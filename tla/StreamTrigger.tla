---------------------------- MODULE StreamTrigger ----------------------------
(***************************************************************************)
(* The DynamoDB Streams trigger of a service, internal/trigger/dynamodb.go *)
(* (a goroutine of `simla up`): it asks once for an iterator per shard,    *)
(* then polls every shard, moving the iterator on before it hands the      *)
(* records to scheduler.Invoke, until SIGINT cancels its context.          *)
(*                                                                         *)
(* The stream is a service outside the program; its shards are those that  *)
(* exist when the trigger starts.                                          *)
(***************************************************************************)
EXTENDS Integers, Sequences

CONSTANTS Shard,             \* the shards of the stream
          MaxRecords,        \* bound: [Shard -> records written to it]
          Limit,             \* records per GetRecords (100)
          Malformed,         \* [Shard -> the records that do not decode]
          StartingPosition,  \* "LATEST" or "TRIM_HORIZON"
          NoIterator,        \* the empty token, or none
          Expired,           \* a token the stream does not accept any more
          NoShard            \* nothing is being invoked

StreamAssumption ==
    /\ MaxRecords \in [Shard -> Nat] /\ Limit \in Nat \ {0}
    /\ Malformed \in [Shard -> SUBSET Nat]
    /\ StartingPosition \in {"LATEST", "TRIM_HORIZON"}
    /\ NoIterator \notin Int /\ Expired \notin Int \cup {NoIterator} /\ NoShard \notin Shard

VARIABLES stopped,    \* the process's context is done
          written,    \* [Shard -> number of records written]
          closed,     \* [Shard -> no more records will be written]
          start,      \* history: [Shard -> position of its first iterator]
          iterator,   \* [Shard -> records before its iterator, or a token above]
          stream,     \* the trigger: pc, shards still to poll, shard, batch
          delivered,  \* history: [Shard -> records given to each invocation]
          lost        \* history: [Shard -> records in batches that were dropped]

vars == <<stopped, written, closed, start, iterator, stream, delivered, lost>>

\* newDynamoDBStream may refuse the configuration, and `simla up` goes on
\* without the trigger.
Init ==
    /\ stopped = FALSE
    /\ written \in {w \in [Shard -> UNION {0 .. MaxRecords[s] : s \in Shard}] :
                      \A s \in Shard : w[s] <= MaxRecords[s]}
    /\ closed = [s \in Shard |-> FALSE]
    /\ start = [s \in Shard |-> NoIterator]
    /\ iterator = [s \in Shard |-> NoIterator]
    /\ stream \in [pc : {"describe", "ended"}, todo : {{}}, shard : {NoShard}, batch : {{}}]
    /\ delivered = [s \in Shard |-> <<>>]
    /\ lost = [s \in Shard |-> {}]

-----------------------------------------------------------------------------
(* The stream *)

Positioned(s) == iterator[s] \notin {NoIterator, Expired}

Write(s) ==
    /\ ~closed[s]
    /\ written[s] < MaxRecords[s]
    /\ written' = [written EXCEPT ![s] = @ + 1]
    /\ UNCHANGED <<stopped, closed, start, iterator, stream, delivered, lost>>

Close(s) ==
    /\ ~closed[s]
    /\ closed' = [closed EXCEPT ![s] = TRUE]
    /\ UNCHANGED <<stopped, written, start, iterator, stream, delivered, lost>>

\* Five minutes pass in which the iterator of s is not used with success:
\* polls fail, or an invocation takes that long.
Expire(s) ==
    /\ Positioned(s)
    /\ iterator' = [iterator EXCEPT ![s] = Expired]
    /\ UNCHANGED <<stopped, written, closed, start, stream, delivered, lost>>

-----------------------------------------------------------------------------
(* The stream trigger *)

\* DescribeStream fails, and Start with it.
DescribeFails ==
    /\ stream.pc = "describe"
    /\ stream' = [stream EXCEPT !.pc = "ended"]
    /\ UNCHANGED <<stopped, written, closed, start, iterator, delivered, lost>>

Describe ==
    /\ ~stopped
    /\ stream.pc = "describe"
    /\ stream' = [stream EXCEPT !.pc = "init", !.todo = Shard]
    /\ UNCHANGED <<stopped, written, closed, start, iterator, delivered, lost>>

\* GetShardIterator.  A shard for which it fails is skipped: it has no
\* iterator now, and nothing will ask for one again.
InitShard(s) ==
    /\ stream.pc = "init"
    /\ s \in stream.todo
    /\ \/ /\ ~stopped
          /\ LET position == IF StartingPosition = "LATEST" THEN written[s] ELSE 0
             IN  /\ iterator' = [iterator EXCEPT ![s] = position]
                 /\ start' = [start EXCEPT ![s] = position]
       \/ UNCHANGED <<iterator, start>>
    /\ stream' = [stream EXCEPT !.todo = @ \ {s}]
    /\ UNCHANGED <<stopped, written, closed, delivered, lost>>

\* Initialisation or a poll is over, and the loop waits for a tick.
Await ==
    /\ stream.pc \in {"init", "poll"}
    /\ stream.todo = {}
    /\ stream' = [stream EXCEPT !.pc = "waiting"]
    /\ UNCHANGED <<stopped, written, closed, start, iterator, delivered, lost>>

\* A tick: every shard that has an iterator is polled, in map order.
Poll ==
    /\ stream.pc = "waiting"
    /\ stream' = [stream EXCEPT !.pc = "poll",
                                !.todo = {s \in Shard : iterator[s] # NoIterator}]
    /\ UNCHANGED <<stopped, written, closed, start, iterator, delivered, lost>>

\* GetRecords returns the records up to the one numbered last, perhaps none.
\* The iterator moves on before the records are handed to the function.  The
\* last page of a closed shard has no next iterator.
GetRecords(s, last) ==
    /\ ~stopped
    /\ stream.pc = "poll"
    /\ s \in stream.todo
    /\ last <= written[s] /\ last <= iterator[s] + Limit
    /\ iterator' = [iterator EXCEPT ![s] =
                       IF closed[s] /\ last = written[s] THEN NoIterator ELSE last]
    /\ stream' = IF last = iterator[s] THEN [stream EXCEPT !.todo = @ \ {s}]
                 ELSE [pc |-> "payload", todo |-> stream.todo \ {s},
                       shard |-> s, batch |-> iterator[s] + 1 .. last]
    /\ UNCHANGED <<stopped, written, closed, start, delivered, lost>>

\* Variant with a bug: the iterator is assigned before the error is looked at.
GetRecordsFailsForgetting(s) ==
    /\ stream.pc = "poll"
    /\ s \in stream.todo
    /\ iterator' = [iterator EXCEPT ![s] = NoIterator]
    /\ stream' = [stream EXCEPT !.todo = @ \ {s}]
    /\ UNCHANGED <<stopped, written, closed, start, delivered, lost>>

\* GetRecords fails: the same iterator is used by the next poll, also when it
\* has expired.
GetRecordsFails(s) ==
    /\ stream.pc = "poll"
    /\ s \in stream.todo
    /\ stream' = [stream EXCEPT !.todo = @ \ {s}]
    /\ UNCHANGED <<stopped, written, closed, start, iterator, delivered, lost>>

\* Variant with a bug: an invocation that fails puts the iterator back.
DeliverAgain ==
    /\ stream.pc = "payload"
    /\ delivered' = [delivered EXCEPT ![stream.shard] =
                        Append(@, stream.batch \ Malformed[stream.shard])]
    /\ \E first \in stream.batch :
         iterator' \in {iterator, [iterator EXCEPT ![stream.shard] = first - 1]}
    /\ stream' = [stream EXCEPT !.pc = "poll", !.shard = NoShard, !.batch = {}]
    /\ UNCHANGED <<stopped, written, closed, start, lost>>

\* buildDynamoDBPayload leaves out the records that do not decode, and d.invoke
\* is called with the others, also when none is left.  Its error is logged and
\* forgotten.
Deliver ==
    /\ stream.pc = "payload"
    /\ delivered' = [delivered EXCEPT ![stream.shard] =
                        Append(@, stream.batch \ Malformed[stream.shard])]
    /\ stream' = [stream EXCEPT !.pc = "poll", !.shard = NoShard, !.batch = {}]
    /\ UNCHANGED <<stopped, written, closed, start, iterator, lost>>

\* The event does not encode.  The batch is given to nobody, and the iterator
\* stands behind it already.
PayloadFails ==
    /\ stream.pc = "payload"
    /\ lost' = [lost EXCEPT ![stream.shard] = @ \cup stream.batch]
    /\ stream' = [stream EXCEPT !.pc = "poll", !.shard = NoShard, !.batch = {}]
    /\ UNCHANGED <<stopped, written, closed, start, iterator, delivered>>

EndStream ==
    /\ stopped
    /\ stream.pc = "waiting"
    /\ stream' = [stream EXCEPT !.pc = "ended"]
    /\ UNCHANGED <<stopped, written, closed, start, iterator, delivered, lost>>

\* SIGINT.
Signal ==
    /\ ~stopped
    /\ stopped' = TRUE
    /\ UNCHANGED <<written, closed, start, iterator, stream, delivered, lost>>

-----------------------------------------------------------------------------
(* The specification *)

Next ==
    \/ Describe \/ DescribeFails
    \/ \E s \in Shard : InitShard(s) \/ GetRecordsFails(s)
    \/ \E s \in Shard : /\ Positioned(s)
                        /\ \E last \in iterator[s] .. written[s] : GetRecords(s, last)
    \/ Await \/ Poll \/ Deliver \/ PayloadFails \/ EndStream
    \/ \E s \in Shard : Write(s) \/ Close(s) \/ Expire(s)
    \/ Signal

Spec == Init /\ [][Next]_vars

\* GetRecords returns a record that is there.
GetsMore(s) ==
    /\ Positioned(s)
    /\ \E last \in iterator[s] + 1 .. written[s] : GetRecords(s, last)

\* The goroutine runs, and a select in which the context is done and a tick
\* is pending takes the first in the end, since Go chooses at random.  The
\* stream answers a shard's polls in the end, and not for ever with nothing.
Fairness ==
    /\ WF_vars(\/ Describe \/ DescribeFails \/ Await \/ Poll
               \/ Deliver \/ PayloadFails
               \/ \E s \in Shard : InitShard(s) \/ GetRecordsFails(s))
    /\ SF_vars(EndStream)
    /\ \A s \in Shard : SF_vars(GetsMore(s))

-----------------------------------------------------------------------------
(* Properties *)

StreamPC == {"describe", "init", "waiting", "poll", "payload", "ended"}

TypeOK ==
    /\ stopped \in BOOLEAN
    /\ written \in [Shard -> Nat] /\ closed \in [Shard -> BOOLEAN]
    /\ start \in [Shard -> Nat \cup {NoIterator}]
    /\ iterator \in [Shard -> Nat \cup {NoIterator, Expired}]
    /\ stream \in [pc : StreamPC, todo : SUBSET Shard, shard : Shard \cup {NoShard},
                   batch : SUBSET Nat]
    /\ delivered \in [Shard -> Seq(SUBSET Nat)]
    /\ lost \in [Shard -> SUBSET Nat]

GivenOut(s) == UNION {delivered[s][i] : i \in DOMAIN delivered[s]}

\* The records of a shard are given out in the order they were written, none
\* twice, whatever polls and invocations fail.  From the starting position to
\* the last that was given out none is left out, but those that do not decode
\* and those in a batch for which no event could be built.
InOrderOnce ==
    \A s \in Shard :
        /\ \A i, j \in DOMAIN delivered[s] :
             i < j => \A m \in delivered[s][i], n \in delivered[s][j] : m < n
        /\ \A n \in GivenOut(s) :
             /\ n > start[s]
             /\ start[s] + 1 .. n \subseteq GivenOut(s) \cup Malformed[s] \cup lost[s]
=============================================================================
