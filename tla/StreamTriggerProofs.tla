------------------------- MODULE StreamTriggerProofs -------------------------
(***************************************************************************)
(* Proofs about StreamTrigger, for any shards, records and page size.      *)
(*                                                                         *)
(* The order of the records rests on where an iterator stands: at the last *)
(* record that was fetched, which was given out, is in the batch in hand,  *)
(* or was lost with its batch.  A shard gets its iterator once, before     *)
(* anything of it was fetched.                                             *)
(***************************************************************************)
EXTENDS StreamTrigger, TLAPS

\* The records of s that were fetched and not yet given out or lost.
Pending(s) == IF stream.pc = "payload" /\ stream.shard = s THEN stream.batch ELSE {}

\* What became of the records of s, or will when the batch is through.
Fetched(s) == GivenOut(s) \cup Malformed[s] \cup lost[s] \cup Pending(s)

PendingShard == stream.pc = "payload" => stream.shard \in Shard

IteratorBehind ==
    \A s \in Shard : Positioned(s) =>
        /\ start[s] \in Nat /\ start[s] <= iterator[s]
        /\ start[s] + 1 .. iterator[s] \subseteq Fetched(s)
        /\ \A n \in GivenOut(s) \cup Pending(s) : n <= iterator[s]

BatchFollows ==
    \A s \in Shard : \A n \in Pending(s) :
        /\ start[s] \in Nat /\ n > start[s]
        /\ start[s] + 1 .. n \subseteq Fetched(s)
        /\ \A m \in GivenOut(s) : m < n

NothingYet ==
    /\ stream.pc \in {"describe", "init"} =>
         \A s \in Shard : (stream.pc = "describe" \/ s \in stream.todo) =>
             start[s] = NoIterator /\ delivered[s] = <<>>
    /\ \A s \in Shard : GivenOut(s) # {} => start[s] \in Nat

StreamInv ==
    /\ TypeOK /\ PendingShard /\ IteratorBehind /\ BatchFollows /\ NothingYet
    /\ InOrderOnce

StreamFields ==
    [pc : StreamPC, todo : SUBSET Shard, shard : Shard \cup {NoShard}, batch : SUBSET Nat]

Union(d) == UNION {d[i] : i \in DOMAIN d}

LEMMA UnionAppended ==
    ASSUME NEW d \in Seq(SUBSET Nat), NEW b \in SUBSET Nat
    PROVE  /\ Append(d, b) \in Seq(SUBSET Nat)
           /\ Union(Append(d, b)) = Union(d) \cup b
<1> DEFINE e == Append(d, b)
<1>1. /\ e \in Seq(SUBSET Nat) /\ Len(d) \in Nat /\ DOMAIN d = 1 .. Len(d)
      /\ DOMAIN e = 1 .. Len(d) + 1 /\ e[Len(d) + 1] = b
      /\ \A i \in 1 .. Len(d) : e[i] = d[i]
  OBVIOUS
<1>2. DOMAIN e = DOMAIN d \cup {Len(d) + 1}
  BY <1>1
<1>3. {e[i] : i \in DOMAIN e} = {d[i] : i \in DOMAIN d} \cup {b}
  <2> HIDE DEF e
  <2> QED
    BY <1>1, <1>2
<1> HIDE DEF e
<1>4. Union(e) = Union(d) \cup b
  BY <1>3 DEF Union
<1> QED
  BY <1>1, <1>4 DEF e

LEMMA Nothing ==
    ASSUME NEW s, delivered[s] = <<>>
    PROVE  GivenOut(s) = {}
BY DEF GivenOut

LEMMA GivenTyped ==
    ASSUME TypeOK, NEW s \in Shard
    PROVE  GivenOut(s) \subseteq Nat
BY DEF TypeOK, GivenOut

LEMMA StreamInit == StreamAssumption /\ Init => StreamInv
<1> SUFFICES ASSUME StreamAssumption, Init PROVE StreamInv
  OBVIOUS
<1>1. TypeOK
  <2>1. <<>> \in Seq(SUBSET Nat)
    OBVIOUS
  <2>2. stream \in StreamFields /\ delivered \in [Shard -> Seq(SUBSET Nat)]
    BY <2>1 DEF Init, StreamFields, StreamPC
  <2>3. written \in [Shard -> Nat] /\ lost \in [Shard -> SUBSET Nat]
    BY DEF Init, StreamAssumption
  <2> QED
    BY <2>2, <2>3 DEF Init, TypeOK, StreamFields
<1>2. stream.pc \in {"describe", "ended"} /\ \A s \in Shard : ~Positioned(s)
  BY DEF Init, Positioned
<1>3. \A s \in Shard : Pending(s) = {} /\ delivered[s] = <<>> /\ GivenOut(s) = {}
  BY <1>2, Nothing DEF Init, Pending
<1>4. InOrderOnce
  <2> DEFINE none == <<>>
  <2>1. none \in Seq(SUBSET Nat) /\ Len(none) = 0 /\ DOMAIN none = {}
    OBVIOUS
  <2>2. \A s \in Shard : delivered[s] = none
    BY <1>3
  <2> HIDE DEF none
  <2> QED
    BY <1>3, <2>1, <2>2 DEF InOrderOnce
<1> QED
  BY <1>1, <1>2, <1>3, <1>4
  DEF Init, StreamInv, PendingShard, IteratorBehind, BatchFollows, NothingYet

\* A step that gives nothing out, and after which iterators stand where they
\* stood or nowhere.
LEMMA QuietKeeps ==
    ASSUME StreamInv, TypeOK', UNCHANGED <<start, delivered, lost>>,
           \A s \in Shard : Positioned(s)' => iterator'[s] = iterator[s],
           \/ UNCHANGED stream
           \/ /\ stream.pc # "payload" /\ stream'.pc \notin {"payload", "describe"}
              /\ stream'.pc = "init" =>
                    stream.pc = "describe" \/ (stream.pc = "init" /\ stream'.todo \subseteq stream.todo)
    PROVE  StreamInv'
<1>1. /\ \A s \in Shard : /\ Pending(s)' = Pending(s) /\ GivenOut(s)' = GivenOut(s)
                          /\ Fetched(s)' = Fetched(s)
      /\ PendingShard'
  BY DEF StreamInv, PendingShard, Pending, GivenOut, Fetched
<1>2. \A s \in Shard : Positioned(s)' => Positioned(s)
  BY DEF Positioned
<1>3. IteratorBehind' /\ BatchFollows'
  BY <1>1, <1>2 DEF StreamInv, IteratorBehind, BatchFollows
<1>4. NothingYet'
  BY <1>1 DEF StreamInv, NothingYet, TypeOK
<1>5. InOrderOnce'
  BY <1>1 DEF StreamInv, InOrderOnce
<1> QED
  BY <1>1, <1>3, <1>4, <1>5 DEF StreamInv

LEMMA InitShardKeeps ==
    ASSUME StreamAssumption, StreamInv, NEW s \in Shard, InitShard(s)
    PROVE  StreamInv'
<1>1. /\ stream.pc = "init" /\ stream'.pc = "init" /\ s \in stream.todo
      /\ stream'.todo = stream.todo \ {s} /\ stream' \in StreamFields
      /\ UNCHANGED <<stopped, written, closed, delivered, lost>>
  BY DEF InitShard, StreamInv, TypeOK, StreamFields
<1>2. CASE UNCHANGED <<iterator, start>>
  <2>1. TypeOK'
    BY <1>1, <1>2 DEF StreamInv, TypeOK, StreamFields
  <2> QED
    BY <1>1, <1>2, <2>1, QuietKeeps
<1>3. ASSUME NEW position \in Nat,
             iterator' = [iterator EXCEPT ![s] = position],
             start' = [start EXCEPT ![s] = position]
      PROVE  StreamInv'
  <2>1. TypeOK'
    BY <1>1, <1>3 DEF StreamInv, TypeOK, StreamFields
  <2>2. delivered[s] = <<>> /\ start[s] = NoIterator /\ GivenOut(s) = {}
    BY <1>1, Nothing DEF StreamInv, NothingYet
  <2>3. \A t \in Shard : /\ Pending(t) = {} /\ Pending(t)' = {}
                         /\ GivenOut(t)' = GivenOut(t) /\ Fetched(t)' = Fetched(t)
    BY <1>1 DEF Pending, GivenOut, Fetched
  <2>4. /\ start'[s] = position /\ iterator'[s] = position
        /\ \A t \in Shard : t # s => start'[t] = start[t] /\ iterator'[t] = iterator[t]
    BY <1>1, <1>3 DEF StreamInv, TypeOK
  <2>5. IteratorBehind'
    <3>1. position + 1 .. position = {}
      OBVIOUS
    <3>2. \A t \in Shard : t # s => (Positioned(t)' <=> Positioned(t))
      BY <2>4 DEF Positioned
    <3> QED
      BY <2>2, <2>3, <2>4, <3>1, <3>2 DEF StreamInv, IteratorBehind
  <2>6. BatchFollows'
    BY <2>3 DEF BatchFollows
  <2>7. NothingYet'
    BY <1>1, <2>2, <2>3, <2>4 DEF StreamInv, NothingYet
  <2>8. InOrderOnce'
    BY <1>1, <2>2, <2>3, <2>4 DEF StreamInv, InOrderOnce
  <2> QED
    BY <1>1, <2>1, <2>5, <2>6, <2>7, <2>8 DEF StreamInv, PendingShard
<1>4. (IF StartingPosition = "LATEST" THEN written[s] ELSE 0) \in Nat
  BY DEF StreamInv, TypeOK
<1> QED
  BY <1>2, <1>3, <1>4 DEF InitShard

LEMMA GetRecordsKeeps ==
    ASSUME StreamAssumption, StreamInv, NEW s \in Shard, Positioned(s),
           NEW last \in iterator[s] .. written[s], GetRecords(s, last)
    PROVE  StreamInv'
<1> DEFINE from == iterator[s]
           batch == from + 1 .. last
<1>1. from \in Nat /\ last \in Nat /\ from <= last /\ start[s] \in Nat
  BY DEF StreamInv, TypeOK, Positioned, IteratorBehind
<1>2. batch \in SUBSET Nat /\ (last = from => batch = {})
  BY <1>1
<1>3. /\ stream.pc = "poll" /\ UNCHANGED <<stopped, written, closed, start, delivered, lost>>
      /\ stream'.pc = IF last = from THEN "poll" ELSE "payload"
      /\ last # from => stream'.shard = s /\ stream'.batch = batch
      /\ stream' \in StreamFields
  BY <1>2 DEF GetRecords, StreamInv, TypeOK, StreamFields, StreamPC
<1>4. /\ iterator' \in [Shard -> Nat \cup {NoIterator, Expired}]
      /\ iterator'[s] \in {NoIterator, last}
      /\ \A t \in Shard : t # s => iterator'[t] = iterator[t]
  BY <1>1 DEF GetRecords, StreamInv, TypeOK
<1>5. TypeOK'
  BY <1>3, <1>4 DEF StreamInv, TypeOK, StreamFields
<1>6. /\ \A t \in Shard : Pending(t) = {} /\ GivenOut(t)' = GivenOut(t)
      /\ \A t \in Shard : t # s => Pending(t)' = {} /\ Fetched(t)' = Fetched(t)
      /\ Pending(s)' = batch /\ Fetched(s)' = Fetched(s) \cup batch
  BY <1>2, <1>3 DEF Pending, GivenOut, Fetched
<1>7. /\ start[s] + 1 .. from \subseteq Fetched(s)
      /\ \A n \in GivenOut(s) : n <= from /\ n \in Nat /\ n > start[s]
  BY <1>6, GivenTyped DEF StreamInv, IteratorBehind, InOrderOnce
<1>8. start[s] + 1 .. last \subseteq Fetched(s)'
  <2>1. start[s] + 1 .. last \subseteq (start[s] + 1 .. from) \cup batch
    BY <1>1
  <2> QED
    BY <1>6, <1>7, <2>1
<1>9. IteratorBehind'
  <2>1. \A n \in GivenOut(s)' \cup Pending(s)' : n <= last
    BY <1>1, <1>6, <1>7
  <2>2. \A t \in Shard : t # s => (Positioned(t)' <=> Positioned(t))
    BY <1>4 DEF Positioned
  <2>3. /\ Positioned(s)' => iterator'[s] = last
        /\ start[s] <= last
    <3>1. start[s] <= from
      BY DEF StreamInv, IteratorBehind
    <3> QED
      BY <1>1, <1>4, <3>1 DEF Positioned
  <2> QED
    BY <1>1, <1>3, <1>4, <1>6, <1>8, <2>1, <2>2, <2>3 DEF StreamInv, IteratorBehind
<1>10. BatchFollows'
  <2>1. start[s] <= from
    BY DEF StreamInv, IteratorBehind
  <2>2. ASSUME NEW n \in batch
        PROVE  /\ n > start[s] /\ start[s] + 1 .. n \subseteq Fetched(s)'
               /\ \A m \in GivenOut(s)' : m < n
    <3>1. n \in Nat /\ n > from /\ n <= last
      BY <1>1
    <3>2. start[s] + 1 .. n \subseteq start[s] + 1 .. last
      BY <1>1, <3>1
    <3>3. \A m \in GivenOut(s)' : m < n
      BY <1>1, <1>6, <1>7, <3>1
    <3> QED
      BY <1>1, <1>8, <2>1, <3>1, <3>2, <3>3
  <2> QED
    BY <1>1, <1>3, <1>6, <2>2 DEF BatchFollows
<1>11. NothingYet' /\ InOrderOnce'
  BY <1>3, <1>6 DEF StreamInv, NothingYet, InOrderOnce
<1>12. PendingShard'
  BY <1>1, <1>3 DEF StreamInv, PendingShard
<1> QED
  BY <1>5, <1>9, <1>10, <1>11, <1>12 DEF StreamInv

\* The batch in hand is given out, without some of its records that do not
\* decode, or is lost.
LEMMA BatchKeeps ==
    ASSUME StreamInv, NEW s \in Shard, stream.pc = "payload", stream.shard = s,
           stream' = [stream EXCEPT !.pc = "poll", !.shard = NoShard, !.batch = {}],
           UNCHANGED <<stopped, written, closed, start, iterator>>,
           NEW b \in SUBSET Nat, b \subseteq stream.batch,
           TypeOK',
           \A t \in Shard : t # s => delivered'[t] = delivered[t] /\ lost'[t] = lost[t],
           \/ delivered'[s] = Append(delivered[s], b)
           \/ delivered'[s] = delivered[s] /\ b = {},
           Fetched(s)' = Fetched(s), GivenOut(s)' = GivenOut(s) \cup b
    PROVE  StreamInv'
<1> DEFINE batch == stream.batch
<1>1. batch \in SUBSET Nat /\ stream'.pc = "poll" /\ stream' \in StreamFields
  BY DEF StreamInv, TypeOK, StreamFields, StreamPC
<1>2. /\ Pending(s) = batch /\ \A t \in Shard : Pending(t)' = {}
      /\ \A t \in Shard : t # s => /\ Pending(t) = {} /\ GivenOut(t)' = GivenOut(t)
                                  /\ Fetched(t)' = Fetched(t)
  BY <1>1 DEF Pending, GivenOut, Fetched
<1>3. \A t \in Shard : Positioned(t)' <=> Positioned(t)
  BY DEF Positioned
<1>4. IteratorBehind'
  <2>1. \A n \in GivenOut(s)' \cup Pending(s)' : n \in GivenOut(s) \cup Pending(s)
    BY <1>2
  <2> QED
    BY <1>2, <1>3, <2>1 DEF StreamInv, IteratorBehind
<1>5. BatchFollows' /\ PendingShard'
  BY <1>1, <1>2 DEF BatchFollows, PendingShard
<1>6. \A n \in b : /\ start[s] \in Nat /\ n > start[s]
                   /\ start[s] + 1 .. n \subseteq Fetched(s)
                   /\ \A m \in GivenOut(s) : m < n
  BY <1>2 DEF StreamInv, BatchFollows
<1>7. NothingYet'
  <2>1. GivenOut(s)' # {} => start[s] \in Nat
    BY <1>6 DEF StreamInv, NothingYet
  <2> QED
    BY <1>1, <1>2, <2>1 DEF StreamInv, NothingYet
<1>8. InOrderOnce'
  <2>1. ASSUME NEW n \in GivenOut(s)'
        PROVE  /\ n > start[s]
               /\ start[s] + 1 .. n \subseteq GivenOut(s)' \cup Malformed[s] \cup lost'[s]
    <3>1. Fetched(s)' = GivenOut(s)' \cup Malformed[s] \cup lost'[s]
      BY <1>2 DEF Fetched
    <3>2. CASE n \in b
      BY <1>6, <3>1, <3>2
    <3>3. CASE n \in GivenOut(s)
      <4>1. start[s] + 1 .. n \subseteq GivenOut(s) \cup Malformed[s] \cup lost[s] /\ n > start[s]
        BY <3>3 DEF StreamInv, InOrderOnce
      <4>2. GivenOut(s) \cup Malformed[s] \cup lost[s] \subseteq Fetched(s)
        BY DEF Fetched
      <4> QED
        BY <3>1, <4>1, <4>2
    <3> QED
      BY <3>2, <3>3
  <2>2. ASSUME NEW i \in DOMAIN delivered'[s], NEW j \in DOMAIN delivered'[s], i < j,
               NEW m \in delivered'[s][i], NEW n \in delivered'[s][j]
        PROVE  m < n
    <3>1. CASE delivered'[s] = delivered[s]
      BY <2>2, <3>1 DEF StreamInv, InOrderOnce
    <3>2. CASE delivered'[s] = Append(delivered[s], b)
      <4>1. PICK d \in Seq(SUBSET Nat) : d = delivered[s]
        BY DEF StreamInv, TypeOK
      <4>2. /\ Len(d) \in Nat /\ DOMAIN d = 1 .. Len(d)
            /\ DOMAIN delivered'[s] = 1 .. Len(d) + 1
            /\ delivered'[s][Len(d) + 1] = b
            /\ \A k \in 1 .. Len(d) : delivered'[s][k] = d[k]
        BY <3>2, <4>1
      <4>3. i \in 1 .. Len(d) /\ delivered'[s][i] = d[i]
        BY <2>2, <4>2
      <4>4. CASE j \in 1 .. Len(d)
        <5>1. delivered'[s][j] = d[j]
          BY <4>2, <4>4
        <5> QED
          BY <2>2, <4>1, <4>2, <4>3, <4>4, <5>1 DEF StreamInv, InOrderOnce
      <4>5. CASE j = Len(d) + 1
        <5>1. n \in b
          BY <2>2, <4>2, <4>5
        <5>2. m \in GivenOut(s)
          BY <2>2, <4>1, <4>2, <4>3 DEF GivenOut
        <5> QED
          BY <1>6, <5>1, <5>2
      <4> QED
        BY <4>2, <4>4, <4>5
    <3> QED
      BY <3>1, <3>2
  <2>3. \A t \in Shard : t # s =>
          /\ \A i, j \in DOMAIN delivered'[t] :
               i < j => \A m \in delivered'[t][i], n \in delivered'[t][j] : m < n
          /\ \A n \in GivenOut(t)' :
               /\ n > start[t]
               /\ start[t] + 1 .. n \subseteq GivenOut(t)' \cup Malformed[t] \cup lost'[t]
    BY <1>2 DEF StreamInv, InOrderOnce
  <2> QED
    BY <2>1, <2>2, <2>3 DEF InOrderOnce
<1> QED
  BY <1>4, <1>5, <1>7, <1>8 DEF StreamInv

LEMMA DeliverKeeps ==
    ASSUME StreamAssumption, StreamInv, NEW s \in Shard, stream.shard = s, Deliver
    PROVE  StreamInv'
<1> DEFINE b == stream.batch \ Malformed[s]
<1>1. /\ stream.pc = "payload" /\ stream.batch \in SUBSET Nat
      /\ delivered \in [Shard -> Seq(SUBSET Nat)] /\ delivered[s] \in Seq(SUBSET Nat)
      /\ delivered' = [delivered EXCEPT ![s] = Append(delivered[s], b)]
      /\ stream' = [stream EXCEPT !.pc = "poll", !.shard = NoShard, !.batch = {}]
      /\ UNCHANGED <<stopped, written, closed, start, iterator, lost>>
  BY DEF Deliver, StreamInv, TypeOK
<1>2. b \in SUBSET Nat /\ b \subseteq stream.batch
  BY <1>1
<1>3. PICK c \in SUBSET Nat : c = b
  BY <1>2
<1> HIDE DEF b
<1>4. Append(delivered[s], c) \in Seq(SUBSET Nat)
  BY <1>1, UnionAppended
<1>5. /\ delivered'[s] = Append(delivered[s], c)
      /\ \A t \in Shard : t # s => delivered'[t] = delivered[t]
      /\ delivered' \in [Shard -> Seq(SUBSET Nat)]
  BY <1>1, <1>3, <1>4
<1>6. Union(Append(delivered[s], c)) = Union(delivered[s]) \cup c
  BY <1>1, UnionAppended
<1>7. GivenOut(s)' = GivenOut(s) \cup c
  BY <1>5, <1>6 DEF GivenOut, Union
<1>8. Fetched(s)' = Fetched(s)
  <2>1. Pending(s) = stream.batch /\ Pending(s)' = {}
    BY <1>1 DEF Pending
  <2>2. c \cup Malformed[s] = stream.batch \cup Malformed[s]
    BY <1>3 DEF b
  <2> QED
    BY <1>1, <1>7, <2>1, <2>2 DEF Fetched
<1>9. TypeOK'
  BY <1>1, <1>5 DEF StreamInv, TypeOK, StreamPC
<1> QED
  BY <1>1, <1>2, <1>3, <1>5, <1>7, <1>8, <1>9, BatchKeeps

LEMMA PayloadFailsKeeps ==
    ASSUME StreamInv, NEW s \in Shard, stream.shard = s, PayloadFails
    PROVE  StreamInv'
<1>1. /\ stream.pc = "payload" /\ stream.batch \in SUBSET Nat
      /\ lost' = [lost EXCEPT ![s] = lost[s] \cup stream.batch]
      /\ stream' = [stream EXCEPT !.pc = "poll", !.shard = NoShard, !.batch = {}]
      /\ UNCHANGED <<stopped, written, closed, start, iterator, delivered>>
  BY DEF PayloadFails, StreamInv, TypeOK
<1>2. TypeOK'
  BY <1>1 DEF StreamInv, TypeOK, StreamPC
<1>3. /\ lost'[s] = lost[s] \cup stream.batch
      /\ \A t \in Shard : t # s => lost'[t] = lost[t]
  BY <1>1 DEF StreamInv, TypeOK
<1>4. GivenOut(s)' = GivenOut(s) \cup {}
  BY <1>1 DEF GivenOut
<1>5. Fetched(s)' = Fetched(s)
  <2>1. Pending(s) = stream.batch /\ Pending(s)' = {}
    BY <1>1 DEF Pending
  <2> QED
    BY <1>3, <1>4, <2>1 DEF Fetched
<1>6. {} \in SUBSET Nat /\ {} \subseteq stream.batch
  OBVIOUS
<1> QED
  BY <1>1, <1>2, <1>3, <1>4, <1>5, <1>6, BatchKeeps

LEMMA StreamNext == StreamAssumption /\ StreamInv /\ [Next]_vars => StreamInv'
<1> SUFFICES ASSUME StreamAssumption, StreamInv, [Next]_vars
             PROVE  StreamInv'
  OBVIOUS
<1>1. CASE UNCHANGED vars \/ Signal
  <2>1. TypeOK'
    BY <1>1 DEF vars, Signal, StreamInv, TypeOK
  <2> QED
    BY <1>1, <2>1, QuietKeeps DEF vars, Signal
<1>2. CASE Describe \/ DescribeFails \/ Await \/ Poll \/ EndStream
  <2>1. TypeOK'
    <3>1. stream' \in StreamFields
      BY <1>2 DEF Describe, DescribeFails, Await, Poll, EndStream, StreamInv, TypeOK,
         StreamFields, StreamPC
    <3>2. UNCHANGED <<stopped, written, closed, start, iterator, delivered, lost>>
      BY <1>2 DEF Describe, DescribeFails, Await, Poll, EndStream
    <3> QED
      BY <3>1, <3>2 DEF StreamInv, TypeOK, StreamFields
  <2>2. /\ UNCHANGED <<start, delivered, lost, iterator>>
        /\ stream.pc # "payload" /\ stream'.pc \notin {"payload", "describe"}
        /\ stream'.pc = "init" => stream.pc = "describe"
    BY <1>2 DEF Describe, DescribeFails, Await, Poll, EndStream, StreamInv, TypeOK
  <2> QED
    BY <2>1, <2>2, QuietKeeps
<1>3. ASSUME NEW s \in Shard, GetRecordsFails(s)
      PROVE  StreamInv'
  <2>1. TypeOK'
    BY <1>3 DEF GetRecordsFails, StreamInv, TypeOK
  <2>2. /\ UNCHANGED <<start, delivered, lost, iterator>>
        /\ stream.pc = "poll" /\ stream'.pc = "poll"
    BY <1>3 DEF GetRecordsFails, StreamInv, TypeOK
  <2> QED
    BY <2>1, <2>2, QuietKeeps
<1>4. ASSUME NEW s \in Shard, Write(s) \/ Close(s) \/ Expire(s)
      PROVE  StreamInv'
  <2>1. TypeOK'
    <3>1. CASE Write(s)
      BY <3>1 DEF Write, StreamInv, TypeOK
    <3>2. CASE Close(s)
      BY <3>2 DEF Close, StreamInv, TypeOK
    <3>3. CASE Expire(s)
      BY <3>3 DEF Expire, StreamInv, TypeOK
    <3> QED
      BY <1>4, <3>1, <3>2, <3>3
  <2>2. UNCHANGED <<start, delivered, lost, stream>>
    BY <1>4 DEF Write, Close, Expire
  <2>3. \A t \in Shard : Positioned(t)' => iterator'[t] = iterator[t]
    BY <1>4 DEF Write, Close, Expire, Positioned, StreamInv, TypeOK
  <2> QED
    BY <2>1, <2>2, <2>3, QuietKeeps
<1>5. CASE Deliver \/ PayloadFails
  <2>1. stream.shard \in Shard
    BY <1>5 DEF Deliver, PayloadFails, StreamInv, PendingShard
  <2>2. PICK s \in Shard : stream.shard = s
    BY <2>1
  <2> QED
    BY <1>5, <2>2, DeliverKeeps, PayloadFailsKeeps
<1> QED
  BY <1>1, <1>2, <1>3, <1>4, <1>5, InitShardKeeps, GetRecordsKeeps DEF Next

\* The stream, the trigger and the histories have the type they are said to
\* have.
THEOREM StreamTypeThm ==
    ASSUME StreamAssumption
    PROVE  Spec => []TypeOK
<1>1. Init => StreamInv
  BY StreamInit
<1>2. StreamInv /\ [Next]_vars => StreamInv'
  BY StreamNext
<1>3. StreamInv => TypeOK
  BY DEF StreamInv
<1> QED
  BY <1>1, <1>2, <1>3, PTL DEF Spec

\* The records of a shard are given out in the order they were written, none
\* twice, and from the starting position on none is left out but those that do
\* not decode and those in a batch that was dropped.
THEOREM InOrderOnceThm ==
    ASSUME StreamAssumption
    PROVE  Spec => []InOrderOnce
<1>1. Init => StreamInv
  BY StreamInit
<1>2. StreamInv /\ [Next]_vars => StreamInv'
  BY StreamNext
<1>3. StreamInv => InOrderOnce
  BY DEF StreamInv
<1> QED
  BY <1>1, <1>2, <1>3, PTL DEF Spec
=============================================================================
