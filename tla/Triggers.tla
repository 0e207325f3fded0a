------------------------------ MODULE Triggers ------------------------------
(***************************************************************************)
(* The triggers of a service (internal/trigger): `simla up` starts one     *)
(* goroutine for each configured trigger, all under the context of the     *)
(* process.  A service here has one trigger, of any kind; triggers share   *)
(* nothing but that context.                                               *)
(***************************************************************************)
EXTENDS Integers, Sequences, FiniteSets

CONSTANTS Message, BatchSize,                                       \* SQSTrigger
          Shard, MaxRecords, Malformed, Limit, StartingPosition, NoIterator,
          Expired, NoShard,                                         \* StreamTrigger
          Publication, FunctionFails,                               \* SNSTrigger
          File, Filters, MaxEvents, NoEvent                         \* S3Trigger

VARIABLES configured,  \* the kind of the trigger
          stopped,     \* the process's context is done
          queue, sqs, attempted, handled, cut,
          written, closed, start, iterator, stream, delivered, lost,
          sns, request, delivery,
          schedule, tick, owed,
          filter, files, events, s3, reported, moved

sqsVars      == <<queue, sqs, attempted, handled, cut>>
streamVars   == <<written, closed, start, iterator, stream, delivered, lost>>
snsVars      == <<sns, request, delivery>>
scheduleVars == <<schedule, tick, owed>>
s3Vars       == <<filter, files, events, s3, reported, moved>>

vars == <<configured, stopped, sqsVars, streamVars, snsVars, scheduleVars, s3Vars>>

SQS      == INSTANCE SQSTrigger
Stream   == INSTANCE StreamTrigger
SNS      == INSTANCE SNSTrigger
Schedule == INSTANCE ScheduleTrigger
S3       == INSTANCE S3Trigger

ASSUME TriggersAssumption ==
    SQS!SQSAssumption /\ Stream!StreamAssumption /\ S3!S3Assumption

-----------------------------------------------------------------------------
(* The specification *)

\* trigger.New chooses by the type; a trigger of another kind is not there,
\* and neither is what it would watch.
Init ==
    /\ configured \in {"sqs", "dynamodb-stream", "sns", "schedule", "s3"}
    /\ SQS!Init /\ Stream!Init /\ SNS!Init /\ Schedule!Init /\ S3!Init
    /\ IF configured = "sqs"      THEN TRUE ELSE sqs.pc = "ended"
    /\ IF configured = "sns"      THEN TRUE ELSE sns = "ended"
    /\ IF configured = "schedule" THEN TRUE ELSE schedule = "ended"
    /\ IF configured = "s3" THEN TRUE ELSE s3.pc = "ended" /\ files = {} /\ filter = {}
    /\ IF configured = "dynamodb-stream" THEN TRUE
       ELSE stream.pc = "ended" /\ \A s \in Shard : written[s] = 0

SQSStep ==
    /\ configured = "sqs" /\ SQS!Next
    /\ UNCHANGED <<configured, streamVars, snsVars, scheduleVars, s3Vars>>

StreamStep ==
    /\ configured = "dynamodb-stream" /\ Stream!Next
    /\ UNCHANGED <<configured, sqsVars, snsVars, scheduleVars, s3Vars>>

SNSStep ==
    /\ configured = "sns" /\ SNS!Next
    /\ UNCHANGED <<configured, sqsVars, streamVars, scheduleVars, s3Vars>>

ScheduleStep ==
    /\ configured = "schedule" /\ Schedule!Next
    /\ UNCHANGED <<configured, sqsVars, streamVars, snsVars, s3Vars>>

S3Step ==
    /\ configured = "s3" /\ S3!Next
    /\ UNCHANGED <<configured, sqsVars, streamVars, snsVars, scheduleVars>>

Next == SQSStep \/ StreamStep \/ SNSStep \/ ScheduleStep \/ S3Step

\* Each trigger's own fairness: goroutines run, invocations end, services
\* answer in the end.
Spec ==
    /\ Init /\ [][Next]_vars
    /\ SQS!Fairness /\ Stream!Fairness /\ SNS!Fairness
    /\ Schedule!Fairness /\ S3!Fairness

-----------------------------------------------------------------------------
(* Properties *)

TypeOK ==
    /\ configured \in {"sqs", "dynamodb-stream", "sns", "schedule", "s3"}
    /\ SQS!TypeOK /\ Stream!TypeOK /\ SNS!TypeOK /\ Schedule!TypeOK /\ S3!TypeOK

\* A message leaves the queue only after an invocation was given it.
DeletedWasAttempted == SQS!DeletedWasAttempted

\* A message whose invocation SIGINT interrupted stays in the queue.
InterruptedIsKept == [][SQS!KeepsInterrupted]_vars

\* The records of a shard are given out in order, none twice, and none left out
\* but those that do not decode and those in a batch that was dropped.
InOrderOnce == Stream!InOrderOnce

\* What a service was last told of a file is what became of it.
ReportsFollow == S3!ReportsFollow

\* Every message that is sent while the trigger runs is given to an invocation,
\* although responses are lost and visibility timeouts pass at any time, unless
\* the session ends.
EveryMessageAttempted ==
    \A m \in Message :
        (queue[m] = "visible" /\ sqs.pc # "ended") ~> (m \in attempted \/ stopped)

\* What is written to a shard that has an iterator, and decodes, is given out in
\* the end, also when the shard is closed, unless the session ends, its batch
\* is dropped because no event could be built of it, or its iterator expires,
\* after which the shard is silent for the rest of the session.
EveryRecordDelivered ==
    \A s \in Shard : \A n \in 1 .. MaxRecords[s] \ Malformed[s] :
        (start[s] # NoIterator /\ n > start[s] /\ written[s] >= n)
            ~> \/ n \in Stream!GivenOut(s)
               \/ n \in lost[s]
               \/ stopped
               \/ iterator[s] = Expired

\* Every publication that is accepted is answered, and its goroutine ends,
\* while the session goes on: main does not wait for it after SIGINT.
DeliveriesEnd ==
    \A p \in Publication :
        request[p] = "open" ~>
            \/ request[p] = "answered" /\ delivery[p] \in {"handled", "failed"}
            \/ stopped

\* However long an invocation takes, and however many ticks it made the ticker
\* drop, another one follows for them, unless the session ends.
TicksAreMadeUp == owed ~> (~owed \/ stopped)

\* SIGINT ends every trigger, whatever it is doing, and whatever keeps
\* arriving for it.
LoopsEnd ==
    stopped ~> /\ sqs.pc = "ended" /\ stream.pc = "ended" /\ s3.pc = "ended"
               /\ sns = "ended" /\ schedule = "ended"
=============================================================================
