----------------------------- MODULE SQSTrigger -----------------------------
(***************************************************************************)
(* The SQS trigger of a service (internal/trigger/sqs.go): a goroutine of  *)
(* `simla up` that polls a queue, hands each batch to scheduler.Invoke and *)
(* deletes its messages, until its context is cancelled by SIGINT.         *)
(*                                                                         *)
(* base.invoke swallows the error of the invocation, so the trigger cannot *)
(* know whether the function has handled the batch.                        *)
(*                                                                         *)
(* The queue is a service outside the program.  A message that was         *)
(* received is invisible until its visibility timeout; a call can fail     *)
(* before the service sees it or after the service has acted.              *)
(***************************************************************************)
EXTENDS Integers, FiniteSets

CONSTANTS Message,    \* messages producers may send
          BatchSize   \* of the trigger

SQSAssumption == BatchSize \in 1 .. 10

VARIABLES stopped,    \* the process's context is done
          queue,      \* [Message -> where the message is]
          sqs,        \* the trigger: pc and the messages it works on
          attempted,  \* history: messages given to an invocation
          handled,    \* history: messages the function has handled
          cut         \* history: messages whose invocation SIGINT interrupted

vars == <<stopped, queue, sqs, attempted, handled, cut>>

\* newSQS may refuse the configuration, and `simla up` goes on without the
\* trigger.
Init ==
    /\ stopped = FALSE
    /\ queue = [m \in Message |-> "unsent"]
    /\ sqs \in [pc : {"waiting", "ended"}, batch : {{}}]
    /\ attempted = {} /\ handled = {} /\ cut = {}

-----------------------------------------------------------------------------
(* The queue *)

Send(m) ==
    /\ queue[m] = "unsent"
    /\ queue' = [queue EXCEPT ![m] = "visible"]
    /\ UNCHANGED <<stopped, sqs, attempted, handled, cut>>

\* The visibility timeout of m passes, whatever the trigger is doing with it.
Reappear(m) ==
    /\ queue[m] = "inflight"
    /\ queue' = [queue EXCEPT ![m] = "visible"]
    /\ UNCHANGED <<stopped, sqs, attempted, handled, cut>>

-----------------------------------------------------------------------------
(* The SQS trigger *)

Batches == {b \in SUBSET {m \in Message : queue[m] = "visible"} :
               Cardinality(b) \in 1 .. BatchSize}

TakeFlight(batch) ==
    queue' = [m \in Message |-> IF m \in batch THEN "inflight" ELSE queue[m]]

\* A tick: ReceiveMessage returns a batch, which becomes the payload.
Receive(batch) ==
    /\ ~stopped
    /\ sqs.pc = "waiting"
    /\ TakeFlight(batch)
    /\ sqs' = [pc |-> "invoking", batch |-> batch]
    /\ UNCHANGED <<stopped, attempted, handled, cut>>

\* Variant with a bug: an error of ReceiveMessage ends the loop.
ReceiveLostGivesUp(batch) ==
    /\ ~stopped
    /\ sqs.pc = "waiting"
    /\ TakeFlight(batch)
    /\ sqs' = [pc |-> "ended", batch |-> {}]
    /\ UNCHANGED <<stopped, attempted, handled, cut>>

\* A tick whose response does not arrive, or does not parse: the messages
\* are in flight all the same.
ReceiveLost(batch) ==
    /\ ~stopped
    /\ sqs.pc = "waiting"
    /\ TakeFlight(batch)
    /\ UNCHANGED <<stopped, sqs, attempted, handled, cut>>

\* Variant with a bug: the function keeps on after the invocation was given up.
InvokeEndsEarly ==
    /\ sqs.pc = "invoking"
    /\ attempted' \in {attempted, attempted \cup sqs.batch}
    /\ handled' \in {handled, handled \cup sqs.batch}
    /\ cut' = IF stopped THEN cut \cup sqs.batch ELSE cut
    /\ sqs' = [sqs EXCEPT !.pc = "deleting"]
    /\ UNCHANGED <<stopped, queue>>

\* s.invoke: the function may handle the batch or not; what Invoke returned
\* is logged and forgotten.
InvokeEnds ==
    /\ sqs.pc = "invoking"
    /\ attempted' = attempted \cup sqs.batch
    /\ handled' \in {handled, handled \cup sqs.batch}
    /\ cut' = IF stopped THEN cut \cup sqs.batch ELSE cut
    /\ sqs' = [sqs EXCEPT !.pc = "deleting"]
    /\ UNCHANGED <<stopped, queue>>

\* Variant with a bug: deletions do not use the process's context.
DeleteDetached(m) ==
    /\ sqs.pc = "deleting"
    /\ m \in sqs.batch
    /\ queue' \in {queue, [queue EXCEPT ![m] = "deleted"]}
    /\ sqs' = [sqs EXCEPT !.batch = @ \ {m}]
    /\ UNCHANGED <<stopped, attempted, handled, cut>>

\* Variant with a bug: a batch is deleted as soon as it has been received.
DeleteEarly(m) ==
    /\ sqs.pc \in {"invoking", "deleting"}
    /\ m \in sqs.batch
    /\ \/ ~stopped /\ queue' = [queue EXCEPT ![m] = "deleted"]
       \/ UNCHANGED queue
    /\ sqs' = [sqs EXCEPT !.batch = @ \ {m}]
    /\ UNCHANGED <<stopped, attempted, handled, cut>>

\* DeleteMessage, for each message of the batch.  Its failure is logged.  With
\* the context done no request is sent.
Delete(m) ==
    /\ sqs.pc = "deleting"
    /\ m \in sqs.batch
    /\ \/ ~stopped /\ queue' = [queue EXCEPT ![m] = "deleted"]
       \/ UNCHANGED queue
    /\ sqs' = [sqs EXCEPT !.batch = @ \ {m}]
    /\ UNCHANGED <<stopped, attempted, handled, cut>>

Settled ==
    /\ sqs.pc = "deleting"
    /\ sqs.batch = {}
    /\ sqs' = [sqs EXCEPT !.pc = "waiting"]
    /\ UNCHANGED <<stopped, queue, attempted, handled, cut>>

\* Variant with a bug: the context is looked at only when nothing is there to
\* receive.
EndSQSWhenDrained ==
    /\ stopped
    /\ sqs.pc = "waiting"
    /\ \A m \in Message : queue[m] # "visible"
    /\ sqs' = [sqs EXCEPT !.pc = "ended"]
    /\ UNCHANGED <<stopped, queue, attempted, handled, cut>>

\* The select sees the context done.
EndSQS ==
    /\ stopped
    /\ sqs.pc = "waiting"
    /\ sqs' = [sqs EXCEPT !.pc = "ended"]
    /\ UNCHANGED <<stopped, queue, attempted, handled, cut>>

\* SIGINT.
Signal ==
    /\ ~stopped
    /\ stopped' = TRUE
    /\ UNCHANGED <<queue, sqs, attempted, handled, cut>>

-----------------------------------------------------------------------------
(* The specification *)

Next ==
    \/ \E batch \in Batches : Receive(batch) \/ ReceiveLost(batch)
    \/ InvokeEnds
    \/ \E m \in Message : Delete(m)
    \/ Settled
    \/ EndSQS
    \/ \E m \in Message : Send(m) \/ Reappear(m)
    \/ Signal

Spec == Init /\ [][Next]_vars

\* The goroutine runs; with the context done it cannot receive, and the select
\* sees the context in the end, since Go chooses at random.  The queue: a
\* visibility timeout ends, and a message that is asked for again and again is
\* received in the end.
Fairness ==
    /\ WF_vars(InvokeEnds \/ Settled \/ \E m \in Message : Delete(m))
    /\ WF_vars(EndSQS)
    /\ \A m \in Message : /\ WF_vars(Reappear(m))
                          /\ SF_vars(\E batch \in Batches : m \in batch /\ Receive(batch))

-----------------------------------------------------------------------------
(* Properties *)

SQSType == [pc : {"waiting", "invoking", "deleting", "ended"}, batch : SUBSET Message]

TypeOK ==
    /\ stopped \in BOOLEAN
    /\ queue \in [Message -> {"unsent", "visible", "inflight", "deleted"}]
    /\ sqs \in SQSType
    /\ attempted \subseteq Message /\ handled \subseteq attempted /\ cut \subseteq attempted

\* A message leaves the queue only after an invocation was given it, although
\* responses are lost, timeouts pass in the middle of an invocation and
\* messages come twice.
DeletedWasAttempted == \A m \in Message : queue[m] = "deleted" => m \in attempted

\* A message whose invocation was interrupted by SIGINT stays in the queue for
\* the next session.
KeepsInterrupted ==
    \A m \in cut : queue[m] # "deleted" => queue'[m] # "deleted"

\* A message whose invocation failed is not deleted (triggers.md: "failed
\* messages are not deleted and will be retried on the next poll").
DeletedWasHandled == \A m \in Message : queue[m] = "deleted" => m \in handled
=============================================================================
