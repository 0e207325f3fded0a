-------------------------- MODULE SQSTriggerProofs --------------------------
(***************************************************************************)
(* Proofs about SQSTrigger, for any number of messages and any batch size. *)
(*                                                                         *)
(* DeletedWasAttempted is not inductive: a deletion goes by the batch the  *)
(* trigger holds, so the invariant says where that batch has been.  No     *)
(* message of an interrupted invocation is deleted because the context     *)
(* that interrupted it is also the context of the deletions.               *)
(***************************************************************************)
EXTENDS SQSTrigger, TLAPS

BatchAttempted == sqs.pc = "deleting" => sqs.batch \subseteq attempted

SQSInv == TypeOK /\ BatchAttempted /\ DeletedWasAttempted

\* A message is interrupted only by the end of the context, which lasts.
CutWhenStopped == cut # {} => stopped

LEMMA SQSInit == Init => SQSInv /\ CutWhenStopped
BY DEF Init, SQSInv, TypeOK, SQSType, BatchAttempted, DeletedWasAttempted, CutWhenStopped

LEMMA ReceiveKeeps ==
    ASSUME SQSInv, NEW batch \in Batches, Receive(batch) \/ ReceiveLost(batch)
    PROVE  SQSInv'
<1>1. batch \subseteq Message
  BY DEF Batches
<1>2. /\ queue' \in [Message -> {"unsent", "visible", "inflight", "deleted"}]
      /\ \A m \in Message : queue'[m] = "deleted" => queue[m] = "deleted"
  BY DEF Receive, ReceiveLost, TakeFlight, SQSInv, TypeOK
<1>3. sqs' \in SQSType /\ sqs'.pc # "deleting"
  BY <1>1 DEF Receive, ReceiveLost, SQSInv, TypeOK, SQSType
<1> QED
  BY <1>2, <1>3 DEF Receive, ReceiveLost, SQSInv, TypeOK, BatchAttempted, DeletedWasAttempted

LEMMA InvokeEndsKeeps ==
    ASSUME SQSInv, InvokeEnds
    PROVE  SQSInv'
<1>1. sqs' \in SQSType /\ sqs'.batch = sqs.batch /\ sqs.batch \subseteq Message
  BY DEF InvokeEnds, SQSInv, TypeOK, SQSType
<1> QED
  BY <1>1 DEF InvokeEnds, SQSInv, TypeOK, BatchAttempted, DeletedWasAttempted

LEMMA DeleteKeeps ==
    ASSUME SQSInv, NEW m \in Message, Delete(m)
    PROVE  SQSInv'
<1>1. sqs' \in SQSType /\ sqs'.batch \subseteq sqs.batch /\ m \in attempted
  BY DEF Delete, SQSInv, TypeOK, SQSType, BatchAttempted
<1>2. /\ queue' \in [Message -> {"unsent", "visible", "inflight", "deleted"}]
      /\ \A n \in Message : queue'[n] = "deleted" => queue[n] = "deleted" \/ n = m
  BY DEF Delete, SQSInv, TypeOK
<1> QED
  BY <1>1, <1>2 DEF Delete, SQSInv, TypeOK, BatchAttempted, DeletedWasAttempted

LEMMA QueueKeeps ==
    ASSUME SQSInv, NEW m \in Message, Send(m) \/ Reappear(m)
    PROVE  SQSInv'
<1>1. /\ queue' \in [Message -> {"unsent", "visible", "inflight", "deleted"}]
      /\ \A n \in Message : queue'[n] = "deleted" => queue[n] = "deleted"
  BY DEF Send, Reappear, SQSInv, TypeOK
<1> QED
  BY <1>1 DEF Send, Reappear, SQSInv, TypeOK, BatchAttempted, DeletedWasAttempted

LEMMA SQSNext == SQSInv /\ [Next]_vars => SQSInv'
<1> SUFFICES ASSUME SQSInv, [Next]_vars
             PROVE  SQSInv'
  OBVIOUS
<1>1. CASE UNCHANGED vars
  BY <1>1 DEF vars, SQSInv, TypeOK, BatchAttempted, DeletedWasAttempted
<1>2. CASE Settled \/ EndSQS
  <2>1. sqs' \in SQSType /\ sqs'.pc # "deleting"
    BY <1>2 DEF Settled, EndSQS, SQSInv, TypeOK, SQSType
  <2> QED
    BY <1>2, <2>1 DEF Settled, EndSQS, SQSInv, TypeOK, BatchAttempted, DeletedWasAttempted
<1>3. CASE Signal
  BY <1>3 DEF Signal, SQSInv, TypeOK, BatchAttempted, DeletedWasAttempted
<1> QED
  BY <1>1, <1>2, <1>3, ReceiveKeeps, InvokeEndsKeeps, DeleteKeeps, QueueKeeps DEF Next

LEMMA CutNext == CutWhenStopped /\ [Next]_vars => CutWhenStopped'
BY DEF CutWhenStopped, Next, vars, Receive, ReceiveLost, InvokeEnds, Delete, Settled,
       EndSQS, Send, Reappear, Signal

\* The queue, the trigger and the histories have the type they are said to
\* have; what was handled or interrupted was attempted.
THEOREM SQSTypeThm == Spec => []TypeOK
<1>1. SQSInv => TypeOK
  BY DEF SQSInv
<1> QED
  BY <1>1, SQSInit, SQSNext, PTL DEF Spec

\* A message leaves the queue only after an invocation was given it.
THEOREM DeletedWasAttemptedThm == Spec => []DeletedWasAttempted
<1>1. SQSInv => DeletedWasAttempted
  BY DEF SQSInv
<1> QED
  BY <1>1, SQSInit, SQSNext, PTL DEF Spec

\* A message whose invocation SIGINT interrupted stays in the queue.
THEOREM InterruptedIsKeptThm == Spec => [][KeepsInterrupted]_vars
<1>1. SQSInv /\ CutWhenStopped /\ [Next]_vars => [KeepsInterrupted]_vars
  <2> SUFFICES ASSUME SQSInv, CutWhenStopped, Next
               PROVE  KeepsInterrupted
    OBVIOUS
  <2> SUFFICES ASSUME NEW m \in cut, queue[m] # "deleted"
               PROVE  queue'[m] # "deleted"
    BY DEF KeepsInterrupted
  <2>1. stopped /\ m \in Message
    BY DEF CutWhenStopped, SQSInv, TypeOK
  <2> QED
    BY <2>1 DEF Next, Receive, ReceiveLost, InvokeEnds, Delete, Settled, EndSQS, Send,
                Reappear, Signal, TakeFlight, SQSInv, TypeOK
<1> QED
  BY <1>1, SQSInit, SQSNext, CutNext, PTL DEF Spec
=============================================================================
