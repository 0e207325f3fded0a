--------------------------- MODULE TriggersProofs ---------------------------
(***************************************************************************)
(* What is proved of the SQS and the stream trigger by themselves holds of *)
(* a service that may have any trigger: the others touch nothing of theirs *)
(* but the context of the process, and that only by SIGINT.  Of the S3     *)
(* trigger: what is reported follows what was delivered                    *)
(* (ReportsFollowThm).  And all triggers together keep their types.        *)
(***************************************************************************)
EXTENDS Triggers, TLAPS

SQSP    == INSTANCE SQSTriggerProofs
StreamP == INSTANCE StreamTriggerProofs

-----------------------------------------------------------------------------
(* The context that the triggers share *)

\* A step leaves the context alone, or is SIGINT.
ContextStep == stopped' = stopped \/ (~stopped /\ stopped' = TRUE)

LEMMA SQSContext == SQS!Next => ContextStep
BY DEF ContextStep, SQS!Next, SQS!Receive, SQS!ReceiveLost, SQS!InvokeEnds, SQS!Delete,
       SQS!Settled, SQS!EndSQS, SQS!Send, SQS!Reappear, SQS!Signal

LEMMA StreamContext == Stream!Next => ContextStep
BY DEF ContextStep, Stream!Next, Stream!Describe, Stream!DescribeFails, Stream!InitShard,
       Stream!GetRecords, Stream!GetRecordsFails, Stream!Await, Stream!Poll,
       Stream!Deliver, Stream!PayloadFails, Stream!EndStream, Stream!Write, Stream!Close, Stream!Expire,
       Stream!Signal

LEMMA SNSContext == SNS!Next => ContextStep
BY DEF ContextStep, SNS!Next, SNS!Listen, SNS!Close, SNS!Closed, SNS!ServeFails,
       SNS!Publish, SNS!Handler, SNS!Spawn, SNS!Answer, SNS!Invocation,
       SNS!Deliver, SNS!DeliveryFails, SNS!Signal

LEMMA ScheduleContext == Schedule!Next => ContextStep
BY DEF ContextStep, Schedule!Next, Schedule!Tick, Schedule!Take, Schedule!InvokeEnds,
       Schedule!End, Schedule!Signal

LEMMA S3Context == S3!Next => ContextStep
BY DEF ContextStep, S3!Next, S3!Put, S3!Delete, S3!Chmod, S3!Rename, S3!Take,
       S3!InvokeEnds, S3!End, S3!Environment, S3!Signal

-----------------------------------------------------------------------------
(* A step of the service is a step of each trigger, or a stutter *)

LEMMA SQSStepOrSignal == [Next]_vars => [SQSP!Next]_(SQSP!vars)
<1> SUFFICES ASSUME [Next]_vars
             PROVE  [SQSP!Next]_(SQSP!vars)
  OBVIOUS
<1>1. CASE SQSStep
  <2>1. SQS!Batches = SQSP!Batches
    BY Zenon DEF SQS!Batches, SQSP!Batches, SQS!Cardinality, SQSP!Cardinality
  <2> QED
    BY <1>1, <2>1 DEF SQSStep, SQS!Next, SQSP!Next,
       SQS!Receive, SQSP!Receive, SQS!ReceiveLost, SQSP!ReceiveLost,
       SQS!TakeFlight, SQSP!TakeFlight, SQS!InvokeEnds, SQSP!InvokeEnds,
       SQS!Delete, SQSP!Delete, SQS!Settled, SQSP!Settled, SQS!EndSQS, SQSP!EndSQS,
       SQS!Send, SQSP!Send, SQS!Reappear, SQSP!Reappear, SQS!Signal, SQSP!Signal
<1>2. CASE StreamStep \/ SNSStep \/ ScheduleStep \/ S3Step
  <2>1. UNCHANGED sqsVars
    BY <1>2 DEF StreamStep, SNSStep, ScheduleStep, S3Step
  <2>2. ContextStep
    BY <1>2, StreamContext, SNSContext, ScheduleContext, S3Context
    DEF StreamStep, SNSStep, ScheduleStep, S3Step
  <2> QED
    BY <2>1, <2>2 DEF sqsVars, ContextStep, SQSP!Next, SQSP!Signal, SQSP!vars
<1>3. CASE UNCHANGED vars
  BY <1>3 DEF vars, sqsVars, SQSP!vars
<1> QED
  BY <1>1, <1>2, <1>3 DEF Next

LEMMA StreamStepOrSignal == [Next]_vars => [StreamP!Next]_(StreamP!vars)
<1> SUFFICES ASSUME [Next]_vars
             PROVE  [StreamP!Next]_(StreamP!vars)
  OBVIOUS
<1>1. CASE StreamStep
  BY <1>1 DEF StreamStep, Stream!Next, StreamP!Next, Stream!Positioned, StreamP!Positioned,
     Stream!Describe, StreamP!Describe, Stream!DescribeFails, StreamP!DescribeFails,
     Stream!InitShard, StreamP!InitShard, Stream!GetRecords, StreamP!GetRecords,
     Stream!GetRecordsFails, StreamP!GetRecordsFails, Stream!Await, StreamP!Await,
     Stream!Poll, StreamP!Poll, Stream!Deliver, StreamP!Deliver,
     Stream!PayloadFails, StreamP!PayloadFails,
     Stream!EndStream, StreamP!EndStream, Stream!Write, StreamP!Write,
     Stream!Close, StreamP!Close, Stream!Expire, StreamP!Expire,
     Stream!Signal, StreamP!Signal
<1>2. CASE SQSStep \/ SNSStep \/ ScheduleStep \/ S3Step
  <2>1. UNCHANGED streamVars
    BY <1>2 DEF SQSStep, SNSStep, ScheduleStep, S3Step
  <2>2. ContextStep
    BY <1>2, SQSContext, SNSContext, ScheduleContext, S3Context
    DEF SQSStep, SNSStep, ScheduleStep, S3Step
  <2> QED
    BY <2>1, <2>2 DEF streamVars, ContextStep, StreamP!Next, StreamP!Signal, StreamP!vars
<1>3. CASE UNCHANGED vars
  BY <1>3 DEF vars, streamVars, StreamP!vars
<1> QED
  BY <1>1, <1>2, <1>3 DEF Next

LEMMA SQSSpecHolds == Init /\ [][Next]_vars => SQSP!Spec
<1>1. Init => SQSP!Init
  BY DEF Init, SQS!Init, SQSP!Init
<1> QED
  BY <1>1, SQSStepOrSignal, PTL DEF SQSP!Spec

LEMMA StreamSpecHolds == Init /\ [][Next]_vars => StreamP!Spec
<1>1. Init => StreamP!Init
  BY DEF Init, Stream!Init, StreamP!Init
<1> QED
  BY <1>1, StreamStepOrSignal, PTL DEF StreamP!Spec

-----------------------------------------------------------------------------
(* The S3 trigger: what events that wait say of a file *)

S3Events == [op : {"create", "write", "remove", "rename", "chmod"}, file : File]

S3Typed ==
    /\ S3!TypeOK
    /\ events \in Seq(S3Events)
    /\ s3 \in [pc : {"waiting", "invoking", "ended"}, event : S3Events \cup {NoEvent}]
    /\ s3.pc = "invoking" => s3.event \in S3Events /\ s3.event.op # "chmod"

About(e, f) == e.file = f /\ e.op # "chmod"
Says(e, f) == (e.op # "remove") = (f \in files)

\* The last event that waits about f says what became of f; when none waits,
\* the event in hand does, and after it the report.
Followed(f) ==
    /\ \A i \in DOMAIN events :
         (About(events[i], f) /\ \A j \in DOMAIN events : j > i => ~About(events[j], f))
            => Says(events[i], f)
    /\ (\A i \in DOMAIN events : ~About(events[i], f)) =>
         IF s3.pc = "invoking" /\ s3.event.file = f THEN Says(s3.event, f)
         ELSE filter = {} /\ reported[f] # "nothing" =>
                 (reported[f] = "s3:ObjectCreated:Put") = (f \in files)

S3Inv == S3Typed /\ \A f \in File \ moved : Followed(f)

LEMMA S3Initially == Init => S3Inv
<1> SUFFICES ASSUME Init PROVE S3Inv
  OBVIOUS
<1>1. S3!Init /\ MaxEvents \in Nat
  BY TriggersAssumption DEF Init, S3!S3Assumption
<1>2. events = <<>> /\ events \in Seq(S3Events) /\ Len(events) = 0 /\ DOMAIN events = {}
  BY <1>1 DEF S3!Init
<1>3. S3Typed
  <2>1. s3 \in [pc : {"waiting", "invoking", "ended"}, event : S3Events \cup {NoEvent}]
        /\ s3.pc \in {"waiting", "ended"}
    BY <1>1 DEF S3!Init
  <2>2. S3!TypeOK
    <3>1. Len(events) <= MaxEvents
      BY <1>1, <1>2
    <3>2. reported \in [File -> {"nothing", "s3:ObjectCreated:Put", "s3:ObjectRemoved:Delete"}]
      BY <1>1 DEF S3!Init
    <3> QED
      BY <1>1, <2>1, <3>1, <3>2 DEF S3!Init, S3!TypeOK
  <2> QED
    BY <1>2, <2>1, <2>2 DEF S3Typed
<1>4. \A f \in File : Followed(f)
  BY <1>1, <1>2 DEF S3!Init, Followed
<1> QED
  BY <1>3, <1>4 DEF S3Inv

\* Events are added that are not about f, or whose last is about f and true.
LEMMA QueueFollows ==
    ASSUME S3Inv, S3!Environment,
           NEW new \in Seq(S3Events), events' = events \o new,
           NEW f \in File,
           \/ /\ f \notin moved /\ (f \in files) = (f \in files')
              /\ \A k \in DOMAIN new : ~About(new[k], f)
           \/ /\ Len(new) > 0 /\ About(new[Len(new)], f)
              /\ (new[Len(new)].op # "remove") = (f \in files')
    PROVE  Followed(f)'
<1>1. PICK old \in Seq(S3Events) : old = events
  BY DEF S3Inv, S3Typed
<1>2. /\ DOMAIN events' = 1 .. Len(old) + Len(new)
      /\ DOMAIN old = 1 .. Len(old) /\ Len(old) \in Nat
      /\ DOMAIN new = 1 .. Len(new) /\ Len(new) \in Nat
      /\ \A i \in 1 .. Len(old) : events'[i] = old[i]
      /\ \A k \in 1 .. Len(new) : events'[Len(old) + k] = new[k]
  BY <1>1
<1>3. UNCHANGED <<s3, filter, reported>>
  BY DEF S3!Environment
<1>4. CASE Len(new) > 0 /\ About(new[Len(new)], f)
           /\ (new[Len(new)].op # "remove") = (f \in files')
  <2> DEFINE last == Len(old) + Len(new)
  <2>1. last \in DOMAIN events' /\ events'[last] = new[Len(new)]
    BY <1>2, <1>4
  <2>2. \A i \in DOMAIN events' : i # last => last > i
    BY <1>2
  <2> QED
    BY <1>4, <2>1, <2>2 DEF Followed, About, Says
<1>5. CASE /\ f \notin moved /\ (f \in files) = (f \in files')
           /\ \A k \in DOMAIN new : ~About(new[k], f)
  <2>1. \A i \in DOMAIN events' : i \notin DOMAIN old => ~About(events'[i], f)
    <3> SUFFICES ASSUME NEW i \in DOMAIN events', i \notin DOMAIN old
                 PROVE  ~About(events'[i], f)
      OBVIOUS
    <3>1. i - Len(old) \in 1 .. Len(new) /\ i = Len(old) + (i - Len(old))
      BY <1>2
    <3>2. events'[i] = new[i - Len(old)]
      BY <1>2, <3>1
    <3> QED
      BY <1>2, <1>5, <3>1, <3>2
  <2>2. \A i \in DOMAIN old : i \in DOMAIN events' /\ events'[i] = old[i]
    BY <1>2
  <2>3. Followed(f)
    BY <1>5 DEF S3Inv
  <2> QED
    BY <1>1, <1>3, <1>5, <2>1, <2>2, <2>3 DEF Followed, About, Says
<1> QED
  BY <1>4, <1>5

LEMMA QueueTyped ==
    ASSUME S3Inv, S3!Environment, NEW new \in Seq(S3Events), S3!Queue(new),
           files' \subseteq File, moved' \subseteq File \ files'
    PROVE  S3Typed'
BY DEF S3Inv, S3Typed, S3!TypeOK, S3!Environment, S3!Queue

LEMMA ChangeFollows ==
    ASSUME S3Inv, NEW f \in File, S3!Put(f) \/ S3!Delete(f) \/ S3!Chmod(f)
    PROVE  S3Inv'
<1>1. PICK e \in S3Events :
         /\ e.file = f /\ S3!Queue(<<e>>) /\ S3!Environment
         /\ \/ e.op = "chmod" /\ UNCHANGED <<files, moved>>
            \/ e.op \in {"create", "write"} /\ files' = files \cup {f} /\ moved' = moved \ {f}
            \/ e.op = "remove" /\ files' = files \ {f} /\ moved' = moved \ {f}
  <2>1. \A op \in {"create", "write", "remove", "chmod"} : S3!Event(op, f) \in S3Events
                /\ S3!Event(op, f).file = f /\ S3!Event(op, f).op = op
    BY DEF S3!Event, S3Events
  <2>2. CASE S3!Put(f)
    BY <2>1, <2>2 DEF S3!Put
  <2>3. CASE S3!Delete(f)
    BY <2>1, <2>3 DEF S3!Delete
  <2>4. CASE S3!Chmod(f)
    BY <2>1, <2>4 DEF S3!Chmod
  <2> QED
    BY <2>2, <2>3, <2>4
<1> DEFINE new == <<e>>
<1>2. new \in Seq(S3Events) /\ Len(new) = 1 /\ DOMAIN new = {1} /\ new[1] = e
  OBVIOUS
<1>3. S3Typed'
  BY <1>1, <1>2, QueueTyped DEF S3Inv, S3Typed, S3!TypeOK
<1>4. ASSUME NEW t \in File \ moved'
      PROVE  Followed(t)'
  <2>1. \/ /\ t \notin moved /\ (t \in files) = (t \in files')
           /\ \A k \in DOMAIN new : ~About(new[k], t)
        \/ /\ Len(new) > 0 /\ About(new[Len(new)], t)
           /\ (new[Len(new)].op # "remove") = (t \in files')
    BY <1>1, <1>2, <1>4 DEF About
  <2> HIDE DEF new
  <2> QED
    BY <1>1, <1>2, <2>1, QueueFollows DEF S3!Queue, new
<1> QED
  BY <1>3, <1>4 DEF S3Inv

LEMMA RenameFollows ==
    ASSUME S3Inv, NEW f \in File, NEW g \in File, S3!Rename(f, g)
    PROVE  S3Inv'
<1> DEFINE new == <<S3!Event("rename", f), S3!Event("create", g)>>
<1>1. /\ new \in Seq(S3Events) /\ Len(new) = 2 /\ DOMAIN new = {1, 2}
      /\ new[1].file = f /\ new[2].file = g /\ new[2].op = "create"
  BY DEF S3!Event, S3Events
<1>2. /\ S3!Queue(new) /\ S3!Environment /\ g # f
      /\ files' = (files \ {f}) \cup {g} /\ moved' = (moved \ {g}) \cup {f}
  BY DEF S3!Rename
<1> HIDE DEF new
<1>3. S3Typed'
  BY <1>1, <1>2, QueueTyped DEF S3Inv, S3Typed, S3!TypeOK
<1>4. ASSUME NEW t \in File \ moved'
      PROVE  Followed(t)'
  <2>1. \/ /\ t \notin moved /\ (t \in files) = (t \in files')
           /\ \A k \in DOMAIN new : ~About(new[k], t)
        \/ /\ Len(new) > 0 /\ About(new[Len(new)], t)
           /\ (new[Len(new)].op # "remove") = (t \in files')
    BY <1>1, <1>2, <1>4 DEF About
  <2> QED
    BY <1>1, <1>2, <2>1, QueueFollows DEF S3!Queue
<1> QED
  BY <1>3, <1>4 DEF S3Inv

LEMMA TakeFollows ==
    ASSUME S3Inv, S3!Take
    PROVE  S3Inv'
<1>1. PICK old \in Seq(S3Events) : old = events /\ old # <<>>
  BY DEF S3Inv, S3Typed, S3!Take
<1> DEFINE e == Head(old)
<1>2. /\ e \in S3Events /\ e = old[1] /\ Len(old) \in Nat \ {0} /\ DOMAIN old = 1 .. Len(old)
      /\ Tail(old) \in Seq(S3Events) /\ Len(Tail(old)) = Len(old) - 1
      /\ DOMAIN Tail(old) = 1 .. Len(old) - 1
      /\ \A i \in 1 .. Len(old) - 1 : Tail(old)[i] = old[i + 1]
  BY <1>1
<1> HIDE DEF e
<1>3. /\ s3.pc = "waiting" /\ events' = Tail(old)
      /\ UNCHANGED <<stopped, filter, files, reported, moved>>
      /\ s3' = IF S3!shouldFire(S3!EventName(e.op))
                 THEN [pc |-> "invoking", event |-> e] ELSE s3
  BY <1>1 DEF S3!Take, e
<1>4. /\ S3!shouldFire(S3!EventName(e.op)) => e.op # "chmod"
      /\ filter = {} /\ e.op # "chmod" => S3!shouldFire(S3!EventName(e.op))
  BY <1>2 DEF S3!shouldFire, S3!EventName, S3!Patterns, S3!Listed, S3Events
<1>5. S3Typed'
  <2>1. events' \in Seq(S3Events) /\ Len(events') <= MaxEvents
    <3>1. MaxEvents \in Nat /\ Len(old) <= MaxEvents
      BY <1>1, TriggersAssumption DEF S3!S3Assumption, S3Inv, S3Typed, S3!TypeOK
    <3> QED
      BY <1>2, <1>3, <3>1
  <2>2. s3' = s3 \/ (s3' = [pc |-> "invoking", event |-> e] /\ e.op # "chmod")
    BY <1>3, <1>4
  <2> QED
    BY <1>2, <1>3, <2>1, <2>2 DEF S3Inv, S3Typed, S3!TypeOK
<1>6. ASSUME NEW t \in File \ moved
      PROVE  Followed(t)'
  <2>1. Followed(t)
    BY DEF S3Inv
  <2>2. ASSUME NEW i \in DOMAIN events', About(events'[i], t),
               \A j \in DOMAIN events' : j > i => ~About(events'[j], t)
        PROVE  Says(events[i], t)'
    <3>1. i + 1 \in DOMAIN old /\ old[i + 1] = events'[i]
      BY <1>2, <1>3
    <3>2. ASSUME NEW j \in DOMAIN old, j > i + 1
          PROVE  ~About(old[j], t)
      <4>1. j - 1 \in DOMAIN events' /\ j - 1 > i /\ events'[j - 1] = old[(j - 1) + 1]
        BY <1>2, <1>3, <3>2
      <4>2. (j - 1) + 1 = j
        BY <1>2
      <4> QED
        BY <2>2, <4>1, <4>2
    <3>3. Says(old[i + 1], t)
      BY <1>1, <2>1, <2>2, <3>1, <3>2 DEF Followed
    <3> QED
      BY <1>3, <3>1, <3>3 DEF Says
  <2>3. ASSUME \A i \in DOMAIN events' : ~About(events'[i], t)
        PROVE  IF s3'.pc = "invoking" /\ s3'.event.file = t THEN Says(s3'.event, t)
               ELSE filter = {} /\ reported[t] # "nothing" =>
                       (reported[t] = "s3:ObjectCreated:Put") = (t \in files)
    <3>1. \A i \in DOMAIN old : i # 1 => ~About(old[i], t)
      <4> SUFFICES ASSUME NEW i \in DOMAIN old, i # 1 PROVE ~About(old[i], t)
        OBVIOUS
      <4>1. i - 1 \in DOMAIN events' /\ events'[i - 1] = old[(i - 1) + 1]
        BY <1>2, <1>3
      <4>2. (i - 1) + 1 = i
        BY <1>2
      <4> QED
        BY <2>3, <4>1, <4>2
    <3>2. CASE About(e, t)
      <4>1. Says(e, t)
        <5>1. 1 \in DOMAIN old /\ \A j \in DOMAIN old : j > 1 => ~About(old[j], t)
          BY <1>2, <3>1
        <5> QED
          BY <1>1, <1>2, <2>1, <3>2, <5>1 DEF Followed
      <4> QED
        BY <1>3, <1>4, <3>2, <4>1 DEF About
    <3>3. CASE ~About(e, t)
      <4>1. \A i \in DOMAIN old : ~About(old[i], t)
        BY <1>2, <3>1, <3>3
      <4>2. filter = {} /\ reported[t] # "nothing" =>
               (reported[t] = "s3:ObjectCreated:Put") = (t \in files)
        BY <1>1, <1>3, <2>1, <4>1 DEF Followed
      <4>3. ~(s3'.pc = "invoking" /\ s3'.event.file = t)
        BY <1>3, <1>4, <3>3 DEF About
      <4> QED
        BY <4>2, <4>3
    <3> QED
      BY <3>2, <3>3
  <2> QED
    BY <1>3, <2>2, <2>3 DEF Followed, About, Says
<1> QED
  BY <1>3, <1>5, <1>6 DEF S3Inv

LEMMA InvokeEndsFollows ==
    ASSUME S3Inv, S3!InvokeEnds
    PROVE  S3Inv'
<1>1. PICK e \in S3Events : e = s3.event /\ e.op # "chmod" /\ e.file \in File
  BY DEF S3Inv, S3Typed, S3Events, S3!InvokeEnds
<1>2. /\ s3.pc = "invoking" /\ s3' = [pc |-> "waiting", event |-> NoEvent]
      /\ reported' = [reported EXCEPT ![e.file] = S3!EventName(e.op)]
      /\ UNCHANGED <<stopped, filter, files, events, moved>>
  BY <1>1 DEF S3!InvokeEnds
<1>3. S3!EventName(e.op) = IF e.op = "remove" THEN "s3:ObjectRemoved:Delete"
                           ELSE "s3:ObjectCreated:Put"
  BY <1>1 DEF S3!EventName, S3Events
<1>4. S3Typed'
  BY <1>1, <1>2, <1>3 DEF S3Inv, S3Typed, S3!TypeOK
<1>5. ASSUME NEW t \in File \ moved
      PROVE  Followed(t)'
  <2>1. Followed(t) /\ reported \in [File -> {"nothing", "s3:ObjectCreated:Put", "s3:ObjectRemoved:Delete"}]
    BY DEF S3Inv, S3Typed, S3!TypeOK
  <2>2. CASE t = e.file
    <3>1. reported'[t] = IF e.op = "remove" THEN "s3:ObjectRemoved:Delete"
                         ELSE "s3:ObjectCreated:Put"
      BY <1>1, <1>2, <1>3, <2>1, <2>2
    <3> QED
      BY <1>1, <1>2, <2>1, <2>2, <3>1 DEF Followed, About, Says
  <2>3. CASE t # e.file
    <3>1. reported'[t] = reported[t]
      BY <1>1, <1>2, <2>1, <2>3
    <3> QED
      BY <1>1, <1>2, <2>1, <2>3, <3>1 DEF Followed, About, Says
  <2> QED
    BY <2>2, <2>3
<1> QED
  BY <1>2, <1>4, <1>5 DEF S3Inv

\* Steps that leave the trigger where it is, or end it.
LEMMA QuietFollows ==
    ASSUME S3Inv, stopped' \in BOOLEAN, UNCHANGED <<filter, files, events, reported, moved>>,
           s3' = s3 \/ (s3.pc = "waiting" /\ s3' = [s3 EXCEPT !.pc = "ended"])
    PROVE  S3Inv'
<1>1. S3Typed'
  BY DEF S3Inv, S3Typed, S3!TypeOK
<1>2. ASSUME NEW t \in File \ moved
      PROVE  Followed(t)'
  <2>1. Followed(t) /\ (s3'.pc = "invoking" <=> s3.pc = "invoking") /\ s3'.event = s3.event
    BY DEF S3Inv, S3Typed
  <2> QED
    BY <2>1 DEF Followed, About, Says
<1> QED
  BY <1>1, <1>2 DEF S3Inv

LEMMA S3Stays == S3Inv /\ [Next]_vars => S3Inv'
<1> SUFFICES ASSUME S3Inv, [Next]_vars PROVE S3Inv'
  OBVIOUS
<1>1. stopped \in BOOLEAN
  BY DEF S3Inv, S3Typed, S3!TypeOK
<1>2. CASE S3Step
  <2>1. CASE S3!End \/ S3!Signal
    BY <1>1, <2>1, QuietFollows DEF S3!End, S3!Signal
  <2> QED
    BY <1>2, <2>1, ChangeFollows, RenameFollows, TakeFollows, InvokeEndsFollows
    DEF S3Step, S3!Next
<1>3. CASE SQSStep \/ StreamStep \/ SNSStep \/ ScheduleStep
  <2>1. UNCHANGED s3Vars
    BY <1>3 DEF SQSStep, StreamStep, SNSStep, ScheduleStep
  <2>2. ContextStep
    BY <1>3, SQSContext, StreamContext, SNSContext, ScheduleContext
    DEF SQSStep, StreamStep, SNSStep, ScheduleStep
  <2> QED
    BY <1>1, <2>1, <2>2, QuietFollows DEF s3Vars, ContextStep
<1>4. CASE UNCHANGED vars
  BY <1>1, <1>4, QuietFollows DEF vars, s3Vars
<1> QED
  BY <1>2, <1>3, <1>4 DEF Next

-----------------------------------------------------------------------------
(* Types of the other two triggers *)

SmallTypeOK ==
    /\ configured \in {"sqs", "dynamodb-stream", "sns", "schedule", "s3"}
    /\ SNS!TypeOK /\ Schedule!TypeOK

LEMMA SNSTyped == SNS!TypeOK /\ SNS!Next => SNS!TypeOK'
<1> SUFFICES ASSUME SNS!TypeOK, SNS!Next PROVE SNS!TypeOK'
  OBVIOUS
<1>1. CASE SNS!Listen \/ SNS!Close \/ SNS!Closed \/ SNS!ServeFails \/ SNS!Signal
  BY <1>1 DEF SNS!Listen, SNS!Close, SNS!Closed, SNS!ServeFails, SNS!Signal, SNS!TypeOK
<1>2. ASSUME NEW p \in Publication, SNS!Publish(p) \/ SNS!Answer(p)
      PROVE  SNS!TypeOK'
  BY <1>2 DEF SNS!Publish, SNS!Answer, SNS!TypeOK
<1>3. ASSUME NEW p \in Publication, SNS!Spawn(p) \/ SNS!Deliver(p) \/ SNS!DeliveryFails(p)
      PROVE  SNS!TypeOK'
  BY <1>3 DEF SNS!Spawn, SNS!Deliver, SNS!DeliveryFails, SNS!TypeOK
<1> QED
  BY <1>1, <1>2, <1>3 DEF SNS!Next, SNS!Handler, SNS!Invocation

LEMMA ScheduleTyped == Schedule!TypeOK /\ Schedule!Next => Schedule!TypeOK'
BY DEF Schedule!TypeOK, Schedule!Next, Schedule!Tick, Schedule!Take, Schedule!InvokeEnds,
       Schedule!End, Schedule!Signal

LEMMA SmallInitially == Init => SmallTypeOK
BY DEF Init, SNS!Init, Schedule!Init, SmallTypeOK, SNS!TypeOK, Schedule!TypeOK

LEMMA SmallStays == SmallTypeOK /\ [Next]_vars => SmallTypeOK'
<1> SUFFICES ASSUME SmallTypeOK, [Next]_vars PROVE SmallTypeOK'
  OBVIOUS
<1>1. ContextStep /\ UNCHANGED configured
  BY SQSContext, StreamContext, SNSContext, ScheduleContext, S3Context
  DEF Next, SQSStep, StreamStep, SNSStep, ScheduleStep, S3Step, vars, ContextStep
<1>2. stopped' \in BOOLEAN
  BY <1>1 DEF ContextStep, SmallTypeOK, Schedule!TypeOK
<1>3. SNS!TypeOK'
  <2>1. CASE SNSStep
    BY <2>1, SNSTyped DEF SNSStep, SmallTypeOK
  <2>2. CASE UNCHANGED snsVars
    BY <1>2, <2>2 DEF snsVars, SmallTypeOK, SNS!TypeOK
  <2> QED
    BY <2>1, <2>2 DEF Next, SQSStep, StreamStep, ScheduleStep, S3Step, vars
<1>4. Schedule!TypeOK'
  <2>1. CASE ScheduleStep
    BY <2>1, ScheduleTyped DEF ScheduleStep, SmallTypeOK
  <2>2. CASE UNCHANGED scheduleVars
    BY <1>2, <2>2 DEF scheduleVars, SmallTypeOK, Schedule!TypeOK
  <2> QED
    BY <2>1, <2>2 DEF Next, SQSStep, StreamStep, SNSStep, S3Step, vars
<1> QED
  BY <1>1, <1>3, <1>4 DEF SmallTypeOK

-----------------------------------------------------------------------------
(* The theorems *)

\* Every trigger, and what it listens to, has the type it is said to have; what
\* the function handled was attempted, what was renamed is gone.
THEOREM TriggersTypeThm == Spec => []TypeOK
<1>1. SQSP!Spec => []SQSP!TypeOK
  BY SQSP!SQSTypeThm
<1>2. StreamP!StreamAssumption
  BY TriggersAssumption DEF Stream!StreamAssumption, StreamP!StreamAssumption
<1>3. StreamP!Spec => []StreamP!TypeOK
  BY <1>2, StreamP!StreamTypeThm
<1>4. SQSP!TypeOK => SQS!TypeOK
  BY DEF SQSP!TypeOK, SQS!TypeOK, SQSP!SQSType, SQS!SQSType
<1>5. StreamP!TypeOK => Stream!TypeOK
  BY DEF StreamP!TypeOK, Stream!TypeOK, StreamP!StreamPC, Stream!StreamPC
<1>6. SQS!TypeOK /\ Stream!TypeOK /\ S3Inv /\ SmallTypeOK => TypeOK
  BY DEF S3Inv, S3Typed, SmallTypeOK, TypeOK
<1> QED
  BY <1>1, <1>3, <1>4, <1>5, <1>6, SQSSpecHolds, StreamSpecHolds, S3Initially, S3Stays,
     SmallInitially, SmallStays, PTL DEF Spec

\* A message leaves the queue only after an invocation was given it (sqs.go),
\* whatever becomes of responses, visibility timeouts and the session.
THEOREM DeletedWasAttemptedThm == Spec => []DeletedWasAttempted
<1>1. SQSP!DeletedWasAttempted <=> DeletedWasAttempted
  BY DEF DeletedWasAttempted, SQS!DeletedWasAttempted, SQSP!DeletedWasAttempted
<1>2. Spec => SQSP!Spec
  BY SQSSpecHolds, PTL DEF Spec
<1>3. SQSP!Spec => []SQSP!DeletedWasAttempted
  BY SQSP!DeletedWasAttemptedThm
<1> QED
  BY <1>1, <1>2, <1>3, PTL

\* A message whose invocation SIGINT interrupted stays in the queue for the
\* next session (sqs.go).
THEOREM InterruptedIsKeptThm == Spec => InterruptedIsKept
<1>1. Spec => SQSP!Spec
  BY SQSSpecHolds, PTL DEF Spec
<1>2. SQSP!Spec => [][SQSP!KeepsInterrupted]_(SQSP!vars)
  BY SQSP!InterruptedIsKeptThm
<1>3. [SQSP!KeepsInterrupted]_(SQSP!vars) => [SQS!KeepsInterrupted]_vars
  BY DEF SQSP!KeepsInterrupted, SQS!KeepsInterrupted, SQSP!vars
<1> QED
  BY <1>1, <1>2, <1>3, PTL DEF InterruptedIsKept

\* The records of a shard are given out in order and none twice; from the
\* position of its first iterator on none is left out, but those that do not
\* decode and those in a batch that was dropped (dynamodb.go).
THEOREM InOrderOnceThm == Spec => []InOrderOnce
<1>1. StreamP!StreamAssumption
  BY TriggersAssumption DEF Stream!StreamAssumption, StreamP!StreamAssumption
<1>2. Spec => StreamP!Spec
  BY StreamSpecHolds, PTL DEF Spec
<1>3. StreamP!Spec => []StreamP!InOrderOnce
  BY <1>1, StreamP!InOrderOnceThm
<1>4. StreamP!InOrderOnce <=> InOrderOnce
  BY DEF InOrderOnce, Stream!InOrderOnce, StreamP!InOrderOnce,
     Stream!GivenOut, StreamP!GivenOut
<1> QED
  BY <1>2, <1>3, <1>4, PTL

\* When no event waits, what a service that listens to everything was last told
\* of a file is what became of it (s3.go), unless the file was renamed.
THEOREM ReportsFollowThm == Spec => []ReportsFollow
<1>1. S3Inv => ReportsFollow
  <2> SUFFICES ASSUME S3Inv, s3.pc = "waiting", events = <<>>, filter = {},
                      NEW f \in File \ moved, reported[f] # "nothing"
               PROVE  (reported[f] = "s3:ObjectCreated:Put") = (f \in files)
    BY DEF ReportsFollow, S3!ReportsFollow
  <2> QED
    BY DEF S3Inv, Followed
<1> QED
  BY <1>1, S3Initially, S3Stays, PTL DEF Spec
=============================================================================
