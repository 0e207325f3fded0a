---------------------------- MODULE ProcessProofs ----------------------------
(***************************************************************************)
(* Proofs about the two modules that run a scheduler inside a process, for *)
(* any number of services, containers and workers, which overlap as they   *)
(* like.                                                                   *)
(*                                                                         *)
(* Session, one run of `simla up --watch`: it keeps its types              *)
(* (SessionTypeThm), what it leaves running is known (LeftIsKnownThm), and *)
(* it forgets no change of the code (ChangesAreKeptThm).                   *)
(*                                                                         *)
(* Commands, any sequence of commands and processes that are killed: every *)
(* container that runs is on file (ContainersAreOnFileThm), the registry   *)
(* says what runs (RunningIsRecordedThm, StoppedHasNoneThm), and the       *)
(* commands implement ServiceLifecycle (LifecycleThm).                     *)
(***************************************************************************)
EXTENDS Commands, Session, SchedulerProofs

USE ServiceAssumption, NoContainerAssumption DEF EntryPC

-----------------------------------------------------------------------------
(* Session: types, whatever happens *)

SessionInv == SchedulerInv /\ SessionTypeOK

LEMMA TheSessionInit == SessionInit => SessionInv
BY TheInit DEF SessionInit, Init, SessionInv, SchedulerInv, StateOK, SessionTypeOK, TypeOK, Phases

\* The steps of the scheduler, whoever takes them.
LEMMA SchedulerStepKeeps ==
    ASSUME SessionInv, SchedulerInv', KeepStale \/ UNCHANGED <<docker, stale>>,
           phase' \in Phases, timer' \in [Service -> BOOLEAN],
           overlapped' \subseteq Service, refused' \subseteq Service
    PROVE  SessionInv'
<1>1. stale' \subseteq Running(docker')
  BY DEF SessionInv, SessionTypeOK, KeepStale, Running
<1> QED
  BY <1>1 DEF SessionInv, SessionTypeOK, TypeOK, StateOK, SchedulerInv

LEMMA ChangeCodeKeeps ==
    ASSUME SessionInv, NEW s \in Service, ChangeCode(s)
    PROVE  SessionInv'
<1>1. SchedulerInv'
  BY NextInv DEF SessionInv, ChangeCode
<1>2. timer' \in [Service -> BOOLEAN]
  BY DEF ChangeCode, SessionInv, SessionTypeOK
<1>3. stale' \subseteq Running(docker')
  BY DEF ChangeCode, SessionInv, SessionTypeOK, RunningFor, vars
<1> QED
  BY <1>1, <1>2, <1>3
  DEF ChangeCode, SessionInv, SessionTypeOK, TypeOK, StateOK, SchedulerInv, vars

\* The worker a timer starts.
Restarting(x, s) ==
    /\ x.pc = "stop" /\ x.task = "reload" /\ x.service = s
    /\ x.cancelled = (phase # "serving")

LEMMA Fires ==
    ASSUME SessionInv, NEW w \in Goroutine, NEW s \in Service, Fire(w, s)
    PROVE  /\ w \in Worker /\ w # Main /\ SchedulerInv /\ ~Busy(w) /\ Up /\ timer[s]
           /\ UNCHANGED <<registry, docker, phase, stale, refused>>
           /\ timer' = [timer EXCEPT ![s] = FALSE]
           /\ overlapped' = overlapped \cup {t \in {s} : \E v \in Worker : Holds(v, t)}
           /\ \E x \in WorkerType : Become(w, x) /\ Restarting(x, s)
<1> DEFINE x == [Resting EXCEPT !.task = "reload", !.service = s, !.pc = "stop",
                                !.cancelled = (phase # "serving")]
<1>1. x \in WorkerType /\ Restarting(x, s)
  BY RestingType, PCs DEF Resting, WorkerType, Task, Restarting
<1>2. Become(w, x)
  BY DEF Fire
<1> HIDE DEF x
<1>3. \E y \in WorkerType : Become(w, y) /\ Restarting(y, s)
  BY <1>1, <1>2
<1> QED
  BY <1>3 DEF Goroutine, SessionInv, Fire, TakesOn

LEMMA FireKeeps ==
    ASSUME SessionInv, NEW w \in Goroutine, NEW s \in Service, Fire(w, s)
    PROVE  SessionInv'
<1>1. PICK x \in WorkerType : Become(w, x) /\ Restarting(x, s)
  BY Fires
<1>2. /\ w \in Worker /\ SchedulerInv /\ UNCHANGED <<registry, docker, phase, stale, refused>>
      /\ timer' = [timer EXCEPT ![s] = FALSE]
      /\ overlapped' = overlapped \cup {t \in {s} : \E v \in Worker : Holds(v, t)}
  BY Fires
<1>3. WorkerStep
  BY <1>1, <1>2, SameRegistry, BecomeStep DEF Restarting
<1>4. SchedulerInv'
  BY <1>2, <1>3, QuietInv
<1>5. /\ timer' \in [Service -> BOOLEAN] /\ phase' \in Phases
      /\ overlapped' \subseteq Service /\ refused' \subseteq Service
  BY <1>2 DEF SessionInv, SessionTypeOK, TypeOK
<1> QED
  BY <1>2, <1>4, <1>5, SchedulerStepKeeps

\* What a signal does to a worker.
Interrupted(x, y) == y = x \/ y = [x EXCEPT !.cancelled = TRUE]

LEMMA InterruptedFields ==
    ASSUME NEW x \in WorkerType, NEW y, Interrupted(x, y)
    PROVE  /\ y \in WorkerType
           /\ y.pc = x.pc /\ y.task = x.task /\ y.service = x.service
           /\ y.id = x.id /\ y.rest = x.rest
BY DEF Interrupted, WorkerType

LEMMA SignalWorkers ==
    ASSUME SessionInv, Signal
    PROVE  /\ worker' = [w \in Worker |-> worker'[w]]
           /\ \A w \in Worker : Interrupted(worker[w], worker'[w])
<1>1. PICK triggered \in SUBSET {w \in Worker : worker[w].task = "invoke"} :
         worker' = [w \in Worker |->
                      IF w \in triggered \/ worker[w].task = "reload"
                        THEN [worker[w] EXCEPT !.cancelled = TRUE]
                        ELSE worker[w]]
  BY DEF Signal
<1>2. \A w \in Worker : worker'[w] = worker[w] \/ worker'[w] = [worker[w] EXCEPT !.cancelled = TRUE]
  BY <1>1
<1> QED
  BY <1>1, <1>2 DEF Interrupted

LEMMA SignalFields ==
    ASSUME SessionInv, Signal
    PROVE  /\ worker' \in [Worker -> WorkerType]
           /\ \A w \in Worker : /\ worker'[w].pc = worker[w].pc
                                /\ worker'[w].task = worker[w].task
                                /\ worker'[w].service = worker[w].service
                                /\ worker'[w].id = worker[w].id
<1>1. \A w \in Worker : worker[w] \in WorkerType
  BY DEF SessionInv, SchedulerInv, StateOK
<1> QED
  BY <1>1, SignalWorkers, InterruptedFields

LEMMA SignalKeeps ==
    ASSUME SessionInv, Signal
    PROVE  SessionInv'
<1>1. WorkerStep
  BY SignalFields DEF WorkerStep, WorkersSound, SessionInv, SchedulerInv, Signal
<1>2. SchedulerInv'
  BY <1>1, QuietInv DEF Signal, SessionInv
<1> QED
  BY <1>2, SchedulerStepKeeps DEF Signal, SessionInv, SessionTypeOK, TypeOK, Phases

LEMMA EndKeeps ==
    ASSUME SessionInv, NEW last \in Phases, ProcessEnds(last)
    PROVE  SessionInv'
<1>1. WorkerStep
  BY RestingType DEF ProcessEnds, WorkerStep, WorkersSound, NoServicePC
<1>2. SchedulerInv'
  BY <1>1, QuietInv DEF ProcessEnds, SessionInv
<1>3. phase' \in Phases /\ timer' \in [Service -> BOOLEAN]
  BY DEF ProcessEnds
<1> QED
  BY <1>2, <1>3, SchedulerStepKeeps DEF ProcessEnds, SessionInv, SessionTypeOK, TypeOK

LEMMA SessionInvNext == SessionInv /\ [SessionNext]_sessionVars => SessionInv'
<1> SUFFICES ASSUME SessionInv, [SessionNext]_sessionVars PROVE SessionInv'
  OBVIOUS
<1>1. /\ SchedulerInv /\ phase \in Phases /\ timer \in [Service -> BOOLEAN]
      /\ overlapped \subseteq Service /\ refused \subseteq Service /\ Goroutine \subseteq Worker
  BY DEF SessionInv, SessionTypeOK, TypeOK, Goroutine
<1>2. ASSUME NEW w \in Goroutine, NEW s \in Service, Request(w, s)
      PROVE  SessionInv'
  <2>1. SchedulerInv'
    BY <1>1, <1>2, InvokeInv DEF Request
  <2>2. overlapped' \subseteq Service
    BY <1>1, <1>2 DEF Request, Invoke, TakesOn
  <2> QED
    BY <1>1, <1>2, <2>1, <2>2, SchedulerStepKeeps DEF Request
<1>3. ASSUME NEW w \in Worker, SchedulerStep(w)
      PROVE  SessionInv'
  <2>1. SchedulerInv'
    BY <1>1, <1>3, NextInv DEF SchedulerStep, Next
  <2>2. overlapped' \subseteq Service
    BY <1>1, <1>3 DEF SchedulerStep, Step
  <2>3. refused' \subseteq Service
    <3>1. Refused(w) => worker[w].service \in Service
      BY <1>1, Working DEF Refused, At, NoServicePC
    <3> QED
      BY <1>1, <1>3, <3>1 DEF SchedulerStep
  <2> QED
    BY <1>1, <1>3, <2>1, <2>2, <2>3, SchedulerStepKeeps DEF SchedulerStep
<1>4. ASSUME NEW w \in Worker, Disconnect(w)
      PROVE  SessionInv'
  <2>1. SchedulerInv'
    BY <1>1, <1>4, NextInv DEF Disconnect, Next
  <2> QED
    BY <1>1, <1>4, <2>1, SchedulerStepKeeps DEF Disconnect, Cancel
<1>5. CASE Drained
  <2>1. SchedulerInv'
    BY <1>1, <1>5, StopAllInv, MainAssumption DEF Drained
  <2>2. phase' \in Phases /\ overlapped' \subseteq Service
    BY <1>1, <1>5 DEF Drained, Phases, StopAll, TakesOn
  <2> QED
    BY <1>1, <1>5, <2>1, <2>2, SchedulerStepKeeps DEF Drained, StopAll
<1>6. CASE Exit \/ ListenFails
  BY <1>6, EndKeeps DEF Exit, ListenFails, Phases
<1>7. CASE UNCHANGED sessionVars
  <2>1. SchedulerInv'
    BY <1>1, <1>7, NextInv DEF sessionVars
  <2> QED
    BY <1>1, <1>7, <2>1, SchedulerStepKeeps DEF sessionVars, vars
<1> QED
  BY <1>2, <1>3, <1>4, <1>5, <1>6, <1>7, FireKeeps, ChangeCodeKeeps, SignalKeeps
  DEF SessionNext

\* Through requests, reloads, code changes and the shutdown, with everything
\* that may fail and overlap: the session keeps its types, and only containers
\* that run are stale.
THEOREM SessionTypeThm == SessionSpec => []SessionTypeOK
<1>1. SessionInv => SessionTypeOK
  BY DEF SessionInv
<1> QED
  BY <1>1, TheSessionInit, SessionInvNext, PTL DEF SessionSpec

-----------------------------------------------------------------------------
(* Session: the record, and what the goroutines are up to                   *)

\* Main does nothing before its StopAll, and no other goroutine runs one.
Roles ==
    /\ phase # "stopping" => ~Busy(Main)
    /\ phase = "stopping" => ~Busy(Main) \/ worker[Main].task = "stopall"
    /\ \A w \in Goroutine : Busy(w) => worker[w].task # "stopall"

\* No entry has the status of one that was read from the file.
NeverUnset == \A s \in Service : Has(registry, s) => registry.services[s].status # "unset"

UpInv == SessionInv /\ (Up => RecordInv /\ Roles /\ NeverUnset)

LEMMA UpInvInit == SessionInit => UpInv
<1> SUFFICES ASSUME SessionInit PROVE UpInv
  OBVIOUS
<1>1. /\ \A w \in Worker : worker[w].pc = "idle"
      /\ \A s \in Service : ~Has(registry, s)
  BY DEF SessionInit, Init, Resting, NewRegistry, Has
<1>2. Roles /\ NeverUnset
  BY <1>1, MainAssumption DEF Roles, NeverUnset, Busy, At, Goroutine
<1> QED
  BY <1>2, TheSessionInit, RecordInit DEF UpInv, SessionInit

\* Steps after which every worker is where it was.
LEMMA SamePlaces ==
    ASSUME RecordInv, SchedulerInv', UNCHANGED <<registry, docker, overlapped>>,
           \A w \in Worker : /\ worker'[w].pc = worker[w].pc
                             /\ worker'[w].task = worker[w].task
                             /\ worker'[w].service = worker[w].service
                             /\ worker'[w].id = worker[w].id
    PROVE  RecordInv'
<1>1. \A w \in Worker, s \in Service : Holds(w, s)' <=> Holds(w, s)
  BY DEF Holds
<1>2. \A s \in Service : Settled(s)' <=> Settled(s)
  BY DEF Settled, Changing
<1>3. \A w \in Worker : worker'[w].service \notin overlapped'
                           => Knows(worker'[w], registry', docker')
  BY DEF RecordInv, Knows
<1>4. /\ \A s \in Service \ overlapped' : \A v, w \in Worker : Holds(v, s)' /\ Holds(w, s)' => v = w
      /\ \A w \in Worker : worker'[w].pc = "next" => worker'[w].task = "stopall"
  BY <1>1 DEF RecordInv
<1>5. \A s \in Service \ overlapped' : Settled(s)' => EntryTrue(registry', docker', s)
  BY <1>2 DEF RecordInv
<1>6. IdsOwned'
  <2>1. \A w \in Worker : Owns(worker'[w], docker')
    BY DEF RecordInv, IdsOwned, Owns
  <2> QED
    BY <2>1 DEF RecordInv, IdsOwned
<1> QED
  BY <1>3, <1>4, <1>5, <1>6 DEF RecordInv

\* A step sets a status that is not unset, or none.
LEMMA StepSets ==
    ASSUME SchedulerInv, NeverUnset, NEW w \in Worker, Step(w)
    PROVE  NeverUnset'
<1>1. registry \in RegistryType /\ worker[w].id \in ContainerId \cup {NoId}
  BY WorkerFields DEF SchedulerInv, StateOK
<1>2. worker[w].pc \in OpPC => worker[w].service \in Service
  BY OperationsHold
<1>3. CASE StartFailed(w) \/ MarkRunning(w) \/ MarkPending(w) \/ MarkStopped(w)
  <2> DEFINE s == worker[w].service
  <2>1. /\ worker[w].pc \in OpPC
        /\ \E status \in Status \ {"unset"} : registry' = SetStatus(registry, s, status)
    BY <1>3 DEF StartFailed, MarkRunning, MarkPending, MarkStopped, At, OpPC, StartPC, StopPC,
                Status
  <2>2. s \in Service
    BY <1>2, <2>1
  <2> HIDE DEF s
  <2> QED
    BY <1>1, <2>1, <2>2, SetStatusEffect DEF NeverUnset, SamePorts
<1>4. CASE MarkHealthy(w)
  <2> DEFINE s == worker[w].service
  <2>1. s \in Service /\ registry' = SetHealth(registry, s, TRUE)
    BY <1>2, <1>4 DEF MarkHealthy, At, OpPC, StartPC
  <2> HIDE DEF s
  <2>2. /\ SamePorts(registry, registry')
        /\ \A t \in Service : t # s => registry'.services[t] = registry.services[t]
        /\ Has(registry, s) => registry'.services[s].status = registry.services[s].status
    BY <1>1, <2>1, SetHealthEffect
  <2> QED
    BY <2>1, <2>2 DEF NeverUnset, SamePorts
<1>5. CASE RecordID(w)
  <2> DEFINE s == worker[w].service
             id == worker[w].id
  <2>1. s \in Service /\ registry' = SetContainerID(registry, s, id) /\ id \in ContainerId \cup {NoId}
    BY <1>1, <1>2, <1>5 DEF RecordID, At, OpPC, StartPC
  <2> HIDE DEF s, id
  <2>2. /\ SamePorts(registry, registry')
        /\ \A t \in Service : t # s => registry'.services[t] = registry.services[t]
        /\ Has(registry, s) => registry'.services[s].status = registry.services[s].status
    BY <1>1, <2>1, SetContainerIDEffect
  <2> QED
    BY <2>1, <2>2 DEF NeverUnset, SamePorts
<1>6. CASE UNCHANGED registry
  BY <1>6 DEF NeverUnset
<1> QED
  BY <1>3, <1>4, <1>5, <1>6
  DEF Step, Check, Probe, Send, Start, Clean, Boot, Wait, Stop, Halt, StopNext

\* A busy worker's task goes on or ends.
LEMMA StepTask ==
    ASSUME SchedulerInv, NEW w \in Worker, Step(w)
    PROVE  worker[w].pc # "idle" /\ (worker'[w].pc # "idle" => worker'[w].task = worker[w].task)
<1>1. worker[w] \in WorkerType
  BY WorkerFields
<1>2. worker[w].pc # "idle"
  BY DEF Step, Check, Probe, Send, Start, Clean, Boot, Wait, StartFailed, MarkRunning,
         MarkHealthy, RecordID, Stop, MarkPending, Halt, MarkStopped, StopNext, At
<1>3. ASSUME Finish(w)
      PROVE  worker'[w].pc = "idle"
  BY <1>3, Became DEF Finish, Resting
<1>4. ASSUME NEW pc, Goto(w, pc)
      PROVE  worker'[w].task = worker[w].task
  <2> DEFINE x == [worker[w] EXCEPT !.pc = pc]
  <2>1. Become(w, x) /\ x.task = worker[w].task
    BY <1>1, <1>4 DEF Goto, WorkerType
  <2> HIDE DEF x
  <2> QED
    BY <2>1, Became
<1>5. ASSUME NEW outcome, StartReturns(w, outcome)
      PROVE  worker'[w].pc # "idle" => worker'[w].task = worker[w].task
  <2> DEFINE x == [worker[w] EXCEPT !.pc = "probe", !.id = NoId]
  <2>1. x.task = worker[w].task
    BY <1>1 DEF WorkerType
  <2>2. Become(w, x) \/ Finish(w)
    BY <1>5 DEF StartReturns
  <2> HIDE DEF x
  <2> QED
    BY <1>3, <2>1, <2>2, Became
<1>6. ASSUME NEW outcome, StopReturns(w, outcome)
      PROVE  worker'[w].pc # "idle" => worker'[w].task = worker[w].task
  BY <1>3, <1>4, <1>6 DEF StopReturns
<1>7. CASE Boot(w)
  <2>1. ASSUME NEW c, Become(w, [worker[w] EXCEPT !.pc = "wait", !.id = c])
        PROVE  worker'[w].task = worker[w].task
    <3> DEFINE x == [worker[w] EXCEPT !.pc = "wait", !.id = c]
    <3>1. Become(w, x) /\ x.task = worker[w].task
      BY <1>1, <2>1 DEF WorkerType
    <3> HIDE DEF x
    <3> QED
      BY <3>1, Became
  <2> QED
    BY <1>2, <1>4, <1>7, <2>1 DEF Boot
<1>8. CASE StopNext(w)
  <2>1. ASSUME NEW s, NEW pc, Become(w, [worker[w] EXCEPT !.rest = worker[w].rest \ {s},
                                             !.service = s, !.pc = pc])
        PROVE  worker'[w].task = worker[w].task
    <3> DEFINE x == [worker[w] EXCEPT !.rest = worker[w].rest \ {s}, !.service = s, !.pc = pc]
    <3>1. Become(w, x) /\ x.task = worker[w].task
      BY <1>1, <2>1 DEF WorkerType
    <3> HIDE DEF x
    <3> QED
      BY <3>1, Became
  <2> QED
    BY <1>2, <1>3, <1>8, <2>1 DEF StopNext
<1>9. CASE Check(w) \/ Probe(w) \/ Send(w) \/ Clean(w) \/ Wait(w) \/ MarkRunning(w) \/ MarkHealthy(w)
           \/ MarkPending(w)
  BY <1>2, <1>3, <1>4, <1>9 DEF Check, Probe, Send, Clean, Wait, MarkRunning, MarkHealthy, MarkPending
<1>10. CASE StartFailed(w) \/ RecordID(w)
  BY <1>2, <1>5, <1>10 DEF StartFailed, RecordID
<1>11. CASE Halt(w) \/ MarkStopped(w)
  BY <1>2, <1>4, <1>6, <1>11 DEF Halt, MarkStopped
<1>12. CASE Start(w)
  <2>1. (\E outcome : StartReturns(w, outcome)) \/ Goto(w, "clean")
    BY <1>12 DEF Start
  <2> QED
    BY <1>2, <1>4, <1>5, <2>1
<1>13. CASE Stop(w)
  <2>1. (\E outcome : StopReturns(w, outcome)) \/ Goto(w, "mark_pending")
    BY <1>13 DEF Stop
  <2> QED
    BY <1>2, <1>4, <1>6, <2>1
<1> QED
  BY <1>7, <1>8, <1>9, <1>10, <1>11, <1>12, <1>13 DEF Step

LEMMA RequestUp ==
    ASSUME UpInv, SessionInv', NEW w \in Goroutine, NEW s \in Service, Request(w, s)
    PROVE  UpInv'
<1>1. /\ w \in Worker /\ w # Main /\ phase = "serving" /\ phase' = "serving" /\ Up
      /\ Invoke(w, s) /\ RecordInv /\ Roles /\ NeverUnset /\ SchedulerInv
      /\ registry \in RegistryType
  BY DEF Goroutine, Request, UpInv, Up, RecordInv, SchedulerInv, StateOK
<1>2. RecordInv'
  BY <1>1, InvokeKnows DEF SessionInv
<1>3. /\ \A v \in Worker : v # w => worker'[v] = worker[v]
      /\ worker'[w].pc # "idle" => worker'[w].task # "stopall"
  <2> DEFINE x == [Resting EXCEPT !.task = "invoke", !.service = s, !.pc = "check"]
  <2>1. /\ x.task = "invoke" /\ Resting.pc = "idle"
        /\ Become(w, x) \/ Become(w, Resting)
    BY <1>1 DEF Invoke, Begin, Finish, Resting
  <2> HIDE DEF x
  <2> QED
    BY <1>1, <2>1, Became
<1>4. Roles'
  BY <1>1, <1>3, MainAssumption DEF Roles, Busy, At, Goroutine
<1>5. NeverUnset'
  <2>1. registry' = AddEntry(registry, s)
    BY <1>1 DEF Invoke
  <2>2. \A t \in Service : \/ registry'.services[t] = registry.services[t]
                           \/ registry'.services[t].status = "pending"
    BY <1>1, <2>1, AddEntryEffect
  <2> QED
    BY <1>1, <2>2 DEF NeverUnset, Has
<1> QED
  BY <1>2, <1>4, <1>5 DEF UpInv

LEMMA FireUp ==
    ASSUME UpInv, SessionInv', NEW w \in Goroutine, NEW s \in Service, Fire(w, s)
    PROVE  UpInv'
<1>1. PICK x \in WorkerType : Become(w, x) /\ Restarting(x, s)
  BY Fires DEF UpInv
<1>2. /\ w \in Worker /\ w # Main /\ SchedulerInv /\ ~Busy(w) /\ Up
      /\ UNCHANGED <<registry, docker, phase, stale, refused>>
      /\ overlapped' = overlapped \cup {t \in {s} : \E v \in Worker : Holds(v, t)}
      /\ RecordInv /\ Roles /\ NeverUnset
  BY Fires DEF UpInv
<1>3. IdsOwned'
  <2>1. x.pc \notin IdPC
    BY <1>1 DEF IdPC, Restarting
  <2> QED
    BY <1>1, <1>2, <2>1, IdsStay DEF RecordInv
<1>4. RecordInv'
  <2>1. \A t \in Service \ overlapped' :
           HoldsIn(x, t) => \A v \in Worker : v # w => ~Holds(v, t)
    BY <1>1, <1>2 DEF HoldsIn, Restarting
  <2> QED
    BY <1>1, <1>2, <1>3, <2>1, OperationsAreNot, BeginKnows DEF SessionInv, Restarting
<1>5. Roles'
  BY <1>1, <1>2, Became, MainAssumption DEF Roles, Restarting, Busy, At, Goroutine
<1>6. NeverUnset'
  BY <1>2 DEF NeverUnset
<1> QED
  BY <1>4, <1>5, <1>6 DEF UpInv

LEMMA ChangeCodeUp ==
    ASSUME UpInv, SessionInv', NEW s \in Service, ChangeCode(s)
    PROVE  UpInv'
<1>1. UNCHANGED <<registry, docker, worker, overlapped, phase>> /\ Up
  BY DEF ChangeCode, vars
<1>2. RecordInv'
  BY <1>1, SamePlaces DEF UpInv, SessionInv
<1> QED
  BY <1>1, <1>2 DEF UpInv, Roles, NeverUnset, Busy, At

LEMMA SignalUp ==
    ASSUME UpInv, SessionInv', Signal
    PROVE  UpInv'
<1>1. /\ UNCHANGED <<registry, docker, overlapped>> /\ phase = "serving" /\ phase' = "draining"
      /\ Up /\ SessionInv
  BY DEF Signal, UpInv, Up
<1>2. RecordInv'
  BY <1>1, SignalFields, SamePlaces DEF UpInv, SessionInv
<1>3. Roles'
  BY <1>1, SignalFields, MainAssumption DEF UpInv, Roles, Busy, At, Goroutine
<1> QED
  BY <1>1, <1>2, <1>3 DEF UpInv, NeverUnset

LEMMA SchedulerStepUp ==
    ASSUME OwnNames, UpInv, SessionInv', NEW w \in Worker, SchedulerStep(w)
    PROVE  UpInv'
<1>1. Step(w) /\ UNCHANGED phase /\ RecordInv /\ Roles /\ NeverUnset /\ SchedulerInv
  BY DEF SchedulerStep, UpInv, RecordInv
<1>2. RecordInv'
  BY <1>1, StepKnows DEF SessionInv
<1>3. Roles'
  <2>1. \A v \in Worker : v # w => worker'[v] = worker[v]
    BY <1>1, StepStays DEF RecordInv
  <2>2. worker[w].pc # "idle" /\ (worker'[w].pc # "idle" => worker'[w].task = worker[w].task)
    BY <1>1, StepTask
  <2> QED
    BY <1>1, <2>1, <2>2, MainAssumption DEF Roles, Busy, At, Goroutine
<1>4. NeverUnset'
  BY <1>1, StepSets
<1> QED
  BY <1>2, <1>3, <1>4 DEF UpInv

LEMMA DisconnectUp ==
    ASSUME UpInv, SessionInv', NEW w \in Worker, Disconnect(w)
    PROVE  UpInv'
<1>1. Cancel(w) /\ UNCHANGED <<phase, registry>> /\ RecordInv /\ Roles /\ NeverUnset /\ SchedulerInv
  BY DEF Disconnect, Cancel, UpInv, RecordInv
<1>2. RecordInv'
  BY <1>1, CancelKnows DEF SessionInv
<1>3. Roles'
  <2> DEFINE x == [worker[w] EXCEPT !.cancelled = TRUE]
  <2>1. Become(w, x) /\ x.pc = worker[w].pc /\ x.task = worker[w].task
    BY <1>1, WorkerFields DEF Cancel, WorkerType
  <2> HIDE DEF x
  <2>2. \A v \in Worker : worker'[v].pc = worker[v].pc /\ worker'[v].task = worker[v].task
    BY <1>1, <2>1, Became
  <2> QED
    BY <1>1, <2>2, MainAssumption DEF Roles, Busy, At, Goroutine
<1> QED
  BY <1>1, <1>2, <1>3 DEF UpInv, NeverUnset

LEMMA DrainedUp ==
    ASSUME UpInv, SessionInv', Drained
    PROVE  UpInv'
<1> DEFINE x == [Resting EXCEPT !.task = "stopall", !.pc = "next",
                                !.rest = {s \in Service : Has(registry, s)}]
<1>1. /\ phase = "draining" /\ phase' = "stopping" /\ UNCHANGED registry
      /\ StopAll(Main) /\ Main \in Worker /\ RecordInv /\ Roles /\ NeverUnset /\ SchedulerInv
  BY MainAssumption DEF Drained, StopAll, UpInv, Up, RecordInv
<1>2. RecordInv'
  BY <1>1, StopAllKnows DEF SessionInv
<1>3. x.task = "stopall" /\ Become(Main, x)
  BY <1>1 DEF StopAll, Resting
<1> HIDE DEF x
<1>4. worker'[Main] = x /\ \A v \in Worker : v # Main => worker'[v] = worker[v]
  BY <1>1, <1>3, Became
<1>5. Roles'
  BY <1>1, <1>3, <1>4 DEF Roles, Busy, At, Goroutine
<1> QED
  BY <1>1, <1>2, <1>5 DEF UpInv, NeverUnset

LEMMA UpInvNext ==
    ASSUME OwnNames, UpInv, [SessionNext]_sessionVars
    PROVE  UpInv'
<1>1. SessionInv'
  BY SessionInvNext DEF UpInv
<1>2. CASE Exit \/ ListenFails
  BY <1>1, <1>2 DEF Exit, ListenFails, ProcessEnds, UpInv, Up
<1>3. CASE UNCHANGED sessionVars
  <2>1. UNCHANGED <<registry, docker, worker, overlapped, phase>>
    BY <1>3 DEF sessionVars, vars
  <2>2. Up => RecordInv'
    BY <1>1, <2>1, SamePlaces DEF UpInv, SessionInv
  <2> QED
    BY <1>1, <2>1, <2>2 DEF UpInv, Up, Roles, NeverUnset, Busy, At
<1> QED
  BY <1>1, <1>2, <1>3, RequestUp, FireUp, SchedulerStepUp, DisconnectUp, ChangeCodeUp, SignalUp,
     DrainedUp
  DEF SessionNext


-----------------------------------------------------------------------------
(* Session: what it leaves running is known                                 *)

\* The program counters of main in StopAll.
StopAllPC == {"idle", "next", "stop", "mark_pending", "halt", "mark_stopped"}

\* StopAll, in state x, has still to stop s.
ToVisit(x, s) ==
    /\ x.pc # "idle"
    /\ s \in x.rest \/ (x.service = s /\ x.pc \in {"stop", "mark_pending"})

\* What runs for s is known from its entry or from f.
Accounted(r, d, f, s) ==
    RunningFor(d, s) # {} => r.services[s].status \in {"failed", "pending"} \/ s \in f

\* A reload that began after SIGINT, none of whose calls succeeds.
Late(x) ==
    /\ x.task = "reload" /\ x.cancelled
    /\ x.pc \in {"stop", "mark_pending", "halt", "start", "clean", "start_failed"}

\* No goroutine holds a service that main holds too, unless it overlapped;
\* those that come later start nothing; and what main does not stop any more
\* is known.
StoppingInv ==
    /\ worker[Main].pc \in StopAllPC
    /\ \A w \in Goroutine, s \in Service \ overlapped : Holds(w, s) => Late(worker[w])
    /\ \A s \in Service \ overlapped :
          ToVisit(worker[Main], s) \/ Accounted(registry, docker, refused, s)

LeftInv == UpInv /\ (phase = "stopping" => StoppingInv) /\ LeftIsKnown

\* A step after which no container runs that did not.
Fewer == \A c \in Running(docker') : c \in Running(docker) /\ docker'[c] = docker[c]

\* Steps that leave an account as it is.
AccountKept(s) ==
    \/ registry'.services[s] = registry.services[s]
    \/ registry'.services[s].status \in {"failed", "pending"}
    \/ RunningFor(docker', s) = {}

LEMMA AccountStays ==
    ASSUME NEW s, Fewer, AccountKept(s), refused \subseteq refused',
           Accounted(registry, docker, refused, s)
    PROVE  Accounted(registry', docker', refused', s)
<1>1. RunningFor(docker', s) \subseteq RunningFor(docker, s)
  BY DEF Fewer, RunningFor
<1> QED
  BY <1>1 DEF AccountKept, Accounted

LEMMA FewerWithout == ASSUME NEW ids, docker' = Without(docker, ids) PROVE Fewer
BY DEF Fewer, Without, Running

\* Only what is on file runs.
LEMMA RunningHas ==
    ASSUME SchedulerInv, NEW s, RunningFor(docker, s) # {}
    PROVE  Has(registry, s)
BY DEF SchedulerInv, OneContainerPerService, RunningFor

\* A service that main finds not running is accounted for.
LEMMA NotRunningIsKnown ==
    ASSUME RecordInv, NeverUnset, NEW w \in Worker, NEW s \in Service \ overlapped, Holds(w, s),
           worker[w].pc \notin OpPC, registry.services[s].status # "running"
    PROVE  Accounted(registry, docker, refused, s)
<1> SUFFICES ASSUME RunningFor(docker, s) # {}
             PROVE  registry.services[s].status \in {"failed", "pending"}
  BY DEF Accounted
<1>1. Has(registry, s) /\ registry.services[s] \in Entry
  BY RunningHas DEF RecordInv, SchedulerInv, StateOK, RegistryType, Has
<1>2. EntryTrue(registry, docker, s)
  BY OwnEntry
<1>3. registry.services[s].status \in Status
  BY <1>1 DEF Entry
<1> QED
  BY <1>1, <1>2, <1>3 DEF EntryTrue, NeverUnset, Status

LEMMA Moved ==
    ASSUME SchedulerInv, NEW w \in Worker, NEW pc, Goto(w, pc)
    PROVE  /\ worker'[w].pc = pc
           /\ worker'[w].cancelled = worker[w].cancelled
           /\ worker'[w].service = worker[w].service
           /\ worker'[w].task = worker[w].task
           /\ worker'[w].rest = worker[w].rest
<1>1. worker[w] \in WorkerType
  BY WorkerFields
<1> QED
  BY <1>1, Became DEF Goto, WorkerType

LEMMA Finished ==
    ASSUME SchedulerInv, NEW w \in Worker, Finish(w)
    PROVE  worker'[w] = Resting /\ Resting.pc = "idle"
BY Became DEF Finish, Resting

LEMMA LateStep ==
    ASSUME SchedulerInv, NEW w \in Worker, Late(worker[w]), Step(w)
    PROVE  /\ Fewer
           /\ \/ UNCHANGED registry
              \/ \E status \in {"failed", "pending"} :
                    registry' = SetStatus(registry, worker[w].service, status)
           /\ worker'[w].pc = "idle" \/ Late(worker'[w])
<1>1. CallEnds(w) = {"failed", "lost"}
  BY DEF Late, CallEnds
<1>2. \A outcome : StartReturns(w, outcome) => Finish(w)
  BY DEF Late, StartReturns
<1>3. \A outcome : StopReturns(w, outcome) => Finish(w) \/ Goto(w, "start")
  BY DEF Late, StopReturns
<1>4. \A pc : Goto(w, pc) /\ pc \in {"stop", "mark_pending", "halt", "start", "clean", "start_failed"}
                => Late(worker'[w])
  BY Moved DEF Late
<1>5. Finish(w) => worker'[w].pc = "idle"
  BY Finished
<1>6. UNCHANGED docker => Fewer
  BY DEF Fewer
<1>7. CASE Start(w)
  BY <1>2, <1>4, <1>5, <1>6, <1>7 DEF Start
<1>8. CASE Clean(w)
  <2>1. /\ \E ids : docker' = Without(docker, ids)
        /\ Goto(w, "start_failed") /\ UNCHANGED registry
    BY <1>1, <1>8 DEF Clean
  <2> QED
    BY <1>4, <2>1, FewerWithout
<1>9. CASE StartFailed(w)
  BY <1>2, <1>5, <1>6, <1>9 DEF StartFailed
<1>10. CASE Stop(w)
  BY <1>3, <1>4, <1>5, <1>6, <1>10 DEF Stop
<1>11. CASE MarkPending(w)
  BY <1>4, <1>6, <1>11 DEF MarkPending
<1>12. CASE Halt(w)
  <2>1. /\ UNCHANGED docker \/ \E ids : docker' = Without(docker, ids)
        /\ \E outcome : StopReturns(w, outcome)
        /\ UNCHANGED registry
    BY <1>1, <1>12 DEF Halt, WithStopped
  <2> QED
    BY <1>3, <1>4, <1>5, <1>6, <2>1, FewerWithout
<1> QED
  BY <1>7, <1>8, <1>9, <1>10, <1>11, <1>12
  DEF Late, Step, Check, Probe, Send, Boot, Wait, MarkRunning, MarkHealthy, RecordID, MarkStopped,
      StopNext, At

\* What StopAll does next.
LEMMA MainStep ==
    ASSUME RecordInv, NeverUnset, worker[Main].task = "stopall", worker[Main].pc \in StopAllPC,
           SchedulerStep(Main)
    PROVE  /\ Fewer
           /\ worker'[Main].pc \in StopAllPC
           /\ \A s \in Service \ overlapped : AccountKept(s)
           /\ \A s \in Service \ overlapped :
                 ToVisit(worker[Main], s) =>
                    \/ ToVisit(worker'[Main], s)
                    \/ Accounted(registry', docker', refused', s)
<1> DEFINE s == worker[Main].service
<1>1. /\ Main \in Worker /\ SchedulerInv /\ Step(Main) /\ registry \in RegistryType
      /\ refused \subseteq refused'
  BY MainAssumption DEF RecordInv, SchedulerInv, StateOK, SchedulerStep
<1>2. \A outcome : StopReturns(Main, outcome) => Goto(Main, "next")
  BY DEF StopReturns
<1>3. \A pc : Goto(Main, pc) =>
         /\ worker'[Main].pc = pc /\ worker'[Main].service = s /\ worker'[Main].rest = worker[Main].rest
  BY <1>1, Moved
<1>4. UNCHANGED docker => Fewer
  BY DEF Fewer
<1>5. UNCHANGED registry => \A t : AccountKept(t)
  BY DEF AccountKept
<1>6. worker[Main].pc # "idle" => \A t \in Service : Holds(Main, t)
  BY DEF Holds, StopAllPC
<1>7. worker[Main].pc \notin NoServicePC => s \in Service
  BY <1>1, Working
<1>8. UNCHANGED <<registry, docker>> =>
         \A t : Accounted(registry, docker, refused, t) => Accounted(registry', docker', refused', t)
  BY <1>1 DEF Accounted
<1>9. CASE StopNext(Main)
  <2>1. worker[Main].pc = "next" /\ UNCHANGED <<registry, docker>>
    BY <1>9 DEF StopNext, At
  <2>2. CASE worker[Main].rest = {} /\ Finish(Main)
    <3>1. worker'[Main].pc = "idle"
      BY <1>1, <2>2, Finished
    <3> QED
      BY <1>4, <1>5, <2>1, <2>2, <3>1 DEF ToVisit, StopAllPC
  <2>3. ASSUME NEW t \in worker[Main].rest,
               Become(Main, [worker[Main] EXCEPT
                         !.rest = worker[Main].rest \ {t},
                         !.service = t,
                         !.pc = IF EntryOf(t).status = "running" THEN "stop"
                                                                 ELSE "next"])
        PROVE  /\ worker'[Main].pc \in StopAllPC
               /\ \A u \in Service \ overlapped :
                     ToVisit(worker[Main], u) => \/ ToVisit(worker'[Main], u)
                                                 \/ Accounted(registry', docker', refused', u)
    <3> DEFINE pc == IF EntryOf(t).status = "running" THEN "stop" ELSE "next"
               x == [worker[Main] EXCEPT !.rest = worker[Main].rest \ {t}, !.service = t, !.pc = pc]
    <3>1. x.pc = pc /\ x.service = t /\ x.rest = worker[Main].rest \ {t} /\ Become(Main, x)
      BY <1>1, <2>3, WorkerFields DEF WorkerType
    <3> HIDE DEF x
    <3>2. worker'[Main] = x
      BY <1>1, <3>1, Became
    <3>3. ASSUME NEW u \in Service \ overlapped, u = t, EntryOf(t).status # "running"
          PROVE  Accounted(registry', docker', refused', u)
      <4>1. Accounted(registry, docker, refused, u)
        BY <1>1, <1>6, <2>1, <3>3, NotRunningIsKnown, OperationsAreNot DEF EntryOf
      <4> QED
        BY <1>8, <2>1, <4>1
    <3> QED
      BY <2>1, <3>1, <3>2, <3>3 DEF ToVisit, StopAllPC
  <2> QED
    BY <1>4, <1>5, <1>9, <2>1, <2>2, <2>3 DEF StopNext
<1>10. CASE Stop(Main)
  <2>1. worker[Main].pc = "stop" /\ UNCHANGED <<registry, docker>> /\ s \in Service
    BY <1>7, <1>10 DEF Stop, At, NoServicePC
  <2>2. \/ Goto(Main, "mark_pending")
        \/ Goto(Main, "next")
    BY <1>2, <1>10 DEF Stop
  <2>3. ASSUME Goto(Main, "next"), s \notin overlapped
        PROVE  Accounted(registry', docker', refused', s)
    <3>1. CASE Has(registry, s) /\ registry.services[s].status = "running"
      <4>1. Refused(Main)
        BY <1>3, <2>1, <2>3, <3>1 DEF Refused, At, EntryOf
      <4> QED
        BY <4>1 DEF SchedulerStep, Accounted
    <3>2. CASE ~Has(registry, s)
      BY <1>1, <2>1, <3>2, RunningHas DEF Accounted
    <3>3. CASE registry.services[s].status # "running"
      <4>1. worker[Main].pc \notin OpPC /\ Holds(Main, s) /\ s \in Service \ overlapped
        BY <1>6, <2>1, <2>3, OperationsAreNot
      <4> HIDE DEF s
      <4>2. Accounted(registry, docker, refused, s)
        BY <1>1, <3>3, <4>1, NotRunningIsKnown
      <4> QED
        BY <1>8, <2>1, <4>2
    <3> QED
      BY <3>1, <3>2, <3>3
  <2> QED
    BY <1>3, <1>4, <1>5, <2>1, <2>2, <2>3 DEF ToVisit, StopAllPC
<1>11. CASE MarkPending(Main)
  <2>1. /\ worker[Main].pc = "mark_pending" /\ UNCHANGED docker /\ s \in Service
        /\ registry' = SetStatus(registry, s, "pending") /\ Goto(Main, "halt")
    BY <1>7, <1>11 DEF MarkPending, At, NoServicePC
  <2>2. Has(registry, s)
    BY <1>1, <2>1 DEF SchedulerInv, WorkersSound
  <2>3. /\ registry'.services[s].status = "pending"
        /\ \A t \in Service : t # s => registry'.services[t] = registry.services[t]
    <3>1. "pending" \in Status /\ s \in Service /\ registry' = SetStatus(registry, s, "pending")
      BY <2>1 DEF Status
    <3> HIDE DEF s
    <3> QED
      BY <1>1, <2>2, <3>1, SetStatusEffect
  <2> QED
    BY <1>3, <1>4, <2>1, <2>3 DEF AccountKept, ToVisit, StopAllPC, Accounted
<1>12. CASE Halt(Main)
  <2>1. /\ worker[Main].pc = "halt" /\ UNCHANGED registry
        /\ UNCHANGED docker \/ \E ids : docker' = Without(docker, ids)
        /\ Goto(Main, "mark_stopped") \/ Goto(Main, "next")
    BY <1>2, <1>12 DEF Halt, At, WithStopped
  <2> QED
    BY <1>3, <1>4, <1>5, <2>1, FewerWithout DEF ToVisit, StopAllPC
<1>13. CASE MarkStopped(Main)
  <2>1. /\ worker[Main].pc = "mark_stopped" /\ UNCHANGED docker /\ s \in Service
        /\ registry' = SetStatus(registry, s, "stopped") /\ Goto(Main, "next")
    BY <1>2, <1>7, <1>13 DEF MarkStopped, At, NoServicePC
  <2>2. s \notin overlapped => RunningFor(docker, s) = {}
    BY <1>1, <2>1 DEF RecordInv, Knows, OpPC, StopPC
  <2>3. \A t \in Service : t # s => registry'.services[t] = registry.services[t]
    <3>1. "stopped" \in Status /\ s \in Service /\ registry' = SetStatus(registry, s, "stopped")
      BY <2>1 DEF Status
    <3> HIDE DEF s
    <3> QED
      BY <1>1, <3>1, SetStatusEffect
  <2>4. \A t \in Service \ overlapped : AccountKept(t)
    BY <2>1, <2>2, <2>3 DEF AccountKept
  <2> QED
    BY <1>3, <1>4, <2>1, <2>4 DEF ToVisit, StopAllPC
<1> QED
  BY <1>1, <1>9, <1>10, <1>11, <1>12, <1>13
  DEF StopAllPC, Step, Check, Probe, Send, Start, Clean, Boot, Wait, StartFailed, MarkRunning,
      MarkHealthy, RecordID, At

LEMMA StepKeepsLeft ==
    ASSUME OwnNames, UpInv, UpInv', NEW w \in Worker, SchedulerStep(w), phase = "stopping",
           StoppingInv
    PROVE  StoppingInv'
<1>1. /\ Step(w) /\ UNCHANGED <<phase, overlapped>> /\ RecordInv /\ Roles /\ NeverUnset
      /\ SchedulerInv /\ Main \in Worker /\ refused \subseteq refused' /\ registry \in RegistryType
  BY MainAssumption DEF SchedulerStep, Step, UpInv, RecordInv, Up, SchedulerInv, StateOK
<1>2. /\ \A v \in Worker : v # w => worker'[v] = worker[v]
      /\ \A v \in Worker, t \in Service : Holds(v, t)' => Holds(v, t)
  BY <1>1, StepStays DEF RecordInv
<1>3. worker[w].pc # "idle"
  BY <1>1, StepTask
<1>4. CASE w = Main
  <2>1. worker[Main].task = "stopall"
    BY <1>1, <1>3, <1>4 DEF Roles, Busy, At
  <2>2. /\ Fewer
        /\ worker'[Main].pc \in StopAllPC
        /\ \A s \in Service \ overlapped : AccountKept(s)
        /\ \A s \in Service \ overlapped :
              ToVisit(worker[Main], s) =>
                 \/ ToVisit(worker'[Main], s)
                 \/ Accounted(registry', docker', refused', s)
    BY <1>1, <1>4, <2>1, MainStep DEF StoppingInv
  <2>3. \A s \in Service \ overlapped' :
           ToVisit(worker'[Main], s) \/ Accounted(registry', docker', refused', s)
    BY <1>1, <2>2, AccountStays DEF StoppingInv
  <2>4. \A v \in Goroutine, s \in Service \ overlapped' : Holds(v, s)' => Late(worker'[v])
    BY <1>1, <1>2, <1>4 DEF StoppingInv, Goroutine
  <2> QED
    BY <2>2, <2>3, <2>4 DEF StoppingInv
<1>5. CASE w # Main
  <2> DEFINE s == worker[w].service
  <2>1. w \in Goroutine /\ worker'[Main] = worker[Main] /\ worker[w].pc # "next"
    BY <1>1, <1>2, <1>3, <1>5 DEF Goroutine, Roles, RecordInv, Busy, At
  <2>2. CASE s \in Service \ overlapped /\ Holds(w, s)
    <3>1. Late(worker[w])
      BY <2>1, <2>2 DEF StoppingInv
    <3>2. /\ Fewer
          /\ \/ UNCHANGED registry
             \/ \E status \in {"failed", "pending"} : registry' = SetStatus(registry, s, status)
          /\ worker'[w].pc = "idle" \/ Late(worker'[w])
      BY <1>1, <3>1, LateStep
    <3>3. ASSUME NEW t \in Service
          PROVE  AccountKept(t)
      <4>1. CASE UNCHANGED registry
        BY <4>1 DEF AccountKept
      <4>2. ASSUME NEW status \in {"failed", "pending"}, registry' = SetStatus(registry, s, status)
            PROVE  AccountKept(t)
        <5>1. status \in Status /\ s \in Service
          BY <2>2, <4>2 DEF Status
        <5>2. CASE t # s
          <6> HIDE DEF s
          <6> QED
            BY <1>1, <4>2, <5>1, <5>2, SetStatusEffect DEF AccountKept
        <5>3. CASE t = s /\ Has(registry, s)
          <6> HIDE DEF s
          <6> QED
            BY <1>1, <4>2, <5>1, <5>3, SetStatusEffect DEF AccountKept
        <5>4. CASE ~Has(registry, s)
          BY <4>2, <5>4 DEF AccountKept, SetStatus
        <5> QED
          BY <5>2, <5>3, <5>4
      <4> QED
        BY <3>2, <4>1, <4>2
    <3>4. \A t \in Service \ overlapped' :
             ToVisit(worker'[Main], t) \/ Accounted(registry', docker', refused', t)
      BY <1>1, <2>1, <3>2, <3>3, AccountStays DEF StoppingInv
    <3>5. \A v \in Goroutine, t \in Service \ overlapped' : Holds(v, t)' => Late(worker'[v])
      BY <1>1, <1>2, <3>2 DEF StoppingInv, Goroutine, Holds
    <3> QED
      BY <2>1, <3>4, <3>5 DEF StoppingInv
  <2>3. CASE ~(s \in Service \ overlapped /\ Holds(w, s))
    <3>1. \A t \in Service \ overlapped : ~Holds(w, t)
      BY <1>1, <2>1, <2>3 DEF Holds, Roles, Busy, At
    <3>2. \A t \in Service \ overlapped :
             /\ registry'.services[t] = registry.services[t]
             /\ RunningFor(docker', t) = RunningFor(docker, t)
      <4>1. CASE worker[w].pc \in OpPC
        <5>1. s \in Service /\ Holds(w, s)
          BY <1>1, <4>1, OperationsHold
        <5> QED
          BY <1>1, <3>1, <5>1, OthersKept DEF RecordInv
      <4>2. CASE worker[w].pc \notin OpPC
        BY <1>1, <4>2, StepOutside
      <4> QED
        BY <4>1, <4>2
    <3>3. \A t \in Service \ overlapped' :
             ToVisit(worker'[Main], t) \/ Accounted(registry', docker', refused', t)
      BY <1>1, <2>1, <3>2 DEF StoppingInv, Accounted
    <3>4. \A v \in Goroutine, t \in Service \ overlapped' : Holds(v, t)' => Late(worker'[v])
      BY <1>1, <1>2, <3>1 DEF StoppingInv, Goroutine
    <3> QED
      BY <2>1, <3>3, <3>4 DEF StoppingInv
  <2> QED
    BY <2>2, <2>3
<1> QED
  BY <1>4, <1>5

LEMMA FireKeepsLeft ==
    ASSUME UpInv, NEW w \in Goroutine, NEW s \in Service, Fire(w, s), phase = "stopping",
           StoppingInv
    PROVE  StoppingInv'
<1>1. PICK x \in WorkerType : Become(w, x) /\ Restarting(x, s)
  BY Fires DEF UpInv
<1>2. /\ w \in Worker /\ w # Main /\ Main \in Worker /\ SchedulerInv /\ ~Busy(w)
      /\ UNCHANGED <<registry, docker, phase, stale, refused>>
      /\ overlapped \subseteq overlapped'
  BY Fires, MainAssumption DEF UpInv
<1>3. Late(x)
  BY <1>1 DEF Late, Restarting
<1>4. worker'[w] = x /\ \A v \in Worker : v # w => worker'[v] = worker[v]
  BY <1>1, <1>2, Became
<1>5. ASSUME NEW v \in Goroutine, NEW t \in Service \ overlapped', Holds(v, t)'
      PROVE  Late(worker'[v])
  <2>1. CASE v = w
    BY <1>3, <1>4, <2>1
  <2>2. CASE v # w
    <3>1. Holds(v, t) /\ worker'[v] = worker[v]
      BY <1>1, <1>2, <1>5, <2>2, Became DEF Goroutine
    <3> QED
      BY <1>2, <3>1 DEF StoppingInv
  <2> QED
    BY <2>1, <2>2
<1> QED
  BY <1>2, <1>4, <1>5 DEF StoppingInv

LEMMA DrainedKeepsLeft ==
    ASSUME UpInv, Drained
    PROVE  StoppingInv'
<1> DEFINE x == [Resting EXCEPT !.task = "stopall", !.pc = "next",
                                !.rest = {s \in Service : Has(registry, s)}]
<1>1. /\ UNCHANGED <<registry, docker, refused>> /\ Main \in Worker /\ SchedulerInv
      /\ ~Busy(Main)
      /\ overlapped' = overlapped \cup {s \in Service : \E v \in Worker : Holds(v, s)}
  BY MainAssumption DEF Drained, StopAll, TakesOn, UpInv, SessionInv
<1>2. /\ x.pc = "next" /\ x.rest = {s \in Service : Has(registry, s)} /\ Become(Main, x)
  BY DEF Drained, StopAll, Resting
<1> HIDE DEF x
<1>3. worker'[Main] = x /\ \A v \in Worker : v # Main => worker'[v] = worker[v]
  BY <1>1, <1>2, Became
<1>4. \A v \in Goroutine, s \in Service : Holds(v, s)' => s \in overlapped'
  BY <1>1, <1>2, Became DEF Goroutine
<1>5. \A s \in Service : ToVisit(x, s) \/ Accounted(registry, docker, refused, s)
  BY <1>1, <1>2, RunningHas DEF ToVisit, Accounted
<1> QED
  BY <1>1, <1>2, <1>3, <1>4, <1>5 DEF StoppingInv, StopAllPC

LEMMA DisconnectKeepsLeft ==
    ASSUME UpInv, NEW w \in Worker, Disconnect(w), phase = "stopping", StoppingInv
    PROVE  StoppingInv'
<1> DEFINE x == [worker[w] EXCEPT !.cancelled = TRUE]
<1>1. /\ UNCHANGED <<registry, docker, overlapped, refused>> /\ Main \in Worker /\ SchedulerInv
      /\ worker[w].task = "invoke" /\ Become(w, x) /\ worker[w] \in WorkerType
  BY MainAssumption, WorkerFields DEF Disconnect, Cancel, UpInv, SessionInv
<1>2. x.pc = worker[w].pc /\ x.task = worker[w].task /\ x.service = worker[w].service
      /\ x.rest = worker[w].rest
  BY <1>1 DEF WorkerType
<1> HIDE DEF x
<1>3. worker'[w] = x /\ \A v \in Worker : v # w => worker'[v] = worker[v]
  BY <1>1, Became
<1>4. \A v \in Worker, s \in Service : Holds(v, s)' <=> Holds(v, s)
  BY <1>2, <1>3 DEF Holds
<1>5. \A v \in Goroutine, s \in Service \ overlapped' : Holds(v, s)' => Late(worker'[v])
  BY <1>1, <1>3, <1>4 DEF StoppingInv, Late, Goroutine
<1>6. \A s \in Service : ToVisit(worker'[Main], s) <=> ToVisit(worker[Main], s)
  BY <1>1, <1>2, <1>3 DEF ToVisit
<1>7. worker'[Main].pc = worker[Main].pc
  BY <1>1, <1>2, <1>3
<1> QED
  BY <1>1, <1>5, <1>6, <1>7 DEF StoppingInv

LEMMA LeftInvNext ==
    ASSUME OwnNames, LeftInv, [SessionNext]_sessionVars
    PROVE  LeftInv'
<1>1. UpInv /\ UpInv'
  BY UpInvNext DEF LeftInv
<1>2. CASE Exit
  <2>1. /\ phase = "stopping" /\ ~Busy(Main) /\ phase' = "exited"
        /\ UNCHANGED <<registry, docker, overlapped, refused>>
    BY <1>2 DEF Exit, ProcessEnds
  <2>2. \A s \in Service \ overlapped : Accounted(registry, docker, refused, s)
    BY <2>1 DEF LeftInv, StoppingInv, ToVisit, Busy, At
  <2> QED
    BY <1>1, <2>1, <2>2 DEF LeftInv, LeftIsKnown, Accounted, EntryOf
<1>3. CASE \/ ListenFails \/ Signal
           \/ \E w \in Goroutine, s \in Service : Request(w, s)
           \/ phase # "stopping" /\ \E w \in Goroutine, s \in Service : Fire(w, s)
           \/ phase # "stopping" /\ \E w \in Worker : SchedulerStep(w) \/ Disconnect(w)
           \/ phase # "stopping" /\ \E s \in Service : ChangeCode(s)
  <2>1. phase' \notin {"stopping", "exited"}
    BY <1>3 DEF ListenFails, ProcessEnds, Signal, Request, Fire, SchedulerStep, Disconnect, ChangeCode, Up
  <2> QED
    BY <1>1, <2>1 DEF LeftInv, LeftIsKnown
<1>4. CASE UNCHANGED sessionVars
  <2>1. UNCHANGED <<registry, docker, worker, overlapped, phase, refused>>
    BY <1>4 DEF sessionVars, vars
  <2> QED
    BY <1>1, <2>1 DEF LeftInv, LeftIsKnown, StoppingInv, EntryOf, Holds
<1>5. CASE Drained
  BY <1>1, <1>5, DrainedKeepsLeft DEF LeftInv, LeftIsKnown, Drained
<1>6. CASE phase = "stopping" /\ \E w \in Goroutine, s \in Service : Fire(w, s)
  BY <1>1, <1>6, FireKeepsLeft DEF LeftInv, LeftIsKnown, Fire
<1>7. CASE phase = "stopping" /\ \E w \in Worker : SchedulerStep(w)
  BY <1>1, <1>7, StepKeepsLeft DEF LeftInv, LeftIsKnown, SchedulerStep
<1>8. CASE phase = "stopping" /\ \E w \in Worker : Disconnect(w)
  BY <1>1, <1>8, DisconnectKeepsLeft DEF LeftInv, LeftIsKnown, Disconnect
<1>9. CASE phase = "stopping" /\ \E s \in Service : ChangeCode(s)
  <2>1. UNCHANGED <<registry, docker, worker, overlapped, phase, refused>>
    BY <1>9 DEF ChangeCode, vars
  <2> QED
    BY <1>1, <1>9, <2>1 DEF LeftInv, LeftIsKnown, StoppingInv, EntryOf, Holds
<1> QED
  BY <1>2, <1>3, <1>4, <1>5, <1>6, <1>7, <1>8, <1>9 DEF SessionNext

\* What `simla up` leaves running when it exits, after requests, reloads and
\* SIGINT at any point: a container of a service whose last start or stop
\* failed, or that two goroutines started or stopped at the same time.
THEOREM LeftIsKnownThm == ASSUME OwnNames PROVE SessionSpec => []LeftIsKnown
<1>1. SessionInit => LeftInv
  BY UpInvInit DEF SessionInit, LeftInv, LeftIsKnown
<1>2. LeftInv /\ [SessionNext]_sessionVars => LeftInv'
  BY LeftInvNext
<1>3. LeftInv => LeftIsKnown
  BY DEF LeftInv
<1> QED
  BY <1>1, <1>2, <1>3, PTL DEF SessionSpec

-----------------------------------------------------------------------------
(* Session: no change of the code is forgotten                              *)

\* A container of s runs old code.
Behind(s) == RunningFor(docker, s) \cap stale # {}

\* A restart of s, in state x, has still to stop what runs.
Restarts(x, s) == x.task = "reload" /\ x.service = s /\ x.pc \in {"stop", "mark_pending"}

\* No requests go to s, and no start that is past its boot will send any.
Unserved(s) ==
    /\ registry.services[s].status # "running"
    /\ \A w \in Worker : worker[w].service = s => worker[w].pc \notin IdPC

Remembered(s) == timer[s] \/ (\E w \in Worker : Restarts(worker[w], s)) \/ Unserved(s)

KeptInv ==
    /\ UpInv
    /\ phase = "serving" =>
          \A s \in Service \ (overlapped \cup refused) : Behind(s) => Remembered(s)

\* No step makes a container old.
LEMMA StaleStays ==
    ASSUME SessionInv, NEW w \in Worker, Step(w), KeepStale, NEW s, Behind(s)'
    PROVE  Behind(s)
<1>1. \A c \in Running(docker) : docker'[c] \in {docker[c], NoContainer}
  <2>1. ASSUME NEW ids, docker' = Without(docker, ids)
        PROVE  \A c \in Running(docker) : docker'[c] \in {docker[c], NoContainer}
    BY <2>1 DEF Without, Running
  <2>2. ASSUME NEW d \in ContainerId, FreshId(d), NEW t, NEW port,
               docker' = WithContainer(docker, d, t, port)
        PROVE  \A c \in Running(docker) : docker'[c] \in {docker[c], NoContainer}
    BY <2>2 DEF WithContainer, FreshId, Running, SessionInv, SchedulerInv, StateOK, DockerType
  <2> QED
    BY <2>1, <2>2
    DEF Step, Check, Probe, Send, Start, Clean, Boot, Wait, StartFailed, MarkRunning, MarkHealthy,
        RecordID, Stop, MarkPending, Halt, MarkStopped, StopNext, WithStopped
<1>2. stale \subseteq Running(docker)
  BY DEF SessionInv, SessionTypeOK
<1> QED
  BY <1>1, <1>2 DEF Behind, KeepStale, RunningFor, Running

\* Only a boot leads to the states that name a container.
LEMMA IdStep ==
    ASSUME SchedulerInv, NEW w \in Worker, Step(w), worker'[w].pc \in IdPC
    PROVE  worker[w].pc \in IdPC \cup {"boot"}
<1>1. \A pc : Goto(w, pc) => worker'[w].pc = pc
  BY Moved
<1>2. ~Finish(w)
  BY Finished DEF IdPC
<1>3. \A outcome : ~StartReturns(w, outcome)
  BY StartReturnsHolds, Became, OperationsAreNot
<1>4. ASSUME NEW outcome, StopReturns(w, outcome)
      PROVE  FALSE
  BY <1>1, <1>2, <1>4 DEF StopReturns, IdPC
<1>5. ~StopNext(w)
  <2>1. ASSUME NEW s, Become(w, [worker[w] EXCEPT
                         !.rest = worker[w].rest \ {s},
                         !.service = s,
                         !.pc = IF EntryOf(s).status = "running" THEN "stop"
                                                                 ELSE "next"])
        PROVE  FALSE
    <3> DEFINE pc == IF EntryOf(s).status = "running" THEN "stop" ELSE "next"
               x == [worker[w] EXCEPT !.rest = worker[w].rest \ {s}, !.service = s, !.pc = pc]
    <3>1. x.pc = pc /\ Become(w, x)
      BY <2>1, WorkerFields DEF WorkerType
    <3> HIDE DEF x
    <3>2. worker'[w] = x
      BY <3>1, Became
    <3> QED
      BY <3>1, <3>2 DEF IdPC
  <2> QED
    BY <1>2, <2>1 DEF StopNext
<1>6. CASE Boot(w) \/ Wait(w) \/ MarkRunning(w) \/ MarkHealthy(w) \/ RecordID(w)
  BY <1>6 DEF Boot, Wait, MarkRunning, MarkHealthy, RecordID, At, IdPC
<1>7. CASE Check(w) \/ Probe(w) \/ Send(w) \/ Clean(w) \/ StartFailed(w) \/ MarkPending(w)
  BY <1>1, <1>2, <1>3, <1>7 DEF Check, Probe, Send, Clean, StartFailed, MarkPending, IdPC
<1>8. CASE Start(w)
  <2>1. (\E outcome : StartReturns(w, outcome)) \/ Goto(w, "clean")
    BY <1>8 DEF Start
  <2> QED
    BY <1>1, <1>3, <2>1 DEF IdPC
<1>9. CASE Stop(w) \/ Halt(w) \/ MarkStopped(w)
  <2>1. \/ \E outcome : StopReturns(w, outcome)
        \/ Goto(w, "mark_pending") \/ Goto(w, "mark_stopped")
    BY <1>9 DEF Stop, Halt, MarkStopped
  <2> QED
    BY <1>1, <1>4, <2>1 DEF IdPC
<1> QED
  BY <1>5, <1>6, <1>7, <1>8, <1>9 DEF Step

\* What the holder of s does to it when it is not past a boot.
LEMMA HolderStep ==
    ASSUME OwnNames, UpInv, Up, NEW w \in Worker, SchedulerStep(w), NEW s \in Service,
           s \notin overlapped, worker[w].service = s, worker[w].pc \in OpPC,
           Behind(s)', Remembered(s)
    PROVE  Remembered(s)'
<1>1. /\ SessionInv /\ RecordInv /\ SchedulerInv /\ Step(w) /\ KeepStale /\ UNCHANGED timer
      /\ registry \in RegistryType
  BY DEF UpInv, RecordInv, SchedulerStep, SchedulerInv, StateOK
<1>2. Behind(s) /\ Has(registry, s)
  BY <1>1, StaleStays, RunningHas DEF Behind
<1>3. \A v \in Worker : Holds(v, s) <=> v = w
  BY <1>1, OperationsHold DEF RecordInv
<1>4. CASE timer[s]
  BY <1>1, <1>4 DEF Remembered
<1>5. CASE worker[w].pc \in IdPC /\ ~timer[s]
  <2>1. PICK v \in Worker : Restarts(worker[v], s)
    BY <1>5 DEF Remembered, Unserved
  <2>2. Holds(v, s)
    BY <2>1 DEF Restarts, Holds
  <2> QED
    BY <1>3, <1>5, <2>1, <2>2 DEF Restarts, IdPC
<1>6. CASE worker[w].pc = "boot"
  <2>1. RunningFor(docker, s) = {}
    BY <1>1, <1>6 DEF RecordInv, Knows
  <2> QED
    BY <1>2, <2>1 DEF Behind
<1>7. CASE worker[w].pc \in {"clean", "start_failed", "mark_pending", "halt", "mark_stopped"} /\ ~timer[s]
  <2>1. \A v \in Worker : worker'[v].service = s => worker'[v].pc \notin IdPC
    <3>1. worker'[w].pc \notin IdPC
      BY <1>1, <1>7, IdStep DEF IdPC
    <3>2. ASSUME NEW v \in Worker, v # w, worker'[v].service = s
          PROVE  worker'[v].pc \notin IdPC
      <4>1. worker'[v] = worker[v] /\ ~Holds(v, s)
        BY <1>1, <1>3, <3>2, StepStays DEF RecordInv
      <4> QED
        BY <3>2, <4>1 DEF Holds, IdPC
    <3> QED
      BY <3>1, <3>2
  <2>2. worker[w].pc = "mark_pending" \/ registry.services[s].status # "running"
    <3>1. ASSUME NEW v \in Worker, Restarts(worker[v], s)
          PROVE  worker[w].pc = "mark_pending"
      <4>1. v = w
        BY <1>3, <3>1 DEF Restarts, Holds
      <4> QED
        BY <1>7, <3>1, <4>1 DEF Restarts
    <3> QED
      BY <1>7, <3>1 DEF Remembered, Unserved
  <2>3. \/ worker[w].pc # "mark_pending" /\ UNCHANGED registry
        \/ \E status \in {"failed", "pending", "stopped"} : registry' = SetStatus(registry, s, status)
    BY <1>1, <1>7
    DEF Step, Check, Probe, Send, Start, Clean, Boot, Wait, StartFailed, MarkRunning, MarkHealthy,
        RecordID, Stop, MarkPending, Halt, MarkStopped, StopNext, At
  <2>4. registry'.services[s].status # "running"
    <3>1. ASSUME NEW status \in {"failed", "pending", "stopped"},
                 registry' = SetStatus(registry, s, status)
          PROVE  registry'.services[s].status = status
      <4>1. status \in Status
        BY DEF Status
      <4> QED
        BY <1>1, <1>2, <3>1, <4>1, SetStatusEffect
    <3> QED
      BY <2>2, <2>3, <3>1
  <2> QED
    BY <2>1, <2>4 DEF Remembered, Unserved
<1> QED
  BY <1>4, <1>5, <1>6, <1>7 DEF OpPC, StartPC, StopPC, IdPC

\* What a worker does before it starts or stops s, or after.
LEMMA OutsideStep ==
    ASSUME OwnNames, UpInv, Up, NEW w \in Worker, SchedulerStep(w),
           NEW s \in Service \ (overlapped \cup refused'),
           worker[w].service = s, worker[w].pc \notin OpPC, Behind(s)', Remembered(s)
    PROVE  Remembered(s)'
<1>1. /\ SessionInv /\ RecordInv /\ SchedulerInv /\ Step(w) /\ KeepStale
      /\ UNCHANGED <<timer, registry, docker>>
  BY StepOutside DEF UpInv, RecordInv, SchedulerStep
<1>2. Has(registry, s)
  BY <1>1, StaleStays, RunningHas DEF Behind
<1>3. /\ \A v \in Worker : v # w => worker'[v] = worker[v]
      /\ worker'[w].pc \notin IdPC
  BY <1>1, StepStays, IdStep, OperationsAreNot DEF RecordInv, OpPC, StartPC
<1>4. CASE timer[s]
  BY <1>1, <1>4 DEF Remembered
<1>5. CASE Unserved(s)
  BY <1>1, <1>3, <1>5 DEF Remembered, Unserved
<1>6. CASE \E v \in Worker : v # w /\ Restarts(worker[v], s)
  BY <1>3, <1>6 DEF Remembered
<1>7. CASE Restarts(worker[w], s)
  <2>1. worker[w].pc = "stop" /\ worker[w].task = "reload"
    BY <1>7, OperationsAreNot DEF Restarts, OpPC, StopPC
  <2>2. CASE worker'[w].pc = "mark_pending"
    <3>1. Goto(w, "mark_pending") \/ Goto(w, "start") \/ Finish(w)
      BY <1>1, <2>1
      DEF Step, Check, Probe, Send, Start, Clean, Boot, Wait, StartFailed, MarkRunning, MarkHealthy,
          RecordID, Stop, StopReturns, MarkPending, Halt, MarkStopped, StopNext, At
    <3>2. Goto(w, "mark_pending")
      BY <1>1, <2>2, <3>1, Moved, Finished
    <3>3. Restarts(worker'[w], s)
      BY <1>1, <2>1, <3>2, Moved DEF Restarts
    <3> QED
      BY <3>3 DEF Remembered
  <2>3. CASE worker'[w].pc # "mark_pending"
    <3>1. ~Refused(w)
      BY DEF SchedulerStep
    <3>2. registry.services[s].status # "running"
      BY <1>2, <2>1, <2>3, <3>1 DEF Refused, At, EntryOf
    <3>3. Holds(w, s)
      BY <2>1 DEF Holds
    <3>4. ASSUME NEW v \in Worker, v # w, worker[v].service = s
          PROVE  worker[v].pc \notin IdPC
      BY <1>1, <3>3, <3>4 DEF RecordInv, Holds, IdPC
    <3>5. Unserved(s)'
      BY <1>1, <1>3, <3>2, <3>4 DEF Unserved
    <3> QED
      BY <3>5 DEF Remembered
  <2> QED
    BY <2>2, <2>3
<1> QED
  BY <1>4, <1>5, <1>6, <1>7 DEF Remembered

LEMMA StepRemembers ==
    ASSUME OwnNames, UpInv, Up, NEW w \in Worker, SchedulerStep(w),
           NEW s \in Service \ (overlapped \cup refused'), Behind(s)', Remembered(s)
    PROVE  Remembered(s)'
<1>1. /\ SessionInv /\ RecordInv /\ SchedulerInv /\ Step(w) /\ UNCHANGED timer
  BY DEF UpInv, RecordInv, SchedulerStep
<1>2. CASE worker[w].service # s
  <2>1. /\ registry'.services[s] = registry.services[s]
        /\ \A v \in Worker : v # w => worker'[v] = worker[v]
        /\ worker'[w].pc \in OpPC => worker'[w].service # s
    BY <1>1, <1>2, OthersKept, StepStays DEF RecordInv
  <2>2. Unserved(s) => Unserved(s)'
    BY <2>1, OperationsAreNot DEF Unserved
  <2>3. \A v \in Worker : Restarts(worker[v], s) => Restarts(worker'[v], s)
    BY <1>2, <2>1 DEF Restarts
  <2> QED
    BY <1>1, <2>2, <2>3 DEF Remembered
<1> QED
  BY <1>2, HolderStep, OutsideStep

LEMMA KeptInvNext ==
    ASSUME OwnNames, KeptInv, [SessionNext]_sessionVars
    PROVE  KeptInv'
<1>1. UpInv /\ UpInv' /\ SessionInv
  BY UpInvNext DEF KeptInv, UpInv
<1>2. CASE phase' # "serving"
  BY <1>1, <1>2 DEF KeptInv
<1>3. ASSUME phase' = "serving", NEW s \in Service \ (overlapped' \cup refused'), Behind(s)'
      PROVE  Remembered(s)'
  <2>1. phase = "serving"
    BY <1>3 DEF SessionNext, Request, Fire, SchedulerStep, Disconnect, ChangeCode, Signal, Drained,
                Exit, ListenFails, ProcessEnds, sessionVars
  <2>2. Up /\ RecordInv /\ SchedulerInv
    BY <1>1, <2>1 DEF Up, UpInv, RecordInv
  <2>3. s \notin overlapped \cup refused => (Behind(s) => Remembered(s))
    BY <1>3, <2>1 DEF KeptInv
  <2>4. ASSUME NEW w \in Worker, SchedulerStep(w)
        PROVE  Remembered(s)'
    <3>1. s \notin overlapped \cup refused /\ Behind(s)
      BY <1>1, <1>3, <2>4, StaleStays DEF SchedulerStep, Step
    <3> QED
      BY <1>1, <1>3, <2>2, <2>3, <2>4, <3>1, StepRemembers
  <2>5. ASSUME NEW w \in Goroutine, NEW t \in Service, Fire(w, t)
        PROVE  Remembered(s)'
    <3>1. PICK x \in WorkerType : Become(w, x) /\ Restarting(x, t)
      BY <1>1, <2>5, Fires
    <3>2. /\ w \in Worker /\ ~Busy(w) /\ UNCHANGED <<registry, docker, stale, refused>>
          /\ timer' = [timer EXCEPT ![t] = FALSE] /\ overlapped \subseteq overlapped'
      BY <1>1, <2>5, Fires
    <3>3. worker'[w] = x /\ \A v \in Worker : v # w => worker'[v] = worker[v]
      BY <2>2, <3>1, <3>2, Became
    <3>4. CASE s = t
      BY <3>1, <3>2, <3>3, <3>4 DEF Remembered, Restarts, Restarting
    <3>5. CASE s # t
      <4>1. timer'[s] = timer[s]
        BY <1>1, <1>3, <3>2, <3>5 DEF SessionInv, SessionTypeOK
      <4>2. \A v \in Worker : Restarts(worker[v], s) => Restarts(worker'[v], s)
        BY <3>2, <3>3 DEF Restarts, Busy, At
      <4>3. Unserved(s) => Unserved(s)'
        BY <3>1, <3>2, <3>3 DEF Unserved, Restarting, IdPC
      <4>4. Behind(s)
        BY <1>3, <3>2 DEF Behind
      <4> QED
        BY <1>3, <2>3, <3>2, <4>1, <4>2, <4>3, <4>4 DEF Remembered
    <3> QED
      BY <3>4, <3>5
  <2>6. ASSUME NEW w \in Goroutine, NEW t \in Service, Request(w, t)
        PROVE  Remembered(s)'
    <3>1. /\ w \in Worker /\ ~Busy(w) /\ UNCHANGED <<docker, timer, refused>>
          /\ registry' = AddEntry(registry, t) /\ overlapped \subseteq overlapped'
          /\ registry \in RegistryType
      BY <2>2, <2>6 DEF Goroutine, Request, Invoke, TakesOn, SchedulerInv, StateOK
    <3>2. Behind(s) /\ Has(registry, s)
      <4>1. Behind(s)
        BY <1>3, <2>6, <3>1 DEF Request, KeepStale, Behind
      <4> QED
        BY <2>2, <4>1, RunningHas DEF Behind
    <3>3. registry'.services[s] = registry.services[s]
      BY <3>1, <3>2, AddEntryEffect
    <3>4. /\ \A v \in Worker : v # w => worker'[v] = worker[v]
          /\ worker'[w].pc \notin IdPC
      <4> DEFINE x == [Resting EXCEPT !.task = "invoke", !.service = t, !.pc = "check"]
      <4>1. /\ x.pc = "check" /\ Resting.pc = "idle"
            /\ Become(w, x) \/ Become(w, Resting)
        BY <2>6 DEF Request, Invoke, Begin, Finish, Resting
      <4> HIDE DEF x
      <4> QED
        BY <2>2, <3>1, <4>1, Became DEF IdPC
    <3>5. \A v \in Worker : Restarts(worker[v], s) => Restarts(worker'[v], s)
      BY <3>1, <3>4 DEF Restarts, Busy, At
    <3>6. Unserved(s) => Unserved(s)'
      BY <3>3, <3>4 DEF Unserved
    <3> QED
      BY <1>3, <2>3, <3>1, <3>2, <3>5, <3>6 DEF Remembered
  <2>7. ASSUME NEW t \in Service, ChangeCode(t)
        PROVE  Remembered(s)'
    <3>1. UNCHANGED <<registry, docker, worker, overlapped, refused>> /\ timer \in [Service -> BOOLEAN]
      BY <1>1, <2>7 DEF ChangeCode, vars, SessionInv, SessionTypeOK
    <3>2. CASE s = t
      BY <2>1, <2>7, <3>1, <3>2 DEF ChangeCode, Remembered
    <3>3. CASE s # t
      <4>1. timer'[s] = timer[s] /\ stale' = stale \cup RunningFor(docker, t)
        BY <1>3, <2>7, <3>1, <3>3 DEF ChangeCode
      <4>2. Behind(s)
        BY <1>3, <3>1, <3>3, <4>1 DEF Behind, RunningFor
      <4> QED
        BY <1>3, <2>3, <3>1, <4>1, <4>2 DEF Remembered, Unserved
    <3> QED
      BY <3>2, <3>3
  <2>8. ASSUME NEW w \in Worker, Disconnect(w)
        PROVE  Remembered(s)'
    <3> DEFINE x == [worker[w] EXCEPT !.cancelled = TRUE]
    <3>1. UNCHANGED <<registry, docker, overlapped, refused, stale, timer>> /\ Become(w, x)
      BY <2>8 DEF Disconnect, Cancel
    <3>2. x.pc = worker[w].pc /\ x.task = worker[w].task /\ x.service = worker[w].service
      BY <2>2, WorkerFields DEF WorkerType
    <3> HIDE DEF x
    <3>3. \A v \in Worker : /\ worker'[v].pc = worker[v].pc /\ worker'[v].task = worker[v].task
                            /\ worker'[v].service = worker[v].service
      BY <2>2, <3>1, <3>2, Became
    <3>4. Behind(s)
      BY <1>3, <3>1 DEF Behind
    <3> QED
      BY <1>3, <2>3, <3>1, <3>3, <3>4 DEF Remembered, Restarts, Unserved
  <2>9. CASE UNCHANGED sessionVars
    <3>1. Behind(s) /\ UNCHANGED <<registry, worker, timer, overlapped, refused>>
      BY <1>3, <2>9 DEF sessionVars, vars, Behind
    <3> QED
      BY <1>3, <2>3, <3>1 DEF Remembered, Unserved
  <2> QED
    BY <1>3, <2>4, <2>5, <2>6, <2>7, <2>8, <2>9
    DEF SessionNext, Signal, Drained, Exit, ListenFails, ProcessEnds
<1> QED
  BY <1>1, <1>2, <1>3 DEF KeptInv

\* Through requests, reloads and changes of the code at any time: no change is
\* forgotten of a service that nothing else starts or stops at the same time.
THEOREM ChangesAreKeptThm == ASSUME OwnNames PROVE SessionSpec => []ChangesAreKept
<1>1. SessionInit => KeptInv
  <2> SUFFICES ASSUME SessionInit PROVE KeptInv
    OBVIOUS
  <2>1. \A s : ~Behind(s)
    BY DEF SessionInit, Behind
  <2> QED
    BY <2>1, UpInvInit DEF KeptInv
<1>2. KeptInv /\ [SessionNext]_sessionVars => KeptInv'
  BY KeptInvNext
<1>3. KeptInv => ChangesAreKept
  BY DEF KeptInv, ChangesAreKept, ServesOldCode, EntryOf, Behind, Remembered, Restarts, Unserved
<1> QED
  BY <1>1, <1>2, <1>3, PTL DEF SessionSpec
-----------------------------------------------------------------------------
(* Commands.  While a process runs, SchedulerInv of SchedulerProofs relates *)
(* the containers to its memory, and its memory agrees with the file about  *)
(* names, ports and ids.  Between two processes only the file is left.      *)

USE CommandsAssumption

-----------------------------------------------------------------------------
(* The inductive invariant *)

FileSound == file \in FileType /\ PortsSound(file) /\ ContainersAreOnFile

\* The memory of the process agrees with the file.
Agrees == SchedulerInv /\ file \in FileType /\ SamePorts(registry, file)

CommandsInv ==
    /\ command # "none" => Agrees
    /\ command = "none" => /\ docker \in DockerType
                           /\ worker = [w \in Worker |-> Resting]
                           /\ file # Unreadable => FileSound

LEMMA AgreesSound ==
    ASSUME Agrees
    PROVE  FileSound /\ docker \in DockerType /\ file # Unreadable
<1>1. PortsSound(file) /\ docker \in DockerType /\ file # Unreadable
  BY SamePortsSound DEF Agrees, SchedulerInv, StateOK
<1>2. \A c \in Running(docker) : docker[c].service \in Service
  BY <1>1 DEF Running, DockerType, Container
<1>3. ContainersAreOnFile
  BY <1>2 DEF ContainersAreOnFile, Agrees, SchedulerInv, OneContainerPerService, SamePorts,
              EntryOf
<1> QED
  BY <1>1, <1>3 DEF FileSound, Agrees

\* A save brings the file to the memory; nothing else that a worker does
\* changes an entry's name or port.
LEMMA SavedAgrees ==
    ASSUME SchedulerInv', file' = Persisted(registry')
    PROVE  Agrees'
<1>1. registry' \in RegistryType
  BY DEF SchedulerInv, StateOK
<1> QED
  BY <1>1, PersistedEffect DEF Agrees

LEMMA UnsavedAgrees ==
    ASSUME Agrees, SchedulerInv', SamePorts(registry, registry'), UNCHANGED file
    PROVE  Agrees'
BY DEF Agrees, SamePorts

LEMMA SameIsSamePorts ==
    ASSUME NEW r
    PROVE  SamePorts(r, r)
BY DEF SamePorts

-----------------------------------------------------------------------------
(* Steps *)

LEMMA TheCommandsInit == CommandsInit => CommandsInv
<1> SUFFICES ASSUME CommandsInit PROVE CommandsInv
  OBVIOUS
<1>1. SchedulerInv
  BY TheInit DEF CommandsInit
<1>2. file \in FileType /\ SamePorts(NewRegistry, file)
  BY NewRegistryType, PersistedEffect DEF CommandsInit
<1>3. Agrees
  BY <1>1, <1>2 DEF Agrees, CommandsInit, Init
<1> QED
  BY <1>3, AgreesSound DEF CommandsInv, CommandsInit, Init

LEMMA LaunchKeeps ==
    ASSUME CommandsInv, NEW name \in Command, Launch(name)
    PROVE  CommandsInv'
<1>1. /\ FileSound /\ docker \in DockerType /\ worker = [w \in Worker |-> Resting]
      /\ registry' = Restored(file) /\ UNCHANGED <<docker, worker, file>>
      /\ file # Unreadable
  BY DEF CommandsInv, Launch
<1>2. registry' \in RegistryType /\ SamePorts(file, registry')
  BY <1>1, RestoredEffect DEF FileSound
<1>3. PortsSound(registry')
  BY <1>1, <1>2, SamePortsSound DEF FileSound
<1>4. \A c \in Running(docker) : docker[c].service \in Service
  BY <1>1 DEF Running, DockerType, Container
<1>5. OneContainerPerService'
  BY <1>1, <1>2, <1>4 DEF FileSound, ContainersAreOnFile, OneContainerPerService, EntryOf,
                          SamePorts
<1>6. worker' \in [Worker -> WorkerType] /\ WorkersSound'
  BY <1>1, RestingType DEF WorkersSound, NoServicePC
<1>7. SamePorts(registry', file')
  BY <1>1, <1>2 DEF SamePorts
<1>8. Agrees'
  BY <1>1, <1>2, <1>3, <1>5, <1>6, <1>7 DEF Agrees, FileSound, SchedulerInv, StateOK
<1>9. command' # "none"
  BY DEF Launch, Command
<1> QED
  BY <1>8, <1>9 DEF CommandsInv

LEMMA GoneKeeps ==
    ASSUME CommandsInv, command # "none", Gone, file' \in {file, Unreadable}
    PROVE  CommandsInv'
<1>1. FileSound /\ docker \in DockerType
  BY AgreesSound DEF CommandsInv
<1>2. /\ command' = "none" /\ worker' = [w \in Worker |-> Resting] /\ docker' = docker
      /\ file' = Unreadable \/ FileSound'
  BY <1>1 DEF Gone, FileSound, ContainersAreOnFile
<1> QED
  BY <1>1, <1>2 DEF CommandsInv

\* What a step of the scheduler does to names and ports.
LEMMA StepPorts ==
    ASSUME SchedulerInv, NEW w \in Worker, Step(w)
    PROVE  SamePorts(registry, registry')
<1>1. registry \in RegistryType
  BY DEF SchedulerInv, StateOK
<1>2. CASE UNCHANGED registry
  BY <1>2, SameIsSamePorts
<1>3. ASSUME NEW status \in Status, worker[w].service \in Service,
             registry' = SetStatus(registry, worker[w].service, status)
      PROVE  SamePorts(registry, registry')
  BY <1>1, <1>3, SetStatusEffect
<1>4. {"failed", "running", "pending", "stopped"} \subseteq Status
  BY DEF Status
<1>5. CASE StartFailed(w) \/ MarkRunning(w) \/ MarkPending(w) \/ MarkStopped(w)
  <2>1. worker[w].service \in Service
    BY <1>5, Working DEF StartFailed, MarkRunning, MarkPending, MarkStopped, At, NoServicePC
  <2> QED
    BY <1>3, <1>4, <1>5, <2>1 DEF StartFailed, MarkRunning, MarkPending, MarkStopped
<1>6. CASE MarkHealthy(w)
  <2>1. worker[w].service \in Service
    BY <1>6, Working DEF MarkHealthy, At, NoServicePC
  <2> QED
    BY <1>1, <1>6, <2>1, SetHealthEffect DEF MarkHealthy
<1>7. CASE RecordID(w)
  <2>1. worker[w].service \in Service
    BY <1>7, Working DEF RecordID, At, NoServicePC
  <2>2. worker[w].id \in ContainerId \cup {NoId}
    BY WorkerFields
  <2> QED
    BY <1>1, <1>7, <2>1, <2>2, SetContainerIDEffect DEF RecordID
<1> QED
  BY <1>2, <1>5, <1>6, <1>7
  DEF Step, Check, Probe, Send, Start, Clean, Boot, Wait, Stop, Halt, StopNext

LEMMA StepsInv ==
    ASSUME SchedulerInv, NEW w \in Worker, Step(w) \/ Call(w) \/ Cancel(w)
    PROVE  SchedulerInv'
BY NextInv DEF Next

LEMMA WorksKeeps ==
    ASSUME CommandsInv, NEW w \in Worker, Works(w)
    PROVE  CommandsInv'
<1>1. Agrees /\ SchedulerInv' /\ SamePorts(registry, registry')
  BY StepsInv, StepPorts DEF Works, CommandsInv, Agrees
<1>2. Agrees'
  BY <1>1, SavedAgrees, UnsavedAgrees DEF Works
<1> QED
  BY <1>2 DEF Works, CommandsInv

LEMMA InvokesKeeps ==
    ASSUME CommandsInv, NEW w \in Worker, NEW s \in Service, Invokes(w, s)
    PROVE  CommandsInv'
<1>1. Agrees /\ command' # "none"
  BY DEF Invokes, CommandsInv
<1>2. SchedulerInv'
  BY <1>1, StepsInv DEF Invokes, Agrees, Call
<1>3. CASE Has(registry, s)
  <2>1. registry' = registry /\ file' = file
    BY <1>3 DEF Invokes, Invoke, AddEntry
  <2> QED
    BY <1>1, <1>2, <2>1, SameIsSamePorts, UnsavedAgrees DEF CommandsInv
<1>4. CASE ~Has(registry, s)
  BY <1>1, <1>2, <1>4, SavedAgrees DEF Invokes, CommandsInv
<1> QED
  BY <1>3, <1>4

\* The steps that change what a worker does next and nothing else.
LEMMA TaskKeeps ==
    ASSUME CommandsInv, command # "none", SchedulerInv', UNCHANGED <<registry, file, command>>
    PROVE  CommandsInv'
BY SameIsSamePorts, UnsavedAgrees DEF CommandsInv

LEMMA TasksKeep ==
    ASSUME CommandsInv, NEW w \in Worker, NEW s \in Service,
           Reloads(w, s) \/ StopsOne(w, s)
    PROVE  CommandsInv'
<1>1. Agrees /\ command # "none" /\ UNCHANGED <<registry, file, command>>
  BY DEF Reloads, StopsOne, Reload, CommandsInv
<1>2. CASE Reloads(w, s)
  <2>1. SchedulerInv'
    BY <1>1, <1>2, StepsInv DEF Reloads, Agrees, Call
  <2> QED
    BY <1>1, <2>1, TaskKeeps
<1>3. CASE StopsOne(w, s)
  <2>1. "stop" \in Task /\ "stop" \in PC \ EntryPC
    BY PCs DEF Task
  <2>2. RegistryStep /\ SchedulerInv
    BY <1>1, SameRegistry DEF Agrees
  <2>3. WorkerStep
    BY <1>3, <2>1, <2>2, BeginStep DEF StopsOne
  <2>4. SchedulerInv'
    BY <1>3, <2>2, <2>3, QuietInv DEF StopsOne
  <2> QED
    BY <1>1, <2>4, TaskKeeps
<1> QED
  BY <1>2, <1>3

LEMMA CommandsStep == CommandsInv /\ [CommandsNext]_commandVars => CommandsInv'
<1> SUFFICES ASSUME CommandsInv, [CommandsNext]_commandVars
             PROVE  CommandsInv'
  OBVIOUS
<1>1. CASE UNCHANGED commandVars
  <2>1. command # "none" => SchedulerInv'
    BY <1>1, NextInv DEF commandVars, CommandsInv, Agrees
  <2> QED
    BY <1>1, <2>1 DEF commandVars, vars, CommandsInv, Agrees, FileSound, ContainersAreOnFile
<1>2. CASE Return \/ Kill
  BY <1>2, GoneKeeps DEF Return, Kill
<1>3. CASE WorkflowEnds
  <2>1. command # "none" /\ UNCHANGED <<vars, file, command>>
    BY <1>3 DEF WorkflowEnds
  <2>2. SchedulerInv'
    BY <2>1, NextInv DEF CommandsInv, Agrees
  <2> QED
    BY <2>1, <2>2, TaskKeeps DEF vars
<1>4. ASSUME NEW w \in Worker, NEW s \in Service,
             Invokes(w, s) \/ Reloads(w, s) \/ StopsOne(w, s)
      PROVE  CommandsInv'
  BY <1>4, InvokesKeeps, TasksKeep
<1>5. ASSUME NEW w \in Worker, StopsAll(w) \/ Works(w)
      PROVE  CommandsInv'
  <2>1. CASE Works(w)
    BY <2>1, WorksKeeps
  <2>2. CASE StopsAll(w)
    <3>1. Agrees /\ command # "none" /\ UNCHANGED <<registry, file, command>>
      BY <2>2 DEF StopsAll, StopAll, CommandsInv
    <3>2. SchedulerInv'
      BY <2>2, <3>1, StepsInv DEF StopsAll, Agrees, Call
    <3> QED
      BY <3>1, <3>2, TaskKeeps
  <2> QED
    BY <1>5, <2>1, <2>2
<1> QED
  BY <1>1, <1>2, <1>3, <1>4, <1>5, LaunchKeeps DEF CommandsNext

-----------------------------------------------------------------------------
(* The theorem *)

\* Whatever sequence of commands runs, whichever of their calls to Docker
\* fail, and wherever they are killed: as long as the file decodes, every
\* container that runs is named in it, with its port, and alone in its name.
THEOREM ContainersAreOnFileThm == CommandsSpec => []ContainersAreOnFile
<1>1. CommandsInv => ContainersAreOnFile
  BY AgreesSound DEF CommandsInv, FileSound, ContainersAreOnFile
<1> QED
  BY <1>1, TheCommandsInit, CommandsStep, PTL DEF CommandsSpec

-----------------------------------------------------------------------------
(* The registry says what runs, unless operations of one process overlapped *)

SameIds(r, f) == \A s \in Service : Has(r, s) => f.services[s].id = r.services[s].id

\* A container that the file names belongs to the service it is named for.
FileIdsOwned ==
    \A s \in Service : Has(file, s) /\ file.services[s].id \in Running(docker)
                          => docker[file.services[s].id].service = s

CommandsRecordInv ==
    /\ CommandsInv
    /\ command # "none" => RecordInv /\ SameIds(registry, file)
    /\ command = "none" => /\ registry = NewRegistry /\ overlapped = {}
                           /\ file # Unreadable => FileIdsOwned

LEMMA RecordIsSched ==
    ASSUME CommandsInv', command' # "none"
    PROVE  SchedulerInv'
BY DEF CommandsInv, Agrees

LEMMA SameIdsSaved ==
    ASSUME NEW r
    PROVE  SameIds(r, Persisted(r))
BY DEF SameIds, Persisted

LEMMA LaunchRecord ==
    ASSUME CommandsRecordInv, CommandsInv', NEW name \in Command, Launch(name)
    PROVE  CommandsRecordInv'
<1>1. /\ command' # "none" /\ registry' = Restored(file) /\ UNCHANGED <<docker, file>>
      /\ worker' = [w \in Worker |-> Resting] /\ FileIdsOwned
  BY DEF Launch, Command, CommandsRecordInv, CommandsInv
<1>2. \A s \in Service : Has(registry', s) =>
         /\ registry'.services[s].status = "unset"
         /\ Has(file, s) /\ registry'.services[s].id = file.services[s].id
  BY <1>1 DEF Restored, Has
<1>3. \A w \in Worker : worker'[w].pc = "idle"
  BY <1>1 DEF Resting
<1>4. IdsOwned'
  BY <1>1, <1>2, <1>3 DEF IdsOwned, Owns, IdPC, FileIdsOwned
<1>5. RecordInv'
  BY <1>1, <1>2, <1>3, <1>4, RecordIsSched, OperationsAreNot
  DEF RecordInv, Holds, Knows, EntryTrue
<1>6. SameIds(registry', file')
  BY <1>1, <1>2 DEF SameIds
<1> QED
  BY <1>1, <1>5, <1>6 DEF CommandsRecordInv

LEMMA StopsOneKnows ==
    ASSUME RecordInv, SchedulerInv', NEW w \in Worker, NEW s \in Service, StopsOne(w, s)
    PROVE  RecordInv'
<1>1. PICK x : Become(w, x) /\ x.pc \notin IdPC
  <2> DEFINE x == [Resting EXCEPT !.task = "stop", !.service = s, !.pc = "stop"]
  <2>1. Become(w, x) /\ x.pc = "stop"
    BY DEF StopsOne, Begin, Resting
  <2> HIDE DEF x
  <2> QED
    BY <2>1 DEF IdPC
<1>2. IdsOwned'
  BY <1>1, IdsStay DEF RecordInv, StopsOne
<1> QED
  BY <1>2, BeginsKnow DEF StopsOne

LEMMA SameKnows ==
    ASSUME RecordInv, UNCHANGED vars
    PROVE  RecordInv'
<1>1. SchedulerInv'
  BY NextInv DEF RecordInv
<1>2. UNCHANGED <<worker, registry, docker, overlapped>>
  BY DEF vars
<1> QED
  BY <1>1, <1>2, SamePlaces

\* Only RecordID, which saves, changes the id of an entry.
LEMMA StepKeepsIds ==
    ASSUME SchedulerInv, NEW w \in Worker, Step(w), ~At(w, "record_id")
    PROVE  \A s \in Service : Has(registry', s) =>
              registry'.services[s].id = registry.services[s].id
<1>1. registry \in RegistryType
  BY DEF SchedulerInv, StateOK
<1>2. CASE UNCHANGED registry
  BY <1>2
<1>3. CASE StartFailed(w) \/ MarkRunning(w) \/ MarkPending(w) \/ MarkStopped(w)
  <2> DEFINE s == worker[w].service
  <2>1. /\ s \in Service
        /\ \E status \in Status : registry' = SetStatus(registry, s, status)
    BY <1>3, Working DEF StartFailed, MarkRunning, MarkPending, MarkStopped, At, NoServicePC,
                         Status
  <2> QED
    BY <1>1, <2>1, SetStatusEffect DEF SamePorts
<1>4. CASE MarkHealthy(w)
  <2> DEFINE s == worker[w].service
  <2>1. s \in Service
    BY <1>4, Working DEF MarkHealthy, At, NoServicePC
  <2>2. /\ SamePorts(registry, registry')
        /\ \A t \in Service : t # s => registry'.services[t] = registry.services[t]
        /\ Has(registry, s) => registry'.services[s].id = registry.services[s].id
    BY <1>1, <1>4, <2>1, SetHealthEffect DEF MarkHealthy
  <2> QED
    BY <2>2 DEF SamePorts
<1>5. ~RecordID(w)
  BY DEF RecordID
<1> QED
  BY <1>2, <1>3, <1>4, <1>5
  DEF Step, Check, Probe, Send, Start, Clean, Boot, Wait, Stop, Halt, StopNext

LEMMA WorksIds ==
    ASSUME RecordInv, SameIds(registry, file), NEW w \in Worker, Works(w)
    PROVE  SameIds(registry', file')
<1>1. CASE At(w, "record_id")
  BY <1>1, SameIdsSaved DEF Works
<1>2. CASE ~At(w, "record_id")
  <2>1. SamePorts(registry, registry') /\ UNCHANGED file
    BY <1>2, StepPorts DEF Works, RecordInv
  <2> QED
    BY <1>2, <2>1, StepKeepsIds DEF Works, SameIds, SamePorts, RecordInv
<1> QED
  BY <1>1, <1>2

LEMMA EndRecord ==
    ASSUME CommandsRecordInv, CommandsInv', command # "none", Gone,
           file' \in {file, Unreadable}
    PROVE  CommandsRecordInv'
<1>1. /\ RecordInv /\ SameIds(registry, file) /\ SamePorts(registry, file)
  BY DEF CommandsRecordInv, CommandsInv, Agrees
<1>2. FileIdsOwned
  BY <1>1 DEF RecordInv, IdsOwned, FileIdsOwned, SameIds, SamePorts
<1>3. /\ command' = "none" /\ registry' = NewRegistry /\ overlapped' = {} /\ UNCHANGED docker
  BY DEF Gone
<1>4. file' # Unreadable => FileIdsOwned'
  BY <1>2, <1>3 DEF FileIdsOwned
<1> QED
  BY <1>3, <1>4 DEF CommandsRecordInv

LEMMA CommandsRecordStep ==
    ASSUME OwnNames, CommandsRecordInv, [CommandsNext]_commandVars
    PROVE  CommandsRecordInv'
<1>1. CommandsInv'
  BY CommandsStep DEF CommandsRecordInv
<1>2. ASSUME command # "none"
      PROVE  RecordInv /\ SameIds(registry, file)
  BY <1>2 DEF CommandsRecordInv
<1>3. ASSUME command # "none", UNCHANGED command, RecordInv', SameIds(registry', file')
      PROVE  CommandsRecordInv'
  BY <1>1, <1>3 DEF CommandsRecordInv
<1>4. ASSUME command # "none", UNCHANGED command
      PROVE  SchedulerInv'
  BY <1>1, <1>4, RecordIsSched
<1>5. CASE UNCHANGED <<vars, file, command>>
  <2>1. CASE command = "none"
    BY <1>1, <1>5, <2>1 DEF vars, CommandsRecordInv, FileIdsOwned
  <2>2. CASE command # "none"
    BY <1>2, <1>3, <1>5, <2>2, SameKnows DEF vars, SameIds
  <2> QED
    BY <2>1, <2>2
<1>6. CASE Return \/ Kill
  BY <1>1, <1>6, EndRecord DEF Return, Kill
<1>7. ASSUME NEW name \in Command, Launch(name)
      PROVE  CommandsRecordInv'
  BY <1>1, <1>7, LaunchRecord
<1>8. ASSUME NEW w \in Worker, NEW s \in Service,
             Invokes(w, s) \/ Reloads(w, s) \/ StopsOne(w, s)
      PROVE  CommandsRecordInv'
  <2>1. command # "none" /\ UNCHANGED command
    BY <1>8 DEF Invokes, Reloads, StopsOne
  <2>2. RecordInv'
    BY <1>2, <1>4, <1>8, <2>1, InvokeKnows, ReloadKnows, StopsOneKnows DEF Invokes, Reloads
  <2>3. UNCHANGED <<registry, file>> \/ file' = Persisted(registry')
    BY <1>8 DEF Invokes, Invoke, AddEntry, Reloads, Reload, StopsOne
  <2>4. SameIds(registry', file')
    BY <1>2, <2>1, <2>3, SameIdsSaved
  <2> QED
    BY <1>3, <2>1, <2>2, <2>4
<1>9. ASSUME NEW w \in Worker, Works(w)
      PROVE  CommandsRecordInv'
  <2>1. command # "none" /\ UNCHANGED command
    BY <1>9 DEF Works
  <2>2. RecordInv'
    BY <1>2, <1>4, <1>9, <2>1, StepKnows DEF Works
  <2> QED
    BY <1>2, <1>3, <1>9, <2>1, <2>2, WorksIds
<1>10. ASSUME NEW w \in Worker, StopsAll(w)
      PROVE  CommandsRecordInv'
  <2>1. command # "none" /\ UNCHANGED <<command, registry, file>>
    BY <1>10 DEF StopsAll, StopAll
  <2>2. RecordInv'
    BY <1>2, <1>4, <1>10, <2>1, StopAllKnows DEF StopsAll
  <2> QED
    BY <1>2, <1>3, <2>1, <2>2
<1> QED
  BY <1>5, <1>6, <1>7, <1>8, <1>9, <1>10 DEF CommandsNext, commandVars, WorkflowEnds

LEMMA CommandsRecordInit == CommandsInit => CommandsRecordInv
<1> SUFFICES ASSUME CommandsInit PROVE CommandsRecordInv
  OBVIOUS
<1>1. command = "none" /\ registry = NewRegistry /\ overlapped = {} /\ docker = NoneRunning
  BY DEF CommandsInit, Init
<1>2. FileIdsOwned
  BY <1>1 DEF FileIdsOwned, Running, NoneRunning
<1> QED
  BY <1>1, <1>2, TheCommandsInit DEF CommandsRecordInv

LEMMA CommandsRecordRight == CommandsRecordInv => RunningIsRecorded /\ StoppedHasNone
<1> SUFFICES ASSUME CommandsRecordInv PROVE RunningIsRecorded /\ StoppedHasNone
  OBVIOUS
<1>1. CASE command = "none"
  BY <1>1, NewRegistryType DEF CommandsRecordInv, RunningIsRecorded, StoppedHasNone
<1>2. CASE command # "none"
  BY <1>2, RecordsAreRight DEF CommandsRecordInv
<1> QED
  BY <1>1, <1>2

\* Names none of which contains another: a service that is marked running, and
\* on which no two operations of the process have met, is served by the
\* container on record, however many calls fail, whatever else overlaps and
\* however many processes were killed.
THEOREM RunningIsRecordedThm ==
    ASSUME OwnNames
    PROVE  CommandsSpec => []RunningIsRecorded
<1>1. CommandsRecordInv /\ [CommandsNext]_commandVars => CommandsRecordInv'
  BY CommandsRecordStep
<1> QED
  BY <1>1, CommandsRecordInit, CommandsRecordRight, PTL DEF CommandsSpec

\* And one that is marked stopped has no container left.
THEOREM StoppedHasNoneThm ==
    ASSUME OwnNames
    PROVE  CommandsSpec => []StoppedHasNone
<1>1. CommandsRecordInv /\ [CommandsNext]_commandVars => CommandsRecordInv'
  BY CommandsRecordStep
<1> QED
  BY <1>1, CommandsRecordInit, CommandsRecordRight, PTL DEF CommandsSpec

-----------------------------------------------------------------------------
(* Any sequence of commands implements ServiceLifecycle                     *)

\* The abstract state as operators of registry and containers.
OneOf(S) == CHOOSE c \in ContainerId : c \in S

BoxIn(d, s) == IF RunningFor(d, s) = {} THEN NoId ELSE OneOf(RunningFor(d, s))

IdIn(r, s) == IF Has(r, s) THEN r.services[s].id ELSE NoId

LEMMA BoxIsIn == \A s : BoxOf(s) = BoxIn(docker, s)
BY DEF BoxOf, BoxIn, OneOf

LEMMA IdIsIn ==
    ASSUME CommandsRecordInv, command # "none"
    PROVE  \A s \in Service : IdOf(s) = IdIn(registry, s)
<1>1. Agrees /\ SameIds(registry, file)
  BY DEF CommandsRecordInv, CommandsInv
<1>2. file # Unreadable
  BY <1>1, AgreesSound
<1> QED
  BY <1>1, <1>2 DEF IdOf, IdIn, SameIds, Agrees, SamePorts

LEMMA BoxIsInNext == \A s : BoxOf(s)' = BoxIn(docker', s)
BY DEF BoxOf, BoxIn, OneOf

LEMMA IdIsInNext ==
    ASSUME CommandsRecordInv', command' # "none"
    PROVE  \A s \in Service : IdOf(s)' = IdIn(registry', s)
<1>1. file' # Unreadable /\ SamePorts(registry', file') /\ SameIds(registry', file')
  BY DEF CommandsRecordInv, CommandsInv, Agrees
<1> QED
  BY <1>1 DEF IdOf, IdIn, SameIds, SamePorts

\* What a step leaves alone of a service, seen from outside.
Untouched(s) == /\ PhaseOf(s)' = PhaseOf(s)
                /\ BoxOf(s)' = BoxOf(s)
                /\ IdOf(s)' = IdOf(s)

LEMMA AllUntouched ==
    ASSUME \A s \in Service : Untouched(s)
    PROVE  UNCHANGED Lifecycle!vars
BY DEF Untouched, Lifecycle!vars

LEMMA OthersUntouched ==
    ASSUME NEW s \in Service, \A t \in Service : t # s => Untouched(t)
    PROVE  Lifecycle!Touches(s)
BY DEF Untouched, Lifecycle!Touches

\* One worker moves, and what changes belongs to t at most in its worker.
LEMMA OtherService ==
    ASSUME CommandsRecordInv, CommandsRecordInv', command # "none", command' # "none",
           UNCHANGED overlapped, NEW w \in Worker, \A v \in Worker : v # w => worker'[v] = worker[v],
           NEW t \in Service, Changing(w, t)' <=> Changing(w, t),
           registry'.services[t] = registry.services[t],
           RunningFor(docker', t) = RunningFor(docker, t)
    PROVE  Untouched(t)
<1>1. Settled(t)' <=> Settled(t)
  BY DEF Settled, Changing
<1>2. PhaseOf(t)' = PhaseOf(t)
  BY <1>1 DEF PhaseOf, Has, EntryOf
<1>3. BoxOf(t)' = BoxOf(t)
  BY BoxIsIn, BoxIsInNext DEF BoxIn
<1>4. IdOf(t)' = IdOf(t)
  BY IdIsIn, IdIsInNext DEF IdIn, Has
<1> QED
  BY <1>2, <1>3, <1>4 DEF Untouched

\* A container runs for one service.
LEMMA BoxesApart ==
    ASSUME NEW d, NEW s \in Service, NEW t \in Service, s # t, BoxIn(d, s) # NoId
    PROVE  BoxIn(d, t) # BoxIn(d, s)
<1>1. OneOf(RunningFor(d, s)) \in RunningFor(d, s)
  <2>1. \E c \in ContainerId : c \in RunningFor(d, s)
    BY DEF BoxIn, RunningFor, Running
  <2> QED
    BY <2>1 DEF OneOf
<1>2. CASE RunningFor(d, t) = {}
  BY <1>2 DEF BoxIn
<1>3. CASE RunningFor(d, t) # {}
  <2>1. \E c \in ContainerId : c \in RunningFor(d, t)
    BY <1>3 DEF RunningFor, Running
  <2>2. OneOf(RunningFor(d, t)) \in RunningFor(d, t)
    BY <2>1 DEF OneOf
  <2> QED
    BY <1>1, <1>3, <2>2 DEF BoxIn, RunningFor
<1> QED
  BY <1>2, <1>3

\* A step of w in its work on s.
LEMMA OwnStep ==
    ASSUME CommandsRecordInv, CommandsRecordInv', command # "none", command' # "none",
           UNCHANGED overlapped, NEW w \in Worker, \A v \in Worker : v # w => worker'[v] = worker[v],
           NEW s \in Service, Holds(w, s),
           worker[w].pc \in OpPC => worker[w].service = s,
           worker'[w].pc \in OpPC => worker'[w].service = s,
           worker[w].pc \notin OpPC => UNCHANGED <<registry, docker>>,
           \A t \in Service : t # s =>
              /\ registry'.services[t] = registry.services[t]
              /\ RunningFor(docker', t) = RunningFor(docker, t)
    PROVE  Lifecycle!Next \/ UNCHANGED Lifecycle!vars
<1>1. /\ \A t \in Service : t # s => ~Changing(w, t) /\ ~Changing(w, t)'
      /\ Changing(w, s) <=> worker[w].pc \in OpPC
      /\ Changing(w, s)' <=> worker'[w].pc \in OpPC
  BY DEF Changing, OpPC
<1>2. \A t \in Service : t # s => Untouched(t)
  BY <1>1, OtherService
<1>3. Lifecycle!Touches(s)
  BY <1>2, OthersUntouched
<1>4. CASE s \in overlapped
  <2>1. PhaseOf(s) = "entangled" /\ PhaseOf(s)' = "entangled"
    BY <1>4 DEF PhaseOf
  <2>2. BoxOf(s)' # NoId => \A t \in Service \ {s} : BoxOf(t) # BoxOf(s)'
    BY <1>2, BoxIsIn, BoxIsInNext, BoxesApart DEF Untouched
  <2>3. Lifecycle!Tangle(s)
    BY <1>3, <2>1, <2>2 DEF Lifecycle!Tangle
  <2> QED
    BY <2>3 DEF Lifecycle!Next
<1>5. CASE s \notin overlapped
  <2>1. \A v \in Worker : v # w => ~Changing(v, s) /\ ~Changing(v, s)'
    <3> SUFFICES ASSUME NEW v \in Worker, v # w, Changing(v, s) \/ Changing(v, s)'
                 PROVE  FALSE
      OBVIOUS
    <3>1. Changing(v, s)
      BY DEF Changing
    <3>2. Holds(v, s)
      BY <3>1, OperationsAreNot DEF Changing, OpPC, Holds
    <3> QED
      BY <1>5, <3>2 DEF CommandsRecordInv, RecordInv
  <2>2. /\ Settled(s) <=> worker[w].pc \notin OpPC
        /\ Settled(s)' <=> worker'[w].pc \notin OpPC
    BY <1>1, <2>1 DEF Settled
  <2>3. /\ PhaseOf(s) = "busy" <=> worker[w].pc \in OpPC
        /\ PhaseOf(s)' = "busy" <=> worker'[w].pc \in OpPC
    BY <1>5, <2>2 DEF PhaseOf
  <2>4. CASE worker[w].pc \notin OpPC /\ worker'[w].pc \notin OpPC
    <3>1. Untouched(s)
      BY <1>1, <2>4, OtherService
    <3> QED
      BY <1>2, <3>1, AllUntouched
  <2>5. CASE worker[w].pc \notin OpPC /\ worker'[w].pc \in OpPC
    <3>1. \A t \in Service : BoxOf(t)' = BoxOf(t) /\ IdOf(t)' = IdOf(t)
      BY <2>5, BoxIsIn, BoxIsInNext, IdIsIn, IdIsInNext
    <3>2. Lifecycle!Begin(s)
      BY <1>3, <1>5, <2>3, <2>5, <3>1 DEF Lifecycle!Begin, PhaseOf
    <3> QED
      BY <3>2 DEF Lifecycle!Next
  <2>6. CASE worker[w].pc \in OpPC /\ worker'[w].pc \in OpPC
    <3>1. BoxOf(s)' # NoId => \A t \in Service \ {s} : BoxOf(t) # BoxOf(s)'
      BY <1>2, BoxIsIn, BoxIsInNext, BoxesApart DEF Untouched
    <3>2. Lifecycle!Work(s)
      BY <1>3, <2>3, <2>6, <3>1 DEF Lifecycle!Work
    <3> QED
      BY <3>2 DEF Lifecycle!Next
  <2>7. CASE worker[w].pc \in OpPC /\ worker'[w].pc \notin OpPC
    <3>1. EntryTrue(registry', docker', s)
      BY <1>5, <2>2, <2>7 DEF CommandsRecordInv, RecordInv
    <3>2. PhaseOf(s)' \in Lifecycle!Phase \ {"busy", "entangled"}
      BY <1>5, <2>2, <2>7 DEF PhaseOf, Lifecycle!Phase
    <3>3. PhaseOf(s)' = "on" => IdOf(s)' = BoxOf(s)' /\ BoxOf(s)' # NoId
      <4> SUFFICES ASSUME PhaseOf(s)' = "on"
                   PROVE  IdOf(s)' = BoxOf(s)' /\ BoxOf(s)' # NoId
        OBVIOUS
      <4>1. Has(registry', s) /\ registry'.services[s].status = "running"
        BY <1>5, <2>2, <2>7 DEF PhaseOf, EntryOf
      <4>2. RunningFor(docker', s) = {registry'.services[s].id}
        BY <3>1, <4>1 DEF EntryTrue
      <4>3. registry'.services[s].id \in ContainerId
        BY <4>2 DEF RunningFor, Running
      <4>4. OneOf(RunningFor(docker', s)) = registry'.services[s].id
        BY <4>2, <4>3 DEF OneOf
      <4> QED
        BY <4>1, <4>2, <4>3, <4>4, BoxIsInNext, IdIsInNext, NoIdAssumption DEF BoxIn, IdIn
    <3>4. PhaseOf(s)' = "stopped" => BoxOf(s)' = NoId
      <4> SUFFICES ASSUME PhaseOf(s)' = "stopped" PROVE BoxOf(s)' = NoId
        OBVIOUS
      <4>1. Has(registry', s) /\ registry'.services[s].status = "stopped"
        BY <1>5, <2>2, <2>7 DEF PhaseOf, EntryOf
      <4> QED
        BY <3>1, <4>1, BoxIsInNext DEF EntryTrue, BoxIn
    <3>5. Lifecycle!Settle(s)
      BY <1>3, <2>3, <2>7, <3>2, <3>3, <3>4 DEF Lifecycle!Settle
    <3> QED
      BY <3>5 DEF Lifecycle!Next
  <2> QED
    BY <2>4, <2>5, <2>6, <2>7
<1> QED
  BY <1>4, <1>5

\* A step of w outside of the operations.
LEMMA QuietStep ==
    ASSUME CommandsRecordInv, CommandsRecordInv', command # "none", command' # "none",
           UNCHANGED overlapped, NEW w \in Worker, \A v \in Worker : v # w => worker'[v] = worker[v],
           worker[w].pc \notin OpPC, worker'[w].pc \notin OpPC,
           UNCHANGED <<registry, docker>>
    PROVE  UNCHANGED Lifecycle!vars
<1>1. \A t \in Service : Changing(w, t)' <=> Changing(w, t)
  BY DEF Changing, OpPC
<1>2. \A t \in Service : Untouched(t)
  BY <1>1, OtherService
<1> QED
  BY <1>2, AllUntouched

LEMMA WorksMaps ==
    ASSUME OwnNames, CommandsRecordInv, CommandsRecordInv', NEW w \in Worker, Works(w)
    PROVE  Lifecycle!Next \/ UNCHANGED Lifecycle!vars
<1>1. /\ command # "none" /\ command' # "none" /\ Step(w) /\ RecordInv
      /\ SchedulerInv /\ IdsOwned /\ UNCHANGED overlapped
  BY DEF Works, Step, CommandsRecordInv, RecordInv
<1>2. /\ \A v \in Worker : v # w => worker'[v] = worker[v]
      /\ worker'[w].pc \in OpPC => worker'[w].service = worker[w].service
      /\ worker[w].pc \notin OpPC => UNCHANGED <<registry, docker>>
  BY <1>1, StepStays, StepOutside DEF RecordInv
<1>3. CASE worker[w].pc \in NoServicePC \cup FreePC
  <2>1. worker[w].pc \notin OpPC
    BY <1>3, OperationsAreNot DEF NoServicePC, FreePC
  <2>2. worker'[w].pc \notin OpPC
    <3>1. Finish(w) => worker'[w].pc \notin OpPC
      BY <1>1, Finished, OperationsAreNot
    <3>2. \A pc : Goto(w, pc) => worker'[w].pc = pc
      BY <1>1, Moved
    <3>3. CASE Probe(w) \/ Send(w)
      BY <3>1, <3>2, <3>3, OperationsAreNot DEF Probe, Send
    <3>4. CASE StopNext(w)
      <4>1. ASSUME NEW s, NEW pc \in {"stop", "next"},
                   Become(w, [worker[w] EXCEPT !.rest = worker[w].rest \ {s},
                                               !.service = s, !.pc = pc])
            PROVE  worker'[w].pc = pc
        <5> DEFINE x == [worker[w] EXCEPT !.rest = worker[w].rest \ {s},
                                          !.service = s, !.pc = pc]
        <5>1. Become(w, x) /\ x.pc = pc
          BY <1>1, <4>1, WorkerFields DEF WorkerType
        <5> HIDE DEF x
        <5> QED
          BY <1>1, <5>1, Became
      <4> QED
        BY <3>1, <3>4, <4>1, OperationsAreNot DEF StopNext
    <3> QED
      BY <1>1, <1>3, <3>3, <3>4
      DEF NoServicePC, FreePC, Step, Check, Probe, Send, Start, Clean, Boot, Wait, StartFailed,
          MarkRunning, MarkHealthy, RecordID, Stop, MarkPending, Halt, MarkStopped, StopNext, At
  <2> QED
    BY <1>1, <1>2, <2>1, <2>2, QuietStep
<1>4. CASE worker[w].pc \notin NoServicePC \cup FreePC
  <2>1. worker[w].service \in Service /\ Holds(w, worker[w].service)
    BY <1>1, <1>4, Holding
  <2>2. \A t \in Service : t # worker[w].service =>
           /\ registry'.services[t] = registry.services[t]
           /\ RunningFor(docker', t) = RunningFor(docker, t)
    BY <1>1, OthersKept
  <2> QED
    BY <1>1, <1>2, <2>1, <2>2, OwnStep
<1> QED
  BY <1>3, <1>4

\* How a worker begins.
LEMMA Begun ==
    ASSUME RecordInv, NEW w \in Worker, NEW task, NEW s, NEW pc \in {"check", "stop"},
           Begin(w, task, s, pc) \/ Finish(w)
    PROVE  /\ \A v \in Worker : v # w => worker'[v] = worker[v]
           /\ worker'[w].pc \notin OpPC
<1>1. worker \in [Worker -> WorkerType]
  BY DEF RecordInv, SchedulerInv, StateOK
<1>2. /\ \A v \in Worker : v # w => worker'[v] = worker[v]
      /\ worker'[w].pc \in {"check", "stop", "idle"}
  <2> DEFINE x == [Resting EXCEPT !.task = task, !.service = s, !.pc = pc]
  <2>1. x.pc = pc /\ Resting.pc = "idle" /\ (Become(w, x) \/ Become(w, Resting))
    BY DEF Begin, Finish, Resting
  <2> HIDE DEF x
  <2> QED
    BY <1>1, <2>1 DEF Become
<1> QED
  BY <1>2, OperationsAreNot

\* A task begins, and what others are working on is entangled from now on.
LEMMA BeginsMap ==
    ASSUME CommandsRecordInv, CommandsRecordInv', command # "none", command' # "none",
           UNCHANGED docker, overlapped \subseteq overlapped',
           \A s \in Service : Settled(s)' <=> Settled(s),
           \A s \in Service :
              \/ registry'.services[s] = registry.services[s]
              \/ /\ ~Has(registry, s) /\ Has(registry', s)
                 /\ registry'.services[s].status = "pending"
                 /\ registry'.services[s].id = NoId
    PROVE  Lifecycle!Next
<1> DEFINE met == {s \in Service : s \in overlapped'}
<1>1. \A s \in Service : PhaseOf(s)' = IF s \in met THEN "entangled" ELSE PhaseOf(s)
  <2> SUFFICES ASSUME NEW s \in Service, s \notin overlapped', s \notin overlapped
               PROVE  PhaseOf(s)' = PhaseOf(s)
    BY DEF PhaseOf
  <2>1. CASE registry'.services[s] = registry.services[s]
    BY <2>1 DEF PhaseOf, Has, EntryOf
  <2>2. CASE ~Has(registry, s) /\ registry'.services[s].status = "pending"
    BY <2>2 DEF PhaseOf, EntryOf
  <2> QED
    BY <2>1, <2>2
<1>2. \A s \in Service : BoxOf(s)' = BoxOf(s)
  BY BoxIsIn, BoxIsInNext
<1>3. \A s \in Service : IdOf(s)' = IdOf(s)
  <2> SUFFICES ASSUME NEW s \in Service PROVE IdIn(registry', s) = IdIn(registry, s)
    BY IdIsIn, IdIsInNext
  <2> QED
    BY DEF IdIn, Has
<1>4. met \in SUBSET Service
  OBVIOUS
<1> HIDE DEF met
<1>5. Lifecycle!Meet
  BY <1>1, <1>2, <1>3, <1>4 DEF Lifecycle!Meet
<1> QED
  BY <1>5 DEF Lifecycle!Next

LEMMA InvokesMaps ==
    ASSUME CommandsRecordInv, CommandsRecordInv', NEW w \in Worker, NEW s \in Service,
           Invokes(w, s)
    PROVE  Lifecycle!Next
<1>1. /\ command # "none" /\ command' # "none" /\ RecordInv /\ Invoke(w, s)
      /\ worker[w].pc \notin OpPC /\ UNCHANGED docker /\ overlapped \subseteq overlapped'
      /\ registry' = AddEntry(registry, s) /\ registry \in RegistryType
  BY OperationsAreNot
  DEF Invokes, Invoke, TakesOn, Busy, At, CommandsRecordInv, RecordInv, SchedulerInv, StateOK
<1>2. /\ \A v \in Worker : v # w => worker'[v] = worker[v]
      /\ worker'[w].pc \notin OpPC
  <2>1. Begin(w, "invoke", s, "check") \/ Finish(w)
    BY <1>1 DEF Invoke
  <2> QED
    BY <1>1, <2>1, Begun
<1>3. \A t \in Service : Settled(t)' <=> Settled(t)
  <2>1. \A v \in Worker, t \in Service : Changing(v, t)' <=> Changing(v, t)
    BY <1>1, <1>2 DEF Changing, OpPC
  <2> QED
    BY <2>1 DEF Settled
<1>4. \A t \in Service :
         \/ registry'.services[t] = registry.services[t]
         \/ /\ ~Has(registry, t) /\ Has(registry', t)
            /\ registry'.services[t].status = "pending"
            /\ registry'.services[t].id = NoId
  BY <1>1, AddEntryEffect
<1> QED
  BY <1>1, <1>3, <1>4, BeginsMap

\* The other tasks.
LEMMA TasksMap ==
    ASSUME CommandsRecordInv, CommandsRecordInv', NEW w \in Worker,
           \/ \E s \in Service : Reloads(w, s) \/ StopsOne(w, s)
           \/ StopsAll(w)
    PROVE  Lifecycle!Next
<1>1. /\ command # "none" /\ command' # "none" /\ RecordInv /\ SchedulerInv
      /\ worker[w].pc \notin OpPC /\ UNCHANGED <<registry, docker>> /\ overlapped \subseteq overlapped'
  BY OperationsAreNot
  DEF Reloads, StopsOne, StopsAll, Reload, StopAll, TakesOn, Busy, At, CommandsRecordInv, RecordInv
<1>2. /\ \A v \in Worker : v # w => worker'[v] = worker[v]
      /\ worker'[w].pc \notin OpPC
  <2>1. ASSUME NEW s \in Service, Reloads(w, s) \/ StopsOne(w, s)
        PROVE  \E task : Begin(w, task, s, "stop")
    BY <2>1 DEF Reloads, Reload, StopsOne
  <2>2. CASE \E s \in Service : Reloads(w, s) \/ StopsOne(w, s)
    BY <1>1, <2>1, <2>2, Begun
  <2>3. CASE StopsAll(w)
    <3> DEFINE x == [Resting EXCEPT !.task = "stopall", !.pc = "next",
                                    !.rest = {s \in Service : Has(registry, s)}]
    <3>1. Become(w, x) /\ x.pc = "next"
      BY <2>3 DEF StopsAll, StopAll, Resting
    <3> HIDE DEF x
    <3> QED
      BY <1>1, <3>1, Became, OperationsAreNot
  <2> QED
    BY <2>2, <2>3
<1>3. \A t \in Service : Settled(t)' <=> Settled(t)
  <2>1. \A v \in Worker, t \in Service : Changing(v, t)' <=> Changing(v, t)
    BY <1>1, <1>2 DEF Changing, OpPC
  <2> QED
    BY <2>1 DEF Settled
<1> QED
  BY <1>1, <1>3, BeginsMap

\* Between two processes nothing is known of any service.
LEMMA NothingKnown ==
    ASSUME worker = [w \in Worker |-> Resting], overlapped = {},
           \A s \in Service : Has(registry, s) => registry.services[s].status = "unset"
    PROVE  \A s \in Service : PhaseOf(s) = "unsettled"
BY OperationsAreNot DEF PhaseOf, EntryOf, Settled, Changing, OpPC, Resting

LEMMA LaunchMaps ==
    ASSUME CommandsRecordInv, NEW name \in Command, Launch(name)
    PROVE  UNCHANGED Lifecycle!vars
<1>1. /\ worker = [w \in Worker |-> Resting] /\ registry = NewRegistry /\ overlapped = {}
      /\ registry' = Restored(file) /\ UNCHANGED <<docker, worker, overlapped, file>>
  BY DEF Launch, CommandsRecordInv, CommandsInv
<1>2. \A s \in Service : PhaseOf(s) = "unsettled"
  BY <1>1, NothingKnown, NewRegistryType
<1>3. \A s \in Service : PhaseOf(s)' = "unsettled"
  <2>1. \A s \in Service : Has(registry', s) => registry'.services[s].status = "unset"
    BY <1>1 DEF Restored, Has
  <2> QED
    BY <1>1, <2>1, OperationsAreNot DEF PhaseOf, EntryOf, Settled, Changing, OpPC, Resting
<1>4. \A s \in Service : BoxOf(s)' = BoxOf(s) /\ IdOf(s)' = IdOf(s)
  BY <1>1, BoxIsIn, BoxIsInNext DEF IdOf
<1> QED
  BY <1>2, <1>3, <1>4, AllUntouched DEF Untouched

LEMMA GoneMaps ==
    ASSUME Gone, UNCHANGED file
    PROVE  Lifecycle!Forget
<1>1. \A s \in Service : PhaseOf(s)' = "unsettled"
  BY NewRegistryType, OperationsAreNot
  DEF Gone, PhaseOf, EntryOf, Settled, Changing, OpPC, Resting
<1>2. \A s \in Service : BoxOf(s)' = BoxOf(s) /\ IdOf(s)' = IdOf(s)
  BY BoxIsIn, BoxIsInNext DEF IdOf, Gone
<1> QED
  BY <1>1, <1>2 DEF Lifecycle!Forget

LEMMA LifecycleStep ==
    ASSUME OwnNames, CommandsRecordInv, CommandsRecordInv', [CommandsNext]_commandVars
    PROVE  [Lifecycle!Next \/ file' = Unreadable]_Lifecycle!vars
<1>1. CASE UNCHANGED commandVars
  <2>1. \A s \in Service : PhaseOf(s)' = PhaseOf(s)
    BY <1>1 DEF commandVars, vars, PhaseOf, EntryOf, Settled, Changing, Has
  <2>2. \A s \in Service : BoxOf(s)' = BoxOf(s) /\ IdOf(s)' = IdOf(s)
    BY <1>1, BoxIsIn, BoxIsInNext DEF commandVars, vars, IdOf
  <2> QED
    BY <2>1, <2>2, AllUntouched DEF Untouched
<1>2. CASE WorkflowEnds
  <2>1. UNCHANGED vars /\ UNCHANGED file
    BY <1>2 DEF WorkflowEnds
  <2>2. \A s \in Service : PhaseOf(s)' = PhaseOf(s)
    BY <2>1 DEF vars, PhaseOf, EntryOf, Settled, Changing, Has
  <2>3. \A s \in Service : BoxOf(s)' = BoxOf(s) /\ IdOf(s)' = IdOf(s)
    BY <2>1, BoxIsIn, BoxIsInNext DEF vars, IdOf
  <2> QED
    BY <2>2, <2>3, AllUntouched DEF Untouched
<1>3. CASE Return \/ Kill
  BY <1>3, GoneMaps DEF Return, Kill, Lifecycle!Next
<1>4. ASSUME NEW w \in Worker, NEW s \in Service,
             Invokes(w, s) \/ Reloads(w, s) \/ StopsOne(w, s)
      PROVE  Lifecycle!Next
  BY <1>4, InvokesMaps, TasksMap
<1>5. ASSUME NEW w \in Worker, StopsAll(w)
      PROVE  Lifecycle!Next
  BY <1>5, TasksMap
<1> QED
  BY <1>1, <1>2, <1>3, <1>4, <1>5, LaunchMaps, WorksMaps DEF CommandsNext

LEMMA LifecycleInit == CommandsInit => Lifecycle!Init
<1> SUFFICES ASSUME CommandsInit PROVE Lifecycle!Init
  OBVIOUS
<1>1. \A s \in Service : PhaseOf(s) = "unsettled"
  BY NothingKnown, NewRegistryType DEF CommandsInit, Init
<1>2. \A s \in Service : BoxOf(s) = NoId
  BY DEF CommandsInit, Init, BoxOf, RunningFor, Running, NoneRunning
<1>3. \A s \in Service : IdOf(s) = NoId
  BY DEF CommandsInit, IdOf, Persisted, NewRegistry, Has
<1> QED
  BY <1>1, <1>2, <1>3 DEF Lifecycle!Init

\* Names none of which contains another: through any commands, whatever
\* overlaps in a process, kills and failing calls, and until the file is lost,
\* simla implements ServiceLifecycle.
THEOREM LifecycleThm ==
    ASSUME OwnNames
    PROVE  CommandsSpec => LifecycleKept
<1>1. CommandsRecordInv /\ [CommandsNext]_commandVars => CommandsRecordInv'
  BY CommandsRecordStep
<1>2. CommandsRecordInv /\ CommandsRecordInv' /\ [CommandsNext]_commandVars
         => [Lifecycle!Next \/ file' = Unreadable]_Lifecycle!vars
  BY LifecycleStep
<1> QED
  BY <1>1, <1>2, CommandsRecordInit, LifecycleInit, PTL DEF CommandsSpec, LifecycleKept
=============================================================================
