--------------------------- MODULE SchedulerProofs ---------------------------
(***************************************************************************)
(* Proofs about Scheduler, for any number of workers that overlap in any   *)
(* way, and for every fault: its type invariant (SchedulerTypeThm), and    *)
(* that two containers never run for one service (OneContainerThm).  For   *)
(* requests that overlap: what is marked running answers                   *)
(* (RunningAnswersThm).  As long as no container dies by itself: every     *)
(* step keeps RecordInv, which the theorems of ProcessProofs rest on.      *)
(*                                                                         *)
(* OneContainerPerService is not inductive.  A new container cannot take   *)
(* the port of a running one, so it remains that every running container   *)
(* sits on the port its service has now, which needs three more facts:     *)
(* entries are never removed and never change their port, the ports of two *)
(* entries differ, and a worker that is about to boot a container works on *)
(* a service that has an entry.                                            *)
(***************************************************************************)
EXTENDS Scheduler, RegistryLemmas

USE ServiceAssumption, NoContainerAssumption

-----------------------------------------------------------------------------
(* The inductive invariant *)

\* The program counters of a worker that has no service yet.
NoServicePC == {"idle", "next"}

\* Those of a worker that is about to use the entry it found.
EntryPC == {"clean", "boot", "mark_pending", "halt"}

USE DEF EntryPC

\* A worker that is in an operation has a service, and one that is going to
\* boot or to stop a container for it found its entry.
WorkersSound ==
    \A w \in Worker :
        /\ worker[w].pc \notin NoServicePC => worker[w].service \in Service
        /\ worker[w].pc \in EntryPC => Has(registry, worker[w].service)

\* The type invariant without the history variable.
StateOK ==
    /\ registry \in RegistryType
    /\ docker \in DockerType
    /\ worker \in [Worker -> WorkerType]

SchedulerInv ==
    /\ StateOK
    /\ PortsSound(registry)
    /\ WorkersSound
    /\ OneContainerPerService

-----------------------------------------------------------------------------
(* Lemmas about the registry *)

\* q has every entry of r, at its port.
Keeps(r, q) ==
    \A s \in Service : Has(r, s) => /\ Has(q, s)
                                    /\ q.services[s].port = r.services[s].port

\* What a step may do to the registry.
RegistryStep ==
    /\ registry' \in RegistryType
    /\ PortsSound(registry')
    /\ Keeps(registry, registry')

LEMMA SameRegistry ==
    ASSUME SchedulerInv, UNCHANGED registry
    PROVE  RegistryStep
BY DEF SchedulerInv, StateOK, RegistryStep, Keeps

LEMMA AddStep ==
    ASSUME SchedulerInv, NEW s \in Service, registry' = AddEntry(registry, s)
    PROVE  RegistryStep
BY AddEntryType, AddEntryEffect, AddEntryPorts
   DEF SchedulerInv, StateOK, RegistryStep, Keeps, Has

LEMMA StatusStep ==
    ASSUME SchedulerInv, NEW s \in Service, NEW status \in Status,
           registry' = SetStatus(registry, s, status)
    PROVE  RegistryStep
<1>1. registry \in RegistryType /\ PortsSound(registry)
  BY DEF SchedulerInv, StateOK
<1>2. registry' \in RegistryType /\ SamePorts(registry, registry')
  BY <1>1, SetStatusEffect
<1> QED
  BY <1>1, <1>2, SamePortsSound DEF RegistryStep, Keeps, SamePorts

LEMMA HealthStep ==
    ASSUME SchedulerInv, NEW s \in Service, registry' = SetHealth(registry, s, TRUE)
    PROVE  RegistryStep
<1>1. registry \in RegistryType /\ PortsSound(registry)
  BY DEF SchedulerInv, StateOK
<1>2. registry' \in RegistryType /\ SamePorts(registry, registry')
  BY <1>1, SetHealthEffect
<1> QED
  BY <1>1, <1>2, SamePortsSound DEF RegistryStep, Keeps, SamePorts

LEMMA IDStep ==
    ASSUME SchedulerInv, NEW s \in Service, NEW id \in ContainerId \cup {NoId},
           registry' = SetContainerID(registry, s, id)
    PROVE  RegistryStep
<1>1. registry \in RegistryType /\ PortsSound(registry)
  BY DEF SchedulerInv, StateOK
<1>2. registry' \in RegistryType /\ SamePorts(registry, registry')
  BY <1>1, SetContainerIDEffect
<1> QED
  BY <1>1, <1>2, SamePortsSound DEF RegistryStep, Keeps, SamePorts

-----------------------------------------------------------------------------
(* Lemmas about workers *)

\* What a step may do to the workers.
WorkerStep == worker' \in [Worker -> WorkerType] /\ WorkersSound'

LEMMA SameWorkers ==
    ASSUME SchedulerInv, RegistryStep, UNCHANGED worker
    PROVE  WorkerStep
BY DEF SchedulerInv, StateOK, WorkersSound, WorkerStep, RegistryStep, Keeps,
       NoServicePC

\* A worker may become anything that is sound by itself.
LEMMA BecomeStep ==
    ASSUME SchedulerInv, RegistryStep, NEW w \in Worker, NEW state \in WorkerType,
           Become(w, state),
           state.pc \notin NoServicePC => state.service \in Service,
           state.pc \in EntryPC => Has(registry', state.service)
    PROVE  WorkerStep
<1>1. worker \in [Worker -> WorkerType] /\ worker' = [worker EXCEPT ![w] = state]
  BY DEF SchedulerInv, StateOK, Become
<1>2. worker' \in [Worker -> WorkerType] /\ worker'[w] = state
  BY <1>1
<1>3. \A v \in Worker : v # w => worker'[v] = worker[v]
  BY <1>1
<1>4. \A v \in Worker : worker[v].pc \in EntryPC => worker[v].service \in Service
  BY DEF SchedulerInv, WorkersSound, NoServicePC
<1>5. WorkersSound'
  BY <1>2, <1>3, <1>4 DEF SchedulerInv, WorkersSound, RegistryStep, Keeps
<1> QED
  BY <1>2, <1>5 DEF WorkerStep

LEMMA WorkerFields ==
    ASSUME SchedulerInv, NEW w \in Worker
    PROVE  /\ worker[w] \in WorkerType
           /\ worker[w].service \in Service \cup {NoService}
           /\ worker[w].id \in ContainerId \cup {NoId}
           /\ worker[w].rest \subseteq Service
BY DEF SchedulerInv, StateOK, WorkerType

LEMMA GotoStep ==
    ASSUME SchedulerInv, RegistryStep, NEW w \in Worker, NEW pc \in PC, Goto(w, pc),
           worker[w].service \in Service \/ pc \in NoServicePC,
           pc \in EntryPC => Has(registry', worker[w].service)
    PROVE  WorkerStep
<1> DEFINE state == [worker[w] EXCEPT !.pc = pc]
<1>1. /\ state \in WorkerType
      /\ state.pc = pc
      /\ state.service = worker[w].service
  BY WorkerFields DEF WorkerType
<1>2. Become(w, state)
  BY DEF Goto
<1> HIDE DEF state
<1> QED
  BY <1>1, <1>2, BecomeStep

LEMMA RestingType == Resting \in WorkerType /\ Resting.pc = "idle"
BY DEF Resting, WorkerType, PC, Task

LEMMA FinishStep ==
    ASSUME SchedulerInv, RegistryStep, NEW w \in Worker, Finish(w)
    PROVE  WorkerStep
BY RestingType, BecomeStep DEF Finish, NoServicePC

LEMMA BeginStep ==
    ASSUME SchedulerInv, RegistryStep, NEW w \in Worker, NEW task \in Task,
           NEW s \in Service, NEW pc \in PC \ EntryPC, Begin(w, task, s, pc)
    PROVE  WorkerStep
<1> DEFINE state == [Resting EXCEPT !.task = task, !.service = s, !.pc = pc]
<1>1. state \in WorkerType /\ state.pc = pc /\ state.service = s
  BY DEF Resting, WorkerType
<1>2. Become(w, state)
  BY DEF Begin
<1> HIDE DEF state
<1> QED
  BY <1>1, <1>2, BecomeStep

LEMMA StartReturnsStep ==
    ASSUME SchedulerInv, RegistryStep, NEW w \in Worker, NEW outcome,
           StartReturns(w, outcome), worker[w].service \in Service
    PROVE  WorkerStep
<1>1. CASE worker[w].task = "invoke" /\ outcome = "ok"
  <2> DEFINE state == [worker[w] EXCEPT !.pc = "probe", !.id = NoId]
  <2>1. /\ state \in WorkerType
        /\ state.pc = "probe"
        /\ state.service = worker[w].service
    BY WorkerFields DEF WorkerType, PC
  <2>2. Become(w, state)
    BY <1>1 DEF StartReturns
  <2> HIDE DEF state
  <2> QED
    BY <2>1, <2>2, BecomeStep
<1>2. CASE ~(worker[w].task = "invoke" /\ outcome = "ok")
  BY <1>2, FinishStep DEF StartReturns
<1> QED
  BY <1>1, <1>2

LEMMA StopReturnsStep ==
    ASSUME SchedulerInv, RegistryStep, NEW w \in Worker, NEW outcome,
           StopReturns(w, outcome), worker[w].service \in Service
    PROVE  WorkerStep
<1>1. Goto(w, "next") \/ Goto(w, "start") \/ Finish(w)
  BY DEF StopReturns
<1>2. "next" \in PC /\ "start" \in PC \ EntryPC /\ "next" \in NoServicePC
  BY DEF PC, StartPC, NoServicePC
<1> QED
  BY <1>1, <1>2, GotoStep, FinishStep

-----------------------------------------------------------------------------
(* Lemmas about containers *)

\* What a step may do to the containers.
DockerStep == docker' \in DockerType /\ OneContainerPerService'

\* Containers only go away.
LEMMA FewerStep ==
    ASSUME SchedulerInv, RegistryStep, NEW ids, docker' = Without(docker, ids)
    PROVE  DockerStep
<1>1. docker \in DockerType
  BY DEF SchedulerInv, StateOK
<1>2. docker' \in DockerType
  BY <1>1 DEF Without, DockerType
<1>3. ASSUME NEW c \in Running(docker)'
      PROVE  c \in Running(docker) /\ docker'[c] = docker[c]
  BY <1>3, <1>1 DEF Running, Without
<1>4. ASSUME NEW c \in Running(docker)
      PROVE  docker[c].service \in Service
  BY <1>4, <1>1 DEF Running, DockerType, Container
<1>5. OneContainerPerService'
  BY <1>3, <1>4 DEF SchedulerInv, OneContainerPerService, EntryOf, RegistryStep, Keeps
<1> QED
  BY <1>2, <1>5 DEF DockerStep

LEMMA SameDocker ==
    ASSUME SchedulerInv, RegistryStep, UNCHANGED docker
    PROVE  DockerStep
<1>1. docker \in DockerType
  BY DEF SchedulerInv, StateOK
<1>2. docker' = Without(docker, {})
  BY <1>1 DEF Without, DockerType
<1> QED
  BY <1>2, FewerStep

\* A container that the daemon can start does not double another one.
LEMMA BootedStep ==
    ASSUME SchedulerInv, UNCHANGED registry,
           NEW s \in Service, Has(registry, s),
           NEW c \in ContainerId, docker[c] = NoContainer,
           CanStart(docker, EntryOf(s).port),
           docker' = WithContainer(docker, c, s, EntryOf(s).port)
    PROVE  DockerStep
<1> DEFINE port == EntryOf(s).port
           box == [service |-> s, port |-> port]
<1>1. docker \in DockerType /\ port \in Int
  BY HasEntry DEF SchedulerInv, StateOK, EntryOf, Entry
<1>2. box \in Container
  BY <1>1 DEF Container
<1>3. docker' = [docker EXCEPT ![c] = box] /\ docker' \in DockerType
  BY <1>1, <1>2 DEF WithContainer, DockerType
<1>4. /\ docker'[c] = box
      /\ \A d \in ContainerId : d # c => docker'[d] = docker[d]
  BY <1>1, <1>3 DEF DockerType
<1>5. \A d \in Running(docker) : docker[d].port # port
  BY DEF CanStart, Answers
<1>6. ASSUME NEW d \in Running(docker)', d # c
      PROVE  d \in Running(docker) /\ docker'[d] = docker[d] /\ docker[d].service # s
  BY <1>6, <1>4, <1>5 DEF Running, SchedulerInv, OneContainerPerService
<1>7. \A d \in Running(docker)' : /\ Has(registry, docker'[d].service)
                                  /\ docker'[d].port = EntryOf(docker'[d].service).port
  BY <1>4, <1>6 DEF SchedulerInv, OneContainerPerService
<1>8. \A d, e \in Running(docker)' : docker'[d].service = docker'[e].service => d = e
  BY <1>4, <1>6 DEF SchedulerInv, OneContainerPerService
<1>9. OneContainerPerService'
  BY <1>7, <1>8 DEF OneContainerPerService, EntryOf
<1> QED
  BY <1>3, <1>9 DEF DockerStep

\* A step that keeps its three variables sound keeps the invariant.
LEMMA StepInv ==
    ASSUME RegistryStep, WorkerStep, DockerStep
    PROVE  SchedulerInv'
BY DEF SchedulerInv, StateOK, RegistryStep, WorkerStep, DockerStep

-----------------------------------------------------------------------------
(* Each action keeps the invariant *)

\* The service of a worker that is in an operation.
LEMMA Working ==
    ASSUME SchedulerInv, NEW w \in Worker, worker[w].pc \notin NoServicePC
    PROVE  worker[w].service \in Service
BY DEF SchedulerInv, WorkersSound

\* The program counters by name.
LEMMA PCs ==
    /\ {"check", "probe", "send", "next", "start", "clean", "boot", "wait",
        "start_failed", "mark_running", "mark_healthy", "record_id", "stop",
        "mark_pending", "halt", "mark_stopped"} \subseteq PC
    /\ "idle" \in PC
BY DEF PC, StartPC, StopPC

LEMMA TheInit == Init => SchedulerInv
<1> SUFFICES ASSUME Init PROVE SchedulerInv
  OBVIOUS
<1>1. registry \in RegistryType /\ PortsSound(registry)
  BY NewRegistryType DEF Init
<1>2. docker \in DockerType /\ Running(docker) = {}
  BY DEF Init, NoneRunning, DockerType, Running
<1>3. worker \in [Worker -> WorkerType] /\ WorkersSound
  BY RestingType DEF Init, WorkersSound, NoServicePC
<1> QED
  BY <1>1, <1>2, <1>3 DEF SchedulerInv, StateOK, OneContainerPerService

\* The steps that change nothing but what the worker does next.
LEMMA QuietInv ==
    ASSUME SchedulerInv, UNCHANGED <<registry, docker>>, WorkerStep
    PROVE  SchedulerInv'
BY SameRegistry, SameDocker, StepInv

LEMMA InvokeInv ==
    ASSUME SchedulerInv, NEW w \in Worker, NEW s \in Service, Invoke(w, s)
    PROVE  SchedulerInv'
<1>1. RegistryStep
  BY AddStep DEF Invoke
<1>2. DockerStep
  BY <1>1, SameDocker DEF Invoke
<1>3. Begin(w, "invoke", s, "check") \/ Finish(w)
  BY DEF Invoke
<1>4. "invoke" \in Task /\ "check" \in PC \ EntryPC
  BY PCs DEF Task
<1>5. WorkerStep
  BY <1>1, <1>3, <1>4, BeginStep, FinishStep
<1> QED
  BY <1>1, <1>2, <1>5, StepInv

LEMMA CheckInv ==
    ASSUME SchedulerInv, NEW w \in Worker, Check(w)
    PROVE  SchedulerInv'
<1>1. worker[w].service \in Service
  BY Working DEF Check, At, NoServicePC
<1>2. Goto(w, "probe") \/ Goto(w, "start")
  BY DEF Check
<1>3. WorkerStep
  BY <1>1, <1>2, PCs, SameRegistry, GotoStep DEF Check
<1> QED
  BY <1>3, QuietInv DEF Check

LEMMA ProbeInv ==
    ASSUME SchedulerInv, NEW w \in Worker, Probe(w)
    PROVE  SchedulerInv'
<1>1. worker[w].service \in Service
  BY Working DEF Probe, At, NoServicePC
<1>2. Goto(w, "send") \/ Finish(w)
  BY DEF Probe
<1>3. WorkerStep
  BY <1>1, <1>2, PCs, SameRegistry, GotoStep, FinishStep DEF Probe
<1> QED
  BY <1>3, QuietInv DEF Probe

LEMMA SendInv ==
    ASSUME SchedulerInv, NEW w \in Worker, Send(w)
    PROVE  SchedulerInv'
<1>1. WorkerStep
  BY SameRegistry, FinishStep DEF Send
<1> QED
  BY <1>1, QuietInv DEF Send

LEMMA StartInv ==
    ASSUME SchedulerInv, NEW w \in Worker, Start(w)
    PROVE  SchedulerInv'
<1> DEFINE s == worker[w].service
<1>1. s \in Service
  BY Working DEF Start, At, NoServicePC
<1>2. \/ StartReturns(w, "ok")
      \/ StartReturns(w, "error")
      \/ Has(registry, s) /\ Goto(w, "clean")
  BY DEF Start
<1>3. RegistryStep
  BY SameRegistry DEF Start
<1>4. CASE StartReturns(w, "ok") \/ StartReturns(w, "error")
  BY <1>1, <1>3, <1>4, StartReturnsStep, QuietInv DEF Start
<1>5. CASE Has(registry, s) /\ Goto(w, "clean")
  <2>1. Has(registry', s)
    BY <1>5 DEF Start
  <2>2. WorkerStep
    BY <1>1, <1>3, <1>5, <2>1, PCs, GotoStep
  <2> QED
    BY <2>2, QuietInv DEF Start
<1> QED
  BY <1>2, <1>4, <1>5

LEMMA CleanInv ==
    ASSUME SchedulerInv, NEW w \in Worker, Clean(w)
    PROVE  SchedulerInv'
<1> DEFINE s == worker[w].service
<1>1. s \in Service /\ Has(registry', s)
  BY Working DEF Clean, At, NoServicePC, SchedulerInv, WorkersSound
<1>2. RegistryStep
  BY SameRegistry DEF Clean
<1>3. \E ids : docker' = Without(docker, ids)
  BY DEF Clean
<1>4. DockerStep
  BY <1>2, <1>3, FewerStep
<1>5. Goto(w, "boot") \/ Goto(w, "start_failed")
  BY DEF Clean
<1>6. WorkerStep
  BY <1>1, <1>2, <1>5, PCs, GotoStep
<1> QED
  BY <1>2, <1>4, <1>6, StepInv

LEMMA BootInv ==
    ASSUME SchedulerInv, NEW w \in Worker, Boot(w)
    PROVE  SchedulerInv'
<1> DEFINE s == worker[w].service
           port == EntryOf(s).port
           waits(c) == [worker[w] EXCEPT !.pc = "wait", !.id = c]
<1>1. s \in Service /\ Has(registry, s)
  BY Working DEF Boot, At, NoServicePC, SchedulerInv, WorkersSound
<1>2. RegistryStep
  BY SameRegistry DEF Boot
<1>3. ASSUME NEW c \in ContainerId
      PROVE  waits(c) \in WorkerType /\ waits(c).pc = "wait" /\ waits(c).service = s
  BY PCs, WorkerFields DEF WorkerType
<1>4. ASSUME NEW c \in ContainerId, FreshId(c), CanStart(docker, port),
             docker' = WithContainer(docker, c, s, port),
             Become(w, waits(c)) \/ Goto(w, "start_failed")
      PROVE  SchedulerInv'
  <2>1. docker[c] = NoContainer /\ UNCHANGED registry
    BY <1>4 DEF FreshId, Boot
  <2>2. DockerStep
    BY <1>1, <1>4, <2>1, BootedStep
  <2>3. ASSUME Become(w, waits(c)) PROVE WorkerStep
    <3> HIDE DEF s, waits
    <3> QED
      BY <1>1, <1>2, <1>3, <2>3, BecomeStep
  <2>4. ASSUME Goto(w, "start_failed") PROVE WorkerStep
    BY <1>1, <1>2, <2>4, PCs, GotoStep
  <2> QED
    BY <1>2, <1>4, <2>2, <2>3, <2>4, StepInv
<1>5. ASSUME Goto(w, "start_failed"), UNCHANGED docker
      PROVE  SchedulerInv'
  BY <1>1, <1>2, <1>5, PCs, GotoStep, SameDocker, StepInv
<1>6. \/ \E c \in ContainerId :
           /\ FreshId(c)
           /\ CanStart(docker, port)
           /\ docker' = WithContainer(docker, c, s, port)
           /\ Become(w, waits(c)) \/ Goto(w, "start_failed")
      \/ Goto(w, "start_failed") /\ UNCHANGED docker
  BY DEF Boot
<1> QED
  BY <1>4, <1>5, <1>6

LEMMA WaitInv ==
    ASSUME SchedulerInv, NEW w \in Worker, Wait(w)
    PROVE  SchedulerInv'
<1>1. worker[w].service \in Service
  BY Working DEF Wait, At, NoServicePC
<1>2. Goto(w, "mark_running") \/ Goto(w, "start_failed")
  BY DEF Wait
<1>3. WorkerStep
  BY <1>1, <1>2, PCs, SameRegistry, GotoStep DEF Wait
<1> QED
  BY <1>3, QuietInv DEF Wait

LEMMA StartFailedInv ==
    ASSUME SchedulerInv, NEW w \in Worker, StartFailed(w)
    PROVE  SchedulerInv'
<1>1. worker[w].service \in Service
  BY Working DEF StartFailed, At, NoServicePC
<1>2. RegistryStep
  BY <1>1, StatusStep DEF StartFailed, Status
<1>3. WorkerStep
  BY <1>1, <1>2, StartReturnsStep DEF StartFailed
<1> QED
  BY <1>2, <1>3, SameDocker, StepInv DEF StartFailed

LEMMA MarkRunningInv ==
    ASSUME SchedulerInv, NEW w \in Worker, MarkRunning(w)
    PROVE  SchedulerInv'
<1>1. worker[w].service \in Service
  BY Working DEF MarkRunning, At, NoServicePC
<1>2. RegistryStep
  BY <1>1, StatusStep DEF MarkRunning, Status
<1>3. WorkerStep
  BY <1>1, <1>2, PCs, GotoStep DEF MarkRunning
<1> QED
  BY <1>2, <1>3, SameDocker, StepInv DEF MarkRunning

LEMMA MarkHealthyInv ==
    ASSUME SchedulerInv, NEW w \in Worker, MarkHealthy(w)
    PROVE  SchedulerInv'
<1>1. worker[w].service \in Service
  BY Working DEF MarkHealthy, At, NoServicePC
<1>2. RegistryStep
  BY <1>1, HealthStep DEF MarkHealthy
<1>3. WorkerStep
  BY <1>1, <1>2, PCs, GotoStep DEF MarkHealthy
<1> QED
  BY <1>2, <1>3, SameDocker, StepInv DEF MarkHealthy

LEMMA RecordIDInv ==
    ASSUME SchedulerInv, NEW w \in Worker, RecordID(w)
    PROVE  SchedulerInv'
<1>1. worker[w].service \in Service
  BY Working DEF RecordID, At, NoServicePC
<1>2. RegistryStep
  BY <1>1, WorkerFields, IDStep DEF RecordID
<1>3. StartReturns(w, "ok") \/ StartReturns(w, "error")
  BY DEF RecordID
<1>4. WorkerStep
  BY <1>1, <1>2, <1>3, StartReturnsStep
<1> QED
  BY <1>2, <1>4, SameDocker, StepInv DEF RecordID

LEMMA StopInv ==
    ASSUME SchedulerInv, NEW w \in Worker, Stop(w)
    PROVE  SchedulerInv'
<1>1. worker[w].service \in Service
  BY Working DEF Stop, At, NoServicePC
<1>2. \/ Goto(w, "mark_pending")
      \/ StopReturns(w, "ok")
      \/ StopReturns(w, "error")
  BY DEF Stop
<1>3. RegistryStep
  BY SameRegistry DEF Stop
<1>4. CASE Goto(w, "mark_pending")
  <2>1. CASE Has(registry', worker[w].service)
    BY <1>1, <1>3, <1>4, <2>1, PCs, GotoStep, QuietInv DEF Stop
  <2>2. CASE ~Has(registry', worker[w].service)
    BY <1>1, <1>3, <2>2, StopReturnsStep, QuietInv DEF Stop
  <2> QED
    BY <2>1, <2>2
<1>5. CASE StopReturns(w, "ok") \/ StopReturns(w, "error")
  BY <1>1, <1>3, <1>5, StopReturnsStep, QuietInv DEF Stop
<1> QED
  BY <1>2, <1>4, <1>5

LEMMA MarkPendingInv ==
    ASSUME SchedulerInv, NEW w \in Worker, MarkPending(w)
    PROVE  SchedulerInv'
<1>1. worker[w].service \in Service
  BY Working DEF MarkPending, At, NoServicePC
<1>2. RegistryStep
  BY <1>1, StatusStep DEF MarkPending, Status
<1>3. Has(registry', worker[w].service)
  BY <1>1, <1>2 DEF MarkPending, At, SchedulerInv, WorkersSound, EntryPC, RegistryStep, Keeps
<1>4. WorkerStep
  BY <1>1, <1>2, <1>3, PCs, GotoStep DEF MarkPending
<1> QED
  BY <1>2, <1>4, SameDocker, StepInv DEF MarkPending

LEMMA HaltInv ==
    ASSUME SchedulerInv, NEW w \in Worker, Halt(w)
    PROVE  SchedulerInv'
<1>1. worker[w].service \in Service
  BY Working DEF Halt, At, NoServicePC
<1>2. RegistryStep
  BY SameRegistry DEF Halt
<1>3. (\E ids : docker' = Without(docker, ids)) \/ UNCHANGED docker
  BY DEF Halt, WithStopped
<1>4. DockerStep
  BY <1>2, <1>3, FewerStep, SameDocker
<1>5. Goto(w, "mark_stopped") \/ StopReturns(w, "error")
  BY DEF Halt
<1>6. WorkerStep
  BY <1>1, <1>2, <1>5, PCs, GotoStep, StopReturnsStep
<1> QED
  BY <1>2, <1>4, <1>6, StepInv

LEMMA MarkStoppedInv ==
    ASSUME SchedulerInv, NEW w \in Worker, MarkStopped(w)
    PROVE  SchedulerInv'
<1>1. worker[w].service \in Service
  BY Working DEF MarkStopped, At, NoServicePC
<1>2. RegistryStep
  BY <1>1, StatusStep DEF MarkStopped, Status
<1>3. WorkerStep
  BY <1>1, <1>2, StopReturnsStep DEF MarkStopped
<1> QED
  BY <1>2, <1>3, SameDocker, StepInv DEF MarkStopped

LEMMA ReloadInv ==
    ASSUME SchedulerInv, NEW w \in Worker, NEW s \in Service, Reload(w, s)
    PROVE  SchedulerInv'
<1>1. "reload" \in Task /\ "stop" \in PC \ EntryPC
  BY PCs DEF Task
<1>2. WorkerStep
  BY <1>1, SameRegistry, BeginStep DEF Reload
<1> QED
  BY <1>2, QuietInv DEF Reload

LEMMA StopAllInv ==
    ASSUME SchedulerInv, NEW w \in Worker, StopAll(w)
    PROVE  SchedulerInv'
<1> DEFINE state == [Resting EXCEPT !.task = "stopall", !.pc = "next",
                                    !.rest = {s \in Service : Has(registry, s)}]
<1>1. state \in WorkerType /\ state.pc = "next"
  BY PCs DEF WorkerType, Resting, Task
<1>2. Become(w, state)
  BY DEF StopAll
<1>3. RegistryStep
  BY SameRegistry DEF StopAll
<1> HIDE DEF state
<1>4. WorkerStep
  BY <1>1, <1>2, <1>3, BecomeStep DEF NoServicePC
<1> QED
  BY <1>4, QuietInv DEF StopAll

LEMMA StopNextInv ==
    ASSUME SchedulerInv, NEW w \in Worker, StopNext(w)
    PROVE  SchedulerInv'
<1> DEFINE state(s, pc) == [worker[w] EXCEPT !.rest = worker[w].rest \ {s},
                                             !.service = s,
                                             !.pc = pc]
<1>1. RegistryStep
  BY SameRegistry DEF StopNext
<1>2. ASSUME NEW s \in worker[w].rest, NEW pc \in {"stop", "next"},
             Become(w, state(s, pc))
      PROVE  WorkerStep
  <2>1. s \in Service
    BY WorkerFields
  <2>2. /\ state(s, pc) \in WorkerType
        /\ state(s, pc).pc = pc
        /\ state(s, pc).service = s
    BY <2>1, PCs, WorkerFields DEF WorkerType
  <2> HIDE DEF state
  <2> QED
    BY <1>1, <1>2, <2>1, <2>2, BecomeStep
<1>3. \/ Finish(w)
      \/ \E s \in worker[w].rest : Become(w, state(s, "stop")) \/ Become(w, state(s, "next"))
  BY DEF StopNext
<1>4. WorkerStep
  <2> HIDE DEF state
  <2> QED
    BY <1>1, <1>2, <1>3, FinishStep
<1> QED
  BY <1>4, QuietInv DEF StopNext

LEMMA CancelInv ==
    ASSUME SchedulerInv, NEW w \in Worker, Cancel(w)
    PROVE  SchedulerInv'
<1> DEFINE state == [worker[w] EXCEPT !.cancelled = TRUE]
<1>1. /\ state \in WorkerType
      /\ state.pc = worker[w].pc
      /\ state.service = worker[w].service
  BY WorkerFields DEF WorkerType
<1>2. Become(w, state)
  BY DEF Cancel
<1>3. RegistryStep /\ UNCHANGED registry
  BY SameRegistry DEF Cancel
<1> HIDE DEF state
<1>4. WorkerStep
  BY <1>1, <1>2, <1>3, BecomeStep DEF SchedulerInv, WorkersSound
<1> QED
  BY <1>4, QuietInv DEF Cancel

LEMMA CrashInv ==
    ASSUME SchedulerInv, NEW c \in ContainerId, Crash(c)
    PROVE  SchedulerInv'
<1>1. RegistryStep
  BY SameRegistry DEF Crash
<1>2. DockerStep
  BY <1>1, FewerStep DEF Crash
<1>3. WorkerStep
  BY <1>1, SameWorkers DEF Crash
<1> QED
  BY <1>1, <1>2, <1>3, StepInv

-----------------------------------------------------------------------------
(* The theorems *)

LEMMA NextInv == SchedulerInv /\ [Next]_vars => SchedulerInv'
<1> SUFFICES ASSUME SchedulerInv, [Next]_vars
             PROVE  SchedulerInv'
  OBVIOUS
<1>1. ASSUME NEW w \in Worker, Call(w)
      PROVE  SchedulerInv'
  BY <1>1, InvokeInv, ReloadInv, StopAllInv DEF Call
<1>2. ASSUME NEW w \in Worker, Step(w)
      PROVE  SchedulerInv'
  BY <1>2, CheckInv, ProbeInv, SendInv, StartInv, CleanInv, BootInv, WaitInv,
     StartFailedInv, MarkRunningInv, MarkHealthyInv, RecordIDInv, StopInv,
     MarkPendingInv, HaltInv, MarkStoppedInv, StopNextInv DEF Step
<1>3. ASSUME NEW w \in Worker, Cancel(w)
      PROVE  SchedulerInv'
  BY <1>3, CancelInv
<1>4. ASSUME NEW c \in ContainerId, Crash(c)
      PROVE  SchedulerInv'
  BY <1>4, CrashInv
<1>5. CASE UNCHANGED vars
  BY <1>5, SameRegistry, SameWorkers, QuietInv DEF vars
<1> QED
  BY <1>1, <1>2, <1>3, <1>4, <1>5 DEF Next

LEMMA SchedulerInvariant == Spec => []SchedulerInv
<1> QED
  BY TheInit, NextInv, PTL DEF Spec

\* The variables keep their types.
THEOREM SchedulerTypeThm == Spec => []TypeOK
<1> DEFINE Known == overlapped \subseteq Service
<1>1. Init => Known
  BY DEF Init
<1>2. Known /\ [Next]_vars => Known'
  BY DEF Next, Call, Invoke, Reload, StopAll, TakesOn, Step, Cancel, Crash, vars
<1>3. SchedulerInv /\ Known => TypeOK
  BY DEF SchedulerInv, StateOK, TypeOK
<1> QED
  BY <1>1, <1>2, <1>3, SchedulerInvariant, PTL DEF Spec

\* However many requests, reloads and shutdowns of a service overlap,
\* whichever of their calls to Docker fail, are lost or are cancelled, and
\* whichever containers die: no two containers run for one service, and every
\* container runs on the port of its service.
THEOREM OneContainerThm == Spec => []OneContainerPerService
<1>1. SchedulerInv => OneContainerPerService
  BY DEF SchedulerInv
<1> QED
  BY <1>1, SchedulerInvariant, PTL

-----------------------------------------------------------------------------
(* Requests that overlap: a service that is marked running answers.  What   *)
(* takes a container away is a clean-up, and whoever cleaned up is about to *)
(* boot; a service is marked running only by who has seen it answer.        *)

RequestsOverlap ==
    /\ Tasks = {"invoke"}
    /\ Faults \subseteq {"slow", "save"}
    /\ NameMatches = {<<s, s>> : s \in Service}

PassedBootPC == {"wait", "mark_running"}

\* Somebody relies on a container of s.
Awaited(s) ==
    /\ Has(registry, s)
    /\ \/ EntryOf(s).status = "running"
       \/ \E w \in Worker : worker[w].pc \in PassedBootPC /\ worker[w].service = s

AboutToBoot(s) == \E w \in Worker : worker[w].pc = "boot" /\ worker[w].service = s

Served(s) == Awaited(s) => Answers(docker, EntryOf(s).port) \/ AboutToBoot(s)

\* No task but invocations, no context that ends.
Invoking(state) == state.pc \notin StopPC \cup {"next"} /\ ~state.cancelled

AnswersInv ==
    /\ SchedulerInv
    /\ \A w \in Worker :
         /\ Invoking(worker[w])
         /\ worker[w].pc \in PassedBootPC => Has(registry, worker[w].service)
    /\ \A s \in Service : Served(s)

\* s is marked running only if it was, or if somebody saw it answer.
MarksOnly(w) ==
    \A s \in Service :
        Has(registry', s) /\ registry'.services[s].status = "running" =>
            /\ Has(registry, s)
            /\ \/ EntryOf(s).status = "running"
               \/ worker[w].pc = "mark_running" /\ worker[w].service = s

\* A step of a worker that is not about to boot, and changes no container.
LEMMA QuietServes ==
    ASSUME AnswersInv, SchedulerInv', RegistryStep, UNCHANGED docker,
           NEW w \in Worker, NEW state, Become(w, state),
           worker[w].pc # "boot", Invoking(state), MarksOnly(w),
           state.pc \in PassedBootPC =>
              worker[w].pc \in PassedBootPC /\ state.service = worker[w].service
    PROVE  AnswersInv'
<1>1. worker'[w] = state /\ \A v \in Worker : v # w => worker'[v] = worker[v]
  BY DEF Become, AnswersInv, SchedulerInv, StateOK
<1>2. \A v \in Worker : worker[v].pc \in PassedBootPC => worker[v].service \in Service
  BY DEF AnswersInv, SchedulerInv, WorkersSound, NoServicePC, PassedBootPC
<1>3. \A v \in Worker :
         /\ Invoking(worker'[v])
         /\ worker'[v].pc \in PassedBootPC => Has(registry', worker'[v].service)
  BY <1>1, <1>2 DEF AnswersInv, RegistryStep, Keeps
<1>4. ASSUME NEW s \in Service, Awaited(s)'
      PROVE  Answers(docker, registry'.services[s].port) \/ AboutToBoot(s)'
  <2>1. Awaited(s)
    <3>1. CASE \E v \in Worker : worker'[v].pc \in PassedBootPC /\ worker'[v].service = s
      <4>1. PICK v \in Worker : worker[v].pc \in PassedBootPC /\ worker[v].service = s
        BY <1>1, <3>1
      <4> QED
        BY <4>1 DEF Awaited, AnswersInv
    <3>2. CASE EntryOf(s)'.status = "running"
      BY <1>4, <3>2 DEF Awaited, MarksOnly, EntryOf, PassedBootPC
    <3> QED
      BY <1>4, <3>1, <3>2 DEF Awaited
  <2>2. registry'.services[s].port = EntryOf(s).port
    BY <2>1 DEF Awaited, RegistryStep, Keeps, EntryOf
  <2>3. CASE AboutToBoot(s)
    BY <1>1, <2>3 DEF AboutToBoot
  <2> QED
    BY <2>1, <2>2, <2>3 DEF AnswersInv, Served
<1> QED
  BY <1>3, <1>4 DEF AnswersInv, Served, EntryOf

LEMMA SameStatus ==
    ASSUME NEW w \in Worker, UNCHANGED registry
    PROVE  MarksOnly(w)
BY DEF MarksOnly, EntryOf

\* The ways on that invocations take are such steps.
LEMMA GotoServes ==
    ASSUME AnswersInv, SchedulerInv', RegistryStep, UNCHANGED docker, NEW w \in Worker,
           NEW pc \in PC \ (StopPC \cup {"next", "wait"}), Goto(w, pc),
           pc = "mark_running" => worker[w].pc = "wait",
           worker[w].pc # "boot", MarksOnly(w)
    PROVE  AnswersInv'
<1> DEFINE state == [worker[w] EXCEPT !.pc = pc]
<1>1. /\ state.pc = pc /\ state.service = worker[w].service
      /\ state.cancelled = worker[w].cancelled
  BY WorkerFields DEF WorkerType, AnswersInv
<1>2. Become(w, state)
  BY DEF Goto
<1> HIDE DEF state
<1>3. Invoking(state)
  BY <1>1 DEF Invoking, AnswersInv
<1> QED
  BY <1>1, <1>2, <1>3, QuietServes DEF PassedBootPC

LEMMA FinishServes ==
    ASSUME AnswersInv, SchedulerInv', RegistryStep, UNCHANGED docker, NEW w \in Worker,
           Finish(w), worker[w].pc # "boot", MarksOnly(w)
    PROVE  AnswersInv'
<1>1. Resting.pc = "idle" /\ ~Resting.cancelled
  BY DEF Resting
<1> QED
  BY <1>1, QuietServes DEF Finish, Invoking, StopPC, PassedBootPC

LEMMA StartReturnsServes ==
    ASSUME AnswersInv, SchedulerInv', RegistryStep, UNCHANGED docker, NEW w \in Worker,
           NEW outcome, StartReturns(w, outcome), worker[w].pc # "boot", MarksOnly(w)
    PROVE  AnswersInv'
<1>1. CASE worker[w].task = "invoke" /\ outcome = "ok"
  <2> DEFINE state == [worker[w] EXCEPT !.pc = "probe", !.id = NoId]
  <2>1. state.pc = "probe" /\ state.cancelled = worker[w].cancelled
    BY WorkerFields DEF WorkerType, AnswersInv
  <2>2. Become(w, state)
    BY <1>1 DEF StartReturns
  <2> HIDE DEF state
  <2>3. Invoking(state)
    BY <2>1 DEF Invoking, AnswersInv, StopPC
  <2> QED
    BY <2>1, <2>2, <2>3, QuietServes DEF PassedBootPC
<1>2. CASE ~(worker[w].task = "invoke" /\ outcome = "ok")
  BY <1>2, FinishServes DEF StartReturns
<1> QED
  BY <1>1, <1>2

LEMMA InvokeServes ==
    ASSUME AnswersInv, SchedulerInv', NEW w \in Worker, NEW s \in Service, Invoke(w, s)
    PROVE  AnswersInv'
<1>1. RegistryStep /\ UNCHANGED docker /\ worker[w].pc = "idle"
  BY AddStep DEF Invoke, AnswersInv, TakesOn, Busy, At
<1>2. MarksOnly(w)
  BY AddEntryEffect DEF Invoke, MarksOnly, AnswersInv, SchedulerInv, StateOK, Has, EntryOf
<1>3. CASE Begin(w, "invoke", s, "check")
  <2> DEFINE state == [Resting EXCEPT !.task = "invoke", !.service = s, !.pc = "check"]
  <2>1. state.pc = "check" /\ ~state.cancelled /\ Become(w, state)
    BY <1>3 DEF Resting, Begin
  <2> HIDE DEF state
  <2> QED
    BY <1>1, <1>2, <2>1, QuietServes DEF Invoking, StopPC, PassedBootPC
<1>4. CASE Finish(w)
  BY <1>1, <1>2, <1>4, FinishServes
<1> QED
  BY <1>3, <1>4 DEF Invoke

LEMMA CleanServes ==
    ASSUME RequestsOverlap, AnswersInv, SchedulerInv', NEW w \in Worker, Clean(w)
    PROVE  AnswersInv'
<1> DEFINE s == worker[w].service
<1>1. s \in Service /\ worker[w] \in WorkerType
  BY Working, WorkerFields DEF Clean, At, NoServicePC, AnswersInv
<1>2. /\ docker' = Without(docker, Dangling(docker, s))
      /\ Goto(w, "boot") /\ UNCHANGED registry
  BY DEF Clean, CallEnds, RequestsOverlap, AnswersInv, Invoking
<1>3. /\ worker'[w].pc = "boot" /\ worker'[w].service = s /\ ~worker'[w].cancelled
      /\ \A v \in Worker : v # w => worker'[v] = worker[v]
  BY <1>1, <1>2 DEF Goto, Become, AnswersInv, SchedulerInv, StateOK, WorkerType, Invoking
<1>4. \A v \in Worker :
         /\ Invoking(worker'[v])
         /\ worker'[v].pc \in PassedBootPC => Has(registry', worker'[v].service)
  BY <1>2, <1>3 DEF AnswersInv, Invoking, StopPC, PassedBootPC
<1>5. ASSUME NEW t \in Service, t # s, Has(registry, t), Answers(docker, EntryOf(t).port)
      PROVE  Answers(docker', EntryOf(t).port)
  <2>1. PICK c \in Running(docker) : docker[c].port = EntryOf(t).port
    BY <1>5 DEF Answers
  <2>2. docker[c].service \in Service /\ c \in ContainerId
    BY <2>1 DEF AnswersInv, SchedulerInv, StateOK, DockerType, Container, Running
  <2>3. docker[c].service = t
    BY <1>5, <2>1, <2>2
    DEF AnswersInv, SchedulerInv, OneContainerPerService, PortsSound, PortsDistinct, EntryOf
  <2>4. c \notin Dangling(docker, s)
    BY <1>5, <2>3 DEF Dangling, RequestsOverlap
  <2>5. docker'[c] = docker[c]
    BY <1>2, <2>2, <2>4 DEF Without
  <2> QED
    BY <2>1, <2>2, <2>5 DEF Answers, Running
<1>6. ASSUME NEW t \in Service
      PROVE  Served(t)'
  <2>1. CASE t = s
    BY <1>3, <2>1 DEF Served, AboutToBoot
  <2>2. CASE t # s
    <3>1. Awaited(t)' => Awaited(t)
      BY <1>2, <1>3, <2>2 DEF Awaited, EntryOf
    <3>2. AboutToBoot(t) => AboutToBoot(t)'
      BY <1>3, <2>2 DEF AboutToBoot, Clean, At
    <3>3. Served(t) /\ (Awaited(t) => Has(registry, t))
      BY DEF AnswersInv, Awaited
    <3> QED
      BY <1>2, <1>5, <2>2, <3>1, <3>2, <3>3 DEF Served, EntryOf
  <2> QED
    BY <2>1, <2>2
<1> QED
  BY <1>4, <1>6 DEF AnswersInv

LEMMA BootServes ==
    ASSUME RequestsOverlap, AnswersInv, SchedulerInv', NEW w \in Worker, Boot(w)
    PROVE  AnswersInv'
<1> DEFINE s == worker[w].service
           port == EntryOf(s).port
<1>1. /\ s \in Service /\ Has(registry, s) /\ worker[w] \in WorkerType
      /\ UNCHANGED registry /\ ~worker[w].cancelled
  BY Working, WorkerFields
  DEF Boot, At, NoServicePC, AnswersInv, SchedulerInv, WorkersSound, Invoking
<1>2. /\ worker'[w].pc \in {"wait", "start_failed"} /\ worker'[w].service = s
      /\ ~worker'[w].cancelled
      /\ \A v \in Worker : v # w => worker'[v] = worker[v]
  <2> SUFFICES ASSUME NEW state, Become(w, state), state.pc \in {"wait", "start_failed"},
                      state.service = s, ~state.cancelled
               PROVE  /\ worker'[w] = state
                      /\ \A v \in Worker : v # w => worker'[v] = worker[v]
    <3> DEFINE waits(c) == [worker[w] EXCEPT !.pc = "wait", !.id = c]
               fails == [worker[w] EXCEPT !.pc = "start_failed"]
    <3>1. /\ \A c : /\ waits(c).pc = "wait" /\ waits(c).service = s /\ ~waits(c).cancelled
          /\ fails.pc = "start_failed" /\ fails.service = s /\ ~fails.cancelled
      BY <1>1 DEF WorkerType
    <3>2. (\E c \in ContainerId : Become(w, waits(c))) \/ Become(w, fails)
      BY DEF Boot, Goto
    <3> HIDE DEF waits, fails
    <3> QED
      BY <3>1, <3>2
  <2> QED
    BY DEF Become, AnswersInv, SchedulerInv, StateOK
<1>3. /\ \A p \in Int : Answers(docker, p) => Answers(docker', p)
      /\ Answers(docker', port)
  <2>1. ASSUME NEW c \in ContainerId, FreshId(c), docker' = WithContainer(docker, c, s, port)
        PROVE  <1>3!:
    <3>1. /\ docker'[c] = [service |-> s, port |-> port] /\ docker[c] = NoContainer
          /\ \A d \in ContainerId : d # c => docker'[d] = docker[d]
      BY <2>1 DEF WithContainer, FreshId, AnswersInv, SchedulerInv, StateOK, DockerType
    <3>2. port \in Int
      BY <1>1 DEF AnswersInv, SchedulerInv, StateOK, RegistryType, Entry, Has, EntryOf
    <3>3. c \in Running(docker') /\ docker'[c].port = port
      BY <1>1, <3>1, <3>2 DEF Running, Container
    <3> QED
      BY <3>1, <3>3 DEF Answers, Running
  <2>2. CASE ~CanStart(docker, port) /\ UNCHANGED docker
    BY <2>2 DEF CanStart
  <2>3. "failed" \notin CallEnds(w)
    BY <1>1 DEF CallEnds, RequestsOverlap
  <2> QED
    BY <2>1, <2>2, <2>3 DEF Boot
<1>4. \A v \in Worker :
         /\ Invoking(worker'[v])
         /\ worker'[v].pc \in PassedBootPC => Has(registry', worker'[v].service)
  BY <1>1, <1>2 DEF AnswersInv, Invoking, StopPC, PassedBootPC
<1>5. ASSUME NEW t \in Service
      PROVE  Served(t)'
  <2>1. CASE t = s
    BY <1>1, <1>3, <2>1 DEF Served, EntryOf
  <2>2. CASE t # s
    <3>1. Awaited(t)' => Awaited(t)
      BY <1>1, <1>2, <2>2 DEF Awaited, EntryOf
    <3>2. AboutToBoot(t) => AboutToBoot(t)'
      BY <1>2, <2>2 DEF AboutToBoot
    <3>3. Awaited(t) => EntryOf(t).port \in Int
      BY DEF Awaited, AnswersInv, SchedulerInv, StateOK, RegistryType, Entry, Has, EntryOf
    <3> QED
      BY <1>1, <1>3, <3>1, <3>2, <3>3 DEF AnswersInv, Served, EntryOf
  <2> QED
    BY <2>1, <2>2
<1> QED
  BY <1>4, <1>5 DEF AnswersInv

\* The other steps of an invocation change no container.
LEMMA StepServes ==
    ASSUME RequestsOverlap, AnswersInv, SchedulerInv', NEW w \in Worker, Step(w)
    PROVE  AnswersInv'
<1> DEFINE s == worker[w].service
<1>1. worker[w].pc \notin NoServicePC => s \in Service
  BY Working DEF AnswersInv
<1>2. registry \in RegistryType /\ SchedulerInv /\ Invoking(worker[w])
  BY DEF AnswersInv, SchedulerInv, StateOK
<1>3. CASE Check(w) \/ Probe(w) \/ Send(w) \/ Wait(w)
  <2>1. RegistryStep /\ MarksOnly(w) /\ UNCHANGED docker
    BY <1>2, <1>3, SameRegistry, SameStatus DEF Check, Probe, Send, Wait
  <2>2. \/ Finish(w)
        \/ \E pc \in {"probe", "start", "send", "start_failed"} : Goto(w, pc)
        \/ Goto(w, "mark_running") /\ worker[w].pc = "wait"
    BY <1>3 DEF Check, Probe, Send, Wait, At
  <2>3. {"probe", "start", "send", "start_failed", "mark_running"}
           \subseteq PC \ (StopPC \cup {"next", "wait"})
    BY DEF PC, StartPC, StopPC
  <2>4. worker[w].pc # "boot"
    BY <1>3 DEF Check, Probe, Send, Wait, At
  <2> QED
    BY <2>1, <2>2, <2>3, <2>4, FinishServes, GotoServes
<1>4. CASE Start(w)
  <2>1. RegistryStep /\ MarksOnly(w) /\ UNCHANGED docker /\ worker[w].pc # "boot"
    BY <1>2, <1>4, SameRegistry, SameStatus DEF Start, At
  <2>2. Goto(w, "clean") \/ StartReturns(w, "ok") \/ StartReturns(w, "error")
    BY <1>4 DEF Start
  <2>3. "clean" \in PC \ (StopPC \cup {"next", "wait"})
    BY DEF PC, StartPC, StopPC
  <2> QED
    BY <2>1, <2>2, <2>3, GotoServes, StartReturnsServes
<1>5. CASE StartFailed(w)
  <2>1. RegistryStep /\ UNCHANGED docker /\ worker[w].pc # "boot"
    BY <1>1, <1>2, <1>5, StatusStep DEF StartFailed, Status, At, NoServicePC
  <2>2. MarksOnly(w)
    BY <1>1, <1>2, <1>5, SetStatusEffect
    DEF StartFailed, Status, At, NoServicePC, MarksOnly, EntryOf, SetStatus, Has
  <2> QED
    BY <1>5, <2>1, <2>2, StartReturnsServes DEF StartFailed
<1>6. CASE MarkRunning(w)
  <2>1. RegistryStep /\ UNCHANGED docker /\ worker[w].pc = "mark_running" /\ s \in Service
    BY <1>1, <1>2, <1>6, StatusStep DEF MarkRunning, Status, At, NoServicePC
  <2>2. MarksOnly(w)
    <3>1. Has(registry, s) /\ registry' = SetStatus(registry, s, "running")
      BY <1>6, <2>1 DEF MarkRunning, AnswersInv, PassedBootPC
    <3>2. \A t \in Service : t # s => registry'.services[t] = registry.services[t]
      <4>1. "running" \in Status
        BY DEF Status
      <4> HIDE DEF s
      <4> QED
        BY <1>2, <2>1, <3>1, <4>1, SetStatusEffect
    <3>3. ASSUME NEW t \in Service, Has(registry', t), registry'.services[t].status = "running"
          PROVE  /\ Has(registry, t)
                 /\ EntryOf(t).status = "running" \/ worker[w].service = t
      <4>1. CASE t = s
        BY <3>1, <4>1
      <4>2. CASE t # s
        BY <3>2, <3>3, <4>2 DEF EntryOf, Has
      <4> QED
        BY <4>1, <4>2
    <3> HIDE DEF s
    <3> QED
      BY <2>1, <3>3 DEF MarksOnly
  <2>3. "mark_healthy" \in PC \ (StopPC \cup {"next", "wait"})
    BY DEF PC, StartPC, StopPC
  <2> QED
    BY <1>6, <2>1, <2>2, <2>3, GotoServes DEF MarkRunning
<1>7. CASE MarkHealthy(w)
  <2>1. RegistryStep /\ UNCHANGED docker /\ worker[w].pc # "boot" /\ s \in Service
    BY <1>1, <1>2, <1>7, HealthStep DEF MarkHealthy, At, NoServicePC
  <2>2. MarksOnly(w)
    BY <1>2, <1>7, <2>1, SetHealthEffect DEF MarkHealthy, MarksOnly, EntryOf, SetHealth, Has
  <2>3. "record_id" \in PC \ (StopPC \cup {"next", "wait"})
    BY DEF PC, StartPC, StopPC
  <2> QED
    BY <1>7, <2>1, <2>2, <2>3, GotoServes DEF MarkHealthy
<1>8. CASE RecordID(w)
  <2>1. RegistryStep /\ UNCHANGED docker /\ worker[w].pc # "boot" /\ s \in Service
        /\ worker[w].id \in ContainerId \cup {NoId}
    BY <1>1, <1>2, <1>8, WorkerFields, IDStep DEF RecordID, At, NoServicePC
  <2>2. MarksOnly(w)
    BY <1>2, <1>8, <2>1, SetContainerIDEffect
    DEF RecordID, MarksOnly, EntryOf, SetContainerID, Has
  <2> QED
    BY <1>8, <2>1, <2>2, StartReturnsServes DEF RecordID
<1>9. ~(Stop(w) \/ MarkPending(w) \/ Halt(w) \/ MarkStopped(w) \/ StopNext(w))
  BY <1>2 DEF Stop, MarkPending, Halt, MarkStopped, StopNext, At, Invoking, StopPC
<1> QED
  BY <1>3, <1>4, <1>5, <1>6, <1>7, <1>8, <1>9, CleanServes, BootServes DEF Step

LEMMA AnswersNext ==
    ASSUME RequestsOverlap
    PROVE  AnswersInv /\ [Next]_vars => AnswersInv'
<1> SUFFICES ASSUME AnswersInv, [Next]_vars PROVE AnswersInv'
  OBVIOUS
<1>1. SchedulerInv'
  BY NextInv DEF AnswersInv
<1>2. CASE UNCHANGED vars
  BY <1>1, <1>2 DEF vars, AnswersInv, Served, Awaited, AboutToBoot, EntryOf
<1>3. ASSUME NEW w \in Worker, Call(w)
      PROVE  AnswersInv'
  <2>1. \E s \in Service : Invoke(w, s)
    BY <1>3 DEF Call, Reload, StopAll, TakesOn, RequestsOverlap
  <2> QED
    BY <1>1, <2>1, InvokeServes
<1>4. (\A w \in Worker : ~Cancel(w)) /\ (\A c \in ContainerId : ~Crash(c))
  BY DEF Cancel, Crash, RequestsOverlap
<1>5. ASSUME NEW w \in Worker, Step(w)
      PROVE  AnswersInv'
  BY <1>1, <1>5, StepServes
<1> QED
  BY <1>2, <1>3, <1>4, <1>5 DEF Next

\* However many requests for services overlap, however slow their containers
\* are and whichever saves fail: a service that is marked running, and that
\* nobody is starting, answers on its port (scheduler.go, Invoke).
THEOREM RunningAnswersThm ==
    ASSUME RequestsOverlap
    PROVE  Spec => []RunningAnswers
<1>1. Init => AnswersInv
  <2> SUFFICES ASSUME Init PROVE AnswersInv
    OBVIOUS
  <2>1. SchedulerInv /\ \A w \in Worker : worker[w].pc = "idle" /\ ~worker[w].cancelled
    BY TheInit DEF Init, Resting
  <2>2. \A s \in Service : ~Has(registry, s)
    BY DEF Init, NewRegistry, Has
  <2> QED
    BY <2>1, <2>2 DEF AnswersInv, Invoking, StopPC, PassedBootPC, Served, Awaited
<1>2. AnswersInv /\ [Next]_vars => AnswersInv'
  BY AnswersNext
<1>3. AnswersInv => RunningAnswers
  <2> SUFFICES ASSUME AnswersInv, NEW s \in Service, Settled(s), Has(registry, s),
                      EntryOf(s).status = "running"
               PROVE  Answers(docker, EntryOf(s).port)
    BY DEF RunningAnswers
  <2>1. ~AboutToBoot(s)
    BY DEF AboutToBoot, Settled, Changing, StartPC
  <2> QED
    BY <2>1 DEF AnswersInv, Served, Awaited
<1> QED
  BY <1>1, <1>2, <1>3, PTL DEF Spec

-----------------------------------------------------------------------------
(* The registry says what runs, for every service that two goroutines have  *)
(* not worked on at the same time.  A worker that is inside a start or a    *)
(* stop of such a service holds it alone, and knows at each line what runs  *)
(* for it; what it leaves behind is what the status says.  The others may   *)
(* overlap as they like: an id is never recorded for a service whose        *)
(* container it does not name, so that they disturb nothing but their own.  *)

\* No service's name is part of another's.
OwnNames == NameMatches = {<<s, s>> : s \in Service}

\* Nor does a container die by itself.
Undisturbed == OwnNames /\ "crash" \notin Faults

\* Inside StartService or StopService, past the early returns.
OpPC == (StartPC \cup StopPC) \ {"start", "stop"}

\* The program counters of a worker that started the container it names.
IdPC == {"wait", "mark_running", "mark_healthy", "record_id"}

\* The program counters of a worker that holds no service.
FreePC == {"idle", "probe", "send"}

\* The container a worker in state x names is one of its service.
Owns(x, d) == x.pc \in IdPC /\ x.id \in Running(d) => d[x.id].service = x.service

IdsOwned ==
    /\ \A s \in Service :
          Has(registry, s) /\ registry.services[s].id \in Running(docker)
             => docker[registry.services[s].id].service = s
    /\ \A w \in Worker : Owns(worker[w], docker)

\* What a worker in state x knows, with registry r and containers d.
Knows(x, r, d) ==
    x.pc \in OpPC =>
        /\ Has(r, x.service)
        /\ x.pc \in {"boot", "mark_stopped"} => RunningFor(d, x.service) = {}
        /\ x.pc \in IdPC => RunningFor(d, x.service) = {x.id}
        /\ x.pc \in {"mark_pending", "halt"} =>
              RunningFor(d, x.service) = {r.services[x.service].id}
        /\ x.pc \in {"mark_healthy", "record_id"} =>
              r.services[x.service].status = "running"
        /\ x.pc = "halt" => r.services[x.service].status = "pending"

\* What the entry of s says when nobody is changing it.
EntryTrue(r, d, s) ==
    Has(r, s) =>
        /\ r.services[s].status = "running" => RunningFor(d, s) = {r.services[s].id}
        /\ r.services[s].status = "stopped" => RunningFor(d, s) = {}

RecordInv ==
    /\ SchedulerInv
    /\ IdsOwned
    /\ \A s \in Service \ overlapped : \A v, w \in Worker :
          Holds(v, s) /\ Holds(w, s) => v = w
    /\ \A w \in Worker : worker[w].pc = "next" => worker[w].task = "stopall"
    /\ \A w \in Worker : worker[w].service \notin overlapped
                            => Knows(worker[w], registry, docker)
    /\ \A s \in Service \ overlapped : Settled(s) => EntryTrue(registry, docker, s)

\* Which services a worker in state x is working on.
HoldsIn(x, s) == x.pc \notin FreePC /\ (x.task = "stopall" \/ x.service = s)

LEMMA OperationsAreNot ==
    /\ OpPC \cap {"idle", "next", "check", "probe", "send", "start", "stop"} = {}
    /\ IdPC \subseteq OpPC
BY DEF OpPC, StartPC, StopPC, IdPC

LEMMA Became ==
    ASSUME SchedulerInv, NEW w \in Worker, NEW x, Become(w, x)
    PROVE  /\ worker'[w] = x
           /\ \A v \in Worker : v # w => worker'[v] = worker[v]
           /\ \A t \in Service : Holds(w, t)' = HoldsIn(x, t)
           /\ \A v \in Worker : v # w => \A t \in Service :
                 Holds(v, t)' = Holds(v, t) /\ Changing(v, t)' = Changing(v, t)
<1>1. /\ worker'[w] = x
      /\ \A v \in Worker : v # w => worker'[v] = worker[v]
  BY DEF Become, SchedulerInv, StateOK
<1> QED
  BY <1>1 DEF Holds, HoldsIn, FreePC, Changing

\* A worker in an operation holds its service.
LEMMA Holding ==
    ASSUME SchedulerInv, NEW w \in Worker, worker[w].pc \notin NoServicePC \cup FreePC
    PROVE  worker[w].service \in Service /\ Holds(w, worker[w].service)
BY Working DEF Holds, NoServicePC, FreePC

LEMMA OperationsHold ==
    ASSUME SchedulerInv, NEW w \in Worker, worker[w].pc \in OpPC
    PROVE  worker[w].service \in Service /\ Holds(w, worker[w].service)
BY Holding, OperationsAreNot DEF NoServicePC, FreePC

-----------------------------------------------------------------------------
(* The states a worker goes to *)

LEMMA GotoHolds ==
    ASSUME SchedulerInv, NEW w \in Worker, NEW pc, Goto(w, pc),
           worker[w].pc \notin FreePC \/ pc \in FreePC
    PROVE  \E x : /\ Become(w, x) /\ x.pc = pc
                  /\ x.service = worker[w].service /\ x.id = worker[w].id
                  /\ x.task = worker[w].task
                  /\ \A t \in Service : HoldsIn(x, t) => Holds(w, t)
<1> DEFINE x == [worker[w] EXCEPT !.pc = pc]
<1>1. /\ Become(w, x) /\ x.pc = pc /\ x.service = worker[w].service
      /\ x.id = worker[w].id /\ x.task = worker[w].task
  BY WorkerFields DEF WorkerType, Goto
<1> HIDE DEF x
<1> QED
  BY <1>1 DEF HoldsIn, Holds, FreePC

\* A task ends, StartService returns, StopService returns.
LEMMA FinishHolds ==
    ASSUME NEW w \in Worker, Finish(w)
    PROVE  \E x : /\ Become(w, x) /\ x.pc \notin OpPC \cup {"next"}
                  /\ \A t \in Service : HoldsIn(x, t) => Holds(w, t)
BY OperationsAreNot DEF Finish, Resting, HoldsIn, FreePC

LEMMA StartReturnsHolds ==
    ASSUME SchedulerInv, NEW w \in Worker, NEW outcome, StartReturns(w, outcome)
    PROVE  \E x : /\ Become(w, x) /\ x.pc \notin OpPC \cup {"next"}
                  /\ \A t \in Service : HoldsIn(x, t) => Holds(w, t)
<1>1. CASE worker[w].task = "invoke" /\ outcome = "ok"
  <2> DEFINE x == [worker[w] EXCEPT !.pc = "probe", !.id = NoId]
  <2>1. Become(w, x) /\ x.pc = "probe"
    BY <1>1, WorkerFields DEF WorkerType, StartReturns
  <2> HIDE DEF x
  <2> QED
    BY <2>1, OperationsAreNot DEF HoldsIn, FreePC
<1>2. CASE ~(worker[w].task = "invoke" /\ outcome = "ok")
  BY <1>2, FinishHolds DEF StartReturns
<1> QED
  BY <1>1, <1>2

LEMMA StopReturnsHolds ==
    ASSUME SchedulerInv, NEW w \in Worker, worker[w].pc \notin FreePC,
           NEW outcome, StopReturns(w, outcome)
    PROVE  \E x : /\ Become(w, x) /\ x.pc \notin OpPC
                  /\ x.pc = "next" => x.task = "stopall"
                  /\ \A t \in Service : HoldsIn(x, t) => Holds(w, t)
<1>1. CASE worker[w].task = "stopall"
  BY <1>1, GotoHolds, OperationsAreNot DEF StopReturns
<1>2. CASE Goto(w, "start")
  BY <1>2, GotoHolds, OperationsAreNot
<1>3. CASE Finish(w)
  BY <1>3, FinishHolds
<1> QED
  BY <1>1, <1>2, <1>3 DEF StopReturns

-----------------------------------------------------------------------------
(* A container that is on record belongs to the service it is recorded for *)

\* A step that starts no container and records no id, and whose worker goes
\* to state x without naming another container.
LEMMA IdsStay ==
    ASSUME SchedulerInv, IdsOwned, NEW w \in Worker, NEW x, Become(w, x),
           \A c \in Running(docker') : c \in Running(docker) /\ docker'[c] = docker[c],
           \A s \in Service : Has(registry', s) =>
              \/ registry'.services[s].id = NoId
              \/ /\ Has(registry, s)
                 /\ registry'.services[s].id = registry.services[s].id,
           x.pc \in IdPC => /\ worker[w].pc \in IdPC
                            /\ x.id = worker[w].id /\ x.service = worker[w].service
    PROVE  IdsOwned'
<1>1. NoId \notin Running(docker')
  BY NoIdAssumption DEF Running
<1>2. \A s \in Service :
          Has(registry', s) /\ registry'.services[s].id \in Running(docker')
             => docker'[registry'.services[s].id].service = s
  BY <1>1 DEF IdsOwned
<1>3. ASSUME NEW v \in Worker
      PROVE  Owns(worker'[v], docker')
  <2>1. CASE v = w
    BY <2>1, Became DEF IdsOwned, Owns
  <2>2. CASE v # w
    BY <2>2, Became DEF IdsOwned, Owns
  <2> QED
    BY <2>1, <2>2
<1> QED
  BY <1>2, <1>3 DEF IdsOwned

\* The same, for each way the worker may go on.
LEMMA IdsStayOn ==
    ASSUME SchedulerInv, IdsOwned, NEW w \in Worker,
           \A c \in Running(docker') : c \in Running(docker) /\ docker'[c] = docker[c],
           \A s \in Service : Has(registry', s) =>
              \/ registry'.services[s].id = NoId
              \/ /\ Has(registry, s)
                 /\ registry'.services[s].id = registry.services[s].id,
           \/ \E pc : /\ Goto(w, pc)
                      /\ worker[w].pc \notin FreePC \/ pc \in FreePC
                      /\ pc \in IdPC => worker[w].pc \in IdPC
           \/ Finish(w)
           \/ \E outcome : StartReturns(w, outcome)
           \/ worker[w].pc \notin FreePC /\ \E outcome : StopReturns(w, outcome)
           \/ \E x : Become(w, x) /\ x.pc \notin IdPC
    PROVE  IdsOwned'
<1>1. PICK x : /\ Become(w, x)
               /\ x.pc \in IdPC => /\ worker[w].pc \in IdPC
                                   /\ x.id = worker[w].id /\ x.service = worker[w].service
  <2>1. CASE \E pc : /\ Goto(w, pc)
                     /\ worker[w].pc \notin FreePC \/ pc \in FreePC
                     /\ pc \in IdPC => worker[w].pc \in IdPC
    BY <2>1, GotoHolds
  <2>2. CASE \/ Finish(w)
             \/ \E outcome : StartReturns(w, outcome)
             \/ worker[w].pc \notin FreePC /\ \E outcome : StopReturns(w, outcome)
    BY <2>2, FinishHolds, StartReturnsHolds, StopReturnsHolds, OperationsAreNot
  <2>3. CASE \E x : Become(w, x) /\ x.pc \notin IdPC
    BY <2>3
  <2> QED
    BY <2>1, <2>2, <2>3
<1> QED
  BY <1>1, IdsStay

LEMMA FewerContainers ==
    ASSUME NEW ids, docker' = Without(docker, ids)
    PROVE  \A c \in Running(docker') : c \in Running(docker) /\ docker'[c] = docker[c]
BY DEF Without, Running

\* createContainer and startContainer.
LEMMA BootIds ==
    ASSUME SchedulerInv, IdsOwned, NEW w \in Worker, Boot(w)
    PROVE  IdsOwned'
<1> DEFINE s == worker[w].service
           port == EntryOf(s).port
           waits(c) == [worker[w] EXCEPT !.pc = "wait", !.id = c]
<1>1. UNCHANGED registry /\ worker[w].pc = "boot" /\ s \in Service
  BY Working DEF Boot, At, NoServicePC
<1>2. CASE Goto(w, "start_failed") /\ UNCHANGED docker
  BY <1>1, <1>2, IdsStayOn DEF IdPC, FreePC
<1>3. ASSUME NEW c \in ContainerId, FreshId(c), docker' = WithContainer(docker, c, s, port),
             NEW x, Become(w, x), x.pc \in IdPC => x.id = c /\ x.service = s
      PROVE  IdsOwned'
  <2>1. /\ docker'[c] = [service |-> s, port |-> port]
        /\ \A d \in ContainerId : d # c => docker'[d] = docker[d]
    BY <1>3 DEF WithContainer, SchedulerInv, StateOK, DockerType
  <2>2. docker'[c].service = s
    BY <2>1
  <2>3. \A t \in Service : Has(registry, t) => registry.services[t].id # c
    BY <1>3 DEF FreshId, EntryOf
  <2>4. \A v \in Worker : worker[v].id # c
    BY <1>3 DEF FreshId
  <2>5. \A d \in Running(docker') : d # c => d \in Running(docker) /\ docker'[d] = docker[d]
    BY <2>1 DEF Running
  <2> HIDE DEF s, port
  <2>6. ASSUME NEW v \in Worker
        PROVE  Owns(worker'[v], docker')
    <3>1. CASE v = w
      BY <3>1, <1>3, <2>2, Became DEF Owns
    <3>2. CASE v # w
      BY <3>2, <1>3, <2>4, <2>5, Became DEF Owns, IdsOwned
    <3> QED
      BY <3>1, <3>2
  <2>7. \A t \in Service :
            Has(registry', t) /\ registry'.services[t].id \in Running(docker')
               => docker'[registry'.services[t].id].service = t
    BY <1>1, <2>3, <2>5 DEF IdsOwned
  <2> QED
    BY <2>6, <2>7 DEF IdsOwned
<1>4. ASSUME NEW c \in ContainerId, FreshId(c), docker' = WithContainer(docker, c, s, port),
             Become(w, waits(c)) \/ Goto(w, "start_failed")
      PROVE  IdsOwned'
  <2>1. \E x : Become(w, x) /\ (x.pc \in IdPC => x.id = c /\ x.service = s)
    <3>1. CASE Become(w, waits(c))
      <4>1. waits(c).id = c /\ waits(c).service = s
        BY WorkerFields DEF WorkerType
      <4> HIDE DEF waits, s
      <4> QED
        BY <3>1, <4>1
    <3>2. CASE Goto(w, "start_failed")
      <4>1. PICK x : Become(w, x) /\ x.pc = "start_failed"
        BY <3>2, <1>1, GotoHolds DEF FreePC
      <4> HIDE DEF s
      <4> QED
        BY <4>1 DEF IdPC
    <3> QED
      BY <1>4, <3>1, <3>2
  <2> HIDE DEF waits, s, port
  <2> QED
    BY <1>3, <1>4, <2>1
<1> QED
  BY <1>2, <1>4 DEF Boot

\* UpdateContainerID.
LEMMA RecordIds ==
    ASSUME SchedulerInv, IdsOwned, NEW w \in Worker, RecordID(w)
    PROVE  IdsOwned'
<1> DEFINE s == worker[w].service
           id == worker[w].id
<1>1. /\ UNCHANGED docker /\ worker[w].pc = "record_id" /\ s \in Service
      /\ id \in ContainerId \cup {NoId}
      /\ registry' = SetContainerID(registry, s, id) /\ registry \in RegistryType
  BY Working, WorkerFields DEF RecordID, At, NoServicePC, SchedulerInv, StateOK
<1>2. PICK x : Become(w, x) /\ x.pc \notin OpPC
  BY StartReturnsHolds DEF RecordID
<1>3. /\ \A t \in Service : t # s => registry'.services[t] = registry.services[t]
      /\ Has(registry, s) => registry'.services[s].id = id
      /\ Has(registry', s) <=> Has(registry, s)
  <2> HIDE DEF s, id
  <2> QED
    BY <1>1, SetContainerIDEffect DEF SamePorts
<1>4. Owns(worker[w], docker) /\ worker[w].pc \in IdPC
  BY <1>1 DEF IdsOwned, IdPC
<1>5. \A t \in Service :
          Has(registry', t) /\ registry'.services[t].id \in Running(docker')
             => docker'[registry'.services[t].id].service = t
  BY <1>1, <1>3, <1>4 DEF IdsOwned, Owns, Has
<1>6. ASSUME NEW v \in Worker
      PROVE  Owns(worker'[v], docker')
  <2>1. CASE v = w
    BY <2>1, <1>2, Became, OperationsAreNot DEF Owns
  <2>2. CASE v # w
    BY <2>2, <1>1, <1>2, Became DEF Owns, IdsOwned
  <2> QED
    BY <2>1, <2>2
<1> QED
  BY <1>5, <1>6 DEF IdsOwned

LEMMA StepIds ==
    ASSUME SchedulerInv, IdsOwned, NEW w \in Worker, Step(w)
    PROVE  IdsOwned'
<1> DEFINE s == worker[w].service
<1>1. registry \in RegistryType
  BY DEF SchedulerInv, StateOK
<1>2. UNCHANGED docker => \A c \in Running(docker') : c \in Running(docker) /\ docker'[c] = docker[c]
  OBVIOUS
<1>3. UNCHANGED registry => \A t \in Service : Has(registry', t) =>
              \/ registry'.services[t].id = NoId
              \/ Has(registry, t) /\ registry'.services[t].id = registry.services[t].id
  OBVIOUS
<1>4. CASE Check(w) \/ Probe(w) \/ Send(w)
  <2>1. /\ UNCHANGED <<registry, docker>>
        /\ \/ Finish(w)
           \/ \E pc : /\ Goto(w, pc) /\ pc \notin IdPC
                      /\ worker[w].pc \notin FreePC \/ pc \in FreePC
    BY <1>4 DEF Check, Probe, Send, At, IdPC, FreePC
  <2> QED
    BY <2>1, <1>2, <1>3, IdsStayOn
<1>5. CASE Start(w) \/ Stop(w)
  <2>1. /\ UNCHANGED <<registry, docker>> /\ worker[w].pc \notin FreePC
        /\ \/ \E outcome : StartReturns(w, outcome) \/ StopReturns(w, outcome)
           \/ \E pc : Goto(w, pc) /\ pc \notin IdPC
    <3>1. CASE Start(w)
      <4>1. UNCHANGED <<registry, docker>> /\ worker[w].pc = "start"
        BY <3>1 DEF Start, At
      <4>2. StartReturns(w, "ok") \/ StartReturns(w, "error") \/ Goto(w, "clean")
        BY <3>1 DEF Start
      <4> QED
        BY <4>1, <4>2 DEF IdPC, FreePC
    <3>2. CASE Stop(w)
      BY <3>2 DEF Stop, At, IdPC, FreePC
    <3> QED
      BY <1>5, <3>1, <3>2
  <2> QED
    BY <2>1, <1>2, <1>3, IdsStayOn
<1>6. CASE Clean(w)
  <2>1. /\ UNCHANGED registry /\ worker[w].pc \notin FreePC
        /\ \E ids : docker' = Without(docker, ids)
        /\ \E pc : Goto(w, pc) /\ pc \notin IdPC
    BY <1>6 DEF Clean, At, IdPC, FreePC
  <2> QED
    BY <2>1, <1>3, FewerContainers, IdsStayOn
<1>7. CASE Wait(w)
  <2>1. /\ UNCHANGED <<registry, docker>> /\ worker[w].pc \notin FreePC /\ worker[w].pc \in IdPC
        /\ \E pc : Goto(w, pc)
    BY <1>7 DEF Wait, At, IdPC, FreePC
  <2> QED
    BY <2>1, <1>2, <1>3, IdsStayOn
<1>8. CASE StartFailed(w) \/ MarkRunning(w) \/ MarkPending(w) \/ MarkStopped(w)
  <2>1. /\ UNCHANGED docker /\ worker[w].pc \notin FreePC /\ s \in Service
        /\ \E status \in Status : registry' = SetStatus(registry, s, status)
        /\ \/ \E outcome : StartReturns(w, outcome) \/ StopReturns(w, outcome)
           \/ \E pc : Goto(w, pc) /\ (pc \in IdPC => worker[w].pc \in IdPC)
    BY <1>8, Working DEF StartFailed, MarkRunning, MarkPending, MarkStopped, At, Status, FreePC,
                         IdPC, NoServicePC
  <2>2. \A t \in Service : Has(registry', t) =>
              Has(registry, t) /\ registry'.services[t].id = registry.services[t].id
    <3> HIDE DEF s
    <3> QED
      BY <1>1, <2>1, SetStatusEffect DEF SamePorts
  <2> QED
    BY <2>1, <2>2, <1>2, IdsStayOn
<1>9. CASE MarkHealthy(w)
  <2>1. /\ UNCHANGED docker /\ worker[w].pc \notin FreePC /\ s \in Service
        /\ registry' = SetHealth(registry, s, TRUE)
        /\ Goto(w, "record_id") /\ worker[w].pc \in IdPC
    BY <1>9, Working DEF MarkHealthy, At, FreePC, IdPC, NoServicePC
  <2>2. \A t \in Service : Has(registry', t) =>
              Has(registry, t) /\ registry'.services[t].id = registry.services[t].id
    <3> HIDE DEF s
    <3>1. /\ SamePorts(registry, registry')
          /\ \A t \in Service : t # s => registry'.services[t] = registry.services[t]
          /\ Has(registry, s) => registry'.services[s].id = registry.services[s].id
      BY <1>1, <2>1, SetHealthEffect
    <3> QED
      BY <3>1 DEF SamePorts
  <2> QED
    BY <2>1, <2>2, <1>2, IdsStayOn
<1>10. CASE Halt(w)
  <2>1. /\ UNCHANGED registry /\ worker[w].pc \notin FreePC
        /\ UNCHANGED docker \/ \E ids : docker' = Without(docker, ids)
        /\ \/ \E outcome : StopReturns(w, outcome)
           \/ \E pc : Goto(w, pc) /\ pc \notin IdPC
    BY <1>10 DEF Halt, At, IdPC, FreePC, WithStopped
  <2> QED
    BY <2>1, <1>2, <1>3, FewerContainers, IdsStayOn
<1>11. CASE StopNext(w)
  <2>1. CASE Finish(w)
    BY <2>1, <1>2, <1>3, <1>11, IdsStayOn DEF StopNext
  <2>2. ASSUME NEW t, NEW pc \in {"stop", "next"},
               Become(w, [worker[w] EXCEPT !.rest = worker[w].rest \ {t},
                                           !.service = t, !.pc = pc])
        PROVE  \E x : Become(w, x) /\ x.pc \notin IdPC
    <3> DEFINE x == [worker[w] EXCEPT !.rest = worker[w].rest \ {t}, !.service = t, !.pc = pc]
    <3>1. Become(w, x) /\ x.pc = pc
      BY <2>2, WorkerFields DEF WorkerType
    <3> HIDE DEF x
    <3> QED
      BY <3>1 DEF IdPC
  <2>3. UNCHANGED <<registry, docker>>
    BY <1>11 DEF StopNext
  <2>4. CASE ~Finish(w)
    <3>1. \E x : Become(w, x) /\ x.pc \notin IdPC
      BY <1>11, <2>2, <2>4 DEF StopNext
    <3> QED
      BY <2>3, <3>1, <1>2, <1>3, IdsStayOn
  <2> QED
    BY <2>1, <2>4
<1> QED
  BY <1>4, <1>5, <1>6, <1>7, <1>8, <1>9, <1>10, <1>11, BootIds, RecordIds DEF Step

\* The other actions of a process.
LEMMA CallIds ==
    ASSUME SchedulerInv, IdsOwned, NEW w \in Worker,
           \/ \E s \in Service : Invoke(w, s) \/ Reload(w, s)
           \/ StopAll(w)
    PROVE  IdsOwned'
<1>1. UNCHANGED docker /\ \E x : Become(w, x) /\ x.pc \notin IdPC
  <2>1. \A task, s, pc : Begin(w, task, s, pc) =>
             Become(w, [Resting EXCEPT !.task = task, !.service = s, !.pc = pc])
    BY DEF Begin
  <2>2. \A task, s, pc : [Resting EXCEPT !.task = task, !.service = s, !.pc = pc].pc = pc
    BY DEF Resting
  <2>3. CASE StopAll(w)
    <3> DEFINE x == [Resting EXCEPT !.task = "stopall", !.pc = "next",
                                    !.rest = {s \in Service : Has(registry, s)}]
    <3>1. UNCHANGED docker /\ Become(w, x) /\ x.pc = "next"
      BY <2>3 DEF StopAll, Resting
    <3> HIDE DEF x
    <3> QED
      BY <3>1 DEF IdPC
  <2>4. ASSUME Finish(w)
        PROVE  \E x : Become(w, x) /\ x.pc \notin IdPC
    BY <2>4 DEF Finish, Resting, IdPC
  <2>5. ASSUME NEW task, NEW s, NEW pc \in {"check", "stop"}, Begin(w, task, s, pc)
        PROVE  \E x : Become(w, x) /\ x.pc \notin IdPC
    <3> DEFINE x == [Resting EXCEPT !.task = task, !.service = s, !.pc = pc]
    <3>1. Become(w, x) /\ x.pc = pc
      BY <2>1, <2>2, <2>5
    <3> HIDE DEF x
    <3> QED
      BY <3>1 DEF IdPC
  <2> QED
    BY <2>3, <2>4, <2>5 DEF Invoke, Reload
<1>2. \A t \in Service : Has(registry', t) =>
              \/ registry'.services[t].id = NoId
              \/ Has(registry, t) /\ registry'.services[t].id = registry.services[t].id
  <2>1. CASE UNCHANGED registry
    BY <2>1
  <2>2. ASSUME NEW s \in Service, registry' = AddEntry(registry, s)
        PROVE  \A t \in Service : Has(registry', t) =>
                  \/ registry'.services[t].id = NoId
                  \/ Has(registry, t) /\ registry'.services[t].id = registry.services[t].id
    <3>1. registry \in RegistryType
      BY DEF SchedulerInv, StateOK
    <3> QED
      BY <2>2, <3>1 DEF AddEntry, RegistryType, Has
  <2> QED
    BY <2>1, <2>2 DEF Invoke, Reload, StopAll
<1> QED
  BY <1>1, <1>2, IdsStayOn

LEMMA CancelIds ==
    ASSUME SchedulerInv, IdsOwned, NEW w \in Worker, Cancel(w)
    PROVE  IdsOwned'
<1> DEFINE x == [worker[w] EXCEPT !.cancelled = TRUE]
<1>1. /\ UNCHANGED <<registry, docker>> /\ Become(w, x)
      /\ x.pc = worker[w].pc /\ x.service = worker[w].service /\ x.id = worker[w].id
  BY WorkerFields DEF Cancel, WorkerType
<1> HIDE DEF x
<1> QED
  BY <1>1, IdsStay

-----------------------------------------------------------------------------
(* A step of a worker concerns the service it works on, and no other *)

LEMMA RemovingKeeps ==
    ASSUME NEW s, NEW gone, docker' = Without(docker, gone),
           \A c \in gone : c \in Running(docker) => docker[c].service = s
    PROVE  \A t : t # s => RunningFor(docker', t) = RunningFor(docker, t)
BY DEF Without, RunningFor, Running

LEMMA OthersKept ==
    ASSUME OwnNames, SchedulerInv, IdsOwned, NEW w \in Worker, Step(w),
           NEW t \in Service, t # worker[w].service
    PROVE  /\ registry'.services[t] = registry.services[t]
           /\ RunningFor(docker', t) = RunningFor(docker, t)
<1> DEFINE s == worker[w].service
<1>1. registry \in RegistryType /\ worker[w].id \in ContainerId \cup {NoId}
  BY WorkerFields DEF SchedulerInv, StateOK
<1>2. worker[w].pc \in OpPC => s \in Service
  BY OperationsHold
<1>3. CASE Clean(w)
  <2>1. worker[w].pc \in OpPC
    BY <1>3 DEF Clean, At, OpPC, StartPC
  <2>2. \A c \in Dangling(docker, s) : docker[c].service = s
    BY <1>2, <2>1 DEF OwnNames, Dangling
  <2>3. \E gone \in SUBSET Dangling(docker, s) : docker' = Without(docker, gone)
    BY <1>3 DEF Clean
  <2>4. RunningFor(docker', t) = RunningFor(docker, t)
    <3> HIDE DEF s
    <3> QED
      BY <2>2, <2>3, RemovingKeeps DEF s
  <2> QED
    BY <1>3, <2>4 DEF Clean
<1>4. CASE Boot(w)
  <2>1. CASE UNCHANGED docker
    BY <1>4, <2>1 DEF Boot
  <2>2. ASSUME NEW c \in ContainerId, FreshId(c),
               docker' = WithContainer(docker, c, s, EntryOf(s).port)
        PROVE  RunningFor(docker', t) = RunningFor(docker, t)
    <3>1. /\ docker'[c] = [service |-> s, port |-> EntryOf(s).port]
          /\ docker[c] = NoContainer
          /\ \A d \in ContainerId : d # c => docker'[d] = docker[d]
      BY <2>2 DEF WithContainer, FreshId, SchedulerInv, StateOK, DockerType
    <3>2. docker'[c].service = s
      BY <3>1
    <3> HIDE DEF s
    <3> QED
      BY <3>1, <3>2 DEF RunningFor, Running, s
  <2> QED
    BY <1>4, <2>1, <2>2 DEF Boot
<1>5. CASE Halt(w)
  <2> DEFINE id == EntryOf(s).id
             gone == {id}
  <2>1. worker[w].pc \in OpPC /\ UNCHANGED registry
    BY <1>5 DEF Halt, At, OpPC, StopPC
  <2>2. UNCHANGED docker \/ docker' = Without(docker, gone)
    BY <1>5 DEF Halt, WithStopped
  <2>3. Has(registry, s)
    BY <1>5 DEF Halt, At, SchedulerInv, WorkersSound, EntryPC
  <2>4. \A c \in gone : c \in Running(docker) => docker[c].service = s
    BY <1>2, <2>1, <2>3 DEF IdsOwned, EntryOf
  <2> HIDE DEF s, gone
  <2> QED
    BY <2>1, <2>2, <2>4, RemovingKeeps DEF s
<1>6. CASE StartFailed(w) \/ MarkRunning(w) \/ MarkPending(w) \/ MarkStopped(w)
  <2>1. /\ worker[w].pc \in OpPC /\ UNCHANGED docker
        /\ \E status \in Status : registry' = SetStatus(registry, s, status)
    BY <1>6 DEF StartFailed, MarkRunning, MarkPending, MarkStopped, At, OpPC, StartPC, StopPC,
                Status
  <2> QED
    BY <1>1, <1>2, <2>1, SetStatusEffect
<1>7. CASE MarkHealthy(w)
  <2>1. worker[w].pc \in OpPC /\ UNCHANGED docker
    BY <1>7 DEF MarkHealthy, At, OpPC, StartPC
  <2>2. registry'.services[t] = registry.services[t]
    BY <1>1, <1>2, <1>7, <2>1, SetHealthEffect DEF MarkHealthy
  <2> QED
    BY <2>1, <2>2
<1>8. CASE RecordID(w)
  <2>1. worker[w].pc \in OpPC /\ UNCHANGED docker
    BY <1>8 DEF RecordID, At, OpPC, StartPC
  <2> QED
    BY <1>1, <1>2, <1>8, <2>1, SetContainerIDEffect DEF RecordID
<1>9. CASE UNCHANGED <<registry, docker>>
  BY <1>9
<1> QED
  BY <1>3, <1>4, <1>5, <1>6, <1>7, <1>8, <1>9
  DEF Step, Check, Probe, Send, Start, Wait, Stop, StopNext

\* What w does next is part of the same operation, or of none, and on the
\* services it worked on before.
LEMMA StepGoes ==
    ASSUME SchedulerInv, NEW w \in Worker, Step(w),
           worker[w].pc = "next" => worker[w].task = "stopall"
    PROVE  \E x : /\ Become(w, x)
                  /\ x.pc \in OpPC => x.service = worker[w].service
                  /\ \A t \in Service : HoldsIn(x, t) => Holds(w, t)
<1>1. CASE StopNext(w)
  <2>1. worker[w].pc = "next" /\ worker[w].task = "stopall"
    BY <1>1 DEF StopNext, At
  <2>2. CASE Finish(w)
    BY <2>2, FinishHolds
  <2>3. ASSUME NEW s, NEW pc \in {"stop", "next"},
               Become(w, [worker[w] EXCEPT !.rest = worker[w].rest \ {s},
                                           !.service = s, !.pc = pc])
        PROVE  \E x : /\ Become(w, x) /\ x.pc \notin OpPC
                      /\ \A t \in Service : HoldsIn(x, t) => Holds(w, t)
    <3> DEFINE x == [worker[w] EXCEPT !.rest = worker[w].rest \ {s}, !.service = s, !.pc = pc]
    <3>1. Become(w, x) /\ x.pc = pc
      BY <2>3, WorkerFields DEF WorkerType
    <3> HIDE DEF x
    <3> QED
      BY <2>1, <3>1, OperationsAreNot DEF Holds
  <2> QED
    BY <1>1, <2>2, <2>3 DEF StopNext
<1>2. CASE Boot(w)
  <2>1. worker[w].pc = "boot"
    BY <1>2 DEF Boot, At
  <2>2. ASSUME NEW c, Become(w, [worker[w] EXCEPT !.pc = "wait", !.id = c])
        PROVE  \E x : /\ Become(w, x) /\ x.service = worker[w].service
                      /\ \A t \in Service : HoldsIn(x, t) => Holds(w, t)
    <3> DEFINE x == [worker[w] EXCEPT !.pc = "wait", !.id = c]
    <3>1. Become(w, x) /\ x.service = worker[w].service /\ x.task = worker[w].task
      BY <2>2, WorkerFields DEF WorkerType
    <3> HIDE DEF x
    <3> QED
      BY <2>1, <3>1 DEF HoldsIn, Holds, FreePC
  <2> QED
    BY <1>2, <2>1, <2>2, GotoHolds DEF Boot, FreePC
<1>3. ASSUME \/ Finish(w)
             \/ \E outcome : StartReturns(w, outcome)
             \/ worker[w].pc \notin FreePC /\ \E outcome : StopReturns(w, outcome)
             \/ \E pc : Goto(w, pc) /\ (worker[w].pc \notin FreePC \/ pc \in FreePC)
      PROVE  \E x : /\ Become(w, x)
                    /\ x.pc \in OpPC => x.service = worker[w].service
                    /\ \A t \in Service : HoldsIn(x, t) => Holds(w, t)
  BY <1>3, FinishHolds, StartReturnsHolds, StopReturnsHolds, GotoHolds
<1>4. CASE Check(w) \/ Probe(w) \/ Send(w)
  <2>1. \/ Finish(w)
        \/ \E pc : Goto(w, pc) /\ (worker[w].pc \notin FreePC \/ pc \in FreePC)
    BY <1>4 DEF Check, Probe, Send, At, FreePC
  <2> QED
    BY <1>3, <2>1
<1>5. CASE Start(w)
  <2>1. worker[w].pc \notin FreePC
    BY <1>5 DEF Start, At, FreePC
  <2>2. (\E outcome : StartReturns(w, outcome)) \/ \E pc : Goto(w, pc)
    BY <1>5 DEF Start
  <2> QED
    BY <1>3, <2>1, <2>2
<1>6. CASE Clean(w) \/ Wait(w) \/ StartFailed(w) \/ MarkRunning(w) \/ MarkHealthy(w) \/ RecordID(w)
  <2>1. worker[w].pc \notin FreePC
    BY <1>6 DEF Clean, Wait, StartFailed, MarkRunning, MarkHealthy, RecordID, At, FreePC
  <2>2. (\E outcome : StartReturns(w, outcome)) \/ \E pc : Goto(w, pc)
    BY <1>6 DEF Clean, Wait, StartFailed, MarkRunning, MarkHealthy, RecordID
  <2> QED
    BY <1>3, <2>1, <2>2
<1>7. CASE Stop(w) \/ MarkPending(w) \/ Halt(w) \/ MarkStopped(w)
  <2>1. worker[w].pc \notin FreePC
    BY <1>7 DEF Stop, MarkPending, Halt, MarkStopped, At, FreePC
  <2>2. (\E outcome : StopReturns(w, outcome)) \/ \E pc : Goto(w, pc)
    BY <1>7 DEF Stop, MarkPending, Halt, MarkStopped
  <2> QED
    BY <1>3, <2>1, <2>2
<1> QED
  BY <1>1, <1>2, <1>4, <1>5, <1>6, <1>7 DEF Step

LEMMA StepStays ==
    ASSUME SchedulerInv, NEW w \in Worker, Step(w),
           worker[w].pc = "next" => worker[w].task = "stopall"
    PROVE  /\ \A v \in Worker : v # w => worker'[v] = worker[v]
           /\ worker'[w].pc \in OpPC => worker'[w].service = worker[w].service
           /\ \A v \in Worker, t \in Service : Holds(v, t)' => Holds(v, t)
BY StepGoes, Became

\* Outside of the operations a step changes only what w does next.
LEMMA StepOutside ==
    ASSUME NEW w \in Worker, Step(w), worker[w].pc \notin OpPC
    PROVE  UNCHANGED <<registry, docker>>
BY DEF Step, Check, Probe, Send, Start, Clean, Boot, Wait, StartFailed, MarkRunning,
       MarkHealthy, RecordID, Stop, MarkPending, Halt, MarkStopped, StopNext, At, OpPC,
       StartPC, StopPC

-----------------------------------------------------------------------------
(* The steps that keep RecordInv *)

\* A step of w that changes nothing but what w does next, outside of the
\* operations, or inside without moving.
LEMMA QuietKnows ==
    ASSUME RecordInv, SchedulerInv', IdsOwned', UNCHANGED <<registry, docker, overlapped>>,
           NEW w \in Worker, NEW x, Become(w, x),
           \A t \in Service : HoldsIn(x, t) => Holds(w, t),
           x.pc = "next" => x.task = "stopall",
           \/ worker[w].pc \notin OpPC /\ x.pc \notin OpPC
           \/ x.pc = worker[w].pc /\ x.service = worker[w].service /\ x.id = worker[w].id
    PROVE  RecordInv'
<1>1. SchedulerInv
  BY DEF RecordInv
<1>2. \A v \in Worker, t \in Service : Holds(v, t)' => Holds(v, t)
  BY <1>1, Became
<1>3. \A t \in Service \ overlapped' : \A v, u \in Worker : Holds(v, t)' /\ Holds(u, t)' => v = u
  BY <1>2 DEF RecordInv
<1>4. \A v \in Worker : worker'[v].pc = "next" => worker'[v].task = "stopall"
  BY <1>1, Became DEF RecordInv
<1>5. \A v \in Worker : worker'[v].service \notin overlapped'
                           => Knows(worker'[v], registry', docker')
  <2>1. x.service \notin overlapped => Knows(x, registry, docker)
    BY DEF RecordInv, Knows
  <2> QED
    BY <1>1, <2>1, Became DEF RecordInv
<1>6. ASSUME NEW t \in Service \ overlapped', Settled(t)'
      PROVE  EntryTrue(registry', docker', t)
  <2>1. Changing(w, t) => Changing(w, t)'
    BY <1>1, Became DEF Changing, OpPC
  <2>2. Settled(t)
    BY <1>1, <1>6, <2>1, Became DEF Settled
  <2> QED
    BY <2>2 DEF RecordInv
<1> QED
  BY <1>3, <1>4, <1>5, <1>6 DEF RecordInv

\* A step of w in its work on s, which concerns s only.
LEMMA OwnKnows ==
    ASSUME OwnNames, RecordInv, SchedulerInv', IdsOwned', NEW w \in Worker, Step(w),
           NEW s \in Service, s = worker[w].service, Holds(w, s),
           NEW x, Become(w, x),
           \A t \in Service : HoldsIn(x, t) => Holds(w, t),
           x.pc = "next" => x.task = "stopall",
           x.pc \in OpPC => x.service = s,
           s \notin overlapped => Knows(x, registry', docker'),
           s \notin overlapped /\ x.pc \notin OpPC => EntryTrue(registry', docker', s)
    PROVE  RecordInv'
<1>1. SchedulerInv /\ IdsOwned /\ UNCHANGED overlapped
  BY DEF RecordInv, Step
<1>2. \A v \in Worker, t \in Service : Holds(v, t)' => Holds(v, t)
  BY <1>1, Became
<1>3. \A t \in Service \ overlapped' : \A v, u \in Worker : Holds(v, t)' /\ Holds(u, t)' => v = u
  BY <1>1, <1>2 DEF RecordInv
<1>4. \A v \in Worker : worker'[v].pc = "next" => worker'[v].task = "stopall"
  BY <1>1, Became DEF RecordInv
<1>5. \A t \in Service : t # s =>
         /\ registry'.services[t] = registry.services[t]
         /\ RunningFor(docker', t) = RunningFor(docker, t)
  BY <1>1, OthersKept
<1>6. ASSUME NEW v \in Worker, worker'[v].service \notin overlapped'
      PROVE  Knows(worker'[v], registry', docker')
  <2>1. CASE v = w /\ x.pc \in OpPC
    BY <1>1, <1>6, <2>1, Became
  <2>2. CASE v = w /\ x.pc \notin OpPC
    BY <1>1, <2>2, Became DEF Knows
  <2>3. CASE v # w /\ worker[v].pc \in OpPC
    <3>1. worker'[v] = worker[v] /\ worker[v].service \notin overlapped
      BY <1>1, <1>6, <2>3, Became
    <3>2. worker[v].service \in Service /\ Holds(v, worker[v].service)
      BY <1>1, <2>3, OperationsHold
    <3>3. worker[v].service # s
      BY <2>3, <3>1, <3>2 DEF RecordInv
    <3>4. Knows(worker[v], registry, docker)
      BY <3>1 DEF RecordInv
    <3> QED
      BY <1>5, <3>1, <3>2, <3>3, <3>4 DEF Knows, Has
  <2>4. CASE v # w /\ worker[v].pc \notin OpPC
    BY <1>1, <2>4, Became DEF Knows
  <2> QED
    BY <2>1, <2>2, <2>3, <2>4
<1>7. ASSUME NEW t \in Service \ overlapped', Settled(t)'
      PROVE  EntryTrue(registry', docker', t)
  <2>1. CASE t = s
    <3>1. x.pc \notin OpPC
      BY <1>1, <1>7, <2>1, Became DEF Settled, Changing, OpPC
    <3> QED
      BY <1>1, <2>1, <3>1
  <2>2. CASE t # s
    <3>1. ~Changing(w, t)
      BY <2>2 DEF Changing, OpPC
    <3>2. Settled(t)
      BY <1>1, <1>7, <3>1, Became DEF Settled
    <3> QED
      BY <1>1, <1>5, <2>2, <3>2 DEF RecordInv, EntryTrue, Has
  <2> QED
    BY <2>1, <2>2
<1> QED
  BY <1>3, <1>4, <1>6, <1>7 DEF RecordInv

\* A worker begins a task, and may add the entry of a service.  What somebody
\* else works on counts as overlapped from now on.
LEMMA BeginKnows ==
    ASSUME RecordInv, SchedulerInv', IdsOwned', UNCHANGED docker, NEW w \in Worker, ~Busy(w),
           overlapped \subseteq overlapped',
           NEW x, Become(w, x), x.pc \notin OpPC,
           x.pc = "next" => x.task = "stopall",
           \A t \in Service \ overlapped' :
              HoldsIn(x, t) => \A v \in Worker : v # w => ~Holds(v, t),
           \A t \in Service \ overlapped' :
              \/ registry'.services[t] = registry.services[t]
              \/ /\ registry'.services[t].status = "pending"
                 /\ \A v \in Worker : v # w => ~Holds(v, t)
    PROVE  RecordInv'
<1>1. SchedulerInv /\ \A t \in Service : ~Holds(w, t)
  BY DEF RecordInv, Holds, Busy, At
<1>2. \A t \in Service \ overlapped' : \A v, u \in Worker : Holds(v, t)' /\ Holds(u, t)' => v = u
  BY <1>1, Became DEF RecordInv
<1>3. \A v \in Worker : worker'[v].pc = "next" => worker'[v].task = "stopall"
  BY <1>1, Became DEF RecordInv
<1>4. ASSUME NEW v \in Worker, worker'[v].service \notin overlapped'
      PROVE  Knows(worker'[v], registry', docker')
  <2>1. CASE v = w
    BY <1>1, <2>1, Became DEF Knows
  <2>2. CASE v # w /\ worker[v].pc \in OpPC
    <3>1. worker'[v] = worker[v] /\ worker[v].service \notin overlapped
      BY <1>1, <1>4, <2>2, Became
    <3>2. worker[v].service \in Service /\ Holds(v, worker[v].service)
      BY <1>1, <2>2, OperationsHold
    <3>3. registry'.services[worker[v].service] = registry.services[worker[v].service]
      BY <1>4, <2>2, <3>1, <3>2
    <3>4. Knows(worker[v], registry, docker)
      BY <3>1 DEF RecordInv
    <3> QED
      BY <3>1, <3>3, <3>4 DEF Knows, Has
  <2>3. CASE v # w /\ worker[v].pc \notin OpPC
    BY <1>1, <2>3, Became DEF Knows
  <2> QED
    BY <2>1, <2>2, <2>3
<1>5. ASSUME NEW t \in Service \ overlapped', Settled(t)'
      PROVE  EntryTrue(registry', docker', t)
  <2>1. CASE registry'.services[t] = registry.services[t]
    <3>1. ~Changing(w, t)
      BY OperationsAreNot DEF Changing, OpPC, Busy, At
    <3>2. Settled(t)
      BY <1>1, <1>5, <3>1, Became DEF Settled
    <3> QED
      BY <2>1, <3>2 DEF RecordInv, EntryTrue, Has
  <2>2. CASE registry'.services[t].status = "pending"
    BY <2>2 DEF EntryTrue
  <2> QED
    BY <2>1, <2>2
<1> QED
  BY <1>2, <1>3, <1>4, <1>5 DEF RecordInv

\* What w finds before it starts or stops s.
LEMMA OwnEntry ==
    ASSUME RecordInv, NEW w \in Worker, NEW s \in Service, s \notin overlapped, Holds(w, s),
           worker[w].pc \notin OpPC
    PROVE  EntryTrue(registry, docker, s)
<1>1. \A v \in Worker : ~Changing(v, s)
  <2> SUFFICES ASSUME NEW v \in Worker, Changing(v, s) PROVE FALSE
    OBVIOUS
  <2>1. Holds(v, s)
    BY OperationsHold DEF RecordInv, Changing, OpPC
  <2>2. v = w
    BY <2>1 DEF RecordInv
  <2> QED
    BY <2>2 DEF Changing, OpPC
<1> QED
  BY <1>1 DEF RecordInv, Settled

\* A worker that moves on inside its operation, and one that leaves it.
LEMMA MovesKnow ==
    ASSUME OwnNames, RecordInv, SchedulerInv', IdsOwned', NEW w \in Worker, Step(w),
           worker[w].pc \in OpPC,
           NEW pc \in OpPC, Goto(w, pc),
           NEW P, P = worker[w],
           P.service \notin overlapped =>
              \A x : x.pc = pc /\ x.service = P.service /\ x.id = P.id
                       => Knows(x, registry', docker')
    PROVE  RecordInv'
<1>1. /\ SchedulerInv /\ pc # "next" /\ worker[w].pc \notin FreePC
      /\ worker[w].service \in Service /\ Holds(w, worker[w].service)
  BY OperationsHold, OperationsAreNot DEF RecordInv, FreePC
<1>2. PICK x : /\ Become(w, x) /\ x.pc = pc /\ x.service = worker[w].service
               /\ x.id = worker[w].id
               /\ \A t \in Service : HoldsIn(x, t) => Holds(w, t)
  BY <1>1, GotoHolds
<1>3. worker[w].service \notin overlapped => Knows(x, registry', docker')
  BY <1>2
<1> QED
  BY <1>1, <1>2, <1>3, OwnKnows

LEMMA LeavesKnow ==
    ASSUME OwnNames, RecordInv, SchedulerInv', IdsOwned', NEW w \in Worker, Step(w),
           worker[w].pc \in OpPC,
           NEW outcome, StartReturns(w, outcome) \/ StopReturns(w, outcome),
           worker[w].service \notin overlapped =>
              EntryTrue(registry', docker', worker[w].service)
    PROVE  RecordInv'
<1>1. /\ SchedulerInv /\ worker[w].pc \notin FreePC
      /\ worker[w].service \in Service /\ Holds(w, worker[w].service)
  BY OperationsHold, OperationsAreNot DEF RecordInv, FreePC
<1>2. PICK x : /\ Become(w, x) /\ x.pc \notin OpPC
               /\ x.pc = "next" => x.task = "stopall"
               /\ \A t \in Service : HoldsIn(x, t) => Holds(w, t)
  BY <1>1, StartReturnsHolds, StopReturnsHolds
<1>3. Knows(x, registry', docker')
  BY <1>2 DEF Knows
<1> QED
  BY <1>1, <1>2, <1>3, OwnKnows

-----------------------------------------------------------------------------
(* The steps of a worker *)

LEMMA CallsKnow ==
    ASSUME RecordInv, SchedulerInv', IdsOwned', NEW w \in Worker, Step(w),
           Check(w) \/ Probe(w) \/ Send(w)
    PROVE  RecordInv'
<1>1. /\ UNCHANGED <<registry, docker, overlapped>> /\ worker[w].pc \notin OpPC
      /\ SchedulerInv
  BY OperationsAreNot DEF Check, Probe, Send, Step, At, RecordInv
<1>2. CASE Finish(w)
  BY <1>1, <1>2, FinishHolds, QuietKnows
<1>3. ASSUME NEW pc \in {"probe", "start", "send"}, Goto(w, pc),
             worker[w].pc \notin FreePC \/ pc \in FreePC
      PROVE  RecordInv'
  <2>1. pc \notin OpPC /\ pc # "next"
    BY OperationsAreNot
  <2> QED
    BY <1>1, <1>3, <2>1, GotoHolds, QuietKnows
<1>4. \/ Finish(w)
      \/ \E pc \in {"probe", "start", "send"} :
            Goto(w, pc) /\ (worker[w].pc \notin FreePC \/ pc \in FreePC)
  BY DEF Check, Probe, Send, At, FreePC
<1> QED
  BY <1>2, <1>3, <1>4

LEMMA StartKnows ==
    ASSUME OwnNames, RecordInv, SchedulerInv', IdsOwned', NEW w \in Worker, Step(w), Start(w)
    PROVE  RecordInv'
<1> DEFINE s == worker[w].service
<1>1. /\ UNCHANGED <<registry, docker, overlapped>> /\ worker[w].pc \notin OpPC
      /\ worker[w].pc = "start" /\ SchedulerInv
  BY OperationsAreNot DEF Start, Step, At, RecordInv
<1>2. s \in Service /\ Holds(w, s)
  BY <1>1, Holding DEF NoServicePC, FreePC
<1>3. CASE \E outcome : StartReturns(w, outcome)
  BY <1>1, <1>3, StartReturnsHolds, QuietKnows
<1>4. CASE Has(registry, s) /\ Goto(w, "clean")
  <2>1. PICK x : /\ Become(w, x) /\ x.pc = "clean" /\ x.service = s
                 /\ \A t \in Service : HoldsIn(x, t) => Holds(w, t)
    BY <1>1, <1>4, GotoHolds DEF FreePC
  <2>2. Knows(x, registry', docker') /\ x.pc \in OpPC
    BY <1>1, <1>4, <2>1 DEF Knows, OpPC, StartPC, IdPC
  <2> QED
    BY <1>1, <1>2, <2>1, <2>2, OwnKnows
<1> QED
  BY <1>3, <1>4 DEF Start

LEMMA CleanKnows ==
    ASSUME OwnNames, RecordInv, SchedulerInv', IdsOwned', NEW w \in Worker, Step(w), Clean(w)
    PROVE  RecordInv'
<1> DEFINE s == worker[w].service
<1>1. UNCHANGED registry /\ worker[w].pc = "clean" /\ worker[w].pc \in OpPC
  BY DEF Clean, At, OpPC, StartPC
<1>2. s \in Service /\ (s \notin overlapped => Has(registry, s))
  BY <1>1, OperationsHold DEF RecordInv, Knows
<1>3. Dangling(docker, s) = RunningFor(docker, s)
  BY <1>2 DEF OwnNames, Dangling, RunningFor
<1>4. ASSUME NEW gone \in SUBSET RunningFor(docker, s), docker' = Without(docker, gone),
             NEW pc \in {"boot", "start_failed"}, Goto(w, pc),
             pc = "boot" => gone = RunningFor(docker, s)
      PROVE  RecordInv'
  <2>1. pc = "boot" => RunningFor(docker', s) = {}
    BY <1>4 DEF Without, RunningFor, Running
  <2>2. s \notin overlapped => \A x : x.pc = pc /\ x.service = s /\ x.id = worker[w].id
                  => Knows(x, registry', docker')
    BY <1>1, <1>2, <2>1 DEF Knows, IdPC
  <2>3. pc \in OpPC
    BY DEF OpPC, StartPC
  <2> QED
    BY <1>1, <1>4, <2>2, <2>3, MovesKnow
<1> QED
  BY <1>3, <1>4 DEF Clean

LEMMA BootKnows ==
    ASSUME OwnNames, RecordInv, SchedulerInv', IdsOwned', NEW w \in Worker, Step(w), Boot(w)
    PROVE  RecordInv'
<1> DEFINE s == worker[w].service
           port == EntryOf(s).port
           waits(c) == [worker[w] EXCEPT !.pc = "wait", !.id = c]
<1>1. /\ UNCHANGED registry /\ worker[w].pc = "boot" /\ worker[w].pc \in OpPC /\ SchedulerInv
  BY DEF Boot, At, OpPC, StartPC, RecordInv
<1>2. s \in Service /\ Holds(w, s)
  BY <1>1, OperationsHold
<1>3. s \notin overlapped => Has(registry, s) /\ RunningFor(docker, s) = {}
  BY <1>1 DEF RecordInv, Knows
<1>4. "start_failed" \in OpPC /\ "wait" \in OpPC
  BY DEF OpPC, StartPC
<1>5. ASSUME Goto(w, "start_failed")
      PROVE  RecordInv'
  <2>1. s \notin overlapped =>
          \A x : x.pc = "start_failed" /\ x.service = s => Knows(x, registry', docker')
    BY <1>1, <1>3 DEF Knows, IdPC
  <2> QED
    BY <1>1, <1>4, <1>5, <2>1, MovesKnow
<1>6. ASSUME NEW c \in ContainerId, FreshId(c), docker' = WithContainer(docker, c, s, port),
             s \notin overlapped
      PROVE  RunningFor(docker', s) = {c}
  <2>1. /\ docker'[c] = [service |-> s, port |-> port] /\ docker[c] = NoContainer
        /\ \A d \in ContainerId : d # c => docker'[d] = docker[d]
    BY <1>6 DEF WithContainer, FreshId, RecordInv, SchedulerInv, StateOK, DockerType
  <2>2. docker'[c] # NoContainer
    <3>1. port \in Int
      BY <1>2, <1>3, <1>6 DEF RecordInv, SchedulerInv, StateOK, RegistryType, Entry, Has, EntryOf
    <3> QED
      BY <1>2, <2>1, <3>1 DEF Container
  <2>3. docker'[c].service = s
    BY <2>1
  <2> HIDE DEF s, port
  <2> QED
    BY <1>3, <1>6, <2>1, <2>2, <2>3 DEF RunningFor, Running
<1>7. ASSUME NEW c \in ContainerId, FreshId(c), docker' = WithContainer(docker, c, s, port),
             Become(w, waits(c))
      PROVE  RecordInv'
  <2> DEFINE x == waits(c)
  <2>1. /\ x.pc = "wait" /\ x.service = s /\ x.id = c /\ x.task = worker[w].task
    BY WorkerFields DEF WorkerType, RecordInv
  <2>2. Become(w, x)
    BY <1>7
  <2> HIDE DEF waits, x
  <2>3. \A t \in Service : HoldsIn(x, t) => Holds(w, t)
    BY <1>1, <2>1 DEF HoldsIn, Holds, FreePC
  <2>4. s \notin overlapped => Knows(x, registry', docker')
    BY <1>1, <1>3, <1>6, <1>7, <2>1 DEF Knows, IdPC
  <2> QED
    BY <1>1, <1>2, <1>4, <2>1, <2>2, <2>3, <2>4, OwnKnows
<1>8. \/ \E c \in ContainerId :
           /\ FreshId(c)
           /\ docker' = WithContainer(docker, c, s, port)
           /\ Become(w, waits(c)) \/ Goto(w, "start_failed")
      \/ Goto(w, "start_failed")
  BY DEF Boot
<1> QED
  BY <1>5, <1>7, <1>8

LEMMA WaitKnows ==
    ASSUME OwnNames, RecordInv, SchedulerInv', IdsOwned', NEW w \in Worker, Step(w), Wait(w)
    PROVE  RecordInv'
<1>1. /\ UNCHANGED <<registry, docker>> /\ worker[w].pc = "wait" /\ worker[w].pc \in OpPC
      /\ worker[w].service \notin overlapped => Knows(worker[w], registry, docker)
  BY DEF Wait, At, OpPC, StartPC, RecordInv
<1>2. ASSUME NEW pc \in {"mark_running", "start_failed"}, Goto(w, pc)
      PROVE  RecordInv'
  <2>1. worker[w].service \notin overlapped =>
           \A x : x.pc = pc /\ x.service = worker[w].service /\ x.id = worker[w].id
                    => Knows(x, registry', docker')
    BY <1>1 DEF Knows, IdPC
  <2>2. pc \in OpPC
    BY DEF OpPC, StartPC
  <2> QED
    BY <1>1, <1>2, <2>1, <2>2, MovesKnow
<1> QED
  BY <1>2 DEF Wait

\* What a write to one entry says afterwards.
LEMMA SetsStatus ==
    ASSUME RecordInv, NEW s \in Service, Has(registry, s), NEW status \in Status,
           registry' = SetStatus(registry, s, status)
    PROVE  /\ Has(registry', s)
           /\ registry'.services[s].status = status
           /\ registry'.services[s].id = registry.services[s].id
BY SetStatusEffect DEF RecordInv, SchedulerInv, StateOK, SamePorts

LEMMA StartFailedKnows ==
    ASSUME OwnNames, RecordInv, SchedulerInv', IdsOwned', NEW w \in Worker, Step(w),
           StartFailed(w)
    PROVE  RecordInv'
<1> DEFINE s == worker[w].service
<1>1. /\ UNCHANGED docker /\ worker[w].pc \in OpPC /\ StartReturns(w, "error")
      /\ registry' = SetStatus(registry, s, "failed") /\ "failed" \in Status
  BY DEF StartFailed, At, OpPC, StartPC, Status
<1>2. s \in Service /\ (s \notin overlapped => Has(registry, s))
  BY <1>1, OperationsHold DEF RecordInv, Knows
<1>3. s \notin overlapped => EntryTrue(registry', docker', s)
  BY <1>1, <1>2, SetsStatus DEF EntryTrue
<1> QED
  BY <1>1, <1>3, LeavesKnow

LEMMA MarkRunningKnows ==
    ASSUME OwnNames, RecordInv, SchedulerInv', IdsOwned', NEW w \in Worker, Step(w),
           MarkRunning(w)
    PROVE  RecordInv'
<1> DEFINE s == worker[w].service
<1>1. /\ UNCHANGED docker /\ worker[w].pc \in OpPC /\ worker[w].pc = "mark_running"
      /\ Goto(w, "mark_healthy") /\ "mark_healthy" \in OpPC
      /\ registry' = SetStatus(registry, s, "running") /\ "running" \in Status
  BY DEF MarkRunning, At, OpPC, StartPC, Status
<1>2. /\ s \in Service
      /\ s \notin overlapped => Has(registry, s) /\ RunningFor(docker, s) = {worker[w].id}
  BY <1>1, OperationsHold DEF RecordInv, Knows, IdPC
<1>3. s \notin overlapped => Has(registry', s) /\ registry'.services[s].status = "running"
  BY <1>1, <1>2, SetsStatus
<1>4. s \notin overlapped => \A x : x.pc = "mark_healthy" /\ x.service = s /\ x.id = worker[w].id
                => Knows(x, registry', docker')
  BY <1>1, <1>2, <1>3 DEF Knows, IdPC
<1> QED
  BY <1>1, <1>4, MovesKnow

LEMMA MarkHealthyKnows ==
    ASSUME OwnNames, RecordInv, SchedulerInv', IdsOwned', NEW w \in Worker, Step(w),
           MarkHealthy(w)
    PROVE  RecordInv'
<1> DEFINE s == worker[w].service
<1>1. /\ UNCHANGED docker /\ worker[w].pc \in OpPC /\ worker[w].pc = "mark_healthy"
      /\ Goto(w, "record_id") /\ "record_id" \in OpPC
      /\ registry' = SetHealth(registry, s, TRUE)
  BY DEF MarkHealthy, At, OpPC, StartPC
<1>2. /\ s \in Service
      /\ s \notin overlapped => /\ Has(registry, s) /\ RunningFor(docker, s) = {worker[w].id}
                                /\ registry.services[s].status = "running"
  BY <1>1, OperationsHold DEF RecordInv, Knows, IdPC
<1>3. s \notin overlapped => Has(registry', s) /\ registry'.services[s].status = "running"
  <2>1. registry \in RegistryType
    BY DEF RecordInv, SchedulerInv, StateOK
  <2> HIDE DEF s
  <2>2. /\ SamePorts(registry, registry')
        /\ Has(registry, s) => registry'.services[s].status = registry.services[s].status
    BY <1>1, <1>2, <2>1, SetHealthEffect
  <2> QED
    BY <1>2, <2>2 DEF SamePorts
<1>4. s \notin overlapped => \A x : x.pc = "record_id" /\ x.service = s /\ x.id = worker[w].id
                => Knows(x, registry', docker')
  BY <1>1, <1>2, <1>3 DEF Knows, IdPC
<1>5. /\ worker[w].pc \in OpPC /\ Goto(w, "record_id") /\ "record_id" \in OpPC
  BY <1>1
<1> QED
  BY <1>4, <1>5, MovesKnow

LEMMA RecordIDKnows ==
    ASSUME OwnNames, RecordInv, SchedulerInv', IdsOwned', NEW w \in Worker, Step(w),
           RecordID(w)
    PROVE  RecordInv'
<1> DEFINE s == worker[w].service
<1>1. /\ UNCHANGED docker /\ worker[w].pc \in OpPC /\ worker[w].pc = "record_id"
      /\ \E outcome : StartReturns(w, outcome)
      /\ registry' = SetContainerID(registry, s, worker[w].id)
  BY DEF RecordID, At, OpPC, StartPC
<1>2. /\ s \in Service
      /\ s \notin overlapped => /\ Has(registry, s) /\ RunningFor(docker, s) = {worker[w].id}
                                /\ registry.services[s].status = "running"
  BY <1>1, OperationsHold DEF RecordInv, Knows, IdPC
<1>3. s \notin overlapped => /\ Has(registry', s) /\ registry'.services[s].status = "running"
                             /\ registry'.services[s].id = worker[w].id
  BY <1>1, <1>2, WorkerFields, SetContainerIDEffect
  DEF RecordInv, SchedulerInv, StateOK, SamePorts
<1>4. s \notin overlapped => EntryTrue(registry', docker', s)
  BY <1>1, <1>2, <1>3 DEF EntryTrue
<1> QED
  BY <1>1, <1>4, LeavesKnow

LEMMA StopKnows ==
    ASSUME OwnNames, RecordInv, SchedulerInv', IdsOwned', NEW w \in Worker, Step(w), Stop(w)
    PROVE  RecordInv'
<1> DEFINE s == worker[w].service
<1>1. /\ UNCHANGED <<registry, docker, overlapped>> /\ worker[w].pc \notin OpPC
      /\ worker[w].pc = "stop" /\ SchedulerInv
  BY OperationsAreNot DEF Stop, Step, At, RecordInv
<1>2. s \in Service /\ Holds(w, s) /\ worker[w].pc \notin FreePC
  BY <1>1, Holding DEF NoServicePC, FreePC
<1>3. CASE \E outcome : StopReturns(w, outcome)
  BY <1>1, <1>2, <1>3, StopReturnsHolds, QuietKnows
<1>4. CASE Has(registry, s) /\ EntryOf(s).status = "running" /\ Goto(w, "mark_pending")
  <2>1. "mark_pending" \in OpPC /\ "mark_pending" # "next"
    BY DEF OpPC, StopPC
  <2>2. PICK x : /\ Become(w, x) /\ x.pc = "mark_pending" /\ x.service = s
                 /\ \A t \in Service : HoldsIn(x, t) => Holds(w, t)
    BY <1>2, <1>1, <1>4, GotoHolds
  <2>3. s \notin overlapped => RunningFor(docker, s) = {registry.services[s].id}
    BY <1>1, <1>2, <1>4, OwnEntry DEF EntryTrue, EntryOf
  <2>4. s \notin overlapped => Knows(x, registry', docker')
    BY <1>1, <1>4, <2>2, <2>3 DEF Knows, IdPC
  <2> QED
    BY <1>1, <1>2, <2>1, <2>2, <2>4, OwnKnows
<1> QED
  BY <1>3, <1>4 DEF Stop

LEMMA MarkPendingKnows ==
    ASSUME OwnNames, RecordInv, SchedulerInv', IdsOwned', NEW w \in Worker, Step(w),
           MarkPending(w)
    PROVE  RecordInv'
<1> DEFINE s == worker[w].service
<1>1. /\ UNCHANGED docker /\ worker[w].pc \in OpPC /\ worker[w].pc = "mark_pending"
      /\ Goto(w, "halt") /\ "halt" \in OpPC
      /\ registry' = SetStatus(registry, s, "pending") /\ "pending" \in Status
  BY DEF MarkPending, At, OpPC, StopPC, Status
<1>2. /\ s \in Service
      /\ s \notin overlapped => /\ Has(registry, s)
                                /\ RunningFor(docker, s) = {registry.services[s].id}
  BY <1>1, OperationsHold DEF RecordInv, Knows
<1>3. s \notin overlapped => /\ Has(registry', s) /\ registry'.services[s].status = "pending"
                             /\ registry'.services[s].id = registry.services[s].id
  BY <1>1, <1>2, SetsStatus
<1>4. s \notin overlapped => \A x : x.pc = "halt" /\ x.service = s /\ x.id = worker[w].id
                => Knows(x, registry', docker')
  BY <1>1, <1>2, <1>3 DEF Knows, IdPC
<1> QED
  BY <1>1, <1>4, MovesKnow

LEMMA HaltKnows ==
    ASSUME OwnNames, RecordInv, SchedulerInv', IdsOwned', NEW w \in Worker, Step(w), Halt(w)
    PROVE  RecordInv'
<1> DEFINE s == worker[w].service
           id == EntryOf(s).id
<1>1. /\ UNCHANGED registry /\ worker[w].pc \in OpPC /\ worker[w].pc = "halt"
      /\ "mark_stopped" \in OpPC
  BY DEF Halt, At, OpPC, StopPC
<1>2. /\ s \in Service
      /\ s \notin overlapped => /\ Has(registry, s) /\ RunningFor(docker, s) = {id}
                                /\ registry.services[s].status = "pending"
  BY <1>1, OperationsHold DEF RecordInv, Knows, EntryOf
<1>3. s \notin overlapped => EntryTrue(registry', docker', s)
  BY <1>1, <1>2 DEF EntryTrue
<1>4. ASSUME docker' = WithStopped(docker, id), s \notin overlapped
      PROVE  RunningFor(docker', s) = {}
  <2> HIDE DEF id
  <2> QED
    BY <1>2, <1>4 DEF WithStopped, Without, RunningFor, Running
<1>5. CASE docker' = WithStopped(docker, id) /\ Goto(w, "mark_stopped")
  <2>1. s \notin overlapped =>
           \A x : x.pc = "mark_stopped" /\ x.service = s => Knows(x, registry', docker')
    BY <1>1, <1>2, <1>4, <1>5 DEF Knows, IdPC
  <2> QED
    BY <1>1, <1>5, <2>1, MovesKnow
<1>6. CASE StopReturns(w, "error")
  BY <1>1, <1>3, <1>6, LeavesKnow
<1> QED
  BY <1>5, <1>6 DEF Halt

LEMMA MarkStoppedKnows ==
    ASSUME OwnNames, RecordInv, SchedulerInv', IdsOwned', NEW w \in Worker, Step(w),
           MarkStopped(w)
    PROVE  RecordInv'
<1> DEFINE s == worker[w].service
<1>1. /\ UNCHANGED docker /\ worker[w].pc \in OpPC /\ worker[w].pc = "mark_stopped"
      /\ StopReturns(w, "ok")
      /\ registry' = SetStatus(registry, s, "stopped") /\ "stopped" \in Status
  BY DEF MarkStopped, At, OpPC, StopPC, Status
<1>2. /\ s \in Service
      /\ s \notin overlapped => Has(registry, s) /\ RunningFor(docker, s) = {}
  BY <1>1, OperationsHold DEF RecordInv, Knows
<1>3. s \notin overlapped => EntryTrue(registry', docker', s)
  BY <1>1, <1>2, SetsStatus DEF EntryTrue
<1> QED
  BY <1>1, <1>3, LeavesKnow

LEMMA StopNextKnows ==
    ASSUME RecordInv, SchedulerInv', IdsOwned', NEW w \in Worker, Step(w), StopNext(w)
    PROVE  RecordInv'
<1>1. /\ UNCHANGED <<registry, docker, overlapped>> /\ worker[w].pc \notin OpPC
      /\ worker[w].pc = "next" /\ worker[w].task = "stopall"
  BY OperationsAreNot DEF StopNext, Step, At, RecordInv
<1>2. CASE Finish(w)
  BY <1>1, <1>2, FinishHolds, QuietKnows
<1>3. ASSUME NEW s \in Service, NEW pc \in {"stop", "next"},
             Become(w, [worker[w] EXCEPT !.rest = worker[w].rest \ {s},
                                         !.service = s, !.pc = pc])
      PROVE  RecordInv'
  <2> DEFINE x == [worker[w] EXCEPT !.rest = worker[w].rest \ {s}, !.service = s, !.pc = pc]
  <2>1. Become(w, x) /\ x.pc = pc /\ x.task = "stopall"
    BY <1>1, <1>3, WorkerFields DEF WorkerType, RecordInv
  <2> HIDE DEF x
  <2>2. \A t \in Service : HoldsIn(x, t) => Holds(w, t)
    BY <1>1 DEF Holds
  <2> QED
    BY <1>1, <2>1, <2>2, OperationsAreNot, QuietKnows
<1>4. worker[w].rest \subseteq Service
  BY WorkerFields DEF RecordInv
<1> QED
  BY <1>2, <1>3, <1>4 DEF StopNext

LEMMA CancelKnows ==
    ASSUME RecordInv, SchedulerInv', NEW w \in Worker, Cancel(w)
    PROVE  RecordInv'
<1> DEFINE x == [worker[w] EXCEPT !.cancelled = TRUE]
<1>1. /\ UNCHANGED <<registry, docker, overlapped>> /\ Become(w, x)
      /\ x.pc = worker[w].pc /\ x.service = worker[w].service /\ x.id = worker[w].id
      /\ x.task = worker[w].task
  BY WorkerFields DEF Cancel, WorkerType, RecordInv
<1> HIDE DEF x
<1>2. \A t \in Service : HoldsIn(x, t) => Holds(w, t)
  BY <1>1 DEF HoldsIn, Holds, FreePC
<1>3. x.pc = "next" => x.task = "stopall"
  BY <1>1 DEF RecordInv
<1>4. IdsOwned'
  BY CancelIds DEF RecordInv
<1> QED
  BY <1>1, <1>2, <1>3, <1>4, QuietKnows

LEMMA StepKnows ==
    ASSUME OwnNames, RecordInv, SchedulerInv', NEW w \in Worker, Step(w)
    PROVE  RecordInv'
<1>1. IdsOwned'
  BY StepIds DEF RecordInv
<1> QED
  BY <1>1, CallsKnow, StartKnows, CleanKnows, BootKnows, WaitKnows, StartFailedKnows,
     MarkRunningKnows, MarkHealthyKnows, RecordIDKnows, StopKnows, MarkPendingKnows,
     HaltKnows, MarkStoppedKnows, StopNextKnows
  DEF Step

-----------------------------------------------------------------------------
(* The beginning of a task *)

LEMMA BeginsKnow ==
    ASSUME RecordInv, SchedulerInv', IdsOwned', UNCHANGED docker,
           NEW w \in Worker, NEW s \in Service, NEW task, task # "stopall",
           TakesOn(w, task, {s}),
           NEW pc \in {"check", "stop"}, Begin(w, task, s, pc) \/ Finish(w),
           \A t \in Service :
              \/ registry'.services[t] = registry.services[t]
              \/ t = s /\ registry'.services[t].status = "pending"
    PROVE  RecordInv'
<1>1. /\ ~Busy(w) /\ overlapped \subseteq overlapped'
      /\ s \notin overlapped' => \A v \in Worker : ~Holds(v, s)
  BY DEF TakesOn
<1>2. PICK x : /\ Become(w, x) /\ x.pc \notin OpPC
               /\ x.pc # "next"
               /\ \A t \in Service : HoldsIn(x, t) => t = s
  <2>1. CASE Begin(w, task, s, pc)
    <3> DEFINE x == [Resting EXCEPT !.task = task, !.service = s, !.pc = pc]
    <3>1. Become(w, x) /\ x.pc = pc /\ x.task = task /\ x.service = s
      BY <2>1 DEF Begin, Resting
    <3> HIDE DEF x
    <3> QED
      BY <3>1, OperationsAreNot DEF HoldsIn
  <2>2. CASE Finish(w)
    BY <2>2, OperationsAreNot DEF Finish, Resting, HoldsIn, FreePC
  <2> QED
    BY <2>1, <2>2
<1>3. /\ \A t \in Service \ overlapped' :
            HoldsIn(x, t) => \A v \in Worker : v # w => ~Holds(v, t)
      /\ \A t \in Service \ overlapped' :
            \/ registry'.services[t] = registry.services[t]
            \/ /\ registry'.services[t].status = "pending"
               /\ \A v \in Worker : v # w => ~Holds(v, t)
  BY <1>1, <1>2
<1> QED
  BY <1>1, <1>2, <1>3, BeginKnows

LEMMA InvokeKnows ==
    ASSUME RecordInv, SchedulerInv', NEW w \in Worker, NEW s \in Service, Invoke(w, s)
    PROVE  RecordInv'
<1>1. /\ TakesOn(w, "invoke", {s}) /\ UNCHANGED docker
      /\ Begin(w, "invoke", s, "check") \/ Finish(w)
      /\ registry' = AddEntry(registry, s) /\ registry \in RegistryType
  BY DEF Invoke, RecordInv, SchedulerInv, StateOK
<1>2. \A t \in Service :
         \/ registry'.services[t] = registry.services[t]
         \/ t = s /\ registry'.services[t].status = "pending"
  BY <1>1, AddEntryEffect
<1>3. IdsOwned'
  BY CallIds DEF RecordInv
<1> QED
  BY <1>1, <1>2, <1>3, BeginsKnow

LEMMA ReloadKnows ==
    ASSUME RecordInv, SchedulerInv', NEW w \in Worker, NEW s \in Service, Reload(w, s)
    PROVE  RecordInv'
<1>1. IdsOwned'
  BY CallIds DEF RecordInv
<1> QED
  BY <1>1, BeginsKnow DEF Reload

LEMMA StopAllKnows ==
    ASSUME RecordInv, SchedulerInv', NEW w \in Worker, StopAll(w)
    PROVE  RecordInv'
<1> DEFINE x == [Resting EXCEPT !.task = "stopall", !.pc = "next",
                                !.rest = {s \in Service : Has(registry, s)}]
<1>1. /\ ~Busy(w) /\ UNCHANGED <<registry, docker>> /\ overlapped \subseteq overlapped'
      /\ \A t \in Service \ overlapped' : \A v \in Worker : ~Holds(v, t)
  BY DEF StopAll, TakesOn
<1>2. Become(w, x) /\ x.pc = "next" /\ x.task = "stopall"
  BY DEF StopAll, Resting
<1>3. IdsOwned'
  BY CallIds DEF RecordInv
<1> HIDE DEF x
<1> QED
  BY <1>1, <1>2, <1>3, OperationsAreNot, BeginKnows

LEMMA RecordsAreRight ==
    ASSUME RecordInv
    PROVE  RunningIsRecorded /\ StoppedHasNone
BY DEF RecordInv, EntryTrue, RunningIsRecorded, StoppedHasNone, EntryOf

\* The invariant of a process that may do anything but lose a container.
LEMMA RecordInit == ASSUME Init PROVE RecordInv
<1>1. SchedulerInv
  BY TheInit
<1>2. \A w \in Worker : worker[w].pc = "idle"
  BY DEF Init, Resting
<1>3. \A s \in Service : ~Has(registry, s)
  BY DEF Init, NewRegistry, Has
<1> QED
  BY <1>1, <1>2, <1>3, OperationsAreNot
  DEF RecordInv, IdsOwned, Owns, Holds, Knows, EntryTrue

LEMMA RecordNext ==
    ASSUME Undisturbed, RecordInv, [Next]_vars
    PROVE  RecordInv'
<1>1. SchedulerInv'
  BY NextInv DEF RecordInv
<1>2. ASSUME NEW w \in Worker, Call(w) \/ Step(w) \/ Cancel(w)
      PROVE  RecordInv'
  BY <1>1, <1>2, InvokeKnows, ReloadKnows, StopAllKnows, StepKnows, CancelKnows DEF Call, Undisturbed
<1>3. \A c \in ContainerId : ~Crash(c)
  BY DEF Undisturbed, Crash
<1>4. CASE UNCHANGED vars
  BY <1>4 DEF vars, RecordInv, SchedulerInv, StateOK, WorkersSound, OneContainerPerService,
     PortsSound, PortsBelowLast, PortsDistinct, IdsOwned, Owns, Holds, Settled, Changing,
     EntryTrue, Knows, EntryOf, Has, Running, RunningFor
<1> QED
  BY <1>2, <1>3, <1>4 DEF Next

=============================================================================
