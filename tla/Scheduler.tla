------------------------------ MODULE Scheduler ------------------------------
(***************************************************************************)
(* The scheduler of one simla process (internal/scheduler): the goroutines *)
(* that are inside Invoke, StartService, StopService or StopAll, the       *)
(* registry they share and the containers they start and stop.             *)
(*                                                                         *)
(* A worker is a goroutine: a gateway request, a trigger's delivery, a     *)
(* workflow branch, a hot-reload timer, or main in its final StopAll.  Its *)
(* program counter stands before the next call that another goroutine can  *)
(* interfere with: each registry method is one step (one lock section),    *)
(* each read of a Service field outside the lock is one, and each call to  *)
(* Docker or to the container's port is one.  Nothing in the code excludes *)
(* two workers from working on the same service, so here nothing does      *)
(* either; a history variable remembers where it happened.                 *)
(*                                                                         *)
(* The unlocked reads of Status race with UpdateStatus.  A torn read of    *)
(* the string cannot produce "running" out of two other values (the only   *)
(* lengths are 6 and 7, and every mixture with "failed" differs from       *)
(* "running"), so that such a read returns the old or the new value.       *)
(***************************************************************************)
EXTENDS Registry, Runtime

CONSTANTS Worker,      \* goroutines that may be active at the same time
          NoService,   \* the service of an idle worker
          Configured,  \* services that .simla.yaml defines
          Tasks,       \* the tasks workers may begin
          Faults       \* the faults that may happen, see below

\* "docker": a call to the daemon fails, or has its effect and reports an
\* error; "save": writing the registry file fails; "slow": a container does
\* not answer in time; "cancel": the caller's context ends early; "crash": a
\* container dies by itself.
ASSUME FaultsAssumption ==
    Faults \subseteq {"docker", "save", "slow", "cancel", "crash"}

\* invoke: Invoke(service).  reload: the watcher's restart(service).
\* stopall: StopAll.  stop: StopService(service).
Task == {"none", "invoke", "reload", "stopall", "stop"}

ASSUME TasksAssumption == Tasks \subseteq Task \ {"none"}

ASSUME ServiceAssumption == Configured \subseteq Service /\ NoService \notin Service

VARIABLES registry,  \* the registry of the process
          docker,    \* the daemon's running containers
          worker,    \* [Worker -> what the goroutine is doing]
          overlapped \* history: services that two workers have worked on at
                     \* the same time

vars == <<registry, docker, worker, overlapped>>

StartPC == {"start", "clean", "boot", "wait", "start_failed", "mark_running",
            "mark_healthy", "record_id"}
StopPC == {"stop", "mark_pending", "halt", "mark_stopped"}
PC == {"idle", "check", "probe", "send", "next"} \cup StartPC \cup StopPC

WorkerType == [pc : PC, task : Task, service : Service \cup {NoService},
               id : ContainerId \cup {NoId},     \* the container it started
               rest : SUBSET Service,            \* StopAll's remaining list
               cancelled : BOOLEAN]              \* its context is done

Resting == [pc |-> "idle", task |-> "none", service |-> NoService, id |-> NoId,
            rest |-> {}, cancelled |-> FALSE]

Init ==
    /\ registry = NewRegistry
    /\ docker = NoneRunning
    /\ worker = [w \in Worker |-> Resting]
    /\ overlapped = {}

-----------------------------------------------------------------------------
(* Helpers *)

At(w, pc) == worker[w].pc = pc
Busy(w) == ~At(w, "idle")
EntryOf(s) == registry.services[s]

Become(w, state) == worker' = [worker EXCEPT ![w] = state]

Begin(w, task, s, pc) ==
    Become(w, [Resting EXCEPT !.task = task, !.service = s, !.pc = pc])

Goto(w, pc) == Become(w, [worker[w] EXCEPT !.pc = pc])

\* The task returns to its caller, with a result or an error.
Finish(w) == Become(w, Resting)

\* Where a worker goes when StartService returns, and when StopService does.
StartReturns(w, outcome) ==
    IF worker[w].task = "invoke" /\ outcome = "ok"
      THEN Become(w, [worker[w] EXCEPT !.pc = "probe", !.id = NoId])
      ELSE Finish(w)

StopReturns(w, outcome) ==
    CASE worker[w].task = "stopall"                   -> Goto(w, "next")
      [] worker[w].task = "reload" /\ outcome = "ok"  -> Goto(w, "start")
      [] OTHER                                        -> Finish(w)

\* How a call that uses the worker's context may end: it succeeds, it fails,
\* or the daemon does it and the caller sees an error all the same.
CallEnds(w) ==
    IF worker[w].cancelled THEN {"failed", "lost"}
    ELSE {"done"} \cup IF "docker" \in Faults THEN {"failed", "lost"} ELSE {}

\* An id no running container, entry or worker knows: a new container's.
FreshId(c) ==
    /\ docker[c] = NoContainer
    /\ \A s \in Service : Has(registry, s) => EntryOf(s).id # c
    /\ \A w \in Worker : worker[w].id # c

\* Which services a worker is starting or stopping, or about to.  An
\* invocation that only sends its request is not.
Holds(w, s) ==
    /\ worker[w].pc \notin {"idle", "probe", "send"}
    /\ worker[w].task = "stopall" \/ worker[w].service = s

\* A goroutine begins a task, whatever the others are doing.
TakesOn(w, task, services) ==
    /\ task \in Tasks
    /\ ~Busy(w)
    /\ overlapped' = overlapped \cup {s \in services : \E v \in Worker : Holds(v, s)}

-----------------------------------------------------------------------------
(* Invoke *)

\* Invoke starts with AddService.  A new entry stays in memory when its Save
\* fails, and the caller gets the error.
Invoke(w, s) ==
    /\ TakesOn(w, "invoke", {s})
    /\ registry' = AddEntry(registry, s)
    /\ \/ Begin(w, "invoke", s, "check")
       \/ /\ ~Has(registry, s)
          /\ "save" \in Faults
          /\ Finish(w)
    /\ UNCHANGED docker

\* `service.Status != StatusRunning || !service.Healthy`, read outside the
\* lock through the pointer AddService returned.
Check(w) ==
    /\ At(w, "check")
    /\ LET e == EntryOf(worker[w].service)
       IN  IF e.status = "running" /\ e.healthy THEN Goto(w, "probe")
                                                ELSE Goto(w, "start")
    /\ UNCHANGED <<registry, docker>>

\* A GET or POST to the service's port: whatever container holds it answers.
PortResponds(w) ==
    /\ ~worker[w].cancelled
    /\ Answers(docker, EntryOf(worker[w].service).port)

PortFails(w) ==
    \/ worker[w].cancelled
    \/ ~Answers(docker, EntryOf(worker[w].service).port)
    \/ "slow" \in Faults

\* The health check before the request: its failure is the caller's error,
\* and nothing is written to the registry.
Probe(w) ==
    /\ At(w, "probe")
    /\ \/ PortResponds(w) /\ Goto(w, "send")
       \/ PortFails(w) /\ Finish(w)
    /\ UNCHANGED <<registry, docker>>

\* Router.SendRequest.
Send(w) ==
    /\ At(w, "send")
    /\ \/ PortResponds(w) /\ Finish(w)
       \/ PortFails(w) /\ Finish(w)
    /\ UNCHANGED <<registry, docker>>

-----------------------------------------------------------------------------
(* StartService *)

\* NewRuntime: the client of the daemon cannot be set up.
NoRuntime == "docker" \in Faults

\* The early returns, and the test of Status outside the lock.
Start(w) ==
    /\ At(w, "start")
    /\ LET s == worker[w].service
       IN  CASE ~Has(registry, s)               -> StartReturns(w, "ok")
             [] Has(registry, s) /\ EntryOf(s).status = "running"
                                                -> StartReturns(w, "ok")
             [] Has(registry, s) /\ EntryOf(s).status # "running"
                                                -> \/ /\ s \in Configured
                                                      /\ Goto(w, "clean")
                                                   \/ /\ s \notin Configured \/ NoRuntime
                                                      /\ StartReturns(w, "error")
    /\ UNCHANGED <<registry, docker>>

\* pullImage and CleanContainerEnvironment.  The list and the removals are
\* one step: a container started in between is not on the list, as if it had
\* been started after the removals.  A failure may come after some of them.
Clean(w) ==
    /\ At(w, "clean")
    /\ LET dangling == Dangling(docker, worker[w].service)
       IN  \/ /\ "done" \in CallEnds(w)
             /\ docker' = Without(docker, dangling)
             /\ Goto(w, "boot")
          \/ /\ "failed" \in CallEnds(w)
             /\ \E gone \in SUBSET dangling : docker' = Without(docker, gone)
             /\ Goto(w, "start_failed")
    /\ UNCHANGED registry

\* createContainer and startContainer: the new container takes the host port
\* of the entry, or the daemon refuses because the port is taken.
Boot(w) ==
    /\ At(w, "boot")
    /\ LET s == worker[w].service
           port == EntryOf(s).port
       IN  \/ \E c \in ContainerId :
                /\ FreshId(c)
                /\ CanStart(docker, port)
                /\ docker' = WithContainer(docker, c, s, port)
                /\ \/ /\ "done" \in CallEnds(w)
                      /\ Become(w, [worker[w] EXCEPT !.pc = "wait", !.id = c])
                   \/ "lost" \in CallEnds(w) /\ Goto(w, "start_failed")
          \/ /\ ~CanStart(docker, port) \/ "failed" \in CallEnds(w)
             /\ Goto(w, "start_failed")
             /\ UNCHANGED docker
    /\ UNCHANGED registry

\* WaitForHealthy polls the port until it answers, for at most 30 seconds.
\* Giving up leaves the container running.
Wait(w) ==
    /\ At(w, "wait")
    /\ \/ PortResponds(w) /\ Goto(w, "mark_running")
       \/ PortFails(w) /\ Goto(w, "start_failed")
    /\ UNCHANGED <<registry, docker>>

\* Variant with a bug: the status is not one of the constants.
StartFailedLoose(w) ==
    /\ At(w, "start_failed")
    /\ registry' = SetStatus(registry, worker[w].service, "error")
    /\ StartReturns(w, "error")
    /\ UNCHANGED docker

\* Variant with a bug: what runs under the service's name is removed, whoever
\* started it.
StartFailedCleansUp(w) ==
    /\ At(w, "start_failed")
    /\ registry' = SetStatus(registry, worker[w].service, "failed")
    /\ docker' = Without(docker, Dangling(docker, worker[w].service))
    /\ StartReturns(w, "error")

\* Variant with a bug: the start is retried without a limit.
StartFailedRetries(w) ==
    /\ At(w, "start_failed")
    /\ registry' = SetStatus(registry, worker[w].service, "failed")
    /\ Goto(w, "start")
    /\ UNCHANGED docker

StartFailed(w) ==
    /\ At(w, "start_failed")
    /\ registry' = SetStatus(registry, worker[w].service, "failed")
    /\ StartReturns(w, "error")
    /\ UNCHANGED docker

\* Three lock sections: UpdateStatus, UpdateHealth, UpdateContainerID.
MarkRunning(w) ==
    /\ At(w, "mark_running")
    /\ registry' = SetStatus(registry, worker[w].service, "running")
    /\ Goto(w, "mark_healthy")
    /\ UNCHANGED docker

MarkHealthy(w) ==
    /\ At(w, "mark_healthy")
    /\ registry' = SetHealth(registry, worker[w].service, TRUE)
    /\ Goto(w, "record_id")
    /\ UNCHANGED docker

\* Variant with a bug: the id is not recorded.
RecordIDSkipped(w) ==
    /\ At(w, "record_id")
    /\ StartReturns(w, "ok")
    /\ UNCHANGED <<registry, docker>>

RecordID(w) ==
    /\ At(w, "record_id")
    /\ registry' = SetContainerID(registry, worker[w].service, worker[w].id)
    /\ \/ StartReturns(w, "ok")
       \/ "save" \in Faults /\ StartReturns(w, "error")
    /\ UNCHANGED docker

-----------------------------------------------------------------------------
(* StopService and StopAll *)

Stop(w) ==
    /\ At(w, "stop")
    /\ LET s == worker[w].service
       IN  IF Has(registry, s) /\ EntryOf(s).status = "running"
             THEN Goto(w, "mark_pending") \/ (NoRuntime /\ StopReturns(w, "error"))
             ELSE StopReturns(w, "ok")
    /\ UNCHANGED <<registry, docker>>

MarkPending(w) ==
    /\ At(w, "mark_pending")
    /\ registry' = SetStatus(registry, worker[w].service, "pending")
    /\ Goto(w, "halt")
    /\ UNCHANGED docker

\* Variant with a bug: the error of StopContainer is ignored.
HaltUnchecked(w) ==
    /\ At(w, "halt")
    /\ LET id == EntryOf(worker[w].service).id
       IN  \/ id # NoId /\ docker' = WithStopped(docker, id)
           \/ (id = NoId \/ "failed" \in CallEnds(w)) /\ UNCHANGED docker
    /\ Goto(w, "mark_stopped")
    /\ UNCHANGED registry

\* StopContainer(service.ID), the id read when the call is made.  The client
\* rejects an empty id.  An error returns with the status left at pending.
Halt(w) ==
    /\ At(w, "halt")
    /\ LET id == EntryOf(worker[w].service).id
       IN  \/ /\ id # NoId /\ "done" \in CallEnds(w)
             /\ docker' = WithStopped(docker, id)
             /\ Goto(w, "mark_stopped")
          \/ /\ id # NoId /\ "lost" \in CallEnds(w)
             /\ docker' = WithStopped(docker, id)
             /\ StopReturns(w, "error")
          \/ /\ id = NoId \/ "failed" \in CallEnds(w)
             /\ StopReturns(w, "error")
             /\ UNCHANGED docker
    /\ UNCHANGED registry

\* Variant with a bug: the status is not one of the constants.
MarkStoppedLoose(w) ==
    /\ At(w, "mark_stopped")
    /\ registry' = SetStatus(registry, worker[w].service, "exited")
    /\ StopReturns(w, "ok")
    /\ UNCHANGED docker

MarkStopped(w) ==
    /\ At(w, "mark_stopped")
    /\ registry' = SetStatus(registry, worker[w].service, "stopped")
    /\ StopReturns(w, "ok")
    /\ UNCHANGED docker

\* Watcher.restart: StopService, then StartService.
Reload(w, s) ==
    /\ TakesOn(w, "reload", {s})
    /\ Begin(w, "reload", s, "stop")
    /\ UNCHANGED <<registry, docker>>

\* StopAll walks over the services of one ListServices, in map order.
StopAll(w) ==
    /\ TakesOn(w, "stopall", Service)
    /\ Become(w, [Resting EXCEPT !.task = "stopall", !.pc = "next",
                                 !.rest = {s \in Service : Has(registry, s)}])
    /\ UNCHANGED <<registry, docker>>

\* Variant with a bug: a service that was visited stays on the list.
StopNextAgain(w) ==
    /\ At(w, "next")
    /\ \/ worker[w].rest = {} /\ Finish(w)
       \/ \E s \in worker[w].rest :
            Become(w, [worker[w] EXCEPT
                         !.service = s,
                         !.pc = IF EntryOf(s).status = "running" THEN "stop"
                                                                 ELSE "next"])
    /\ UNCHANGED <<registry, docker>>

StopNext(w) ==
    /\ At(w, "next")
    /\ \/ worker[w].rest = {} /\ Finish(w)
       \/ \E s \in worker[w].rest :
            Become(w, [worker[w] EXCEPT
                         !.rest = worker[w].rest \ {s},
                         !.service = s,
                         !.pc = IF EntryOf(s).status = "running" THEN "stop"
                                                                 ELSE "next"])
    /\ UNCHANGED <<registry, docker>>

-----------------------------------------------------------------------------
(* The environment *)

\* The request's client disconnects, its deadline passes, or the process
\* gets SIGINT: from here on the worker's calls fail.  StopAll has the
\* background context.
Cancel(w) ==
    /\ "cancel" \in Faults
    /\ worker[w].task \in {"invoke", "reload"}
    /\ ~worker[w].cancelled
    /\ Become(w, [worker[w] EXCEPT !.cancelled = TRUE])
    /\ UNCHANGED <<registry, docker, overlapped>>

Crash(c) ==
    /\ "crash" \in Faults
    /\ c \in Running(docker)
    /\ docker' = Without(docker, {c})
    /\ UNCHANGED <<registry, worker, overlapped>>

-----------------------------------------------------------------------------
(* The specification *)

\* What worker w does next inside the scheduler.
Step(w) ==
    /\ \/ Check(w) \/ Probe(w) \/ Send(w)
       \/ Start(w) \/ Clean(w) \/ Boot(w) \/ Wait(w) \/ StartFailed(w)
       \/ MarkRunning(w) \/ MarkHealthy(w) \/ RecordID(w)
       \/ Stop(w) \/ MarkPending(w) \/ Halt(w) \/ MarkStopped(w)
       \/ StopNext(w)
    /\ UNCHANGED overlapped

Call(w) ==
    \/ \E s \in Service : Invoke(w, s) \/ Reload(w, s)
    \/ StopAll(w)

Next ==
    \/ \E w \in Worker : Call(w) \/ Step(w) \/ Cancel(w)
    \/ \E c \in ContainerId : Crash(c)

Spec == Init /\ [][Next]_vars

\* The Go scheduler runs every runnable goroutine, requests to containers have
\* a timeout, and the health wait gives up: a worker in a task keeps moving.
\* Calls to the daemon have no timeout: that it answers each is an assumption
\* about it.  Nothing obliges anybody to begin a task.
FairSpec == Spec /\ \A w \in Worker : WF_vars(Step(w))

\* A session in which requests for every service keep coming.
RequestedSpec == FairSpec /\ \A s \in Service : WF_vars(\E w \in Worker : Invoke(w, s))
-----------------------------------------------------------------------------
(* Properties *)

TypeOK ==
    /\ registry \in RegistryType
    /\ docker \in DockerType
    /\ worker \in [Worker -> WorkerType]
    /\ overlapped \subseteq Service

\* No two containers of the process's services ever run with the same host
\* port, and none runs on a port other than its service's, whatever workers
\* overlap and whatever fails.  So one container at most runs per service.
OneContainerPerService ==
    /\ \A c \in Running(docker) :
         /\ Has(registry, docker[c].service)
         /\ docker[c].port = EntryOf(docker[c].service).port
    /\ \A c, d \in Running(docker) : docker[c].service = docker[d].service => c = d

\* A worker is changing s: it is inside StartService or StopService of s,
\* past the early returns.
Changing(w, s) ==
    worker[w].service = s /\ worker[w].pc \in (StartPC \cup StopPC) \ {"start", "stop"}

Settled(s) == \A w \in Worker : ~Changing(w, s)

\* A service that is marked running and that nobody is changing is served by
\* the container on record: the one StopService will stop, and whose logs
\* `simla logs` shows.  Once two goroutines of the process have started or
\* stopped it at the same time, the record may name another container.
RunningIsRecorded ==
    \A s \in Service \ overlapped :
        Settled(s) /\ Has(registry, s) /\ EntryOf(s).status = "running"
            => RunningFor(docker, s) = {EntryOf(s).id}

\* A service that is marked stopped has no container left behind, unless two
\* goroutines have started or stopped it at the same time.
StoppedHasNone ==
    \A s \in Service \ overlapped :
        Settled(s) /\ Has(registry, s) /\ EntryOf(s).status = "stopped"
            => RunningFor(docker, s) = {}

\* A service that is marked running, and that nobody is changing, answers.
RunningAnswers ==
    \A s \in Service :
        Settled(s) /\ Has(registry, s) /\ EntryOf(s).status = "running"
            => Answers(docker, EntryOf(s).port)

\* Every task ends: no call of the scheduler waits for ever on another.
TasksEnd == \A w \in Worker : Busy(w) ~> ~Busy(w)

\* A container that dies is replaced as long as requests come
\* (architecture.md: "Check if service is registered and healthy. If not,
\* start the container and wait for health").
DeadIsRestarted ==
    \A s \in Service :
        (Has(registry, s) /\ EntryOf(s).status = "running"
           /\ ~Answers(docker, EntryOf(s).port))
            ~> Answers(docker, EntryOf(s).port)
=============================================================================
