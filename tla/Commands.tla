------------------------------- MODULE Commands -------------------------------
(***************************************************************************)
(* The commands of the CLI, one process after another (cmd/simla): each    *)
(* loads the registry file, works with a scheduler of its own, and ends,   *)
(* or is killed at any moment.  What one process leaves behind, containers *)
(* that run and the file, is what the next one starts from.                *)
(*                                                                         *)
(* `simla invoke` and `simla workflow run` work with cobra's background    *)
(* context: nothing cancels them.  The requests and hot reloads of `up`    *)
(* can be cancelled (see Session); here their calls fail, are lost or come *)
(* too late, as the faults "docker" and "slow" let the calls of every      *)
(* command.  Two processes at once are left to RegistryStore.              *)
(***************************************************************************)
EXTENDS Scheduler

CONSTANT Unreadable  \* the file does not decode

\* A Save that fails leaves memory and file apart; see RegistryStore.
ASSUME CommandsAssumption == "save" \notin Faults /\ Unreadable \notin FileType

VARIABLES file,     \* what ~/.simla/registry.yaml means to the next process
          command,  \* the command of the process, or "none"
          ending    \* the process has begun the last thing it does

commandVars == <<vars, file, command, ending>>

Command == {"up", "invoke", "workflow", "down", "down_service"}

CommandsInit ==
    /\ Init
    /\ file = Persisted(NewRegistry)
    /\ command = "none"
    /\ ending = FALSE

\* Ids are the daemon's: it does not give out one that the file still names.
IdsStayNew ==
    \A c \in Running(docker') \ Running(docker) :
        \A s \in Service : Has(file, s) => file.services[s].id # c

-----------------------------------------------------------------------------
(* The beginning and the end of a process *)

\* PersistentPreRun: loadConfig and Load.
Launch(name) ==
    /\ command = "none"
    /\ file # Unreadable
    /\ command' = name
    /\ ending' = FALSE
    /\ registry' = Restored(file)
    /\ UNCHANGED <<docker, worker, overlapped, file>>

\* The memory of the process and its goroutines are gone.  The next one marks
\* no service running before it has removed what runs for it.
Gone ==
    /\ command' = "none"
    /\ ending' = FALSE
    /\ registry' = NewRegistry
    /\ worker' = [w \in Worker |-> Resting]
    /\ overlapped' = {}
    /\ UNCHANGED docker

Return ==
    /\ command # "none"
    /\ ending
    /\ \A w \in Worker : ~Busy(w)
    /\ Gone
    /\ UNCHANGED file

\* Between os.Create and the end of Encode the file is incomplete: in
\* UpdateContainerID, or in AddService of a service that is not registered.
InSave ==
    \/ \E w \in Worker : At(w, "record_id")
    \/ /\ command \in {"up", "invoke", "workflow"} /\ ~ending
       /\ \E s \in Service : ~Has(registry, s)

Kill ==
    /\ command # "none"
    /\ Gone
    /\ file' \in {file} \cup (IF InSave THEN {Unreadable} ELSE {})

-----------------------------------------------------------------------------
(* What the commands do *)

\* Variant with a bug: the file is first written when the container is there.
InvokesUnsaved(w, s) ==
    /\ command \in {"up", "invoke", "workflow"} /\ ~ending
    /\ Invoke(w, s)
    /\ ending' = (command = "invoke")
    /\ UNCHANGED <<command, file>>

\* The requests of `up`, the one invocation of `invoke`, the Tasks of a
\* workflow.  AddService saves a new entry before it returns.
Invokes(w, s) ==
    /\ command \in {"up", "invoke", "workflow"} /\ ~ending
    /\ Invoke(w, s)
    /\ file' = IF Has(registry, s) THEN file ELSE Persisted(registry')
    /\ ending' = (command = "invoke")
    /\ UNCHANGED command

Reloads(w, s) ==
    /\ command = "up" /\ ~ending
    /\ Reload(w, s)
    /\ UNCHANGED <<file, command, ending>>

\* The end of `up`, and all of `down`.
StopsAll(w) ==
    /\ command \in {"up", "down"} /\ ~ending
    /\ StopAll(w)
    /\ ending' = TRUE
    /\ UNCHANGED <<file, command>>

\* `simla down s`.
StopsOne(w, s) ==
    /\ command = "down_service" /\ ~ending
    /\ TakesOn(w, "stop", {s})
    /\ Begin(w, "stop", s, "stop")
    /\ ending' = TRUE
    /\ UNCHANGED <<registry, docker, file, command>>

\* The workflow has ended, or failed.
WorkflowEnds ==
    /\ command = "workflow" /\ ~ending
    /\ \A w \in Worker : ~Busy(w)
    /\ ending' = TRUE
    /\ UNCHANGED <<vars, file, command>>

\* A step inside the scheduler.  UpdateContainerID saves.
Works(w) ==
    /\ command # "none"
    /\ Step(w)
    /\ IdsStayNew
    /\ file' = IF At(w, "record_id") THEN Persisted(registry') ELSE file
    /\ UNCHANGED <<command, ending>>

CommandsNext ==
    \/ \E name \in Command : Launch(name)
    \/ Return
    \/ Kill
    \/ \E w \in Worker, s \in Service : Invokes(w, s) \/ Reloads(w, s) \/ StopsOne(w, s)
    \/ \E w \in Worker : StopsAll(w) \/ Works(w)
    \/ WorkflowEnds

CommandsSpec == CommandsInit /\ [][CommandsNext]_commandVars

-----------------------------------------------------------------------------
(* Properties *)

\* Every container that any process has left running is on file: the next
\* process gives its port to no other service, and its restart takes the
\* place of that container instead of joining it.
ContainersAreOnFile ==
    file # Unreadable =>
        \A c \in Running(docker) :
            /\ Has(file, docker[c].service)
            /\ file.services[docker[c].service].port = docker[c].port
            /\ \A d \in Running(docker) \ {c} : docker[d].service # docker[c].service

\* The processes, one after another, keep the promise of ServiceLifecycle.
PhaseOf(s) ==
    IF s \in overlapped THEN "entangled"
    ELSE IF ~Settled(s) THEN "busy"
    ELSE IF Has(registry, s) /\ EntryOf(s).status = "running" THEN "on"
    ELSE IF Has(registry, s) /\ EntryOf(s).status = "stopped" THEN "stopped"
    ELSE "unsettled"

BoxOf(s) == IF RunningFor(docker, s) = {} THEN NoId
            ELSE CHOOSE c \in ContainerId : c \in RunningFor(docker, s)

\* The id that `simla logs` would find.
IdOf(s) == IF file # Unreadable /\ Has(file, s) THEN file.services[s].id ELSE NoId

Lifecycle == INSTANCE ServiceLifecycle WITH
    phase <- [s \in Service |-> PhaseOf(s)],
    box   <- [s \in Service |-> BoxOf(s)],
    id    <- [s \in Service |-> IdOf(s)]

\* Until the file is lost.
LifecycleKept == Lifecycle!Init /\ [][Lifecycle!Next \/ file' = Unreadable]_Lifecycle!vars

\* `simla down` leaves no container running (down.go: "Without arguments,
\* stops all running services").
DownStops == [][(command = "down" /\ Return) => Running(docker) = {}]_commandVars
=============================================================================
