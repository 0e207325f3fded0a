------------------------------- MODULE Session -------------------------------
(***************************************************************************)
(* One run of `simla up --watch` (cmd/simla/up.go): the scheduler with its *)
(* callers (gateway requests and triggers), the hot-reload watcher         *)
(* (internal/watcher) and the shutdown that SIGINT begins.                 *)
(*                                                                         *)
(* SIGINT ends the process's context.  The watcher loop and the triggers   *)
(* stop; the gateway accepts no more requests and gives those in flight    *)
(* five seconds; then main runs StopAll and the process exits, with        *)
(* whatever goroutines are still at work.  Nothing waits for a reload or   *)
(* for a trigger's delivery, nothing stops an armed debounce timer.        *)
(***************************************************************************)
EXTENDS Scheduler

CONSTANT Main  \* the worker that is the main goroutine

ASSUME MainAssumption == Main \in Worker

VARIABLES phase,  \* of the process
          timer,  \* [Service -> is its debounce timer armed]
          stale,  \* running containers older than the last change of their code
          refused \* history: services that a StopService had no client of the
                  \* daemon for

sessionVars == <<vars, phase, timer, stale, refused>>

Phases == {"serving", "draining", "stopping", "exited", "aborted"}

Up == phase \in {"serving", "draining", "stopping"}

SessionInit ==
    /\ Init
    /\ phase = "serving"
    /\ timer = [s \in Service |-> FALSE]
    /\ stale = {}
    /\ refused = {}

Goroutine == Worker \ {Main}

\* A container that is gone is not stale any more.
KeepStale == stale' = {c \in stale : docker'[c] # NoContainer}

-----------------------------------------------------------------------------
(* Callers of the scheduler *)

\* A gateway request or a trigger's delivery.
Request(w, s) ==
    /\ phase = "serving"
    /\ Invoke(w, s)
    /\ KeepStale
    /\ UNCHANGED <<phase, timer, refused>>

\* The client of a request goes away.
Disconnect(w) ==
    /\ Up
    /\ worker[w].task = "invoke"
    /\ Cancel(w)
    /\ UNCHANGED <<phase, timer, stale, refused>>

\* NewRuntime fails in a StopService, which returns with nothing changed.
Refused(w) ==
    /\ At(w, "stop")
    /\ Has(registry, worker[w].service) /\ EntryOf(worker[w].service).status = "running"
    /\ worker'[w].pc # "mark_pending"

SchedulerStep(w) ==
    /\ Up
    /\ Step(w)
    /\ refused' = refused \cup (IF Refused(w) THEN {worker[w].service} ELSE {})
    /\ KeepStale
    /\ UNCHANGED <<phase, timer>>

-----------------------------------------------------------------------------
(* The watcher *)

\* A file in s's codePath is written, created or renamed.  The event loop
\* (re)arms the timer of s, unless its context is done and it has returned.
ChangeCode(s) ==
    /\ Up
    /\ stale' = stale \cup RunningFor(docker, s)
    /\ timer' = [timer EXCEPT ![s] = @ \/ phase = "serving"]
    /\ UNCHANGED <<vars, phase, refused>>

\* Variant with a bug: the restart does not stop the container first.
FireStartOnly(w, s) ==
    /\ Up
    /\ timer[s]
    /\ TakesOn(w, "reload", {s})
    /\ Become(w, [Resting EXCEPT !.task = "reload", !.service = s, !.pc = "start",
                                 !.cancelled = (phase # "serving")])
    /\ timer' = [timer EXCEPT ![s] = FALSE]
    /\ UNCHANGED <<registry, docker, phase, stale, refused>>

\* The timer of s fires: a new goroutine runs restart(s) with the process's
\* context.  Another restart of s may still be running.
Fire(w, s) ==
    /\ Up
    /\ timer[s]
    /\ TakesOn(w, "reload", {s})
    /\ Become(w, [Resting EXCEPT !.task = "reload", !.service = s, !.pc = "stop",
                                 !.cancelled = (phase # "serving")])
    /\ timer' = [timer EXCEPT ![s] = FALSE]
    /\ UNCHANGED <<registry, docker, phase, stale, refused>>

-----------------------------------------------------------------------------
(* Shutdown *)

\* SIGINT: the reloads' context ends, and that of the invocations that
\* triggers began; the gateway's requests have contexts of their own.
Signal ==
    /\ phase = "serving"
    /\ \E triggered \in SUBSET {w \in Worker : worker[w].task = "invoke"} :
         worker' = [w \in Worker |->
                      IF w \in triggered \/ worker[w].task = "reload"
                        THEN [worker[w] EXCEPT !.cancelled = TRUE]
                        ELSE worker[w]]
    /\ phase' = "draining"
    /\ UNCHANGED <<registry, docker, overlapped, timer, stale, refused>>

\* http.Server.Shutdown has returned, all requests answered or not, and main
\* calls StopAll.
Drained ==
    /\ phase = "draining"
    /\ StopAll(Main)
    /\ phase' = "stopping"
    /\ UNCHANGED <<timer, stale, refused>>

\* The process and all its goroutines are gone.
ProcessEnds(last) ==
    /\ phase' = last
    /\ worker' = [w \in Worker |-> Resting]
    /\ timer' = [s \in Service |-> FALSE]
    /\ UNCHANGED <<registry, docker, overlapped, stale, refused>>

\* Variant with a bug: main does not wait for StopAll.
ExitAtOnce == phase = "stopping" /\ ProcessEnds("exited")

\* main returns.
Exit == phase = "stopping" /\ ~Busy(Main) /\ ProcessEnds("exited")

\* The gateway cannot listen, or no longer: it logs the error with Fatal, which
\* ends the process there and then.
ListenFails == phase = "serving" /\ ProcessEnds("aborted")

-----------------------------------------------------------------------------

SessionNext ==
    \/ \E w \in Goroutine, s \in Service : Request(w, s) \/ Fire(w, s)
    \/ \E w \in Worker : SchedulerStep(w) \/ Disconnect(w)
    \/ \E s \in Service : ChangeCode(s)
    \/ Signal
    \/ Drained
    \/ Exit
    \/ ListenFails

SessionSpec == SessionInit /\ [][SessionNext]_sessionVars

-----------------------------------------------------------------------------
(* Properties *)

\* When `simla up` has exited no container of its services is left running
\* (up.go: "Stop all running Lambda containers").
CleanExit == phase = "exited" => Running(docker) = {}

\* What `simla up` leaves running when it exits is known: a container of a
\* service whose last start or stop has failed, or of one that two goroutines
\* started or stopped at the same time, as a start that is under way when
\* StopAll begins.  Any other service is stopped, or never ran.
LeftIsKnown ==
    phase = "exited" =>
        \A s \in Service \ overlapped :
            RunningFor(docker, s) # {} =>
                EntryOf(s).status \in {"failed", "pending"} \/ s \in refused

\* Requests for s go to a container that runs old code.
ServesOldCode(s) ==
    /\ Has(registry, s) /\ EntryOf(s).status = "running"
    /\ RunningFor(docker, s) \cap stale # {}

\* Hot reload: no change of the code is forgotten.  While requests go to a
\* container that runs old code, its timer is armed or a restart has still to
\* stop it (README.md: "Automatic container restart when code changes"),
\* unless a restart could not begin.  What other goroutines start and stop at
\* the same time can make a restart void: StopService finds nothing to stop,
\* StartService what another has just marked running.
ChangesAreKept ==
    phase = "serving" =>
        \A s \in Service \ (overlapped \cup refused) :
            ServesOldCode(s) =>
                \/ timer[s]
                \/ \E w \in Worker : /\ worker[w].task = "reload"
                                     /\ worker[w].service = s
                                     /\ worker[w].pc \in {"stop", "mark_pending"}

SessionTypeOK ==
    /\ TypeOK
    /\ phase \in Phases
    /\ timer \in [Service -> BOOLEAN]
    /\ stale \subseteq Running(docker)
    /\ refused \subseteq Service
=============================================================================
