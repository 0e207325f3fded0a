------------------------------- MODULE Workflow -------------------------------
(***************************************************************************)
(* The execution of one workflow (internal/workflow/executor.go): a state  *)
(* machine that walks from state to state, invokes services with retries   *)
(* under a timeout, and runs the branches of its Parallel states, each a   *)
(* state machine in a goroutine of its own.                                *)
(*                                                                         *)
(* Documents are left out: which choice rule matches, and whether a path   *)
(* expression of a state fails, is left open.  Errors are the classes that *)
(* classifyError finds in their texts; wrapping an error keeps its text,   *)
(* and so its class.  Names are lower case: the loader of the file lowers  *)
(* the keys of maps, runMachine the names it looks up.                     *)
(***************************************************************************)
EXTENDS Integers, Sequences, Functions

CONSTANTS Machine,     \* the workflow and the branches of its Parallel states
          Root,        \* the workflow
          Name,        \* names of states
          NoName,      \* an empty Next or Default
          NoState,     \* the name is not defined in this machine
          Definition   \* [Machine -> its startAt and its states]

Error == {"States.Timeout", "States.ServiceNotFound", "States.TaskFailed"}

\* A state of the configuration.  paths: it has path expressions, which fail
\* on some documents.  timed: TimeoutSeconds is set.  "Invalid": an unknown
\* type, or a Task without Resource.
IsState(d) ==
    /\ d.type \in {"Task", "Pass", "Choice", "Parallel", "Wait", "Succeed", "Fail",
                  "Invalid"}
    /\ d.next \in Name \cup {NoName} /\ d.end \in BOOLEAN
    /\ d.retry \in Seq([errors : SUBSET Error, max : Nat])
    /\ d.catch \in Seq([errors : SUBSET Error, next : Name \cup {NoName}])
    /\ d.timed \in BOOLEAN /\ d.paths \in BOOLEAN
    /\ d.choices \subseteq Name /\ d.default \in Name \cup {NoName}
    /\ d.branches \in Seq(Machine \ {Root}) /\ IsInjective(d.branches)

ASSUME DefinitionAssumption ==
    /\ Root \in Machine /\ NoName \notin Name
    /\ \A m \in Machine :
         /\ Definition[m].startAt \in Name
         /\ \A n \in Name : \/ Definition[m].states[n] = NoState
                            \/ IsState(Definition[m].states[n])

\* The branches that state n of machine m lists.
Listed(m, n) ==
    {b \in Machine : /\ Definition[m].states[n] # NoState
                     /\ b \in Range(Definition[m].states[n].branches)}

\* A branch is written inside the one state that lists it.
ASSUME NestingAssumption ==
    \A k, m \in Machine : \A i, n \in Name :
        Listed(k, i) \cap Listed(m, n) # {} => k = m /\ i = n

VARIABLES run,    \* [Machine -> where its execution is]
          calls,  \* history: [Machine -> invocations of its current state]
          late    \* history: of them, those begun after the timeout

vars == <<run, calls, late>>

PC == {"idle", "enter", "invoke", "backoff", "join", "wait", "done"}

RunType == [pc : PC, state : Name \cup {NoName}, attempt : Nat,
            expired : BOOLEAN,            \* the timeout of the state is over
            outcome : Error \cup {"ok"}]  \* when done

Unstarted == [pc |-> "idle", state |-> NoName, attempt |-> 0, expired |-> FALSE,
              outcome |-> "ok"]

Init ==
    /\ run = [m \in Machine |-> Unstarted]
    /\ calls = [m \in Machine |-> 0]
    /\ late = [m \in Machine |-> 0]

-----------------------------------------------------------------------------
(* Helpers *)

At(m, pc) == run[m].pc = pc
Defined(m) == Definition[m].states[run[m].state] # NoState
StateOf(m) == Definition[m].states[run[m].state]
Is(m, type) == At(m, "enter") /\ Defined(m) /\ StateOf(m).type = type

\* The branches a machine at a Parallel state has started.
Branches(m) == Listed(m, run[m].state)

\* MaxAttempts of a Retry rule; 0 is read as not given.
MaxAttempts(rule) == IF rule.max = 0 THEN 3 ELSE rule.max

\* The first rule of a Retry or Catch list that names e, 0 if none does.
FirstRule(rules, e) ==
    LET hits == {i \in DOMAIN rules : e \in rules[i].errors}
    IN  IF hits = {} THEN 0 ELSE CHOOSE i \in hits : \A j \in hits : i <= j

Entering(m, n) == [Unstarted EXCEPT !.pc = "enter", !.state = n]
Done(m, outcome) == [run[m] EXCEPT !.pc = "done", !.outcome = outcome]

\* Variant with a bug: the loop goes on with a name that is not there, which
\* ends in a state that no Next names.
GoingAnywhere(m, next) ==
    IF StateOf(m).end THEN Done(m, "ok") ELSE Entering(m, next)

\* What the loop of runMachine does with a state's result: end if the state is
\* an end state, fail if there is nowhere to go.
Going(m, next) ==
    IF StateOf(m).end      THEN Done(m, "ok")
    ELSE IF next = NoName  THEN Done(m, "States.TaskFailed")
    ELSE Entering(m, next)

\* Catch: the handler's name is the next state.  An end state ends all the
\* same, in success and without the handler.
Caught(m, e) ==
    LET i == FirstRule(StateOf(m).catch, e)
    IN  IF i = 0 THEN Done(m, e) ELSE Going(m, StateOf(m).catch[i].next)

Become(m, r) == run' = [run EXCEPT ![m] = r]

\* A path expression that fails is not caught and not retried.
PathErrors == {"States.ServiceNotFound", "States.TaskFailed"}
PathFails(m) == StateOf(m).paths /\ \E e \in PathErrors : Become(m, Done(m, e))

-----------------------------------------------------------------------------
(* Execute, and entering a state *)

Execute ==
    /\ At(Root, "idle")
    /\ Become(Root, Entering(Root, Definition[Root].startAt))
    /\ UNCHANGED <<calls, late>>

\* "state not found in definition".
EnterUnknown(m) ==
    /\ At(m, "enter")
    /\ ~Defined(m)
    /\ Become(m, Done(m, "States.ServiceNotFound"))
    /\ UNCHANGED <<calls, late>>

\* executeTask up to its first invocation.
EnterTask(m) ==
    /\ Is(m, "Task")
    /\ \/ /\ Become(m, [run[m] EXCEPT !.pc = "invoke"])
          /\ calls' = [calls EXCEPT ![m] = 1]
          /\ late' = [late EXCEPT ![m] = 0]
       \/ PathFails(m) /\ UNCHANGED <<calls, late>>

EnterPass(m) ==
    /\ Is(m, "Pass")
    /\ Become(m, Going(m, StateOf(m).next)) \/ PathFails(m)
    /\ UNCHANGED <<calls, late>>

\* The first rule that matches, or the default, or an error.
EnterChoice(m) ==
    /\ Is(m, "Choice")
    /\ \/ \E n \in StateOf(m).choices : Become(m, Going(m, n))
       \/ /\ StateOf(m).default # NoName
          /\ Become(m, Going(m, StateOf(m).default))
       \/ /\ StateOf(m).default = NoName
          /\ Become(m, Done(m, "States.TaskFailed"))
       \/ PathFails(m)
    /\ UNCHANGED <<calls, late>>

EnterWait(m) ==
    /\ Is(m, "Wait")
    /\ Become(m, [run[m] EXCEPT !.pc = "wait"]) \/ PathFails(m)
    /\ UNCHANGED <<calls, late>>

EnterSucceed(m) ==
    /\ Is(m, "Succeed")
    /\ Become(m, Done(m, "ok"))
    /\ UNCHANGED <<calls, late>>

\* The text of the error, and so its class, is the author's.
EnterFail(m) ==
    /\ Is(m, "Fail")
    /\ \E e \in Error : Become(m, Done(m, e))
    /\ UNCHANGED <<calls, late>>

EnterInvalid(m) ==
    /\ Is(m, "Invalid")
    /\ Become(m, Done(m, "States.TaskFailed"))
    /\ UNCHANGED <<calls, late>>

\* One goroutine per branch, all begun before any is waited for.
EnterParallel(m) ==
    /\ Is(m, "Parallel")
    /\ IF StateOf(m).branches = <<>>
         THEN Become(m, Done(m, "States.TaskFailed"))
         ELSE run' = [b \in Machine |->
                        CASE b = m            -> [run[m] EXCEPT !.pc = "join"]
                          [] b \in Branches(m) -> Entering(b, Definition[b].startAt)
                          [] OTHER            -> run[b]]
    /\ UNCHANGED <<calls, late>>

-----------------------------------------------------------------------------
(* Task: invokeWithRetry *)

\* The service answers; OutputPath and ResultPath are applied.
InvokeSucceeds(m) ==
    /\ At(m, "invoke")
    /\ Become(m, Going(m, StateOf(m).next)) \/ PathFails(m)
    /\ UNCHANGED <<calls, late>>

\* Variant with a bug: the wait between two attempts does not look at the
\* context.
RetriedAsleep(m, e) ==
    LET i == FirstRule(StateOf(m).retry, e)
    IN  IF i = 0 \/ (i # 0 /\ run[m].attempt >= MaxAttempts(StateOf(m).retry[i]))
          THEN Caught(m, e)
        ELSE [run[m] EXCEPT !.pc = "backoff", !.attempt = @ + 1]

\* Variant with a bug: the attempt is counted after the test, off by one.
RetriedOnceMore(m, e) ==
    LET i == FirstRule(StateOf(m).retry, e)
    IN  IF i = 0 \/ (i # 0 /\ run[m].attempt > MaxAttempts(StateOf(m).retry[i]))
          THEN Caught(m, e)
        ELSE IF run[m].expired
          THEN Caught(m, "States.Timeout")
        ELSE [run[m] EXCEPT !.pc = "backoff", !.attempt = @ + 1]

\* The decision of invokeWithRetry after an error.  The counter of attempts is
\* one for all Retry rules.  The wait between two attempts ends at once when
\* the context is done, with a timeout error.
Retried(m, e) ==
    LET i == FirstRule(StateOf(m).retry, e)
    IN  IF i = 0 \/ (i # 0 /\ run[m].attempt >= MaxAttempts(StateOf(m).retry[i]))
          THEN Caught(m, e)
        ELSE IF run[m].expired
          THEN Caught(m, "States.Timeout")
        ELSE [run[m] EXCEPT !.pc = "backoff", !.attempt = @ + 1]

InvokeFails(m, e) ==
    /\ At(m, "invoke")
    /\ Become(m, Retried(m, e))
    /\ UNCHANGED <<calls, late>>

\* The timer of the wait fires, perhaps at the same time as the timeout.
Retry(m) ==
    /\ At(m, "backoff")
    /\ Become(m, [run[m] EXCEPT !.pc = "invoke"])
    /\ calls' = [calls EXCEPT ![m] = calls[m] + 1]
    /\ late' = IF run[m].expired THEN [late EXCEPT ![m] = late[m] + 1] ELSE late

BackoffCut(m) ==
    /\ At(m, "backoff")
    /\ run[m].expired
    /\ Become(m, Caught(m, "States.Timeout"))
    /\ UNCHANGED <<calls, late>>

\* TimeoutSeconds pass since the Task was entered, all attempts included.
Expire(m) ==
    /\ run[m].pc \in {"invoke", "backoff"}
    /\ StateOf(m).timed
    /\ ~run[m].expired
    /\ Become(m, [run[m] EXCEPT !.expired = TRUE])
    /\ UNCHANGED <<calls, late>>

-----------------------------------------------------------------------------
(* Wait and Parallel *)

WaitEnds(m) ==
    /\ At(m, "wait")
    /\ Become(m, Going(m, StateOf(m).next))
    /\ UNCHANGED <<calls, late>>

\* The error of the first branch of the list that failed counts, whichever
\* failed first.
Failed(m) ==
    {i \in DOMAIN StateOf(m).branches : run[StateOf(m).branches[i]].outcome # "ok"}
FirstFailure(m) ==
    LET first == CHOOSE i \in Failed(m) : \A j \in Failed(m) : i <= j
    IN  run[StateOf(m).branches[first]].outcome

\* m leaves its Parallel state: its branches are gone.
Leave(m, after) ==
    run' = [b \in Machine |-> CASE b = m             -> after
                              [] b \in Branches(m) -> Unstarted
                              [] OTHER             -> run[b]]

\* Variant with a bug: the first failure is not waited out.
JoinFailFast(m) ==
    /\ At(m, "join")
    /\ \/ \A b \in Branches(m) : At(b, "done")
       \/ Failed(m) # {}
    /\ IF Failed(m) = {}
         THEN Leave(m, Going(m, StateOf(m).next))
         ELSE Become(m, Caught(m, FirstFailure(m)))
    /\ UNCHANGED <<calls, late>>

\* Variant with a bug: the errors of the branches are dropped.
JoinAnyway(m) ==
    /\ At(m, "join")
    /\ \A b \in Branches(m) : At(b, "done")
    /\ Leave(m, Going(m, StateOf(m).next))
    /\ UNCHANGED <<calls, late>>

\* Variant with a bug: a branch that fails does not send its result.
JoinResultsOnly(m) ==
    /\ At(m, "join")
    /\ \A b \in Branches(m) : At(b, "done")
    /\ Failed(m) = {}
    /\ Leave(m, Going(m, StateOf(m).next))
    /\ UNCHANGED <<calls, late>>

\* All branches have sent their results.  Making one document of them can
\* then fail, or the ResultPath.
Join(m) ==
    /\ At(m, "join")
    /\ \A b \in Branches(m) : At(b, "done")
    /\ \/ Failed(m) = {} /\ Leave(m, Going(m, StateOf(m).next))
       \/ Failed(m) = {} /\ \E e \in PathErrors : Leave(m, Done(m, e))
       \/ Failed(m) # {} /\ Leave(m, Caught(m, FirstFailure(m)))
    /\ UNCHANGED <<calls, late>>

-----------------------------------------------------------------------------
(* The specification *)

\* What m's goroutine does next.
Step(m) ==
    \/ EnterUnknown(m) \/ EnterTask(m) \/ EnterPass(m) \/ EnterChoice(m)
    \/ EnterWait(m) \/ EnterSucceed(m) \/ EnterFail(m) \/ EnterInvalid(m)
    \/ EnterParallel(m)
    \/ InvokeSucceeds(m) \/ (\E e \in Error : InvokeFails(m, e))
    \/ Retry(m) \/ BackoffCut(m)
    \/ WaitEnds(m) \/ Join(m)

Next == Execute \/ \E m \in Machine : Step(m) \/ Expire(m)

Spec == Init /\ [][Next]_vars

-----------------------------------------------------------------------------
(* Properties *)

TypeOK ==
    /\ run \in [Machine -> RunType]
    /\ \A m \in Machine : ~At(m, "idle") => run[m].state \in Name
    /\ calls \in [Machine -> Nat]
    /\ late \in [Machine -> Nat]

\* No branch outlives its Parallel state: while a branch runs, or its result
\* waits, the machine that started it is waiting in that state.
BranchesAreJoined ==
    \A b \in Machine \ {Root} :
        ~At(b, "idle") => \E m \in Machine : At(m, "join") /\ b \in Branches(m)

\* One visit of a Task invokes its service once, and again at most as often
\* as the largest MaxAttempts of its Retry rules, whichever errors alternate.
RetriesAreBounded ==
    \A m \in Machine :
        At(m, "invoke") => \/ calls[m] = 1
                           \/ \E i \in DOMAIN StateOf(m).retry :
                                calls[m] <= MaxAttempts(StateOf(m).retry[i]) + 1

\* After its timeout a Task begins at most one more invocation, the one whose
\* timer fired at the same moment: TimeoutSeconds bounds all attempts together.
\* A Retry rule for States.Timeout never retries the Task that exceeded it,
\* which workflows.md (316-321, 341) and configuration.md (252) promise.
TimeoutStopsRetries == \A m \in Machine : late[m] <= 1

\* A machine that leaves a Parallel state in which a branch failed has failed
\* itself, or is at the handler of a Catch rule that names the error of one of
\* its branches.  The failure is lost in one case only: a state with End and
\* such a rule ends in success and its handler is not run, though workflows.md
\* (43-65, 346) writes Catch beside End without saying so.
OnlyEndLosesFailure ==
    [][\A m \in Machine :
         (At(m, "join") /\ ~At(m, "join")'
            /\ \E b \in Branches(m) : run[b].outcome # "ok")
           => \/ run'[m].pc = "done" /\ run'[m].outcome # "ok"
              \/ \E i \in DOMAIN StateOf(m).catch, b \in Branches(m) :
                   /\ run[b].outcome \in StateOf(m).catch[i].errors
                   /\ IF StateOf(m).end THEN run'[m].pc = "done"
                      ELSE run'[m].pc = "enter" /\ run'[m].state = StateOf(m).catch[i].next]_vars
=============================================================================
