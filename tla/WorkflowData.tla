----------------------------- MODULE WorkflowData -----------------------------
(***************************************************************************)
(* A workflow execution with its documents: Workflow, in which the path    *)
(* expressions and choice rules are the ones of Documents and decide what  *)
(* Workflow leaves open.  Every step is a step of Workflow, or the panic   *)
(* that ends the process.                                                  *)
(***************************************************************************)
EXTENDS Workflow, Documents

CONSTANTS Data,    \* [Machine -> [Name -> paths, rules, ... of the state]]
          Inputs,  \* documents that Execute is given
          Answers  \* [Machine -> what the services it invokes may answer]

\* What a state of the configuration says about documents.
IsData(s) ==
    /\ {s.input, s.result, s.output, s.wait.path} \subseteq Path
    /\ s.wait.by \in {"none", "seconds", "timestamp", "malformed"}
    /\ s.static \in Seq(Document)
    /\ \A i \in DOMAIN s.catches : s.catches[i] \in Path
    /\ Len(s.rules) \in Nat /\ DOMAIN s.rules = 1 .. Len(s.rules)
    /\ \A i \in DOMAIN s.rules : s.rules[i].next \in Name /\ IsRule(s.rules[i].rule)

\* A state that says nothing about documents has no path that could fail, and
\* both parts of the definition list the same rules.
DataFits(d, s) ==
    /\ IsData(s)
    /\ d.paths \/ /\ {s.input, s.output} \subseteq {Omitted, Whole}
                  /\ s.result \in {Omitted, Whole} /\ s.wait.by = "none" /\ s.rules = <<>>
    /\ d.choices = {s.rules[i].next : i \in DOMAIN s.rules}
    /\ DOMAIN d.catch = DOMAIN s.catches

ASSUME DataAssumption ==
    \A m \in Machine, n \in Name :
        Definition[m].states[n] # NoState => DataFits(Definition[m].states[n], Data[m][n])

ASSUME InputAssumption ==
    /\ Inputs \subseteq Document
    /\ \A m \in Machine : Answers[m] \subseteq Document
    /\ {ErrorText[e] : e \in Error} \cup {CauseText} \subseteq Seq(Nat)

VARIABLES doc,     \* [Machine -> the document at its current state]
          crashed  \* the process has panicked

dataVars == <<vars, doc, crashed>>

DataInit ==
    /\ Init
    /\ doc = [m \in Machine |-> Null]
    /\ crashed = FALSE

DataOf(m) == Data[m][run[m].state]

-----------------------------------------------------------------------------
(* What a step of m makes of its document *)

\* The state of m ends with result r: m goes on to after, or fails.
Yields(m, r, after) ==
    /\ r.status # "panic"
    /\ run'[m] = IF r.status = "ok" THEN after ELSE Done(m, r.error)
    /\ doc' = IF r.status = "ok" THEN [doc EXCEPT ![m] = r.doc] ELSE doc

\* The error of an invocation that is not retried.
Escaping(m, e) ==
    LET i == FirstRule(StateOf(m).retry, e)
    IN  IF i # 0 /\ run[m].attempt < MaxAttempts(StateOf(m).retry[i])
          THEN "States.Timeout" ELSE e

\* What a Catch rule makes of the document; an error that none names leaves
\* it as it is.
Handled(m, e) ==
    LET i == FirstRule(StateOf(m).catch, e)
    IN  IF i = 0 THEN Ok(doc[m]) ELSE tryCatch(doc[m], e, DataOf(m).catches[i])

\* The documents of the branches of m, in the order of the list.
Outputs(m) == [i \in DOMAIN StateOf(m).branches |-> doc[StateOf(m).branches[i]]]

Collected(m) == parallelOutput(doc[m], Outputs(m), DataOf(m).result)

Joined(m) == IF Failed(m) = {} THEN Collected(m) ELSE Handled(m, FirstFailure(m))

-----------------------------------------------------------------------------
(* The steps of Workflow with their documents *)

Begin ==
    /\ Execute
    /\ \E input \in Inputs : doc' = [doc EXCEPT ![Root] = input]

TaskBegins(m) ==
    /\ EnterTask(m)
    /\ LET effective == applyPath(doc[m], DataOf(m).input)
       IN  run'[m] = IF effective.status = "ok" THEN [run[m] EXCEPT !.pc = "invoke"]
                                                ELSE Done(m, effective.error)
    /\ UNCHANGED doc

PassData(m) ==
    /\ EnterPass(m)
    /\ Yields(m, executePass(doc[m], DataOf(m)), Going(m, StateOf(m).next))

\* The rule that is taken, or an error in the first rule that is not false.
ChoiceData(m) ==
    /\ EnterChoice(m)
    /\ LET rules == DataOf(m).rules
           i == FirstRuleTaken(doc[m], rules)
           value == IF i = 0 THEN "true" ELSE evaluateCondition(doc[m], rules[i].rule)
       IN  run'[m] = IF value # "true"                 THEN Done(m, value)
                     ELSE IF i # 0                     THEN Going(m, rules[i].next)
                     ELSE IF StateOf(m).default = NoName THEN Done(m, OtherError)
                     ELSE Going(m, StateOf(m).default)
    /\ UNCHANGED doc

WaitData(m) ==
    /\ EnterWait(m)
    /\ Yields(m, [executeWait(doc[m], DataOf(m).wait) EXCEPT !.doc = doc[m]],
              [run[m] EXCEPT !.pc = "wait"])

\* Each branch is given the input of the Parallel state.
ParallelData(m) ==
    /\ EnterParallel(m)
    /\ doc' = [b \in Machine |-> IF b \in Branches(m) THEN doc[m] ELSE doc[b]]

\* Variant with a bug: the answer of an invocation that succeeds is stored
\* before its OutputPath is applied.
AnswerUnfiltered(m) ==
    /\ InvokeSucceeds(m)
    /\ \E answer \in Answers[m] :
         Yields(m, Merged(doc[m], Ok(answer), DataOf(m).result), Going(m, StateOf(m).next))

Answer(m) ==
    /\ InvokeSucceeds(m)
    /\ \E answer \in Answers[m] :
         Yields(m, taskOutput(doc[m], answer, DataOf(m)), Going(m, StateOf(m).next))

Failure(m, e) ==
    /\ InvokeFails(m, e)
    /\ IF run'[m].pc = "backoff" THEN UNCHANGED doc
       ELSE LET handled == Handled(m, Escaping(m, e))
            IN  handled.status = "ok" /\ doc' = [doc EXCEPT ![m] = handled.doc]

CutData(m) ==
    /\ BackoffCut(m)
    /\ LET handled == Handled(m, "States.Timeout")
       IN  handled.status = "ok" /\ doc' = [doc EXCEPT ![m] = handled.doc]

\* The branches' documents are gone with the branches.
JoinData(m) ==
    /\ Join(m)
    /\ Joined(m).status # "panic"
    /\ Failed(m) = {} => run'[m] = IF Joined(m).status = "ok" THEN Going(m, StateOf(m).next)
                                   ELSE Done(m, Joined(m).error)
    /\ doc' = [b \in Machine |->
                 CASE b = m             -> IF Joined(m).status = "ok" THEN Joined(m).doc ELSE doc[m]
                   [] b \in Branches(m) -> Null
                   [] OTHER             -> doc[b]]

OtherData(m) ==
    /\ \/ EnterUnknown(m) \/ EnterSucceed(m) \/ EnterFail(m) \/ EnterInvalid(m)
       \/ Retry(m) \/ WaitEnds(m)
    /\ UNCHANGED doc

-----------------------------------------------------------------------------
(* The panic: a key is set in a nil map.  No goroutine recovers.           *)

Panics(m) ==
    \/ Is(m, "Pass") /\ executePass(doc[m], DataOf(m)).status = "panic"
    \/ At(m, "invoke") /\ \E answer \in Answers[m] :
                            taskOutput(doc[m], answer, DataOf(m)).status = "panic"
    \/ At(m, "invoke") /\ \E e \in Error :
         Retried(m, e).pc # "backoff" /\ Handled(m, Escaping(m, e)).status = "panic"
    \/ /\ At(m, "backoff") /\ run[m].expired
       /\ Handled(m, "States.Timeout").status = "panic"
    \/ /\ At(m, "join") /\ \A b \in Branches(m) : At(b, "done")
       /\ Joined(m).status = "panic"

Crash(m) ==
    /\ Panics(m)
    /\ crashed' = TRUE
    /\ UNCHANGED <<vars, doc>>

-----------------------------------------------------------------------------

DataStep(m) ==
    \/ TaskBegins(m) \/ PassData(m) \/ ChoiceData(m) \/ WaitData(m) \/ ParallelData(m)
    \/ Answer(m) \/ (\E e \in Error : Failure(m, e)) \/ CutData(m) \/ JoinData(m)
    \/ OtherData(m)

MachineStep(m) ==
    /\ ~crashed
    /\ \/ DataStep(m) /\ UNCHANGED crashed
       \/ Crash(m)

DataNext ==
    \/ ~crashed /\ Begin /\ UNCHANGED crashed
    \/ \E m \in Machine : MachineStep(m)
    \/ \E m \in Machine : ~crashed /\ Expire(m) /\ UNCHANGED <<doc, crashed>>

\* Goroutines run, timers fire and invocations end, until the process panics.
\* Of an invocation, the scheduler limits the request and the wait for a ready
\* container; that the Docker daemon answers as well is assumed.
DataSpec ==
    DataInit /\ [][DataNext]_dataVars /\ \A m \in Machine : WF_vars(~crashed /\ Step(m))

-----------------------------------------------------------------------------
(* Properties *)

\* The paths of one and two keys that lead somewhere in d.
Readable(d) ==
    IF d.kind # "obj" THEN {}
    ELSE {At1(k) : k \in DOMAIN d.kids}
         \cup UNION {{At2(k, l) : l \in DOMAIN d.kids[k].kids} :
                      k \in {x \in DOMAIN d.kids : d.kids[x].kind = "obj"}}

\* Where the current state of m may write.
Writes(m) ==
    {AsResultPath(DataOf(m).result)}
    \cup {AsResultPath(DataOf(m).catches[i]) : i \in DOMAIN DataOf(m).catches}

Narrows(m) == StateOf(m).type = "Pass" /\ DataOf(m).output \notin {Omitted, Whole}

\* What is read back of a part of a document: it, or it with float64 numbers.
AsRead(d) == {Ok(d), Ok(Decoded(d))}

\* A field of the document is lost in no state unless a ResultPath of the state
\* covers it, whether the state succeeds, or its error is caught, or branches
\* are collected (workflows.md: "Use ResultPath to Preserve Context").  Its
\* numbers may become float64.  A document with a number out of the range of
\* float64 is the exception: a merge replaces it (jsonpath.go, mergePath).
FieldsKept ==
    [][\A m \in Machine :
         (~At(m, "idle") /\ run'[m].pc # "idle" /\ Defined(m) /\ ~Narrows(m) /\ Decodes(doc[m]))
           => \A q \in Readable(doc[m]) :
                (\A p \in Writes(m) : Apart(p, q))
                  => Field(doc'[m], q) \in AsRead(Field(doc[m], q).doc)]_dataVars

\* What is new in the document after a Task or a Parallel state can be read back
\* where the configuration says: the answer of the service, cut to the
\* OutputPath, or the list of what the branches made, in their order, at the
\* ResultPath; the error that a Catch rule names at the path of that rule.
\* OutputPath narrows the answer before it is stored, not what the state passes
\* on, as README.md:437-446 and workflows.md:280-282 have it.
ResultIsFound ==
    [][\A m \in Machine :
         (run[m].pc \in {"invoke", "backoff", "join"} /\ doc'[m] # doc[m])
           => LET Found(p) == CASE p.form = "root" -> Ok(doc'[m])
                                [] p.form = "keys" -> Field(doc'[m], p)
                                [] OTHER           -> Err(OtherError)
                  Results == IF At(m, "join") THEN {Ok(Array(Outputs(m)))}
                             ELSE {applyPath(answer, DataOf(m).output) : answer \in Answers[m]}
              IN  \/ \E r \in Results :
                       r.status = "ok" /\ Found(AsResultPath(DataOf(m).result)) \in AsRead(r.doc)
                  \/ \E i \in DOMAIN StateOf(m).catch, e \in Error :
                       /\ e \in StateOf(m).catch[i].errors
                       /\ Found(AsResultPath(DataOf(m).catches[i])) \in AsRead(ErrorObject(e))]_dataVars

\* A Choice of plain rules that does not fail goes where its first satisfied
\* rule says, or to the default if none is.
ChoiceIsFirstSatisfied ==
    [][\A m \in Machine :
         (Is(m, "Choice") /\ run'[m].pc = "enter" /\ run'[m] # run[m]
            /\ \A i \in DOMAIN DataOf(m).rules : Plain(DataOf(m).rules[i].rule))
           => LET rules == DataOf(m).rules
                  hits == {i \in DOMAIN rules : Satisfied(doc[m], rules[i].rule)}
              IN  run'[m].state = IF hits = {} THEN StateOf(m).default
                                  ELSE rules[Least(hits)].next]_dataVars

\* The process panics only in a state that merges below the top of a document
\* null; an input of any other kind becomes an object (jsonpath.go, mergePath).
OnlyNullPanics ==
    crashed => \E m \in Machine :
                 /\ ~At(m, "idle") /\ Defined(m) /\ doc[m].kind = "null"
                 /\ \E p \in Writes(m) : p.form = "keys"

\* A workflow whose states form no loop ends, or takes the process with it.
EndsOrPanics == ~At(Root, "idle") ~> (At(Root, "done") \/ crashed)
=============================================================================
