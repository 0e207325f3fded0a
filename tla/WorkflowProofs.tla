---------------------------- MODULE WorkflowProofs ----------------------------
(***************************************************************************)
(* Proofs about Workflow, for every definition of a workflow, however deep *)
(* its Parallel states nest: types (WorkflowTypeThm), bounds on retries    *)
(* (RetriesAreBoundedThm, TimeoutStopsRetriesThm), and that branches are   *)
(* joined and their failures reported (BranchesAreJoinedThm,               *)
(* OnlyEndLosesFailureThm); that an execution with its documents is one of *)
(* these (DataImplementsWorkflow); and what it does to the documents:      *)
(* fields are kept, results are found, choices follow their rules, and     *)
(* only null panics (FieldsKeptThm, ResultIsFoundThm,                      *)
(* ChoiceIsFirstSatisfiedThm, OnlyNullPanicsThm).                          *)
(*                                                                         *)
(* The invariant of Workflow has two parts.  MachineSound is about one     *)
(* machine at a time: the counter of attempts, which the code keeps,       *)
(* agrees with the history variables, which it does not.                   *)
(* BranchesAreJoined ties machines to each other and is inductive by       *)
(* itself: a machine that is in a Parallel state's branch stops being so   *)
(* only when the state is left.  Of documents the invariant is that they   *)
(* are Typed.                                                              *)
(***************************************************************************)
EXTENDS WorkflowData, TLAPS, WellFoundedInduction, SequenceTheorems

USE DefinitionAssumption DEF Error

-----------------------------------------------------------------------------
(* The inductive invariant *)

\* attempts is within the MaxAttempts of a rule of machine m's state n.
Allowed(m, n, attempt) ==
    \/ attempt = 0
    \/ \E i \in DOMAIN Definition[m].states[n].retry :
         attempt <= MaxAttempts(Definition[m].states[n].retry[i])

\* The record r of machine m agrees with c invocations, l of them late.
Sound(m, r, c, l) ==
    /\ r \in RunType /\ c \in Nat /\ l \in {0, 1}
    /\ r.pc # "idle" => r.state \in Name
    /\ r.pc \in {"invoke", "backoff", "join", "wait"} =>
         Definition[m].states[r.state] # NoState
    /\ r.pc = "enter" => r.attempt = 0
    /\ r.pc = "invoke" => c = r.attempt + 1 /\ (l = 1 => r.expired)
    /\ r.pc = "backoff" => c = r.attempt /\ l = 0
    /\ r.pc \in {"invoke", "backoff"} => Allowed(m, r.state, r.attempt)

MachineSound == \A m \in Machine : Sound(m, run[m], calls[m], late[m])

WorkflowInv ==
    /\ TypeOK
    /\ MachineSound
    /\ BranchesAreJoined

-----------------------------------------------------------------------------
(* Lemmas about the helpers *)

LEMMA LeastNatural ==
    ASSUME NEW S \in SUBSET Nat, S # {}
    PROVE  \E i \in S : \A j \in S : i <= j
<1>1. PICK i \in S : \A j \in S : ~(<<j, i>> \in OpToRel(<, Nat))
  BY WFMin, NatLessThanWellFounded
<1>2. \A j \in S : ~(j < i)
  BY <1>1 DEF OpToRel
<1> QED
  BY <1>2

LEMMA ElementInSet ==
    ASSUME NEW T, NEW s \in Seq(T), NEW i \in DOMAIN s
    PROVE  s[i] \in T
OBVIOUS

\* A rule that is found is in the list and names the error.
LEMMA FirstRuleFound ==
    ASSUME NEW T, NEW rules \in Seq(T), NEW e, FirstRule(rules, e) # 0
    PROVE  /\ FirstRule(rules, e) \in DOMAIN rules
           /\ rules[FirstRule(rules, e)] \in T
           /\ e \in rules[FirstRule(rules, e)].errors
<1> DEFINE hits == {i \in DOMAIN rules : e \in rules[i].errors}
<1>1. hits # {} /\ hits \in SUBSET Nat
  BY DEF FirstRule
<1>2. \E i \in hits : \A j \in hits : i <= j
  BY <1>1, LeastNatural
<1>3. FirstRule(rules, e) = CHOOSE i \in hits : \A j \in hits : i <= j
  BY <1>1 DEF FirstRule
<1>4. FirstRule(rules, e) \in hits
  BY <1>2, <1>3
<1> QED
  BY <1>4

LEMMA StateFacts ==
    ASSUME NEW m \in Machine, run[m].state \in Name, Defined(m)
    PROVE  /\ IsState(StateOf(m))
           /\ Branches(m) = {b \in Machine : b \in Range(StateOf(m).branches)}
           /\ Root \notin Branches(m)
<1>1. IsState(StateOf(m))
  BY DEF Defined, StateOf
<1>2. Branches(m) = {b \in Machine : b \in Range(StateOf(m).branches)}
  BY DEF Branches, Listed, Defined, StateOf
<1> QED
  BY <1>1, <1>2 DEF IsState, Range

\* Every way out of a state ends the machine or enters another state.
Landed(r) ==
    /\ r \in RunType
    /\ r.pc \in {"enter", "done"}
    /\ r.state \in Name
    /\ r.pc = "enter" => r.attempt = 0

LEMMA LandedSound ==
    ASSUME NEW m \in Machine, NEW r, NEW c \in Nat, NEW l \in {0, 1}, Landed(r)
    PROVE  Sound(m, r, c, l)
BY DEF Landed, Sound

LEMMA DoneLands ==
    ASSUME NEW m \in Machine, run[m] \in RunType, run[m].state \in Name,
           NEW e \in Error \cup {"ok"}
    PROVE  /\ Landed(Done(m, e))
           /\ Done(m, e).pc = "done" /\ Done(m, e).outcome = e
BY DEF Done, Landed, RunType, PC

LEMMA EnteringLands ==
    ASSUME NEW m \in Machine, NEW n \in Name
    PROVE  /\ Landed(Entering(m, n))
           /\ Entering(m, n).pc = "enter" /\ Entering(m, n).state = n
BY DEF Entering, Unstarted, Landed, RunType, PC

LEMMA GoingLands ==
    ASSUME NEW m \in Machine, run[m] \in RunType, run[m].state \in Name,
           NEW n \in Name \cup {NoName}
    PROVE  Landed(Going(m, n))
BY DoneLands, EnteringLands DEF Going

LEMMA CaughtLands ==
    ASSUME NEW m \in Machine, run[m] \in RunType, run[m].state \in Name,
           Defined(m), NEW e \in Error
    PROVE  Landed(Caught(m, e))
<1> DEFINE catch == StateOf(m).catch
           i == FirstRule(catch, e)
<1>1. catch \in Seq([errors : SUBSET Error, next : Name \cup {NoName}])
  BY StateFacts DEF IsState
<1>2. CASE i = 0
  BY <1>2, DoneLands DEF Caught
<1>3. CASE i # 0
  <2>1. catch[i] \in [errors : SUBSET Error, next : Name \cup {NoName}]
    BY <1>1, <1>3, FirstRuleFound
  <2>2. catch[i].next \in Name \cup {NoName}
    BY <2>1
  <2> QED
    BY <1>3, <2>2, GoingLands DEF Caught
<1> QED
  BY <1>2, <1>3

\* After a failed invocation a machine leaves the state, or waits for an
\* attempt that one of its rules allows, and then its timeout is not over.
LEMMA RetriedEffect ==
    ASSUME NEW m \in Machine, run[m] \in RunType, run[m].state \in Name,
           Defined(m), NEW e \in Error
    PROVE  \/ Landed(Retried(m, e))
           \/ /\ Retried(m, e) = [run[m] EXCEPT !.pc = "backoff",
                                                !.attempt = run[m].attempt + 1]
              /\ ~run[m].expired
              /\ Allowed(m, run[m].state, run[m].attempt + 1)
<1> DEFINE retry == StateOf(m).retry
           i == FirstRule(retry, e)
<1>1. retry \in Seq([errors : SUBSET Error, max : Nat])
  BY StateFacts DEF IsState
<1>2. CASE i = 0 \/ (i # 0 /\ run[m].attempt >= MaxAttempts(retry[i]))
  <2>1. Retried(m, e) = Caught(m, e)
    BY <1>2 DEF Retried
  <2> QED
    BY <2>1, CaughtLands
<1>3. CASE ~(i = 0 \/ (i # 0 /\ run[m].attempt >= MaxAttempts(retry[i])))
  <2>1. i \in DOMAIN retry /\ retry[i] \in [errors : SUBSET Error, max : Nat]
    BY <1>1, <1>3, FirstRuleFound
  <2>2. MaxAttempts(retry[i]) \in Nat /\ run[m].attempt \in Nat
    BY <2>1 DEF MaxAttempts, RunType
  <2>3. run[m].attempt + 1 <= MaxAttempts(retry[i])
    BY <1>3, <2>2
  <2>4. Allowed(m, run[m].state, run[m].attempt + 1)
    BY <2>1, <2>3 DEF Allowed, StateOf
  <2>5. CASE run[m].expired
    <3>1. Retried(m, e) = Caught(m, "States.Timeout")
      BY <1>3, <2>5 DEF Retried
    <3> QED
      BY <3>1, CaughtLands
  <2>6. CASE ~run[m].expired
    BY <1>3, <2>4, <2>6 DEF Retried
  <2> QED
    BY <2>5, <2>6
<1> QED
  BY <1>2, <1>3

-----------------------------------------------------------------------------
(* Steps of one machine *)

\* A step that changes one machine, which is not waiting for branches: they
\* stay joined.
LEMMA BecomeKeeps ==
    ASSUME WorkflowInv, NEW m \in Machine, NEW r,
           ~At(m, "join"), m # Root => ~At(m, "idle"),
           Become(m, r),
           calls' \in [Machine -> Nat], late' \in [Machine -> Nat],
           \A b \in Machine \ {m} : calls'[b] = calls[b] /\ late'[b] = late[b],
           Sound(m, r, calls'[m], late'[m])
    PROVE  WorkflowInv'
<1>1. run \in [Machine -> RunType] /\ r \in RunType
  BY DEF WorkflowInv, TypeOK, Sound
<1>2. /\ run' \in [Machine -> RunType]
      /\ run'[m] = r
      /\ \A b \in Machine \ {m} : run'[b] = run[b]
  BY <1>1 DEF Become
<1>3. MachineSound'
  <2> SUFFICES ASSUME NEW b \in Machine
               PROVE  Sound(b, run'[b], calls'[b], late'[b])
    BY DEF MachineSound
  <2>1. CASE b = m
    BY <1>2, <2>1
  <2>2. CASE b # m
    BY <1>2, <2>2 DEF WorkflowInv, MachineSound
  <2> QED
    BY <2>1, <2>2
<1>4. TypeOK'
  <2>1. \A b \in Machine : run'[b].pc # "idle" => run'[b].state \in Name
    BY <1>3 DEF MachineSound, Sound
  <2> QED
    BY <1>2, <2>1 DEF TypeOK, At
<1>5. BranchesAreJoined'
  <2> SUFFICES ASSUME NEW b \in Machine \ {Root}, ~At(b, "idle")'
               PROVE  \E k \in Machine : At(k, "join")' /\ b \in Branches(k)'
    BY DEF BranchesAreJoined
  <2>1. ~At(b, "idle")
    BY <1>2 DEF At
  <2>2. PICK k \in Machine : At(k, "join") /\ b \in Branches(k)
    BY <2>1 DEF WorkflowInv, BranchesAreJoined
  <2>3. run'[k] = run[k]
    BY <1>2, <2>2
  <2> QED
    BY <2>2, <2>3 DEF At, Branches
<1> QED
  BY <1>3, <1>4, <1>5 DEF WorkflowInv

\* What is known of a machine that is somewhere.
LEMMA MachineFacts ==
    ASSUME WorkflowInv, NEW m \in Machine, ~At(m, "idle")
    PROVE  /\ run[m] \in RunType /\ run[m].state \in Name
           /\ calls[m] \in Nat /\ late[m] \in {0, 1}
           /\ Sound(m, run[m], calls[m], late[m])
           /\ run[m].pc \in {"invoke", "backoff", "join", "wait"} => Defined(m)
BY DEF WorkflowInv, TypeOK, MachineSound, Sound, At, Defined

\* A step in which a machine ends or goes to another state.
LEMMA LandingKeeps ==
    ASSUME WorkflowInv, NEW m \in Machine, ~At(m, "idle"), ~At(m, "join"),
           NEW r, Landed(r), Become(m, r), UNCHANGED <<calls, late>>
    PROVE  WorkflowInv'
<1>1. calls'[m] \in Nat /\ late'[m] \in {0, 1}
  BY MachineFacts
<1>2. Sound(m, r, calls'[m], late'[m])
  BY <1>1, LandedSound
<1>3. calls' \in [Machine -> Nat] /\ late' \in [Machine -> Nat]
  BY DEF WorkflowInv, TypeOK
<1> QED
  BY <1>2, <1>3, BecomeKeeps

LEMMA PathFailsLands ==
    ASSUME NEW m \in Machine, run[m] \in RunType, run[m].state \in Name, PathFails(m)
    PROVE  \E r : Landed(r) /\ Become(m, r)
BY DoneLands DEF PathFails, PathErrors

-----------------------------------------------------------------------------
(* The actions *)

LEMMA ExecuteKeeps == WorkflowInv /\ Execute => WorkflowInv'
<1> SUFFICES ASSUME WorkflowInv, Execute PROVE WorkflowInv'
  OBVIOUS
<1> DEFINE r == Entering(Root, Definition[Root].startAt)
<1>1. Landed(r)
  BY EnteringLands
<1>2. /\ calls' \in [Machine -> Nat] /\ late' \in [Machine -> Nat]
      /\ late[Root] \in {0, 1} /\ UNCHANGED <<calls, late>>
  BY DEF WorkflowInv, TypeOK, MachineSound, Sound, Execute
<1>3. Sound(Root, r, calls'[Root], late'[Root])
  BY <1>1, <1>2, LandedSound
<1>4. Become(Root, r) /\ ~At(Root, "join")
  BY DEF Execute, At
<1> QED
  BY <1>2, <1>3, <1>4, BecomeKeeps

\* The states that end, or go on, without a wait.
LEMMA PassingKeeps ==
    ASSUME WorkflowInv, NEW m \in Machine,
           \/ EnterUnknown(m) \/ EnterPass(m) \/ EnterChoice(m)
           \/ EnterSucceed(m) \/ EnterFail(m) \/ EnterInvalid(m)
    PROVE  WorkflowInv'
<1>1. At(m, "enter") /\ ~At(m, "idle") /\ ~At(m, "join") /\ UNCHANGED <<calls, late>>
  BY DEF EnterUnknown, EnterPass, EnterChoice, EnterSucceed, EnterFail, EnterInvalid,
         Is, At
<1>2. run[m] \in RunType /\ run[m].state \in Name
  BY <1>1, MachineFacts
<1>3. SUFFICES \E r : Landed(r) /\ Become(m, r)
  BY <1>1, LandingKeeps
<1>4. CASE EnterUnknown(m)
  BY <1>2, <1>4, DoneLands DEF EnterUnknown
<1>5. CASE EnterPass(m)
  <2>1. Defined(m)
    BY <1>5 DEF EnterPass, Is
  <2>2. StateOf(m).next \in Name \cup {NoName}
    BY <1>2, <2>1, StateFacts DEF IsState
  <2> QED
    BY <1>2, <1>5, <2>2, GoingLands, PathFailsLands DEF EnterPass
<1>6. CASE EnterChoice(m)
  <2>1. Defined(m)
    BY <1>6 DEF EnterChoice, Is
  <2>2. StateOf(m).default \in Name \cup {NoName} /\ StateOf(m).choices \subseteq Name
    BY <1>2, <2>1, StateFacts DEF IsState
  <2> QED
    BY <1>2, <1>6, <2>2, GoingLands, DoneLands, PathFailsLands DEF EnterChoice
<1>7. CASE EnterSucceed(m)
  BY <1>2, <1>7, DoneLands DEF EnterSucceed
<1>8. CASE EnterFail(m)
  BY <1>2, <1>8, DoneLands DEF EnterFail
<1>9. CASE EnterInvalid(m)
  BY <1>2, <1>9, DoneLands DEF EnterInvalid
<1> QED
  BY <1>4, <1>5, <1>6, <1>7, <1>8, <1>9

LEMMA EnterTaskKeeps ==
    ASSUME WorkflowInv, NEW m \in Machine, EnterTask(m)
    PROVE  WorkflowInv'
<1>1. At(m, "enter") /\ ~At(m, "idle") /\ ~At(m, "join") /\ Defined(m)
  BY DEF EnterTask, Is, At
<1>2. run[m] \in RunType /\ run[m].state \in Name /\ run[m].attempt = 0
  BY <1>1, MachineFacts DEF Sound, At
<1>3. calls \in [Machine -> Nat] /\ late \in [Machine -> Nat]
  BY DEF WorkflowInv, TypeOK
<1>4. CASE PathFails(m) /\ UNCHANGED <<calls, late>>
  BY <1>1, <1>2, <1>4, PathFailsLands, LandingKeeps
<1>5. CASE /\ Become(m, [run[m] EXCEPT !.pc = "invoke"])
           /\ calls' = [calls EXCEPT ![m] = 1]
           /\ late' = [late EXCEPT ![m] = 0]
  <2> DEFINE r == [run[m] EXCEPT !.pc = "invoke"]
  <2>1. /\ r \in RunType /\ r.pc = "invoke" /\ r.state = run[m].state
        /\ r.attempt = 0
    BY <1>2 DEF RunType, PC
  <2>2. Allowed(m, r.state, r.attempt)
    BY <2>1 DEF Allowed
  <2>3. /\ calls' \in [Machine -> Nat] /\ late' \in [Machine -> Nat]
        /\ calls'[m] = 1 /\ late'[m] = 0
        /\ \A b \in Machine \ {m} : calls'[b] = calls[b] /\ late'[b] = late[b]
    BY <1>3, <1>5
  <2> HIDE DEF r
  <2>4. Sound(m, r, calls'[m], late'[m])
    BY <1>1, <1>2, <2>1, <2>2, <2>3 DEF Sound, Defined
  <2>5. Become(m, r)
    BY <1>5 DEF r
  <2> QED
    BY <1>1, <2>3, <2>4, <2>5, BecomeKeeps
<1> QED
  BY <1>4, <1>5 DEF EnterTask

LEMMA EnterWaitKeeps ==
    ASSUME WorkflowInv, NEW m \in Machine, EnterWait(m)
    PROVE  WorkflowInv'
<1>1. ~At(m, "idle") /\ ~At(m, "join") /\ Defined(m) /\ UNCHANGED <<calls, late>>
  BY DEF EnterWait, Is, At
<1>2. /\ run[m] \in RunType /\ run[m].state \in Name
      /\ calls[m] \in Nat /\ late[m] \in {0, 1}
  BY <1>1, MachineFacts
<1>3. CASE PathFails(m)
  BY <1>1, <1>2, <1>3, PathFailsLands, LandingKeeps
<1>4. CASE Become(m, [run[m] EXCEPT !.pc = "wait"])
  <2> DEFINE r == [run[m] EXCEPT !.pc = "wait"]
  <2>1. r \in RunType /\ r.pc = "wait" /\ r.state = run[m].state
    BY <1>2 DEF RunType, PC
  <2> HIDE DEF r
  <2>2. Sound(m, r, calls'[m], late'[m])
    BY <1>1, <1>2, <2>1 DEF Sound, Defined
  <2>3. Become(m, r)
    BY <1>4 DEF r
  <2>4. calls' \in [Machine -> Nat] /\ late' \in [Machine -> Nat]
    BY <1>1 DEF WorkflowInv, TypeOK
  <2> QED
    BY <1>1, <2>2, <2>3, <2>4, BecomeKeeps
<1> QED
  BY <1>3, <1>4 DEF EnterWait

\* The answer, or the end, of what a machine waits for alone.
LEMMA AnswerKeeps ==
    ASSUME WorkflowInv, NEW m \in Machine,
           InvokeSucceeds(m) \/ BackoffCut(m) \/ WaitEnds(m)
    PROVE  WorkflowInv'
<1>1. /\ run[m].pc \in {"invoke", "backoff", "wait"}
      /\ ~At(m, "idle") /\ ~At(m, "join") /\ UNCHANGED <<calls, late>>
  BY DEF InvokeSucceeds, BackoffCut, WaitEnds, At
<1>2. run[m] \in RunType /\ run[m].state \in Name /\ Defined(m)
  BY <1>1, MachineFacts
<1>3. StateOf(m).next \in Name \cup {NoName}
  BY <1>2, StateFacts DEF IsState
<1>4. CASE InvokeSucceeds(m)
  BY <1>1, <1>2, <1>3, <1>4, GoingLands, PathFailsLands, LandingKeeps
     DEF InvokeSucceeds
<1>5. CASE BackoffCut(m)
  BY <1>1, <1>2, <1>5, CaughtLands, LandingKeeps DEF BackoffCut
<1>6. CASE WaitEnds(m)
  BY <1>1, <1>2, <1>3, <1>6, GoingLands, LandingKeeps DEF WaitEnds
<1> QED
  BY <1>4, <1>5, <1>6

LEMMA InvokeFailsKeeps ==
    ASSUME WorkflowInv, NEW m \in Machine, NEW e \in Error, InvokeFails(m, e)
    PROVE  WorkflowInv'
<1>1. At(m, "invoke") /\ ~At(m, "idle") /\ ~At(m, "join") /\ UNCHANGED <<calls, late>>
  BY DEF InvokeFails, At
<1>2. /\ run[m] \in RunType /\ run[m].state \in Name /\ Defined(m)
      /\ calls[m] \in Nat /\ calls[m] = run[m].attempt + 1 /\ late[m] \in {0, 1}
      /\ late[m] = 1 => run[m].expired
  BY <1>1, MachineFacts DEF Sound, At
<1>3. Become(m, Retried(m, e))
  BY DEF InvokeFails
<1>4. CASE Landed(Retried(m, e))
  BY <1>1, <1>3, <1>4, LandingKeeps
<1>5. CASE /\ Retried(m, e) = [run[m] EXCEPT !.pc = "backoff",
                                             !.attempt = run[m].attempt + 1]
           /\ ~run[m].expired
           /\ Allowed(m, run[m].state, run[m].attempt + 1)
  <2> DEFINE r == [run[m] EXCEPT !.pc = "backoff", !.attempt = run[m].attempt + 1]
  <2>1. /\ r \in RunType /\ r.pc = "backoff" /\ r.state = run[m].state
        /\ r.attempt = run[m].attempt + 1
    <3>1. run[m] \in RunType /\ run[m].attempt + 1 \in Nat
      BY <1>2 DEF RunType
    <3> DEFINE a == run[m].attempt + 1
    <3> HIDE DEF a
    <3>2. LET q == [run[m] EXCEPT !.pc = "backoff", !.attempt = a]
          IN  q \in RunType /\ q.pc = "backoff" /\ q.state = run[m].state /\ q.attempt = a
      BY <3>1 DEF RunType, PC, a
    <3> QED
      BY <3>2 DEF a
  <2>2. late[m] = 0
    BY <1>2, <1>5
  <2>3. Become(m, r)
    BY <1>3, <1>5
  <2> HIDE DEF r
  <2>4. Allowed(m, r.state, r.attempt)
    BY <1>5, <2>1
  <2>5. Sound(m, r, calls'[m], late'[m])
    BY <1>1, <1>2, <2>1, <2>2, <2>4 DEF Sound, Defined
  <2>6. calls' \in [Machine -> Nat] /\ late' \in [Machine -> Nat]
    BY <1>1 DEF WorkflowInv, TypeOK
  <2> QED
    BY <1>1, <2>3, <2>5, <2>6, BecomeKeeps
<1> QED
  BY <1>2, <1>4, <1>5, RetriedEffect

LEMMA RetryKeeps ==
    ASSUME WorkflowInv, NEW m \in Machine, Retry(m)
    PROVE  WorkflowInv'
<1> DEFINE r == [run[m] EXCEPT !.pc = "invoke"]
<1>1. At(m, "backoff") /\ ~At(m, "idle") /\ ~At(m, "join") /\ Become(m, r)
  BY DEF Retry, At
<1>2. /\ run[m] \in RunType /\ run[m].state \in Name /\ Defined(m)
      /\ calls[m] = run[m].attempt /\ late[m] = 0
      /\ Allowed(m, run[m].state, run[m].attempt)
  BY <1>1, MachineFacts DEF Sound, At
<1>3. calls \in [Machine -> Nat] /\ late \in [Machine -> Nat]
  BY DEF WorkflowInv, TypeOK
<1>4. /\ r \in RunType /\ r.pc = "invoke" /\ r.state = run[m].state
      /\ r.attempt = run[m].attempt
  BY <1>2 DEF RunType, PC
<1>5. r.expired = run[m].expired
  BY <1>2 DEF RunType
<1> HIDE DEF r
<1>6. /\ calls' \in [Machine -> Nat]
      /\ calls'[m] = calls[m] + 1
      /\ \A b \in Machine \ {m} : calls'[b] = calls[b]
  BY <1>3 DEF Retry
<1>7. /\ late' \in [Machine -> Nat]
      /\ late'[m] \in {0, 1}
      /\ late'[m] = 1 => run[m].expired
      /\ \A b \in Machine \ {m} : late'[b] = late[b]
  <2>1. CASE run[m].expired
    BY <1>2, <1>3, <2>1 DEF Retry
  <2>2. CASE ~run[m].expired
    BY <1>2, <1>3, <2>2 DEF Retry
  <2> QED
    BY <2>1, <2>2
<1>8. Sound(m, r, calls'[m], late'[m])
  BY <1>2, <1>4, <1>5, <1>6, <1>7 DEF Sound, Defined
<1> QED
  BY <1>1, <1>6, <1>7, <1>8, BecomeKeeps

LEMMA ExpireKeeps ==
    ASSUME WorkflowInv, NEW m \in Machine, Expire(m)
    PROVE  WorkflowInv'
<1> DEFINE r == [run[m] EXCEPT !.expired = TRUE]
<1>1. /\ run[m].pc \in {"invoke", "backoff"} /\ ~At(m, "idle") /\ ~At(m, "join")
      /\ Become(m, r) /\ UNCHANGED <<calls, late>>
  BY DEF Expire, At
<1>2. run[m] \in RunType /\ Sound(m, run[m], calls[m], late[m])
  BY <1>1, MachineFacts
<1>3. /\ r \in RunType /\ r.pc = run[m].pc /\ r.state = run[m].state
      /\ r.attempt = run[m].attempt /\ r.expired = TRUE
  BY <1>2 DEF RunType
<1> HIDE DEF r
<1>4. Sound(m, r, calls'[m], late'[m])
  BY <1>1, <1>2, <1>3 DEF Sound
<1>5. calls' \in [Machine -> Nat] /\ late' \in [Machine -> Nat]
  BY <1>1 DEF WorkflowInv, TypeOK
<1> QED
  BY <1>1, <1>4, <1>5, BecomeKeeps

-----------------------------------------------------------------------------
(* Parallel *)

\* A branch that is not idle belongs to no machine but the one that waits for
\* it.
LEMMA BranchesIdle ==
    ASSUME WorkflowInv, NEW m \in Machine, run[m].state \in Name, Defined(m),
           ~At(m, "join"), NEW b \in Branches(m)
    PROVE  At(b, "idle")
<1>1. b \in Machine \ {Root}
  BY StateFacts DEF Branches, Listed
<1>2. SUFFICES ASSUME ~At(b, "idle") PROVE FALSE
  OBVIOUS
<1>3. PICK k \in Machine : At(k, "join") /\ b \in Branches(k)
  BY <1>1, <1>2 DEF WorkflowInv, BranchesAreJoined
<1>4. run[k].state \in Name
  BY <1>3, MachineFacts DEF At
<1>5. Listed(k, run[k].state) \cap Listed(m, run[m].state) # {}
  BY <1>3 DEF Branches
<1>6. k = m
  BY <1>4, <1>5, NestingAssumption
<1> QED
  BY <1>3, <1>6

LEMMA EnterParallelKeeps ==
    ASSUME WorkflowInv, NEW m \in Machine, EnterParallel(m)
    PROVE  WorkflowInv'
<1> DEFINE r == [run[m] EXCEPT !.pc = "join"]
           begun(b) == Entering(b, Definition[b].startAt)
<1>1. At(m, "enter") /\ ~At(m, "idle") /\ ~At(m, "join") /\ Defined(m)
      /\ UNCHANGED <<calls, late>>
  BY DEF EnterParallel, Is, At
<1>2. run[m] \in RunType /\ run[m].state \in Name
  BY <1>1, MachineFacts
<1>3. /\ calls' \in [Machine -> Nat] /\ late' \in [Machine -> Nat]
      /\ \A b \in Machine : calls'[b] = calls[b] /\ late'[b] = late[b]
      /\ \A b \in Machine : calls[b] \in Nat /\ late[b] \in {0, 1}
  BY <1>1 DEF WorkflowInv, TypeOK, MachineSound, Sound
<1>4. CASE StateOf(m).branches = <<>>
  <2>1. Become(m, Done(m, "States.TaskFailed"))
    BY <1>4 DEF EnterParallel
  <2> QED
    BY <1>1, <1>2, <2>1, DoneLands, LandingKeeps
<1>5. CASE StateOf(m).branches # <<>>
  <2>1. m \notin Branches(m)
    BY <1>1, <1>2, BranchesIdle
  <2>2. run' = [b \in Machine |-> CASE b = m            -> r
                                    [] b \in Branches(m) -> begun(b)
                                    [] OTHER            -> run[b]]
    BY <1>5 DEF EnterParallel
  <2> HIDE DEF r, begun
  <2>3. /\ run'[m] = r
        /\ \A b \in Branches(m) : run'[b] = begun(b)
        /\ \A b \in Machine \ {m} : b \notin Branches(m) => run'[b] = run[b]
        /\ DOMAIN run' = Machine /\ Branches(m) \subseteq Machine
    BY <2>1, <2>2 DEF Branches, Listed
  <2>4. r \in RunType /\ r.pc = "join" /\ r.state = run[m].state
    BY <1>2 DEF RunType, PC, r
  <2>5. \A b \in Branches(m) : Landed(begun(b))
    BY <2>3, EnteringLands DEF begun
  <2>6. MachineSound'
    <3> SUFFICES ASSUME NEW b \in Machine
                 PROVE  Sound(b, run'[b], calls'[b], late'[b])
      BY DEF MachineSound
    <3>1. CASE b = m
      BY <1>1, <1>2, <1>3, <2>3, <2>4, <3>1 DEF Sound, Defined
    <3>2. CASE b \in Branches(m)
      BY <1>3, <2>3, <2>5, <3>2, LandedSound
    <3>3. CASE b # m /\ b \notin Branches(m)
      BY <1>3, <2>3, <3>3 DEF WorkflowInv, MachineSound
    <3> QED
      BY <3>1, <3>2, <3>3
  <2>7. TypeOK'
    <3>1. \A b \in Machine : run'[b] \in RunType
                             /\ (run'[b].pc # "idle" => run'[b].state \in Name)
      BY <2>6 DEF MachineSound, Sound
    <3>2. run' \in [Machine -> RunType]
      <4>1. run' = [b \in Machine |-> run'[b]]
        BY <2>2
      <4> QED
        BY <3>1, <4>1
    <3> QED
      BY <1>3, <3>1, <3>2 DEF TypeOK, At
  <2>8. BranchesAreJoined'
    <3> SUFFICES ASSUME NEW b \in Machine \ {Root}, ~At(b, "idle")'
                 PROVE  \E k \in Machine : At(k, "join")' /\ b \in Branches(k)'
      BY DEF BranchesAreJoined
    <3>1. CASE b \in Branches(m)
      BY <2>3, <2>4, <3>1 DEF At, Branches
    <3>2. CASE b \notin Branches(m)
      <4>1. ~At(b, "idle")
        BY <1>1, <2>3, <3>2 DEF At
      <4>2. PICK k \in Machine : At(k, "join") /\ b \in Branches(k)
        BY <4>1 DEF WorkflowInv, BranchesAreJoined
      <4>3. k # m /\ ~At(k, "idle")
        BY <1>1, <4>2 DEF At
      <4>4. k \notin Branches(m)
        BY <1>1, <1>2, <4>3, BranchesIdle
      <4>5. run'[k] = run[k]
        BY <2>3, <4>3, <4>4
      <4> QED
        BY <4>2, <4>5 DEF At, Branches
    <3> QED
      BY <3>1, <3>2
  <2> QED
    BY <2>6, <2>7, <2>8 DEF WorkflowInv
<1> QED
  BY <1>4, <1>5

\* The failure that a machine reports is that of one of its branches.
LEMMA FirstFailureFacts ==
    ASSUME WorkflowInv, NEW m \in Machine, At(m, "join"), Failed(m) # {}
    PROVE  /\ FirstFailure(m) \in Error
           /\ \E b \in Branches(m) : FirstFailure(m) = run[b].outcome
<1> DEFINE branches == StateOf(m).branches
           first == CHOOSE i \in Failed(m) : \A j \in Failed(m) : i <= j
<1>1. run[m].state \in Name /\ Defined(m)
  BY MachineFacts DEF At
<1>2. /\ branches \in Seq(Machine \ {Root})
      /\ Branches(m) = {b \in Machine : b \in Range(branches)}
  BY <1>1, StateFacts DEF IsState
<1>3. Failed(m) = {i \in DOMAIN branches : run[branches[i]].outcome # "ok"}
  BY DEF Failed
<1>4. Failed(m) \in SUBSET Nat
  BY <1>2, <1>3
<1>5. first \in Failed(m)
  <2>1. \E i \in Failed(m) : \A j \in Failed(m) : i <= j
    BY <1>4, LeastNatural
  <2> QED
    BY <2>1
<1> HIDE DEF first
<1>6. branches[first] \in Branches(m) /\ branches[first] \in Machine
  BY <1>2, <1>3, <1>5 DEF Range
<1>7. FirstFailure(m) = run[branches[first]].outcome
  BY DEF FirstFailure, first
<1>8. run[branches[first]].outcome \in Error
  <2>1. run[branches[first]].outcome # "ok"
    BY <1>3, <1>5
  <2>2. run[branches[first]] \in RunType
    BY <1>6 DEF WorkflowInv, TypeOK
  <2>3. run[branches[first]].outcome \in Error \cup {"ok"}
    BY <2>2 DEF RunType
  <2> QED
    BY <2>1, <2>3
<1> QED
  BY <1>6, <1>7, <1>8

\* Join leaves the state by one of its three ways.
LEMMA JoinLeaves ==
    ASSUME WorkflowInv, NEW m \in Machine, Join(m)
    PROVE  \E after : Landed(after) /\ Leave(m, after)
<1>1. At(m, "join") /\ ~At(m, "idle")
  BY DEF Join, At
<1>2. run[m] \in RunType /\ run[m].state \in Name /\ Defined(m)
  BY <1>1, MachineFacts DEF At
<1>3. StateOf(m).next \in Name \cup {NoName}
  BY <1>2, StateFacts DEF IsState
<1>4. CASE Failed(m) = {} /\ Leave(m, Going(m, StateOf(m).next))
  BY <1>2, <1>3, <1>4, GoingLands
<1>5. CASE \E e \in PathErrors : Leave(m, Done(m, e))
  BY <1>2, <1>5, DoneLands DEF PathErrors
<1>6. CASE Failed(m) # {} /\ Leave(m, Caught(m, FirstFailure(m)))
  BY <1>1, <1>2, <1>6, FirstFailureFacts, CaughtLands
<1> QED
  BY <1>4, <1>5, <1>6 DEF Join

LEMMA JoinKeeps ==
    ASSUME WorkflowInv, NEW m \in Machine, Join(m)
    PROVE  WorkflowInv'
<1>1. At(m, "join") /\ (\A b \in Branches(m) : At(b, "done")) /\ UNCHANGED <<calls, late>>
  BY DEF Join
<1>2. /\ calls' \in [Machine -> Nat] /\ late' \in [Machine -> Nat]
      /\ \A b \in Machine : calls'[b] = calls[b] /\ late'[b] = late[b]
      /\ \A b \in Machine : calls[b] \in Nat /\ late[b] \in {0, 1}
  BY <1>1 DEF WorkflowInv, TypeOK, MachineSound, Sound
<1>3. PICK after : Landed(after) /\ Leave(m, after)
  BY JoinLeaves
<1>4. m \notin Branches(m)
  BY <1>1 DEF At
<1>5. /\ run'[m] = after
      /\ \A b \in Branches(m) : run'[b] = Unstarted
      /\ \A b \in Machine \ {m} : b \notin Branches(m) => run'[b] = run[b]
      /\ run' = [b \in Machine |-> run'[b]] /\ Branches(m) \subseteq Machine
  BY <1>3, <1>4 DEF Leave, Branches, Listed
<1>6. MachineSound'
  <2> SUFFICES ASSUME NEW b \in Machine
               PROVE  Sound(b, run'[b], calls'[b], late'[b])
    BY DEF MachineSound
  <2>1. CASE b = m
    BY <1>2, <1>3, <1>5, <2>1, LandedSound
  <2>2. CASE b \in Branches(m)
    <3>1. run'[b] = Unstarted /\ Unstarted \in RunType /\ Unstarted.pc = "idle"
      BY <1>5, <2>2 DEF Unstarted, RunType, PC
    <3> QED
      BY <1>2, <3>1 DEF Sound
  <2>3. CASE b # m /\ b \notin Branches(m)
    BY <1>2, <1>5, <2>3 DEF WorkflowInv, MachineSound
  <2> QED
    BY <2>1, <2>2, <2>3
<1>7. TypeOK'
  <2>1. \A b \in Machine : run'[b] \in RunType
                           /\ (run'[b].pc # "idle" => run'[b].state \in Name)
    BY <1>6 DEF MachineSound, Sound
  <2>2. run' \in [Machine -> RunType]
    BY <1>5, <2>1
  <2> QED
    BY <1>2, <2>1, <2>2 DEF TypeOK, At
<1>8. BranchesAreJoined'
  <2> SUFFICES ASSUME NEW b \in Machine \ {Root}, ~At(b, "idle")'
               PROVE  \E k \in Machine : At(k, "join")' /\ b \in Branches(k)'
    BY DEF BranchesAreJoined
  <2>1. b \notin Branches(m)
    BY <1>5 DEF At, Unstarted
  <2>2. ~At(b, "idle")
    BY <1>1, <1>5, <2>1 DEF At
  <2>3. PICK k \in Machine : At(k, "join") /\ b \in Branches(k)
    BY <2>2 DEF WorkflowInv, BranchesAreJoined
  <2>4. k # m /\ k \notin Branches(m)
    BY <1>1, <2>1, <2>3 DEF At
  <2>5. run'[k] = run[k]
    BY <1>5, <2>4
  <2> QED
    BY <2>3, <2>5 DEF At, Branches
<1> QED
  BY <1>6, <1>7, <1>8 DEF WorkflowInv

-----------------------------------------------------------------------------
(* Safety *)

LEMMA WorkflowInit == Init => WorkflowInv
<1> SUFFICES ASSUME Init PROVE WorkflowInv
  OBVIOUS
<1>1. Unstarted \in RunType /\ Unstarted.pc = "idle"
  BY DEF Unstarted, RunType, PC
<1>2. \A m \in Machine : run[m] = Unstarted /\ calls[m] = 0 /\ late[m] = 0
  BY DEF Init
<1>3. TypeOK
  BY <1>1, <1>2 DEF Init, TypeOK, At
<1>4. MachineSound
  BY <1>1, <1>2 DEF MachineSound, Sound
<1>5. BranchesAreJoined
  BY <1>1, <1>2 DEF BranchesAreJoined, At
<1> QED
  BY <1>3, <1>4, <1>5 DEF WorkflowInv

LEMMA WorkflowStep == WorkflowInv /\ [Next]_vars => WorkflowInv'
<1> SUFFICES ASSUME WorkflowInv, [Next]_vars PROVE WorkflowInv'
  OBVIOUS
<1>1. CASE Execute
  BY <1>1, ExecuteKeeps
<1>2. ASSUME NEW m \in Machine, Step(m) PROVE WorkflowInv'
  BY <1>2, PassingKeeps, EnterTaskKeeps, EnterWaitKeeps, EnterParallelKeeps,
     AnswerKeeps, InvokeFailsKeeps, RetryKeeps, JoinKeeps DEF Step
<1>3. ASSUME NEW m \in Machine, Expire(m) PROVE WorkflowInv'
  BY <1>3, ExpireKeeps
<1>4. CASE UNCHANGED vars
  BY <1>4 DEF vars, WorkflowInv, TypeOK, MachineSound, BranchesAreJoined, At, Branches
<1> QED
  BY <1>1, <1>2, <1>3, <1>4 DEF Next

LEMMA WorkflowInvariant == Spec => []WorkflowInv
BY WorkflowInit, WorkflowStep, PTL DEF Spec

\* The records of executeState's machines keep their types, and a machine
\* that runs is in a state with a name.
THEOREM WorkflowTypeThm == Spec => []TypeOK
BY WorkflowInvariant, PTL DEF WorkflowInv

\* No branch of executeParallel outlives its Parallel state, at any depth of
\* nesting.
THEOREM BranchesAreJoinedThm == Spec => []BranchesAreJoined
BY WorkflowInvariant, PTL DEF WorkflowInv

\* invokeWithRetry invokes at most MaxAttempts + 1 times, for the largest
\* MaxAttempts of the state's rules.
THEOREM RetriesAreBoundedThm == Spec => []RetriesAreBounded
<1>1. WorkflowInv => RetriesAreBounded
  <2> SUFFICES ASSUME WorkflowInv, NEW m \in Machine, At(m, "invoke")
               PROVE  \/ calls[m] = 1
                      \/ \E i \in DOMAIN StateOf(m).retry :
                           calls[m] <= MaxAttempts(StateOf(m).retry[i]) + 1
    BY DEF RetriesAreBounded
  <2>1. run[m] \in RunType /\ run[m].state \in Name /\ Defined(m)
        /\ Sound(m, run[m], calls[m], late[m])
    BY MachineFacts DEF At
  <2>2. calls[m] = run[m].attempt + 1 /\ Allowed(m, run[m].state, run[m].attempt)
    BY <2>1 DEF Sound, At
  <2>3. CASE run[m].attempt = 0
    BY <2>2, <2>3
  <2>4. ASSUME NEW i \in DOMAIN StateOf(m).retry,
               run[m].attempt <= MaxAttempts(StateOf(m).retry[i])
        PROVE  calls[m] <= MaxAttempts(StateOf(m).retry[i]) + 1
    <3>1. StateOf(m).retry \in Seq([errors : SUBSET Error, max : Nat])
      BY <2>1, StateFacts DEF IsState
    <3>2. StateOf(m).retry[i] \in [errors : SUBSET Error, max : Nat]
      BY <3>1, ElementInSet
    <3>3. MaxAttempts(StateOf(m).retry[i]) \in Nat /\ run[m].attempt \in Nat
      BY <2>1, <3>2 DEF MaxAttempts, RunType
    <3> QED
      BY <2>2, <2>4, <3>3
  <2> QED
    BY <2>2, <2>3, <2>4 DEF Allowed, StateOf
<1> QED
  BY <1>1, WorkflowInvariant, PTL

\* The select of invokeWithRetry begins at most one invocation after the
\* timeout of the Task.
THEOREM TimeoutStopsRetriesThm == Spec => []TimeoutStopsRetries
<1>1. WorkflowInv => TimeoutStopsRetries
  BY DEF WorkflowInv, MachineSound, Sound, TimeoutStopsRetries
<1> QED
  BY <1>1, WorkflowInvariant, PTL

-----------------------------------------------------------------------------
(* Failures of branches *)

\* Only the Join of a machine ends its wait for branches.
LEMMA OnlyJoinEnds ==
    ASSUME WorkflowInv, [Next]_vars, NEW m \in Machine,
           At(m, "join"), ~At(m, "join")'
    PROVE  Join(m)
<1>1. run \in [Machine -> RunType]
  BY DEF WorkflowInv, TypeOK
<1>2. ASSUME NEW k \in Machine, ~At(k, "join"), NEW r, Become(k, r) PROVE FALSE
  BY <1>1, <1>2 DEF Become, At
<1>3. CASE Execute
  BY <1>2, <1>3 DEF Execute, At
<1>4. ASSUME NEW k \in Machine, Expire(k) PROVE FALSE
  BY <1>2, <1>4 DEF Expire, At
<1>5. ASSUME NEW k \in Machine, EnterParallel(k) PROVE FALSE
  <2>1. At(k, "enter") /\ ~At(k, "join") /\ ~At(k, "idle") /\ Defined(k)
    BY <1>5 DEF EnterParallel, Is, At
  <2>2. run[k].state \in Name
    BY <2>1, MachineFacts
  <2>3. m # k /\ m \notin Branches(k)
    BY <2>1, <2>2, BranchesIdle DEF At
  <2>4. CASE StateOf(k).branches = <<>>
    BY <1>2, <1>5, <2>1, <2>4 DEF EnterParallel
  <2>5. CASE StateOf(k).branches # <<>>
    BY <1>5, <2>3, <2>5 DEF EnterParallel, At
  <2> QED
    BY <2>4, <2>5
<1>6. ASSUME NEW k \in Machine, Join(k) PROVE k = m
  <2>1. PICK after : Leave(k, after)
    BY <1>6, JoinLeaves
  <2>2. m \notin Branches(k)
    BY <1>6 DEF Join, At
  <2> QED
    BY <2>1, <2>2 DEF Leave, At
<1>7. ASSUME NEW k \in Machine,
             \/ EnterUnknown(k) \/ EnterTask(k) \/ EnterPass(k) \/ EnterChoice(k)
             \/ EnterWait(k) \/ EnterSucceed(k) \/ EnterFail(k) \/ EnterInvalid(k)
             \/ InvokeSucceeds(k) \/ (\E e \in Error : InvokeFails(k, e))
             \/ Retry(k) \/ BackoffCut(k) \/ WaitEnds(k)
      PROVE  FALSE
  <2>1. ~At(k, "join")
    BY <1>7 DEF EnterUnknown, EnterTask, EnterPass, EnterChoice, EnterWait, EnterSucceed,
       EnterFail, EnterInvalid, InvokeSucceeds, InvokeFails, Retry, BackoffCut, WaitEnds,
       Is, At
  <2>2. \E r : Become(k, r)
    BY <1>7 DEF EnterUnknown, EnterTask, EnterPass, EnterChoice, EnterWait, EnterSucceed,
       EnterFail, EnterInvalid, InvokeSucceeds, InvokeFails, Retry, BackoffCut, WaitEnds,
       PathFails
  <2> QED
    BY <1>2, <2>1, <2>2
<1>8. ~UNCHANGED vars
  BY DEF vars, At
<1> QED
  BY <1>3, <1>4, <1>5, <1>6, <1>7, <1>8 DEF Next, Step

\* What tryCatch, or the error that runMachine returns, makes of a failure.
LEMMA CaughtEffect ==
    ASSUME NEW m \in Machine, run[m] \in RunType, run[m].state \in Name,
           Defined(m), NEW e \in Error
    PROVE  \/ Caught(m, e).pc = "done" /\ Caught(m, e).outcome # "ok"
           \/ \E i \in DOMAIN StateOf(m).catch :
                /\ e \in StateOf(m).catch[i].errors
                /\ IF StateOf(m).end THEN Caught(m, e).pc = "done"
                   ELSE /\ Caught(m, e).pc = "enter"
                        /\ Caught(m, e).state = StateOf(m).catch[i].next
<1> DEFINE catch == StateOf(m).catch
           i == FirstRule(catch, e)
<1>1. catch \in Seq([errors : SUBSET Error, next : Name \cup {NoName}])
      /\ StateOf(m).end \in BOOLEAN
  BY StateFacts DEF IsState
<1>2. CASE i = 0
  BY <1>2, DoneLands DEF Caught
<1>3. CASE i # 0
  <2>1. /\ i \in DOMAIN catch /\ e \in catch[i].errors
        /\ catch[i] \in [errors : SUBSET Error, next : Name \cup {NoName}]
    BY <1>1, <1>3, FirstRuleFound
  <2>2. catch[i].next \in Name \cup {NoName}
    BY <2>1
  <2>3. Caught(m, e) = Going(m, catch[i].next)
    BY <1>3 DEF Caught
  <2>4. CASE StateOf(m).end
    <3>1. Caught(m, e).pc = "done"
      BY <2>3, <2>4, DoneLands DEF Going
    <3> QED
      BY <2>1, <2>4, <3>1
  <2>5. CASE ~StateOf(m).end /\ catch[i].next = NoName
    BY <2>3, <2>5, DoneLands DEF Going
  <2>6. CASE ~StateOf(m).end /\ catch[i].next # NoName
    <3>1. Caught(m, e).pc = "enter" /\ Caught(m, e).state = catch[i].next
      BY <2>2, <2>3, <2>6, EnteringLands DEF Going
    <3> QED
      BY <2>1, <2>6, <3>1
  <2> QED
    BY <2>4, <2>5, <2>6
<1> QED
  BY <1>2, <1>3

\* executeParallel reports a failure, or goes to the handler of a Catch rule
\* that names it; with End the Catch rule ends the state in success.
THEOREM OnlyEndLosesFailureThm == Spec => OnlyEndLosesFailure
<1> DEFINE Reports(m) ==
             (At(m, "join") /\ ~At(m, "join")'
                /\ \E b \in Branches(m) : run[b].outcome # "ok")
               => \/ run'[m].pc = "done" /\ run'[m].outcome # "ok"
                  \/ \E i \in DOMAIN StateOf(m).catch, b \in Branches(m) :
                       /\ run[b].outcome \in StateOf(m).catch[i].errors
                       /\ IF StateOf(m).end THEN run'[m].pc = "done"
                          ELSE run'[m].pc = "enter" /\ run'[m].state = StateOf(m).catch[i].next
<1>1. WorkflowInv /\ [Next]_vars => \A m \in Machine : Reports(m)
  <2> SUFFICES ASSUME WorkflowInv, [Next]_vars, NEW m \in Machine,
                      At(m, "join"), ~At(m, "join")',
                      NEW c \in Branches(m), run[c].outcome # "ok"
               PROVE  \/ run'[m].pc = "done" /\ run'[m].outcome # "ok"
                      \/ \E i \in DOMAIN StateOf(m).catch, b \in Branches(m) :
                           /\ run[b].outcome \in StateOf(m).catch[i].errors
                           /\ IF StateOf(m).end THEN run'[m].pc = "done"
                              ELSE run'[m].pc = "enter" /\ run'[m].state = StateOf(m).catch[i].next
    OBVIOUS
  <2>1. Join(m)
    BY OnlyJoinEnds
  <2>2. run[m] \in RunType /\ run[m].state \in Name /\ Defined(m)
    BY MachineFacts DEF At
  <2>3. Failed(m) # {}
    <3>1. PICK i \in DOMAIN StateOf(m).branches : StateOf(m).branches[i] = c
      BY <2>2, StateFacts DEF Range
    <3> QED
      BY <3>1 DEF Failed
  <2>4. Leave(m, Caught(m, FirstFailure(m)))
    BY <2>1, <2>3 DEF Join
  <2>5. m \notin Branches(m)
    BY <2>1 DEF Join, At
  <2>6. run'[m] = Caught(m, FirstFailure(m))
    BY <2>4, <2>5 DEF Leave
  <2>7. PICK b \in Branches(m) : FirstFailure(m) = run[b].outcome
    BY <2>3, FirstFailureFacts
  <2>8. FirstFailure(m) \in Error
    BY <2>3, FirstFailureFacts
  <2> QED
    BY <2>2, <2>6, <2>7, <2>8, CaughtEffect
<1>2. WorkflowInv /\ [Next]_vars => [\A m \in Machine : Reports(m)]_vars
  BY <1>1
<1> QED
  BY <1>2, WorkflowInvariant, PTL DEF Spec, OnlyEndLosesFailure

-----------------------------------------------------------------------------
(* Documents.  Paths have any number of keys: that the recursive functions *)
(* exist is shown by induction on the number of keys, and then what each   *)
(* of their values is.                                                     *)

LEMMA SetInduction ==
    ASSUME NEW T, 0 \in T, \A n \in Nat : n \in T => n + 1 \in T
    PROVE  Nat \subseteq T
<1> DEFINE S == Nat \ T
<1> SUFFICES ASSUME S # {} PROVE FALSE
  OBVIOUS
<1>1. S \in SUBSET Nat
  OBVIOUS
<1> HIDE DEF S
<1>2. PICK i \in S : \A j \in S : i <= j
  BY <1>1, LeastNatural
<1>3. i \in Nat /\ i # 0 /\ i - 1 \in Nat /\ i - 1 \notin S
  BY <1>1, <1>2 DEF S
<1>4. i - 1 \in T
  BY <1>3 DEF S
<1> QED
  BY <1>2, <1>3, <1>4 DEF S

\* f is the walk along the first n keys.
IsWalk(f, n, d, keys) ==
    f = [i \in 0 .. n |-> IF i = 0 THEN Ok(d) ELSE Further(f[i - 1], keys[i])]

\* A walk that has been defined for n keys can go one key further.
LEMMA WalkExists ==
    ASSUME NEW d, NEW keys
    PROVE  \A n \in Nat : \E f : IsWalk(f, n, d, keys)
<1> DEFINE body(f, i) == IF i = 0 THEN Ok(d) ELSE Further(f[i - 1], keys[i])
           T == {n \in Nat : \E f : f = [i \in 0 .. n |-> body(f, i)]}
<1>1. 0 \in T
  <2> DEFINE f == [i \in 0 .. 0 |-> Ok(d)]
  <2>1. f = [i \in 0 .. 0 |-> body(f, i)]
    OBVIOUS
  <2> QED
    BY <2>1
<1>2. ASSUME NEW n \in Nat, n \in T
      PROVE  n + 1 \in T
  <2>1. PICK f : f = [i \in 0 .. n |-> body(f, i)]
    BY <1>2
  <2> DEFINE g == [i \in 0 .. n + 1 |-> IF i <= n THEN f[i] ELSE body(f, i)]
  <2>2. ASSUME NEW i \in 0 .. n + 1 PROVE g[i] = body(g, i)
    <3>1. g[i] = body(f, i)
      BY <2>1
    <3>2. i # 0 => g[i - 1] = f[i - 1]
      OBVIOUS
    <3> QED
      BY <3>1, <3>2
  <2>3. g = [i \in 0 .. n + 1 |-> g[i]]
    OBVIOUS
  <2> HIDE DEF g
  <2>4. g = [i \in 0 .. n + 1 |-> body(g, i)]
    BY <2>2, <2>3
  <2> QED
    BY <2>4
<1> HIDE DEF T
<1>3. Nat \subseteq T
  BY <1>1, <1>2, SetInduction
<1> QED
  BY <1>3 DEF T, IsWalk

LEMMA WalkedSteps ==
    ASSUME NEW K, NEW d, NEW keys \in Seq(K)
    PROVE  /\ Walked(d, keys)[0] = Ok(d)
           /\ \A i \in 1 .. Len(keys) :
                Walked(d, keys)[i] = Further(Walked(d, keys)[i - 1], keys[i])
<1> DEFINE N == Len(keys)
           w == Walked(d, keys)
<1>1. N \in Nat
  OBVIOUS
<1> HIDE DEF N
<1>2. PICK f : IsWalk(f, N, d, keys)
  BY <1>1, WalkExists
<1>3. w = [i \in 0 .. N |-> IF i = 0 THEN Ok(d) ELSE Further(w[i - 1], keys[i])]
  BY <1>2 DEF IsWalk, Walked, N
<1> HIDE DEF w
<1>4. \A i \in 0 .. N : w[i] = IF i = 0 THEN Ok(d) ELSE Further(w[i - 1], keys[i])
  BY <1>3
<1>5. w[0] = Ok(d) /\ \A i \in 1 .. N : w[i] = Further(w[i - 1], keys[i])
  BY <1>1, <1>4
<1> QED
  BY <1>5 DEF w, N

IsOld(f, n, d, keys) ==
    f = [i \in 1 .. n |-> IF i = 1 THEN d ELSE KidObject(f[i - 1], keys[i - 1])]

LEMMA OldExists ==
    ASSUME NEW d, NEW keys
    PROVE  \A n \in Nat : \E f : IsOld(f, n, d, keys)
<1> DEFINE body(f, i) == IF i = 1 THEN d ELSE KidObject(f[i - 1], keys[i - 1])
           T == {n \in Nat : \E f : f = [i \in 1 .. n |-> body(f, i)]}
<1>1. 0 \in T
  <2> DEFINE f == [i \in 1 .. 0 |-> d]
  <2>1. f = [i \in 1 .. 0 |-> body(f, i)]
    OBVIOUS
  <2> QED
    BY <2>1
<1>2. ASSUME NEW n \in Nat, n \in T
      PROVE  n + 1 \in T
  <2>1. PICK f : f = [i \in 1 .. n |-> body(f, i)]
    BY <1>2
  <2> DEFINE g == [i \in 1 .. n + 1 |-> IF i <= n THEN f[i] ELSE body(f, i)]
  <2>2. ASSUME NEW i \in 1 .. n + 1 PROVE g[i] = body(g, i)
    <3>1. g[i] = body(f, i)
      BY <2>1
    <3>2. i # 1 => g[i - 1] = f[i - 1]
      OBVIOUS
    <3> QED
      BY <3>1, <3>2
  <2>3. g = [i \in 1 .. n + 1 |-> g[i]]
    OBVIOUS
  <2> HIDE DEF g
  <2>4. g = [i \in 1 .. n + 1 |-> body(g, i)]
    BY <2>2, <2>3
  <2> QED
    BY <2>4
<1> HIDE DEF T
<1>3. Nat \subseteq T
  BY <1>1, <1>2, SetInduction
<1> QED
  BY <1>3 DEF T, IsOld

LEMMA OldSteps ==
    ASSUME NEW K, NEW d, NEW keys \in Seq(K)
    PROVE  \A i \in 1 .. Len(keys) :
             OldObjects(d, keys)[i] =
               IF i = 1 THEN d ELSE KidObject(OldObjects(d, keys)[i - 1], keys[i - 1])
<1> DEFINE N == Len(keys)
           o == OldObjects(d, keys)
<1>1. N \in Nat
  OBVIOUS
<1> HIDE DEF N
<1>2. PICK f : IsOld(f, N, d, keys)
  BY <1>1, OldExists
<1>3. o = [i \in 1 .. N |-> IF i = 1 THEN d ELSE KidObject(o[i - 1], keys[i - 1])]
  BY <1>2 DEF IsOld, OldObjects, N
<1> HIDE DEF o
<1>4. \A i \in 1 .. N : o[i] = IF i = 1 THEN d ELSE KidObject(o[i - 1], keys[i - 1])
  BY <1>3
<1> QED
  BY <1>4 DEF o, N

IsNew(f, N, old, keys, v) ==
    f = [i \in 1 .. N + 1 |->
           IF i = N + 1 THEN v ELSE WithKey(old[i], keys[i], f[i + 1])]

\* The new objects are made from the last one up.
LEMMA NewExists ==
    ASSUME NEW N \in Nat, NEW old, NEW keys, NEW v
    PROVE  \E f : IsNew(f, N, old, keys, v)
<1> DEFINE body(f, i) == IF i = N + 1 THEN v ELSE WithKey(old[i], keys[i], f[i + 1])
           T == {n \in Nat : n <= N =>
                   \E f : f = [i \in N + 1 - n .. N + 1 |-> body(f, i)]}
<1>1. 0 \in T
  <2> DEFINE f == [i \in N + 1 - 0 .. N + 1 |-> v]
  <2>1. f = [i \in N + 1 - 0 .. N + 1 |-> body(f, i)]
    OBVIOUS
  <2> QED
    BY <2>1
<1>2. ASSUME NEW n \in Nat, n \in T
      PROVE  n + 1 \in T
  <2> SUFFICES ASSUME n + 1 <= N
               PROVE  \E f : f = [i \in N + 1 - (n + 1) .. N + 1 |-> body(f, i)]
    OBVIOUS
  <2>1. PICK f : f = [i \in N + 1 - n .. N + 1 |-> body(f, i)]
    BY <1>2
  <2> DEFINE g == [i \in N + 1 - (n + 1) .. N + 1 |->
                     IF i >= N + 1 - n THEN f[i] ELSE body(f, i)]
  <2>2. ASSUME NEW i \in N + 1 - (n + 1) .. N + 1 PROVE g[i] = body(g, i)
    <3>1. g[i] = body(f, i)
      <4>1. CASE i >= N + 1 - n
        <5>1. i \in N + 1 - n .. N + 1
          BY <4>1
        <5>2. f[i] = body(f, i)
          BY <2>1, <5>1
        <5> QED
          BY <4>1, <5>2
      <4>2. CASE ~(i >= N + 1 - n)
        BY <4>2
      <4> QED
        BY <4>1, <4>2
    <3>2. i # N + 1 => g[i + 1] = f[i + 1]
      OBVIOUS
    <3> QED
      BY <3>1, <3>2
  <2>3. g = [i \in N + 1 - (n + 1) .. N + 1 |-> g[i]]
    OBVIOUS
  <2> HIDE DEF g
  <2>4. g = [i \in N + 1 - (n + 1) .. N + 1 |-> body(g, i)]
    BY <2>2, <2>3
  <2> QED
    BY <2>4
<1> HIDE DEF T
<1>3. N \in T
  BY <1>1, <1>2, SetInduction
<1>4. \E f : f = [i \in N + 1 - N .. N + 1 |-> body(f, i)]
  BY <1>3 DEF T
<1>5. N + 1 - N = 1
  OBVIOUS
<1> QED
  BY <1>4, <1>5 DEF IsNew

LEMMA NewSteps ==
    ASSUME NEW K, NEW d, NEW keys \in Seq(K), NEW v
    PROVE  /\ NewObjects(d, keys, v)[Len(keys) + 1] = v
           /\ \A i \in 1 .. Len(keys) :
                NewObjects(d, keys, v)[i] =
                  WithKey(OldObjects(d, keys)[i], keys[i], NewObjects(d, keys, v)[i + 1])
<1> DEFINE N == Len(keys)
           old == OldObjects(d, keys)
           new == NewObjects(d, keys, v)
<1>1. N \in Nat
  OBVIOUS
<1> HIDE DEF N, old
<1>2. PICK f : IsNew(f, N, old, keys, v)
  BY <1>1, NewExists
<1>3. new = [i \in 1 .. N + 1 |->
               IF i = N + 1 THEN v ELSE WithKey(old[i], keys[i], new[i + 1])]
  BY <1>2 DEF IsNew, NewObjects, N, old
<1> HIDE DEF new
<1>4. \A i \in 1 .. N + 1 :
        new[i] = IF i = N + 1 THEN v ELSE WithKey(old[i], keys[i], new[i + 1])
  BY <1>3
<1>5. new[N + 1] = v /\ \A i \in 1 .. N : new[i] = WithKey(old[i], keys[i], new[i + 1])
  BY <1>1, <1>4
<1> QED
  BY <1>5 DEF new, old, N

\* What json.Unmarshal reads is a document of the same form, read once and for
\* all.
LEMMA DecodedFacts ==
    ASSUME NEW d
    PROVE  /\ Decoded(d).kind = d.kind /\ Decoded(d).kids = d.kids /\ Decoded(d).str = d.str
           /\ Decoded(d).items = d.items
           /\ Decoded(d).decoded
           /\ d.decoded => Decoded(d) = d
BY DEF Decoded

LEMMA DecodedTwice ==
    ASSUME NEW d
    PROVE  Decoded(Decoded(d)) = Decoded(d)
BY DecodedFacts

LEMMA KidFacts ==
    ASSUME NEW d, NEW k
    PROVE  /\ Kid(d, k).kind = d.kids[k].kind /\ Kid(d, k).kids = d.kids[k].kids
           /\ Kid(d, k).str = d.kids[k].str
           /\ Decoded(Kid(d, k)) = Decoded(d.kids[k])
           /\ Kid(d, k) \in {d.kids[k], Decoded(d.kids[k])}
           /\ d.decoded => Kid(d, k) = Decoded(d.kids[k])
BY DecodedFacts, DecodedTwice DEF Kid

LEMMA WithKeyFacts ==
    ASSUME NEW d, NEW k, NEW v
    PROVE  /\ WithKey(d, k, v).kind = "obj" /\ WithKey(d, k, v).decoded
           /\ k \in DOMAIN WithKey(d, k, v).kids /\ WithKey(d, k, v).kids[k] = v
           /\ \A x \in DOMAIN d.kids :
                /\ x \in DOMAIN WithKey(d, k, v).kids
                /\ x # k => WithKey(d, k, v).kids[x] = d.kids[x]
BY DEF WithKey, Map

LEMMA OkFacts ==
    ASSUME NEW d
    PROVE  Ok(d).status = "ok" /\ Ok(d).doc = d
BY DEF Ok

-----------------------------------------------------------------------------
(* Reading and writing at paths *)

\* A path of one or two keys that is readable leads to that field.
LEMMA ReadOne ==
    ASSUME NEW d, NEW k, d.kind = "obj", k \in DOMAIN d.kids
    PROVE  Field(d, At1(k)) = Ok(Kid(d, k))
<1> DEFINE keys == <<k>>
           w == Walked(d, keys)
<1>1. keys \in Seq({k}) /\ Len(keys) = 1 /\ keys[1] = k
  OBVIOUS
<1> HIDE DEF keys
<1>2. w[0] = Ok(d) /\ \A i \in 1 .. Len(keys) : w[i] = Further(w[i - 1], keys[i])
  BY <1>1, WalkedSteps
<1> HIDE DEF w
<1>3. w[1] = Further(w[1 - 1], keys[1]) /\ 1 - 1 = 0
  BY <1>1, <1>2
<1>4. w[1] = Further(Ok(d), k)
  BY <1>1, <1>2, <1>3
<1>5. w[1] = Ok(Kid(d, k))
  BY <1>4, OkFacts DEF Further, HasKey
<1>6. Field(d, At1(k)) = w[1]
  BY <1>1 DEF Field, At1, w, keys
<1> QED
  BY <1>5, <1>6

LEMMA ReadTwo ==
    ASSUME NEW d, NEW k, NEW l, d.kind = "obj", k \in DOMAIN d.kids,
           d.kids[k].kind = "obj", l \in DOMAIN d.kids[k].kids
    PROVE  Field(d, At2(k, l)) = Ok(Kid(Kid(d, k), l))
<1> DEFINE keys == <<k, l>>
           w == Walked(d, keys)
           kid == Kid(d, k)
<1>1. keys \in Seq({k, l}) /\ Len(keys) = 2 /\ keys[1] = k /\ keys[2] = l
  OBVIOUS
<1>2. kid.kind = "obj" /\ l \in DOMAIN kid.kids
  BY KidFacts
<1> HIDE DEF keys, kid
<1>3. w[0] = Ok(d) /\ \A i \in 1 .. Len(keys) : w[i] = Further(w[i - 1], keys[i])
  BY <1>1, WalkedSteps
<1> HIDE DEF w
<1>4. /\ w[1] = Further(w[1 - 1], keys[1]) /\ 1 - 1 = 0
      /\ w[2] = Further(w[2 - 1], keys[2]) /\ 2 - 1 = 1
  BY <1>1, <1>3
<1>5. w[1] = Further(Ok(d), k) /\ w[2] = Further(w[1], l)
  BY <1>1, <1>3, <1>4
<1>6. w[1] = Ok(kid)
  BY <1>5, OkFacts DEF Further, HasKey, kid
<1>7. w[2] = Ok(Kid(kid, l))
  BY <1>2, <1>5, <1>6, OkFacts DEF Further, HasKey
<1>8. Field(d, At2(k, l)) = w[2]
  BY <1>1 DEF Field, At2, w, keys
<1> QED
  BY <1>7, <1>8 DEF kid

\* A field of a document is read as it stands, or as it was decoded.
LEMMA ReadableForms ==
    ASSUME NEW d, NEW q \in Readable(d)
    PROVE  /\ d.kind = "obj"
           /\ \/ \E k \in DOMAIN d.kids : q = At1(k)
              \/ \E k \in DOMAIN d.kids : d.kids[k].kind = "obj" /\
                   \E l \in DOMAIN d.kids[k].kids : q = At2(k, l)
BY DEF Readable

LEMMA ReadAsItIs ==
    ASSUME NEW d, NEW q \in Readable(d)
    PROVE  Field(d, q) \in AsRead(Field(d, q).doc)
<1>1. \E x : Field(d, q) = Ok(x)
  BY ReadableForms, ReadOne, ReadTwo
<1> QED
  BY <1>1, OkFacts DEF AsRead

LEMMA ReadDecoded ==
    ASSUME NEW d, NEW q \in Readable(d)
    PROVE  Field(Decoded(d), q) \in AsRead(Field(d, q).doc)
<1> DEFINE e == Decoded(d)
<1>1. d.kind = "obj" /\ e.kind = "obj" /\ e.kids = d.kids /\ e.decoded
  BY ReadableForms, DecodedFacts
<1> HIDE DEF e
<1>2. ASSUME NEW k \in DOMAIN d.kids, q = At1(k)
      PROVE  Field(e, q) \in AsRead(Field(d, q).doc)
  <2>1. Field(e, q) = Ok(Kid(e, k)) /\ Field(d, q) = Ok(Kid(d, k))
    BY <1>1, <1>2, ReadOne
  <2>2. Kid(e, k) = Decoded(Kid(d, k))
    BY <1>1, KidFacts
  <2> QED
    BY <2>1, <2>2, OkFacts DEF AsRead
<1>3. ASSUME NEW k \in DOMAIN d.kids, d.kids[k].kind = "obj",
             NEW l \in DOMAIN d.kids[k].kids, q = At2(k, l)
      PROVE  Field(e, q) \in AsRead(Field(d, q).doc)
  <2> DEFINE x == Kid(e, k)
             y == Kid(d, k)
  <2>1. Field(e, q) = Ok(Kid(x, l)) /\ Field(d, q) = Ok(Kid(y, l))
    BY <1>1, <1>3, ReadTwo
  <2>2. x.kids = d.kids[k].kids /\ y.kids = d.kids[k].kids
    BY <1>1, KidFacts
  <2>3. x.decoded
    BY <1>1, KidFacts, DecodedFacts
  <2> HIDE DEF x, y
  <2>4. Kid(x, l) = Decoded(x.kids[l]) /\ Decoded(Kid(y, l)) = Decoded(y.kids[l])
    BY <2>3, KidFacts
  <2>5. Kid(x, l) = Decoded(Kid(y, l))
    BY <2>2, <2>4
  <2> QED
    BY <2>1, <2>5, OkFacts DEF AsRead
<1> QED
  BY <1>2, <1>3, ReadableForms DEF e

\* Path's keys are there when the form says so.
LEMMA PathKeys ==
    ASSUME NEW p \in Path
    PROVE  /\ p.form \in {"omitted", "root", "context", "bad", "keys"}
           /\ p.form = "omitted" => p = Omitted
           /\ p.form = "keys" => p.keys \in Seq(Key) /\ Len(p.keys) \in Nat \ {0}
BY DEF Path, Omitted

\* applyPath returns a document or an error.
LEMMA ApplyReturns ==
    ASSUME NEW d, NEW p \in Path
    PROVE  applyPath(d, p) \in {Ok(x) : x \in {applyPath(d, p).doc}} \cup
                               {Err(KeyNotFound), Err(OtherError)}
<1> DEFINE Result(r) == r = Ok(r.doc) \/ r = Err(KeyNotFound) \/ r = Err(OtherError)
           N == Len(p.keys)
           w == Walked(Decoded(d), p.keys)
           T == {n \in Nat : n <= N => Result(w[n])}
<1>1. \A x : Result(Ok(x))
  BY OkFacts
<1>2. CASE p.form = "keys" /\ Decodes(d)
  <2>1. p.keys \in Seq(Key) /\ N \in Nat
    BY <1>2, PathKeys
  <2>2. w[0] = Ok(Decoded(d)) /\ \A i \in 1 .. N : w[i] = Further(w[i - 1], p.keys[i])
    BY <2>1, WalkedSteps
  <2>3. applyPath(d, p) = w[N]
    BY <1>2 DEF applyPath, Field
  <2> HIDE DEF N, w, Result
  <2>4. 0 \in T
    BY <1>1, <2>2
  <2>5. ASSUME NEW n \in Nat, n \in T
        PROVE  n + 1 \in T
    <3> SUFFICES ASSUME n + 1 <= N
                 PROVE  Result(w[n + 1])
      OBVIOUS
    <3>1. n + 1 \in 1 .. N /\ (n + 1) - 1 = n /\ Result(w[n])
      BY <2>1, <2>5
    <3>2. w[n + 1] = Further(w[n], p.keys[n + 1])
      BY <2>2, <3>1
    <3>3. Result(Further(w[n], p.keys[n + 1]))
      BY <1>1, <3>1 DEF Further, Result
    <3> QED
      BY <3>2, <3>3
  <2> HIDE DEF T
  <2>6. N \in T
    BY <2>1, <2>4, <2>5, SetInduction
  <2>7. Result(w[N])
    BY <2>1, <2>6 DEF T
  <2> QED
    BY <2>3, <2>7 DEF Result
<1>3. CASE ~(p.form = "keys" /\ Decodes(d))
  BY <1>3, <1>1, PathKeys DEF applyPath
<1> QED
  BY <1>2, <1>3

LEMMA ApplyOk ==
    ASSUME NEW d, NEW p \in Path, applyPath(d, p).status = "ok"
    PROVE  applyPath(d, p) = Ok(applyPath(d, p).doc)
BY ApplyReturns DEF Err

\* What setNested makes of a path's first two keys.
LEMMA NestedFirst ==
    ASSUME NEW K, NEW d, NEW keys \in Seq(K), Len(keys) \in Nat \ {0}, NEW v
    PROVE  /\ \E x : setNested(d, keys, v) = WithKey(d, keys[1], x)
           /\ Len(keys) > 1 =>
                \E x : setNested(d, keys, v) =
                         WithKey(d, keys[1], WithKey(KidObject(d, keys[1]), keys[2], x))
<1> DEFINE N == Len(keys)
           old == OldObjects(d, keys)
           new == NewObjects(d, keys, v)
<1>1. new[N + 1] = v /\ \A i \in 1 .. N : new[i] = WithKey(old[i], keys[i], new[i + 1])
  BY NewSteps
<1>2. \A i \in 1 .. N :
        old[i] = IF i = 1 THEN d ELSE KidObject(old[i - 1], keys[i - 1])
  BY OldSteps
<1>3. setNested(d, keys, v) = new[1]
  BY DEF setNested
<1>4. N \in Nat \ {0}
  OBVIOUS
<1> HIDE DEF N, old, new
<1>5. new[1] = WithKey(old[1], keys[1], new[1 + 1]) /\ old[1] = d
  BY <1>1, <1>2, <1>4
<1>6. ASSUME N > 1
      PROVE  \E x : new[2] = WithKey(KidObject(d, keys[1]), keys[2], x)
  <2>1. new[2] = WithKey(old[2], keys[2], new[2 + 1])
    BY <1>1, <1>4, <1>6
  <2>2. old[2] = KidObject(old[2 - 1], keys[2 - 1]) /\ 2 - 1 = 1
    BY <1>2, <1>4, <1>6
  <2> QED
    BY <1>5, <2>1, <2>2
<1>7. 1 + 1 = 2
  OBVIOUS
<1> QED
  BY <1>3, <1>5, <1>6, <1>7 DEF N

LEMMA NestedSecond ==
    ASSUME NEW K, NEW d, NEW keys \in Seq(K), Len(keys) > 1, NEW v
    PROVE  \E x : setNested(d, keys, v) =
                    WithKey(d, keys[1], WithKey(KidObject(d, keys[1]), keys[2], x))
<1>1. Len(keys) \in Nat \ {0}
  OBVIOUS
<1> QED
  BY <1>1, NestedFirst

\* setNested keeps what its path leads away from.
LEMMA NestedKeeps ==
    ASSUME NEW d, NEW p \in Path, NEW v, NEW q, d.kind = "obj", d.decoded, Apart(p, q),
           q \in Readable(d)
    PROVE  Field(setNested(d, p.keys, v), q) = Field(d, q)
<1> DEFINE e == setNested(d, p.keys, v)
           one == p.keys[1]
<1>1. p.keys \in Seq(Key) /\ Len(p.keys) \in Nat \ {0}
  BY PathKeys DEF Apart
<1>2. PICK x : e = WithKey(d, one, x)
  BY <1>1, NestedFirst
<1>3. /\ e.kind = "obj" /\ one \in DOMAIN e.kids /\ e.kids[one] = x
      /\ \A k \in DOMAIN d.kids : k \in DOMAIN e.kids /\ (k # one => e.kids[k] = d.kids[k])
      /\ e.decoded
  BY <1>2, WithKeyFacts
<1>4. \E i \in DOMAIN p.keys \cap DOMAIN q.keys : p.keys[i] # q.keys[i]
  BY DEF Apart
<1>5. ASSUME NEW k \in DOMAIN d.kids, k # one
      PROVE  k \in DOMAIN e.kids /\ e.kids[k] = d.kids[k] /\ Kid(e, k) = Kid(d, k)
  <2> HIDE DEF e
  <2>1. k \in DOMAIN e.kids /\ e.kids[k] = d.kids[k]
    BY <1>3, <1>5
  <2>2. Kid(e, k) = Decoded(e.kids[k]) /\ Kid(d, k) = Decoded(d.kids[k])
    BY <1>3, KidFacts
  <2> QED
    BY <2>1, <2>2
<1>6. ASSUME NEW k \in DOMAIN d.kids, q = At1(k)
      PROVE  Field(e, q) = Field(d, q)
  <2>1. one # k
    BY <1>4, <1>6 DEF At1
  <2> HIDE DEF e
  <2>2. Field(e, q) = Ok(Kid(e, k)) /\ Field(d, q) = Ok(Kid(d, k))
    BY <1>3, <1>5, <1>6, <2>1, ReadOne
  <2> QED
    BY <1>5, <2>1, <2>2
<1>7. ASSUME NEW k \in DOMAIN d.kids, d.kids[k].kind = "obj",
             NEW l \in DOMAIN d.kids[k].kids, q = At2(k, l)
      PROVE  Field(e, q) = Field(d, q)
  <2>1. Field(d, q) = Ok(Kid(Kid(d, k), l))
    BY <1>7, ReadTwo
  <2>2. CASE one # k
    <3> HIDE DEF e
    <3>1. k \in DOMAIN e.kids /\ e.kids[k] = d.kids[k] /\ Kid(e, k) = Kid(d, k)
      BY <1>5, <2>2
    <3>2. Field(e, q) = Ok(Kid(Kid(e, k), l))
      BY <1>3, <1>7, <3>1, ReadTwo
    <3> QED
      BY <2>1, <3>1, <3>2
  <2>3. CASE one = k
    <3>1. Len(p.keys) > 1 /\ p.keys[2] # l
      <4>1. q.keys = <<k, l>>
        BY <1>7 DEF At2
      <4>2. PICK i \in DOMAIN p.keys \cap DOMAIN q.keys : p.keys[i] # q.keys[i]
        BY <1>4
      <4>3. i \in {1, 2}
        BY <4>1
      <4>4. i = 2
        BY <2>3, <4>1, <4>2, <4>3
      <4> QED
        BY <1>1, <4>1, <4>2, <4>4
    <3> DEFINE kid == Kid(d, k)
    <3>2. KidObject(d, one) = kid
      BY <1>7, <2>3 DEF KidObject, HasKey
    <3>3. kid.kids = d.kids[k].kids /\ kid.decoded
      BY KidFacts, DecodedFacts
    <3> HIDE DEF kid
    <3>4. PICK y : e = WithKey(d, one, WithKey(kid, p.keys[2], y))
      <4> DEFINE keys == p.keys
      <4>1. keys \in Seq(Key) /\ Len(keys) \in Nat \ {0} /\ Len(keys) > 1
        BY <1>1, <3>1
      <4> HIDE DEF keys
      <4>2. \E y : setNested(d, keys, v) =
                     WithKey(d, keys[1], WithKey(KidObject(d, keys[1]), keys[2], y))
        BY <4>1, NestedSecond
      <4> QED
        BY <3>2, <4>2 DEF keys
    <3> DEFINE c == WithKey(kid, p.keys[2], y)
    <3>5. e.kids[k] = c
      BY <2>3, <3>4, WithKeyFacts
    <3>6. c.kind = "obj" /\ c.decoded /\ l \in DOMAIN c.kids /\ c.kids[l] = kid.kids[l]
      BY <1>7, <3>1, <3>3, WithKeyFacts
    <3> HIDE DEF c, e
    <3>7. Field(e, q) = Ok(Kid(Kid(e, k), l))
      BY <1>3, <1>7, <2>3, <3>5, <3>6, ReadTwo
    <3>8. Kid(e, k) = c
      BY <1>3, <3>5, <3>6, KidFacts, DecodedFacts
    <3>9. Kid(c, l) = Decoded(c.kids[l]) /\ Kid(kid, l) = Decoded(kid.kids[l])
      BY <3>3, <3>6, KidFacts
    <3> QED
      BY <2>1, <3>6, <3>7, <3>8, <3>9 DEF kid
  <2> QED
    BY <2>2, <2>3
<1> QED
  BY <1>6, <1>7, ReadableForms

\* What setNested stores is found where it was stored.
LEMMA NestedFound ==
    ASSUME NEW d, NEW p \in Path, p.form = "keys", NEW v, Decoded(v) = v
    PROVE  Field(setNested(d, p.keys, v), p) = Ok(v)
<1> DEFINE keys == p.keys
           N == Len(keys)
           old == OldObjects(d, keys)
           new == NewObjects(d, keys, v)
           w == Walked(new[1], keys)
           T == {n \in Nat : n <= N => w[n] = Ok(new[n + 1])}
<1>1. keys \in Seq(Key) /\ N \in Nat \ {0}
  BY PathKeys
<1> HIDE DEF keys
<1>2. new[N + 1] = v /\ \A i \in 1 .. N : new[i] = WithKey(old[i], keys[i], new[i + 1])
  BY <1>1, NewSteps
<1>3. setNested(d, keys, v) = new[1]
  BY DEF setNested
<1> HIDE DEF new
<1>4. w[0] = Ok(new[1]) /\ \A i \in 1 .. N : w[i] = Further(w[i - 1], keys[i])
  BY <1>1, WalkedSteps
<1>5. Field(new[1], p) = w[N]
  BY DEF Field, keys
<1> HIDE DEF N, old, w
<1>6. ASSUME NEW i \in 1 .. N + 1
      PROVE  Decoded(new[i]) = new[i]
  <2>1. CASE i = N + 1
    BY <1>2, <2>1
  <2>2. CASE i # N + 1
    <3>1. i \in 1 .. N
      BY <1>1, <2>2
    <3>2. new[i].decoded
      BY <1>2, <3>1, WithKeyFacts
    <3> QED
      BY <3>2, DecodedFacts
  <2> QED
    BY <2>1, <2>2
<1>7. 0 \in T
  BY <1>4
<1>8. ASSUME NEW n \in Nat, n \in T
      PROVE  n + 1 \in T
  <2> SUFFICES ASSUME n + 1 <= N
               PROVE  w[n + 1] = Ok(new[(n + 1) + 1])
    OBVIOUS
  <2> DEFINE x == new[n + 1]
             k == keys[n + 1]
             y == new[(n + 1) + 1]
  <2>1. n + 1 \in 1 .. N /\ (n + 1) - 1 = n /\ w[n] = Ok(x)
    BY <1>1, <1>8
  <2>2. w[n + 1] = Further(Ok(x), k)
    BY <1>4, <2>1
  <2>3. x = WithKey(old[n + 1], k, y)
    BY <1>2, <2>1
  <2>4. Decoded(y) = y
    <3>1. (n + 1) + 1 \in 1 .. N + 1
      BY <1>1, <2>1
    <3> QED
      BY <1>6, <3>1
  <2> HIDE DEF x, k, y
  <2>5. HasKey(x, k) /\ x.kids[k] = y /\ x.decoded
    BY <2>3, WithKeyFacts DEF HasKey
  <2>6. Kid(x, k) = y
    BY <2>4, <2>5, KidFacts
  <2> QED
    BY <2>2, <2>5, <2>6, OkFacts DEF Further, y
<1> HIDE DEF T
<1>9. N \in T
  BY <1>1, <1>7, <1>8, SetInduction
<1>10. w[N] = Ok(new[N + 1])
  BY <1>1, <1>9 DEF T
<1> QED
  BY <1>2, <1>3, <1>5, <1>10 DEF keys

\* The two facts about storing a result: mergePath keeps what its path leads
\* away from, and what it stores is found.
LEMMA MergeKeeps ==
    ASSUME NEW d, NEW r, NEW p \in Path, NEW q, Decodes(d),
           Merged(d, r, p).status = "ok", r.status = "ok",
           Apart(AsResultPath(p), q), q \in Readable(d)
    PROVE  Field(Merged(d, r, p).doc, q) \in AsRead(Field(d, q).doc)
<1> DEFINE x == Decoded(d)
<1>1. d.kind = "obj" /\ x.kind = "obj" /\ x.decoded /\ q \in Readable(x)
  BY DecodedFacts DEF Readable
<1>2. AsResultPath(p) = p /\ p.form = "keys"
  BY DEF AsResultPath, Apart, Whole
<1>3. Merged(d, r, p) = mergePath(d, r.doc, p)
  BY <1>2 DEF Merged
<1>4. Decodes(r.doc)
  BY <1>2, <1>3 DEF mergePath, Err
<1>5. mergePath(d, r.doc, p) = Ok(setNested(x, p.keys, Decoded(r.doc)))
  BY <1>1, <1>2, <1>4 DEF mergePath
<1>6. Field(x, q) \in AsRead(Field(d, q).doc)
  BY ReadDecoded
<1> HIDE DEF x
<1>7. Field(setNested(x, p.keys, Decoded(r.doc)), q) = Field(x, q)
  BY <1>1, <1>2, NestedKeeps
<1> QED
  BY <1>3, <1>5, <1>6, <1>7, OkFacts

\* What is at p in document d.
FoundIn(d, p) == CASE p.form = "root" -> Ok(d)
                   [] p.form = "keys" -> Field(d, p)
                   [] OTHER           -> Err(OtherError)

LEMMA MergeFound ==
    ASSUME NEW d, NEW r, NEW p \in Path, Merged(d, r, p).status = "ok", r.status = "ok"
    PROVE  FoundIn(Merged(d, r, p).doc, AsResultPath(p)) \in AsRead(r.doc)
<1> DEFINE a == AsResultPath(p)
           v == Decoded(r.doc)
<1>1. a \in Path /\ a.form # "omitted"
  BY PathKeys DEF AsResultPath, Whole, Path
<1>2. Merged(d, r, p) = mergePath(d, r.doc, a)
  BY DEF Merged
<1> HIDE DEF a
<1>3. CASE a.form = "root"
  BY <1>2, <1>3, OkFacts DEF mergePath, FoundIn, AsRead, a
<1>4. CASE a.form \in {"context", "bad"}
  BY <1>2, <1>4 DEF mergePath, Err
<1>5. CASE a.form = "keys"
  <2>1. Decodes(r.doc)
    BY <1>2, <1>5 DEF mergePath, Err
  <2>2. d.kind # "null"
    BY <1>2, <1>5, <2>1 DEF mergePath, Panic
  <2>3. PICK x : mergePath(d, r.doc, a) = Ok(setNested(x, a.keys, v))
    BY <1>5, <2>1, <2>2 DEF mergePath
  <2>4. Decoded(v) = v
    BY DecodedTwice
  <2> HIDE DEF v
  <2>5. Field(setNested(x, a.keys, v), a) = Ok(v)
    BY <1>1, <1>5, <2>4, NestedFound
  <2>6. FoundIn(Merged(d, r, p).doc, a) = Ok(v)
    BY <1>2, <1>5, <2>3, <2>5, OkFacts DEF FoundIn
  <2> QED
    BY <2>6 DEF v, AsRead, a
<1> QED
  BY <1>1, <1>3, <1>4, <1>5, PathKeys

-----------------------------------------------------------------------------
(* Executions with documents (WorkflowData): what the documents decide is   *)
(* one of the things Workflow leaves open, and a panic leaves the machines  *)
(* where they are, so what is proved of Workflow holds of them.             *)

LEMMA DataStepIsStep ==
    ASSUME NEW m \in Machine, DataStep(m)
    PROVE  Step(m)
<1>1. CASE TaskBegins(m)
  BY <1>1 DEF TaskBegins, Step
<1>2. CASE PassData(m)
  BY <1>2 DEF PassData, Step
<1>3. CASE ChoiceData(m)
  BY <1>3 DEF ChoiceData, Step
<1>4. CASE WaitData(m)
  BY <1>4 DEF WaitData, Step
<1>5. CASE ParallelData(m)
  BY <1>5 DEF ParallelData, Step
<1>6. CASE Answer(m)
  BY <1>6 DEF Answer, Step
<1>7. CASE \E e \in Error : Failure(m, e)
  BY <1>7 DEF Failure, Step
<1>8. CASE CutData(m)
  BY <1>8 DEF CutData, Step
<1>9. CASE JoinData(m)
  BY <1>9 DEF JoinData, Step
<1>10. CASE OtherData(m)
  BY <1>10 DEF OtherData, Step
<1> QED
  BY <1>1, <1>2, <1>3, <1>4, <1>5, <1>6, <1>7, <1>8, <1>9, <1>10 DEF DataStep

LEMMA DataNextIsNext ==
    [DataNext]_dataVars => [Next]_vars
<1> SUFFICES ASSUME [DataNext]_dataVars
             PROVE  [Next]_vars
  OBVIOUS
<1>1. CASE Begin
  BY <1>1 DEF Begin, Next
<1>2. ASSUME NEW m \in Machine, MachineStep(m)
      PROVE  [Next]_vars
  <2>1. CASE DataStep(m)
    BY <2>1, DataStepIsStep DEF Next
  <2>2. CASE Crash(m)
    BY <2>2 DEF Crash
  <2> QED
    BY <1>2, <2>1, <2>2 DEF MachineStep
<1>3. ASSUME NEW m \in Machine, Expire(m)
      PROVE  [Next]_vars
  BY <1>3 DEF Next
<1>4. CASE UNCHANGED dataVars
  BY <1>4 DEF dataVars
<1> QED
  BY <1>1, <1>2, <1>3, <1>4 DEF DataNext

\* The executor with its documents implements the executor without: paths and
\* choice rules take no step that Workflow does not allow (executor.go).
THEOREM DataImplementsWorkflow == DataSpec => Spec
<1>1. DataInit => Init
  BY DEF DataInit
<1>2. [DataNext]_dataVars => [Next]_vars
  BY DataNextIsNext
<1> QED
  BY <1>1, <1>2, PTL DEF DataSpec, Spec

\* With documents too, no branch outlives its Parallel state, and retries are
\* bounded by count and by timeout.
THEOREM DataKeepsBounds ==
    DataSpec => [](BranchesAreJoined /\ RetriesAreBounded /\ TimeoutStopsRetries)
BY DataImplementsWorkflow, BranchesAreJoinedThm, RetriesAreBoundedThm,
   TimeoutStopsRetriesThm, PTL
-----------------------------------------------------------------------------
(* What executions do to documents.  A machine's document is changed by its *)
(* own steps only, until the state it belongs to is left (DocumentIsOwn);   *)
(* each of them stores one result, or one error that is caught.             *)

\* Every machine has a document.
HasDocuments == DOMAIN doc = Machine

LEMMA DocumentsStay ==
    HasDocuments /\ [DataNext]_dataVars => HasDocuments'
<1> SUFFICES ASSUME HasDocuments, [DataNext]_dataVars
             PROVE  HasDocuments'
  OBVIOUS
<1>1. CASE Begin
  BY <1>1 DEF Begin, HasDocuments
<1>2. ASSUME NEW m \in Machine, DataStep(m)
      PROVE  HasDocuments'
  BY <1>2 DEF DataStep, TaskBegins, PassData, ChoiceData, WaitData, ParallelData, Answer,
     Failure, CutData, JoinData, OtherData, Yields, HasDocuments
<1>3. ASSUME NEW m \in Machine, Crash(m)
      PROVE  HasDocuments'
  BY <1>3 DEF Crash, HasDocuments
<1>4. CASE UNCHANGED doc
  BY <1>4 DEF HasDocuments
<1> QED
  BY <1>1, <1>2, <1>3, <1>4 DEF DataNext, MachineStep, dataVars

LEMMA DocumentsInvariant == DataSpec => [](WorkflowInv /\ HasDocuments)
<1>1. DataInit => HasDocuments
  BY DEF DataInit, HasDocuments
<1>2. DataSpec => []HasDocuments
  BY <1>1, DocumentsStay, PTL DEF DataSpec
<1> QED
  BY <1>2, DataImplementsWorkflow, WorkflowInvariant, PTL

\* No machine touches the document of another, unless it begins or ends it.
LEMMA DocumentIsOwn ==
    ASSUME WorkflowInv, HasDocuments, NEW m \in Machine, NEW k \in Machine \ {m},
           DataStep(k), ~At(m, "idle"), ~At(m, "done") \/ run'[m].pc # "idle"
    PROVE  doc'[m] = doc[m]
<1>1. CASE TaskBegins(k) \/ ChoiceData(k) \/ OtherData(k)
  BY <1>1 DEF TaskBegins, ChoiceData, OtherData
<1>2. CASE PassData(k) \/ WaitData(k) \/ Answer(k)
  BY <1>2 DEF PassData, WaitData, Answer, Yields, HasDocuments
<1>3. CASE (\E e \in Error : Failure(k, e)) \/ CutData(k)
  BY <1>3 DEF Failure, CutData, HasDocuments
<1>4. CASE ParallelData(k)
  <2>1. Defined(k) /\ ~At(k, "idle") /\ ~At(k, "join")
    BY <1>4 DEF ParallelData, EnterParallel, Is, At
  <2>2. m \notin Branches(k)
    BY <2>1, MachineFacts, BranchesIdle
  <2> QED
    BY <1>4, <2>2 DEF ParallelData
<1>5. CASE JoinData(k)
  <2>1. Join(k) /\ \A b \in Branches(k) : At(b, "done")
    BY <1>5 DEF JoinData, Join
  <2>2. PICK after : Leave(k, after)
    BY <2>1, JoinLeaves
  <2>3. m \notin Branches(k)
    BY <2>1, <2>2 DEF Leave, Unstarted
  <2> QED
    BY <1>5, <2>3 DEF JoinData
<1> QED
  BY <1>1, <1>2, <1>3, <1>4, <1>5 DEF DataStep

\* The paths of a state of the configuration are paths, one for each Catch rule.
LEMMA DataFacts ==
    ASSUME WorkflowInv, NEW m \in Machine, ~At(m, "idle"), Defined(m)
    PROVE  /\ DataOf(m).input \in Path /\ DataOf(m).result \in Path
           /\ DataOf(m).output \in Path
           /\ DOMAIN DataOf(m).catches = DOMAIN StateOf(m).catch
           /\ \A i \in DOMAIN StateOf(m).catch : DataOf(m).catches[i] \in Path
<1>1. run[m].state \in Name
  BY MachineFacts
<1>2. DataFits(StateOf(m), DataOf(m))
  BY <1>1, DataAssumption DEF Defined, StateOf, DataOf
<1> QED
  BY <1>2 DEF DataFits, IsData

LEMMA ErrorEscapes ==
    ASSUME NEW m \in Machine, NEW e \in Error
    PROVE  Escaping(m, e) \in Error
BY DEF Escaping

\* A Catch rule leaves the document as it is, or stores the error at its path.
LEMMA HandledEffect ==
    ASSUME WorkflowInv, NEW m \in Machine, ~At(m, "idle"), Defined(m), NEW e,
           Handled(m, e).status = "ok", Handled(m, e).doc # doc[m]
    PROVE  \E i \in DOMAIN StateOf(m).catch :
             /\ e \in StateOf(m).catch[i].errors
             /\ DataOf(m).catches[i] \in Path
             /\ Merged(doc[m], Ok(ErrorObject(e)), DataOf(m).catches[i]).status = "ok"
             /\ Handled(m, e) = Merged(doc[m], Ok(ErrorObject(e)), DataOf(m).catches[i])
<1> DEFINE i == FirstRule(StateOf(m).catch, e)
<1>1. run[m].state \in Name
  BY MachineFacts
<1>2. StateOf(m).catch \in Seq([errors : SUBSET Error, next : Name \cup {NoName}])
  BY <1>1, StateFacts DEF IsState
<1>3. i # 0 /\ Handled(m, e) = tryCatch(doc[m], e, DataOf(m).catches[i])
  BY OkFacts DEF Handled
<1>4. i \in DOMAIN StateOf(m).catch /\ e \in StateOf(m).catch[i].errors
  BY <1>2, <1>3, FirstRuleFound
<1> HIDE DEF i
<1>5. Handled(m, e) = Merged(doc[m], Ok(ErrorObject(e)), DataOf(m).catches[i])
  BY <1>3, OkFacts DEF tryCatch
<1> QED
  BY <1>4, <1>5, DataFacts

LEMMA HandledKeeps ==
    ASSUME WorkflowInv, NEW m \in Machine, ~At(m, "idle"), Defined(m), NEW e,
           Handled(m, e).status = "ok", Decodes(doc[m]),
           NEW q \in Readable(doc[m]), \A p \in Writes(m) : Apart(p, q)
    PROVE  Field(Handled(m, e).doc, q) \in AsRead(Field(doc[m], q).doc)
<1> SUFFICES ASSUME Handled(m, e).doc # doc[m]
             PROVE  Field(Handled(m, e).doc, q) \in AsRead(Field(doc[m], q).doc)
  BY ReadAsItIs
<1> DEFINE error == Ok(ErrorObject(e))
<1>1. PICK i \in DOMAIN StateOf(m).catch :
        /\ DataOf(m).catches[i] \in Path
        /\ Merged(doc[m], error, DataOf(m).catches[i]).status = "ok"
        /\ Handled(m, e) = Merged(doc[m], error, DataOf(m).catches[i])
  BY HandledEffect
<1>2. Apart(AsResultPath(DataOf(m).catches[i]), q)
  BY DataFacts DEF Writes
<1>3. error.status = "ok"
  BY OkFacts
<1> HIDE DEF error
<1> QED
  BY <1>1, <1>2, <1>3, MergeKeeps

LEMMA HandledFound ==
    ASSUME WorkflowInv, NEW m \in Machine, ~At(m, "idle"), Defined(m), NEW e \in Error,
           Handled(m, e).status = "ok", Handled(m, e).doc # doc[m]
    PROVE  \E i \in DOMAIN StateOf(m).catch, x \in Error :
             /\ x \in StateOf(m).catch[i].errors
             /\ FoundIn(Handled(m, e).doc, AsResultPath(DataOf(m).catches[i]))
                  \in AsRead(ErrorObject(x))
<1> DEFINE error == Ok(ErrorObject(e))
<1>1. PICK i \in DOMAIN StateOf(m).catch :
        /\ e \in StateOf(m).catch[i].errors
        /\ DataOf(m).catches[i] \in Path
        /\ Merged(doc[m], error, DataOf(m).catches[i]).status = "ok"
        /\ Handled(m, e) = Merged(doc[m], error, DataOf(m).catches[i])
  BY HandledEffect
<1>2. error.status = "ok" /\ error.doc = ErrorObject(e)
  BY OkFacts
<1> HIDE DEF error
<1>3. FoundIn(Handled(m, e).doc, AsResultPath(DataOf(m).catches[i])) \in AsRead(error.doc)
  BY <1>1, <1>2, MergeFound
<1> QED
  BY <1>1, <1>2, <1>3

-----------------------------------------------------------------------------
(* FieldsKept and ResultIsFound                                            *)

\* The outputs of branches are merged like any result.
LEMMA CollectedEffect ==
    ASSUME NEW m \in Machine, Collected(m).status = "ok"
    PROVE  Collected(m) = Merged(doc[m], Ok(Array(Outputs(m))), DataOf(m).result)
BY DEF Collected, parallelOutput, Err

LEMMA JoinStores ==
    ASSUME NEW m \in Machine, JoinData(m)
    PROVE  /\ At(m, "join")
           /\ doc'[m] = IF Joined(m).status = "ok" THEN Joined(m).doc ELSE doc[m]
<1>1. At(m, "join") /\ m \notin Branches(m)
  BY DEF JoinData, Join, At
<1>2. doc' = [b \in Machine |->
                CASE b = m             -> IF Joined(m).status = "ok" THEN Joined(m).doc
                                          ELSE doc[m]
                  [] b \in Branches(m) -> Null
                  [] OTHER             -> doc[b]]
  BY DEF JoinData
<1> QED
  BY <1>1, <1>2

\* A Wait state gives its input back.
LEMMA WaitKeepsDocument ==
    ASSUME WorkflowInv, HasDocuments, NEW m \in Machine, WaitData(m), Defined(m),
           ~At(m, "idle")
    PROVE  doc'[m] = doc[m]
<1> DEFINE w == DataOf(m).wait
           found == applyPath(doc[m], w.path)
           r == executeWait(doc[m], w)
           back == [r EXCEPT !.doc = doc[m]]
<1>1. run[m].state \in Name
  BY MachineFacts
<1>2. w.path \in Path /\ w.by \in {"none", "seconds", "timestamp", "malformed"}
  BY <1>1, DataAssumption DEF DataFits, IsData, Defined, StateOf, DataOf
<1> HIDE DEF w
<1>3. found \in {Ok(x) : x \in {found.doc}} \cup {Err(KeyNotFound), Err(OtherError)}
  BY <1>2, ApplyReturns
<1>4. r \in {Ok(doc[m]), Err(OtherError), found}
  <2> HIDE DEF found
  <2>1. executeWait(doc[m], w) \in {Ok(doc[m]), Err(OtherError), found}
    BY <1>2 DEF executeWait, found
  <2> QED
    BY <2>1
<1> HIDE DEF found, r
<1>5. back.doc = doc[m]
  BY <1>3, <1>4 DEF Ok, Err
<1>6. doc' = IF back.status = "ok" THEN [doc EXCEPT ![m] = back.doc] ELSE doc
  BY DEF WaitData, Yields, back, r, w
<1> HIDE DEF back
<1> QED
  BY <1>5, <1>6 DEF HasDocuments

LEMMA OwnStepKeeps ==
    ASSUME WorkflowInv, HasDocuments, NEW m \in Machine, DataStep(m),
           ~At(m, "idle"), Defined(m), ~Narrows(m), Decodes(doc[m]),
           NEW q \in Readable(doc[m]), \A p \in Writes(m) : Apart(p, q)
    PROVE  Field(doc'[m], q) \in AsRead(Field(doc[m], q).doc)
<1> DEFINE d == doc[m]
           s == DataOf(m)
           Kept(e) == Field(e, q) \in AsRead(Field(d, q).doc)
<1>0. Kept(d)
  BY ReadAsItIs
<1>1. s.input \in Path /\ s.result \in Path /\ s.output \in Path
  BY DataFacts
<1>2. Apart(AsResultPath(s.result), q)
  BY DEF Writes
\* Whatever is merged at the ResultPath keeps the field.
<1>3. ASSUME NEW r, Merged(d, r, s.result).status = "ok", r.status = "ok"
      PROVE  Kept(Merged(d, r, s.result).doc)
  BY <1>1, <1>2, <1>3, MergeKeeps
<1>4. ASSUME NEW e, Handled(m, e).status = "ok"
      PROVE  Kept(Handled(m, e).doc)
  BY <1>4, HandledKeeps
<1>5. CASE TaskBegins(m) \/ ChoiceData(m) \/ OtherData(m)
  BY <1>0, <1>5 DEF TaskBegins, ChoiceData, OtherData
<1>6. CASE ParallelData(m)
  BY <1>0, <1>6 DEF ParallelData
<1>7. CASE WaitData(m)
  BY <1>0, <1>7, WaitKeepsDocument
<1>8. CASE PassData(m)
  <2> DEFINE data == IF s.static # <<>> THEN Ok(s.static[1]) ELSE applyPath(d, s.input)
             merged == Merged(d, data, s.result)
             out == executePass(d, s)
  <2>1. doc'[m] = d \/ (out.status = "ok" /\ doc'[m] = out.doc)
    BY <1>8 DEF PassData, Yields, HasDocuments
  <2>2. s.output \in {Omitted, Whole}
    BY <1>8 DEF PassData, EnterPass, Is, Narrows
  <2>3. out = IF merged.status = "ok" THEN applyPath(merged.doc, s.output) ELSE merged
    BY DEF executePass
  <2>4. \A x : applyPath(x, s.output) = Ok(x)
    BY <2>2 DEF applyPath, Omitted, Whole
  <2> HIDE DEF out, d, s, data
  <2>5. out.status = "ok" => merged.status = "ok" /\ out.doc = merged.doc
    BY <2>3, <2>4, OkFacts
  <2>6. merged.status = "ok" => data.status = "ok"
    BY DEF Merged
  <2>7. merged.status = "ok" => Kept(merged.doc)
    BY <1>3, <2>6
  <2> QED
    BY <1>0, <2>1, <2>5, <2>7 DEF d
<1>9. CASE Answer(m)
  <2>1. PICK answer \in Answers[m] :
          Yields(m, taskOutput(d, answer, s), Going(m, StateOf(m).next))
    BY <1>9 DEF Answer
  <2> DEFINE cut == applyPath(answer, s.output)
             merged == Merged(d, cut, s.result)
  <2>2. taskOutput(d, answer, s) = merged
    BY DEF taskOutput
  <2> HIDE DEF merged
  <2>3. doc'[m] = d \/ (merged.status = "ok" /\ doc'[m] = merged.doc)
    BY <2>1, <2>2 DEF Yields, HasDocuments
  <2>4. merged.status = "ok" => cut.status = "ok"
    BY DEF merged, Merged
  <2> HIDE DEF d, s, cut
  <2>5. merged.status = "ok" => Kept(merged.doc)
    BY <1>3, <2>4 DEF merged
  <2> QED
    BY <1>0, <2>3, <2>5 DEF d
<1>10. ASSUME NEW e \in Error, Failure(m, e)
       PROVE  Kept(doc'[m])
  <2> DEFINE x == Escaping(m, e)
  <2>1. doc' = doc \/ (Handled(m, x).status = "ok"
                         /\ doc' = [doc EXCEPT ![m] = Handled(m, x).doc])
    BY <1>10 DEF Failure
  <2> HIDE DEF x
  <2> QED
    BY <1>0, <1>4, <2>1 DEF HasDocuments
<1>11. CASE CutData(m)
  <2>1. Handled(m, "States.Timeout").status = "ok"
        /\ doc'[m] = Handled(m, "States.Timeout").doc
    BY <1>11 DEF CutData, HasDocuments
  <2> QED
    BY <1>4, <2>1
<1>12. CASE JoinData(m)
  <2>1. doc'[m] = d \/ (Joined(m).status = "ok" /\ doc'[m] = Joined(m).doc)
    BY <1>12, JoinStores
  <2>2. CASE Failed(m) = {}
    <3> DEFINE list == Ok(Array(Outputs(m)))
    <3>1. Joined(m) = Collected(m)
      BY <2>2 DEF Joined
    <3>2. list.status = "ok"
      BY OkFacts
    <3> HIDE DEF list
    <3>3. Joined(m).status = "ok" => Joined(m) = Merged(d, list, s.result)
      BY <3>1, CollectedEffect DEF list
    <3> HIDE DEF d, s
    <3> QED
      BY <1>0, <1>3, <2>1, <3>2, <3>3 DEF d
  <2>3. CASE Failed(m) # {}
    <3>1. Joined(m) = Handled(m, FirstFailure(m))
      BY <2>3 DEF Joined
    <3> QED
      BY <1>0, <1>4, <2>1, <3>1
  <2> QED
    BY <2>2, <2>3
<1> QED
  BY <1>5, <1>6, <1>7, <1>8, <1>9, <1>10, <1>11, <1>12 DEF DataStep

\* The document of a machine that runs changes by its own steps only.
LEMMA StepsOfOthers ==
    ASSUME WorkflowInv, HasDocuments, [DataNext]_dataVars, NEW m \in Machine,
           ~At(m, "idle"), ~At(m, "done") \/ run'[m].pc # "idle", ~DataStep(m)
    PROVE  doc'[m] = doc[m]
<1>1. CASE Begin
  <2>1. m # Root
    BY <1>1 DEF Begin, Execute
  <2> QED
    BY <1>1, <2>1 DEF Begin, HasDocuments
<1>2. ASSUME NEW k \in Machine, DataStep(k)
      PROVE  doc'[m] = doc[m]
  BY <1>2, DocumentIsOwn
<1>3. ASSUME NEW k \in Machine, Crash(k)
      PROVE  doc'[m] = doc[m]
  BY <1>3 DEF Crash
<1> QED
  BY <1>1, <1>2, <1>3 DEF DataNext, MachineStep, dataVars

\* A ResultPath that leads elsewhere, of the state or of its Catch rules, loses
\* no field of a document that decodes, for paths of any length: setNested keeps
\* the objects on its way.  Numbers may come back as float64.
THEOREM FieldsKeptThm == DataSpec => FieldsKept
<1> DEFINE Keeps(m) ==
             (~At(m, "idle") /\ run'[m].pc # "idle" /\ Defined(m) /\ ~Narrows(m)
                /\ Decodes(doc[m]))
               => \A q \in Readable(doc[m]) :
                    (\A p \in Writes(m) : Apart(p, q))
                      => Field(doc'[m], q) \in AsRead(Field(doc[m], q).doc)
<1>1. WorkflowInv /\ HasDocuments /\ [DataNext]_dataVars => \A m \in Machine : Keeps(m)
  <2> SUFFICES ASSUME WorkflowInv, HasDocuments, [DataNext]_dataVars, NEW m \in Machine,
                      ~At(m, "idle"), run'[m].pc # "idle", Defined(m), ~Narrows(m),
                      Decodes(doc[m]),
                      NEW q \in Readable(doc[m]), \A p \in Writes(m) : Apart(p, q)
               PROVE  Field(doc'[m], q) \in AsRead(Field(doc[m], q).doc)
    OBVIOUS
  <2>1. CASE DataStep(m)
    BY <2>1, OwnStepKeeps
  <2>2. CASE ~DataStep(m)
    <3>1. doc'[m] = doc[m]
      BY <2>2, StepsOfOthers
    <3> QED
      BY <3>1, ReadAsItIs
  <2> QED
    BY <2>1, <2>2
<1>2. WorkflowInv /\ HasDocuments /\ [DataNext]_dataVars
        => [\A m \in Machine : Keeps(m)]_dataVars
  BY <1>1
<1> QED
  BY <1>2, DocumentsInvariant, PTL DEF DataSpec, FieldsKept

\* What a Task or a Parallel state adds to the document, or the error that a
\* Catch rule adds, is read back at the path the configuration names
\* (executeTask, executeParallel, tryCatch).
THEOREM ResultIsFoundThm == DataSpec => ResultIsFound
<1> DEFINE Found(m, p) == CASE p.form = "root" -> Ok(doc'[m])
                            [] p.form = "keys" -> Field(doc'[m], p)
                            [] OTHER           -> Err(OtherError)
           Results(m) == IF At(m, "join") THEN {Ok(Array(Outputs(m)))}
                         ELSE {applyPath(answer, DataOf(m).output) : answer \in Answers[m]}
           IsFound(m) ==
             \/ \E r \in Results(m) :
                  r.status = "ok" /\ Found(m, AsResultPath(DataOf(m).result)) \in AsRead(r.doc)
             \/ \E i \in DOMAIN StateOf(m).catch, e \in Error :
                  /\ e \in StateOf(m).catch[i].errors
                  /\ Found(m, AsResultPath(DataOf(m).catches[i])) \in AsRead(ErrorObject(e))
           Changes(m) == run[m].pc \in {"invoke", "backoff", "join"} /\ doc'[m] # doc[m]
<1>1. WorkflowInv /\ HasDocuments /\ [DataNext]_dataVars
        => \A m \in Machine : Changes(m) => IsFound(m)
  <2> SUFFICES ASSUME WorkflowInv, HasDocuments, [DataNext]_dataVars, NEW m \in Machine,
                      run[m].pc \in {"invoke", "backoff", "join"}, doc'[m] # doc[m]
               PROVE  IsFound(m)
    OBVIOUS
  <2>1. ~At(m, "idle") /\ ~At(m, "enter") /\ ~At(m, "wait") /\ ~At(m, "done")
    BY DEF At
  <2>2. Defined(m)
    BY MachineFacts DEF At
  <2>3. DataStep(m)
    BY <2>1, StepsOfOthers
  <2>4. DataOf(m).result \in Path /\ DataOf(m).output \in Path
    BY <2>1, <2>2, DataFacts
  <2>5. ASSUME NEW e \in Error, Handled(m, e).status = "ok", doc'[m] = Handled(m, e).doc
        PROVE  IsFound(m)
    BY <2>1, <2>2, <2>5, HandledFound DEF FoundIn
  <2>6. CASE Answer(m)
    <3>1. PICK answer \in Answers[m] :
            Yields(m, taskOutput(doc[m], answer, DataOf(m)), Going(m, StateOf(m).next))
      BY <2>6 DEF Answer
    <3> DEFINE cut == applyPath(answer, DataOf(m).output)
               merged == Merged(doc[m], cut, DataOf(m).result)
    <3>2. merged.status = "ok" /\ doc'[m] = merged.doc
      BY <3>1 DEF Yields, taskOutput, HasDocuments
    <3>3. cut.status = "ok"
      BY <3>2 DEF Merged
    <3> HIDE DEF cut
    <3>5. FoundIn(merged.doc, AsResultPath(DataOf(m).result)) \in AsRead(cut.doc)
      BY <2>4, <3>2, <3>3, MergeFound
    <3>6. Found(m, AsResultPath(DataOf(m).result)) \in AsRead(cut.doc)
      BY <3>2, <3>5 DEF FoundIn
    <3>7. ~At(m, "join")
      BY <2>6 DEF Answer, InvokeSucceeds, At
    <3> QED
      BY <3>3, <3>6, <3>7 DEF cut
  <2>7. ASSUME NEW e \in Error, Failure(m, e)
        PROVE  IsFound(m)
    <3>1. Escaping(m, e) \in Error
      BY ErrorEscapes
    <3>2. Handled(m, Escaping(m, e)).status = "ok"
          /\ doc'[m] = Handled(m, Escaping(m, e)).doc
      BY <2>7 DEF Failure, HasDocuments
    <3> QED
      BY <2>5, <3>1, <3>2
  <2>8. CASE CutData(m)
    <3>1. Handled(m, "States.Timeout").status = "ok"
          /\ doc'[m] = Handled(m, "States.Timeout").doc
      BY <2>8 DEF CutData, HasDocuments
    <3> QED
      BY <2>5, <3>1
  <2>9. CASE JoinData(m)
    <3>1. At(m, "join")
      BY <2>9, JoinStores
    <3>2. Joined(m).status = "ok" /\ doc'[m] = Joined(m).doc
      BY <2>9, JoinStores
    <3>3. CASE Failed(m) = {}
      <4> DEFINE list == Ok(Array(Outputs(m)))
      <4>1. list.status = "ok"
        BY OkFacts
      <4>2. Joined(m) = Merged(doc[m], list, DataOf(m).result)
        BY <3>2, <3>3, CollectedEffect DEF Joined
      <4> HIDE DEF list
      <4>3. FoundIn(doc'[m], AsResultPath(DataOf(m).result)) \in AsRead(list.doc)
        BY <2>4, <3>2, <4>1, <4>2, MergeFound
      <4>4. Found(m, AsResultPath(DataOf(m).result)) \in AsRead(list.doc)
        BY <4>3 DEF FoundIn
      <4> QED
        BY <3>1, <4>1, <4>4 DEF list
    <3>4. CASE Failed(m) # {}
      <4>1. FirstFailure(m) \in Error
        BY <3>1, <3>4, FirstFailureFacts
      <4> QED
        BY <2>5, <3>2, <3>4, <4>1 DEF Joined
    <3> QED
      BY <3>3, <3>4
  <2>10. ~(TaskBegins(m) \/ PassData(m) \/ ChoiceData(m) \/ WaitData(m) \/ ParallelData(m)
           \/ OtherData(m))
    BY <2>1 DEF TaskBegins, PassData, ChoiceData, WaitData, ParallelData, OtherData,
       EnterTask, EnterPass, EnterChoice, EnterWait, EnterParallel, Is
  <2> QED
    BY <2>3, <2>6, <2>7, <2>8, <2>9, <2>10 DEF DataStep
<1>2. WorkflowInv /\ HasDocuments /\ [DataNext]_dataVars
        => [\A m \in Machine : Changes(m) => IsFound(m)]_dataVars
  BY <1>1
<1> QED
  BY <1>2, DocumentsInvariant, PTL DEF DataSpec, ResultIsFound

-----------------------------------------------------------------------------
(* Strings of documents are sequences of characters, wherever in the       *)
(* document they stand.  That is what a choice rule needs to know of it.   *)

\* S holds, with every object, its values.
Regular(S) ==
    \A x \in S : /\ x.kind = "str" => x.str \in Seq(Nat)
                 /\ x.kind = "obj" => \A k \in DOMAIN x.kids : x.kids[k] \in S

Typed(d) == \E S : Regular(S) /\ d \in S

\* Decoding changes numbers only.
LEMMA TypedDecoded ==
    ASSUME NEW d, Typed(d)
    PROVE  Typed(Decoded(d))
<1> DEFINE e == Decoded(d)
<1>1. PICK S : Regular(S) /\ d \in S
  BY DEF Typed
<1>2. e.kind = d.kind /\ e.str = d.str /\ e.kids = d.kids
  BY DecodedFacts
<1> HIDE DEF e
<1>3. Regular(S \cup {e})
  BY <1>1, <1>2 DEF Regular
<1> QED
  BY <1>3 DEF Typed, e

LEMMA TypedKid ==
    ASSUME NEW d, NEW k, Typed(d), HasKey(d, k)
    PROVE  Typed(Kid(d, k))
<1>1. PICK S : Regular(S) /\ d \in S
  BY DEF Typed
<1>2. d.kids[k] \in S
  BY <1>1 DEF Regular, HasKey
<1>3. Typed(d.kids[k])
  BY <1>1, <1>2 DEF Typed
<1> QED
  BY <1>3, TypedDecoded, KidFacts

LEMMA TypedString ==
    ASSUME NEW d, Typed(d), d.kind = "str"
    PROVE  d.str \in Seq(Nat)
BY DEF Typed, Regular

LEMMA TypedDocument ==
    ASSUME NEW d \in Document
    PROVE  Typed(d)
<1>1. Regular(Document)
  BY DocumentAssumption DEF Regular, IsDocument
<1> QED
  BY <1>1 DEF Typed

\* What is neither a string nor an object.
LEMMA TypedOther ==
    ASSUME NEW d, d.kind # "str", d.kind # "obj"
    PROVE  Typed(d)
<1>1. Regular({d}) /\ d \in {d}
  BY DEF Regular
<1> QED
  BY <1>1 DEF Typed

LEMMA TypedEmpty == Typed(NewObject) /\ NewObject.kind = "obj"
<1>1. NewObject.kind = "obj" /\ DOMAIN NewObject.kids = {}
  BY DEF NewObject, Map, NoKids
<1> DEFINE new == NewObject
<1>2. new.kind = "obj" /\ DOMAIN new.kids = {}
  BY <1>1
<1> HIDE DEF new
<1>3. Regular({new})
  BY <1>2 DEF Regular
<1> QED
  BY <1>2, <1>3 DEF Typed, new

LEMMA TypedWithKey ==
    ASSUME NEW d, NEW k, NEW v, Typed(d), d.kind = "obj", Typed(v)
    PROVE  Typed(WithKey(d, k, v))
<1>1. PICK S : Regular(S) /\ d \in S
  BY DEF Typed
<1>2. PICK T : Regular(T) /\ v \in T
  BY DEF Typed
<1> DEFINE e == WithKey(d, k, v)
           U == S \cup T \cup {e}
<1>3. /\ e.kind = "obj" /\ DOMAIN e.kids = DOMAIN d.kids \cup {k}
      /\ \A x \in DOMAIN e.kids : e.kids[x] = IF x = k THEN v ELSE d.kids[x]
  BY DEF WithKey, Map
<1> HIDE DEF e
<1>4. \A x \in DOMAIN e.kids : e.kids[x] \in S \cup T
  BY <1>1, <1>2, <1>3 DEF Regular
<1>5. Regular(U)
  BY <1>1, <1>2, <1>3, <1>4 DEF Regular
<1> QED
  BY <1>5 DEF Typed, e

LEMMA TypedApply ==
    ASSUME NEW d, Typed(d), NEW p \in Path, applyPath(d, p).status = "ok"
    PROVE  Typed(applyPath(d, p).doc)
<1> DEFINE keys == p.keys
           N == Len(keys)
           w == Walked(Decoded(d), keys)
           T == {n \in Nat : n <= N => (w[n].status = "ok" => Typed(w[n].doc))}
<1>1. CASE p.form # "keys"
  BY <1>1, PathKeys, OkFacts DEF applyPath, Err
<1>2. CASE p.form = "keys"
  <2>1. keys \in Seq(Key) /\ N \in Nat
    BY <1>2, PathKeys
  <2>2. applyPath(d, p) = w[N]
    BY <1>2 DEF applyPath, Field, Err
  <2> HIDE DEF keys
  <2>3. w[0] = Ok(Decoded(d)) /\ \A i \in 1 .. N : w[i] = Further(w[i - 1], keys[i])
    BY <2>1, WalkedSteps
  <2> HIDE DEF N, w
  <2>4. 0 \in T
    BY <2>3, OkFacts, TypedDecoded
  <2>5. ASSUME NEW n \in Nat, n \in T
        PROVE  n + 1 \in T
    <3> SUFFICES ASSUME n + 1 <= N, w[n + 1].status = "ok"
                 PROVE  Typed(w[n + 1].doc)
      OBVIOUS
    <3>1. n + 1 \in 1 .. N /\ (n + 1) - 1 = n
      BY <2>1
    <3>2. w[n + 1] = Further(w[n], keys[n + 1])
      BY <2>3, <3>1
    <3>3. w[n].status = "ok" /\ HasKey(w[n].doc, keys[n + 1])
          /\ w[n + 1] = Ok(Kid(w[n].doc, keys[n + 1]))
      BY <3>2 DEF Further, Err
    <3>4. Typed(w[n].doc)
      BY <2>1, <2>5, <3>3
    <3> QED
      BY <3>3, <3>4, TypedKid, OkFacts
  <2> HIDE DEF T
  <2>6. N \in T
    BY <2>1, <2>4, <2>5, SetInduction
  <2> QED
    BY <2>1, <2>2, <2>6 DEF T
<1> QED
  BY <1>1, <1>2

LEMMA TypedNested ==
    ASSUME NEW d, Typed(d), d.kind = "obj", NEW keys \in Seq(Key), Len(keys) # 0,
           NEW v, Typed(v)
    PROVE  Typed(setNested(d, keys, v))
<1> DEFINE N == Len(keys)
           old == OldObjects(d, keys)
           new == NewObjects(d, keys, v)
           Fit(x) == x.kind = "obj" /\ Typed(x)
           Up == {n \in Nat : n + 1 <= N => Fit(old[n + 1])}
           Down == {n \in Nat : n <= N => Typed(new[N + 1 - n])}
<1>1. new[N + 1] = v /\ \A i \in 1 .. N : new[i] = WithKey(old[i], keys[i], new[i + 1])
  BY NewSteps
<1>2. \A i \in 1 .. N : old[i] = IF i = 1 THEN d ELSE KidObject(old[i - 1], keys[i - 1])
  BY OldSteps
<1>3. setNested(d, keys, v) = new[1] /\ N \in Nat \ {0}
  BY DEF setNested
<1> HIDE DEF N, old, new
<1>4. \A i \in 1 .. N : Fit(old[i])
  <2>1. 0 \in Up
    BY <1>2, <1>3
  <2>2. ASSUME NEW n \in Nat, n \in Up
        PROVE  n + 1 \in Up
    <3> SUFFICES ASSUME (n + 1) + 1 <= N
                 PROVE  Fit(old[(n + 1) + 1])
      OBVIOUS
    <3>1. (n + 1) + 1 \in 1 .. N /\ (n + 1) + 1 # 1 /\ ((n + 1) + 1) - 1 = n + 1
      BY <1>3
    <3>2. old[(n + 1) + 1] = KidObject(old[n + 1], keys[n + 1])
      BY <1>2, <3>1
    <3>3. Typed(old[n + 1])
      BY <1>3, <2>2
    <3>4. HasKey(old[n + 1], keys[n + 1]) => Typed(Kid(old[n + 1], keys[n + 1]))
      BY <3>3, TypedKid
    <3> QED
      BY <3>2, <3>4, TypedEmpty, KidFacts DEF KidObject
  <2> HIDE DEF Up
  <2>3. Nat \subseteq Up
    BY <2>1, <2>2, SetInduction
  <2>4. ASSUME NEW i \in 1 .. N PROVE Fit(old[i])
    <3>1. i - 1 \in Up /\ (i - 1) + 1 = i
      BY <1>3, <2>3
    <3> QED
      BY <3>1 DEF Up
  <2> QED
    BY <2>4
<1>5. 0 \in Down
  BY <1>1, <1>3
<1>6. ASSUME NEW n \in Nat, n \in Down
      PROVE  n + 1 \in Down
  <2> SUFFICES ASSUME n + 1 <= N
               PROVE  Typed(new[N + 1 - (n + 1)])
    OBVIOUS
  <2> DEFINE i == N + 1 - (n + 1)
  <2>1. i \in 1 .. N /\ i + 1 = N + 1 - n
    BY <1>3
  <2>2. Typed(new[i + 1])
    BY <1>3, <1>6, <2>1
  <2> HIDE DEF i
  <2>3. new[i] = WithKey(old[i], keys[i], new[i + 1]) /\ Fit(old[i])
    BY <1>1, <1>4, <2>1
  <2>4. Typed(new[i])
    BY <2>2, <2>3, TypedWithKey
  <2> QED
    BY <2>4 DEF i
<1> HIDE DEF Down
<1>7. N \in Down
  BY <1>3, <1>5, <1>6, SetInduction
<1>8. N + 1 - N = 1
  BY <1>3
<1> QED
  BY <1>3, <1>7, <1>8 DEF Down

LEMMA TypedMerge ==
    ASSUME NEW d, Typed(d), NEW r, NEW p \in Path, Merged(d, r, p).status = "ok",
           r.status = "ok" => Typed(r.doc)
    PROVE  Typed(Merged(d, r, p).doc)
<1> DEFINE a == AsResultPath(p)
<1>1. a \in Path
  BY PathKeys DEF AsResultPath, Whole, Path
<1>2. r.status = "ok" /\ Merged(d, r, p) = mergePath(d, r.doc, a)
  BY DEF Merged
<1> HIDE DEF a
<1>3. CASE a.form \in {"omitted", "root"}
  BY <1>2, <1>3, OkFacts DEF mergePath
<1>4. CASE a.form \in {"context", "bad"}
  BY <1>2, <1>4 DEF mergePath, Err
<1>5. CASE a.form = "keys"
  <2> DEFINE x == IF d.kind = "obj" /\ Decodes(d) THEN Decoded(d) ELSE NewObject
             v == Decoded(r.doc)
  <2>1. mergePath(d, r.doc, a) = Ok(setNested(x, a.keys, v))
    BY <1>2, <1>5 DEF mergePath, Err, Panic
  <2>2. x.kind = "obj" /\ Typed(x) /\ Typed(v)
    BY <1>2, TypedEmpty, TypedDecoded, DecodedFacts
  <2>3. a.keys \in Seq(Key) /\ Len(a.keys) # 0
    BY <1>1, <1>5, PathKeys
  <2> HIDE DEF x, v
  <2>4. Typed(setNested(x, a.keys, v))
    BY <2>2, <2>3, TypedNested
  <2> QED
    BY <1>2, <2>1, <2>4, OkFacts
<1> QED
  BY <1>1, <1>3, <1>4, <1>5, PathKeys

LEMMA TypedError ==
    ASSUME NEW e \in Error
    PROVE  Typed(ErrorObject(e))
<1> DEFINE x == ErrorObject(e)
           E == Str(ErrorText[e])
           C == Str(CauseText)
<1>1. /\ x.kind = "obj" /\ DOMAIN x.kids = {"Error", "Cause"}
      /\ x.kids["Error"] = E /\ x.kids["Cause"] = C
  BY DEF ErrorObject, Obj, Node
<1>2. E.kind = "str" /\ C.kind = "str" /\ E.str \in Seq(Nat) /\ C.str \in Seq(Nat)
  BY InputAssumption DEF Str, Node
<1> HIDE DEF x, E, C
<1>3. Regular({x, E, C})
  BY <1>1, <1>2 DEF Regular
<1> QED
  BY <1>3 DEF Typed, x

DocumentsTyped == \A m \in Machine : Typed(doc[m])

LEMMA TypedHandled ==
    ASSUME WorkflowInv, DocumentsTyped, NEW m \in Machine, ~At(m, "idle"), Defined(m),
           NEW e \in Error, Handled(m, e).status = "ok"
    PROVE  Typed(Handled(m, e).doc)
<1>1. CASE Handled(m, e).doc = doc[m]
  BY <1>1 DEF DocumentsTyped
<1>2. CASE Handled(m, e).doc # doc[m]
  <2> DEFINE error == Ok(ErrorObject(e))
  <2>1. PICK i \in DOMAIN StateOf(m).catch :
          /\ DataOf(m).catches[i] \in Path
          /\ Merged(doc[m], error, DataOf(m).catches[i]).status = "ok"
          /\ Handled(m, e) = Merged(doc[m], error, DataOf(m).catches[i])
    BY <1>2, HandledEffect
  <2>2. Typed(error.doc) /\ Typed(doc[m])
    BY TypedError, OkFacts DEF DocumentsTyped
  <2> HIDE DEF error
  <2> QED
    BY <2>1, <2>2, TypedMerge
<1> QED
  BY <1>1, <1>2

LEMMA TypedStep ==
    ASSUME WorkflowInv, HasDocuments, DocumentsTyped, NEW m \in Machine, DataStep(m)
    PROVE  DocumentsTyped'
<1> DEFINE d == doc[m]
           s == DataOf(m)
<1>1. Typed(d)
  BY DEF DocumentsTyped
<1>2. ASSUME NEW v, Typed(v), doc' = [doc EXCEPT ![m] = v]
      PROVE  DocumentsTyped'
  BY <1>2 DEF DocumentsTyped, HasDocuments
<1>3. ASSUME UNCHANGED doc
      PROVE  DocumentsTyped'
  BY <1>3 DEF DocumentsTyped
<1>4. CASE TaskBegins(m) \/ ChoiceData(m) \/ OtherData(m)
  BY <1>3, <1>4 DEF TaskBegins, ChoiceData, OtherData
<1>5. CASE ParallelData(m)
  BY <1>5 DEF ParallelData, DocumentsTyped
<1> SUFFICES ASSUME ~(TaskBegins(m) \/ ChoiceData(m) \/ OtherData(m) \/ ParallelData(m))
             PROVE  DocumentsTyped'
  BY <1>4, <1>5
<1>6. ~At(m, "idle") /\ Defined(m)
  <2>1. CASE PassData(m) \/ WaitData(m)
    BY <2>1 DEF PassData, WaitData, EnterPass, EnterWait, Is, At
  <2>2. CASE Answer(m) \/ (\E e \in Error : Failure(m, e)) \/ CutData(m) \/ JoinData(m)
    <3>1. run[m].pc \in {"invoke", "backoff", "join"}
      BY <2>2 DEF Answer, Failure, CutData, JoinData, InvokeSucceeds, InvokeFails,
         BackoffCut, Join, At
    <3> QED
      BY <3>1, MachineFacts DEF At
  <2> QED
    BY <2>1, <2>2 DEF DataStep
<1>7. s.input \in Path /\ s.result \in Path /\ s.output \in Path
  BY <1>6, DataFacts
<1>8. CASE WaitData(m)
  <2>1. doc'[m] = doc[m]
    BY <1>6, <1>8, WaitKeepsDocument
  <2>2. \A b \in Machine : doc'[b] = doc[b]
    BY <1>8, <2>1 DEF WaitData, Yields, HasDocuments
  <2> QED
    BY <2>2 DEF DocumentsTyped
<1>9. CASE PassData(m)
  <2> DEFINE data == IF s.static # <<>> THEN Ok(s.static[1]) ELSE applyPath(d, s.input)
             merged == Merged(d, data, s.result)
             out == executePass(d, s)
  <2>1. UNCHANGED doc \/ (out.status = "ok" /\ doc' = [doc EXCEPT ![m] = out.doc])
    BY <1>9 DEF PassData, Yields
  <2>2. out = IF merged.status = "ok" THEN applyPath(merged.doc, s.output) ELSE merged
    BY DEF executePass
  <2>3. s.static \in Seq(Document)
    <3>1. run[m].state \in Name
      BY <1>6, MachineFacts
    <3> QED
      BY <1>6, <3>1, DataAssumption DEF DataFits, IsData, Defined, StateOf, DataOf
  <2>4. s.static # <<>> => Typed(s.static[1])
    BY <2>3, TypedDocument
  <2>5. data.status = "ok" => Typed(data.doc)
    BY <1>1, <1>7, <2>4, TypedApply, OkFacts
  <2> HIDE DEF out, d, s, data
  <2>6. merged.status = "ok" => Typed(merged.doc)
    BY <1>1, <1>7, <2>5, TypedMerge
  <2> HIDE DEF merged
  <2>7. out.status = "ok" => Typed(out.doc)
    BY <1>7, <2>2, <2>6, TypedApply
  <2> QED
    BY <1>2, <1>3, <2>1, <2>7
<1>10. CASE Answer(m)
  <2>1. PICK answer \in Answers[m] :
          Yields(m, taskOutput(d, answer, s), Going(m, StateOf(m).next))
    BY <1>10 DEF Answer
  <2> DEFINE cut == applyPath(answer, s.output)
             merged == Merged(d, cut, s.result)
  <2>2. UNCHANGED doc \/ (merged.status = "ok" /\ doc' = [doc EXCEPT ![m] = merged.doc])
    BY <2>1 DEF Yields, taskOutput
  <2>3. Typed(answer)
    BY InputAssumption, TypedDocument
  <2> HIDE DEF d, s
  <2>4. cut.status = "ok" => Typed(cut.doc)
    BY <1>7, <2>3, TypedApply
  <2> HIDE DEF cut
  <2>5. merged.status = "ok" => Typed(merged.doc)
    BY <1>1, <1>7, <2>4, TypedMerge
  <2> HIDE DEF merged
  <2> QED
    BY <1>2, <1>3, <2>2, <2>5
<1>11. ASSUME NEW e \in Error, Failure(m, e)
       PROVE  DocumentsTyped'
  <2> DEFINE v == Handled(m, Escaping(m, e))
  <2>1. UNCHANGED doc \/ (v.status = "ok" /\ doc' = [doc EXCEPT ![m] = v.doc])
    BY <1>11 DEF Failure
  <2>2. v.status = "ok" => Typed(v.doc)
    BY <1>6, ErrorEscapes, TypedHandled
  <2> HIDE DEF v
  <2> QED
    BY <1>2, <1>3, <2>1, <2>2
<1>12. CASE CutData(m)
  <2> DEFINE v == Handled(m, "States.Timeout")
  <2>1. v.status = "ok" /\ doc' = [doc EXCEPT ![m] = v.doc]
    BY <1>12 DEF CutData
  <2>2. Typed(v.doc)
    BY <1>6, <2>1, TypedHandled
  <2> HIDE DEF v
  <2> QED
    BY <1>2, <2>1, <2>2
<1>13. CASE JoinData(m)
  <2> DEFINE list == Ok(Array(Outputs(m)))
  <2>1. At(m, "join") /\ doc'[m] = IF Joined(m).status = "ok" THEN Joined(m).doc ELSE d
    BY <1>13, JoinStores
  <2>2. \A b \in Machine \ {m} : doc'[b] \in {Null, doc[b]}
    BY <1>13 DEF JoinData
  <2>3. Typed(Null)
    BY TypedOther DEF Null, Node
  <2>4. list.status = "ok" /\ Typed(list.doc)
    BY TypedOther, OkFacts DEF Array, Node
  <2>5. Joined(m).status = "ok" => Typed(Joined(m).doc)
    <3>1. CASE Failed(m) = {}
      <4>1. Joined(m).status = "ok" => Joined(m) = Merged(d, list, s.result)
        BY <3>1, CollectedEffect DEF Joined
      <4> HIDE DEF list, d, s
      <4> QED
        BY <1>1, <1>7, <2>4, <4>1, TypedMerge
    <3>2. CASE Failed(m) # {}
      <4>1. FirstFailure(m) \in Error
        BY <2>1, <3>2, FirstFailureFacts
      <4> QED
        BY <1>6, <3>2, <4>1, TypedHandled DEF Joined
    <3> QED
      BY <3>1, <3>2
  <2>6. Typed(doc'[m])
    BY <1>1, <2>1, <2>5
  <2>7. \A b \in Machine \ {m} : Typed(doc'[b])
    BY <2>2, <2>3 DEF DocumentsTyped
  <2> QED
    BY <2>6, <2>7 DEF DocumentsTyped
<1> QED
  BY <1>8, <1>9, <1>10, <1>11, <1>12, <1>13 DEF DataStep

LEMMA DocumentsStayTyped ==
    WorkflowInv /\ HasDocuments /\ DocumentsTyped /\ [DataNext]_dataVars => DocumentsTyped'
<1> SUFFICES ASSUME WorkflowInv, HasDocuments, DocumentsTyped, [DataNext]_dataVars
             PROVE  DocumentsTyped'
  OBVIOUS
<1>1. CASE Begin
  <2>1. PICK input \in Inputs : doc' = [doc EXCEPT ![Root] = input]
    BY <1>1 DEF Begin
  <2>2. Typed(input)
    BY InputAssumption, TypedDocument
  <2> QED
    BY <2>1, <2>2 DEF DocumentsTyped, HasDocuments
<1>2. ASSUME NEW m \in Machine, DataStep(m)
      PROVE  DocumentsTyped'
  BY <1>2, TypedStep
<1>3. CASE UNCHANGED doc
  BY <1>3 DEF DocumentsTyped
<1> QED
  BY <1>1, <1>2, <1>3 DEF DataNext, MachineStep, Crash, dataVars

LEMMA TypedInvariant == DataSpec => [](WorkflowInv /\ HasDocuments /\ DocumentsTyped)
<1>1. DataInit => DocumentsTyped
  <2>1. Typed(Null)
    BY TypedOther DEF Null, Node
  <2> QED
    BY <2>1 DEF DataInit, DocumentsTyped
<1>2. DataSpec => []DocumentsTyped
  BY <1>1, DocumentsStayTyped, DocumentsInvariant, PTL DEF DataSpec
<1> QED
  BY <1>2, DocumentsInvariant, PTL

-----------------------------------------------------------------------------
(* Patterns.  matchGlob takes the first occurrence of each part, which     *)
(* finds a match whenever there is one, provided that nothing follows the  *)
(* last star: what is found first leaves most of the string to the rest.   *)

LEMMA LeastFacts ==
    ASSUME NEW S \in SUBSET Nat, S # {}
    PROVE  Least(S) \in S /\ \A j \in S : Least(S) <= j
<1>1. \E i \in S : \A j \in S : i <= j
  BY LeastNatural
<1> QED
  BY <1>1 DEF Least

LEMMA StretchFacts ==
    ASSUME NEW s \in Seq(Nat), NEW n \in Nat, NEW k \in Nat, n + k <= Len(s)
    PROVE  /\ SubSeq(s, n + 1, n + k) \in Seq(Nat)
           /\ Len(SubSeq(s, n + 1, n + k)) = k
           /\ \A j \in 1 .. k : SubSeq(s, n + 1, n + k)[j] = s[n + j]
<1>1. \A i \in n + 1 .. n + k : s[i] \in Nat
  OBVIOUS
<1>2. n + 1 \in Int /\ n + k \in Int
  OBVIOUS
<1> DEFINE a == n + 1
           b == n + k
<1>3. /\ SubSeq(s, a, b) \in Seq(Nat)
      /\ Len(SubSeq(s, a, b)) = IF a <= b THEN b - a + 1 ELSE 0
      /\ \A i \in 1 .. b - a + 1 : SubSeq(s, a, b)[i] = s[a + i - 1]
  <2> HIDE DEF a, b
  <2> QED
    BY <1>1, <1>2, SubSeqProperties DEF a, b
<1> QED
  BY <1>3

\* A stretch of the rest is a stretch of the string.
LEMMA StretchOfRest ==
    ASSUME NEW s \in Seq(Nat), NEW n \in 0 .. Len(s), NEW i \in Nat, NEW k \in Nat,
           n + i + k <= Len(s)
    PROVE  SubSeq(SubSeq(s, n + 1, Len(s)), i + 1, i + k) = SubSeq(s, n + i + 1, n + i + k)
<1> DEFINE r == SubSeq(s, n + 1, Len(s))
           l == Len(s) - n
           m == n + i
           x == SubSeq(r, i + 1, i + k)
           y == SubSeq(s, m + 1, m + k)
<1>1. l \in Nat /\ n \in Nat /\ n + l = Len(s) /\ m \in Nat /\ m + k <= Len(s)
  OBVIOUS
<1>2. r \in Seq(Nat) /\ Len(r) = l /\ \A j \in 1 .. l : r[j] = s[n + j]
  <2> HIDE DEF l
  <2>1. SubSeq(s, n + 1, n + l) \in Seq(Nat) /\ Len(SubSeq(s, n + 1, n + l)) = l
        /\ \A j \in 1 .. l : SubSeq(s, n + 1, n + l)[j] = s[n + j]
    BY <1>1, StretchFacts
  <2> QED
    BY <1>1, <2>1
<1> HIDE DEF r, m
<1>3. y \in Seq(Nat) /\ Len(y) = k /\ \A j \in 1 .. k : y[j] = s[m + j]
  BY <1>1, StretchFacts
<1>4. i + k <= Len(r)
  BY <1>2
<1>5. x \in Seq(Nat) /\ Len(x) = k /\ \A j \in 1 .. k : x[j] = r[i + j]
  BY <1>2, <1>4, StretchFacts
<1>6. \A j \in 1 .. k : r[i + j] = s[m + j]
  <2>1. \A j \in 1 .. k : i + j \in 1 .. l /\ n + (i + j) = m + j
    BY DEF m
  <2> QED
    BY <1>2, <2>1
<1>7. x = y
  <2>1. \A j \in 1 .. k : x[j] = y[j]
    BY <1>3, <1>5, <1>6
  <2> HIDE DEF x, y
  <2> QED
    BY <1>3, <1>5, <2>1, SeqEqual
<1> QED
  BY <1>7 DEF x, y, r, m

LEMMA RestFacts ==
    ASSUME NEW s \in Seq(Nat), NEW n \in 0 .. Len(s)
    PROVE  /\ SubSeq(s, n + 1, Len(s)) \in Seq(Nat)
           /\ Len(SubSeq(s, n + 1, Len(s))) = Len(s) - n
OBVIOUS

LEMMA IndexFacts ==
    ASSUME NEW s \in Seq(Nat), NEW part \in Seq(Nat)
    PROVE  /\ \/ Index(s, part) = -1
              \/ /\ Index(s, part) \in 0 .. Len(s) - Len(part)
                 /\ SubSeq(s, Index(s, part) + 1, Index(s, part) + Len(part)) = part
           /\ \A i \in 0 .. Len(s) - Len(part) :
                SubSeq(s, i + 1, i + Len(part)) = part => Index(s, part) \in 0 .. i
<1> DEFINE hits == {i \in 0 .. Len(s) - Len(part) : SubSeq(s, i + 1, i + Len(part)) = part}
           first == CHOOSE i \in hits : \A j \in hits : i <= j
<1>1. Index(s, part) = IF hits = {} THEN -1 ELSE first
  BY DEF Index
<1>2. hits \in SUBSET Nat
  OBVIOUS
<1>3. hits # {} => first \in hits /\ \A j \in hits : first <= j
  <2> HIDE DEF hits
  <2>1. hits # {} => \E i \in hits : \A j \in hits : i <= j
    BY <1>2, LeastNatural
  <2> QED
    BY <2>1
<1>4. ASSUME NEW i \in 0 .. Len(s) - Len(part), SubSeq(s, i + 1, i + Len(part)) = part
      PROVE  Index(s, part) \in 0 .. i
  <2>1. \E j \in 0 .. Len(s) - Len(part) :
          j = i /\ SubSeq(s, j + 1, j + Len(part)) = part
    BY <1>4
  <2>2. i \in hits
    BY <1>4, <2>1
  <2>3. i \in Nat
    OBVIOUS
  <2> HIDE DEF hits, first
  <2>4. first \in Nat /\ first <= i
    BY <1>2, <1>3, <2>2
  <2> QED
    BY <1>1, <2>2, <2>3, <2>4
<1>5. first \in hits => /\ first \in 0 .. Len(s) - Len(part)
                         /\ SubSeq(s, first + 1, first + Len(part)) = part
  <2> HIDE DEF first
  <2> QED
    OBVIOUS
<1> HIDE DEF hits, first
<1> QED
  BY <1>1, <1>3, <1>4, <1>5

\* Where a part is found, and that it is found no later than anywhere else.
LEMMA PastFound ==
    ASSUME NEW s \in Seq(Nat), NEW n \in 0 .. Len(s), NEW i \in Nat \ {0},
           NEW part \in Seq(Nat), Past(s, n, i, part) # -1
    PROVE  /\ Past(s, n, i, part) \in n + Len(part) .. Len(s)
           /\ SubSeq(s, Past(s, n, i, part) - Len(part) + 1, Past(s, n, i, part)) = part
           /\ i = 1 => Past(s, n, i, part) = n + Len(part)
<1> DEFINE r == SubSeq(s, n + 1, Len(s))
           at == Index(r, part)
           k == Len(part)
<1>1. r \in Seq(Nat) /\ Len(r) = Len(s) - n
  BY RestFacts
<1>2. CASE part = <<>>
  <2>1. Past(s, n, i, part) = n
    BY <1>2 DEF Past
  <2>2. SubSeq(s, n - 0 + 1, n) = <<>>
    OBVIOUS
  <2> QED
    BY <1>2, <2>1, <2>2
<1>3. CASE part # <<>>
  <2>1. Past(s, n, i, part) = IF at < 0 \/ (i = 1 /\ at # 0) THEN -1 ELSE n + at + k
    BY <1>3 DEF Past
  <2>2. ~(at < 0) /\ (i = 1 => at = 0) /\ Past(s, n, i, part) = n + at + k
    BY <2>1
  <2> HIDE DEF r
  <2>3. at = -1 \/ (at \in 0 .. Len(r) - k /\ SubSeq(r, at + 1, at + k) = part)
    BY <1>1, IndexFacts
  <2> HIDE DEF at
  <2>4. at \in 0 .. Len(r) - k /\ SubSeq(r, at + 1, at + k) = part
    BY <2>2, <2>3
  <2>5. at \in Nat /\ k \in Nat /\ n + at + k <= Len(s)
    BY <1>1, <2>4
  <2>6. SubSeq(s, n + at + 1, n + at + k) = part
    <3>1. SubSeq(SubSeq(s, n + 1, Len(s)), at + 1, at + k) = part
      BY <2>4 DEF r
    <3> HIDE DEF k
    <3> QED
      BY <2>5, <3>1, StretchOfRest
  <2>7. n + at + k - k + 1 = n + at + 1
    BY <2>5
  <2> QED
    BY <2>2, <2>5, <2>6, <2>7
<1> QED
  BY <1>2, <1>3

LEMMA PastFirst ==
    ASSUME NEW s \in Seq(Nat), NEW n \in 0 .. Len(s), NEW i \in Nat \ {0},
           NEW part \in Seq(Nat), NEW f \in n .. Len(s) - Len(part),
           SubSeq(s, f + 1, f + Len(part)) = part, i = 1 => f = n
    PROVE  Past(s, n, i, part) \in 0 .. f + Len(part)
<1> DEFINE r == SubSeq(s, n + 1, Len(s))
           at == Index(r, part)
           k == Len(part)
<1>1. r \in Seq(Nat) /\ Len(r) = Len(s) - n
  BY RestFacts
<1>2. CASE part = <<>>
  BY <1>2 DEF Past
<1>3. CASE part # <<>>
  <2>1. Past(s, n, i, part) = IF at < 0 \/ (i = 1 /\ at # 0) THEN -1 ELSE n + at + k
    BY <1>3 DEF Past
  <2>2. f - n \in Nat /\ k \in Nat /\ n + (f - n) + k <= Len(s) /\ n + (f - n) = f
    OBVIOUS
  <2>3. SubSeq(r, (f - n) + 1, (f - n) + k) = part
    BY <2>2, StretchOfRest
  <2> HIDE DEF r
  <2>4. f - n \in 0 .. Len(r) - k
    BY <1>1, <2>2
  <2>5. at \in 0 .. f - n
    BY <1>1, <2>3, <2>4, IndexFacts
  <2> HIDE DEF at
  <2> QED
    BY <2>1, <2>2, <2>5
<1> QED
  BY <1>2, <1>3

IsConsumed(f, n, parts, s) ==
    f = [i \in 0 .. n |-> IF i = 0 THEN 0 ELSE Past(s, f[i - 1], i, parts[i])]

LEMMA ConsumedExists ==
    ASSUME NEW parts, NEW s
    PROVE  \A n \in Nat : \E f : IsConsumed(f, n, parts, s)
<1> DEFINE body(f, i) == IF i = 0 THEN 0 ELSE Past(s, f[i - 1], i, parts[i])
           T == {n \in Nat : \E f : f = [i \in 0 .. n |-> body(f, i)]}
<1>1. 0 \in T
  <2> DEFINE f == [i \in 0 .. 0 |-> 0]
  <2>1. f = [i \in 0 .. 0 |-> body(f, i)]
    OBVIOUS
  <2> QED
    BY <2>1
<1>2. ASSUME NEW n \in Nat, n \in T
      PROVE  n + 1 \in T
  <2>1. PICK f : f = [i \in 0 .. n |-> body(f, i)]
    BY <1>2
  <2> DEFINE g == [i \in 0 .. n + 1 |-> IF i <= n THEN f[i] ELSE body(f, i)]
  <2>2. ASSUME NEW i \in 0 .. n + 1 PROVE g[i] = body(g, i)
    <3>1. g[i] = body(f, i)
      BY <2>1
    <3>2. i # 0 => g[i - 1] = f[i - 1]
      OBVIOUS
    <3> QED
      BY <3>1, <3>2
  <2>3. g = [i \in 0 .. n + 1 |-> g[i]]
    OBVIOUS
  <2> HIDE DEF g
  <2>4. g = [i \in 0 .. n + 1 |-> body(g, i)]
    BY <2>2, <2>3
  <2> QED
    BY <2>4
<1> HIDE DEF T
<1>3. Nat \subseteq T
  BY <1>1, <1>2, SetInduction
<1> QED
  BY <1>3 DEF T, IsConsumed

LEMMA ConsumedSteps ==
    ASSUME NEW K, NEW parts \in Seq(K), NEW s
    PROVE  /\ Consumed(parts, s)[0] = 0
           /\ \A i \in 1 .. Len(parts) :
                Consumed(parts, s)[i] = Past(s, Consumed(parts, s)[i - 1], i, parts[i])
<1> DEFINE N == Len(parts)
           u == Consumed(parts, s)
<1>1. N \in Nat
  OBVIOUS
<1> HIDE DEF N
<1>2. PICK f : IsConsumed(f, N, parts, s)
  BY <1>1, ConsumedExists
<1>3. u = [i \in 0 .. N |-> IF i = 0 THEN 0 ELSE Past(s, u[i - 1], i, parts[i])]
  BY <1>2 DEF IsConsumed, Consumed, N
<1> HIDE DEF u
<1>4. \A i \in 0 .. N : u[i] = IF i = 0 THEN 0 ELSE Past(s, u[i - 1], i, parts[i])
  BY <1>3
<1>5. u[0] = 0 /\ \A i \in 1 .. N : u[i] = Past(s, u[i - 1], i, parts[i])
  BY <1>1, <1>4
<1> QED
  BY <1>5 DEF u, N

\* Where the parts end that matchGlob has found, as far as it finds them.
LEMMA ConsumedFacts ==
    ASSUME NEW s \in Seq(Nat), NEW parts \in Seq(Seq(Nat))
    PROVE  LET u == Consumed(parts, s)
           IN  /\ u[0] = 0
               /\ \A i \in 0 .. Len(parts) : u[i] = -1 \/ u[i] \in 0 .. Len(s)
               /\ \A i \in 1 .. Len(parts) :
                    /\ u[i] = Past(s, u[i - 1], i, parts[i])
                    /\ u[i] # -1 =>
                         /\ u[i - 1] \in 0 .. Len(s)
                         /\ u[i] \in u[i - 1] + Len(parts[i]) .. Len(s)
                         /\ SubSeq(s, u[i] - Len(parts[i]) + 1, u[i]) = parts[i]
                         /\ i = 1 => u[i] = Len(parts[i])
<1> DEFINE u == Consumed(parts, s)
           N == Len(parts)
           T == {j \in Nat : j <= N => (u[j] = -1 \/ u[j] \in 0 .. Len(s))}
<1>1. u[0] = 0 /\ \A i \in 1 .. N : u[i] = Past(s, u[i - 1], i, parts[i])
  BY ConsumedSteps
<1> HIDE DEF u
<1>2. \A i \in 1 .. N : parts[i] \in Seq(Nat)
  OBVIOUS
<1>3. N \in Nat
  OBVIOUS
<1> HIDE DEF N
<1>4. ASSUME NEW i \in 1 .. N, u[i - 1] = -1 \/ u[i - 1] \in 0 .. Len(s), u[i] # -1
      PROVE  /\ u[i - 1] \in 0 .. Len(s)
             /\ u[i] \in u[i - 1] + Len(parts[i]) .. Len(s)
             /\ SubSeq(s, u[i] - Len(parts[i]) + 1, u[i]) = parts[i]
             /\ i = 1 => u[i] = Len(parts[i])
  <2> DEFINE n == u[i - 1]
             part == parts[i]
  <2>1. u[i] = Past(s, n, i, part)
    BY <1>1
  <2>2. part \in Seq(Nat) /\ i \in Nat \ {0}
    BY <1>2, <1>3
  <2>3. i = 1 => n = 0
    BY <1>1
  <2>4. n = -1 \/ n \in 0 .. Len(s)
    BY <1>4
  <2> HIDE DEF n, part
  <2>5. n \in 0 .. Len(s)
    BY <1>4, <2>1, <2>4 DEF Past
  <2>6. /\ u[i] \in n + Len(part) .. Len(s)
        /\ SubSeq(s, u[i] - Len(part) + 1, u[i]) = part
        /\ i = 1 => u[i] = n + Len(part)
    BY <1>4, <2>1, <2>2, <2>5, PastFound
  <2>7. i = 1 => u[i] = Len(part)
    BY <2>2, <2>3, <2>6
  <2> QED
    BY <2>5, <2>6, <2>7 DEF n, part
<1>5. 0 \in T
  BY <1>1
<1>6. ASSUME NEW j \in Nat, j \in T
      PROVE  j + 1 \in T
  <2> SUFFICES ASSUME j + 1 <= N, u[j + 1] # -1
               PROVE  u[j + 1] \in 0 .. Len(s)
    OBVIOUS
  <2> DEFINE i == j + 1
  <2>1. i \in 1 .. N /\ i - 1 = j
    BY <1>3
  <2>2. u[i - 1] = -1 \/ u[i - 1] \in 0 .. Len(s)
    BY <1>3, <1>6, <2>1
  <2> HIDE DEF i
  <2>3. u[i] # -1
    BY DEF i
  <2>4. /\ u[i - 1] \in 0 .. Len(s)
        /\ u[i] \in u[i - 1] + Len(parts[i]) .. Len(s)
    BY <1>4, <2>1, <2>2, <2>3
  <2>5. Len(parts[i]) \in Nat
    BY <1>2, <2>1
  <2>6. u[i] \in 0 .. Len(s)
    BY <2>4, <2>5
  <2> QED
    BY <2>6 DEF i
<1> HIDE DEF T
<1>7. Nat \subseteq T
  BY <1>5, <1>6, SetInduction
<1>8. \A i \in 0 .. N : u[i] = -1 \/ u[i] \in 0 .. Len(s)
  BY <1>3, <1>7 DEF T
<1>9. ASSUME NEW i \in 1 .. N PROVE i - 1 \in 0 .. N
  BY <1>3
<1> QED
  BY <1>1, <1>4, <1>8, <1>9 DEF u, N

\* What matchGlob accepts, the pattern does match.
LEMMA GlobIsSound ==
    ASSUME NEW s \in Seq(Nat), NEW parts \in Seq(Seq(Nat)), parts # <<>>,
           matchGlob(parts, s)
    PROVE  Matches(parts, s)
<1> DEFINE u == Consumed(parts, s)
           N == Len(parts)
           k(i) == Len(parts[i])
           from == [i \in 1 .. N |-> IF i = N THEN Len(s) - k(i) ELSE u[i] - k(i)]
<1>1. N \in Nat \ {0} /\ DOMAIN parts = 1 .. N /\ \A i \in 1 .. N : parts[i] \in Seq(Nat)
  OBVIOUS
<1>2. \A i \in 1 .. N : k(i) \in Nat
  BY <1>1
<1>3. SUFFICES \E f \in [1 .. N -> 0 .. Len(s)] :
                 /\ f[1] = 0 /\ f[N] + k(N) = Len(s)
                 /\ \A i \in 1 .. N - 1 : f[i] + k(i) <= f[i + 1]
                 /\ \A i \in 1 .. N : SubSeq(s, f[i] + 1, f[i] + k(i)) = parts[i]
  BY <1>1 DEF Matches
<1>4. CASE N = 1
  <2>1. parts[1] = s
    BY <1>4 DEF matchGlob
  <2> DEFINE f == [i \in 1 .. 1 |-> 0]
  <2>2. SubSeq(s, 1, Len(s)) = s
    BY SubSeqFull
  <2>3. f \in [1 .. N -> 0 .. Len(s)] /\ f[1] = 0
    BY <1>4
  <2>4. Len(s) \in Nat
    OBVIOUS
  <2>5. k(1) = Len(s)
    BY <2>1
  <2> HIDE DEF f, k, N
  <2>6. f[1] + 1 = 1 /\ f[1] + k(1) = Len(s)
    BY <2>3, <2>4, <2>5
  <2>7. \A i \in 1 .. N : i = 1
    BY <1>4
  <2>8. \A i \in 1 .. N - 1 : FALSE
    BY <1>4
  <2>9. SubSeq(s, f[1] + 1, f[1] + k(1)) = parts[1]
    BY <2>1, <2>2, <2>6
  <2> QED
    BY <1>4, <2>3, <2>6, <2>7, <2>8, <2>9
<1>5. CASE N # 1
  <2>1. u[N] # -1 /\ (parts[N] = <<>> \/ u[N] = Len(s))
    BY <1>5 DEF matchGlob
  <2>2. \A i \in 0 .. N : u[i] = -1 \/ u[i] \in 0 .. Len(s)
    BY ConsumedFacts
  <2>3. \A i \in 1 .. N : u[i] # -1 =>
            /\ u[i - 1] \in 0 .. Len(s)
            /\ u[i] \in u[i - 1] + k(i) .. Len(s)
            /\ SubSeq(s, u[i] - k(i) + 1, u[i]) = parts[i]
            /\ i = 1 => u[i] = k(i)
    BY ConsumedFacts
  <2>4. parts[N] = <<>> => k(N) = 0 /\ SubSeq(s, Len(s) + 1, Len(s)) = <<>>
    BY SubSeqEmpty
  <2>5. Len(s) \in Nat
    OBVIOUS
  <2> HIDE DEF u, N, k
  <2>6. \A i \in 0 .. N : u[i] # -1
    <3> DEFINE T == {j \in Nat : j <= N => u[N - j] # -1}
    <3>1. 0 \in T
      BY <1>1, <2>1
    <3>2. ASSUME NEW j \in Nat, j \in T
          PROVE  j + 1 \in T
      <4> SUFFICES ASSUME j + 1 <= N PROVE u[N - (j + 1)] # -1
        OBVIOUS
      <4> DEFINE i == N - j
      <4>1. i \in 1 .. N /\ i - 1 = N - (j + 1) /\ u[i] # -1
        BY <1>1, <3>2
      <4> HIDE DEF i
      <4>2. u[i - 1] \in 0 .. Len(s)
        BY <2>3, <4>1
      <4> QED
        BY <2>5, <4>1, <4>2
    <3> HIDE DEF T
    <3>3. Nat \subseteq T
      BY <3>1, <3>2, SetInduction
    <3>4. ASSUME NEW i \in 0 .. N PROVE u[i] # -1
      <4>1. N - i \in Nat /\ N - i <= N /\ N - (N - i) = i
        BY <1>1
      <4>2. N - i \in T
        BY <3>3, <4>1
      <4> QED
        BY <4>1, <4>2 DEF T
    <3> QED
      BY <3>4
  <2>7. ASSUME NEW i \in 1 .. N
        PROVE  /\ u[i - 1] \in 0 .. Len(s)
               /\ u[i] \in u[i - 1] + k(i) .. Len(s)
               /\ SubSeq(s, u[i] - k(i) + 1, u[i]) = parts[i]
               /\ i = 1 => u[i] = k(i)
    BY <1>1, <2>3, <2>6
  <2>8. ASSUME NEW i \in 1 .. N
        PROVE  /\ from[i] = IF i = N THEN Len(s) - k(i) ELSE u[i] - k(i)
               /\ from[i] \in u[i - 1] .. Len(s)
    <3>1. from[i] = IF i = N THEN Len(s) - k(i) ELSE u[i] - k(i)
      OBVIOUS
    <3> HIDE DEF from
    <3> QED
      BY <1>2, <2>5, <2>7, <3>1
  <2>9. from \in [1 .. N -> 0 .. Len(s)]
    <3>1. \A i \in 1 .. N : from[i] \in 0 .. Len(s)
      <4> HIDE DEF from
      <4> QED
        BY <2>5, <2>7, <2>8
    <3> QED
      BY <3>1
  <2> HIDE DEF from
  <2>10. from[1] = 0 /\ from[N] + k(N) = Len(s)
    <3>1. 1 \in 1 .. N /\ N \in 1 .. N
      BY <1>1
    <3>2. from[1] = u[1] - k(1) /\ u[1] = k(1) /\ k(1) \in Nat
      BY <1>2, <1>5, <2>7, <2>8, <3>1
    <3>3. from[N] = Len(s) - k(N) /\ k(N) \in Nat
      BY <1>2, <2>8, <3>1
    <3> QED
      BY <2>5, <3>2, <3>3
  <2>11. ASSUME NEW i \in 1 .. N - 1 PROVE from[i] + k(i) <= from[i + 1]
    <3> DEFINE j == i + 1
    <3>1. i \in 1 .. N /\ j \in 1 .. N /\ i # N /\ j - 1 = i
      BY <1>1
    <3> HIDE DEF j
    <3>2. from[i] = u[i] - k(i) /\ k(i) \in Nat
      BY <1>2, <2>8, <3>1
    <3>3. from[j] \in u[i] .. Len(s)
      BY <2>8, <3>1
    <3>4. u[i] \in 0 .. Len(s)
      BY <1>1, <2>2, <2>6, <3>1
    <3>5. from[i] + k(i) <= from[j]
      BY <2>5, <3>2, <3>3, <3>4
    <3> QED
      BY <3>5 DEF j
  <2>12. ASSUME NEW i \in 1 .. N
         PROVE  SubSeq(s, from[i] + 1, from[i] + k(i)) = parts[i]
    <3>1. k(i) \in Nat /\ u[i] \in 0 .. Len(s)
      BY <1>1, <1>2, <2>2, <2>6
    <3>2. SubSeq(s, u[i] - k(i) + 1, u[i]) = parts[i]
      BY <2>7
    <3>3. CASE from[i] = u[i] - k(i)
      <4>1. from[i] + k(i) = u[i]
        BY <2>5, <3>1, <3>3
      <4> QED
        BY <3>2, <3>3, <4>1
    <3>4. CASE i = N /\ parts[N] = <<>>
      <4>1. from[i] = Len(s) /\ k(i) = 0
        BY <2>4, <2>5, <2>8, <3>4
      <4>2. from[i] + k(i) = Len(s)
        BY <2>5, <4>1
      <4> QED
        BY <2>4, <3>4, <4>1, <4>2
    <3> QED
      BY <2>1, <2>8, <3>3, <3>4
  <2> QED
    BY <2>9, <2>10, <2>11, <2>12
<1> QED
  BY <1>4, <1>5

\* It finds a match, if there is one and nothing follows the last star.
LEMMA GlobIsComplete ==
    ASSUME NEW s \in Seq(Nat), NEW parts \in Seq(Seq(Nat)), parts # <<>>,
           Len(parts) = 1 \/ parts[Len(parts)] = <<>>,
           Matches(parts, s)
    PROVE  matchGlob(parts, s)
<1> DEFINE u == Consumed(parts, s)
           N == Len(parts)
           k(i) == Len(parts[i])
<1>1. N \in Nat \ {0} /\ DOMAIN parts = 1 .. N /\ \A i \in 1 .. N : parts[i] \in Seq(Nat)
  OBVIOUS
<1>2. \A i \in 1 .. N : k(i) \in Nat
  BY <1>1
<1>3. PICK f \in [1 .. N -> 0 .. Len(s)] :
                 /\ f[1] = 0 /\ f[N] + k(N) = Len(s)
                 /\ \A i \in 1 .. N - 1 : f[i] + k(i) <= f[i + 1]
                 /\ \A i \in 1 .. N : SubSeq(s, f[i] + 1, f[i] + k(i)) = parts[i]
  BY <1>1 DEF Matches
<1>4. Len(s) \in Nat
  OBVIOUS
<1>5. CASE N = 1
  <2>1. k(1) = Len(s) /\ SubSeq(s, 1, k(1)) = parts[1]
    <3>1. 0 + k(1) = Len(s) /\ SubSeq(s, 0 + 1, 0 + k(1)) = parts[1]
      <4> HIDE DEF k, N
      <4>1. 1 \in 1 .. N
        BY <1>5
      <4>2. f[1] + k(1) = Len(s)
        BY <1>3, <1>5
      <4>3. SubSeq(s, f[1] + 1, f[1] + k(1)) = parts[1]
        BY <1>3, <4>1
      <4> QED
        BY <1>3, <4>2, <4>3
    <3>2. k(1) \in Nat
      BY <1>1, <1>2
    <3> HIDE DEF k
    <3> QED
      BY <3>1, <3>2
  <2>2. parts[1] = s
    BY <2>1, SubSeqFull
  <2> QED
    BY <1>5, <2>2 DEF matchGlob
<1>6. CASE N # 1
  <2>1. parts[N] = <<>>
    BY <1>6
  <2>2. \A i \in 1 .. N : u[i] = Past(s, u[i - 1], i, parts[i])
    BY ConsumedFacts
  <2>3. u[0] = 0
    BY ConsumedFacts
  <2> HIDE DEF u, N
  <2> DEFINE T == {j \in Nat : j <= N - 1 => u[j] \in 0 .. (IF j = 0 THEN 0 ELSE f[j] + k(j))}
  <2>4. 0 \in T
    BY <2>3
  <2>5. ASSUME NEW j \in Nat, j \in T
        PROVE  j + 1 \in T
    <3> SUFFICES ASSUME j + 1 <= N - 1
                 PROVE  u[j + 1] \in 0 .. f[j + 1] + k(j + 1)
      OBVIOUS
    <3> DEFINE i == j + 1
               n == u[j]
               part == parts[i]
               g == f[i]
    <3>1. i \in 1 .. N - 1 /\ i - 1 = j /\ i \in Nat \ {0} /\ j <= N - 1 /\ i \in 1 .. N
          /\ i + 1 \in 1 .. N
      BY <1>1
    <3>2. part \in Seq(Nat) /\ k(i) \in Nat
      BY <1>1, <1>2, <3>1
    <3>3. u[i] = Past(s, n, i, part)
      BY <2>2, <3>1
    <3>4. SubSeq(s, g + 1, g + Len(part)) = part
      BY <1>3, <3>1
    <3>5. g \in 0 .. Len(s) /\ f[i + 1] \in 0 .. Len(s) /\ g + k(i) <= f[i + 1]
      BY <1>3, <3>1
    <3>6. n \in 0 .. (IF j = 0 THEN 0 ELSE f[j] + k(j))
      BY <2>5, <3>1
    <3>7. j # 0 => f[j] + k(j) <= g
      <4>1. j # 0 => j \in 1 .. N - 1
        BY <1>1, <3>1
      <4> QED
        BY <1>3, <4>1
    <3>8. j # 0 => f[j] \in 0 .. Len(s) /\ k(j) \in Nat
      <4>1. j # 0 => j \in 1 .. N
        BY <1>1, <3>1
      <4> QED
        BY <1>2, <1>3, <4>1
    <3>9. i = 1 => g = 0 /\ j = 0
      BY <1>3
    <3>10. Len(part) = k(i)
      OBVIOUS
    <3> HIDE DEF i, n, part, g, k
    <3>11. n \in 0 .. Len(s) /\ n <= g /\ (i = 1 => g = n)
      <4>1. CASE j = 0
        BY <1>4, <3>5, <3>6, <3>9, <4>1
      <4>2. CASE j # 0
        BY <1>4, <3>5, <3>6, <3>7, <3>8, <3>9, <4>2
      <4> QED
        BY <4>1, <4>2
    <3>12. g \in n .. Len(s) - Len(part)
      <4>1. k(i) <= Len(s) - g
        BY <1>4, <3>2, <3>5
      <4>2. g <= Len(s) - k(i) /\ Len(s) - k(i) \in Int
        BY <1>4, <3>2, <3>5, <4>1
      <4> QED
        BY <3>5, <3>10, <3>11, <4>2
    <3>13. u[i] \in 0 .. g + Len(part)
      <4>1. i \in Nat \ {0}
        BY <3>1
      <4>2. n \in 0 .. Len(s) /\ (i = 1 => g = n)
        BY <3>11
      <4>3. part \in Seq(Nat)
        BY <3>2
      <4>4. Past(s, n, i, part) \in 0 .. g + Len(part)
        BY <3>4, <3>12, <4>1, <4>2, <4>3, PastFirst
      <4> QED
        BY <3>3, <4>4
    <3> QED
      BY <3>10, <3>13 DEF i, g
  <2> HIDE DEF T
  <2>6. Nat \subseteq T
    BY <2>4, <2>5, SetInduction
  <2>7. N - 1 \in Nat /\ N \in 1 .. N
    BY <1>1
  <2>8. u[N - 1] # -1
    <3>1. N - 1 \in T
      BY <2>6, <2>7
    <3>2. \E b : u[N - 1] \in 0 .. b
      BY <2>7, <3>1 DEF T
    <3> QED
      BY <3>2
  <2>9. u[N] # -1
    BY <2>1, <2>2, <2>7, <2>8 DEF Past
  <2> QED
    BY <1>6, <2>1, <2>9 DEF matchGlob, u, N
<1> QED
  BY <1>5, <1>6

\* A pattern matches as matchGlob says, if nothing follows its last star.
THEOREM GlobIsMatch ==
    ASSUME NEW s \in Seq(Nat), NEW parts \in Seq(Seq(Nat)), parts # <<>>,
           Len(parts) = 1 \/ parts[Len(parts)] = <<>>
    PROVE  matchGlob(parts, s) <=> Matches(parts, s)
BY GlobIsSound, GlobIsComplete

-----------------------------------------------------------------------------
(* Choice rules.  The conditions of a rule stand after the rule they       *)
(* belong to, so their values are found from the last one to the first.    *)

LEMMA RulePlaces ==
    ASSUME NEW rule, IsRule(rule), NEW i \in 1 .. Len(rule)
    PROVE  /\ \A n \in DOMAIN rule[i].and : rule[i].and[n] \in i + 1 .. Len(rule)
           /\ \A n \in DOMAIN rule[i].or : rule[i].or[n] \in i + 1 .. Len(rule)
           /\ rule[i].not # <<>> => rule[i].not[1] \in i + 1 .. Len(rule)
<1>1. {rule[i].and, rule[i].or, rule[i].not} \subseteq Seq(i + 1 .. Len(rule))
  BY DEF IsRule
<1> DEFINE S == i + 1 .. Len(rule)
           a == rule[i].and
           o == rule[i].or
           x == rule[i].not
<1>2. a \in Seq(S) /\ o \in Seq(S) /\ x \in Seq(S)
  BY <1>1
<1> HIDE DEF S, a, o, x
<1>3. /\ \A n \in DOMAIN a : a[n] \in S
      /\ \A n \in DOMAIN o : o[n] \in S
      /\ x # <<>> => x[1] \in S
  BY <1>2
<1> QED
  BY <1>3 DEF S, a, o, x

SameAfter(f, g, i, n) == \A j \in i + 1 .. n : f[j] = g[j]

\* A condition's value depends on those of later conditions only.
IsValue(f, d, rule) == f = [i \in DOMAIN rule |-> Evaluated(d, rule[i], f)]

LEMMA ValueExists ==
    ASSUME NEW d, NEW rule, IsRule(rule)
    PROVE  \E f : IsValue(f, d, rule)
<1> DEFINE N == Len(rule)
           body(f, i) == Evaluated(d, rule[i], f)
           T == {n \in Nat : n <= N =>
                   \E f : /\ f = [i \in 1 .. N |-> f[i]]
                          /\ \A i \in N + 1 - n .. N : f[i] = body(f, i)}
<1>1. N \in Nat /\ DOMAIN rule = 1 .. N
  BY DEF IsRule
<1>2. \A f, g : \A i \in 1 .. N :
        SameAfter(f, g, i, N) => body(f, i) = body(g, i)
  <2>1. ASSUME NEW i \in 1 .. N, NEW f, NEW g, SameAfter(f, g, i, N)
        PROVE  body(f, i) = body(g, i)
    <3> DEFINE c == rule[i]
    <3>1. Each(f, c.and) = Each(g, c.and) /\ Each(f, c.or) = Each(g, c.or)
      BY <2>1, RulePlaces DEF Each, SameAfter
    <3>2. c.not # <<>> => f[c.not[1]] = g[c.not[1]]
      BY <2>1, RulePlaces DEF SameAfter
    <3> HIDE DEF c
    <3> QED
      BY <3>1, <3>2 DEF Evaluated, c
  <2> HIDE DEF body
  <2> QED
    BY <2>1
<1> HIDE DEF N, body
<1>3. 0 \in T
  <2> DEFINE f == [i \in 1 .. N |-> 0]
  <2>1. f = [i \in 1 .. N |-> f[i]] /\ \A i \in N + 1 - 0 .. N : FALSE
    BY <1>1
  <2> QED
    BY <2>1
<1>4. ASSUME NEW n \in Nat, n \in T
      PROVE  n + 1 \in T
  <2> SUFFICES ASSUME n + 1 <= N
               PROVE  \E f : /\ f = [i \in 1 .. N |-> f[i]]
                             /\ \A i \in N + 1 - (n + 1) .. N : f[i] = body(f, i)
    OBVIOUS
  <2>1. PICK f : \A i \in N + 1 - n .. N : f[i] = body(f, i)
    BY <1>1, <1>4
  <2> DEFINE at == N - n
             g == [i \in 1 .. N |-> IF i = at THEN body(f, i) ELSE f[i]]
  <2>2. at \in 1 .. N /\ at = N + 1 - (n + 1) /\ at + 1 = N + 1 - n
    BY <1>1
  <2>3. g = [i \in 1 .. N |-> g[i]]
    OBVIOUS
  <2>4. \A i \in 1 .. N : g[i] = IF i = at THEN body(f, i) ELSE f[i]
    OBVIOUS
  <2> HIDE DEF g, at
  <2>5. ASSUME NEW i \in at .. N PROVE g[i] = body(g, i)
    <3>1. i \in 1 .. N /\ g[i] = body(f, i)
      <4>1. i \in 1 .. N /\ (i = at \/ i \in at + 1 .. N)
        BY <1>1, <2>2
      <4> QED
        BY <2>1, <2>2, <2>4, <4>1
    <3>2. \A j \in i + 1 .. N : j \in 1 .. N /\ j # at
      BY <1>1, <2>2
    <3>3. SameAfter(f, g, i, N)
      BY <2>4, <3>2 DEF SameAfter
    <3> QED
      BY <1>2, <3>1, <3>3
  <2> QED
    BY <2>2, <2>3, <2>5
<1> HIDE DEF T
<1>5. N \in T
  BY <1>1, <1>3, <1>4, SetInduction
<1>6. PICK f : /\ f = [i \in 1 .. N |-> f[i]]
               /\ \A i \in N + 1 - N .. N : f[i] = body(f, i)
  BY <1>1, <1>5 DEF T
<1>7. \A i \in 1 .. N : f[i] = body(f, i)
  BY <1>1, <1>6
<1>8. f = [i \in 1 .. N |-> body(f, i)]
  BY <1>6, <1>7
<1> QED
  BY <1>1, <1>8 DEF IsValue, body

LEMMA EvaluationSteps ==
    ASSUME NEW d, NEW rule, IsRule(rule)
    PROVE  \A i \in DOMAIN rule :
             Evaluations(d, rule)[i] = Evaluated(d, rule[i], Evaluations(d, rule))
<1> DEFINE value == Evaluations(d, rule)
<1>1. PICK f : IsValue(f, d, rule)
  BY ValueExists
<1>2. value = [i \in DOMAIN rule |-> Evaluated(d, rule[i], value)]
  BY <1>1 DEF IsValue, Evaluations
<1> HIDE DEF value
<1>3. \A i \in DOMAIN rule : value[i] = Evaluated(d, rule[i], value)
  BY <1>2
<1> QED
  BY <1>3 DEF value

IsMeaning(f, d, rule) == f = [i \in DOMAIN rule |-> Meant(d, rule[i], f)]

LEMMA MeaningExists ==
    ASSUME NEW d, NEW rule, IsRule(rule)
    PROVE  \E f : IsMeaning(f, d, rule)
<1> DEFINE N == Len(rule)
           body(f, i) == Meant(d, rule[i], f)
           T == {n \in Nat : n <= N =>
                   \E f : /\ f = [i \in 1 .. N |-> f[i]]
                          /\ \A i \in N + 1 - n .. N : f[i] = body(f, i)}
<1>1. N \in Nat /\ DOMAIN rule = 1 .. N
  BY DEF IsRule
<1>2. \A f, g : \A i \in 1 .. N :
        SameAfter(f, g, i, N) => body(f, i) = body(g, i)
  <2>1. ASSUME NEW i \in 1 .. N, NEW f, NEW g, SameAfter(f, g, i, N)
        PROVE  body(f, i) = body(g, i)
    <3> DEFINE c == rule[i]
    <3>1. /\ \A n \in DOMAIN c.and : f[c.and[n]] = g[c.and[n]]
          /\ \A n \in DOMAIN c.or : f[c.or[n]] = g[c.or[n]]
      BY <2>1, RulePlaces DEF SameAfter
    <3>2. c.not # <<>> => f[c.not[1]] = g[c.not[1]]
      BY <2>1, RulePlaces DEF SameAfter
    <3> HIDE DEF c
    <3> QED
      BY <3>1, <3>2 DEF Meant, c
  <2> HIDE DEF body
  <2> QED
    BY <2>1
<1> HIDE DEF N, body
<1>3. 0 \in T
  <2> DEFINE f == [i \in 1 .. N |-> 0]
  <2>1. f = [i \in 1 .. N |-> f[i]] /\ \A i \in N + 1 - 0 .. N : FALSE
    BY <1>1
  <2> QED
    BY <2>1
<1>4. ASSUME NEW n \in Nat, n \in T
      PROVE  n + 1 \in T
  <2> SUFFICES ASSUME n + 1 <= N
               PROVE  \E f : /\ f = [i \in 1 .. N |-> f[i]]
                             /\ \A i \in N + 1 - (n + 1) .. N : f[i] = body(f, i)
    OBVIOUS
  <2>1. PICK f : \A i \in N + 1 - n .. N : f[i] = body(f, i)
    BY <1>1, <1>4
  <2> DEFINE at == N - n
             g == [i \in 1 .. N |-> IF i = at THEN body(f, i) ELSE f[i]]
  <2>2. at \in 1 .. N /\ at = N + 1 - (n + 1) /\ at + 1 = N + 1 - n
    BY <1>1
  <2>3. g = [i \in 1 .. N |-> g[i]]
    OBVIOUS
  <2>4. \A i \in 1 .. N : g[i] = IF i = at THEN body(f, i) ELSE f[i]
    OBVIOUS
  <2> HIDE DEF g, at
  <2>5. ASSUME NEW i \in at .. N PROVE g[i] = body(g, i)
    <3>1. i \in 1 .. N /\ g[i] = body(f, i)
      <4>1. i \in 1 .. N /\ (i = at \/ i \in at + 1 .. N)
        BY <1>1, <2>2
      <4> QED
        BY <2>1, <2>2, <2>4, <4>1
    <3>2. \A j \in i + 1 .. N : j \in 1 .. N /\ j # at
      BY <1>1, <2>2
    <3>3. SameAfter(f, g, i, N)
      BY <2>4, <3>2 DEF SameAfter
    <3> QED
      BY <1>2, <3>1, <3>3
  <2> QED
    BY <2>2, <2>3, <2>5
<1> HIDE DEF T
<1>5. N \in T
  BY <1>1, <1>3, <1>4, SetInduction
<1>6. PICK f : /\ f = [i \in 1 .. N |-> f[i]]
               /\ \A i \in N + 1 - N .. N : f[i] = body(f, i)
  BY <1>1, <1>5 DEF T
<1>7. \A i \in 1 .. N : f[i] = body(f, i)
  BY <1>1, <1>6
<1>8. f = [i \in 1 .. N |-> body(f, i)]
  BY <1>6, <1>7
<1> QED
  BY <1>1, <1>8 DEF IsMeaning, body

LEMMA MeaningSteps ==
    ASSUME NEW d, NEW rule, IsRule(rule)
    PROVE  \A i \in DOMAIN rule :
             Meanings(d, rule)[i] = Meant(d, rule[i], Meanings(d, rule))
<1> DEFINE holds == Meanings(d, rule)
<1>1. PICK f : IsMeaning(f, d, rule)
  BY MeaningExists
<1>2. holds = [i \in DOMAIN rule |-> Meant(d, rule[i], holds)]
  BY <1>1 DEF IsMeaning, Meanings
<1> HIDE DEF holds
<1>3. \A i \in DOMAIN rule : holds[i] = Meant(d, rule[i], holds)
  BY <1>2
<1> QED
  BY <1>3 DEF holds

\* A condition's value, if it is no error, says whether the rule is met.
Agrees(value, holds, i) ==
    (value[i] = "true" => holds[i]) /\ (value[i] = "false" => ~holds[i])

LEMMA FirstOtherFacts ==
    ASSUME NEW values, NEW n \in Nat, DOMAIN values = 1 .. n, NEW neutral
    PROVE  \/ FirstOther(values, neutral) = neutral /\ \A i \in DOMAIN values : values[i] = neutral
           \/ \E i \in DOMAIN values :
                values[i] # neutral /\ FirstOther(values, neutral) = values[i]
<1> DEFINE others == {i \in DOMAIN values : values[i] # neutral}
<1>1. FirstOther(values, neutral) = IF others = {} THEN neutral ELSE values[Least(others)]
  BY DEF FirstOther
<1>2. others \in SUBSET Nat
  OBVIOUS
<1>3. others # {} => Least(others) \in others
  <2> HIDE DEF others
  <2> QED
    BY <1>2, LeastFacts
<1> QED
  BY <1>1, <1>3

Operator == StringOps \cup NumericOps \cup {"StringMatches", "BooleanEquals"} \cup TypeOps

LEMMA OrderFacts ==
    /\ DOMAIN OperatorOrder = 1 .. 17
    /\ \A op \in Operator : \E i \in DOMAIN OperatorOrder : OperatorOrder[i] = op
    /\ "NumericEqualsPath" \notin Operator /\ "BooleanEqualsPath" \notin Operator
<1>1. DOMAIN OperatorOrder = 1 .. 17
  BY DEF OperatorOrder
<1>2. \A op \in StringOps : \E i \in 1 .. 17 : OperatorOrder[i] = op
  BY DEF OperatorOrder, StringOps
<1>3. \A op \in NumericOps : \E i \in 1 .. 17 : OperatorOrder[i] = op
  BY DEF OperatorOrder, NumericOps
<1>4. \A op \in TypeOps : \E i \in 1 .. 17 : OperatorOrder[i] = op
  BY DEF OperatorOrder, TypeOps
<1>5. \A op \in {"StringMatches", "BooleanEquals"} : \E i \in 1 .. 17 : OperatorOrder[i] = op
  BY DEF OperatorOrder
<1>6. "NumericEqualsPath" \notin Operator /\ "BooleanEqualsPath" \notin Operator
  BY DEF Operator, StringOps, NumericOps, TypeOps
<1> QED
  BY <1>1, <1>2, <1>3, <1>4, <1>5, <1>6 DEF Operator

\* Of a plain leaf, the one operator that is given decides.
LEMMA LeafComparison ==
    ASSUME NEW v, NEW given, NEW op \in Operator, DOMAIN given = {op},
           given[op] \notin Zeroes
    PROVE  applyLeafComparison(v, toChoiceRuleEval(given)) =
             Truth(Holds(op, v, Decoded(given[op])))
<1> DEFINE kept == toChoiceRuleEval(given)
           set == {i \in DOMAIN OperatorOrder : OperatorOrder[i] \in DOMAIN kept}
<1>1. DOMAIN kept = {op} /\ kept[op] = Decoded(given[op])
  BY OrderFacts DEF toChoiceRuleEval
<1> HIDE DEF kept
<1>2. set \in SUBSET Nat /\ set # {} /\ \A i \in set : OperatorOrder[i] = op
  BY <1>1, OrderFacts
<1>3. OperatorOrder[Least(set)] = op
  <2> HIDE DEF set
  <2> QED
    BY <1>2, LeastFacts
<1>4. applyLeafComparison(v, kept) =
        IF set = {} THEN OtherError
        ELSE Truth(Holds(OperatorOrder[Least(set)], v, kept[OperatorOrder[Least(set)]]))
  BY DEF applyLeafComparison
<1> HIDE DEF set
<1> QED
  BY <1>1, <1>2, <1>3, <1>4 DEF kept

LEMMA PartsFacts ==
    ASSUME NEW o \in Document, o.items # <<>>
    PROVE  /\ Parts(o) \in Seq(Seq(Nat)) /\ Parts(o) # <<>>
           /\ Len(Parts(o)) = Len(o.items)
           /\ \A i \in 1 .. Len(o.items) : Parts(o)[i] = o.items[i].str
<1> DEFINE items == o.items
           n == Len(items)
           parts == [i \in 1 .. n |-> items[i].str]
<1>1. items \in Seq(Document)
  BY DocumentAssumption DEF IsDocument
<1>2. Parts(o) = parts
  BY <1>1 DEF Parts
<1>3. \A i \in 1 .. n : items[i].str \in Seq(Nat)
  <2>1. \A i \in 1 .. n : items[i] \in Document
    <3> HIDE DEF items
    <3> QED
      BY <1>1
  <2> QED
    BY <2>1, DocumentAssumption DEF IsDocument
<1>4. n \in Nat \ {0}
  <2> items # <<>>
    OBVIOUS
  <2> HIDE DEF items
  <2> QED
    BY <1>1
<1> HIDE DEF items, n
<1>5. parts \in Seq(Seq(Nat)) /\ Len(parts) = n
  BY <1>3, <1>4
<1>6. parts # <<>> /\ \A i \in 1 .. n : parts[i] = items[i].str
  BY <1>4
<1> QED
  BY <1>2, <1>5, <1>6 DEF items, n

LEMMA LeafAgrees ==
    ASSUME NEW d, Typed(d), NEW p \in Path, NEW given, PlainGiven(given),
           \A op \in DOMAIN given :
              given[op] \in Document /\ (op = "StringMatches" => given[op].items # <<>>)
    PROVE  /\ Leaf(d, p, given) = "true" => Met(d, p, given)
           /\ Leaf(d, p, given) = "false" => ~Met(d, p, given)
<1> DEFINE r == applyPath(d, p)
           v == Decoded(r.doc)
<1>1. PICK op \in Operator :
        /\ DOMAIN given = {op} /\ given[op] \notin Zeroes
        /\ op = "StringMatches" =>
             \/ Len(given[op].items) = 1
             \/ given[op].items[Len(given[op].items)] = Str(<<>>)
  BY DEF PlainGiven, Operator
<1> DEFINE o == given[op]
           x == Decoded(o)
<1>2. r = Ok(r.doc) \/ r = Err(KeyNotFound) \/ r = Err(OtherError)
  BY ApplyReturns
<1>3. OtherError \notin {"true", "false"} /\ KeyNotFound \notin {"true", "false"}
  BY DEF OtherError, KeyNotFound
<1>4. applyLeafComparison(v, toChoiceRuleEval(given)) = Truth(Holds(op, v, x))
  BY <1>1, LeafComparison
<1>5. Met(d, p, given) <=>
        /\ r.status = "ok"
        /\ IF op = "StringMatches" THEN r.doc.kind = "str" /\ Matches(Parts(o), r.doc.str)
                                   ELSE Holds(op, v, x)
  BY <1>1 DEF Met
<1>6. Leaf(d, p, given) = IF p.form = "omitted" THEN OtherError
                          ELSE IF r.status = "error" THEN r.error
                          ELSE IF ~Decodes(r.doc) THEN OtherError
                          ELSE Truth(Holds(op, v, x))
  BY <1>4 DEF Leaf
<1>7. r.status = "error" => r.error \in {KeyNotFound, OtherError}
  <2> HIDE DEF r
  <2> QED
    BY <1>2 DEF Ok, Err
<1>8. Leaf(d, p, given) \in {"true", "false"} =>
        r.status = "ok" /\ Leaf(d, p, given) = Truth(Holds(op, v, x))
  <2> HIDE DEF v, x, r, o
  <2> QED
    BY <1>2, <1>3, <1>6, <1>7 DEF Ok, Err
<1>9. (op = "StringMatches" /\ r.status = "ok") =>
        (Holds(op, v, x) <=> r.doc.kind = "str" /\ Matches(Parts(o), r.doc.str))
  <2> SUFFICES ASSUME op = "StringMatches", r.status = "ok"
               PROVE  Holds(op, v, x) <=> r.doc.kind = "str" /\ Matches(Parts(o), r.doc.str)
    OBVIOUS
  <2>1. Holds(op, v, x) <=> r.doc.kind = "str" /\ matchGlob(Parts(o), r.doc.str)
    <3>1. v.kind = r.doc.kind /\ v.str = r.doc.str /\ Parts(x) = Parts(o)
      BY DecodedFacts DEF Parts
    <3> HIDE DEF v, x, r, o
    <3>2. Holds(op, v, x) <=> v.kind = "str" /\ matchGlob(Parts(x), v.str)
      BY DEF Holds, StringOps, NumericOps
    <3> QED
      BY <3>1, <3>2
  <2>2. Typed(r.doc)
    BY TypedApply
  <2>3. r.doc.kind = "str" => r.doc.str \in Seq(Nat)
    BY <2>2, TypedString
  <2>4. /\ Parts(o) \in Seq(Seq(Nat)) /\ Parts(o) # <<>>
        /\ Len(Parts(o)) = Len(o.items)
        /\ \A i \in 1 .. Len(o.items) : Parts(o)[i] = o.items[i].str
    BY <1>1, PartsFacts
  <2>5. Len(Parts(o)) = 1 \/ Parts(o)[Len(Parts(o))] = <<>>
    <3>1. Len(o.items) = 1 \/ o.items[Len(o.items)] = Str(<<>>)
      BY <1>1
    <3>2. Len(o.items) \in 1 .. Len(o.items)
      BY <2>4
    <3>3. Str(<<>>).str = <<>>
      BY DEF Str, Node
    <3> HIDE DEF o
    <3> QED
      BY <2>4, <3>1, <3>2, <3>3
  <2> HIDE DEF v, x, r, o
  <2>6. r.doc.kind = "str" =>
          (matchGlob(Parts(o), r.doc.str) <=> Matches(Parts(o), r.doc.str))
    BY <2>3, <2>4, <2>5, GlobIsMatch
  <2> QED
    BY <2>1, <2>6
<1>10. \A b : Truth(b) = "true" <=> b
  BY DEF Truth
<1>11. \A b : Truth(b) = "false" <=> ~b
  BY DEF Truth
<1> HIDE DEF v, x, r, o
<1> QED
  BY <1>5, <1>8, <1>9, <1>10, <1>11

LEMMA ConditionAgrees ==
    ASSUME NEW d, Typed(d), NEW rule, IsRule(rule), Plain(rule), NEW i \in 1 .. Len(rule),
           NEW value, NEW holds, \A j \in i + 1 .. Len(rule) : Agrees(value, holds, j)
    PROVE  /\ Evaluated(d, rule[i], value) = "true" => Meant(d, rule[i], holds)
           /\ Evaluated(d, rule[i], value) = "false" => ~Meant(d, rule[i], holds)
<1> DEFINE c == rule[i]
           e == Evaluated(d, c, value)
           S == i + 1 .. Len(rule)
<1>1. DOMAIN rule = 1 .. Len(rule)
  BY DEF IsRule
<1>2. c.and \in Seq(S) /\ c.or \in Seq(S) /\ c.not \in Seq(S)
  BY <1>1 DEF IsRule
<1>3. /\ \A n \in DOMAIN c.and : Agrees(value, holds, c.and[n])
      /\ \A n \in DOMAIN c.or : Agrees(value, holds, c.or[n])
      /\ c.not # <<>> => Agrees(value, holds, c.not[1])
  BY RulePlaces
<1>4. c.variable \in Path
  BY <1>1 DEF IsRule
<1>5. c.and = <<>> /\ c.or = <<>> /\ c.not = <<>> => PlainGiven(c.given)
  BY <1>1 DEF Plain
<1>6. \A op \in DOMAIN c.given :
        c.given[op] \in Document /\ (op = "StringMatches" => c.given[op].items # <<>>)
  BY <1>1 DEF IsRule
<1> HIDE DEF c, S
<1>7. CASE c.and # <<>>
  <2> DEFINE values == Each(value, c.and)
  <2>1. e = FirstOther(values, "true")
    BY <1>7 DEF Evaluated
  <2>2. Meant(d, c, holds) <=> \A n \in DOMAIN c.and : holds[c.and[n]]
    BY <1>7 DEF Meant
  <2>3. DOMAIN values = 1 .. Len(c.and) /\ Len(c.and) \in Nat
        /\ DOMAIN values = DOMAIN c.and /\ \A n \in DOMAIN c.and : values[n] = value[c.and[n]]
    BY <1>2 DEF Each
  <2> HIDE DEF values, e
  <2>4. \/ e = "true" /\ \A n \in DOMAIN values : values[n] = "true"
        \/ \E n \in DOMAIN values : values[n] # "true" /\ e = values[n]
    BY <2>1, <2>3, FirstOtherFacts
  <2> QED
    BY <1>3, <2>2, <2>3, <2>4 DEF Agrees, e, c
<1>8. CASE c.and = <<>> /\ c.or # <<>>
  <2> DEFINE values == Each(value, c.or)
  <2>1. e = FirstOther(values, "false")
    BY <1>8 DEF Evaluated
  <2>2. Meant(d, c, holds) <=> \E n \in DOMAIN c.or : holds[c.or[n]]
    BY <1>8 DEF Meant
  <2>3. DOMAIN values = 1 .. Len(c.or) /\ Len(c.or) \in Nat
        /\ DOMAIN values = DOMAIN c.or /\ \A n \in DOMAIN c.or : values[n] = value[c.or[n]]
    BY <1>2 DEF Each
  <2> HIDE DEF values, e
  <2>4. \/ e = "false" /\ \A n \in DOMAIN values : values[n] = "false"
        \/ \E n \in DOMAIN values : values[n] # "false" /\ e = values[n]
    BY <2>1, <2>3, FirstOtherFacts
  <2> QED
    BY <1>3, <2>2, <2>3, <2>4 DEF Agrees, e, c
<1>9. CASE c.and = <<>> /\ c.or = <<>> /\ c.not # <<>>
  <2>1. e = Negated(value[c.not[1]])
    BY <1>9 DEF Evaluated
  <2>2. Meant(d, c, holds) <=> ~holds[c.not[1]]
    BY <1>9 DEF Meant
  <2> HIDE DEF e
  <2>3. /\ e = "true" => value[c.not[1]] = "false"
        /\ e = "false" => value[c.not[1]] = "true"
    BY <2>1 DEF Negated
  <2> QED
    BY <1>3, <1>9, <2>2, <2>3 DEF Agrees, e, c
<1>10. CASE c.and = <<>> /\ c.or = <<>> /\ c.not = <<>>
  <2>1. e = Leaf(d, c.variable, c.given)
    BY <1>10 DEF Evaluated
  <2>2. Meant(d, c, holds) <=> Met(d, c.variable, c.given)
    BY <1>10 DEF Meant
  <2> HIDE DEF e
  <2>3. /\ e = "true" => Met(d, c.variable, c.given)
        /\ e = "false" => ~Met(d, c.variable, c.given)
    BY <1>4, <1>5, <1>6, <1>10, <2>1, LeafAgrees
  <2> QED
    BY <2>2, <2>3 DEF e, c
<1> QED
  BY <1>7, <1>8, <1>9, <1>10

\* evaluateCondition, if it is no error, says whether the operators of the rule
\* are satisfied as they are meant, however deep And, Or and Not nest.
THEOREM ConditionIsMeant ==
    ASSUME NEW d, Typed(d), NEW rule, IsRule(rule), Plain(rule)
    PROVE  /\ evaluateCondition(d, rule) = "true" => Satisfied(d, rule)
           /\ evaluateCondition(d, rule) = "false" => ~Satisfied(d, rule)
<1> DEFINE N == Len(rule)
           value == Evaluations(d, rule)
           holds == Meanings(d, rule)
           T == {n \in Nat : n <= N => \A i \in N + 1 - n .. N : Agrees(value, holds, i)}
<1>1. N \in Nat \ {0} /\ DOMAIN rule = 1 .. N
  BY DEF IsRule
<1>2. \A i \in 1 .. N : value[i] = Evaluated(d, rule[i], value)
  BY <1>1, EvaluationSteps
<1>3. \A i \in 1 .. N : holds[i] = Meant(d, rule[i], holds)
  BY <1>1, MeaningSteps
<1> HIDE DEF value, holds
<1>4. ASSUME NEW i \in 1 .. N, \A j \in i + 1 .. N : Agrees(value, holds, j)
      PROVE  Agrees(value, holds, i)
  <2>1. /\ Evaluated(d, rule[i], value) = "true" => Meant(d, rule[i], holds)
        /\ Evaluated(d, rule[i], value) = "false" => ~Meant(d, rule[i], holds)
    BY <1>4, ConditionAgrees
  <2>2. holds[i] <=> Meant(d, rule[i], holds)
    BY <1>3
  <2>3. value[i] = Evaluated(d, rule[i], value)
    BY <1>2
  <2> QED
    BY <2>1, <2>2, <2>3 DEF Agrees
<1> HIDE DEF N
<1>5. 0 \in T
  BY <1>1
<1>6. ASSUME NEW n \in Nat, n \in T
      PROVE  n + 1 \in T
  <2> SUFFICES ASSUME n + 1 <= N, NEW i \in N + 1 - (n + 1) .. N
               PROVE  Agrees(value, holds, i)
    OBVIOUS
  <2>1. \A j \in N + 1 - n .. N : Agrees(value, holds, j)
    BY <1>1, <1>6
  <2>2. i \in 1 .. N /\ \A j \in i + 1 .. N : j \in N + 1 - n .. N
    BY <1>1
  <2> QED
    BY <1>4, <2>1, <2>2
<1> HIDE DEF T
<1>7. N \in T
  BY <1>1, <1>5, <1>6, SetInduction
<1>8. Agrees(value, holds, 1)
  <2>1. 1 \in N + 1 - N .. N
    BY <1>1
  <2> QED
    BY <1>1, <1>7, <2>1 DEF T
<1> QED
  BY <1>8 DEF Agrees, evaluateCondition, Satisfied, value, holds

-----------------------------------------------------------------------------
(* ChoiceIsFirstSatisfied                                                  *)

\* A machine that enters a state is moved on by its own steps only.
LEMMA EntererIsOwn ==
    ASSUME WorkflowInv, NEW m \in Machine, At(m, "enter"), NEW k \in Machine \ {m},
           DataStep(k)
    PROVE  run'[m] = run[m]
<1>1. run \in [Machine -> RunType]
  BY DEF WorkflowInv, TypeOK
<1>2. ASSUME NEW r, Become(k, r)
      PROVE  run'[m] = run[m]
  BY <1>1, <1>2 DEF Become
<1>3. CASE TaskBegins(k) \/ PassData(k) \/ ChoiceData(k) \/ WaitData(k)
  BY <1>2, <1>3 DEF TaskBegins, PassData, ChoiceData, WaitData, EnterTask, EnterPass,
     EnterChoice, EnterWait, PathFails
<1>4. CASE Answer(k) \/ (\E e \in Error : Failure(k, e)) \/ CutData(k)
  BY <1>2, <1>4 DEF Answer, Failure, CutData, InvokeSucceeds, InvokeFails, BackoffCut,
     PathFails
<1>5. CASE OtherData(k)
  BY <1>2, <1>5 DEF OtherData, EnterUnknown, EnterSucceed, EnterFail, EnterInvalid, Retry,
     WaitEnds
<1>6. CASE ParallelData(k)
  <2>1. Defined(k) /\ ~At(k, "idle") /\ ~At(k, "join")
    BY <1>6 DEF ParallelData, EnterParallel, Is, At
  <2>2. run[k].state \in Name
    BY <2>1, MachineFacts
  <2>3. m \notin Branches(k)
    BY <2>1, <2>2, BranchesIdle DEF At
  <2>4. CASE StateOf(k).branches = <<>>
    BY <1>2, <1>6, <2>4 DEF ParallelData, EnterParallel
  <2>5. CASE StateOf(k).branches # <<>>
    BY <1>6, <2>3, <2>5 DEF ParallelData, EnterParallel
  <2> QED
    BY <2>4, <2>5
<1>7. CASE JoinData(k)
  <2>1. m \notin Branches(k)
    BY <1>7 DEF JoinData, Join, At
  <2>2. \E after : Leave(k, after)
    BY <1>7 DEF JoinData, Join
  <2> QED
    BY <2>1, <2>2 DEF Leave
<1> QED
  BY <1>3, <1>4, <1>5, <1>6, <1>7 DEF DataStep

\* What moves a machine on from a Choice state.
LEMMA ChoiceMovesOn ==
    ASSUME WorkflowInv, [DataNext]_dataVars, NEW m \in Machine, Is(m, "Choice"),
           run'[m] # run[m]
    PROVE  ChoiceData(m)
<1>1. At(m, "enter") /\ Defined(m) /\ StateOf(m).type = "Choice"
  BY DEF Is
<1>2. ~Begin
  <2> SUFFICES ASSUME Begin PROVE FALSE
    OBVIOUS
  <2>1. m # Root
    BY <1>1 DEF Begin, Execute, At
  <2> QED
    BY <2>1 DEF Begin, Execute, Become, WorkflowInv, TypeOK
<1>3. ~(\E k \in Machine : Expire(k))
  <2> SUFFICES ASSUME NEW k \in Machine, Expire(k) PROVE FALSE
    OBVIOUS
  <2>1. m # k
    BY <1>1 DEF Expire, At
  <2> QED
    BY <2>1 DEF Expire, Become, WorkflowInv, TypeOK
<1>4. PICK k \in Machine : DataStep(k)
  BY <1>2, <1>3 DEF DataNext, MachineStep, Crash, dataVars, vars
<1>5. DataStep(m)
  BY <1>1, <1>4, EntererIsOwn
<1> QED
  BY <1>1, <1>5 DEF DataStep, TaskBegins, PassData, WaitData, ParallelData, Answer, Failure,
     CutData, JoinData, OtherData, EnterTask, EnterPass, EnterWait, EnterParallel,
     InvokeSucceeds, InvokeFails, BackoffCut, Join, EnterUnknown, EnterSucceed, EnterFail,
     EnterInvalid, Retry, WaitEnds, Is, At

\* The first of several rules that is not false is the first that is met, if it
\* is no error.
LEMMA FirstTakenIsFirstMet ==
    ASSUME NEW d, Typed(d), NEW rules, Len(rules) \in Nat, DOMAIN rules = 1 .. Len(rules),
           \A i \in DOMAIN rules : IsRule(rules[i].rule) /\ Plain(rules[i].rule),
           FirstRuleTaken(d, rules) # 0 =>
             evaluateCondition(d, rules[FirstRuleTaken(d, rules)].rule) = "true"
    PROVE  LET hits == {i \in DOMAIN rules : Satisfied(d, rules[i].rule)}
           IN  /\ FirstRuleTaken(d, rules) = 0 <=> hits = {}
               /\ hits # {} => FirstRuleTaken(d, rules) = Least(hits)
<1> DEFINE hits == {i \in DOMAIN rules : Satisfied(d, rules[i].rule)}
           open == {i \in DOMAIN rules : evaluateCondition(d, rules[i].rule) # "false"}
           first == FirstRuleTaken(d, rules)
<1>1. \A i \in DOMAIN rules :
        /\ evaluateCondition(d, rules[i].rule) = "true" => Satisfied(d, rules[i].rule)
        /\ evaluateCondition(d, rules[i].rule) = "false" => ~Satisfied(d, rules[i].rule)
  BY ConditionIsMeant
<1>2. first = IF open = {} THEN 0 ELSE Least(open)
  BY DEF FirstRuleTaken
<1>3. open \in SUBSET Nat /\ hits \in SUBSET open /\ 0 \notin open
  BY <1>1
<1>4. CASE open = {}
  BY <1>2, <1>3, <1>4
<1>5. CASE open # {}
  <2>1. Least(open) \in open /\ \A j \in open : Least(open) <= j
    <3> HIDE DEF open
    <3> QED
      BY <1>3, <1>5, LeastFacts
  <2>2. first \in open /\ first # 0 /\ \A j \in open : first <= j
    BY <1>2, <1>3, <1>5, <2>1
  <2>3. first \in hits
    <3>1. evaluateCondition(d, rules[first].rule) = "true"
      BY <2>2
    <3> HIDE DEF first
    <3> QED
      BY <1>1, <2>2, <3>1
  <2> HIDE DEF first, hits, open
  <2>4. Least(hits) \in hits /\ \A j \in hits : Least(hits) <= j
    BY <1>3, <2>3, LeastFacts
  <2>5. first <= Least(hits) /\ Least(hits) <= first /\ first \in Nat /\ Least(hits) \in Nat
    BY <1>3, <2>2, <2>3, <2>4
  <2>6. first = Least(hits)
    BY <2>5
  <2> QED
    BY <2>2, <2>3, <2>6 DEF first, hits
<1> QED
  BY <1>4, <1>5

\* A Choice state goes where its first satisfied rule says, or to the default,
\* for rules of any depth, of the operators as they are meant (executeChoice,
\* evaluateCondition, applyLeafComparison, matchGlob).
THEOREM ChoiceIsFirstSatisfiedThm == DataSpec => ChoiceIsFirstSatisfied
<1> DEFINE Decides(m) ==
             Is(m, "Choice") /\ run'[m].pc = "enter" /\ run'[m] # run[m]
               /\ \A i \in DOMAIN DataOf(m).rules : Plain(DataOf(m).rules[i].rule)
           hits(m) == {i \in DOMAIN DataOf(m).rules :
                         Satisfied(doc[m], DataOf(m).rules[i].rule)}
           Right(m) == run'[m].state = IF hits(m) = {} THEN StateOf(m).default
                                       ELSE DataOf(m).rules[Least(hits(m))].next
           Inv == WorkflowInv /\ HasDocuments /\ DocumentsTyped
<1>1. Inv /\ [DataNext]_dataVars => \A m \in Machine : Decides(m) => Right(m)
  <2> SUFFICES ASSUME Inv, [DataNext]_dataVars, NEW m \in Machine, Decides(m)
               PROVE  Right(m)
    OBVIOUS
  <2> DEFINE d == doc[m]
             rules == DataOf(m).rules
             first == FirstRuleTaken(d, rules)
             value == IF first = 0 THEN "true" ELSE evaluateCondition(d, rules[first].rule)
  <2>1. ChoiceData(m)
    BY ChoiceMovesOn
  <2>2. run'[m] = IF value # "true"                 THEN Done(m, value)
                  ELSE IF first # 0                 THEN Going(m, rules[first].next)
                  ELSE IF StateOf(m).default = NoName THEN Done(m, OtherError)
                  ELSE Going(m, StateOf(m).default)
    BY <2>1 DEF ChoiceData
  <2>3. run[m] \in RunType /\ run[m].state \in Name /\ Defined(m)
    BY DEF WorkflowInv, TypeOK, Is, At
  <2>4. DataFits(StateOf(m), DataOf(m))
    BY <2>3, DataAssumption DEF Defined, StateOf, DataOf
  <2>5. /\ Len(rules) \in Nat /\ DOMAIN rules = 1 .. Len(rules)
        /\ \A i \in DOMAIN rules : IsRule(rules[i].rule) /\ Plain(rules[i].rule)
    BY <2>4 DEF DataFits, IsData
  <2>6. Typed(d)
    BY DEF DocumentsTyped
  <2>7. \A outcome : Done(m, outcome).pc = "done"
    BY <2>3 DEF Done, RunType
  <2>8. \A n : Going(m, n).pc = "enter" => Going(m, n).state = n
    BY <2>7 DEF Going, Entering, Unstarted
  <2>9. run'[m].pc = "enter"
    OBVIOUS
  <2> HIDE DEF d, rules
  <2>10. first # 0 => evaluateCondition(d, rules[first].rule) = "true"
    <3> HIDE DEF first
    <3> QED
      BY <2>2, <2>7, <2>9
  <2>11. run'[m].state = IF first = 0 THEN StateOf(m).default ELSE rules[first].next
    <3> HIDE DEF first
    <3> QED
      BY <2>2, <2>7, <2>8, <2>9, <2>10
  <2>12. /\ first = 0 <=> hits(m) = {}
         /\ hits(m) # {} => first = Least(hits(m))
    BY <2>5, <2>6, <2>10, FirstTakenIsFirstMet DEF d, rules
  <2> HIDE DEF first, hits
  <2> QED
    BY <2>11, <2>12 DEF rules
<1>2. Inv /\ [DataNext]_dataVars => [\A m \in Machine : Decides(m) => Right(m)]_dataVars
  BY <1>1
<1> QED
  BY <1>2, TypedInvariant, PTL DEF DataSpec, ChoiceIsFirstSatisfied

-----------------------------------------------------------------------------
(* OnlyNullPanics.  mergePath panics on null alone, and nothing else does. *)

LEMMA MergePanics ==
    ASSUME NEW d, NEW r, NEW p \in Path, Merged(d, r, p).status = "panic", r.status # "panic"
    PROVE  d.kind = "null" /\ AsResultPath(p).form = "keys"
BY DEF Merged, mergePath, Ok, Err, Panic, Path, AsResultPath, Whole

LEMMA ApplyDoesNotPanic ==
    ASSUME NEW d, NEW p \in Path
    PROVE  applyPath(d, p).status # "panic"
BY ApplyReturns DEF Ok, Err

LEMMA HandledPanics ==
    ASSUME WorkflowInv, NEW m \in Machine, ~At(m, "idle"), Defined(m), NEW e,
           Handled(m, e).status = "panic"
    PROVE  doc[m].kind = "null" /\ \E p \in Writes(m) : p.form = "keys"
<1> DEFINE i == FirstRule(StateOf(m).catch, e)
           error == Ok(ErrorObject(e))
<1>1. run[m].state \in Name
  BY MachineFacts
<1>2. StateOf(m).catch \in Seq([errors : SUBSET Error, next : Name \cup {NoName}])
  BY <1>1, StateFacts DEF IsState
<1>3. i # 0 /\ Handled(m, e) = tryCatch(doc[m], e, DataOf(m).catches[i])
  BY DEF Handled, Ok
<1>4. i \in DOMAIN StateOf(m).catch
  BY <1>2, <1>3, FirstRuleFound
<1>5. DataOf(m).catches[i] \in Path /\ i \in DOMAIN DataOf(m).catches
  BY <1>4, DataFacts
<1> HIDE DEF i
<1>6. Merged(doc[m], error, DataOf(m).catches[i]).status = "panic"
  BY <1>3 DEF tryCatch, Ok
<1>7. error.status # "panic"
  BY DEF Ok
<1> QED
  BY <1>5, <1>6, <1>7, MergePanics DEF Writes

LEMMA JoinedPanics ==
    ASSUME WorkflowInv, NEW m \in Machine, ~At(m, "idle"), Defined(m),
           Joined(m).status = "panic"
    PROVE  doc[m].kind = "null" /\ \E p \in Writes(m) : p.form = "keys"
<1> DEFINE list == Ok(Array(Outputs(m)))
<1>1. CASE Failed(m) = {}
  <2>1. Collected(m).status = "panic"
    BY <1>1 DEF Joined
  <2>2. Merged(doc[m], list, DataOf(m).result).status = "panic"
    BY <2>1 DEF Collected, parallelOutput, Err
  <2>3. list.status # "panic"
    BY DEF Ok
  <2>4. DataOf(m).result \in Path
    BY DataFacts
  <2> HIDE DEF list
  <2> QED
    BY <2>2, <2>3, <2>4, MergePanics DEF Writes
<1>2. CASE Failed(m) # {}
  BY <1>2, HandledPanics DEF Joined
<1> QED
  BY <1>1, <1>2

LEMMA PassPanics ==
    ASSUME WorkflowInv, NEW m \in Machine, ~At(m, "idle"), Defined(m),
           executePass(doc[m], DataOf(m)).status = "panic"
    PROVE  doc[m].kind = "null" /\ \E p \in Writes(m) : p.form = "keys"
<1> DEFINE s == DataOf(m)
           data == IF s.static # <<>> THEN Ok(s.static[1]) ELSE applyPath(doc[m], s.input)
           merged == Merged(doc[m], data, s.result)
<1>1. s.input \in Path /\ s.result \in Path /\ s.output \in Path
  BY DataFacts
<1>2. data.status # "panic"
  BY <1>1, ApplyDoesNotPanic DEF Ok
<1>3. executePass(doc[m], s) = IF merged.status = "ok" THEN applyPath(merged.doc, s.output)
                                                       ELSE merged
  BY DEF executePass
<1> HIDE DEF data
<1>4. merged.status = "panic"
  <2> HIDE DEF merged, s
  <2> QED
    BY <1>1, <1>3, ApplyDoesNotPanic DEF s
<1>5. doc[m].kind = "null" /\ AsResultPath(s.result).form = "keys"
  BY <1>1, <1>2, <1>4, MergePanics
<1> QED
  BY <1>5 DEF Writes

LEMMA AnswerPanics ==
    ASSUME WorkflowInv, NEW m \in Machine, ~At(m, "idle"), Defined(m), NEW answer,
           taskOutput(doc[m], answer, DataOf(m)).status = "panic"
    PROVE  doc[m].kind = "null" /\ \E p \in Writes(m) : p.form = "keys"
<1> DEFINE cut == applyPath(answer, DataOf(m).output)
<1>1. DataOf(m).output \in Path /\ DataOf(m).result \in Path
  BY DataFacts
<1>2. cut.status # "panic"
  BY <1>1, ApplyDoesNotPanic
<1>3. Merged(doc[m], cut, DataOf(m).result).status = "panic"
  BY DEF taskOutput
<1> HIDE DEF cut
<1> QED
  BY <1>1, <1>2, <1>3, MergePanics DEF Writes

\* Whatever a service answers and however a workflow is written, only a state
\* that merges below the top of a document null takes the process with it.
THEOREM OnlyNullPanicsThm == DataSpec => []OnlyNullPanics
<1>1. DataInit => OnlyNullPanics
  BY DEF DataInit, OnlyNullPanics
<1>2. WorkflowInv /\ OnlyNullPanics /\ [DataNext]_dataVars => OnlyNullPanics'
  <2> SUFFICES ASSUME WorkflowInv, OnlyNullPanics, [DataNext]_dataVars, crashed'
               PROVE  OnlyNullPanics'
    BY DEF OnlyNullPanics
  <2>1. CASE ~crashed
    <3>1. PICK m \in Machine : Crash(m)
      BY <2>1 DEF DataNext, MachineStep, dataVars
    <3>2. ~At(m, "idle") /\ Defined(m)
      BY <3>1, MachineFacts DEF Crash, Panics, Is, At
    <3>3. doc[m].kind = "null" /\ \E p \in Writes(m) : p.form = "keys"
      BY <3>1, <3>2, PassPanics, AnswerPanics, HandledPanics, JoinedPanics DEF Crash, Panics
    <3>4. UNCHANGED <<run, doc>>
      BY <3>1 DEF Crash, vars
    <3> QED
      BY <3>2, <3>3, <3>4 DEF OnlyNullPanics, At, Defined, Writes, DataOf
  <2>2. CASE crashed
    <3>1. UNCHANGED <<run, doc, crashed>>
      BY <2>2 DEF DataNext, MachineStep, dataVars, vars
    <3> QED
      BY <3>1 DEF OnlyNullPanics, At, Defined, Writes, DataOf
  <2> QED
    BY <2>1, <2>2
<1> QED
  BY <1>1, <1>2, DocumentsInvariant, PTL DEF DataSpec

=============================================================================
