------------------------------ MODULE MCWorkflow ------------------------------
(***************************************************************************)
(* An order workflow for TLC, with every type of state:                    *)
(*                                                                         *)
(*   charge -> fan (branches left, right) -> pick -> note -> rest -> good  *)
(*                                                                         *)
(* whose Tasks retry under a timeout and whose Choice may also lead to a   *)
(* Fail state, to a state that is not defined, to one that is malformed,   *)
(* to a Parallel state without branches and to one with no Next.           *)
(***************************************************************************)
EXTENDS WorkflowData, TLC

TheName == {"charge", "fan", "pick", "note", "rest", "good", "bad", "sorry",
            "lost", "odd", "empty", "open"}

Blank == [type |-> "Pass", next |-> NoName, end |-> FALSE, retry |-> <<>>, catch |-> <<>>,
          timed |-> FALSE, paths |-> FALSE, choices |-> {}, default |-> NoName,
          branches |-> <<>>]

Timeout == "States.Timeout"
NotFound == "States.ServiceNotFound"
TaskFailed == "States.TaskFailed"
All == {Timeout, NotFound, TaskFailed}

Undefined == [n \in TheName |-> NoState]

Order == [Undefined EXCEPT
    !["charge"] = [Blank EXCEPT !.type = "Task", !.next = "fan", !.timed = TRUE, !.paths = TRUE,
                     !.retry = << [errors |-> {Timeout}, max |-> 2],
                                  [errors |-> {TaskFailed}, max |-> 1] >>,
                     !.catch = << [errors |-> {NotFound}, next |-> "sorry"],
                                  [errors |-> All, next |-> "fan"] >>],
    !["fan"]    = [Blank EXCEPT !.type = "Parallel", !.next = "pick", !.paths = TRUE,
                     !.branches = <<"left", "right">>,
                     !.catch = << [errors |-> {Timeout}, next |-> "sorry"] >>],
    !["pick"]   = [Blank EXCEPT !.type = "Choice", !.default = "note", !.paths = TRUE,
                     !.choices = {"bad", "lost", "odd", "empty", "open"}],
    !["note"]   = [Blank EXCEPT !.next = "rest", !.paths = TRUE],
    !["rest"]   = [Blank EXCEPT !.type = "Wait", !.next = "good", !.paths = TRUE],
    !["good"]   = [Blank EXCEPT !.type = "Succeed"],
    !["bad"]    = [Blank EXCEPT !.type = "Fail"],
    !["sorry"]  = [Blank EXCEPT !.end = TRUE, !.paths = TRUE],
    !["odd"]    = [Blank EXCEPT !.type = "Invalid"],
    !["empty"]  = [Blank EXCEPT !.type = "Parallel", !.end = TRUE],
    !["open"]   = [Blank EXCEPT !.paths = TRUE]]

\* Two rules for the same error, and MaxAttempts left at 0.
Left == [Undefined EXCEPT
    !["charge"] = [Blank EXCEPT !.type = "Task", !.end = TRUE, !.timed = TRUE, !.paths = TRUE,
                     !.retry = << [errors |-> {TaskFailed}, max |-> 0],
                                  [errors |-> All, max |-> 1] >>,
                     !.catch = << [errors |-> {Timeout}, next |-> "sorry"] >>]]

\* A Choice without Default, and a Parallel state inside a branch, with both
\* End and Catch.
Right == [Undefined EXCEPT
    !["pick"] = [Blank EXCEPT !.type = "Choice", !.choices = {"rest"}, !.paths = TRUE],
    !["rest"] = [Blank EXCEPT !.type = "Wait", !.next = "fan", !.paths = TRUE],
    !["fan"]  = [Blank EXCEPT !.type = "Parallel", !.end = TRUE, !.branches = <<"inner">>,
                     !.catch = << [errors |-> {TaskFailed}, next |-> "rest"] >>]]

Inner == [Undefined EXCEPT !["charge"] = [Blank EXCEPT !.type = "Task", !.end = TRUE]]

TheDefinition == [Order |-> [startAt |-> "charge", states |-> Order],
                  left  |-> [startAt |-> "charge", states |-> Left],
                  right |-> [startAt |-> "pick", states |-> Right],
                  inner |-> [startAt |-> "charge", states |-> Inner]]

-----------------------------------------------------------------------------
(* Documents: strings over a = 1 and b = 2 *)

TheKey == {"item", "id", "seen", "when", "sum", "paid", "fan", "err"}

a == <<1>>
ab == <<1, 2>>
abab == <<1, 2, 1, 2>>
bab == <<2, 1, 2>>

O(f) == Obj([k \in DOMAIN f |-> f[k]])

\* Numbers up to 4 are exact, 5 is not, and Huge is out of range.
TheFloat64 == [n \in 0 .. 5 |-> IF n = 5 THEN 4 ELSE n]
Huge == 9

TheErrorText == [e \in All |-> CASE e = Timeout  -> <<10>>
                                 [] e = NotFound -> <<11>>
                                 [] OTHER        -> <<12>>]
NoCause == <<>>
TheTimestamp == {a}

\* No object, no JSON, an empty object, and items: one has a number that is
\* not exact, one no number to wait for and no time, one a number out of range.
TheInputs ==
    {Null, Text, Str(a), Obj(NoKids),
     O([item |-> O([id |-> Num(5)]), when |-> Str(a)]),
     O([item |-> O([id |-> Str(a)]), when |-> Str(ab)]),
     O([item |-> O([id |-> Num(Huge)]), when |-> Str(a)])}

Paid == {Str(<<>>), Str(ab), Str(abab), Str(bab), Num(0), Num(5), Num(Huge), Null, Bool(TRUE)}

TheAnswers == [Order |-> {O([sum |-> d]) : d \in Paid} \cup {Text, Obj(NoKids)},
               left  |-> {Num(1), Text},
               right |-> {Null},
               inner |-> {Num(2)}]

-----------------------------------------------------------------------------
(* What the states say about documents *)

Silent == [input |-> Omitted, result |-> Omitted, output |-> Omitted, static |-> <<>>,
           wait |-> [by |-> "none", path |-> Omitted], rules |-> <<>>, catches |-> <<>>]

Test(p, given) == [and |-> <<>>, or |-> <<>>, not |-> <<>>, variable |-> p, given |-> given]
Group == Test(Omitted, [x \in {} |-> Null])

PaidIs(given) == Test(At1("paid"), given)

\* "a*b*" but not "ab"; a number below 3, or true; a string up to "ab"; null.
PickRules ==
    << [rule |-> << [Group EXCEPT !.and = <<2, 3>>],
                    PaidIs([StringMatches |-> Pattern(<<a, <<2>>, <<>> >>)]),
                    [Group EXCEPT !.not = <<4>>],
                    PaidIs([StringEquals |-> Str(ab)]) >>, next |-> "bad"],
       [rule |-> << [Group EXCEPT !.or = <<2, 3>>],
                    PaidIs([NumericLessThan |-> Num(3)]),
                    PaidIs([BooleanEquals |-> Bool(TRUE)]) >>, next |-> "lost"],
       [rule |-> << PaidIs([StringMatches |-> Pattern(<< ab >>)]) >>, next |-> "odd"],
       [rule |-> << PaidIs([IsNull |-> Bool(TRUE)]) >>, next |-> "empty"],
       [rule |-> << PaidIs([StringLessThanEquals |-> Str(a)]) >>, next |-> "open"] >>

\* Rules in which the executor's own limits show: a star in the middle, the
\* operand of a path, two operators of which one counts, a rule of which
\* nothing is left.
LimitedRules ==
    << [rule |-> << PaidIs([StringMatches |-> Pattern(<<a, <<2>> >>)]) >>, next |-> "rest"],
       [rule |-> << PaidIs([NumericEqualsPath |-> Null, IsPresent |-> Bool(TRUE)]) >>, next |-> "rest"],
       [rule |-> << [Group EXCEPT !.or = <<2, 3>>],
                    PaidIs([IsNull |-> Bool(TRUE)]),
                    PaidIs([IsString |-> Bool(TRUE)]) >>, next |-> "rest"],
       [rule |-> << [Group EXCEPT !.and = <<2, 3>>],
                    PaidIs([IsNumeric |-> Bool(TRUE)]),
                    PaidIs([StringEquals |-> Str(<<>>)]) >>, next |-> "rest"] >>

Silence == [n \in TheName |-> Silent]

TheData == [
    Order |-> [Silence EXCEPT
        !["charge"] = [Silent EXCEPT !.result = At1("paid"), !.output = At1("sum"),
                                     !.catches = <<At1("err"), At1("err")>>],
        !["fan"]    = [Silent EXCEPT !.result = At1("fan"), !.catches = <<At1("err")>>],
        !["pick"]   = [Silent EXCEPT !.rules = PickRules],
        !["note"]   = [Silent EXCEPT !.input = At2("item", "id"), !.result = At2("item", "seen")],
        !["rest"]   = [Silent EXCEPT !.wait = [by |-> "seconds", path |-> At2("item", "id")]],
        !["sorry"]  = [Silent EXCEPT !.output = At1("err")],
        !["open"]   = [Silent EXCEPT !.static = <<Num(1)>>, !.result = At2("err", "id")]],
    left  |-> [Silence EXCEPT
        !["charge"] = [Silent EXCEPT !.input = At1("item"), !.catches = <<At1("item")>>]],
    right |-> [Silence EXCEPT
        !["pick"]   = [Silent EXCEPT !.rules = LimitedRules],
        !["rest"]   = [Silent EXCEPT !.wait = [by |-> "timestamp", path |-> At1("when")]],
        !["fan"]    = [Silent EXCEPT !.catches = <<At1("err")>>]],
    inner |-> Silence]

\* Everything that is written above, with its parts.
TheDocument ==
    LET Written == TheInputs \cup UNION Range(TheAnswers) \cup {Num(1), Null}
                   \cup UNION {UNION {UNION {Range(rules[i].rule[j].given) :
                                               j \in DOMAIN rules[i].rule} :
                                         i \in DOMAIN rules} :
                               rules \in {PickRules, LimitedRules}}
        WithParts(docs) == docs \cup UNION {Range(d.kids) : d \in docs}
                                \cup UNION {Range(d.items) : d \in docs}
    IN  WithParts(WithParts(Written))
=============================================================================
