------------------------------ MODULE Documents ------------------------------
(***************************************************************************)
(* The pure functions of internal/workflow on JSON documents: reference    *)
(* paths (jsonpath.go), choice rules (jsonpath.go, executor.go), and what  *)
(* the rest of the executor computes from them for a state's input and     *)
(* output.  Below each group stands the reference definition that the      *)
(* properties of WorkflowData compare it with.                             *)
(*                                                                         *)
(* A document is the JSON value that its bytes hold, with its numbers as   *)
(* they are written, or "text": bytes that do not parse, which services    *)
(* may answer.  json.Unmarshal reads every number into a float64: what the *)
(* paths take from a document or put into it holds the nearest float64 of  *)
(* each number, and a document with a number out of range does not decode. *)
(* Strings are Unicode; characters are numbers.                            *)
(***************************************************************************)
EXTENDS Integers, Sequences

CONSTANTS Key,        \* the keys of objects
          ErrorText,  \* [error class -> the string that names it]
          CauseText,  \* the text of an error, as a string of a document
          Timestamp,  \* the strings that time.Parse accepts as RFC 3339
          Float64,    \* [numbers in the range of float64 -> nearest float64]
          Document    \* what the configuration, callers and services write,
                      \* with its parts

\* fits: every number in it is in the range of float64.
\* decoded: its numbers, and those of its parts, were read into float64.
Node(kind, num, str, items, kids, fits) ==
    [kind |-> kind, num |-> num, str |-> str, items |-> items, kids |-> kids,
     fits |-> fits, decoded |-> FALSE]

NoKids == [k \in {} |-> {}]

Null     == Node("null", 0, <<>>, <<>>, NoKids, TRUE)
Text     == Node("text", 0, <<>>, <<>>, NoKids, TRUE)
Bool(b)  == Node("bool", IF b THEN 1 ELSE 0, <<>>, <<>>, NoKids, TRUE)
Num(n)   == Node("num", n, <<>>, <<>>, NoKids, n \in DOMAIN Float64)
Str(s)   == Node("str", 0, s, <<>>, NoKids, TRUE)
Array(i) == Node("arr", 0, <<>>, i, NoKids, \A n \in DOMAIN i : i[n].fits)
Obj(f)   == Node("obj", 0, <<>>, <<>>, f, \A k \in DOMAIN f : f[k].fits)

IsDocument(d) ==
    /\ d.kind \in {"null", "text", "bool", "num", "str", "arr", "obj"}
    /\ d.num \in Int /\ d.str \in Seq(Nat) /\ d.items \in Seq(Document)
    /\ \A k \in DOMAIN d.kids : d.kids[k] \in Document
    /\ d.fits \in BOOLEAN /\ d.decoded \in BOOLEAN

ASSUME DocumentAssumption ==
    /\ \A d \in Document : IsDocument(d)
    /\ \A n \in DOMAIN Float64 : Float64[n] \in Int

\* json.Unmarshal into `any`, or into a map for an object.
Decodes(d) == d.kind # "text" /\ d.fits

Decoded(d) ==
    IF d.decoded THEN d
    ELSE [kind |-> d.kind,
          num  |-> IF d.kind = "num" /\ d.num \in DOMAIN Float64 THEN Float64[d.num] ELSE d.num,
          str |-> d.str, items |-> d.items, kids |-> d.kids, fits |-> d.fits, decoded |-> TRUE]

HasKey(d, k) == d.kind = "obj" /\ k \in DOMAIN d.kids

Kid(d, k) == IF d.decoded THEN Decoded(d.kids[k]) ELSE d.kids[k]

\* A map that json.Unmarshal made, or the program.
Map(f) == [kind |-> "obj", num |-> 0, str |-> <<>>, items |-> <<>>, kids |-> f,
           fits |-> TRUE, decoded |-> TRUE]

NewObject == Map(NoKids)

WithKey(d, k, v) ==
    Map([x \in DOMAIN d.kids \cup {k} |-> IF x = k THEN v ELSE d.kids[x]])

\* Results of the functions that may return an error.  "panic": the runtime
\* panics, and with it the process.
Ok(d)      == [status |-> "ok", doc |-> d, error |-> "none"]
Err(class) == [status |-> "error", doc |-> Null, error |-> class]
Panic      == [status |-> "panic", doc |-> Null, error |-> "none"]

\* The class of an error is found in its text: "key ... not found" counts as
\* a service that was not found.
KeyNotFound == "States.ServiceNotFound"
OtherError  == "States.TaskFailed"

-----------------------------------------------------------------------------
(* Reference paths *)

\* omitted: "".  root: "$".  context: "$$".  keys: "$.a.b".  bad: any other.
Path == [form : {"omitted", "root", "context", "bad"}, keys : {<<>>}]
        \cup [form : {"keys"}, keys : Seq(Key) \ {<<>>}]

Omitted == [form |-> "omitted", keys |-> <<>>]
Whole   == [form |-> "root", keys |-> <<>>]
At2(a, b) == [form |-> "keys", keys |-> <<a, b>>]
At1(a)    == [form |-> "keys", keys |-> <<a>>]

\* One step of the walk along a path.
Further(up, k) ==
    IF up.status # "ok"    THEN up
    ELSE IF HasKey(up.doc, k) THEN Ok(Kid(up.doc, k))
    ELSE Err(IF up.doc.kind = "obj" THEN KeyNotFound ELSE OtherError)

\* What is found after each number of keys.
Walked(d, keys) ==
    LET walk[i \in 0 .. Len(keys)] ==
          IF i = 0 THEN Ok(d) ELSE Further(walk[i - 1], keys[i])
    IN  walk

\* What the bytes of d hold at a path of keys.
Field(d, p) == Walked(d, p.keys)[Len(p.keys)]

applyPath(d, p) ==
    CASE p.form \in {"omitted", "root", "context"} -> Ok(d)
      [] p.form = "bad"                            -> Err(OtherError)
      [] p.form = "keys" /\ ~Decodes(d)            -> Err(OtherError)
      [] p.form = "keys" /\ Decodes(d)             -> Field(Decoded(d), p)

\* Variant with a bug: the objects on the way are made anew.
setNestedAfresh(d, keys, v) ==
    LET made[i \in 1 .. Len(keys) + 1] ==
          IF i = Len(keys) + 1 THEN v ELSE WithKey(NewObject, keys[i], made[i + 1])
    IN  WithKey(d, keys[1], made[2])

\* The objects on the way down are kept, or made where there is none.
KidObject(d, k) == IF HasKey(d, k) /\ d.kids[k].kind = "obj" THEN Kid(d, k) ELSE NewObject

OldObjects(d, keys) ==
    LET old[i \in 1 .. Len(keys)] == IF i = 1 THEN d ELSE KidObject(old[i - 1], keys[i - 1])
    IN  old

NewObjects(d, keys, v) ==
    LET old == OldObjects(d, keys)
        new[i \in 1 .. Len(keys) + 1] ==
          IF i = Len(keys) + 1 THEN v ELSE WithKey(old[i], keys[i], new[i + 1])
    IN  new

setNested(d, keys, v) == NewObjects(d, keys, v)[1]

\* Variant with a bug: the error of an input of another kind is not looked at,
\* and the map stays nil.
mergePathNil(input, result, p) ==
    CASE p.form = "omitted"          -> Ok(input)
      [] p.form = "root"             -> Ok(result)
      [] p.form \in {"context", "bad"} -> Err(OtherError)
      [] p.form = "keys" /\ ~Decodes(result) -> Err(OtherError)
      [] p.form = "keys" /\ Decodes(result)  ->
           IF input.kind = "obj" THEN Ok(setNested(Decoded(input), p.keys, Decoded(result)))
           ELSE Panic

\* Unmarshalling null into a map succeeds and leaves the map nil.  An input of
\* another kind, or with a number out of range, is an error, after which an
\* empty map is made.
mergePath(input, result, p) ==
    CASE p.form = "omitted"          -> Ok(input)
      [] p.form = "root"             -> Ok(result)
      [] p.form \in {"context", "bad"} -> Err(OtherError)
      [] p.form = "keys" /\ ~Decodes(result) -> Err(OtherError)
      [] p.form = "keys" /\ Decodes(result)  ->
           IF input.kind = "null" THEN Panic
           ELSE Ok(setNested(IF input.kind = "obj" /\ Decodes(input) THEN Decoded(input)
                             ELSE NewObject,
                             p.keys, Decoded(result)))

\* Reference: neither path lies on the way to, or below, the other.
Apart(p, q) ==
    /\ p.form = "keys" /\ q.form = "keys"
    /\ \E i \in DOMAIN p.keys \cap DOMAIN q.keys : p.keys[i] # q.keys[i]

-----------------------------------------------------------------------------
(* Patterns.  A pattern is the sequence of strings between its stars.      *)

Index(s, part) ==
    LET hits == {i \in 0 .. Len(s) - Len(part) : SubSeq(s, i + 1, i + Len(part)) = part}
    IN  IF hits = {} THEN -1 ELSE CHOOSE i \in hits : \A j \in hits : i <= j

\* Variant with a bug: the first part may match anywhere.
matchGlobUnanchored(parts, s) ==
    IF Len(parts) = 1 THEN parts[1] = s
    ELSE \A i \in DOMAIN parts : Index(s, parts[i]) >= 0

\* The number of characters consumed after part i of a pattern is looked for
\* behind the first n, -1 if it is not there.
Past(s, n, i, part) ==
    LET at == Index(SubSeq(s, n + 1, Len(s)), part)
    IN  IF n = -1 \/ part = <<>> THEN n
        ELSE IF at < 0 \/ (i = 1 /\ at # 0) THEN -1
        ELSE n + at + Len(part)

\* The first occurrence of each part, one after the other.
Consumed(parts, s) ==
    LET used[i \in 0 .. Len(parts)] ==
          IF i = 0 THEN 0 ELSE Past(s, used[i - 1], i, parts[i])
    IN  used

matchGlob(parts, s) ==
    LET last == Consumed(parts, s)[Len(parts)]
    IN  IF Len(parts) = 1 THEN parts[1] = s
        ELSE last # -1 /\ (parts[Len(parts)] = <<>> \/ last = Len(s))

\* Reference: each star stands for some sequence of characters.
Matches(parts, s) ==
    \E from \in [DOMAIN parts -> 0 .. Len(s)] :
        LET to(i) == from[i] + Len(parts[i])
        IN  /\ from[1] = 0 /\ to(Len(parts)) = Len(s)
            /\ \A i \in 1 .. Len(parts) - 1 : to(i) <= from[i + 1]
            /\ \A i \in DOMAIN parts : SubSeq(s, from[i] + 1, to(i)) = parts[i]

-----------------------------------------------------------------------------
(* Choice rules.  A rule is a list of conditions, of which the first is    *)
(* the rule itself; and, or and not hold the places of others further on   *)
(* in the list.  given: the operators that are written in the file.        *)

IsRule(rule) ==
    /\ Len(rule) \in Nat \ {0} /\ DOMAIN rule = 1 .. Len(rule)
    /\ \A i \in DOMAIN rule :
         /\ {rule[i].and, rule[i].or, rule[i].not} \subseteq Seq(i + 1 .. Len(rule))
         /\ rule[i].variable \in Path
         /\ \A op \in DOMAIN rule[i].given :
              /\ rule[i].given[op] \in Document
              /\ op = "StringMatches" => rule[i].given[op].items # <<>>

StringOps  == {"StringEquals", "StringLessThan", "StringGreaterThan",
               "StringLessThanEquals", "StringGreaterThanEquals"}
NumericOps == {"NumericEquals", "NumericLessThan", "NumericGreaterThan",
               "NumericLessThanEquals", "NumericGreaterThanEquals"}
TypeOps    == {"IsNull", "IsPresent", "IsString", "IsNumeric", "IsBoolean"}

OperatorOrder ==
    << "StringEquals", "StringLessThan", "StringGreaterThan",
       "StringLessThanEquals", "StringGreaterThanEquals", "StringMatches",
       "NumericEquals", "NumericLessThan", "NumericGreaterThan",
       "NumericLessThanEquals", "NumericGreaterThanEquals", "BooleanEquals",
       "IsNull", "IsPresent", "IsString", "IsNumeric", "IsBoolean" >>

\* Strings compare by their characters.
Less(s, t) ==
    \E n \in 0 .. Len(s) :
        /\ n < Len(t)
        /\ SubSeq(s, 1, n) = SubSeq(t, 1, n)
        /\ n < Len(s) => s[n + 1] < t[n + 1]

Compare(op, v, o) ==
    CASE op = "StringEquals"             -> v.str = o.str
      [] op \in {"NumericEquals", "BooleanEquals"} -> v.num = o.num
      [] op = "StringLessThan"           -> Less(v.str, o.str)
      [] op = "StringGreaterThan"        -> Less(o.str, v.str)
      [] op = "StringLessThanEquals"     -> ~Less(o.str, v.str)
      [] op = "StringGreaterThanEquals"  -> ~Less(v.str, o.str)
      [] op = "NumericLessThan"          -> v.num < o.num
      [] op = "NumericGreaterThan"       -> v.num > o.num
      [] op = "NumericLessThanEquals"    -> v.num <= o.num
      [] op = "NumericGreaterThanEquals" -> v.num >= o.num

\* The operand of StringMatches is the array of the strings between the stars.
Pattern(parts) == Array([i \in DOMAIN parts |-> Str(parts[i])])
Parts(o) == [i \in DOMAIN o.items |-> o.items[i].str]

\* A value of another kind than the operator's is no error: false.
Holds(op, v, o) ==
    CASE op \in StringOps       -> v.kind = "str" /\ Compare(op, v, o)
      [] op = "StringMatches"   -> v.kind = "str" /\ matchGlob(Parts(o), v.str)
      [] op \in NumericOps      -> v.kind = "num" /\ Compare(op, v, o)
      [] op = "BooleanEquals"   -> v.kind = "bool" /\ Compare(op, v, o)
      [] op = "IsNull"          -> v.kind = "null"
      [] op = "IsPresent"       -> v.kind # "null"
      [] op = "IsString"        -> v.kind = "str"
      [] op = "IsNumeric"       -> v.kind = "num"
      [] op = "IsBoolean"       -> v.kind = "bool"

Zeroes == {Str(<<>>), Num(0), Bool(FALSE), Pattern(<< <<>> >>)}

\* toChoiceRuleEval: a zero operand counts as not given; a number becomes a
\* float64.  A ...Path operator is not followed, it only lets the zero of its
\* constant count.
toChoiceRuleEval(given) ==
    LET kept == {op \in DOMAIN given : given[op] \notin Zeroes}
                 \cup (IF "NumericEqualsPath" \in DOMAIN given THEN {"NumericEquals"} ELSE {})
                 \cup (IF "BooleanEqualsPath" \in DOMAIN given THEN {"BooleanEquals"} ELSE {})
    IN  [op \in kept |-> IF op \in DOMAIN given THEN Decoded(given[op])
                         ELSE IF op = "NumericEquals" THEN Num(0) ELSE Bool(FALSE)]

Least(set) == CHOOSE i \in set : \A j \in set : i <= j

Truth(b) == IF b THEN "true" ELSE "false"

\* The first operator of the switch that is given decides; IsTimestamp is not
\* one of them.
applyLeafComparison(v, given) ==
    LET set == {i \in DOMAIN OperatorOrder : OperatorOrder[i] \in DOMAIN given}
        op == OperatorOrder[Least(set)]
    IN  IF set = {} THEN OtherError ELSE Truth(Holds(op, v, given[op]))

Leaf(d, variable, given) ==
    LET r == applyPath(d, variable)
    IN  IF variable.form = "omitted" THEN OtherError
        ELSE IF r.status = "error"   THEN r.error
        ELSE IF ~Decodes(r.doc)      THEN OtherError
        ELSE applyLeafComparison(Decoded(r.doc), toChoiceRuleEval(given))

\* The first value other than the neutral one ends And and Or.
FirstOther(values, neutral) ==
    LET others == {i \in DOMAIN values : values[i] # neutral}
    IN  IF others = {} THEN neutral ELSE values[Least(others)]

Each(value, places) == [n \in DOMAIN places |-> value[places[n]]]

Negated(truth) == CASE truth = "true"  -> "false"
                    [] truth = "false" -> "true"
                    [] OTHER           -> truth

Evaluated(d, c, value) ==
    IF c.and # <<>>      THEN FirstOther(Each(value, c.and), "true")
    ELSE IF c.or # <<>>  THEN FirstOther(Each(value, c.or), "false")
    ELSE IF c.not # <<>> THEN Negated(value[c.not[1]])
    ELSE Leaf(d, c.variable, c.given)

Evaluations(d, rule) ==
    LET value[i \in DOMAIN rule] == Evaluated(d, rule[i], value)
    IN  value

evaluateCondition(d, rule) == Evaluations(d, rule)[1]

\* executeChoice: the place of the first rule that is not false, 0 for the
\* default.  That rule may be an error.
FirstRuleTaken(d, rules) ==
    LET open == {i \in DOMAIN rules : evaluateCondition(d, rules[i].rule) # "false"}
    IN  IF open = {} THEN 0 ELSE Least(open)

\* Reference: what the operators mean, for rules without the executor's own
\* limits: one operator each, no zero operand, no path operand, no test for
\* presence, and no pattern whose last star is followed by anything.
PlainGiven(given) ==
    \E op \in StringOps \cup NumericOps \cup {"StringMatches", "BooleanEquals"} \cup TypeOps :
        /\ DOMAIN given = {op} /\ op # "IsPresent" /\ given[op] \notin Zeroes
        /\ op = "StringMatches" =>
              \/ Len(given[op].items) = 1
              \/ given[op].items[Len(given[op].items)] = Str(<<>>)

Plain(rule) ==
    \A i \in DOMAIN rule :
        rule[i].and = <<>> /\ rule[i].or = <<>> /\ rule[i].not = <<>>
            => PlainGiven(rule[i].given)

Met(d, variable, given) ==
    LET r == applyPath(d, variable)
    IN  \E op \in DOMAIN given :
          /\ r.status = "ok"
          /\ IF op = "StringMatches"
               THEN r.doc.kind = "str" /\ Matches(Parts(given[op]), r.doc.str)
               ELSE Holds(op, Decoded(r.doc), Decoded(given[op]))

Meant(d, c, holds) ==
    IF c.and # <<>>      THEN \A n \in DOMAIN c.and : holds[c.and[n]]
    ELSE IF c.or # <<>>  THEN \E n \in DOMAIN c.or : holds[c.or[n]]
    ELSE IF c.not # <<>> THEN ~holds[c.not[1]]
    ELSE Met(d, c.variable, c.given)

Meanings(d, rule) ==
    LET holds[i \in DOMAIN rule] == Meant(d, rule[i], holds)
    IN  holds

Satisfied(d, rule) == Meanings(d, rule)[1]

-----------------------------------------------------------------------------
(* A state's input and output *)

AsResultPath(p) == IF p = Omitted THEN Whole ELSE p

Merged(d, r, p) == IF r.status = "ok" THEN mergePath(d, r.doc, AsResultPath(p)) ELSE r

\* static: the Result of the state, if it has one.
executePass(d, s) ==
    LET data == IF s.static # <<>> THEN Ok(s.static[1]) ELSE applyPath(d, s.input)
        merged == Merged(d, data, s.result)
    IN  IF merged.status = "ok" THEN applyPath(merged.doc, s.output) ELSE merged

taskOutput(d, answer, s) == Merged(d, applyPath(answer, s.output), s.result)

ErrorObject(e) ==
    Obj([k \in {"Error", "Cause"} |-> Str(IF k = "Error" THEN ErrorText[e] ELSE CauseText)])

\* A ResultPath of a Catch that does not apply is ignored.
tryCatch(d, e, p) ==
    LET merged == Merged(d, Ok(ErrorObject(e)), p)
    IN  IF merged.status = "error" THEN Ok(d) ELSE merged

\* The outputs of the branches, in the order of the branches, their numbers as
\* they are written.  Bytes that do not parse cannot be put into an array.
parallelOutput(d, outputs, p) ==
    IF \E i \in DOMAIN outputs : outputs[i].kind = "text" THEN Err(OtherError)
    ELSE Merged(d, Ok(Array(outputs)), p)

\* A number of seconds, or a time; null unmarshals into either as its zero,
\* which is no time.
IsSeconds(d)   == d.kind \in {"num", "null"} /\ d.fits
IsTimestamp(d) == d.kind = "str" /\ d.str \in Timestamp

executeWait(d, w) ==
    LET r == applyPath(d, w.path)
    IN  CASE w.by = "none"      -> Ok(d)
          [] w.by = "malformed" -> Err(OtherError)
          [] w.by = "seconds"   -> IF r.status = "ok" /\ ~IsSeconds(r.doc)
                                     THEN Err(OtherError) ELSE r
          [] w.by = "timestamp" -> IF r.status = "ok" /\ ~IsTimestamp(r.doc)
                                     THEN Err(OtherError) ELSE r
=============================================================================
