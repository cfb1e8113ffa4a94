----------------------------- MODULE Conditions -----------------------------
(***************************************************************************)
(* How the correlation engine decides whether an event matches a rule      *)
(* (backend/app/services/engine.py, _evaluar_regla, _evaluar_grupo and     *)
(* _evaluar_condicion).  The conditions of a rule are a JSON value nobody  *)
(* validates beyond being an object (schemas/rule.py:27), so they are one  *)
(* of                                                                      *)
(*   Leaf   an object with a field, an operator and a value,               *)
(*   Group  an object with an operator and a list of conditions,           *)
(*   List   a list of conditions, only ever inside a group,                *)
(*   Junk   anything that is not an object or a list.                      *)
(* (A group whose conditions are no list raises like a group of Junk.)     *)
(* Evaluating them gives "match", "no", or "raises" (an exception that     *)
(* leaves evaluate()).                                                     *)
(*                                                                         *)
(* What descends into conditions is a function over JsonConditions that    *)
(* asks itself about the conditions inside.                                *)
(***************************************************************************)
EXTENDS Integers, Sequences, SequencesExt, FiniteSetsExt

CONSTANTS
    Numerals,         \* numbers as they are written: 22, 22.0, True, 2.2e1
    Written,          \* the text of each, folded, in parts
    Worth,            \* the number each denotes; float() holds it exactly
    Readable,         \* the numerals float() reads in a text (True it does not)
    Overflowing,      \* integers too large for float()
    NoText,           \* stands for the field of a condition that is no text
    JsonConditions,   \* the conditions of the rules and every value inside them
    Nesting           \* how deep each of them is nested: JSON values are finite trees

-----------------------------------------------------------------------------
(* Values of event fields and of conditions. *)

\* A text: its parts folded to lower case, and whether it is spelled in
\* capitals.  str() of a number is what its numeral is written as; str(None) is
\* "None".
Text(parts) == [kind |-> "text", parts |-> parts, capitals |-> FALSE, numeral |-> ""]
Shout(parts) == [Text(parts) EXCEPT !.capitals = TRUE]
Number(n) == [kind |-> "number", parts |-> Written[n], capitals |-> FALSE, numeral |-> n]
None == [kind |-> "none", parts |-> <<"none">>, capitals |-> FALSE, numeral |-> ""]

\* A list of values, which only the operator "in" looks into; its text, brackets
\* and all, is none a field holds.
Values(list) == [kind |-> "list", items |-> list, parts |-> <<"[]">>]

Missing(v) == v.kind = "none"

\* What float(v) can be, empty when it raises ValueError or TypeError (which are
\* caught and make the condition false).  Numerals are read in texts as well.
Float(v) == IF v.kind = "number" THEN {Worth[v.numeral]}
            ELSE { Worth[n] : n \in { m \in Readable : Written[m] = v.parts } }

\* float(v) raises OverflowError, which is not caught.
TooLarge(v) == v.kind = "number" /\ v.numeral \in Overflowing

\* A pattern re.compile() refuses; the exception is caught as well.
BadPattern == Text(<<"(">>)

Leaf(field, operator, value) ==
    [kind |-> "leaf", field |-> field, operator |-> operator, value |-> value]
Group(operator, conditions) ==
    [kind |-> "group", operator |-> operator, conditions |-> conditions]
List(conditions) == [kind |-> "list", conditions |-> conditions]
Junk == [kind |-> "junk"]

\* What one field of an event holds, and what a condition compares it with,
\* lists aside.
IsValue(v) ==
    \/ v = None
    \/ \E n \in Numerals : v = Number(n)
    \/ /\ v.kind = "text" /\ v.parts \in Seq(STRING)
       /\ \E capitals \in BOOLEAN : v = [Text(v.parts) EXCEPT !.capitals = capitals]

IsCondition(c) ==
    CASE c.kind = "leaf" -> c.value.kind = "list" \/ IsValue(c.value)
      [] c.kind \in {"group", "list"} ->
             /\ Len(c.conditions) \in Nat /\ DOMAIN c.conditions = 1..Len(c.conditions)
             /\ \A i \in DOMAIN c.conditions :
                    /\ c.conditions[i] \in JsonConditions
                    /\ Nesting[c.conditions[i]] < Nesting[c]
      [] OTHER -> c.kind = "junk"

ASSUME ConditionsAssumption ==
    /\ Written \in [Numerals -> Seq(STRING)] /\ Worth \in [Numerals -> Int]
    /\ Readable \subseteq Numerals /\ Overflowing \subseteq Numerals
    /\ \A m, n \in Readable : Written[m] = Written[n] => Worth[m] = Worth[n]
    /\ Nesting \in [JsonConditions -> Nat]
    /\ \A c \in JsonConditions : IsCondition(c)

-----------------------------------------------------------------------------
(* The operators of a single condition: v is the event's value, x the       *)
(* condition's.                                                             *)

\* _eq: case-insensitive for two texts, == for anything else: numbers are equal
\* however they are written.
Eq(v, x) == \/ v.kind = "text" /\ x.kind = "text" /\ v.parts = x.parts
            \/ v.kind = "number" /\ x.kind = "number" /\ Worth[v.numeral] = Worth[x.numeral]

\* _contains, _startswith, _endswith on the folded texts.
BothPresent(v, x) == ~Missing(v) /\ ~Missing(x)
ContainsText(v, x) == BothPresent(v, x) /\ x.parts \in SubSeqs(v.parts)
EndsWith(v, x) == BothPresent(v, x) /\ IsSuffix(x.parts, v.parts)

\* _startswith with its arguments the wrong way round.
StartsWith_Swapped(v, x) == BothPresent(v, x) /\ IsPrefix(v.parts, x.parts)

StartsWith(v, x) == BothPresent(v, x) /\ IsPrefix(x.parts, v.parts)

\* _compare, and the comparisons it is given.
Ordering(operator, a, b) == \/ operator = "gt" /\ a > b
                            \/ operator = "gte" /\ a >= b
                            \/ operator = "lt" /\ a < b
                            \/ operator = "lte" /\ a <= b
Compare(operator, v, x) ==
    BothPresent(v, x) /\ \E a \in Float(v), b \in Float(x) : Ordering(operator, a, b)

\* _in_list: a value that is no list is a list of one.
InList(v, x) ==
    /\ ~Missing(v)
    /\ \E item \in (IF x.kind = "list" THEN Range(x.items) ELSE {x}) : item.parts = v.parts

\* _regex with a literal pattern: case-sensitive, on str(v); a pattern that is
\* no text raises TypeError.
Regex(v, x) ==
    /\ ~Missing(v) /\ x.kind = "text" /\ x # BadPattern
    /\ x.parts \in SubSeqs(v.parts) /\ x.capitals = v.capitals

\* The value of a field: None when the event has no such field.
FieldValue(event, field) == IF field \in DOMAIN event THEN event[field] ELSE None

\* _evaluar_condicion once field, operator and value are read.
Holds(operator, v, x) ==
    CASE operator = "eq"                           -> Eq(v, x)
      [] operator \in {"neq", "not"}               -> ~Eq(v, x)
      [] operator = "contains"                     -> ContainsText(v, x)
      [] operator \in {"gt", "gte", "lt", "lte"}   -> Compare(operator, v, x)
      [] operator = "in"                           -> InList(v, x)
      [] operator = "regex"                        -> Regex(v, x)
      [] operator = "exists"                       -> ~Missing(v)
      [] operator = "not_exists"                   -> Missing(v)
      [] operator = "startswith"                   -> StartsWith(v, x)
      [] operator = "endswith"                     -> EndsWith(v, x)
      [] OTHER                                     -> FALSE

Verdict(b) == IF b THEN "match" ELSE "no"

\* Reading the field or the value of a condition raises what nothing catches: a
\* field that is no text, a number float() cannot hold.  (The number of an event's
\* field is a port.)
Raises(c, v) ==
    \/ c.field = NoText
    \/ /\ c.operator \in {"gt", "gte", "lt", "lte"} /\ BothPresent(v, c.value)
       /\ Float(v) # {} /\ TooLarge(c.value)

\* _evaluar_condicion.  A group that arrives here is read as a condition without
\* field and value; what has no get() raises AttributeError outside the try.
EvaluateCondition(c, event) ==
    CASE c.kind = "leaf" /\ ~Raises(c, FieldValue(event, c.field)) ->
             Verdict(Holds(c.operator, FieldValue(event, c.field), c.value))
      [] c.kind = "group" -> Verdict(Holds(c.operator, None, None))
      [] OTHER            -> "raises"

-----------------------------------------------------------------------------
(* Groups. *)

\* str(operator).lower()
Lower(operator) ==
    CASE operator \in {"and", "And", "aNd", "anD", "ANd", "AnD", "aND", "AND"} -> "and"
      [] operator \in {"or", "Or", "oR", "OR"}                                 -> "or"
      [] operator \in {"not", "Not", "nOt", "noT", "NOt", "NoT", "nOT", "NOT"} -> "not"
      [] OTHER                                                                 -> operator

\* all() and any() look at verdicts in order and stop at the first that decides.
First(verdicts, S) == verdicts[Min({ i \in DOMAIN verdicts : verdicts[i] \in S })]

AllOf(verdicts) ==
    IF Range(verdicts) \subseteq {"match"} THEN "match" ELSE First(verdicts, {"no", "raises"})

\* any() that goes on to the last verdict.
AnyOf_Last(verdicts) == IF verdicts = <<>> THEN "no" ELSE verdicts[Len(verdicts)]

AnyOf(verdicts) ==
    IF Range(verdicts) \subseteq {"no"} THEN "no" ELSE First(verdicts, {"match", "raises"})

\* The branch "not" of _evaluar_grupo.
Not(verdicts) ==
    IF verdicts = <<>> THEN "match"
    ELSE CASE Head(verdicts) = "match" -> "no"
           [] Head(verdicts) = "no"    -> "match"
           [] OTHER                    -> "raises"

\* _evaluar_grupo: the verdicts of the conditions of group g.
EvaluateGroup(g, verdicts) ==
    CASE Lower(g.operator) = "and" -> AllOf(verdicts)
      [] Lower(g.operator) = "or"  -> AnyOf(verdicts)
      [] Lower(g.operator) = "not" -> Not(verdicts)
      [] OTHER                     -> "no"

\* _evaluar_regla: only "and" and "or" lead to _evaluar_grupo, which comes back
\* here for every condition of the group.  A leaf with such an operator is a group
\* without conditions.
EvaluateRule(c, event) ==
    LET evaluate[d \in JsonConditions] ==
            CASE d.kind = "group" /\ Lower(d.operator) \in {"and", "or"} ->
                     EvaluateGroup(d, [i \in DOMAIN d.conditions |-> evaluate[d.conditions[i]]])
              [] d.kind = "leaf" /\ Lower(d.operator) \in {"and", "or"} -> EvaluateGroup(d, <<>>)
              [] d.kind = "list" ->
                     AllOf([i \in DOMAIN d.conditions |-> EvaluateCondition(d.conditions[i], event)])
              [] OTHER -> EvaluateCondition(d, event)
    IN  evaluate[c]

-----------------------------------------------------------------------------
(* What conditions mean, as docs/fase-03-motor-de-correlacion.md:95-104     *)
(* says: AND needs every condition, OR at least one, NOT negates, and the   *)
(* spelling of the operator does not matter.                                *)

\* A single condition on a field, as the documentation has them.
Simple(d) == /\ d.kind = "leaf" /\ d.field # NoText
             /\ Lower(d.operator) \notin {"and", "or"} /\ ~TooLarge(d.value)

\* Conditions made of single ones, lists of such, and groups of such conditions
\* whose operators are among those given.
MadeOf(c, operators) ==
    LET made[d \in JsonConditions] ==
            \/ Simple(d)
            \/ d.kind = "list" /\ \A i \in DOMAIN d.conditions : Simple(d.conditions[i])
            \/ /\ d.kind = "group" /\ Lower(d.operator) \in operators
               /\ Lower(d.operator) = "not" => Len(d.conditions) = 1
               /\ \A i \in DOMAIN d.conditions : made[d.conditions[i]]
    IN  made[c]

WellFormed(c) == MadeOf(c, {"and", "or", "not"})

\* Conditions made of single ones and of AND and OR groups.
Plain(c) == MadeOf(c, {"and", "or"})

Means(c, event) ==
    LET means[d \in JsonConditions] ==
            \/ d.kind = "leaf" /\ Holds(d.operator, FieldValue(event, d.field), d.value)
            \/ /\ d.kind = "list" \/ (d.kind = "group" /\ Lower(d.operator) = "and")
               /\ \A i \in DOMAIN d.conditions : means[d.conditions[i]]
            \/ /\ d.kind = "group" /\ Lower(d.operator) = "or"
               /\ \E i \in DOMAIN d.conditions : means[d.conditions[i]]
            \/ /\ d.kind = "group" /\ Lower(d.operator) = "not"
               /\ \E i \in DOMAIN d.conditions : ~means[d.conditions[i]]
    IN  means[c]

\* The operators fit together on the value v of a field and the value x of a
\* condition: equal texts are members of each other and the other way round,
\* members are contained and prefixes and suffixes of each other, prefixes and
\* suffixes are contained, of two numbers one is less, equal or greater however
\* they are written, and a field the event does not have satisfies nothing but
\* "neq", "not" and "not_exists".  Equal numbers need be no members: 22.0 is not
\* written like 22.
FitOn(v, x) ==
    LET On(operator) == Holds(operator, v, x)
    IN  /\ (v.kind = "text" /\ x.kind = "text") => (On("eq") <=> On("in"))
        /\ On("in") /\ ~Missing(x) => On("contains") /\ On("startswith") /\ On("endswith")
        /\ On("startswith") \/ On("endswith") => On("contains")
        /\ On("regex") => On("contains")
        /\ ~(On("lt") /\ On("gte")) /\ ~(On("gt") /\ On("lte"))
        /\ (v.kind = "number" /\ x.kind = "number") =>
               On("lt") # On("gte") /\ On("gt") # On("lte") /\ (On("gte") /\ On("lte") <=> On("eq"))
        /\ Missing(v) => \A operator \in {"eq", "contains", "gt", "gte", "lt", "lte", "in", "regex",
                                          "exists", "startswith", "endswith"} : ~On(operator)
=============================================================================
