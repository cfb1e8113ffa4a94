----------------------------- MODULE MCPipeline -----------------------------
(***************************************************************************)
(* Pipeline with the conditions of the engine.  The workloads are of two   *)
(* kinds: two tasks at once with rules that match, do not match and raise, *)
(* and one datagram against one rule, for every event and every shape of   *)
(* conditions below.                                                       *)
(*                                                                         *)
(* The module declares a RECURSIVE operator and holds no theorem.          *)
(***************************************************************************)
EXTENDS Pipeline

CONSTANTS t1, t2

\* 1 is also True, and 2 is written in three ways, one of them in texts only;
\* "huge" stands for an integer no float holds.
Numbers == [n \in {"1", "true", "2", "2.0", "+2", "3", "huge"} |->
               CASE n \in {"1", "true"} -> 1 [] n = "3" -> 3 [] n = "huge" -> 99 [] OTHER -> 2]
NumberTexts == DOMAIN Numbers
Spelled == [n \in NumberTexts |->
               CASE n = "2.0" -> <<"2", ".0">> [] n = "+2" -> <<"+", "2">> [] OTHER -> <<n>>]
FloatTexts == NumberTexts \ {"true"}
Huge == {"huge"}

\* Notifiers: the console (from "low" on) and one for "high" and above.
Notifiers == <<2, 4>>

root == <<"ro", "ot">>
Login == [user |-> Shout(root), port |-> Number("2")]
Probe == [user |-> Text(<<"2">>), port |-> Number("1")]
Quiet == [user |-> None, port |-> Number("3")]
Named == [user |-> Text(<<"ro">>), port |-> None]
Contents == <<Login, Probe, Quiet, Named>>

IsRoot == Leaf("user", "eq", Text(root))
AnyUser == Leaf("user", "exists", None)
HighPort == Leaf("port", "gte", Number("2"))

\* Conditions on one field with one value, one for each operator.
Each(field, operators, value) ==
    [i \in DOMAIN operators |-> Leaf(field, operators[i], value)]

Leaves ==
    Each("user", <<"eq", "neq", "not", "contains", "in", "regex", "gt">>, Text(root))
    \o Each("user", <<"startswith", "endswith", "contains">>, Text(<<"ro">>))
    \o Each("port", <<"eq", "gt", "gte", "lt", "lte", "in", "xor">>, Number("2"))
    \o Each("port", <<"eq", "lte", "in", "startswith", "contains">>, Number("2.0"))
    \o Each("port", <<"eq", "gte">>, Number("true"))
    \o Each("port", <<"AND", "oR", "gte">>, Number("huge"))
    \o <<Leaf("port", "gte", Text(<<"+", "2">>)), Leaf(NoText, "eq", Number("1")),
         Leaf("user", "gte", Number("2")), Leaf("user", "in", Values(<<Number("2"), None>>)),
         Leaf("user", "contains", Values(<<None>>)), Leaf("user", "lt", Number("huge")),
         Leaf("user", "regex", BadPattern), Leaf("port", "eq", Text(<<"2">>)),
         Leaf("user", "not_exists", None), AnyUser, Leaf("nowhere", "neq", Text(root))>>

Lists == <<
    <<>>, <<IsRoot>>, <<IsRoot, HighPort>>, <<HighPort, IsRoot>>,
    <<List(<<AnyUser, HighPort>>), IsRoot>>,
    <<Group("OR", <<IsRoot, Leaf("user", "not_exists", None)>>), HighPort>>,
    <<IsRoot, Group("and", <<AnyUser, HighPort>>)>> >>

Groups == [i \in DOMAIN Lists |-> Group("AND", Lists[i])]
          \o [i \in DOMAIN Lists |-> Group("or", Lists[i])]

\* Shapes nobody refuses: junk, a group inside a list, an unknown operator.
Malformed == <<
    Group("or", <<IsRoot, Junk>>), Group("and", <<IsRoot, Junk>>),
    Group("and", <<List(<<AnyUser, Group("or", <<AnyUser>>)>>)>>), Group("xor", <<IsRoot>>) >>

NotGroups == <<
    Group("not", <<IsRoot>>), Group("NOT", <<IsRoot>>),
    Group("AND", <<AnyUser, Group("not", <<IsRoot>>)>>) >>

Rule(conditions, level) == [conditions |-> conditions, level |-> level]

\* A rule that matches roots, one that raises for everybody else, and one that
\* matches high ports.
Broken == <<Rule(IsRoot, 5), Rule(Group("or", <<IsRoot, Junk>>), 1), Rule(HighPort, 2)>>

Two(rules, analysing, via1, events1, via2, events2) ==
    [rules |-> rules, analysing |-> analysing,
     via |-> [t \in {t1, t2} |-> IF t = t1 THEN via1 ELSE via2],
     events |-> [t \in {t1, t2} |-> IF t = t1 THEN events1 ELSE events2]]

Busy == <<
    Two(Broken, FALSE, "rest", <<Probe>>, "batch", <<Quiet, Login>>),
    Two(<<Rule(HighPort, 4)>>, FALSE, "udp", <<Login>>, "batch", <<Login, Probe>>),
    Two(<<Rule(IsRoot, 1)>>, TRUE, "rest", <<Login>>, "udp", <<Probe>>) >>

\* Every one of the conditions with every event: one datagram against one rule,
\* next to a datagram nobody can parse.
Singles(list) ==
    [n \in 1..(Len(list) * Len(Contents)) |->
        Two(<<Rule(list[((n - 1) \div Len(Contents)) + 1], 2)>>, FALSE,
            "udp", <<Contents[((n - 1) % Len(Contents)) + 1]>>, "udp", <<Unparsable>>)]

AllWorkloads == Busy \o Singles(Leaves \o Groups \o Malformed)

NotWorkloads == Singles(NotGroups)

-----------------------------------------------------------------------------
Inside(c) == IF c.kind \in {"group", "list"} THEN Range(c.conditions) ELSE {}

RECURSIVE Depth(_)
Depth(c) == 1 + Max({0} \cup { Depth(d) : d \in Inside(c) })

\* Every condition above with what is inside it, at most three levels deep.
RuleConditions == UNION { Range([k \in DOMAIN w.rules |-> w.rules[k].conditions]) :
                            w \in Range(AllWorkloads \o NotWorkloads) }
WithInside(S) == S \cup UNION { Inside(c) : c \in S }
Closed == WithInside(WithInside(WithInside(RuleConditions)))
Depths == [c \in Closed |-> Depth(c)]

\* TLC evaluates Closed and Depths once, but what a cfg substitutes for a constant
\* at every use.
AllConditions == Closed
DepthOf == Depths
=============================================================================
