---------------------------- MODULE MCPolicyDiff ----------------------------
EXTENDS PolicyDiff, TLC

a == Pos("own")
k == Pos("y1")
j == Pos("y2")
\* own | y1 | y2 | own AND y1 | own OR y1 | (own AND y1) OR (own AND y2) |
\* own AND (y1 OR y2) | y1 AND NOT y2 | NOT own | own OR member |
\* own OR y IS NULL | true | y2 OR NOT y2
MCClauses ==
    {And2({{a}}), And2({{k}}), And2({{a}, {k}}), And2({{a, k}}),
     Or2({{a, k}, {a, j}}), And2({{a}, {k, j}}), And2({{k}, {Neg("y2")}}),
     And2({{a, Pos("member")}}), And2({{a, Pos("ynull")}}),
     And2({{Pos("true")}}), And2({{j, Neg("y2")}})}
Policy(cmd, permissive, roles, using, check) ==
    [cmd |-> cmd, permissive |-> permissive, roles |-> roles, using |-> using, check |-> check]
CONSTANTS alice, bob
MCPolicies ==
    {Policy("ALL", TRUE, {alice}, And2({{a}}), Absent),
     Policy("SELECT", TRUE, {Public}, And2({{a, k}}), Absent),
     Policy("UPDATE", FALSE, {alice, bob}, And2({{k}}), And2({{a}}))}
Table(pol, grants) ==
    [rls |-> TRUE, force |-> TRUE, pol |-> pol, grants |-> grants, hasY |-> TRUE]
Pair(e, permissive) ==
    Table(1 :> Policy("ALL", TRUE, {alice}, e, Absent)
            @@ 2 :> Policy("SELECT", permissive, {alice, bob}, And2({{Pos("true")}}), Absent),
          {<<Public, "SELECT">>, <<alice, "UPDATE">>})
MCBases ==
    {Pair(e, FALSE) : e \in MCClauses} \cup {Pair(And2({{a}}), TRUE)}
    \cup {[Table(1 :> Policy("UPDATE", FALSE, {Public}, And2({{a}, {k}}), And2({{a, k}}))
             @@ 2 :> Policy("ALL", TRUE, {Public}, And2({{a, k}}), Absent),
                 {<<Public, v>> : v \in Privileges}) EXCEPT !.rls = b] : b \in BOOLEAN}
=============================================================================
