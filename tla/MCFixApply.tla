------------------------------ MODULE MCFixApply ------------------------------
(* Small tables for TLC.                                                     *)
EXTENDS FixApply

MCRows == {[mine |-> m, public |-> p] : m, p \in BOOLEAN}
T(test) == [test |-> test, wrapped |-> FALSE, missingOk |-> FALSE]
Done(test) == [test |-> test, wrapped |-> TRUE, missingOk |-> TRUE]
One(a) == <<<<a>>>>
Any(a, b) == <<<<a, b>>>>
P(cmd, permissive, using, check) ==
    [cmd |-> cmd, permissive |-> permissive, using |-> using, check |-> check]
Of(pol) == [rls |-> TRUE, force |-> TRUE, pol |-> pol]

\* Every shape a fixer looks for, and what it makes of it.
Shapes == {One(T("true")), One(T("false")), One(T("own")), One(Done("own")), One(T("noauth")),
           Any(T("own"), T("true")), Any(T("own"), T("noauth")), Any(T("true"), T("true")),
           <<<<T("own"), T("noauth"), T("true")>>>>,
           <<<<T("own")>>, <<T("public"), T("true")>>>>}
Usable(p) == /\ \A c \in Clauses : Takes(p.cmd, c) \/ p[c] = Absent
             /\ Takes(p.cmd, "using") => p.using # Absent
AllPolicies == {p \in [cmd : Commands, permissive : BOOLEAN, using : Shapes \cup {Absent},
                       check : Shapes \cup {Absent}] : Usable(p)}
Single == {[rls |-> rls, force |-> FALSE, pol |-> [n \in {1} |-> p]] :
               rls \in BOOLEAN, p \in AllPolicies}
          \cup {[rls |-> FALSE, force |-> FALSE, pol |-> [n \in {} |-> Absent]]}

\* Two policies: duplicates, siblings that see public rows, floors, no-ops.
Some == {P("SELECT", TRUE, <<<<Done("own"), T("noauth"), T("true")>>>>, Absent),
         P("ALL", TRUE, Any(T("own"), T("noauth")), Any(T("own"), T("true"))),
         P("ALL", TRUE, Any(T("own"), T("true")), One(T("true"))),
         P("ALL", TRUE, One(T("own")), Absent),
         P("ALL", TRUE, One(T("false")), One(T("true"))),
         P("ALL", TRUE, One(T("false")), One(T("false"))),
         P("UPDATE", TRUE, One(T("false")), One(T("true"))),
         P("SELECT", TRUE, One(T("public")), Absent),
         P("ALL", FALSE, One(T("true")), One(T("public"))),
         P("ALL", FALSE, One(T("true")), Absent),
         P("ALL", FALSE, One(T("own")), One(T("true")))}
Two(p, q) == Of([n \in {1, 2} |-> IF n = 1 THEN p ELSE q])
Pairs == {Two(p, q) : p, q \in Some}
Floors == {P("ALL", TRUE, Any(T("own"), T("true")), One(T("true"))),
           P("UPDATE", TRUE, One(T("false")), One(T("true")))}
Lone == Single \cup Pairs
        \cup {Two(p, q) : p \in Floors, q \in {r \in AllPolicies : ~r.permissive}}

NoPolicies == {}
AllRules == {Rules}
Closed == {P("ALL", TRUE, One(T("false")), Absent)}
===============================================================================
