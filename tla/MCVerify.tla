------------------------------ MODULE MCVerify ------------------------------
EXTENDS Verify

own == Eq(Col("tenant_id"), Call("setting"))
uid == Eq(Col("user_id"), Select("auth.uid"))
strict == Eq(Col("tenant_id"), Call("setting_strict"))
pub == Holds(Col("is_public"))
\* The clauses of the policies a migration may create.
A0 == One(Yes)
A1 == One(own)
A2 == One(uid)
A3 == {{own}, {IsNull(Call("auth.uid"))}}
A4 == {{uid}, {Eq(Call("auth.role"), Lit("anon"))}}
A5 == {{own, pub}, {Eq(Col("tenant_id"), Select("auth.uid"))}}
A6 == One(Exists("members", Call("auth.uid")))
A7 == {{strict}, {NotNull(Call("setting_strict")), pub}}
A8 == One(Eq(Col("tenant_id"), Coalesce("setting")))
A9 == {{own}, {pub, Eq(Call("auth.role"), Lit("authenticated"))}}
A10 == One(Ne(Col("tenant_id"), Call("setting")))
A11 == One(Eq(Wrap("tenant_id"), WrapCall("setting")))
A12 == {{own}, {IsNull(Col("tenant_id"))}}
A13 == {{own}, {IsNull(Call("setting"))}}
A14 == {{own}, {Yes}}

P(cmd, permissive, roles, using, check) ==
    [cmd |-> cmd, permissive |-> permissive, roles |-> roles, using |-> using, check |-> check]
Pub == {"PUBLIC"}
MCPolicies ==
    {P("SELECT", TRUE, Pub, c, Absent) : c \in {A0, A2, A3, A4, A6, A7, A8, A9, A10, A11, A12, A13, A14}}
    \cup {P("ALL", TRUE, Pub, A1, Absent), P("ALL", TRUE, {"authenticated"}, A5, A1),
          P("SELECT", TRUE, {"authenticated"}, A2, Absent),
          P("SELECT", TRUE, {"staff"}, A0, Absent), P("INSERT", TRUE, Pub, Absent, A0),
          P("UPDATE", TRUE, Pub, A1, A0), P("DELETE", TRUE, Pub, A3, Absent),
          P("ALL", FALSE, Pub, A1, Absent), P("SELECT", FALSE, {"staff"}, A1, Absent),
          P("INSERT", FALSE, Pub, Absent, A1),
          P("UPDATE", TRUE, Pub, A0, A1), P("UPDATE", FALSE, Pub, Absent, A1)}
E(m, r, i) == [member |-> m, role |-> r, inherit |-> i]
MCEdges == {E("authenticator", "anon", FALSE), E("anon", "staff", TRUE), E("anon", "staff", FALSE),
            E("staff", "app", TRUE), E("reporter", "app", TRUE), E("authenticated", "app", FALSE)}
V(owner, invoker, mat, ref, grants) ==
    [owner |-> owner, invoker |-> invoker, mat |-> mat, ref |-> ref, grants |-> grants]
MCViews == {V("app", FALSE, FALSE, "docs", {"anon"}), V("app", TRUE, FALSE, "docs", {"anon"}),
            V("reporter", FALSE, FALSE, "docs", {"staff"}), V("admin", FALSE, FALSE, "docs", {"reporter"}),
            V("reporter", FALSE, FALSE, "inner", {"anon"}), V("app", TRUE, FALSE, "inner", {"anon"}),
            V("app", FALSE, TRUE, "docs", {"reporter"}), V("reporter", TRUE, FALSE, "docs", {"reporter"})}
F(owner, execute, body) == [owner |-> owner, execute |-> execute, body |-> body]
MCBodies == {F("app", Pub, "reads"), F("reporter", Pub, "reads"), F("reporter", {"anon"}, "sets"),
             F("app", {"staff"}, "calls"), F("reporter", Pub, "opaque")}
MCRoles == {"anon", "authenticated", "authenticator", "staff", "app", "reporter", "admin"}
NoGucs == [r \in MCRoles \cup {"ALL"} |-> NotSet]
NoViews == [x \in {} |-> {}]
DB(force, graph, pol, grants, edges) ==
    [rls |-> TRUE, force |-> force, owner |-> "app", pol |-> pol, grants |-> grants,
     edges |-> edges, graph |-> graph, guc |-> NoGucs, views |-> NoViews, fns |-> {}]
One1(p) == [n \in {1} |-> p]
MCBases ==
    {DB(FALSE, TRUE, One1(P("ALL", TRUE, Pub, A1, Absent)), Pub, {E("authenticator", "anon", FALSE)}),
     DB(TRUE, TRUE, [n \in {1, 2} |-> IF n = 1 THEN P("SELECT", TRUE, {"authenticated"}, A2, Absent)
                                          ELSE P("SELECT", FALSE, {"staff"}, A1, Absent)],
        {"anon", "reporter"}, {}),
     DB(TRUE, FALSE, One1(P("ALL", TRUE, Pub, A1, Absent)), {"anon", "reporter"},
        {E("reporter", "app", TRUE)}),
     DB(FALSE, TRUE, One1(P("UPDATE", FALSE, Pub, Absent, A1)), Pub, {})}
===============================================================================
