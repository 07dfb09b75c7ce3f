------------------------------- MODULE MCLint -------------------------------
EXTENDS Lint

MCNames == STRING

MCValues == {"A", "B", "anon", "t", "stranger"}
MCAuthFunctions == {"auth.uid", "auth.role", "setting", "setting_plain", "user_claim"}
MCIdentityColumns == {"tenant_id", "owner_id"}
MCDdlTables == {"docs", "part"}
MCJsonPaths == [user_claim |-> <<"user_metadata", "tenant">>]

Tenant == One(Eq(Col("tenant_id"), Select("setting")))
Signed == One(NotNull(Select("auth.uid")))
Public_ == One(Holds(Col("is_public")))
Strict == One(Eq(Col("tenant_id"), Select("require_tenant")))
Anybody == One(IsNull(Call("auth.uid")))
RoleIs(r) == One(Eq(Call("auth.role"), Lit(r)))

Policy(cmd, permissive, roles, using, check) ==
    [cmd |-> cmd, permissive |-> permissive, roles |-> roles, using |-> using, check |-> check]
Users == {"authenticated"}
MCPolicies == [p |-> {
    Policy("ALL", TRUE, Users, Tenant, Absent),
    Policy("ALL", TRUE, {Public}, Tenant \cup Anybody, Tenant),
    Policy("SELECT", TRUE, {"anon"}, One(Yes), Absent),
    Policy("SELECT", TRUE, {Public}, Signed, Absent),
    Policy("SELECT", TRUE, Users, Tenant \cup RoleIs("authenticated"), Absent),
    Policy("SELECT", TRUE, {"anon"}, Public_ \cup One(Yes), Absent),
    Policy("INSERT", TRUE, Users, Absent, Signed),
    Policy("ALL", TRUE, Users, Tenant, One(Yes))},
  q |-> {
    Policy("ALL", FALSE, {Public}, Tenant, Absent),
    Policy("SELECT", TRUE, {"anon"}, Public_ \cup RoleIs("anon"), Absent),
    Policy("SELECT", TRUE, {Public}, Public_, Absent),
    Policy("INSERT", TRUE, {"anon"}, Absent, Tenant)}]

Select_(role) == [role |-> role, priv |-> "SELECT"]
Insert_(role) == [role |-> role, priv |-> "INSERT"]
MCGrants == {Select_("anon"), Select_("authenticated"), Insert_("authenticated")}
MCPolicyNames == <<"claim", "floor", "isolation", "lies", "like", "literal", "loose", "mail", "open", "other", "p",
                   "plain", "q", "raising", "strict", "todo", "twin", "unknown", "users", "zrole">>
MCRoleSets == {{"anon"}, {Public}}

View(mat, invoker, from, where) ==
    [schema |-> "public", mat |-> mat, invoker |-> invoker, barrier |-> invoker, from |-> from,
     where |-> where, grants |-> {Select_("anon")}, calls |-> {}]
MCViews == [v |-> {View(FALSE, FALSE, {"docs"}, One(Yes)), View(TRUE, TRUE, {"docs"}, One(Yes)),
                   View(FALSE, TRUE, {"docs"}, One(Yes)), View(FALSE, FALSE, {"docs"}, Tenant)},
            w |-> {View(FALSE, FALSE, {"v"}, One(Yes)), View(FALSE, TRUE, {"v"}, One(Yes))}]
MCFns == [f |-> [bypass |-> TRUE, execute |-> {"authenticated"}, path |-> <<"public", "pg_temp">>,
                 language |-> "sql", reads |-> {"docs"}]]

Table ==
    [schema |-> "public", rls |-> FALSE, force |-> FALSE, partitionOf |-> "", inherits |-> {},
     columns |-> {"tenant_id", "is_public"}, nullable |-> {}, uuid |-> {}, indexes |-> {},
     triggers |-> {}, fks |-> {}, pubs |-> {}, grants |-> {}, colgrants |-> {}, policies |-> <<>>]
Served == [Table EXCEPT !.grants = {Select_("anon"), Select_("authenticated"), Insert_("authenticated")}]
Db(tables) ==
    [tables |-> tables, views |-> <<>>, fns |-> <<>>, immutable |-> <<>>,
     leakproof |-> {}, bypass |-> {}, escalations |-> {}, reachers |-> {}, defaults |-> {},
     foreign |-> <<>>]

\* What the other rules look for, in one database.
Misc == [Table EXCEPT !.columns = @ \cup {"email"}, !.rls = TRUE, !.force = TRUE, !.policies =
    [todo    |-> Policy("SELECT", TRUE, Users, One(No), Absent),
     twin    |-> Policy("SELECT", TRUE, Users, One(No), Absent),
     zrole   |-> Policy("SELECT", TRUE, Users, One(Eq(Col("tenant_id"), Call("current_user"))), Absent),
     strict  |-> Policy("SELECT", TRUE, Users, One(Eq(Col("tenant_id"), Call("setting_strict"))), Absent),
     literal |-> Policy("SELECT", TRUE, {"bypasser"}, One(Eq(Col("tenant_id"), Lit("A"))), Absent),
     plain   |-> Policy("UPDATE", TRUE, Users, One(Yes), One(Yes)),
     other   |-> Policy("SELECT", TRUE, Users, One(Exists("docs", Call("auth.uid"))), Absent),
     users   |-> Policy("SELECT", TRUE, Users, One(Exists("users", None)), Absent),
     like    |-> Policy("SELECT", TRUE, Users, One(Like(Col("tenant_id"), Call("setting_plain"))), Absent),
     floor   |-> Policy("ALL", FALSE, Users, One(Yes), Absent),
     claim   |-> Policy("SELECT", TRUE, Users, One(Eq(Col("tenant_id"), Call("user_claim"))), Absent),
     mail    |-> Policy("SELECT", TRUE, Users, One(Eq(Wrap("email"), Call("auth.email"))), Absent),
     unknown |-> Policy("SELECT", TRUE, Users, RoleIs("editor"), Absent),
     loose   |-> Policy("ALL", TRUE, Users, Tenant, One(NotNull(Col("is_public")))),
     lies    |-> Policy("ALL", TRUE, Users, One(Eq(Col("tenant_id"), Call("member"))), One(Eq(Col("tenant_id"), Call("random")))),
     raising |-> Policy("SELECT", TRUE, Users, Strict, Absent),
     open    |-> Policy("UPDATE", TRUE, Users, Tenant, One(Yes))],
  !.indexes = {[name |-> "misc_email", columns |-> <<"email">>, unique |-> FALSE, primary |-> FALSE]}]
Exotic == [Db([
    docs |-> Served, part |-> Table, misc |-> Misc,
    child |-> [Served EXCEPT !.columns = @ \cup {"owner_id", "email"}, !.nullable = {"tenant_id", "owner_id"},
                  !.indexes = {[name |-> "child_email", columns |-> <<"email">>, unique |-> TRUE, primary |-> FALSE]},
                  !.triggers = {[name |-> "audit", enabled |-> TRUE], [name |-> "old", enabled |-> FALSE]},
                  !.fks = {[name |-> "child_misc", ref |-> "misc"], [name |-> "child_users", ref |-> "users"]},
                  !.grants = @ \cup {Insert_("anon")},
                  !.colgrants = {[role |-> "anon", priv |-> "SELECT", column |-> "email"]}],
    users |-> [Table EXCEPT !.schema = "auth", !.columns = {"email"}, !.pubs = {"supabase_realtime"}],
    objects |-> [Table EXCEPT !.schema = "storage", !.columns = {"bucket_id"}, !.rls = TRUE,
                    !.policies = [own |-> Policy("SELECT", TRUE, Users, Signed, Absent)]]])
  EXCEPT !.views = [people |-> [View(FALSE, FALSE, {"users", "misc"}, One(Yes)) EXCEPT !.calls = {"f"}],
                    cached |-> View(TRUE, FALSE, {"misc"}, One(Yes))],
         !.fns = [f |-> [bypass |-> TRUE, execute |-> {Public}, path |-> <<>>, language |-> "sql",
                         reads |-> {"misc"}]],
         !.immutable = [member |-> [language |-> "sql", session |-> TRUE, reads |-> {}]],
         !.leakproof = {"peek"}, !.bypass = {[name |-> "bypasser", super |-> FALSE]},
         !.escalations = {[member |-> "authenticator", via |-> {"bypasser"}]}, !.reachers = {[member |-> "app", via |-> {"owner"}]},
         !.defaults = {[schema |-> "public", role |-> Public, priv |-> "SELECT"]},
         !.foreign = [remote |-> [schema |-> "public", grants |-> {Select_("anon")}]]]
Row(t, p) == [tenant_id |-> t, is_public |-> p]
Owned(t, o) == [tenant_id |-> t, is_public |-> "f", owner_id |-> o]
MCRows == [t \in {"docs", "part", "child", "misc", "users", "objects"} |->
    IF t = "child" THEN {Owned("A", "A"), Owned("B", "B"), Owned(Null, Null)}
    ELSE IF t \in {"docs", "part"} THEN {Row("A", "f"), Row("B", "f"), Row("B", "t")} ELSE {}]
Config == [only |-> {}, disable |-> {}, exclude |-> {}, override |-> <<>>, allow |-> {},
           trusted |-> {}, coverage |-> {}, pressure |-> {}, failOn |-> "warning", versions |-> {}]
Docs(on, partition) ==
    Db([docs |-> [Served EXCEPT !.rls = on],
        part |-> [Table EXCEPT !.partitionOf = IF partition THEN "docs" ELSE "",
                               !.inherits = IF partition THEN {} ELSE {"docs"}]])
Start(database, cfg, e, n) == [db |-> database, config |-> cfg, edits |-> e, steps |-> n]
MCStarts ==
    {Start(Docs(FALSE, partition), Config, 1, 3) : partition \in BOOLEAN}
    \cup {Start(Docs(TRUE, TRUE), Config, 2, 3),
          Start([Docs(TRUE, TRUE) EXCEPT !.tables["docs"].policies =
                    [open |-> Policy("SELECT", TRUE, {Public}, Signed, Absent)]], Config, 1, 5),
          Start(Docs(TRUE, TRUE), [Config EXCEPT !.versions = {7, 8, 14, 15, 27}], 1, 2),
          Start(Exotic, [Config EXCEPT !.versions = Versions], 0, 2),
          Start(Exotic, [Config EXCEPT
              !.only = ReadRules \cup WriteRules \cup {"SEC013"}, !.disable = {"SEC001"},
              !.exclude = {"SEC013"}, !.override = [SEC004 |-> "error"],
              !.trusted = {"member", "owner"}, !.pressure = {"docs"},
              !.coverage = {[role |-> "anon", command |-> "SELECT", table |-> "docs"]}], 1, 3)}
Option == [column |-> "tenant_id", strict |-> FALSE, supabase |-> FALSE, restrictive |-> TRUE]
MCOptions == {Option, [Option EXCEPT !.strict = TRUE], [Option EXCEPT !.restrictive = FALSE],
              [Option EXCEPT !.supabase = TRUE, !.column = "owner_id"]}
===============================================================================
