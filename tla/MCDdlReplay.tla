----------------------------- MODULE MCDdlReplay -----------------------------
EXTENDS DdlReplay

MCNames == STRING

MCValues == {"A", "B", "anon", "t"}
MCAuthFunctions == {"auth.uid", "auth.role", "setting", "setting_plain"}
MCPolicyNames == <<"p", "q">>
MCJsonPaths == <<>>

Policy(cmd, roles, using, check) ==
    [cmd |-> cmd, permissive |-> TRUE, roles |-> roles, using |-> using, check |-> check]
Tenant == One(Eq(Col("tenant_id"), Select("setting")))
Mine == Policy("ALL", {"authenticated"}, Tenant, Absent)

Column(n, con) == [name |-> n, con |-> con, noinh |-> FALSE, pk |-> FALSE]
TenantId == Column("tenant_id", <<>>)
Create(t, columns) == [op |-> "create", t |-> t, columns |-> columns, parents |-> <<>>,
                       partition |-> FALSE, ifNotExists |-> FALSE]
Child(t, parents, partition) == [Create(t, {}) EXCEPT !.parents = parents, !.partition = partition]
CreateAs(t) == [op |-> "createAs", t |-> t, names |-> {"tenant_id"}]
DropT(t) == [op |-> "drop", t |-> t]
Rename(t, u) == [op |-> "rename", t |-> t, to |-> u]
Rls(t, on) == [op |-> "rls", t |-> t, on |-> on]
Force(t, on) == [op |-> "force", t |-> t, on |-> on]
CreateP(t, n, p) == [op |-> "createPolicy", t |-> t, name |-> n, policy |-> p]
AlterP(t, n, sets) == [op |-> "alterPolicy", t |-> t, name |-> n, sets |-> sets]
DropP(t, n) == [op |-> "dropPolicy", t |-> t, name |-> n]
RenameP(t, n, u) == [op |-> "renamePolicy", t |-> t, name |-> n, to |-> u]
To(role, priv) == [role |-> role, priv |-> priv]
GrantT(t, role, priv) == [op |-> "grant", t |-> t, grants |-> {To(role, priv)}, colgrants |-> {}]
GrantC(t, role, priv, c) ==
    [op |-> "grant", t |-> t, grants |-> {},
     colgrants |-> {[role |-> role, priv |-> priv, column |-> c]}]
RevokeT(t, role, priv) == [op |-> "revoke", t |-> t, grants |-> {To(role, priv)}]
On(op, t, x) == [op |-> op, t |-> t, column |-> x]

Lives == {Create("docs", {TenantId}), [Create("docs", {TenantId}) EXCEPT !.ifNotExists = TRUE],
          CreateAs("docs"), DropT("docs"), DropT("old"), Rename("docs", "old"), Rename("old", "docs"),
          Rls("docs", TRUE), CreateP("docs", "p", Mine), GrantT("docs", "anon", "SELECT")}
Guards == {Create("docs", {TenantId}), DropT("docs"), Rename("docs", "old"),
           Rls("docs", TRUE), Rls("docs", FALSE), Force("docs", TRUE), Force("docs", FALSE),
           CreateP("docs", "p", Mine), CreateP("docs", "q", Mine), DropP("docs", "p"),
           AlterP("docs", "p", [using |-> One(Yes)]), AlterP("docs", "q", [roles |-> {Public}]),
           AlterP("docs", "p", [check |-> One(Yes), roles |-> {"anon"}]),
           RenameP("docs", "p", "q"), RenameP("docs", "q", "p"),
           RevokeT("docs", "anon", "SELECT"), GrantT("docs", "anon", "SELECT")}
Email == Column("email", Unnamed)
Docs == Create("docs", {TenantId, Email})
Partitions ==
    {Docs, Child("part", <<"docs">>, TRUE), Rename("docs", "old"), Rename("part", "docs"),
     DropT("part"), DropT("docs"), On("detach", "part", ""), Rls("docs", TRUE), Rls("part", TRUE),
     CreateP("part", "p", Mine), GrantT("part", "anon", "SELECT"),
     On("addColumn", "docs", Column("kind", <<>>)), On("dropColumn", "docs", "email"),
     Child("leaf", <<"part">>, TRUE), Child("part", <<"old">>, TRUE)}
Inheritance ==
    {Docs, Create("base", {Column("owner", <<>>)}), Child("kid", <<"docs">>, FALSE),
     Child("kid", <<"old", "base">>, FALSE), [Child("kid", <<"docs", "base">>, FALSE) EXCEPT
         !.columns = {Column("kind", <<>>)}],
     Rename("docs", "old"), Rename("old", "docs"), On("detach", "kid", ""), Rls("docs", TRUE),
     CreateP("kid", "p", Mine), GrantC("kid", "anon", "SELECT", "email"),
     RevokeT("kid", "anon", "SELECT"),
     On("addColumn", "kid", [Email EXCEPT !.name = "note"]), On("dropColumn", "docs", "email")}
NotNull_ == [TenantId EXCEPT !.con = <<"n">>]
Con(op, t, con) == [op |-> op, t |-> t, con |-> con]
Add(t, con, valid) == [op |-> "addConstraint", t |-> t, con |-> con, column |-> "tenant_id", valid |-> valid]
RenameC(t, con, to) == [op |-> "renameConstraint", t |-> t, con |-> con, to |-> to]
Auto(t) == <<t, "tenant_id", "">>
Constraints ==
    {Create("docs", {TenantId}), Create("docs", {[TenantId EXCEPT !.con = Unnamed]}),
     Create("docs", {NotNull_}), Create("docs", {[TenantId EXCEPT !.pk = TRUE]}),
     [Create("docs", {TenantId}) EXCEPT !.ifNotExists = TRUE],
     Rls("docs", TRUE), CreateP("docs", "p", Mine),
     On("setNotNull", "docs", "tenant_id"), On("dropNotNull", "docs", "tenant_id"),
     Add("docs", <<"n">>, TRUE), Add("docs", <<"n">>, FALSE), Add("docs", Unnamed, FALSE),
     Add("docs", PkName, TRUE), Con("validate", "docs", <<"n">>), Con("validate", "docs", Auto("docs")),
     Con("dropConstraint", "docs", <<"n">>), Con("dropConstraint", "docs", PkName),
     Con("dropConstraint", "docs", Auto("docs")), Con("dropConstraint", "docs", <<"m">>),
     RenameC("docs", <<"n">>, <<"m">>), RenameC("docs", Auto("docs"), <<"m">>)}
Moved ==
    {Create("docs", {[TenantId EXCEPT !.con = Unnamed]}), Create("docs", {NotNull_}),
     Create("docs", {[NotNull_ EXCEPT !.noinh = TRUE]}), Rename("docs", "old"), Rename("kid", "docs"),
     Child("kid", <<"docs">>, FALSE), Child("leaf", <<"kid">>, FALSE),
     On("detach", "kid", ""), On("detach", "leaf", ""), RenameC("docs", <<"n">>, <<"m">>),
     RenameC("docs", Auto("docs"), <<"m">>), On("dropNotNull", "docs", "tenant_id"),
     Con("dropConstraint", "leaf", <<"m">>), Con("dropConstraint", "leaf", Auto("docs")),
     Con("dropConstraint", "kid", <<"m">>), Con("dropConstraint", "old", Auto("docs")),
     On("setNotNull", "kid", "tenant_id"), Con("dropConstraint", "kid", Auto("kid"))}
Existing == [docs |-> [Blank EXCEPT !.columns = {"tenant_id"}]]
MCMigrations == {
    [catalog |-> <<>>, statements |-> Lives, bound |-> 6],
    [catalog |-> Existing, statements |-> Lives, bound |-> 5],
    [catalog |-> <<>>, statements |-> Guards, bound |-> 5],
    [catalog |-> Existing, statements |-> Guards, bound |-> 4],
    [catalog |-> <<>>, statements |-> Partitions, bound |-> 6],
    [catalog |-> <<>>, statements |-> Inheritance, bound |-> 6],
    [catalog |-> <<>>, statements |-> Constraints, bound |-> 5],
    [catalog |-> <<>>, statements |-> Moved, bound |-> 6]}
===============================================================================
