------------------------------- MODULE Catalog -------------------------------
(***************************************************************************)
(* The schema model: what introspection, snapshots and migrations make of  *)
(* a database, and what every command of pgrls reads.  Relations,          *)
(* functions, policies and roles have names; of SQL bodies only what the   *)
(* rules look for is kept.                                                 *)
(***************************************************************************)
EXTENDS Clauses, Sequences

CONSTANT Names      \* identifiers, and what clauses write as literals

Operands == [is : {"column", "inner", "call", "select", "coalesce", "wrap", "wrapcall",
                   "literal", "relation", "none"}, of : Names]
Atoms == [op : {"=", "<>", "~~", "in", "isnull", "notnull", "holds", "exists", "true", "false"},
          l : Operands, r : Operands]
ClauseSet == SUBSET SUBSET Atoms

\* f maps names to what Is holds of.
IsNamed(f, Is(_)) == /\ DOMAIN f \subseteq Names /\ f = [n \in DOMAIN f |-> f[n]]
                     /\ \A n \in DOMAIN f : Is(f[n])
-------------------------------------------------------------------------------
(* Tables.  A policy's table knows its name.                               *)

\* An INSERT policy has no USING, a SELECT or DELETE policy no WITH CHECK.
IsPolicy(p) ==
    /\ p \in [cmd : {"ALL", "SELECT", "INSERT", "UPDATE", "DELETE"}, permissive : BOOLEAN,
              roles : SUBSET Names, using : ClauseSet, check : ClauseSet]
    /\ p.cmd = "INSERT" => p.using = Absent
    /\ p.cmd \in {"SELECT", "DELETE"} => p.check = Absent
TableGrants == [role : Names, priv : {"SELECT", "INSERT", "UPDATE", "DELETE"}]
ColumnGrants == [role : Names, priv : {"SELECT", "INSERT", "UPDATE"}, column : Names]
IsIndex(i) == /\ i \in [name : Names, columns : Seq(Names), unique : BOOLEAN, primary : BOOLEAN]
              /\ i.primary => i.unique
ForeignKeys == [name : Names, ref : Names]
TriggerSet == [name : Names, enabled : BOOLEAN]
\* partitionOf is "" for none, inherits has the parents of classic inheritance,
\* uuid the columns of that type, fks the foreign keys out of it.
IsTable(t) ==
    /\ t \in [schema : Names, rls : BOOLEAN, force : BOOLEAN, partitionOf : Names,
              inherits : SUBSET Names, columns : SUBSET Names, nullable : SUBSET Names,
              uuid : SUBSET Names, indexes : {t.indexes}, triggers : SUBSET TriggerSet,
              fks : SUBSET ForeignKeys, pubs : SUBSET Names, grants : SUBSET TableGrants,
              colgrants : SUBSET ColumnGrants, policies : {t.policies}]
    /\ t.partitionOf = "" \/ t.inherits = {}
    /\ t.nullable \cup t.uuid \cup {g.column : g \in t.colgrants} \subseteq t.columns
    /\ \A i \in t.indexes : IsIndex(i)
    /\ IsNamed(t.policies, IsPolicy)
\* A foreign table cannot have row security.
IsForeign(t) == t \in [schema : Names, grants : SUBSET TableGrants]
-------------------------------------------------------------------------------
(* Views, functions and roles.                                             *)

\* mat: materialized; from: the tables and views it reads; where: of its
\* SELECT; calls: the SECURITY DEFINER functions.
IsView(v) == v \in [schema : Names, mat : BOOLEAN, invoker : BOOLEAN, barrier : BOOLEAN,
                    from : SUBSET Names, where : ClauseSet, grants : SUBSET TableGrants,
                    calls : SUBSET Names]
\* bypass: its owner bypasses row security; execute: the roles that may call it;
\* path: the schemas of its search_path, <<>> where it sets none.
IsSecdef(f) == f \in [bypass : BOOLEAN, execute : SUBSET Names, path : Seq(Names),
                      language : Names, reads : SUBSET Names]
\* session: the body reads the session.
IsImmutable(f) == f \in [language : Names, session : BOOLEAN, reads : SUBSET Names]
BypassRoles == [name : Names, super : BOOLEAN]
\* Who may become a role with BYPASSRLS.
Escalations == [member : Names, via : SUBSET Names]
\* Who may become the owner of a table that is not FORCEd.
Reachers == [member : Names, via : SUBSET Names]
DefaultGrants == [schema : Names, role : Names, priv : {"SELECT", "INSERT", "UPDATE", "DELETE"}]

\* Tables and views have one namespace; what a view reads is there.
IsSchema(db) ==
    /\ db \in [tables : {db.tables}, views : {db.views}, fns : {db.fns},
               immutable : {db.immutable}, foreign : {db.foreign}, leakproof : SUBSET Names,
               bypass : SUBSET BypassRoles, escalations : SUBSET Escalations,
               reachers : SUBSET Reachers, defaults : SUBSET DefaultGrants]
    /\ IsNamed(db.tables, IsTable) /\ IsNamed(db.views, IsView) /\ IsNamed(db.fns, IsSecdef)
    /\ IsNamed(db.immutable, IsImmutable) /\ IsNamed(db.foreign, IsForeign)
    /\ DOMAIN db.tables \cap DOMAIN db.views = {}
    /\ \A v \in DOMAIN db.views : db.views[v].from \subseteq DOMAIN db.tables \cup DOMAIN db.views
===============================================================================
