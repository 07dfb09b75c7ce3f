---------------------------------- MODULE Ddl ----------------------------------
(***************************************************************************)
(* A migration as PostgreSQL runs it: a catalog, and the log of the        *)
(* statements that changed it.  A table of the catalog has the fields of   *)
(* the rules (PolicyRules); its columns are the ones it declares, and it   *)
(* also has                                                                *)
(*   nn (declared NOT NULL constraints: column -> [name, valid, noinh]),   *)
(*   pk (the columns of the primary key).                                  *)
(* What a child has of its parents is derived.  A constraint's name is     *)
(* <<name>>, or <<table, column, digit>> where PostgreSQL chose it.  A     *)
(* column definition is [name, con, noinh, pk]; con is <<>> (nullable),    *)
(* Unnamed or the name of its NOT NULL.                                    *)
(***************************************************************************)
EXTENDS ObjectRules, TLC

CONSTANTS Migrations     \* [catalog, statements, bound]: where a migration starts,
                         \* what it is written with, and a bound on its length

VARIABLES catalog, log,
          migration      \* of Migrations, constant
vars == <<catalog, log, migration>>

Unnamed == <<"NOT NULL">>
PkName == <<"pkey">>
Blank == [schema |-> "public", rls |-> FALSE, force |-> FALSE, partitionOf |-> "", inherits |-> {},
          columns |-> {}, nullable |-> {}, uuid |-> {}, indexes |-> {}, triggers |-> {}, fks |-> {},
          pubs |-> {}, grants |-> {}, colgrants |-> {}, policies |-> <<>>, nn |-> <<>>, pk |-> {}]
Database(tables) ==
    [tables |-> tables, views |-> <<>>, fns |-> <<>>, immutable |-> <<>>, leakproof |-> {},
     bypass |-> {}, escalations |-> {}, reachers |-> {}, defaults |-> {}, foreign |-> <<>>]
Put(f, k, v) == (k :> v) @@ f
Without(f, ks) == [x \in DOMAIN f \ ks |-> f[x]]
-------------------------------------------------------------------------------
(* Inheritance.                                                            *)

ParentsOf(c, t) == c[t].inherits \cup ({c[t].partitionOf} \ {""})
Ancestors(c, t) == Above([x \in DOMAIN c |-> ParentsOf(c, x)], t)
Descendants(c, t) == {k \in DOMAIN c : t \in Ancestors(c, k)}
ColumnsOf(c, t) == c[t].columns \cup UNION {c[a].columns : a \in Ancestors(c, t)}
\* The nearest constraint of a column is the table's.
Inherits(c, t, col) == \E a \in Ancestors(c, t) : col \in DOMAIN c[a].nn /\ ~c[a].nn[col].noinh
NotNullOf(c, t) ==
    c[t].nn @@ [col \in {x \in ColumnsOf(c, t) : Inherits(c, t, x)} |->
        LET from == {a \in Ancestors(c, t) : col \in DOMAIN c[a].nn /\ ~c[a].nn[col].noinh}
            near == CHOOSE a \in from : Ancestors(c, a) \cap from = {} \/ from = {a} IN c[near].nn[col]]
NamesOf(c, t) == {NotNullOf(c, t)[col].name : col \in DOMAIN NotNullOf(c, t)}
\* As introspection reads the table: a NOT VALID constraint still lets NULLs be.
Live(c, t) == [c[t] EXCEPT
    !.columns = ColumnsOf(c, t),
    !.nullable = {col \in ColumnsOf(c, t) :
                     col \notin DOMAIN NotNullOf(c, t) \/ ~NotNullOf(c, t)[col].valid}]
Introspected(c) == [t \in DOMAIN c |-> Live(c, t)]
AutoName(c, t, col) ==
    <<t, col, IF \E x \in DOMAIN c : <<t, col, "">> \in NamesOf(c, x) THEN "1" ELSE "">>
-------------------------------------------------------------------------------
(* Statements that PostgreSQL accepts, in any order.  Ones that change     *)
(* nothing are left out, but for CREATE TABLE IF NOT EXISTS and REVOKE.    *)

Ran(q, c) == /\ Len(log) < migration.bound /\ log' = Append(log, q)
             /\ catalog' = c /\ UNCHANGED migration
Alters(q, table) == Ran(q, [catalog EXCEPT ![q.t] = table])
Of(q, op) == q.op = op /\ q.t \in DOMAIN catalog

Declared(c, q) ==
    LET def == [x \in {d.name : d \in q.columns} |-> CHOOSE d \in q.columns : d.name = x] IN
    [Blank EXCEPT
        !.columns = DOMAIN def,
        !.pk = {x \in DOMAIN def : def[x].pk},
        !.nn = [x \in {y \in DOMAIN def : def[y].pk \/ def[y].con # <<>>} |->
                   [name |-> IF def[x].con \in {<<>>, Unnamed} THEN AutoName(c, q.t, x) ELSE def[x].con,
                    valid |-> TRUE, noinh |-> def[x].noinh /\ ~def[x].pk]],
        !.partitionOf = IF q.partition THEN Head(q.parents) ELSE "",
        !.inherits = IF q.partition THEN {} ELSE {q.parents[i] : i \in DOMAIN q.parents}]
\* CREATE TABLE; a child adds columns of its own.
CreateTable(q) ==
    /\ q.op = "create" /\ \A i \in DOMAIN q.parents : q.parents[i] \in DOMAIN catalog \ {q.t}
    /\ \A i \in DOMAIN q.parents, d \in q.columns : d.name \notin ColumnsOf(catalog, q.parents[i])
    /\ \/ q.t \notin DOMAIN catalog /\ Ran(q, Put(catalog, q.t, Declared(catalog, q)))
       \/ q.t \in DOMAIN catalog /\ q.ifNotExists /\ Ran(q, catalog)
CreateTableAs(q) == /\ q.op = "createAs" /\ q.t \notin DOMAIN catalog
                    /\ Ran(q, Put(catalog, q.t, [Blank EXCEPT !.columns = q.names]))
DropTable(q) == /\ Of(q, "drop") /\ Descendants(catalog, q.t) = {}
                /\ Ran(q, Without(catalog, {q.t}))
Follow(t, old, new) ==
    [t EXCEPT !.partitionOf = IF @ = old THEN new ELSE @,
              !.inherits = {IF p = old THEN new ELSE p : p \in @}]
RenameTable(q) ==
    /\ Of(q, "rename") /\ q.to \notin DOMAIN catalog
    /\ Ran(q, [t \in (DOMAIN catalog \ {q.t}) \cup {q.to} |->
                  Follow(catalog[IF t = q.to THEN q.t ELSE t], q.t, q.to)])
SetRls(q) == Of(q, "rls") /\ catalog[q.t].rls # q.on /\ Alters(q, [catalog[q.t] EXCEPT !.rls = q.on])
SetForce(q) == Of(q, "force") /\ catalog[q.t].force # q.on
               /\ Alters(q, [catalog[q.t] EXCEPT !.force = q.on])
\* NO INHERIT, or DETACH PARTITION: the child keeps what it had.
Detach(q) == /\ Of(q, "detach") /\ ParentsOf(catalog, q.t) # {}
             /\ Alters(q, [catalog[q.t] EXCEPT
                    !.columns = ColumnsOf(catalog, q.t), !.nn = NotNullOf(catalog, q.t),
                    !.partitionOf = "", !.inherits = {}])

Family(t) == {t} \cup Descendants(catalog, t)
AddColumn(q) == /\ Of(q, "addColumn") /\ catalog[q.t].partitionOf = ""
                /\ \A k \in Family(q.t) : q.column.name \notin ColumnsOf(catalog, k)
                /\ \E d \in {Declared(catalog, [t |-> q.t, columns |-> {q.column},
                                              parents |-> <<>>, partition |-> FALSE])} :
                       Alters(q, [catalog[q.t] EXCEPT !.columns = @ \cup d.columns, !.nn = d.nn @@ @])
DropColumn(q) ==
    /\ Of(q, "dropColumn") /\ q.column \in catalog[q.t].columns \ catalog[q.t].pk
    /\ \A k \in Family(q.t) : \A p \in PoliciesOf(catalog[k]) :
           q.column \notin OwnColumns(p.using) \cup OwnColumns(p.check)
    /\ Ran(q, [k \in DOMAIN catalog |->
           IF k \notin Family(q.t) THEN catalog[k]
           ELSE [catalog[k] EXCEPT
                    !.columns = IF k = q.t THEN @ \ {q.column} ELSE @,
                    !.nn = Without(@, {q.column}),
                    !.colgrants = {g \in @ : g.column # q.column}]])
-------------------------------------------------------------------------------
(* NOT NULL constraints (PostgreSQL 18).  A child's inherited one changes  *)
(* with its parent's, a declared one of the same column is its own.        *)

SetNotNull(q) ==
    /\ Of(q, "setNotNull") /\ q.column \in ColumnsOf(catalog, q.t)
    /\ ~Inherits(catalog, q.t, q.column)
    /\ \A k \in Family(q.t) : q.column \in DOMAIN catalog[k].nn => ~catalog[k].nn[q.column].noinh
    /\ Live(catalog, q.t).nullable \cap {q.column} # {}
    /\ Ran(q, [k \in DOMAIN catalog |->
           IF k \in Family(q.t) /\ q.column \in DOMAIN catalog[k].nn
           THEN [catalog[k] EXCEPT !.nn[q.column].valid = TRUE]
           ELSE IF k = q.t THEN [catalog[k] EXCEPT !.nn = Put(@, q.column,
                   [name |-> AutoName(catalog, k, q.column), valid |-> TRUE, noinh |-> FALSE])]
           ELSE catalog[k]])
Loosens(q, col) == /\ col \notin catalog[q.t].pk /\ ~Inherits(catalog, q.t, col)
                   /\ Alters(q, [catalog[q.t] EXCEPT !.nn = Without(@, {col})])
DropNotNull(q) == /\ Of(q, "dropNotNull") /\ q.column \in DOMAIN catalog[q.t].nn
                  /\ Loosens(q, q.column)
\* ADD CONSTRAINT con NOT NULL column [NOT VALID], and ADD PRIMARY KEY.
AddConstraint(q) ==
    /\ Of(q, "addConstraint") /\ q.column \in ColumnsOf(catalog, q.t)
    /\ IF q.con = PkName
       THEN /\ catalog[q.t].pk = {} /\ ~Inherits(catalog, q.t, q.column)
            /\ q.column \in DOMAIN catalog[q.t].nn =>
                   catalog[q.t].nn[q.column].valid /\ ~catalog[q.t].nn[q.column].noinh
            /\ Alters(q, [catalog[q.t] EXCEPT !.pk = {q.column}, !.nn = @ @@ (q.column :>
                   [name |-> AutoName(catalog, q.t, q.column), valid |-> TRUE, noinh |-> FALSE])])
       ELSE /\ \A k \in Family(q.t) : q.column \notin DOMAIN NotNullOf(catalog, k)
                                      /\ q.con \notin NamesOf(catalog, k)
            /\ Alters(q, [catalog[q.t] EXCEPT !.nn = Put(@, q.column,
                   [name |-> IF q.con = Unnamed THEN AutoName(catalog, q.t, q.column) ELSE q.con,
                    valid |-> q.valid, noinh |-> FALSE])])
ValidateConstraint(q) ==
    /\ Of(q, "validate")
    /\ \E col \in DOMAIN catalog[q.t].nn :
           /\ catalog[q.t].nn[col].name = q.con /\ ~catalog[q.t].nn[col].valid
           /\ Alters(q, [catalog[q.t] EXCEPT !.nn[col].valid = TRUE])
DropConstraint(q) ==
    /\ Of(q, "dropConstraint")
    /\ \/ /\ q.con = PkName /\ catalog[q.t].pk # {}
          /\ Alters(q, [catalog[q.t] EXCEPT !.pk = {}])
       \/ \E col \in DOMAIN catalog[q.t].nn : catalog[q.t].nn[col].name = q.con /\ Loosens(q, col)
\* The children's constraints of that name are renamed with it.
RenameConstraint(q) ==
    /\ Of(q, "renameConstraint") /\ q.con # q.to
    /\ \A k \in Family(q.t) : q.to \notin NamesOf(catalog, k)
    /\ \E col \in DOMAIN catalog[q.t].nn :
           /\ catalog[q.t].nn[col].name = q.con /\ ~Inherits(catalog, q.t, col)
           /\ Ran(q, [k \in DOMAIN catalog |->
                  IF k \in Family(q.t) /\ col \in DOMAIN catalog[k].nn
                     /\ catalog[k].nn[col].name = q.con
                     /\ (k = q.t \/ ~catalog[q.t].nn[col].noinh)
                  THEN [catalog[k] EXCEPT !.nn[col].name = q.to] ELSE catalog[k]])
-------------------------------------------------------------------------------
(* Policies and grants.                                                    *)

CreatePolicy(q) == /\ Of(q, "createPolicy") /\ q.name \notin DOMAIN catalog[q.t].policies
                   /\ OwnColumns(q.policy.using) \cup OwnColumns(q.policy.check)
                          \subseteq ColumnsOf(catalog, q.t)
                   /\ Alters(q, [catalog[q.t] EXCEPT !.policies = Put(@, q.name, q.policy)])
HasPolicy(q, op) == Of(q, op) /\ q.name \in DOMAIN catalog[q.t].policies
\* ALTER POLICY changes the clauses it states: q.sets.
AlterPolicy(q) == /\ HasPolicy(q, "alterPolicy")
                  /\ Alters(q, [catalog[q.t] EXCEPT !.policies[q.name] = q.sets @@ @])
DropPolicy(q) == /\ HasPolicy(q, "dropPolicy")
                 /\ Alters(q, [catalog[q.t] EXCEPT !.policies = Without(@, {q.name})])
RenamePolicy(q) ==
    /\ HasPolicy(q, "renamePolicy") /\ q.to \notin DOMAIN catalog[q.t].policies
    /\ Alters(q, [catalog[q.t] EXCEPT !.policies = Put(Without(@, {q.name}), q.to, @[q.name])])
Grant(q) == /\ Of(q, "grant") /\ \A g \in q.colgrants : g.column \in ColumnsOf(catalog, q.t)
            /\ ~(q.grants \subseteq catalog[q.t].grants /\ q.colgrants \subseteq catalog[q.t].colgrants)
            /\ Alters(q, [catalog[q.t] EXCEPT !.grants = @ \cup q.grants, !.colgrants = @ \cup q.colgrants])
\* A privilege of the table takes its column privileges along.
Revoke(q) == /\ Of(q, "revoke")
             /\ Alters(q, [catalog[q.t] EXCEPT !.grants = @ \ q.grants,
                    !.colgrants = {g \in @ : [role |-> g.role, priv |-> g.priv] \notin q.grants}])

Init == /\ migration \in Migrations
        /\ catalog = migration.catalog /\ log = <<>>
Next == \E q \in migration.statements :
    \/ CreateTable(q) \/ CreateTableAs(q) \/ DropTable(q) \/ RenameTable(q) \/ Detach(q)
    \/ SetRls(q) \/ SetForce(q) \/ AddColumn(q) \/ DropColumn(q)
    \/ SetNotNull(q) \/ DropNotNull(q) \/ AddConstraint(q) \/ ValidateConstraint(q)
    \/ DropConstraint(q) \/ RenameConstraint(q)
    \/ CreatePolicy(q) \/ AlterPolicy(q) \/ DropPolicy(q) \/ RenamePolicy(q)
    \/ Grant(q) \/ Revoke(q)
Spec == Init /\ [][Next]_vars
===============================================================================
