------------------------------- MODULE DdlReplay -------------------------------
(***************************************************************************)
(* schema_from_sql: the schema pgrls reads out of a migration's text when  *)
(* there is no database.  Tables are built first, then every other         *)
(* statement is applied in order.  A builder of a table has the fields     *)
(*   created (the index of its last CREATE, 0: none), rls, force,          *)
(*   partitionOf, inherits, columns, nullable, policies (a sequence of     *)
(*   [name, policy]), grants, colgrants, names (of NOT NULL constraints -> *)
(*   columns), former (its names so far, and its parents'), noInherit (the *)
(*   columns NOT NULL through NO INHERIT only), invalid (NOT VALID         *)
(*   constraints -> columns).                                              *)
(***************************************************************************)
EXTENDS Ddl, Snapshots

\* Step for each index of s in turn, starting with base.
Fold(Step(_, _), base, s) ==
    LET at[i \in 0..Len(s)] == IF i = 0 THEN base ELSE Step(at[i - 1], i) IN at[Len(s)]
-------------------------------------------------------------------------------
(* A table.                                                                *)

TableBuilder(t, i) ==
    [created |-> i, rls |-> FALSE, force |-> FALSE, partitionOf |-> "", inherits |-> {},
     columns |-> {}, nullable |-> {}, policies |-> <<>>, grants |-> {}, colgrants |-> {},
     names |-> <<>>, former |-> {t}, noInherit |-> {}, invalid |-> <<>>]
Columns(f, n) == IF n \in DOMAIN f THEN f[n] ELSE {}
\* setdefault(n, set()).update(columns)
Named(f, n, columns) == Put(f, n, Columns(f, n) \cup columns)
Merge(f, g) == [n \in DOMAIN f \cup DOMAIN g |-> Columns(f, n) \cup Columns(g, n)]
BecomesNotNull(b, columns) == [b EXCEPT !.nullable = @ \ columns]
BecomesNullable(b, columns) == [b EXCEPT !.nullable = @ \cup (columns \cap b.columns)]
\* Mutant: PostgreSQL's own names are not recognised.
NamedColumns(b, con) == Columns(b.names, con)
\* The columns a NOT NULL of this name can be for.
NotNullColumns(b, con) ==
    Columns(b.names, con)
    \cup IF Len(con) = 3 /\ con[1] \in b.former THEN {con[2]} \cap b.columns ELSE {}
WithColumn(b, d) ==
    [b EXCEPT !.columns = @ \cup {d.name},
              !.nullable = IF d.con = <<>> /\ ~d.pk THEN @ \cup {d.name} ELSE @ \ {d.name},
              !.names = IF Len(d.con) = 1 /\ d.con # Unnamed THEN Named(@, d.con, {d.name}) ELSE @]
\* The first policy of a name.
FirstNamed(policies, n, i) == policies[i].name = n /\ \A j \in 1..(i - 1) : policies[j].name # n
\* The rules' view of the table.
Build(b) ==
    [f \in DOMAIN Blank |->
        CASE f = "policies" ->
               [n \in {b.policies[i].name : i \in DOMAIN b.policies} |->
                   b.policies[CHOOSE i \in DOMAIN b.policies : FirstNamed(b.policies, n, i)].policy]
          [] f \in DOMAIN b \ {"policies"} -> b[f]
          [] OTHER -> Blank[f]]
-------------------------------------------------------------------------------
(* Pass 1.                                                                 *)

\* A child copies the columns its parent has so far.
FromParent(b, tables, p) ==
    IF p \notin DOMAIN tables THEN b
    ELSE LET a == tables[p]  new == a.columns \ b.columns IN
         [b EXCEPT !.columns = @ \cup new,
                   !.nullable = @ \cup (new \cap (a.nullable \cup a.noInherit)),
                   !.names = Merge(@, a.names), !.former = @ \cup a.former]
OwnColumnDefs(b, q) ==
    LET names == {d.name : d \in q.columns}
        named == {d.con : d \in q.columns} \ {<<>>, Unnamed} IN
    [b EXCEPT !.columns = @ \cup names,
              !.nullable = (@ \ names) \cup {d.name : d \in {x \in q.columns : x.con = <<>> /\ ~x.pk}},
              !.names = Merge(@, [n \in named |-> {d.name : d \in {x \in q.columns : x.con = n}}]),
              !.noInherit = @ \cup {d.name : d \in {x \in q.columns : x.con # <<>> /\ x.noinh /\ ~x.pk}}]
Defined(tables, q, i) ==
    LET shell == [TableBuilder(q.t, i) EXCEPT
                     !.partitionOf = IF q.partition THEN Head(q.parents) ELSE "",
                     !.inherits = IF q.partition THEN {} ELSE {q.parents[k] : k \in DOMAIN q.parents}]
        child == Fold(LAMBDA b, k : FromParent(b, tables, q.parents[k]), shell, q.parents)
    IN OwnColumnDefs(child, q)
Created(tables, q, i) ==
    CASE q.op = "create" /\ q.t \in DOMAIN tables -> [tables EXCEPT ![q.t].created = i]
      [] q.op = "create" /\ q.t \notin DOMAIN tables -> Put(tables, q.t, Defined(tables, q, i))
      [] q.op = "createAs" /\ q.t \notin DOMAIN tables -> Put(tables, q.t, TableBuilder(q.t, i))
      [] OTHER -> tables
-------------------------------------------------------------------------------
(* Pass 2.                                                                 *)

\* A column's NOT VALID constraint is gone, or is validated in place.
Settled(b, q) ==
    LET holding == {n \in DOMAIN b.invalid : q.column \in b.invalid[n]} IN
    [b EXCEPT !.invalid = [n \in DOMAIN @ |-> @[n] \ {q.column}],
              !.names = IF q.op = "setNotNull" THEN Merge(@, [n \in holding |-> {q.column}]) ELSE @]
AddedConstraint(b, q) ==
    LET kept == Without(b.invalid, {q.con}) IN
    IF q.con # PkName /\ ~q.valid
    THEN [b EXCEPT !.invalid = IF q.con = Unnamed THEN kept ELSE Put(kept, q.con, {q.column})]
    ELSE [BecomesNotNull(b, {q.column}) EXCEPT
             !.invalid = kept,
             !.names = IF q.con \in {PkName, Unnamed} THEN @ ELSE Named(@, q.con, {q.column})]
Altered(b, q, i) ==
    CASE q.op = "rls" -> [b EXCEPT !.rls = q.on]
      [] q.op = "force" -> [b EXCEPT !.force = q.on]
      [] q.op = "addColumn" -> WithColumn(b, q.column)
      [] q.op = "dropColumn" -> [Settled(b, q) EXCEPT !.columns = @ \ {q.column}, !.nullable = @ \ {q.column}]
      [] q.op = "setNotNull" -> BecomesNotNull(Settled(b, q), {q.column})
      [] q.op = "dropNotNull" -> BecomesNullable(Settled(b, q), {q.column})
      [] q.op = "addConstraint" /\ i > b.created -> AddedConstraint(b, q)
      [] q.op = "validate" /\ i > b.created /\ q.con \in DOMAIN b.invalid ->
            [BecomesNotNull(b, b.invalid[q.con]) EXCEPT
                !.invalid = Without(@, {q.con}), !.names = Named(@, q.con, b.invalid[q.con])]
      [] q.op = "dropConstraint" ->
            [BecomesNullable(b, NotNullColumns(b, q.con)) EXCEPT
                !.invalid = Without(@, {q.con}), !.names = Without(@, {q.con})]
      [] OTHER -> b
AlterOps == {"rls", "force", "detach", "addColumn", "dropColumn", "setNotNull", "dropNotNull",
             "addConstraint", "validate", "dropConstraint"}
\* A table the text does not create gets an empty one.
Shell(tables, t) == IF t \in DOMAIN tables THEN tables ELSE Put(tables, t, TableBuilder(t, 0))
ApplyAlterTable(tables, q, i) ==
    LET all == Shell(tables, q.t) IN [all EXCEPT ![q.t] = Altered(@, q, i)]

ApplyCreatePolicy(tables, q) ==
    LET all == Shell(tables, q.t) IN
    [all EXCEPT ![q.t].policies = Append(@, [name |-> q.name, policy |-> q.policy])]
\* Mutant: ALTER POLICY is not read.
PolicyAsCreated(tables, q) == tables
ApplyAlterPolicy(tables, q) ==
    IF q.t \notin DOMAIN tables THEN tables
    ELSE [tables EXCEPT ![q.t].policies = [i \in DOMAIN @ |->
             IF FirstNamed(@, q.name, i) THEN [@[i] EXCEPT !.policy = q.sets @@ @] ELSE @[i]]]

\* Mutant: a table is dropped wherever the statement stands.
DroppedAnywhere(tables, q, i) == Without(tables, {q.t})
DroppedTable(tables, q, i) ==
    IF q.t \in DOMAIN tables /\ tables[q.t].created <= i THEN Without(tables, {q.t}) ELSE tables
ApplyDropPolicy(tables, q) ==
    IF q.t \notin DOMAIN tables THEN tables
    ELSE [tables EXCEPT ![q.t].policies = SelectSeq(@, LAMBDA p : p.name # q.name)]
ApplyGrant(tables, q) ==
    IF q.t \notin DOMAIN tables THEN tables
    ELSE [tables EXCEPT ![q.t].grants = @ \cup q.grants, ![q.t].colgrants = @ \cup q.colgrants]

\* The table takes its children along, but for those created later.
RenamedTable(tables, q, i) ==
    IF q.t \notin DOMAIN tables THEN tables
    ELSE LET moved == [tables[q.t] EXCEPT !.former = @ \cup {q.to}]
             Followed(b) == IF b.created >= i THEN b ELSE Follow(b, q.t, q.to)
         IN Put([k \in DOMAIN tables \ {q.t} |-> Followed(tables[k])], q.to, moved)
RenamedPolicy(tables, q) ==
    IF q.t \notin DOMAIN tables THEN tables
    ELSE [tables EXCEPT ![q.t].policies = [i \in DOMAIN @ |->
             IF @[i].name = q.name THEN [@[i] EXCEPT !.name = q.to] ELSE @[i]]]
\* On the table the new name replaces the old; every table that holds the old
\* name, and every descendant, gets the new one as well.
RenamedConstraint(tables, q) ==
    IF q.t \notin DOMAIN tables THEN tables
    ELSE LET also(k) ==
                 IF k = q.t THEN NotNullColumns(tables[k], q.con)
                 ELSE Columns(tables[k].names, q.con)
                      \cup IF k \in Descendants(tables, q.t) THEN NotNullColumns(tables[k], q.con) ELSE {}
             holders == {k \in DOMAIN tables : k \in Descendants(tables, q.t) \cup {q.t}
                                               \/ q.con \in DOMAIN tables[k].names}
             renamed == [k \in DOMAIN tables |->
                 IF k \in holders THEN [tables[k] EXCEPT !.names = Named(@, q.to, also(k))] ELSE tables[k]]
         IN [renamed EXCEPT
                ![q.t].names = Without(@, {q.con}),
                ![q.t].invalid = IF q.con \in DOMAIN @ THEN Put(Without(@, {q.con}), q.to, @[q.con]) ELSE @]

Applied(tables, q, i) ==
    CASE q.op \in AlterOps -> ApplyAlterTable(tables, q, i)
      [] q.op = "createPolicy" -> ApplyCreatePolicy(tables, q)
      [] q.op = "alterPolicy" -> ApplyAlterPolicy(tables, q)
      [] q.op = "dropPolicy" -> ApplyDropPolicy(tables, q)
      [] q.op = "drop" -> DroppedTable(tables, q, i)
      [] q.op = "grant" -> ApplyGrant(tables, q)
      [] q.op = "rename" -> RenamedTable(tables, q, i)
      [] q.op = "renamePolicy" -> RenamedPolicy(tables, q)
      [] q.op = "renameConstraint" -> RenamedConstraint(tables, q)
      [] OTHER -> tables           \* REVOKE, and what the first pass read
\* The two passes over a text.
Replayed(text) ==
    LET built == Fold(LAMBDA tables, i : Created(tables, text[i], i), <<>>, text)
    IN Fold(LAMBDA tables, i : Applied(tables, text[i], i), built, text)
SchemaFromSql(text) == LET tables == Replayed(text) IN [t \in DOMAIN tables |-> Build(tables[t])]
-------------------------------------------------------------------------------
(* Properties.  What a text tells of a table, whatever PostgreSQL did.     *)

Texts(ops) == {i \in DOMAIN log : log[i].op \in ops}
Creations == Texts({"create", "createAs"})
Renames == Texts({"rename"})
\* The names a table had, latest first: t, and what was renamed to it.
Lineage(t) == Fold(LAMBDA names, i : LET q == log[Len(log) + 1 - i] IN
                       names \cup (IF q.op = "rename" /\ q.to \in names THEN {q.t} ELSE {}), {t}, log)
Mentions(t) == {i \in DOMAIN log : log[i].t = t \/ (log[i].op = "rename" /\ log[i].to = t)}
\* A name that one table gave up and another was created with: the text's
\* first pass knows one table of a name.
Reused(t) == \E j, k \in Mentions(t) :
    /\ j < k /\ k \in Creations
    /\ \/ log[j].op = "rename" /\ log[j].t = t
       \/ log[j].op = "drop" /\ \E i \in Mentions(t) : i < j
Mixed(t) == \E u \in Lineage(t) : Reused(u)
CreatedBy(t) == {i \in Creations : log[i].t \in Lineage(t)}
\* The text creates the table, and its name is nobody else's.
Told(t) == CreatedBy(t) # {} /\ ~Mixed(t)
\* The parents' later columns do not reach the child, nor does a parent that
\* was renamed before; CREATE TABLE AS has none.
Parents == UNION {{log[i].parents[k] : k \in DOMAIN log[i].parents} : i \in Texts({"create"})}
ParentsChange(ops) == \E i \in Texts(ops) :
    log[i].t \in Parents \cup {log[k].to : k \in {x \in Renames : log[x].t \in Parents}}
IsChild(t) == \E i \in CreatedBy(t) : log[i].op = "create" /\ log[i].parents # <<>>
ColumnsTold(t) ==
    /\ \A i \in CreatedBy(t) : log[i].op = "create"
    /\ \A i \in CreatedBy(t) : log[i].parents # <<>> =>
           /\ \A p \in Parents : \A k \in Renames : log[k].to # p
           /\ \A p \in Parents : \E k \in Texts({"create"}) : k < i /\ log[k].t = p
           /\ ~ParentsChange({"addColumn", "dropColumn"})
Detached == {log[i].t : i \in Texts({"detach"})}

\* A table the text creates reads as PostgreSQL has it: row security, policies,
\* grants and parents, and the columns where the text tells them.  Nothing else
\* is read that is not there.
ReplayFaithful == \A read \in {SchemaFromSql(log)} :
    /\ \A t \in {x \in DOMAIN catalog : Told(x)} : LET live == Live(catalog, t) IN
        /\ t \in DOMAIN read
        /\ \A f \in {"rls", "force", "policies"} : read[t][f] = live[f]
        /\ live.grants \subseteq read[t].grants /\ live.colgrants \subseteq read[t].colgrants
        /\ Texts({"revoke"}) # {} \/ (read[t].grants = live.grants /\
              (Texts({"dropColumn"}) # {} \/ read[t].colgrants = live.colgrants))
        /\ Lineage(t) \cap Detached # {} \/ (\E p \in ParentsOf(catalog, t) : ~Told(p))
           \/ ParentsOf(read, t) = ParentsOf(catalog, t)
        /\ ColumnsTold(t) => read[t].columns = live.columns
    /\ \A t \in {x \in DOMAIN read : ~Mixed(x)} :
        /\ t \in DOMAIN catalog
        /\ read[t].rls => catalog[t].rls
        /\ \A n \in DOMAIN read[t].policies :
              n \in DOMAIN catalog[t].policies /\ catalog[t].policies[n] = read[t].policies[n]

\* A later CREATE TABLE IF NOT EXISTS makes the replay skip a constraint, and
\* with it the name that a DROP CONSTRAINT gives.
Skipped(t) == \E i \in Texts({"addConstraint", "validate"}), k \in CreatedBy(t) :
                  i < k /\ log[i].t \in Lineage(t)
NullsTold(t) ==
    /\ ~Skipped(t)
    /\ IsChild(t) => /\ ~ParentsChange({"dropNotNull", "dropConstraint"})
                     /\ \A p \in Parents : ~Mixed(p)
\* A column that may hold a NULL is read as one.
NullsErrWide == \A read \in {SchemaFromSql(log)} :
    \A t \in {x \in DOMAIN catalog \cap DOMAIN read : Told(x) /\ NullsTold(x)} :
        Live(catalog, t).nullable \cap read[t].columns \subseteq read[t].nullable

\* The rules that read columns.
ColumnRules == {"SEC005", "SEC018", "SEC027", "SEC030", "SEC040", "HYG001"}
Defaults == [trusted |-> {}, coverage |-> {}, pressure |-> {}]
\* What lint finds on the database it finds on the text, but for the rules it
\* leaves out.
NoMissedFindings ==
    \A read \in {SchemaFromSql(log)} :
    \A found \in {Registry(Database(Introspected(catalog)), Defaults)}, told \in {Registry(Database(read), Defaults)} :
    \A rule \in DOMAIN found \ InertRuleIds("sql", 0) : \A at \in found[rule] \ told[rule] :
        LET t == Head(at) IN
        \/ ~Told(t) \/ (rule \in ColumnRules /\ ~ColumnsTold(t))
        \/ rule = "SEC030" /\ ~NullsTold(t)
        \/ /\ rule \in {"SEC001", "SEC032"}
           /\ \/ Ancestors(read, t) # Ancestors(catalog, t)
              \/ \E a \in Ancestors(catalog, t) : ~Told(a)
===============================================================================
