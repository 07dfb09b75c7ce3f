------------------------------- MODULE Access -------------------------------
(***************************************************************************)
(* The access engine of `pgrls matrix`: the verdict on every table and     *)
(* command for one principal, from its own privileges and policies and     *)
(* from the doors that widen them - views, SECURITY DEFINER functions and  *)
(* triggers, rewrite rules, foreign keys, parents - followed round by      *)
(* round until nothing changes; and a session of that principal, which     *)
(* executes statements that lead to further statements.                    *)
(***************************************************************************)
EXTENDS Naturals, FiniteSets, TLC

CONSTANTS Catalogues,     \* the databases analysed
          Principals, Roles,
          Super, Bypass,  \* the roles with those attributes
          Rows,
          Clauses,        \* the policy clauses other than TRUE
          ClauseRows,     \* the rows of [clause, current_user, whose privileges]
          OnSession,      \* the clauses that depend on current_user
          OnRelations,    \* the clauses with a sub-select
          OnSetting       \* the clauses that read a parameter

Public == "PUBLIC"
Open == "true"           \* a clause with TRUE among its disjuncts
Absent == "absent"
Unset == ""
Commands == {"SELECT", "INSERT", "UPDATE", "DELETE", "TRUNCATE"}
Users == Roles \cup {Public}

ASSUME AccessAssumption ==
    /\ {Public, Unset} \cap Roles = {} /\ Super \cup Bypass \subseteq Roles
    /\ Principals \subseteq Users /\ {Open, Absent} \cap Clauses = {}
    /\ ClauseRows \in [Clauses \X Users \X Users -> SUBSET Rows]
    /\ OnRelations \subseteq OnSession /\ OnSession \cup OnSetting \subseteq Clauses
    /\ \A c \in Clauses \ OnSession : \A s, t, p, q \in Users :
          ClauseRows[<<c, s, p>>] = ClauseRows[<<c, t, q>>]
    /\ \A c \in Clauses \ OnRelations : \A s, p, q \in Users :
          ClauseRows[<<c, s, p>>] = ClauseRows[<<c, s, q>>]

\* A catalogue: [graph, edges, tables, views, fns, rules].  graph tells whether
\* the memberships in edges (pairs member, role; all INHERIT) were captured.
\* Table: [owner, grants, rls, force, policies, parent, declarative, fks,
\* triggers], grants pairs of grantee and command.  View: [owner, invoker, mat,
\* ref, grants, updatable, known].  Function: [owner, execute, trigger, touches,
\* hidden, sets]: the statements of its body, those the tracer does not see,
\* and whether it sets a parameter.  Rule: [name, rel, cmd, instead,
\* touches].
VARIABLES cat, me,
          phase,          \* "analysis", "session"
          base, issuable,           \* the engine's: what the principal opens itself,
          cells, reach, untraced,   \* what is reached so far
          exec            \* the statement being executed
vars == <<cat, me, phase, base, issuable, cells, reach, untraced, exec>>

Tables(c) == DOMAIN c.tables
Views(c) == DOMAIN c.views
Relation(c, rel) == IF rel \in Tables(c) THEN c.tables[rel] ELSE c.views[rel]
Keys(c) == Tables(c) \X Commands

\* The least set with from that the steps do not leave.
Closed(step, S) == \A x \in S \cap DOMAIN step : step[x] \subseteq S
Closure(step, from) ==
    LET all == from \cup UNION {step[x] : x \in DOMAIN step}
        closed == {S \in SUBSET all : from \subseteq S /\ Closed(step, S)}
    IN  {x \in all : \A S \in closed : x \in S}
MemberOf(c, r) == Closure([x \in Roles |-> {e[2] : e \in {f \in c.edges : f[1] = x}}], {r})
Descendants(c, t) ==
    Closure([x \in Tables(c) |-> {d \in Tables(c) : c.tables[d].parent = x}], {t}) \ {t}
Ancestors(c, t) == {a \in Tables(c) : t \in Descendants(c, a)}
\* Every link between a and t is a partition's.
Declarative(c, a, t) == \A x \in (Descendants(c, a) \cap (Ancestors(c, t) \cup {t})) :
                           c.tables[x].declarative
Referencing(c, t) == {x \in Tables(c) \ {t} : \E fk \in c.tables[x].fks : fk.ref = t}

\* v and what it reads, directly or through other views.
Chain(c, v) == Closure([x \in Views(c) |-> {c.views[x].ref}], {v})

DataRole(cmd) == CASE cmd = "SELECT" -> {"pg_read_all_data"}
                   [] cmd \in {"INSERT", "UPDATE", "DELETE"} -> {"pg_write_all_data"}
                   [] OTHER -> {}
Privileged(held, r, rel, cmd) ==
    \/ r \in Super \/ DataRole(cmd) \cap held # {} \/ rel.owner \in held
    \/ \E g \in rel.grants : g[2] = cmd /\ g[1] \in held \cup {Public}
EffectiveClause(p, cmd) ==
    IF cmd # "INSERT" THEN p.using
    ELSE IF p.check # Absent THEN p.check ELSE IF p.cmd = "ALL" THEN p.using ELSE Absent

\* A catalogue as PostgreSQL keeps it.
Guess == "guess"
Relations(c) == Tables(c) \cup Views(c)
Touches(c) == (Relations(c) \X (Commands \ {"TRUNCATE"}))
              \cup (Tables(c) \X {"TRUNCATE", "TRUNCATE_CASCADE"})
IsTable(c, t) ==
    LET table == c.tables[t] IN
    /\ table.owner \in Roles /\ {table.rls, table.force, table.declarative} \subseteq BOOLEAN
    /\ \A p \in table.policies : /\ p.permissive \in BOOLEAN
                                 /\ {p.using, p.check} \subseteq Clauses \cup {Open, Absent}
    /\ table.parent # t /\ Ancestors(c, t) \cap Descendants(c, t) = {}
    /\ \A tr \in table.triggers : /\ tr.fn \in DOMAIN c.fns /\ tr.row \in BOOLEAN
                                  /\ tr.cmd \in Commands \ {"SELECT"}
                                  /\ tr.cmd = "TRUNCATE" => ~tr.row
IsCatalogue(c) ==
    /\ c.graph \in BOOLEAN /\ c.edges \subseteq Roles \X Roles
    /\ IsFiniteSet(Tables(c)) /\ Tables(c) \cap Views(c) = {} /\ Unset \notin Relations(c)
    /\ \A t \in Tables(c) : IsTable(c, t)
    /\ \A v \in Views(c) : /\ c.views[v].owner \in Roles /\ c.views[v].ref \in Relations(c)
                           /\ {c.views[v].invoker, c.views[v].mat, c.views[v].known} \subseteq BOOLEAN
    /\ {Unset, Guess} \cap DOMAIN c.fns = {}
    /\ \A f \in DOMAIN c.fns : /\ c.fns[f].owner \in Roles /\ c.fns[f].sets \in BOOLEAN
                               /\ c.fns[f].touches \cup c.fns[f].hidden \subseteq Touches(c)
    /\ \A r \in c.rules : /\ r.rel \in Relations(c) /\ (r.rel \in Views(c) => ~c.views[r.rel].mat)
                          /\ r.cmd \in {"INSERT", "UPDATE", "DELETE"}
                          /\ r.name \notin Users \cup {Unset} /\ r.touches \subseteq Touches(c)
\* What the engine can follow.  Known gaps: when the memberships were not
\* captured, it overlooks that a role may own a table through one, and policies
\* without a clause hide that others may apply; and it takes what a rule reads
\* through a security_invoker view to be read by the rule's owner, not the writer.
Followable(c) ==
    /\ c.graph \/ \A t \in Tables(c) : LET table == c.tables[t] IN
          /\ \A r \in Users : table.rls /\ table.owner \in MemberOf(c, r) => table.force \/ table.owner = r
          /\ \A p \in table.policies, cmd \in Commands :
                p.permissive /\ p.cmd \in {"ALL", cmd} => EffectiveClause(p, cmd) # Absent
    /\ \A r \in c.rules : \A x \in r.touches :
          \A v \in Chain(c, x[1]) \cap Views(c) : ~c.views[v].invoker
ASSUME CatalogueAssumption == \A c \in Catalogues : IsCatalogue(c)
-------------------------------------------------------------------------------
(* The engine: direct access.                                              *)

\* The predicate of a conditional cell: one of the clauses of any, all of those of
\* all.  Clauses are compared as the code compares their text, by name: two
\* clauses that pass the same rows are two predicates.
Cell(verdict, any, all) == [verdict |-> verdict, any |-> any, all |-> all,
                            session |-> Unset, privileges |-> Unset]
Verdict(v) == Cell(v, {}, {})
Rank(cell) == CASE cell.verdict = "open" -> 3 [] cell.verdict = "undecided" -> 2
                [] cell.verdict = "conditional" -> 1 [] OTHER -> 0

Known(c, r) == c.graph \/ r = Public
Held(c, r) == IF Known(c, r) THEN MemberOf(c, r) ELSE {r}
PrivilegePaths(c, r, rel, cmd) == Privileged(Held(c, r), r, rel, cmd)
\* "yes", "no" or, without the graph, "unknown".
Holds(c, r, rel, cmd) == IF PrivilegePaths(c, r, rel, cmd) THEN "yes"
                         ELSE IF Known(c, r) THEN "no" ELSE "unknown"
PolicyApplies(c, r, p, cmd) ==
    IF p.cmd \notin {"ALL", cmd} THEN "no"
    ELSE IF p.roles \cap (Held(c, r) \cup {Public}) # {} THEN "yes"
    ELSE IF Known(c, r) THEN "no" ELSE "unknown"
NarrowingRestrictive(ps, cmd) == {EffectiveClause(p, cmd) : p \in ps} \ {Absent, Open}

\* The tables a TRUNCATE can name with t so that no foreign key is left behind,
\* and the tables that keep one.
Emptied(c, r, t) ==
    Closure([x \in Tables(c) |->
                UNION {LET can == {a \in Ancestors(c, ref) \cup {ref} :
                                      Holds(c, r, c.tables[a], "TRUNCATE") = "yes"}
                       IN UNION {{a} \cup Descendants(c, a) :
                                    a \in {b \in can : Descendants(c, b) \cap can = {}}} :
                       ref \in Referencing(c, x)}],
            {t} \cup Descendants(c, t))
TruncateBlockers(c, r, t) ==
    (UNION {Referencing(c, x) : x \in Emptied(c, r, t)}) \ Emptied(c, r, t)
Unclear(c, r, t) == \E a \in Ancestors(c, t) \cup {t} :
                       Holds(c, r, c.tables[a], "TRUNCATE") = "unknown"

Exempt(c, r, table) == \/ r \in Super \cup Bypass \/ ~table.rls
                       \/ table.owner \in Held(c, r) /\ ~table.force
Filter(c, r, table, cmd) ==
    LET applies(v) == {p \in table.policies : PolicyApplies(c, r, p, cmd) = v}
        permissive == {p \in applies("yes") : p.permissive}
        unknown == {p \in applies("unknown") : p.permissive}
        perm == {EffectiveClause(p, cmd) : p \in permissive} \ {Absent}
        restr == NarrowingRestrictive(applies("yes") \ permissive, cmd)
    IN  IF permissive = {} THEN Verdict(IF unknown # {} THEN "undecided" ELSE "denied")
        ELSE IF perm = {} THEN Verdict("denied")
        ELSE IF Open \in perm
        THEN IF restr = {} THEN Verdict("open") ELSE Cell("conditional", {}, restr)
        ELSE IF unknown # {} THEN Verdict("undecided")
        ELSE Cell("conditional", perm, restr)
CellFor(c, r, t, cmd) ==
    LET table == c.tables[t]
        blockers == TruncateBlockers(c, r, t) IN
    CASE Holds(c, r, table, cmd) = "unknown" -> Verdict("undecided")
      [] Holds(c, r, table, cmd) = "no" -> Verdict("denied")
      [] OTHER -> IF cmd = "TRUNCATE"
                  THEN Verdict(IF blockers = {} THEN "open"
                               ELSE IF \E b \in blockers : Unclear(c, r, b) THEN "undecided"
                               ELSE "denied")
                  ELSE IF Exempt(c, r, table) THEN Verdict("open") ELSE Filter(c, r, table, cmd)
-------------------------------------------------------------------------------
(* The engine: doors.  A door is [key, cell]; a write that a door attempts,   *)
(* whatever it admits, is a door of its own that admits nothing.           *)

Door(rel, cmd, cell) == [key |-> <<rel, cmd>>, cell |-> cell]
Via(cell, session, privileges) ==
    [cell EXCEPT !.session = IF session = Unset THEN @ ELSE session,
                 !.privileges = IF privileges = Unset THEN @ ELSE privileges]
Attempted(rel, cmd) == IF cmd = "SELECT" THEN {} ELSE {Door(rel, cmd, Verdict("attempted"))}
Issued(doors) == {d.key : d \in {x \in doors : x.cell.verdict = "attempted"}}
Instead(c, v, cmd) == \E r \in c.rules : r.rel = v /\ r.cmd = cmd /\ r.instead
\* A statement of r on a table.
Access(c, r, t, cmd, session, privileges) ==
    {Door(t, cmd, Via(CellFor(c, r, t, cmd), session, privileges))}
    \cup IF PrivilegePaths(c, r, c.tables[t], cmd) THEN Attempted(t, cmd) ELSE {}

TablesBeneath(c, v) == Chain(c, v) \cap Tables(c)
UndecidedBeneath(c, v, cmd) == {Door(t, cmd, Verdict("undecided")) : t \in TablesBeneath(c, v)}
\* The views below v, opened one through the other.
RunsAs(c, r, v) == IF c.views[v].invoker THEN r ELSE c.views[v].owner
Opened(c, r, v, cmd) ==
    Closure([x \in Views(c) |->
                {y \in {c.views[x].ref} \cap Views(c) :
                    ~c.views[y].mat /\ Holds(c, RunsAs(c, r, x), c.views[y], cmd) = "yes"}], {v})
\* What an opened view reaches.
Below(c, r, v, cmd, direct, session) ==
    LET eff == RunsAs(c, r, v)
        ref == c.views[v].ref
    IN  IF ref \in Tables(c)
        THEN IF c.views[v].invoker /\ ~direct THEN {} ELSE Access(c, eff, ref, cmd, session, eff)
        ELSE IF c.views[ref].mat
        THEN IF cmd = "SELECT" THEN UndecidedBeneath(c, ref, cmd) ELSE {}
        ELSE CASE Holds(c, eff, c.views[ref], cmd) = "no" -> {}
               [] Holds(c, eff, c.views[ref], cmd) = "unknown" -> UndecidedBeneath(c, ref, cmd)
               [] OTHER -> Attempted(ref, cmd)
Walk(c, r, v, cmd, direct, session) ==
    UNION {Below(c, r, x, cmd, direct, session) : x \in Opened(c, r, v, cmd)}
ViewDoors(c, r, cmd, starts, direct, session) ==
    UNION {LET view == c.views[v] IN
           IF \/ cmd # "SELECT" /\ (\/ view.mat \/ Instead(c, v, cmd)
                                   \/ (view.known /\ cmd \notin view.updatable))
              \/ Holds(c, r, view, cmd) = "no"
           THEN {}
           ELSE IF view.mat \/ Holds(c, r, view, cmd) = "unknown" \/ (cmd # "SELECT" /\ ~view.known)
           THEN UndecidedBeneath(c, v, cmd)
           ELSE Walk(c, r, v, cmd, direct, session) : v \in starts}

TruncateCascade(c, t) ==
    Closure([x \in Tables(c) |-> UNION {{y} \cup Descendants(c, y) : y \in Referencing(c, x)}],
            {t} \cup Descendants(c, t))
Expanded(c, touch) ==
    CASE touch[2] = "TRUNCATE" -> {<<t, "TRUNCATE">> : t \in {touch[1]} \cup Descendants(c, touch[1])}
      [] touch[2] = "TRUNCATE_CASCADE" -> {<<t, "TRUNCATE">> : t \in TruncateCascade(c, touch[1])}
      [] OTHER -> {touch}
\* sets: the body sets a parameter that its filters may read.
RunAsOwner(c, owner, touches, session, privileges, sets) ==
    LET run(rel, cmd) ==
            IF rel \in Tables(c)
            THEN Access(c, owner, rel, cmd, session, IF privileges = Unset THEN owner ELSE privileges)
            ELSE {Door(d.key[1], cmd, IF d.cell.verdict = "attempted" THEN d.cell
                                      ELSE Via(d.cell, session, privileges)) :
                     d \in ViewDoors(c, owner, cmd, {rel}, TRUE, session)}
                 \cup IF Holds(c, owner, c.views[rel], cmd) = "yes" THEN Attempted(rel, cmd) ELSE {}
    IN  {IF sets /\ d.cell.verdict = "conditional"
         THEN [d EXCEPT !.cell = Verdict("undecided")] ELSE d :
            d \in UNION {run(key[1], key[2]) : key \in UNION {Expanded(c, t) : t \in touches}}}
RunFunction(c, f) == RunAsOwner(c, c.fns[f].owner, c.fns[f].touches, c.fns[f].owner,
                                Unset, c.fns[f].sets)
\* The statements of a body are not parsed here: hidden holds those that the
\* code's walk of the body cannot follow.
Opaque(c, fs) == {f \in fs : c.fns[f].hidden # {}}

Callable(c, r) ==
    {f \in DOMAIN c.fns : /\ ~c.fns[f].trigger
                          /\ \/ r \in Super \/ c.fns[f].owner \in Held(c, r)
                             \/ c.fns[f].execute \cap (Held(c, r) \cup {Public}) # {}}
\* Without the graph, membership may make any other function callable.
Uncallable(c, r) == IF Known(c, r) THEN {}
                    ELSE {f \in DOMAIN c.fns : ~c.fns[f].trigger} \ Callable(c, r)
FunctionDoors(c, r) == UNION {RunFunction(c, f) : f \in Callable(c, r)}

\* Mutant: only statements that name the table fire its triggers.
FiresByName(c, t, cmd, tr, known, writes) == <<t, cmd>> \in writes
Fires(c, t, cmd, tr, known, writes) ==
    LET above == {a \in Ancestors(c, t) : Declarative(c, a, t)} IN
    IF cmd = "TRUNCATE"
    THEN \E a \in Ancestors(c, t) \cup {t} : <<a, cmd>> \in writes
    ELSE IF ~tr.row THEN <<t, cmd>> \in writes
    ELSE \/ /\ tr.timing = "BEFORE" /\ cmd = "INSERT"
            /\ \E a \in above \cup {t} : <<a, cmd>> \in writes
         \/ known[<<t, cmd>>].verdict # "denied"
         \/ /\ cmd \in {"INSERT", "DELETE"}
            /\ \E a \in above : known[<<a, "UPDATE">>].verdict # "denied"
\* A row trigger of a partitioned table is on its partitions too.
TriggersOn(c, t) ==
    c.tables[t].triggers
    \cup UNION {{tr \in c.tables[a].triggers : tr.row} :
                   a \in {x \in Ancestors(c, t) : Declarative(c, x, t)}}
Firing(c, known, writes) ==
    {tr.fn : tr \in UNION {{x \in TriggersOn(c, t) : Fires(c, t, x.cmd, x, known, writes)} :
                              t \in Tables(c)}}
TriggerDoors(c, known, writes) ==
    UNION {RunFunction(c, f) : f \in Firing(c, known, writes)}

RuleDoors(c, writes) ==
    UNION {RunAsOwner(c, Relation(c, r.rel).owner, r.touches, r.name, r.name, FALSE) :
              r \in {x \in c.rules : <<x.rel, x.cmd>> \in writes}}

FkAction(action) == CASE action = "CASCADE" -> {"DELETE"}
                      [] action \in {"SET NULL", "SET DEFAULT"} -> {"UPDATE"} [] OTHER -> {}
FkCommands(fk, cmd) ==
    IF cmd = "DELETE" THEN FkAction(fk.on_delete)
    ELSE IF FkAction(fk.on_update) # {} THEN {"UPDATE"} ELSE {}
FkDoors(c, known) ==
    UNION {UNION {{Door(x[1], cmd, Verdict("undecided"))} \cup Attempted(x[1], cmd) :
                     cmd \in UNION {IF known[<<fk.ref, x[2]>>].verdict = "denied" THEN {}
                                    ELSE FkCommands(fk, x[2]) : fk \in c.tables[x[1]].fks}} :
              x \in Tables(c) \X {"DELETE", "UPDATE"}}
ParentDoors(c, known) ==
    {Door(k[1], k[3], known[<<k[2], k[3]>>]) :
        k \in {x \in Tables(c) \X Tables(c) \X Commands :
                  x[2] \in Ancestors(c, x[1])
                  /\ (x[3] = "INSERT" => Declarative(c, x[2], x[1]))}}
-------------------------------------------------------------------------------
(* The engine: merging and rounds.                                         *)

Norm(who, r) == IF who = r THEN Unset ELSE who
Depends(cell, on) == (cell.any \cup cell.all) \cap on # {}
\* The same predicate, read by the same user with the same privileges.
SameFilter(x, y, r) ==
    /\ x.any = y.any /\ x.all = y.all
    /\ Depends(x, OnSession) => Norm(x.session, r) = Norm(y.session, r)
    /\ Depends(x, OnRelations) => Norm(x.privileges, r) = Norm(y.privileges, r)
\* _merge over all doors: the widest wins, and two filters that differ are not
\* combined.
Fold(cell, doors, r) ==
    LET all == {cell} \cup doors
        top == {x \in all : \A y \in all : Rank(x) >= Rank(y)}
        first == IF cell \in top THEN cell ELSE CHOOSE x \in top : TRUE
    IN  IF first.verdict = "conditional" /\ \E x \in top : ~SameFilter(first, x, r)
        THEN Verdict("undecided") ELSE first
FoldAll(c, from, doors, r) ==
    [k \in Keys(c) |-> Fold(from[k], {d.cell : d \in {x \in doors : x.key = k}}, r)]

Direct(c, r) == [k \in Keys(c) |-> CellFor(c, r, k[1], k[2])]
Issuable(c, r) ==
    {k \in (Tables(c) \cup Views(c)) \X (Commands \ {"SELECT"}) :
        /\ Holds(c, r, Relation(c, k[1]), k[2]) = "yes"
        /\ k[1] \in Views(c) => k[2] # "TRUNCATE"}
\* The doors the principal opens itself.
Chosen(c, r) == FunctionDoors(c, r)
                \cup UNION {ViewDoors(c, r, cmd, Views(c), FALSE, Unset) :
                               cmd \in Commands \ {"TRUNCATE"}}
Base(c, r) == FoldAll(c, Direct(c, r), Chosen(c, r), r)
\* The doors that follow from what is reached so far.
Followed(c, known, writes) ==
    ParentDoors(c, known) \cup FkDoors(c, known) \cup TriggerDoors(c, known, writes)
    \cup RuleDoors(c, writes)

Idle == [as |-> Unset, session |-> Unset, rel |-> Unset, cmd |-> Unset, named |-> FALSE,
         rows |-> {}, chosen |-> Unset, behind |-> Unset, moved |-> FALSE, guessed |-> FALSE]
Init == /\ cat \in Catalogues /\ me \in Principals /\ phase = "analysis" /\ exec = Idle
        /\ base = Base(cat, me) /\ cells = base
        /\ issuable = Issuable(cat, me) \cup Issued(Chosen(cat, me)) /\ reach = issuable
        /\ untraced = Opaque(cat, Callable(cat, me)) \cup Uncallable(cat, me)
\* Mutant: a round is compared with the start, not with the one before it.
TurnFromStart(doors) ==
    LET new == FoldAll(cat, base, doors, me)  more == issuable \cup Issued(doors) IN
    IF new = base /\ more = issuable
    THEN phase' = "session" /\ UNCHANGED <<cells, reach>>
    ELSE cells' = new /\ reach' = more /\ UNCHANGED phase
\* One turn of the loop in role_reach.
Turn(doors) ==
    LET new == FoldAll(cat, base, doors, me)  more == issuable \cup Issued(doors) IN
    IF new = cells /\ more = reach
    THEN phase' = "session" /\ UNCHANGED <<cells, reach>>
    ELSE cells' = new /\ reach' = more /\ UNCHANGED phase
Round == /\ phase = "analysis"
         /\ \E doors \in {Followed(cat, cells, reach)} : Turn(doors)
         /\ untraced' = Opaque(cat, Callable(cat, me)) \cup Uncallable(cat, me)
                        \cup Opaque(cat, Firing(cat, cells, reach))
         /\ UNCHANGED <<cat, me, base, issuable, exec>>
-------------------------------------------------------------------------------
(* A session of the principal.  A statement runs with the privileges and   *)
(* policies of one role while current_user may be another; what it touches *)
(* leads to further statements.                                            *)

May(as, rel, cmd) == Privileged(MemberOf(cat, as), as, Relation(cat, rel), cmd)
Bound(as, t, cmd) ==
    LET table == cat.tables[t] IN
    /\ table.rls /\ cmd # "TRUNCATE" /\ as \notin Super \cup Bypass
    /\ table.owner \in MemberOf(cat, as) => table.force
\* chosen: the body of the door ("here"), or of one before it ("before"), set
\* the parameters that filters read.
Passing(clause, as, session, chosen) ==
    IF clause = Absent THEN {}
    ELSE IF clause = Open \/ (chosen # Unset /\ clause \in OnSetting) THEN Rows
    ELSE ClauseRows[<<clause, session, as>>]
Visible(as, session, t, cmd, chosen) ==
    LET mine == {p \in cat.tables[t].policies :
                    p.cmd \in {"ALL", cmd} /\ p.roles \cap (MemberOf(cat, as) \cup {Public}) # {}}
        rows(p) == Passing(EffectiveClause(p, cmd), as, session, chosen)
    IN  IF ~Bound(as, t, cmd) THEN Rows
        ELSE {w \in UNION {rows(p) : p \in {q \in mine : q.permissive}} :
                \A p \in mine : ~p.permissive /\ EffectiveClause(p, cmd) # Absent => w \in rows(p)}
Statement(as, session, rel, cmd, chosen, behind) ==
    [as |-> as, session |-> session, rel |-> rel, cmd |-> cmd, named |-> TRUE,
     rows |-> IF rel \in Views(cat) \/ Instead(cat, rel, cmd) THEN {}
              ELSE Visible(as, session, rel, cmd, chosen),
     chosen |-> chosen, behind |-> behind, moved |-> FALSE,
     guessed |-> Holds(cat, as, Relation(cat, rel), cmd) = "unknown"]
\* Naming the tables of ts empties their descendants; no foreign key from
\* outside may be left.
Truncated(ts) == UNION {{t} \cup Descendants(cat, t) : t \in ts}
MayTruncate(as, ts) == /\ \A t \in ts : May(as, t, "TRUNCATE")
                       /\ UNION {Referencing(cat, t) : t \in Truncated(ts)} \subseteq Truncated(ts)
Executed(as, session, touch, chosen, behind) ==
    LET rel == touch[1]
        all == IF touch[2] = "TRUNCATE_CASCADE" THEN TruncateCascade(cat, rel) ELSE {rel}
    IN  IF touch[2] \in {"TRUNCATE", "TRUNCATE_CASCADE"}
        THEN {Statement(as, session, t, "TRUNCATE", chosen, behind) :
                 t \in IF MayTruncate(as, all) THEN Truncated(all) ELSE {}}
        ELSE IF May(as, rel, touch[2]) THEN {Statement(as, session, rel, touch[2], chosen, behind)}
        ELSE {}
\* The engine said that it does not know what lies behind.
Told(behind) == behind \in untraced \cup {Guess}
\* What the statement came through: what follows from one that the engine only
\* knows to be undecided is a guess.
Behind == IF exec.guessed THEN Guess ELSE exec.behind
\* A set parameter stays set for the statements that follow.
Kept == IF exec.chosen = Unset THEN Unset ELSE "before"
Body(f, behind) ==
    LET fn == cat.fns[f]
        chosen == IF fn.sets THEN "here" ELSE Kept IN
    (UNION {Executed(fn.owner, fn.owner, x, chosen, behind) : x \in fn.touches})
    \cup UNION {Executed(fn.owner, fn.owner, x, chosen, IF Told(behind) THEN behind ELSE f) :
                  x \in fn.hidden}
To(execs) == exec' \in execs /\ UNCHANGED <<cat, me, phase, base, issuable, cells, reach, untraced>>

Start == phase = "session" /\ exec = Idle
Issue(rel, cmd) == /\ Start /\ cmd # "TRUNCATE"
                   /\ To(Executed(me, me, <<rel, cmd>>, Unset, Unset))
IssueTruncate(ts) == /\ Start /\ MayTruncate(me, ts)
                     /\ To({Statement(me, me, t, "TRUNCATE", Unset, Unset) : t \in Truncated(ts)})
Call(f) == /\ Start /\ ~cat.fns[f].trigger
           /\ \/ me \in Super \/ cat.fns[f].owner \in MemberOf(cat, me)
              \/ cat.fns[f].execute \cap (MemberOf(cat, me) \cup {Public}) # {}
           /\ To(Body(f, IF cat.graph THEN Unset ELSE f))
OnTable == phase = "session" /\ exec.rel \in Tables(cat)
           /\ ~(exec.named /\ Instead(cat, exec.rel, exec.cmd))
OpenView == /\ phase = "session" /\ exec.rel \in Views(cat) /\ ~Instead(cat, exec.rel, exec.cmd)
            /\ LET v == cat.views[exec.rel] IN
               /\ exec.cmd # "SELECT" => ~v.mat /\ exec.cmd \in v.updatable
               /\ To(IF v.mat
                     THEN {[exec EXCEPT !.rel = t, !.named = FALSE, !.rows = Rows] :
                              t \in TablesBeneath(cat, exec.rel)}
                     ELSE {[x EXCEPT !.guessed = @ \/ exec.guessed \/ (exec.cmd # "SELECT" /\ ~v.known)] :
                              x \in Executed(IF v.invoker THEN exec.session ELSE v.owner, exec.session,
                                             <<v.ref, exec.cmd>>, exec.chosen, exec.behind)})
ReachChild(d) == /\ OnTable /\ ~exec.moved /\ exec.cmd # "TRUNCATE"
                 /\ cat.tables[d].parent = exec.rel
                 /\ exec.cmd = "INSERT" => cat.tables[d].declarative
                 /\ To({[exec EXCEPT !.rel = d, !.named = FALSE]})
\* An UPDATE may move a row from one partition to another.
MoveRow(d, cmd) == /\ OnTable /\ ~exec.moved /\ exec.cmd = "UPDATE" /\ exec.rows # {}
                   /\ exec.rel \in Ancestors(cat, d) /\ Declarative(cat, exec.rel, d)
                   /\ cmd \in {"INSERT", "DELETE"}
                   /\ To({[exec EXCEPT !.rel = d, !.cmd = cmd, !.named = FALSE, !.moved = TRUE]})
FireTrigger(tr) == /\ OnTable /\ tr \in TriggersOn(cat, exec.rel) /\ tr.cmd = exec.cmd
                   /\ \/ exec.cmd = "TRUNCATE"
                      \/ ~tr.row /\ exec.named /\ tr \in cat.tables[exec.rel].triggers
                      \/ tr.row /\ (exec.rows # {} \/ (tr.timing = "BEFORE" /\ exec.cmd = "INSERT"))
                   /\ To(Body(tr.fn, Behind))
ApplyRule(r) == /\ phase = "session" /\ exec.named /\ r.rel = exec.rel /\ r.cmd = exec.cmd
                /\ To(UNION {Executed(Relation(cat, r.rel).owner, exec.session, x, Kept,
                                      Behind) : x \in r.touches})
Cascade(x, fk) == /\ OnTable /\ ~exec.moved /\ exec.rows # {} /\ exec.cmd \in {"DELETE", "UPDATE"}
                  /\ fk \in cat.tables[x].fks /\ fk.ref = exec.rel
                  /\ To({[Statement(cat.tables[x].owner, cat.tables[x].owner, x, cmd, Kept,
                                    Behind) EXCEPT !.rows = Rows] :
                            cmd \in FkCommands(fk, exec.cmd)})

Next == \/ Round
        \/ \E rel \in Tables(cat) \cup Views(cat), cmd \in Commands : Issue(rel, cmd)
        \/ \E ts \in SUBSET Tables(cat) : IssueTruncate(ts)
        \/ \E f \in DOMAIN cat.fns : Call(f)
        \/ OpenView
        \/ \E d \in Tables(cat) : ReachChild(d) \/ \E cmd \in Commands : MoveRow(d, cmd)
        \/ \E tr \in UNION {cat.tables[t].triggers : t \in Tables(cat)} : FireTrigger(tr)
        \/ \E r \in cat.rules : ApplyRule(r)
        \/ \E x \in Tables(cat) : \E fk \in cat.tables[x].fks : Cascade(x, fk)
\* The engine's loop runs until it returns; a session need not.
Spec == Init /\ [][Next]_vars /\ WF_vars(Round)
-------------------------------------------------------------------------------
(* Properties.                                                             *)

TypeOK == /\ cat \in Catalogues /\ me \in Principals /\ phase \in {"analysis", "session"}
          /\ DOMAIN cells = Keys(cat) /\ untraced \subseteq DOMAIN cat.fns
          /\ exec.rows \subseteq Rows

\* The rows a conditional cell admits: a rule's filter is read by whoever wrote.
Readers(who) == IF who = Unset THEN {me} ELSE IF who \in Users THEN {who} ELSE Users
CellRows(cell) ==
    IF cell.verdict \in {"open", "undecided"} THEN Rows ELSE IF cell.verdict = "denied" THEN {}
    ELSE UNION {{w \in Rows : /\ cell.any # {} => \E x \in cell.any : w \in ClauseRows[<<x, s, p>>]
                              /\ \A x \in cell.all : w \in ClauseRows[<<x, s, p>>]} :
                   s \in Readers(cell.session), p \in Readers(cell.privileges)}
\* Every row a session touches - itself or through any chain of doors - is one
\* its matrix cell admits, or the door it came through is listed as untraced.
\* Known gap: a parameter set in one door's body is still set in the doors that
\* its writes open, whose filters the engine takes at their usual values.
CellsCoverReach ==
    /\ TypeOK
    /\ exec.rel \in Tables(cat) /\ ~exec.moved /\ exec.chosen # "before" =>
          exec.rows \subseteq CellRows(cells[<<exec.rel, exec.cmd>>]) \/ Told(exec.behind)

\* The rounds end.
AnalysisEnds == <>(phase = "session")
===============================================================================
