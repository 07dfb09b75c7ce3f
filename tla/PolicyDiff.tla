----------------------------- MODULE PolicyDiff -----------------------------
(***************************************************************************)
(* `pgrls diff` on one table: a migration edits the head, a statement at a *)
(* time, and Changes(base, head, m) are the changes diff_schemas reports,  *)
(* each with its classification.  PredicateCompare grades clauses.         *)
(***************************************************************************)
EXTENDS PredicateCompare

CONSTANTS Roles,        \* the roles a policy or a grant may name
          Public,       \* the pseudo-role that covers every role
          Names,        \* policy names
          Policies,     \* the policies a migration may create
          Clauses,      \* the clauses an ALTER POLICY may set
          Bases,        \* the tables diffs start from
          MaxEdits      \* bound: statements of a migration

Grantees == Roles \cup {Public}
Commands == {"ALL", "SELECT", "INSERT", "UPDATE", "DELETE"}
Privileges == Commands \ {"ALL"}
\* USING and WITH CHECK; INSERT policies have no USING, SELECT and DELETE
\* policies no WITH CHECK.
IsPolicy(p) ==
    /\ DOMAIN p = {"cmd", "permissive", "roles", "using", "check"}
    /\ p.cmd \in Commands /\ p.permissive \in BOOLEAN
    /\ p.roles \in (SUBSET Grantees) \ {{}}
    /\ p.cmd = "INSERT" => p.using = Absent
    /\ p.cmd \in {"SELECT", "DELETE"} => p.check = Absent
    /\ IsClause(p.using) /\ IsClause(p.check)
\* hasY: the column y exists.
IsTable(t) ==
    /\ DOMAIN t = {"rls", "force", "pol", "grants", "hasY"}
    /\ {t.rls, t.force, t.hasY} \subseteq BOOLEAN
    /\ DOMAIN t.pol \subseteq Names /\ \A n \in DOMAIN t.pol : IsPolicy(t.pol[n])
    /\ t.grants \subseteq Grantees \X Privileges

ASSUME DiffAssumption == /\ Public \notin Roles /\ MaxEdits \in Nat
                         /\ \A c \in Clauses : IsClause(c)
                         /\ \A p \in Policies : IsPolicy(p)
                         /\ \A t \in Bases : IsTable(t)

VARIABLES base, head, edits
vars == <<base, head, edits>>
TypeOK == IsTable(base) /\ IsTable(head) /\ edits \in 0..MaxEdits
Init == base \in Bases /\ head = base /\ edits = 0
-------------------------------------------------------------------------------
(* The migration.                                                          *)

Edited(t) == /\ edits < MaxEdits /\ t # head
             /\ head' = t /\ edits' = edits + 1 /\ UNCHANGED base
WithPolicies(pol) == Edited([head EXCEPT !.pol = pol])
Without(pol, n) == [k \in DOMAIN pol \ {n} |-> pol[k]]
With(pol, n, p) == [k \in DOMAIN pol \cup {n} |-> IF k = n THEN p ELSE pol[k]]
Reads(e, col) == \E c \in e.args : \E l \in c :
                    col = "y" /\ l.atom \in {"y1", "y2", "ynull"}

CreatePolicy(n, p) == /\ n \notin DOMAIN head.pol
                      /\ head.hasY \/ ~(Reads(p.using, "y") \/ Reads(p.check, "y"))
                      /\ WithPolicies(With(head.pol, n, p))
DropPolicy(n) == WithPolicies(Without(head.pol, n))
RenamePolicy(n, to) == /\ to \notin DOMAIN head.pol
                       /\ WithPolicies(With(Without(head.pol, n), to, head.pol[n]))
AlterRoles(n, roles) == WithPolicies([head.pol EXCEPT ![n].roles = roles])
AlterUsing(n, e) == /\ head.pol[n].using # Absent /\ e # Absent
                    /\ head.hasY \/ ~Reads(e, "y")
                    /\ WithPolicies([head.pol EXCEPT ![n].using = e])
AlterCheck(n, e) == /\ head.pol[n].cmd \notin {"SELECT", "DELETE"} /\ e # Absent
                    /\ head.hasY \/ ~Reads(e, "y")
                    /\ WithPolicies([head.pol EXCEPT ![n].check = e])
\* DROP POLICY and CREATE POLICY with the old clauses, and another command
\* or kind.
Recreate(n, cmd, permissive) ==
    LET p == [head.pol[n] EXCEPT !.cmd = cmd, !.permissive = permissive] IN
    /\ IsPolicy(p) /\ WithPolicies([head.pol EXCEPT ![n] = p])
SetRls(on) == Edited([head EXCEPT !.rls = on])
SetForce(on) == Edited([head EXCEPT !.force = on])
GrantOn(r, v) == Edited([head EXCEPT !.grants = @ \cup {<<r, v>>}])
RevokeOn(r, v) == Edited([head EXCEPT !.grants = @ \ {<<r, v>>}])
\* DROP COLUMN y CASCADE drops the policies that read it.
DropColumn ==
    Edited([head EXCEPT !.hasY = FALSE,
               !.pol = [n \in {k \in DOMAIN @ : ~Reads(@[k].using, "y")
                                                /\ ~Reads(@[k].check, "y")} |-> @[n]]])

Next == \/ \E n \in Names, p \in Policies : CreatePolicy(n, p)
        \/ \E n \in DOMAIN head.pol :
              \/ DropPolicy(n) \/ \E to \in Names : RenamePolicy(n, to)
              \/ \E r \in (SUBSET Grantees) \ {{}} : AlterRoles(n, r)
              \/ \E e \in Clauses : AlterUsing(n, e) \/ AlterCheck(n, e)
              \/ \E c \in Commands, b \in BOOLEAN : Recreate(n, c, b)
        \/ \E on \in BOOLEAN : SetRls(on) \/ SetForce(on)
        \/ \E r \in Grantees, v \in Privileges : GrantOn(r, v) \/ RevokeOn(r, v)
        \/ DropColumn
Spec == Init /\ [][Next]_vars
-------------------------------------------------------------------------------
(* diff_schemas.                                                           *)

Change(grade, what) == [grade |-> grade, what |-> what]
Verdict == [p \in (Clauses \cup {Absent}) \X (Clauses \cup {Absent})
                  |-> ComparePredicates(p[1], p[2])]
Compare(b, h) == IF <<b, h>> \in DOMAIN Verdict THEN Verdict[b, h]
                 ELSE ComparePredicates(b, h)
\* Mutant: WITH CHECK is not compared.
UsingGrades(b, h) == {ResultGrade(r) : r \in {Compare(b.using, h.using)} \ EqualResults}
ClauseGrades(b, h) ==
    {ResultGrade(r) : r \in {Compare(b.using, h.using), Compare(b.check, h.check)}
                            \ EqualResults}
Worst(grades) == CHOOSE g \in grades :
    \/ g = "dangerous"
    \/ g = "requires_review" /\ "dangerous" \notin grades
    \/ g = "safe" /\ grades = {"safe"}

\* One-sided policies with the same kind, command and roles are a rename if
\* there is exactly one on each side, and (unless relaxed) their clauses are
\* equal.  A rename is reported instead of a drop and an addition.
\* Mutant: the roles are not part of the key.
BucketByKind(t, other, p) ==
    {n \in DOMAIN t.pol \ DOMAIN other.pol :
        t.pol[n].cmd = p.cmd /\ t.pol[n].permissive = p.permissive}
Bucket(t, other, p) ==
    {n \in DOMAIN t.pol \ DOMAIN other.pol :
        [t.pol[n] EXCEPT !.using = Absent, !.check = Absent]
        = [p EXCEPT !.using = Absent, !.check = Absent]}
Renames(b, h, mode) ==
    {pr \in (DOMAIN b.pol \ DOMAIN h.pol) \X (DOMAIN h.pol \ DOMAIN b.pol) :
        /\ mode.detection # "off"
        /\ Bucket(b, h, b.pol[pr[1]]) = {pr[1]}
        /\ Bucket(h, b, b.pol[pr[1]]) = {pr[2]}
        /\ mode.detection = "relaxed" \/ ClauseGrades(b.pol[pr[1]], h.pol[pr[2]]) = {}}
RenameChanges(b, h, mode) ==
    {LET grades == ClauseGrades(b.pol[pr[1]], h.pol[pr[2]])
     IN  Change(IF grades = {} THEN mode.classification ELSE Worst(grades), "renamed")
        : pr \in Renames(b, h, mode)}

DiffPolicies(b, h, mode) ==
    LET renames == Renames(b, h, mode)
        added == (DOMAIN h.pol \ DOMAIN b.pol) \ {pr[2] : pr \in renames}
        dropped == (DOMAIN b.pol \ DOMAIN h.pol) \ {pr[1] : pr \in renames}
    IN  RenameChanges(b, h, mode)
        \cup {Change(IF h.pol[n].permissive THEN "dangerous" ELSE "safe", "added") : n \in added}
        \cup {Change(IF b.pol[n].permissive THEN "breaking" ELSE "dangerous", "dropped")
                : n \in dropped}

FlagChange(b, h) ==
    IF b.permissive = h.permissive THEN {}
    ELSE {Change(IF b.permissive THEN "safe" ELSE "dangerous", "flag")}
CommandChange(b, h) ==
    IF b.cmd = h.cmd THEN {}
    ELSE {Change(IF h.cmd = "ALL" THEN "dangerous" ELSE "breaking", "command")}
RolesChange(b, h) ==
    IF b.roles = h.roles THEN {}
    ELSE {Change(IF b.roles \subseteq h.roles \/ (Public \in h.roles \ b.roles) THEN "dangerous"
                 ELSE IF h.roles \subseteq b.roles THEN "safe"
                 ELSE "requires_review", "roles")}
DiffPolicyShapes(b, h) ==
    UNION {LET x == b.pol[n]  y == h.pol[n] IN
           FlagChange(x, y) \cup CommandChange(x, y) \cup RolesChange(x, y)
           \cup {Change(g, "clause") : g \in ClauseGrades(x, y)}
             : n \in DOMAIN b.pol \cap DOMAIN h.pol}

\* A reference with any qualifier counts: the subquery of "member" reads m.y.
References(e) == \E c \in e.args : \E l \in c : l.atom \in {"y1", "y2", "ynull", "member"}
DiffColumns(b, h) ==
    IF b.hasY /\ ~h.hasY
       /\ \E n \in DOMAIN h.pol : References(h.pol[n].using) \/ References(h.pol[n].check)
    THEN {Change("requires_review", "column")} ELSE {}

DiffGrants(b, h) ==
    {Change("safe", "revoked") : g \in b.grants \ h.grants}
    \cup {Change(IF g[1] = Public /\ ~h.rls THEN "dangerous" ELSE "requires_review", "granted")
            : g \in h.grants \ b.grants}

Flipped(b, h, what) ==
    IF b = h THEN {} ELSE {Change(IF h THEN "safe" ELSE "dangerous", what)}
Changes(b, h, mode) ==
    Flipped(b.rls, h.rls, "rls") \cup Flipped(b.force, h.force, "force")
    \cup DiffPolicies(b, h, mode) \cup DiffPolicyShapes(b, h)
    \cup DiffColumns(b, h) \cup DiffGrants(b, h)
Modes == [detection : {"off", "strict", "relaxed"}, classification : {"safe", "requires_review"}]
\* The classifications that fail `pgrls diff --fail-on` t.
FailOn(t) == CASE t = "safe" -> {"safe", "breaking", "requires_review", "dangerous"}
               [] t = "breaking" -> {"breaking", "requires_review", "dangerous"}
               [] t = "requires-review" -> {"requires_review", "dangerous"}
               [] t = "dangerous" -> {"dangerous"}
-------------------------------------------------------------------------------
(* What the server admits.                                                 *)

\* A request: an unprivileged role, or the table's owner, who has every
\* privilege and is subject to policies only if they are forced.
Owner == "owner"
Requesters == Roles \cup {Owner}
Operations == {<<"SELECT", "old">>, <<"INSERT", "new">>, <<"UPDATE", "old">>,
               <<"UPDATE", "new">>, <<"DELETE", "old">>}
Gate(p, op) == IF op[2] = "new" /\ p.check # Absent THEN p.check ELSE p.using
Governing(t, r, op, permissive) ==
    {n \in DOMAIN t.pol : /\ t.pol[n].permissive = permissive
                          /\ t.pol[n].cmd \in {"ALL", op[1]}
                          /\ t.pol[n].roles \cap {r, Public} # {}}
AdmittedByClause == [e \in Clauses \cup {Absent} |-> Admitted(e)]
GateRows(p, op) ==
    LET e == Gate(p, op) IN
    IF e \in DOMAIN AdmittedByClause THEN AdmittedByClause[e] ELSE Admitted(e)
AdmittedRows(t, r, op) ==
    IF r # Owner /\ {<<r, op[1]>>, <<Public, op[1]>>} \cap t.grants = {} THEN {}
    ELSE IF ~t.rls \/ (r = Owner /\ ~t.force) THEN Rows
    ELSE {w \in Rows : /\ \E n \in Governing(t, r, op, TRUE) : w \in GateRows(t.pol[n], op)
                       /\ \A n \in Governing(t, r, op, FALSE) : w \in GateRows(t.pol[n], op)}
Accesses(t) == {x \in Requesters \X Operations \X Rows : x[3] \in AdmittedRows(t, x[1], x[2])}
Widened == \E r \in Requesters, op \in Operations :
               ~(AdmittedRows(head, r, op) \subseteq AdmittedRows(base, r, op))
-------------------------------------------------------------------------------
(* Properties.                                                             *)

\* The changes that widen access under a grade that says it does not: a
\* RESTRICTIVE policy that comes to govern fewer roles or another command, and
\* a permissive policy that moves from one command to another.
Misgraded(b, h) ==
    \/ ~b.permissive /\ ~h.permissive /\ h.roles \subseteq b.roles /\ h.roles # b.roles
    \/ ~b.permissive /\ ~h.permissive /\ h.cmd \notin {b.cmd, "ALL"}
    \/ h.permissive /\ b.cmd # "ALL" /\ h.cmd \notin {b.cmd, "ALL"}
Legible(t) == \A n \in DOMAIN t.pol : ~Blind(t.pol[n].using) /\ ~Blind(t.pol[n].check)

\* Whatever the mode, a migration after which somebody may do to some row what
\* they could not do before has a change that fails --fail-on requires-review,
\* apart from those that Misgraded names and clauses blind to NULL.
WideningReported ==
    /\ TypeOK
    /\ ( /\ Widened /\ Legible(base)
          /\ \A n \in DOMAIN base.pol \cap DOMAIN head.pol :
                ~Misgraded(base.pol[n], head.pol[n]) )
       => \A mode \in Modes :
             \E c \in Changes(base, head, mode) : c.grade \in FailOn("requires-review")

\* A diff that reports no change, or only renames of mode "safe", compares
\* tables that admit the same accesses: nothing is lost or gained silently.
QuietMeansEqual ==
    (Legible(base) /\ Legible(head))
    => \A mode \in Modes :
          Changes(base, head, mode) \subseteq {Change("safe", "renamed")}
          /\ mode.detection # "relaxed"
          => Accesses(base) = Accesses(head)

\* Every row with the columns of a reported counterexample is admitted by the
\* head's clause and not by the base's.
CounterexamplesLeak ==
    \A n \in DOMAIN base.pol \cap DOMAIN head.pol :
        LET b == base.pol[n].using  h == head.pol[n].using IN
        (~Blind(b) /\ ~Blind(h))
        => \A y \in Counterexamples(b, h) : \A w \in Rows :
              y \in {0, w.y} => w \in Admitted(h) \ Admitted(b)
===============================================================================
