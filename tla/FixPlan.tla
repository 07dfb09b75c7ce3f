------------------------------- MODULE FixPlan -------------------------------
(***************************************************************************)
(* What `pgrls fix` plans for one table (src/pgrls/fixers): each fixer     *)
(* proposes statements from the schema it was given, generate_fixes keeps  *)
(* those that can run together, one writer per policy clause at most.      *)
(* Fixers of other objects (indexes, functions, views, grants) are left    *)
(* out; their statements commute with these.                               *)
(***************************************************************************)
EXTENDS RowSecurity

CONSTANT Allowlist    \* pairs <<rule, policy name or 0>> the configuration exempts

\* The rule ids in the order the plan is sorted by.
Rank == [HYG003 |-> 1, PERF001 |-> 2, SEC001 |-> 3, SEC002 |-> 4, SEC004 |-> 5,
         SEC010 |-> 6, SEC011 |-> 7, SEC019 |-> 8, SEC020 |-> 9, SEC031 |-> 10,
         SEC032 |-> 11]
Rules == DOMAIN Rank
NarrowingRules == {"SEC004", "SEC011", "SEC020"}
\* The drop fixers in the order they run.
DropOrder == [SEC010 |-> 1, SEC031 |-> 2, HYG003 |-> 3]
DropRules == DOMAIN DropOrder
TableRules == {"SEC001", "SEC002", "SEC032"}

\* SEC004 has no allowlist.
ASSUME AllowlistAssumption == Allowlist \subseteq (Rules \ {"SEC004"}) \X (Names \cup {0})

\* A statement: its rule, its policy (0: the table), the clauses it re-emits.
ThisTable == 0
Fix(rule, n, new) == [rule |-> rule, at |-> n, new |-> new]
NoClauses == [c \in {} |-> Absent]
\* The clauses of policy p that `rewrite` changes.
Changed(p, rewrite) == [c \in {k \in Clauses : rewrite[k] # p[k]} |-> rewrite[c]]
-------------------------------------------------------------------------------
(* Rewriting a clause.                                                      *)

LiteralTrue(c) == Len(c) = 1 /\ Len(c[1]) = 1 /\ c[1][1].test = "true"
LiteralFalse(c) == Len(c) = 1 /\ Len(c[1]) = 1 /\ c[1][1].test = "false"

\* The tests of a disjunction but those named `test`.
Without(d, test) ==
    LET kept[i \in 0 .. Len(d)] ==
            IF i = 0 THEN <<>>
            ELSE IF d[i].test = test THEN kept[i - 1] ELSE Append(kept[i - 1], d[i])
    IN  kept[Len(d)]

\* SEC004: drop `auth() IS NULL` from an OR at the root, if a real check stays.
StripNullAuth(c) ==
    IF Len(c) # 1 THEN c
    ELSE LET kept == Without(c[1], "noauth")
         IN  IF kept = <<>> \/ \E i \in DOMAIN kept : kept[i].test = "true"
             THEN c ELSE <<kept>>

\* SEC011: drop `true` from every OR under AND; impossible if nothing is left.
RealTests(d) == Without(d, "true")
CannotStripTrue(c) == \E i \in DOMAIN c : Len(c[i]) > 1 /\ RealTests(c[i]) = <<>>
StripTrue(c) ==
    [i \in DOMAIN c |-> IF Len(c[i]) = 1 THEN c[i] ELSE RealTests(c[i])]

\* SEC019: missing_ok in comparisons that only ANDs enclose.
AddMissingOk(c) ==
    [i \in DOMAIN c |->
        IF Len(c[i]) = 1 /\ c[i][1].test = "own"
        THEN <<[c[i][1] EXCEPT !.missingOk = TRUE]>> ELSE c[i]]

\* PERF001: wrap every auth call.
Wrap(c) ==
    [i \in DOMAIN c |-> [j \in DOMAIN c[i] |->
        IF c[i][j].test \in {"own", "noauth"}
        THEN [c[i][j] EXCEPT !.wrapped = TRUE] ELSE c[i][j]]]
-------------------------------------------------------------------------------
(* Fixers: the statements each proposes for table t.                        *)

\* new: of each policy, its rewritten clauses.
Rewrites(t, rule, new) ==
    {Fix(rule, n, new[n]) :
        n \in {m \in DOMAIN t.pol : <<rule, m>> \notin Allowlist /\ new[m] # NoClauses}}
Drops(rule, flagged) ==
    {Fix(rule, n, NoClauses) : n \in {m \in flagged : <<rule, m>> \notin Allowlist}}

NoNullAuth(p) == Changed(p, [c \in Clauses |-> StripNullAuth(p[c])])
NoOrTrue(p) ==
    IF CannotStripTrue(p.using) \/ CannotStripTrue(p.check) THEN NoClauses
    ELSE Changed(p, [c \in Clauses |-> StripTrue(p[c])])
MissingOk(p) == Changed(p, [c \in Clauses |-> AddMissingOk(p[c])])
Wrapped(p) == Changed(p, [c \in Clauses |-> Wrap(p[c])])

\* SEC020: a real USING becomes the WITH CHECK that was literally true.
MirroredUsing(p) ==
    IF /\ p.using # Absent /\ ~LiteralTrue(p.using) /\ LiteralTrue(p.check)
       /\ ~CannotStripTrue(p.using) /\ ~LiteralTrue(StripTrue(p.using))
    THEN [c \in {"check"} |-> StripTrue(p.using)] ELSE NoClauses

Duplicate(t, n) == \E m \in DOMAIN t.pol : m < n /\ t.pol[m] = t.pol[n]
\* A permissive policy that grants nothing.
InertPermissive(p) ==
    /\ p.permissive
    /\ CASE p.cmd \in {"SELECT", "DELETE"} -> LiteralFalse(p.using)
         [] p.cmd = "INSERT" -> LiteralFalse(p.check)
         [] p.cmd \in {"UPDATE", "ALL"} ->
                LiteralFalse(p.using) /\ (p.check = Absent \/ LiteralFalse(p.check))
\* Mutant: the WITH CHECK of a restrictive policy is not looked at.
OpenRestrictive(p) == ~p.permissive /\ LiteralTrue(p.using)
\* A restrictive policy that restricts nothing.
InertRestrictive(p) ==
    ~p.permissive /\ LiteralTrue(p.using) /\ (p.check = Absent \/ LiteralTrue(p.check))

OnTable(rule, flagged) ==
    IF flagged /\ <<rule, ThisTable>> \notin Allowlist
    THEN {Fix(rule, ThisTable, NoClauses)} ELSE {}

Proposed(t) ==
    LET Here == DOMAIN t.pol IN
    UNION {Drops("HYG003", {n \in Here : Duplicate(t, n)}),
           Drops("SEC010", {n \in Here : InertPermissive(t.pol[n])}),
           Drops("SEC031", {n \in Here : InertRestrictive(t.pol[n])}),
           Rewrites(t, "PERF001", [n \in Here |-> Wrapped(t.pol[n])]),
           Rewrites(t, "SEC004", [n \in Here |-> NoNullAuth(t.pol[n])]),
           Rewrites(t, "SEC011", [n \in Here |-> NoOrTrue(t.pol[n])]),
           Rewrites(t, "SEC019", [n \in Here |-> MissingOk(t.pol[n])]),
           Rewrites(t, "SEC020", [n \in Here |-> MirroredUsing(t.pol[n])]),
           OnTable("SEC001", ~t.rls /\ Here = {}),
           OnTable("SEC002", t.rls /\ ~t.force),
           OnTable("SEC032", ~t.rls /\ Here # {})}
-------------------------------------------------------------------------------
(* generate_fixes.                                                          *)

\* Mutant: nothing is suppressed.
Everyone(fixes) == fixes
\* A policy is dropped once, by the first fixer, and a dropped policy is not altered.
Droppers(fixes, n) == {f \in fixes : f.rule \in DropRules /\ f.at = n}
Runnable(fixes) ==
    {f \in fixes :
        IF f.rule \in DropRules
        THEN \A g \in Droppers(fixes, f.at) : DropOrder[f.rule] <= DropOrder[g.rule]
        ELSE Droppers(fixes, f.at) = {}}

\* Among the writers of a clause, narrowing ones come first, then the first rule.
Contenders(fixes, n, c) == {f \in fixes : f.at = n /\ c \in DOMAIN f.new}
Beats(f, g) == IF (f.rule \in NarrowingRules) # (g.rule \in NarrowingRules)
               THEN f.rule \in NarrowingRules
               ELSE Rank[f.rule] < Rank[g.rule]
Keeper(fixes, f, c) == \A g \in Contenders(fixes, f.at, c) : ~Beats(g, f)
\* Mutant: a contested clause has no keeper.
Uncontested(fixes) ==
    {f \in fixes : \A c \in DOMAIN f.new : Contenders(fixes, f.at, c) = {f}}
\* A statement that loses one clause is dropped whole.
OneWriter(fixes) == {f \in fixes : \A c \in DOMAIN f.new : Keeper(fixes, f, c)}

GenerateFixes(t, ruleFilter) ==
    OneWriter(Runnable({f \in Proposed(t) : f.rule \in ruleFilter}))

\* The plan is sorted by rule, then by location.
Precedes(f, g) == \/ Rank[f.rule] < Rank[g.rule]
                  \/ Rank[f.rule] = Rank[g.rule] /\ f.at <= g.at
First(todo) == CHOOSE f \in todo : \A g \in todo : Precedes(f, g)
-------------------------------------------------------------------------------
(* Statements.                                                              *)

\* PostgreSQL rejects a policy that is not there, and a clause its command
\* does not have.
Executable(f, t) ==
    f.at # ThisTable =>
        /\ f.at \in DOMAIN t.pol
        /\ \A c \in DOMAIN f.new : Takes(t.pol[f.at].cmd, c)

Execute(f, t) ==
    CASE f.rule \in {"SEC001", "SEC032"} -> [t EXCEPT !.rls = TRUE]
      [] f.rule = "SEC002" -> [t EXCEPT !.force = TRUE]
      [] f.rule \in DropRules ->
             [t EXCEPT !.pol = [n \in DOMAIN @ \ {f.at} |-> @[n]]]
      [] f.rule \notin DropRules \cup TableRules ->
             [t EXCEPT !.pol[f.at] =
                 [k \in DOMAIN @ |-> IF k \in DOMAIN f.new THEN f.new[k] ELSE @[k]]]

\* What statement f was to achieve still holds of t.
Achieved(f, t) ==
    CASE f.rule \in {"SEC001", "SEC032"} -> t.rls
      [] f.rule = "SEC002" -> t.force
      [] f.rule \in DropRules -> f.at \notin DOMAIN t.pol
      [] f.rule \notin DropRules \cup TableRules ->
             /\ f.at \in DOMAIN t.pol
             /\ \A c \in DOMAIN f.new : t.pol[f.at][c] = f.new[c]
==============================================================================
