---------------------------- MODULE FixApplyProofs ----------------------------
(***************************************************************************)
(* What holds of fix --apply for any tables, rule filters and allowlists.  *)
(* Of one plan: the statements generate_fixes keeps do not undo or hinder  *)
(* each other.  Of any number of runs, migrations and failures: what a run *)
(* commits is the effect of its whole plan (EveryFixSurvives).  Of a       *)
(* single run that no migration disturbs: it never meets a statement that  *)
(* PostgreSQL rejects (PlanRuns), and it is one step from the table it     *)
(* finds to what its plan makes of it, or none (RunsAreAtomic).  Of what a *)
(* plan admits: nothing that its table hid (NothingHiddenIsAdmitted,       *)
(* FreshPlansNarrow).                                                      *)
(***************************************************************************)
EXTENDS FixApply, WellFoundedInduction, TLAPS

\* What the lemmas need of a table, and what every statement keeps: a policy
\* has no clause that its command does not have.
ShapedPolicy(p) ==
    /\ DOMAIN p = {"cmd", "permissive", "using", "check"}
    /\ \A c \in Clauses : Takes(p.cmd, c) \/ p[c] = Absent
Shaped(t) == /\ DOMAIN t = {"rls", "force", "pol"}
             /\ DOMAIN t.pol \subseteq Names
             /\ \A n \in DOMAIN t.pol : ShapedPolicy(t.pol[n])

\* The policies of the model are shaped.
LEMMA PoliciesAreShaped == \A p \in Policy : ShapedPolicy(p)
BY DEF Policy, ShapedPolicy
\* So is a table made of them.
LEMMA TablesAreShaped ==
    ASSUME NEW t, IsTable(t)
    PROVE  Shaped(t)
BY PoliciesAreShaped DEF IsTable, Shaped
-------------------------------------------------------------------------------
(* What the fixers propose.                                                 *)

\* The rules of the model by name, and whose statements they are.
LEMMA RuleNames ==
    /\ Rules = {"HYG003", "PERF001", "SEC001", "SEC002", "SEC004", "SEC010",
                "SEC011", "SEC019", "SEC020", "SEC031", "SEC032"}
    /\ DropRules = {"HYG003", "SEC010", "SEC031"}
BY DEF Rules, Rank, DropRules, DropOrder

\* What a clause-rewriting rule makes of policy p; nothing for other rules.
NewOf(rule, p) ==
    CASE rule = "PERF001" -> Wrapped(p)   [] rule = "SEC004" -> NoNullAuth(p)
      [] rule = "SEC011" -> NoOrTrue(p)   [] rule = "SEC019" -> MissingOk(p)
      [] rule = "SEC020" -> MirroredUsing(p)
      [] OTHER -> NoClauses

\* The rule and the location of a proposed statement determine it.
Determined(f, t) ==
    /\ f.rule \in Rules
    /\ f.rule \in TableRules => f = Fix(f.rule, ThisTable, NoClauses)
    /\ f.rule \notin TableRules =>
           f.at \in DOMAIN t.pol /\ f = Fix(f.rule, f.at, NewOf(f.rule, t.pol[f.at]))

\* A statement for a policy of the table is determined.
LEMMA OfPolicy ==
    ASSUME NEW t, NEW rule \in Rules \ TableRules, NEW n \in DOMAIN t.pol,
           NEW f, f = Fix(rule, n, NewOf(rule, t.pol[n]))
    PROVE  Determined(f, t)
<1>1. f.rule = rule /\ f.at = n
  BY DEF Fix
<1> QED
  BY <1>1 DEF Determined

\* A statement for the table is determined.
LEMMA OfTable ==
    ASSUME NEW t, NEW rule \in TableRules, NEW flagged, NEW f \in OnTable(rule, flagged)
    PROVE  Determined(f, t)
<1>1. f = Fix(rule, ThisTable, NoClauses)
  BY DEF OnTable
<1>2. f.rule = rule
  BY <1>1 DEF Fix
<1> QED
  BY <1>1, <1>2, RuleNames DEF Determined, TableRules

\* Every fixer proposes at most one statement per policy or table.
LEMMA ProposedDetermined ==
    ASSUME NEW t, NEW f \in Proposed(t)
    PROVE  Determined(f, t)
<1>1. CASE f \in Rewrites(t, "PERF001", [n \in DOMAIN t.pol |-> Wrapped(t.pol[n])])
  <2>1. PICK n \in DOMAIN t.pol : f = Fix("PERF001", n, Wrapped(t.pol[n]))
    BY <1>1 DEF Rewrites
  <2>2. Wrapped(t.pol[n]) = NewOf("PERF001", t.pol[n]) /\ "PERF001" \in Rules \ TableRules
    BY RuleNames DEF NewOf, TableRules
  <2> QED
    BY <2>1, <2>2, OfPolicy
<1>2. CASE f \in Rewrites(t, "SEC004", [n \in DOMAIN t.pol |-> NoNullAuth(t.pol[n])])
  <2>1. PICK n \in DOMAIN t.pol : f = Fix("SEC004", n, NoNullAuth(t.pol[n]))
    BY <1>2 DEF Rewrites
  <2>2. NoNullAuth(t.pol[n]) = NewOf("SEC004", t.pol[n]) /\ "SEC004" \in Rules \ TableRules
    BY RuleNames DEF NewOf, TableRules
  <2> QED
    BY <2>1, <2>2, OfPolicy
<1>3. CASE f \in Rewrites(t, "SEC011", [n \in DOMAIN t.pol |-> NoOrTrue(t.pol[n])])
  <2>1. PICK n \in DOMAIN t.pol : f = Fix("SEC011", n, NoOrTrue(t.pol[n]))
    BY <1>3 DEF Rewrites
  <2>2. NoOrTrue(t.pol[n]) = NewOf("SEC011", t.pol[n]) /\ "SEC011" \in Rules \ TableRules
    BY RuleNames DEF NewOf, TableRules
  <2> QED
    BY <2>1, <2>2, OfPolicy
<1>4. CASE f \in Rewrites(t, "SEC019", [n \in DOMAIN t.pol |-> MissingOk(t.pol[n])])
  <2>1. PICK n \in DOMAIN t.pol : f = Fix("SEC019", n, MissingOk(t.pol[n]))
    BY <1>4 DEF Rewrites
  <2>2. MissingOk(t.pol[n]) = NewOf("SEC019", t.pol[n]) /\ "SEC019" \in Rules \ TableRules
    BY RuleNames DEF NewOf, TableRules
  <2> QED
    BY <2>1, <2>2, OfPolicy
<1>5. CASE f \in Rewrites(t, "SEC020", [n \in DOMAIN t.pol |-> MirroredUsing(t.pol[n])])
  <2>1. PICK n \in DOMAIN t.pol : f = Fix("SEC020", n, MirroredUsing(t.pol[n]))
    BY <1>5 DEF Rewrites
  <2>2. MirroredUsing(t.pol[n]) = NewOf("SEC020", t.pol[n]) /\ "SEC020" \in Rules \ TableRules
    BY RuleNames DEF NewOf, TableRules
  <2> QED
    BY <2>1, <2>2, OfPolicy
<1>6. CASE f \in Drops("HYG003", {n \in DOMAIN t.pol : Duplicate(t, n)})
  <2>1. PICK n \in DOMAIN t.pol : f = Fix("HYG003", n, NoClauses)
    BY <1>6 DEF Drops
  <2>2. NoClauses = NewOf("HYG003", t.pol[n]) /\ "HYG003" \in Rules \ TableRules
    BY RuleNames DEF NewOf, TableRules
  <2> QED
    BY <2>1, <2>2, OfPolicy
<1>7. CASE f \in Drops("SEC010", {n \in DOMAIN t.pol : InertPermissive(t.pol[n])})
  <2>1. PICK n \in DOMAIN t.pol : f = Fix("SEC010", n, NoClauses)
    BY <1>7 DEF Drops
  <2>2. NoClauses = NewOf("SEC010", t.pol[n]) /\ "SEC010" \in Rules \ TableRules
    BY RuleNames DEF NewOf, TableRules
  <2> QED
    BY <2>1, <2>2, OfPolicy
<1>8. CASE f \in Drops("SEC031", {n \in DOMAIN t.pol : InertRestrictive(t.pol[n])})
  <2>1. PICK n \in DOMAIN t.pol : f = Fix("SEC031", n, NoClauses)
    BY <1>8 DEF Drops
  <2>2. NoClauses = NewOf("SEC031", t.pol[n]) /\ "SEC031" \in Rules \ TableRules
    BY RuleNames DEF NewOf, TableRules
  <2> QED
    BY <2>1, <2>2, OfPolicy
<1>9. CASE f \in OnTable("SEC001", ~t.rls /\ DOMAIN t.pol = {})
  BY <1>9, OfTable DEF TableRules
<1>10. CASE f \in OnTable("SEC002", t.rls /\ ~t.force)
  BY <1>10, OfTable DEF TableRules
<1>11. CASE f \in OnTable("SEC032", ~t.rls /\ DOMAIN t.pol # {})
  BY <1>11, OfTable DEF TableRules
<1> QED
  BY <1>1, <1>2, <1>3, <1>4, <1>5, <1>6, <1>7, <1>8, <1>9, <1>10, <1>11 DEF Proposed

\* Two proposed statements of one rule and location are one.
LEMMA Unique ==
    ASSUME NEW t, NEW f \in Proposed(t), NEW g \in Proposed(t),
           f.rule = g.rule, f.at = g.at
    PROVE  f = g
<1>1. Determined(f, t) /\ Determined(g, t)
  BY ProposedDetermined
<1> QED
  BY <1>1 DEF Determined

\* A rewriting rule re-emits USING, WITH CHECK or both, and only clauses that
\* policies of the command have.
LEMMA NewClauses ==
    ASSUME NEW p, ShapedPolicy(p), NEW rule
    PROVE  /\ DOMAIN NewOf(rule, p) \subseteq Clauses
           /\ \A c \in DOMAIN NewOf(rule, p) : Takes(p.cmd, c)
<1> DEFINE Fits(new) == /\ DOMAIN new \subseteq Clauses
                       /\ \A c \in DOMAIN new : Takes(p.cmd, c)
<1>1. \A c \in Clauses : Takes(p.cmd, c) \/ p[c] = <<>>
  BY DEF ShapedPolicy, Absent
<1>2. ASSUME NEW rewrite, \A c \in Clauses : p[c] = <<>> => rewrite[c] = <<>>
      PROVE  Fits(Changed(p, rewrite))
  BY <1>1, <1>2 DEF Changed
<1>3. /\ StripNullAuth(<<>>) = <<>> /\ StripTrue(<<>>) = <<>>
      /\ AddMissingOk(<<>>) = <<>> /\ Wrap(<<>>) = <<>>
  BY DEF StripNullAuth, StripTrue, AddMissingOk, Wrap
<1>4. Fits(NoClauses)
  BY DEF NoClauses
<1>5. Fits(MirroredUsing(p))
  <2>1. LiteralTrue(p.check) => Takes(p.cmd, "check")
    BY <1>1 DEF LiteralTrue, Clauses
  <2>2. CASE MirroredUsing(p) = NoClauses
    BY <2>2, <1>4
  <2>3. CASE MirroredUsing(p) # NoClauses
    BY <2>1, <2>3 DEF MirroredUsing, Clauses
  <2> QED
    BY <2>2, <2>3
<1> HIDE DEF Fits
<1>6. Fits(NoNullAuth(p))
  BY <1>2, <1>3 DEF NoNullAuth
<1>7. Fits(NoOrTrue(p))
  BY <1>2, <1>3, <1>4 DEF NoOrTrue
<1>8. Fits(MissingOk(p))
  BY <1>2, <1>3 DEF MissingOk
<1>9. Fits(Wrapped(p))
  BY <1>2, <1>3 DEF Wrapped
<1>10. Fits(NewOf(rule, p))
  BY <1>4, <1>5, <1>6, <1>7, <1>8, <1>9 DEF NewOf
<1> QED
  BY <1>10 DEF Fits

\* What every statement proposed for a table looks like; it can be executed.
Wellformed(f) ==
    /\ f.rule \in Rules /\ f.at \in Names \cup {ThisTable}
    /\ f.at = ThisTable <=> f.rule \in TableRules
    /\ f.rule \in TableRules \cup DropRules => DOMAIN f.new = {}
    /\ DOMAIN f.new \subseteq Clauses

\* What a fixer proposes is well-formed and can be executed.
LEMMA ProposedFits ==
    ASSUME NEW t, Shaped(t), NEW f \in Proposed(t)
    PROVE  Wellformed(f) /\ Executable(f, t)
<1>1. Determined(f, t)
  BY ProposedDetermined
<1>2. DOMAIN NoClauses = {} /\ ThisTable \notin Names
  BY DEF NoClauses, ThisTable, Names
<1>3. CASE f.rule \in TableRules
  <2>1. f.at = ThisTable /\ f.new = NoClauses
    BY <1>1, <1>3 DEF Determined, Fix
  <2> QED
    BY <2>1, <1>1, <1>2, <1>3 DEF Wellformed, Executable, Determined
<1>4. CASE f.rule \notin TableRules
  <2>1. f.at \in DOMAIN t.pol /\ f.new = NewOf(f.rule, t.pol[f.at])
    BY <1>1, <1>4 DEF Determined, Fix
  <2>2. ShapedPolicy(t.pol[f.at]) /\ f.at \in Names
    BY <2>1 DEF Shaped
  <2>3. DOMAIN f.new \subseteq Clauses /\ \A c \in DOMAIN f.new : Takes(t.pol[f.at].cmd, c)
    BY <2>1, <2>2, NewClauses
  <2>4. f.rule \in DropRules => DOMAIN f.new = {}
    BY <2>1, <1>2, RuleNames DEF NewOf
  <2> QED
    BY <2>1, <2>2, <2>3, <2>4, <1>1, <1>2, <1>4 DEF Wellformed, Executable, Determined
<1> QED
  BY <1>3, <1>4
-------------------------------------------------------------------------------
(* What generate_fixes keeps.                                               *)

\* Two statements for one policy write different clauses of it, and neither
\* of them drops it; so do two for the table, whose clauses are none.
Compatible(f, g) ==
    f.at = g.at =>
        /\ f.rule \notin DropRules /\ g.rule \notin DropRules
        /\ DOMAIN f.new \cap DOMAIN g.new = {}

\* Different rules have different ranks.
LEMMA RankInjective ==
    ASSUME NEW q \in Rules, NEW r \in Rules
    PROVE  Rank[q] \in Nat /\ (Rank[q] = Rank[r] => q = r)
BY RuleNames DEF Rank

\* Of two writers of a clause that are both kept on it, neither beats the
\* other: they have the same rule.
LEMMA BeatsTotal ==
    ASSUME NEW f, NEW g, f.rule \in Rules, g.rule \in Rules,
           ~Beats(f, g), ~Beats(g, f)
    PROVE  f.rule = g.rule
<1>1. Rank[f.rule] = Rank[g.rule]
  BY RankInjective DEF Beats
<1> QED
  BY <1>1, RankInjective

\* The statements of a plan do not interfere: a policy that is dropped is
\* dropped once and not altered, and a clause has one writer (the hazard the
\* docstring of generate_fixes describes).
THEOREM PlanCompatible ==
    ASSUME NEW t, Shaped(t), NEW ruleFilter,
           NEW f \in GenerateFixes(t, ruleFilter), NEW g \in GenerateFixes(t, ruleFilter),
           f # g
    PROVE  Compatible(f, g)
<1> DEFINE S == {h \in Proposed(t) : h.rule \in ruleFilter}
<1>1. f \in OneWriter(Runnable(S)) /\ g \in OneWriter(Runnable(S))
  BY DEF GenerateFixes
<1>2. /\ f \in Runnable(S) /\ \A c \in DOMAIN f.new : Keeper(Runnable(S), f, c)
      /\ g \in Runnable(S) /\ \A c \in DOMAIN g.new : Keeper(Runnable(S), g, c)
  BY <1>1 DEF OneWriter
<1>3. /\ f \in S /\ g \in S /\ f \in Proposed(t) /\ g \in Proposed(t)
  BY <1>2 DEF Runnable
<1>4. f.rule \in Rules /\ g.rule \in Rules
  BY <1>3, ProposedFits DEF Wellformed
<1> HIDE DEF S
<1> SUFFICES ASSUME f.at = g.at
            PROVE  /\ f.rule \notin DropRules /\ g.rule \notin DropRules
                   /\ DOMAIN f.new \cap DOMAIN g.new = {}
  BY DEF Compatible
<1>5. f.rule # g.rule
  BY <1>3, Unique
<1>6. ASSUME f.rule \in DropRules \/ g.rule \in DropRules PROVE FALSE
  <2>1. f.rule \in DropRules <=> g.rule \in DropRules
    BY <1>2, <1>3 DEF Runnable, Droppers
  <2>2. f \in Droppers(S, g.at) /\ g \in Droppers(S, f.at)
    BY <1>3, <1>6, <2>1 DEF Droppers
  <2>3. DropOrder[f.rule] <= DropOrder[g.rule] /\ DropOrder[g.rule] <= DropOrder[f.rule]
    BY <1>2, <1>6, <2>1, <2>2 DEF Runnable
  <2> QED
    BY <1>5, <1>6, <2>1, <2>3, RuleNames DEF DropOrder
<1>7. ASSUME NEW c \in DOMAIN f.new \cap DOMAIN g.new PROVE FALSE
  <2>1. f \in Contenders(Runnable(S), g.at, c) /\ g \in Contenders(Runnable(S), f.at, c)
    BY <1>2 DEF Contenders
  <2>2. ~Beats(f, g) /\ ~Beats(g, f)
    BY <1>2, <2>1 DEF Keeper
  <2> QED
    BY <1>4, <1>5, <2>2, BeatsTotal
<1> QED
  BY <1>6, <1>7

\* Every statement of a plan can be executed on the table it was planned from.
LEMMA PlanFits ==
    ASSUME NEW t, Shaped(t), NEW ruleFilter, NEW f \in GenerateFixes(t, ruleFilter)
    PROVE  Wellformed(f) /\ Executable(f, t)
<1>1. f \in Proposed(t)
  BY DEF GenerateFixes, OneWriter, Runnable
<1> QED
  BY <1>1, ProposedFits

\* A nonempty set of statements has one with the least key.
LEMMA LeastKey ==
    ASSUME NEW S, S # {}, NEW key, \A f \in S : key[f] \in Nat
    PROVE  \E f \in S : \A g \in S : key[f] <= key[g]
<1> DEFINE Keys == {key[f] : f \in S}
<1>1. Keys \subseteq Nat /\ Keys # {}
  OBVIOUS
<1>2. PICK k \in Keys : \A j \in Keys : ~(<<j, k>> \in OpToRel(<, Nat))
  <2> HIDE DEF Keys
  <2> QED
    BY <1>1, NatLessThanWellFounded, WFMin, Zenon
<1>3. ASSUME NEW j \in Keys PROVE k <= j
  <2>1. j \in Nat /\ k \in Nat
    BY <1>1
  <2>2. ASSUME j < k PROVE <<j, k>> \in OpToRel(<, Nat)
    <3>1. <<j, k>> \in Nat \X Nat /\ <<j, k>>[1] < <<j, k>>[2]
      BY <2>1, <2>2
    <3> QED
      BY <3>1, Zenon DEF OpToRel
  <2>3. ~(j < k)
    BY <1>2, <2>2
  <2> QED
    BY <2>1, <2>3
<1> QED
  BY <1>3

\* A plan that is not empty has a first statement: `sorted` puts one first.
LEMMA FirstExists ==
    ASSUME NEW left, left # {}, \A f \in left : Wellformed(f)
    PROVE  First(left) \in left
<1> DEFINE rank == [f \in left |-> Rank[f.rule]]
<1>1. \A f \in left : rank[f] \in Nat /\ f.at \in Nat
  BY RankInjective, RowsAssumption DEF Wellformed, Names, ThisTable
<1>2. PICK e \in left : \A g \in left : rank[e] <= rank[g]
  <2> HIDE DEF rank
  <2> QED
    BY <1>1, LeastKey
<1> DEFINE Ties == {f \in left : rank[f] = rank[e]}
           at == [f \in Ties |-> f.at]
<1>3. PICK f \in Ties : \A g \in Ties : at[f] <= at[g]
  <2>1. Ties # {} /\ \A g \in Ties : at[g] \in Nat
    BY <1>1
  <2> HIDE DEF Ties, at
  <2> QED
    BY <2>1, LeastKey
<1>4. ASSUME NEW g \in left PROVE Precedes(f, g)
  <2>1. CASE rank[g] = rank[e]
    BY <1>3, <2>1 DEF Precedes
  <2>2. CASE rank[g] # rank[e]
    BY <1>1, <1>2, <2>2 DEF Precedes
  <2> QED
    BY <2>1, <2>2
<1> QED
  BY <1>4 DEF First

\* Some statement is kept whenever one is proposed: what suppression defers is
\* never everything, so that `pgrls fix` reports a clean table only if it is
\* clean.
THEOREM PlanProgresses ==
    ASSUME NEW t, Shaped(t), NEW ruleFilter,
           NEW h \in Proposed(t), h.rule \in ruleFilter
    PROVE  GenerateFixes(t, ruleFilter) # {}
<1> DEFINE S == {f \in Proposed(t) : f.rule \in ruleFilter}
           R == Runnable(S)
<1>1. \A f \in S : f \in Proposed(t) /\ Wellformed(f)
  BY ProposedFits
<1>2. h \in S
  OBVIOUS
<1> HIDE DEF S
<1>3. R # {}
  <2>1. CASE Droppers(S, h.at) = {}
    BY <1>2, <2>1 DEF Runnable, Droppers
  <2>2. CASE Droppers(S, h.at) # {}
    <3> DEFINE D == Droppers(S, h.at)
               key == [f \in D |-> DropOrder[f.rule]]
    <3>1. \A f \in D : key[f] \in Nat /\ f \in S /\ f.at = h.at /\ f.rule \in DropRules
      BY RuleNames DEF Droppers, DropOrder
    <3>2. PICK f \in D : \A g \in D : key[f] <= key[g]
      <4> HIDE DEF D, key
      <4> QED
        BY <2>2, <3>1, LeastKey DEF D
    <3> QED
      BY <3>1, <3>2 DEF Runnable
  <2> QED
    BY <2>1, <2>2
<1>4. R \subseteq S
  BY DEF Runnable
<1> HIDE DEF R
<1> DEFINE key == [f \in R |-> IF f.rule \in NarrowingRules THEN Rank[f.rule]
                               ELSE 100 + Rank[f.rule]]
<1>5. \A f \in R : f.rule \in Rules /\ Rank[f.rule] \in 1 .. 11
  BY <1>1, <1>4, RuleNames DEF Wellformed, Rank
<1>6. \A f \in R : key[f] \in Nat
  BY <1>5
<1>7. PICK f \in R : \A g \in R : key[f] <= key[g]
  <2> HIDE DEF key
  <2> QED
    BY <1>3, <1>6, LeastKey
<1>8. ASSUME NEW g \in R PROVE ~Beats(g, f)
  BY <1>5, <1>7 DEF Beats
<1>9. f \in OneWriter(R)
  BY <1>8 DEF OneWriter, Keeper, Contenders
<1> QED
  BY <1>9 DEF GenerateFixes, R, S
-------------------------------------------------------------------------------
(* What executing a statement changes.                                      *)

\* A table statement sets its flag and leaves the policies alone.
LEMMA ExecuteOnTable ==
    ASSUME NEW t, Shaped(t), NEW f, f.rule \in TableRules
    PROVE  /\ DOMAIN Execute(f, t) = DOMAIN t /\ Execute(f, t).pol = t.pol
           /\ Execute(f, t).rls = IF f.rule = "SEC002" THEN t.rls ELSE TRUE
           /\ Execute(f, t).force = IF f.rule = "SEC002" THEN TRUE ELSE t.force
<1>1. CASE f.rule = "SEC002"
  <2>1. Execute(f, t) = [t EXCEPT !.force = TRUE]
    BY <1>1, RuleNames DEF Execute
  <2> QED
    BY <2>1, <1>1 DEF Shaped
<1>2. CASE f.rule \in {"SEC001", "SEC032"}
  <2>1. Execute(f, t) = [t EXCEPT !.rls = TRUE]
    BY <1>2, RuleNames DEF Execute
  <2> QED
    BY <2>1, <1>2 DEF Shaped
<1> QED
  BY <1>1, <1>2 DEF TableRules

\* A drop removes its policy only.
LEMMA ExecuteDrop ==
    ASSUME NEW t, Shaped(t), NEW f, f.rule \in DropRules
    PROVE  /\ DOMAIN Execute(f, t) = DOMAIN t
           /\ Execute(f, t).rls = t.rls /\ Execute(f, t).force = t.force
           /\ DOMAIN Execute(f, t).pol = DOMAIN t.pol \ {f.at}
           /\ \A n \in DOMAIN t.pol \ {f.at} : Execute(f, t).pol[n] = t.pol[n]
<1>1. Execute(f, t) = [t EXCEPT !.pol = [n \in DOMAIN @ \ {f.at} |-> @[n]]]
  BY RuleNames DEF Execute
<1> QED
  BY <1>1 DEF Shaped

\* A rewrite replaces the clauses it re-emits.
LEMMA ExecuteRewrite ==
    ASSUME NEW t, Shaped(t), NEW f, f.rule \notin DropRules \cup TableRules,
           f.at \in DOMAIN t.pol
    PROVE  /\ DOMAIN Execute(f, t) = DOMAIN t
           /\ Execute(f, t).rls = t.rls /\ Execute(f, t).force = t.force
           /\ DOMAIN Execute(f, t).pol = DOMAIN t.pol
           /\ \A n \in DOMAIN t.pol \ {f.at} : Execute(f, t).pol[n] = t.pol[n]
           /\ DOMAIN Execute(f, t).pol[f.at] = DOMAIN t.pol[f.at]
           /\ \A k \in DOMAIN t.pol[f.at] : Execute(f, t).pol[f.at][k] =
                  IF k \in DOMAIN f.new THEN f.new[k] ELSE t.pol[f.at][k]
<1>1. Execute(f, t) = [t EXCEPT !.pol[f.at] =
          [k \in DOMAIN @ |-> IF k \in DOMAIN f.new THEN f.new[k] ELSE @[k]]]
  BY RuleNames DEF Execute, TableRules
<1>2. Execute(f, t).pol = [t.pol EXCEPT ![f.at] =
          [k \in DOMAIN @ |-> IF k \in DOMAIN f.new THEN f.new[k] ELSE @[k]]]
  BY <1>1 DEF Shaped
<1>3. DOMAIN Execute(f, t) = DOMAIN t /\ Execute(f, t).rls = t.rls
      /\ Execute(f, t).force = t.force
  BY <1>1 DEF Shaped
<1> QED
  BY <1>2, <1>3

\* A statement leaves a proper table, whose other policies keep their commands.
LEMMA ExecuteShaped ==
    ASSUME NEW t, Shaped(t), NEW f, Wellformed(f), Executable(f, t)
    PROVE  Shaped(Execute(f, t))
<1>1. CASE f.rule \in TableRules
  BY <1>1, ExecuteOnTable DEF Shaped
<1>2. CASE f.rule \in DropRules
  BY <1>2, ExecuteDrop DEF Shaped
<1>3. CASE f.rule \notin DropRules \cup TableRules
  <2>1. f.at \in DOMAIN t.pol /\ \A c \in DOMAIN f.new : Takes(t.pol[f.at].cmd, c)
    BY <1>3 DEF Wellformed, Executable
  <2>2. Execute(f, t).pol[f.at].cmd = t.pol[f.at].cmd
    BY <2>1, <1>3, ExecuteRewrite DEF Wellformed, Shaped, ShapedPolicy, Clauses
  <2>3. ShapedPolicy(Execute(f, t).pol[f.at])
    BY <2>1, <2>2, <1>3, ExecuteRewrite DEF Shaped, ShapedPolicy, Clauses
  <2> QED
    BY <2>1, <2>3, <1>3, ExecuteRewrite DEF Shaped
<1> QED
  BY <1>1, <1>2, <1>3

\* What a table statement achieves is a flag.
LEMMA AchievedOnTable ==
    ASSUME NEW t, NEW f, f.rule \in TableRules
    PROVE  Achieved(f, t) = IF f.rule = "SEC002" THEN t.force ELSE t.rls
BY RuleNames DEF Achieved, TableRules

\* A statement that is executed achieves what it is for.
LEMMA ExecuteAchieves ==
    ASSUME NEW t, Shaped(t), NEW f, Wellformed(f), Executable(f, t)
    PROVE  Achieved(f, Execute(f, t))
<1>1. CASE f.rule \in TableRules
  <2>1. Achieved(f, Execute(f, t)) = TRUE
    BY <1>1, ExecuteOnTable, AchievedOnTable
  <2> QED
    BY <2>1
<1>2. CASE f.rule \in DropRules
  <2>1. Achieved(f, Execute(f, t)) <=> f.at \notin DOMAIN Execute(f, t).pol
    BY <1>2, RuleNames DEF Achieved
  <2> QED
    BY <1>2, <2>1, ExecuteDrop
<1>3. CASE f.rule \notin DropRules \cup TableRules
  <2>1. f.at \in DOMAIN t.pol /\ DOMAIN f.new \subseteq DOMAIN t.pol[f.at]
    BY <1>3 DEF Wellformed, Executable, Shaped, ShapedPolicy, Clauses
  <2>2. /\ f.at \in DOMAIN Execute(f, t).pol
        /\ \A c \in DOMAIN f.new : Execute(f, t).pol[f.at][c] = f.new[c]
    BY <1>3, <2>1, ExecuteRewrite
  <2> QED
    BY <1>3, <2>2 DEF Achieved, TableRules
<1> QED
  BY <1>1, <1>2, <1>3

\* It undoes no compatible statement,
LEMMA ExecuteKeepsAchieved ==
    ASSUME NEW t, Shaped(t), NEW f, Wellformed(f), Executable(f, t),
           NEW g, Wellformed(g), Compatible(f, g), Achieved(g, t)
    PROVE  Achieved(g, Execute(f, t))
<1> DEFINE u == Execute(f, t)
<1>1. (t.rls => u.rls) /\ (t.force => u.force) /\ DOMAIN u.pol \subseteq DOMAIN t.pol
  <2>1. CASE f.rule \in TableRules
    <3>1. (u.rls = t.rls \/ u.rls = TRUE) /\ (u.force = t.force \/ u.force = TRUE)
          /\ u.pol = t.pol
      BY <2>1, ExecuteOnTable
    <3> QED
      BY <3>1
  <2>2. CASE f.rule \in DropRules
    BY <2>2, ExecuteDrop
  <2>3. CASE f.rule \notin DropRules \cup TableRules
    BY <2>3, ExecuteRewrite DEF Wellformed, Executable
  <2> QED
    BY <2>1, <2>2, <2>3
<1>2. CASE g.rule \in TableRules
  BY <1>1, <1>2, AchievedOnTable
<1>3. CASE g.rule \in DropRules
  <2>1. \A v : Achieved(g, v) <=> g.at \notin DOMAIN v.pol
    BY <1>3, RuleNames DEF Achieved
  <2> QED
    BY <1>1, <2>1
<1>4. CASE g.rule \notin DropRules \cup TableRules
  <2>1. \A v : Achieved(g, v) <=> /\ g.at \in DOMAIN v.pol
                                 /\ \A c \in DOMAIN g.new : v.pol[g.at][c] = g.new[c]
    BY <1>4 DEF Achieved, TableRules
  <2>2. g.at \in DOMAIN t.pol /\ \A c \in DOMAIN g.new : t.pol[g.at][c] = g.new[c]
    BY <2>1
  <2>3. g.at \in DOMAIN u.pol /\ \A c \in DOMAIN g.new : u.pol[g.at][c] = t.pol[g.at][c]
    <3>1. CASE f.rule \in TableRules
      BY <2>2, <3>1, ExecuteOnTable
    <3>2. CASE f.rule \in DropRules
      BY <2>2, <3>2, ExecuteDrop DEF Compatible
    <3>3. CASE f.rule \notin DropRules \cup TableRules
      <4>1. f.at \in DOMAIN t.pol
        BY <3>3 DEF Wellformed, Executable
      <4>2. CASE f.at # g.at
        BY <2>2, <3>3, <4>1, <4>2, ExecuteRewrite
      <4>3. CASE f.at = g.at
        <5>1. DOMAIN g.new \subseteq DOMAIN t.pol[f.at] /\ DOMAIN f.new \cap DOMAIN g.new = {}
          BY <4>1, <4>3 DEF Compatible, Wellformed, Shaped, ShapedPolicy, Clauses
        <5> QED
          BY <2>2, <3>3, <4>1, <4>3, <5>1, ExecuteRewrite
      <4> QED
        BY <4>2, <4>3
    <3> QED
      BY <3>1, <3>2, <3>3
  <2> QED
    BY <2>1, <2>2, <2>3
<1> QED
  BY <1>2, <1>3, <1>4

\* and hinders none.
LEMMA ExecuteKeepsExecutable ==
    ASSUME NEW t, Shaped(t), NEW f, Wellformed(f), Executable(f, t),
           NEW g, Wellformed(g), Compatible(f, g), Executable(g, t)
    PROVE  Executable(g, Execute(f, t))
<1> DEFINE u == Execute(f, t)
<1> SUFFICES ASSUME g.at # ThisTable
            PROVE  g.at \in DOMAIN u.pol /\ u.pol[g.at].cmd = t.pol[g.at].cmd
  BY DEF Executable
<1>1. g.at \in DOMAIN t.pol
  BY DEF Executable
<1>2. CASE f.rule \in TableRules
  BY <1>1, <1>2, ExecuteOnTable
<1>3. CASE f.rule \in DropRules
  BY <1>1, <1>3, ExecuteDrop DEF Compatible
<1>4. CASE f.rule \notin DropRules \cup TableRules
  <2>1. f.at \in DOMAIN t.pol /\ "cmd" \in DOMAIN t.pol[f.at] /\ "cmd" \notin DOMAIN f.new
    BY <1>4 DEF Wellformed, Executable, Shaped, ShapedPolicy, Clauses
  <2> QED
    BY <1>1, <1>4, <2>1, ExecuteRewrite
<1> QED
  BY <1>2, <1>3, <1>4
-------------------------------------------------------------------------------
(* Runs.                                                                    *)

Functions == DOMAIN pc = Runs /\ DOMAIN plan = Runs /\ DOMAIN todo = Runs

TablesOK == /\ Shaped(table) /\ Shaped(draft)
            /\ writer = NoRun => draft = table

\* The advisory lock makes one run the only writer.
Locks == /\ \A r \in Runs : pc[r] = "applying" => advisory = r
         /\ writer # NoRun => writer \in Runs /\ pc[writer] = "applying"

GoodPlan(fixes) ==
    /\ \A f \in fixes : Wellformed(f)
    /\ \A f, g \in fixes : f # g => Compatible(f, g)
Plans == \A r \in Runs : GoodPlan(plan[r]) /\ todo[r] \subseteq plan[r]

\* A run that has written nothing has its whole plan left; the writer's draft
\* has the effect of every statement it is past.
Progress == \A r \in Runs :
    /\ writer # r => todo[r] = plan[r]
    /\ writer = r => \A f \in plan[r] \ todo[r] : Achieved(f, draft)

PlanInv == Functions /\ TablesOK /\ Locks /\ Plans /\ Progress

\* No run is a writer before it starts.
LEMMA InitInv == Init => PlanInv
<1> SUFFICES ASSUME Init PROVE PlanInv
  OBVIOUS
<1>1. Shaped(table)
  BY ApplyAssumption, TablesAreShaped DEF Init
<1> QED
  BY <1>1, ApplyAssumption
  DEF Init, PlanInv, Functions, TablesOK, Locks, Plans, GoodPlan, Progress

\* An idle run makes a plan of compatible statements.
LEMMA IntrospectInv ==
    ASSUME PlanInv, NEW r \in Runs, NEW ruleFilter, Introspect(r, ruleFilter)
    PROVE  PlanInv'
<1> USE DEF PlanInv
<1> DEFINE fixes == GenerateFixes(table, ruleFilter)
<1>1. Functions'
  BY DEF Introspect, Functions
<1>2. TablesOK'
  BY DEF Introspect, TablesOK
<1>3. Locks'
  BY DEF Introspect, Functions, Locks
<1>4. GoodPlan(fixes)
  BY PlanFits, PlanCompatible DEF GoodPlan, TablesOK
<1>5. Plans'
  BY <1>4 DEF Introspect, Functions, Plans
<1>6. writer # r
  BY ApplyAssumption DEF Introspect, Locks
<1>7. Progress'
  BY <1>6 DEF Introspect, Functions, Progress
<1> QED
  BY <1>1, <1>2, <1>3, <1>5, <1>7

\* Taking the advisory lock makes a run the one that applies.
LEMMA LockInv ==
    ASSUME PlanInv, NEW r \in Runs, Lock(r)
    PROVE  PlanInv'
<1> USE DEF PlanInv
<1>1. Functions' /\ TablesOK' /\ Plans' /\ Progress'
  BY DEF Lock, Functions, TablesOK, Plans, Progress
<1>2. Locks'
  BY ApplyAssumption DEF Lock, Functions, Locks
<1> QED
  BY <1>1, <1>2

\* A statement achieves its effect on the draft and undoes no earlier one.
LEMMA StatementInv ==
    ASSUME PlanInv, NEW r \in Runs, Statement(r)
    PROVE  PlanInv'
<1> USE DEF PlanInv
<1> DEFINE f == Next1(r)
<1>1. /\ todo[r] # {} /\ todo[r] \subseteq plan[r] /\ GoodPlan(plan[r])
      /\ Executable(f, draft) /\ Shaped(draft)
      /\ writer \in {NoRun, r} /\ advisory = r /\ NoRun \notin Runs
  BY ApplyAssumption DEF Statement, HasTable, Plans, TablesOK, Locks
<1>2. /\ writer' = r /\ draft' = Execute(f, draft)
      /\ todo' = [todo EXCEPT ![r] = @ \ {f}]
      /\ UNCHANGED <<table, pc, plan, advisory>>
  BY DEF Statement
<1>3. f \in todo[r] /\ f \in plan[r] /\ Wellformed(f)
  BY <1>1, FirstExists DEF Next1, GoodPlan
<1> HIDE DEF f
<1>4. Functions'
  BY <1>2 DEF Functions
<1>5. TablesOK'
  BY <1>1, <1>2, <1>3, ExecuteShaped DEF TablesOK
<1>6. Locks'
  BY <1>2 DEF Locks, Statement
<1>7. Plans'
  BY <1>2 DEF Plans, Functions
<1>8. Progress'
  <2>1. ASSUME NEW q \in Runs, q # r PROVE writer' # q /\ todo'[q] = plan'[q]
    BY <1>1, <1>2, <2>1 DEF Progress, Functions
  <2>2. ASSUME NEW g \in plan[r], g \notin todo'[r] PROVE Achieved(g, draft')
    <3>1. CASE g = f
      BY <1>1, <1>2, <1>3, <3>1, ExecuteAchieves
    <3>2. CASE g # f
      <4>1. g \notin todo[r]
        BY <1>2, <2>2, <3>2 DEF Functions
      <4>2. Achieved(g, draft)
        BY <1>1, <2>2, <4>1 DEF Progress
      <4> QED
        BY <1>1, <1>2, <1>3, <3>2, <4>2, ExecuteKeepsAchieved DEF GoodPlan
    <3> QED
      BY <3>1, <3>2
  <2> QED
    BY <1>2, <2>1, <2>2 DEF Progress
<1> QED
  BY <1>4, <1>5, <1>6, <1>7, <1>8

\* A run that applies is the only one that may write.
LEMMA OnlyWriter ==
    ASSUME PlanInv, NEW r \in Runs, pc[r] = "applying"
    PROVE  writer \in {NoRun, r}
BY DEF PlanInv, Locks

\* The end of a run's transaction leaves nothing of it.
LEMMA EndsInv ==
    ASSUME PlanInv, NEW r \in Runs, Ends(r), Shaped(table'), Shaped(draft'),
           writer' = NoRun => draft' = table',
           writer # r => draft' = draft
    PROVE  PlanInv'
<1> USE DEF PlanInv
<1>1. Functions'
  BY DEF Ends, Functions
<1>2. TablesOK'
  BY DEF TablesOK
<1>3. Locks'
  BY ApplyAssumption DEF Ends, Functions, Locks
<1>4. Plans'
  BY DEF Ends, Functions, Plans, GoodPlan
<1>5. Progress'
  BY ApplyAssumption DEF Ends, Functions, Progress
<1> QED
  BY <1>1, <1>2, <1>3, <1>4, <1>5

\* A rollback restores the table.
LEMMA RolledBackInv ==
    ASSUME PlanInv, NEW r \in Runs, RolledBack(r)
    PROVE  PlanInv'
<1>1. Shaped(table') /\ Shaped(draft') /\ (writer # r => draft' = draft)
  BY DEF RolledBack, PlanInv, TablesOK
<1>2. writer' = NoRun => draft' = table'
  BY DEF RolledBack, Ends, PlanInv, TablesOK
<1> QED
  BY <1>1, <1>2, EndsInv DEF RolledBack

\* A commit publishes the draft.
LEMMA CommitInv ==
    ASSUME PlanInv, NEW r \in Runs, Commit(r)
    PROVE  PlanInv'
<1>1. Shaped(table') /\ Shaped(draft') /\ draft' = draft /\ table' = draft'
  BY DEF Commit, PlanInv, TablesOK
<1> QED
  BY <1>1, EndsInv DEF Commit

\* A migration finds no writer and leaves a proper table.
LEMMA MigrationInv ==
    ASSUME PlanInv, Migration
    PROVE  PlanInv'
<1>1. ASSUME NEW t, Shaped(t), Edited(t) PROVE PlanInv'
  <2>1. /\ UNCHANGED <<pc, plan, todo, advisory, writer>>
        /\ table' = t /\ draft' = t /\ writer \notin Runs
    BY <1>1, ApplyAssumption DEF Edited
  <2>2. Functions' /\ Locks'
    BY <2>1 DEF PlanInv, Functions, Locks
  <2>3. TablesOK'
    BY <1>1, <2>1 DEF TablesOK
  <2>4. Plans' /\ Progress'
    BY <2>1 DEF PlanInv, Plans, Progress
  <2> QED
    BY <2>2, <2>3, <2>4 DEF PlanInv
<1>2. ASSUME NEW n \in Names, DropPolicy(n) PROVE PlanInv'
  <2> DEFINE t == [table EXCEPT !.pol = [m \in DOMAIN @ \ {n} |-> @[m]]]
  <2>1. Shaped(t)
    BY DEF PlanInv, TablesOK, Shaped
  <2>2. Edited(t)
    BY <1>2 DEF DropPolicy
  <2> QED
    BY <1>1, <2>1, <2>2
<1>3. ASSUME NEW n \in Names, NEW p \in Installed, InstallPolicy(n, p) PROVE PlanInv'
  <2> DEFINE t == [table EXCEPT !.pol =
                      [m \in DOMAIN @ \cup {n} |-> IF m = n THEN p ELSE @[m]]]
  <2>1. ShapedPolicy(p)
    BY ApplyAssumption, PoliciesAreShaped
  <2>2. Shaped(t)
    BY <2>1 DEF PlanInv, TablesOK, Shaped
  <2>3. Edited(t)
    BY <1>3 DEF InstallPolicy
  <2> QED
    BY <1>1, <2>2, <2>3
<1> QED
  BY <1>2, <1>3 DEF Migration

\* The invariant is inductive.
LEMMA NextInv ==
    ASSUME PlanInv, [Next]_vars
    PROVE  PlanInv'
<1>1. ASSUME NEW r \in Runs, Run(r) PROVE PlanInv'
  <2>1. (\E ruleFilter \in Filters : Introspect(r, ruleFilter)) => PlanInv'
    BY IntrospectInv
  <2>2. Lock(r) => PlanInv'
    BY LockInv
  <2>3. Statement(r) => PlanInv'
    BY StatementInv
  <2>4. Rejected(r) \/ Abort(r) => PlanInv'
    BY RolledBackInv DEF Rejected, Abort
  <2>5. Commit(r) => PlanInv'
    BY CommitInv
  <2> QED
    BY <1>1, <2>1, <2>2, <2>3, <2>4, <2>5 DEF Run
<1>2. CASE Migration
  BY <1>2, MigrationInv
<1>3. CASE UNCHANGED vars
  BY <1>3 DEF vars, PlanInv, Functions, TablesOK, Locks, Plans, Progress
<1> QED
  BY <1>1, <1>2, <1>3 DEF Next

\* The invariant holds of every execution.
THEOREM PlanInvariant == Spec => []PlanInv
<1>1. PlanInv /\ [Next]_vars => PlanInv'
  BY NextInv
<1> QED
  BY InitInv, <1>1, PTL DEF Spec

\* What is committed is the effect of every statement of the plan, whatever
\* other runs and migrations do between planning and locking.
THEOREM FixesSurvive == Spec => EveryFixSurvives
<1>1. ASSUME PlanInv, NEW r \in Runs, Commit(r), NEW f \in plan[r]
      PROVE  Achieved(f, table')
  <2>1. writer = r /\ f \notin todo[r]
    BY <1>1 DEF PlanInv, Progress, Commit
  <2>2. Achieved(f, draft)
    BY <1>1, <2>1 DEF PlanInv, Progress
  <2> QED
    BY <1>1, <2>2 DEF Commit
<1>2. PlanInv =>
          [\A r \in Runs : Commit(r) => \A f \in plan[r] : Achieved(f, table')]_vars
  BY <1>1
<1> QED
  BY PlanInvariant, <1>2, PTL DEF EveryFixSurvives
-------------------------------------------------------------------------------
(* A single run, and no migration.                                          *)

\* What the run has left can be executed on the table as its transaction has it.
Fresh == \A r \in Runs : \A f \in todo[r] : Executable(f, draft)

\* An undisturbed run finds the table it planned from.
LEMMA FreshStep ==
    ASSUME PlanInv, PlanInv', Fresh, [Next]_vars, NEW s, Runs = {s},
           MaxEdits = 0, edits \in Nat
    PROVE  Fresh' /\ edits' \in Nat
<1> USE DEF PlanInv
<1>1. ASSUME NEW r \in Runs, NEW ruleFilter, Introspect(r, ruleFilter)
      PROVE  Fresh' /\ edits' \in Nat
  <2>1. draft = table /\ draft' = draft
    BY <1>1, ApplyAssumption DEF Introspect, Locks, TablesOK
  <2>2. todo'[r] = GenerateFixes(table, ruleFilter) /\ edits' = edits
    BY <1>1 DEF Introspect, Functions
  <2>3. \A f \in todo'[r] : Executable(f, draft')
    BY <2>1, <2>2, PlanFits DEF TablesOK
  <2> QED
    BY <2>2, <2>3 DEF Fresh
<1>2. ASSUME NEW r \in Runs, Statement(r) PROVE Fresh' /\ edits' \in Nat
  <2> DEFINE f == Next1(r)
  <2>1. /\ todo[r] # {} /\ todo[r] \subseteq plan[r] /\ GoodPlan(plan[r])
        /\ Executable(f, draft) /\ Shaped(draft) /\ draft' = Execute(f, draft)
        /\ todo'[r] = todo[r] \ {f} /\ edits' = edits
    BY <1>2 DEF Statement, Plans, TablesOK, Functions
  <2>2. f \in todo[r] /\ f \in plan[r] /\ Wellformed(f)
    BY <2>1, FirstExists DEF Next1, GoodPlan
  <2> HIDE DEF f
  <2>3. ASSUME NEW g \in todo'[r] PROVE Executable(g, draft')
    <3>1. g \in todo[r] /\ g \in plan[r] /\ g # f
      BY <2>1
    <3>2. Wellformed(g) /\ Compatible(f, g) /\ Executable(g, draft)
      BY <2>1, <2>2, <3>1 DEF GoodPlan, Fresh
    <3> QED
      BY <2>1, <2>2, <3>2, ExecuteKeepsExecutable
  <2> QED
    BY <2>1, <2>3 DEF Fresh
<1>3. ASSUME NEW r \in Runs, Lock(r) PROVE Fresh' /\ edits' \in Nat
  BY <1>3 DEF Lock, Fresh
<1>4. ASSUME NEW r \in Runs, Ends(r), edits' = edits PROVE Fresh' /\ edits' \in Nat
  BY <1>4 DEF Ends, Functions, Fresh
<1>5. ~Migration
  <2>1. ~(edits < MaxEdits)
    OBVIOUS
  <2> QED
    BY <2>1 DEF Migration, DropPolicy, InstallPolicy, Edited
<1>6. CASE UNCHANGED vars
  BY <1>6 DEF vars, Fresh
<1>7. ASSUME NEW r \in Runs, Run(r) PROVE Fresh' /\ edits' \in Nat
  <2>1. Rejected(r) \/ Abort(r) \/ Commit(r) => Ends(r) /\ edits' = edits
    BY DEF Rejected, Abort, Commit, RolledBack
  <2> QED
    BY <1>1, <1>2, <1>3, <1>4, <1>7, <2>1 DEF Run
<1> QED
  BY <1>5, <1>6, <1>7 DEF Next

\* A single run that no migration disturbs never meets a statement that
\* PostgreSQL rejects: suppression leaves a runnable sequence.
THEOREM LonePlanRuns ==
    ASSUME NEW s, Runs = {s}, MaxEdits = 0
    PROVE  Spec => []PlanRuns
<1> DEFINE I == Fresh /\ edits \in Nat
<1>1. Init => I
  BY DEF Init, Fresh
<1>2. PlanInv /\ PlanInv' /\ I /\ [Next]_vars => I'
  BY FreshStep
<1>3. PlanInv /\ I => PlanRuns
  <2> SUFFICES ASSUME PlanInv, Fresh, NEW r \in Runs, todo[r] # {}
               PROVE  Executable(Next1(r), draft)
    BY DEF PlanRuns
  <2>1. \A f \in todo[r] : Wellformed(f)
    BY DEF PlanInv, Plans, GoodPlan
  <2>2. Next1(r) \in todo[r]
    BY <2>1, FirstExists DEF Next1
  <2> QED
    BY <2>2 DEF Fresh
<1> HIDE DEF I
<1> QED
  BY PlanInvariant, <1>1, <1>2, <1>3, PTL DEF Spec
-------------------------------------------------------------------------------
(* A single run, and no migration, is one step of the abstract              *)
(* specification.                                                           *)

\* Statements that are neither twice for one clause nor for a dropped policy.
Harmonious(S) == /\ \A f \in S : Wellformed(f)
                 /\ \A f, g \in S : f # g => Compatible(f, g)

\* A clause has the value its only writer gives it.
LEMMA WrittenIs ==
    ASSUME NEW S, Harmonious(S), NEW n, NEW p, NEW k \in DOMAIN p
    PROVE  /\ \A f \in S : f.at = n /\ k \in DOMAIN f.new => Atomic!Written(S, n, p)[k] = f.new[k]
           /\ (\A f \in S : ~(f.at = n /\ k \in DOMAIN f.new)) => Atomic!Written(S, n, p)[k] = p[k]
<1>1. ASSUME NEW f \in S, f.at = n, k \in DOMAIN f.new
      PROVE  Atomic!Written(S, n, p)[k] = f.new[k]
  <2>1. \A g \in S : g.at = n /\ k \in DOMAIN g.new => g = f
    BY <1>1 DEF Harmonious, Compatible
  <2>2. Atomic!Writers(S, n, k) = {f}
    BY <1>1, <2>1 DEF Atomic!Writers
  <2>3. (CHOOSE g \in {f} : TRUE) = f
    OBVIOUS
  <2> QED
    BY <2>2, <2>3 DEF Atomic!Written
<1>2. ASSUME \A f \in S : ~(f.at = n /\ k \in DOMAIN f.new)
      PROVE  Atomic!Written(S, n, p)[k] = p[k]
  <2>1. Atomic!Writers(S, n, k) = {}
    BY <1>2 DEF Atomic!Writers
  <2> QED
    BY <2>1 DEF Atomic!Written
<1> QED
  BY <1>1, <1>2

\* One more writer gives its clauses their values.
LEMMA WrittenStep ==
    ASSUME NEW S, NEW f, Harmonious(S \cup {f}), NEW n, NEW p, NEW k \in DOMAIN p
    PROVE  Atomic!Written(S \cup {f}, n, p)[k] =
               IF f.at = n /\ k \in DOMAIN f.new THEN f.new[k] ELSE Atomic!Written(S, n, p)[k]
<1> DEFINE T == S \cup {f}
<1>1. Harmonious(S) /\ Harmonious(T) /\ f \in T /\ S \subseteq T /\ \A g \in T : g = f \/ g \in S
  BY DEF Harmonious
<1> HIDE DEF T
<1>2. CASE f.at = n /\ k \in DOMAIN f.new
  BY <1>1, <1>2, WrittenIs DEF T
<1>3. ASSUME ~(f.at = n /\ k \in DOMAIN f.new), NEW g \in S, g.at = n, k \in DOMAIN g.new
      PROVE  Atomic!Written(T, n, p)[k] = Atomic!Written(S, n, p)[k]
  BY <1>1, <1>3, WrittenIs
<1>4. ASSUME ~(f.at = n /\ k \in DOMAIN f.new), \A g \in S : ~(g.at = n /\ k \in DOMAIN g.new)
      PROVE  Atomic!Written(T, n, p)[k] = Atomic!Written(S, n, p)[k]
  BY <1>1, <1>4, WrittenIs
<1> QED
  BY <1>2, <1>3, <1>4 DEF T

\* A table as a record of records.
Rec(p) == [k \in DOMAIN p |-> p[k]]
Recs(pol) == [n \in DOMAIN pol |-> Rec(pol[n])]
Proper(t) == /\ t = [rls |-> t.rls, force |-> t.force, pol |-> Recs(t.pol)]
             /\ t.rls \in BOOLEAN /\ t.force \in BOOLEAN

\* Such tables are equal if all their fields are.
LEMMA SameTable ==
    ASSUME NEW t, NEW u, Proper(t), Proper(u), t.rls = u.rls, t.force = u.force,
           DOMAIN t.pol = DOMAIN u.pol,
           \A n \in DOMAIN t.pol : /\ DOMAIN t.pol[n] = DOMAIN u.pol[n]
                                   /\ \A k \in DOMAIN t.pol[n] : t.pol[n][k] = u.pol[n][k]
    PROVE  t = u
<1>1. ASSUME NEW n \in DOMAIN t.pol PROVE Rec(t.pol[n]) = Rec(u.pol[n])
  BY DEF Rec
<1>2. Recs(t.pol) = Recs(u.pol)
  BY <1>1 DEF Recs
<1> QED
  BY <1>2 DEF Proper

\* No statements change nothing.
LEMMA AppliedNothing ==
    ASSUME NEW t, Proper(t)
    PROVE  Atomic!Applied({}, t) = t
<1>1. \A n : Atomic!Written({}, n, t.pol[n]) = Rec(t.pol[n])
  BY DEF Atomic!Written, Atomic!Writers, Rec
<1>2. Atomic!Dropped({}) = {}
  BY DEF Atomic!Dropped
<1>3. Atomic!Applied({}, t).pol = Recs(t.pol)
  BY <1>1, <1>2 DEF Atomic!Applied, Recs
<1>4. Atomic!Applied({}, t) = [rls |-> t.rls, force |-> t.force,
                               pol |-> Atomic!Applied({}, t).pol]
  BY DEF Atomic!Applied, Proper
<1> QED
  BY <1>3, <1>4 DEF Proper

\* The effect of statements is a table.
LEMMA AppliedIsProper ==
    ASSUME NEW t, NEW S
    PROVE  Proper(Atomic!Applied(S, t))
<1> DEFINE u == Atomic!Applied(S, t)
           D == DOMAIN t.pol \ Atomic!Dropped(S)
<1>1. /\ u = [rls |-> u.rls, force |-> u.force, pol |-> u.pol]
      /\ u.rls \in BOOLEAN /\ u.force \in BOOLEAN
      /\ u.pol = [n \in D |-> Atomic!Written(S, n, t.pol[n])]
  BY DEF Atomic!Applied
<1>2. \A n, p : Rec(Atomic!Written(S, n, p)) = Atomic!Written(S, n, p)
  BY DEF Atomic!Written, Rec
<1> HIDE DEF u, D
<1>3. DOMAIN u.pol = D /\ \A n \in D : u.pol[n] = Atomic!Written(S, n, t.pol[n])
  BY <1>1
<1>4. \A n \in D : Rec(u.pol[n]) = Atomic!Written(S, n, t.pol[n])
  BY <1>2, <1>3
<1>5. Recs(u.pol) = u.pol
  BY <1>1, <1>3, <1>4 DEF Recs
<1> QED
  BY <1>1, <1>5 DEF Proper, u

\* A table with one field changed, as a record.
LEMMA FieldChange ==
    ASSUME NEW t, DOMAIN t = {"rls", "force", "pol"}, NEW v
    PROVE  /\ [t EXCEPT !.rls = v] = [rls |-> v, force |-> t.force, pol |-> t.pol]
           /\ [t EXCEPT !.force = v] = [rls |-> t.rls, force |-> v, pol |-> t.pol]
           /\ [t EXCEPT !.pol = v] = [rls |-> t.rls, force |-> t.force, pol |-> v]
  OBVIOUS

\* So is the effect of one statement.
LEMMA ExecuteIsProper ==
    ASSUME NEW t, Proper(t), Shaped(t), NEW f, f.rule \in Rules,
           f.rule \notin DropRules \cup TableRules => f.at \in DOMAIN t.pol
    PROVE  Proper(Execute(f, t))
<1>1. Recs(t.pol) = t.pol /\ t.rls \in BOOLEAN /\ t.force \in BOOLEAN
  BY DEF Proper
<1>2. \A n \in DOMAIN t.pol : Rec(t.pol[n]) = t.pol[n]
  <2> DEFINE q == Recs(t.pol)
  <2>1. \A n \in DOMAIN t.pol : q[n] = Rec(t.pol[n])
    BY DEF Recs
  <2> QED
    BY <1>1, <2>1
<1>3. DOMAIN t = {"rls", "force", "pol"}
  BY DEF Shaped
<1>4. ASSUME NEW rls \in BOOLEAN, NEW force \in BOOLEAN, NEW pol, Recs(pol) = pol
      PROVE  Proper([rls |-> rls, force |-> force, pol |-> pol])
  BY <1>4 DEF Proper
<1>5. CASE f.rule = "SEC002"
  <2>1. Execute(f, t) = [t EXCEPT !.force = TRUE]
    BY <1>5, RuleNames DEF Execute, TableRules
  <2>2. Execute(f, t) = [rls |-> t.rls, force |-> TRUE, pol |-> t.pol]
    BY <1>3, <2>1, FieldChange
  <2> QED
    BY <1>1, <1>4, <2>2
<1>6. CASE f.rule \in {"SEC001", "SEC032"}
  <2>1. Execute(f, t) = [t EXCEPT !.rls = TRUE]
    BY <1>6, RuleNames DEF Execute, TableRules
  <2>2. Execute(f, t) = [rls |-> TRUE, force |-> t.force, pol |-> t.pol]
    BY <1>3, <2>1, FieldChange
  <2> QED
    BY <1>1, <1>4, <2>2
<1>7. CASE f.rule \in DropRules
  <2> DEFINE q == [n \in DOMAIN t.pol \ {f.at} |-> t.pol[n]]
  <2>1. Execute(f, t) = [t EXCEPT !.pol = q]
    BY <1>7, RuleNames DEF Execute
  <2>2. Recs(q) = q
    BY <1>2 DEF Recs
  <2> HIDE DEF q
  <2>3. Execute(f, t) = [rls |-> t.rls, force |-> t.force, pol |-> q]
    BY <1>3, <2>1, FieldChange
  <2> QED
    BY <1>1, <1>4, <2>2, <2>3
<1>8. CASE f.rule \notin DropRules \cup TableRules
  <2> DEFINE w == [k \in DOMAIN t.pol[f.at] |->
                      IF k \in DOMAIN f.new THEN f.new[k] ELSE t.pol[f.at][k]]
             q == [t.pol EXCEPT ![f.at] = w]
  <2>1. Execute(f, t) = [t EXCEPT !.pol[f.at] = w]
    BY <1>8, RuleNames DEF Execute, TableRules
  <2>2. Rec(w) = w
    BY DEF Rec
  <2> HIDE DEF w
  <2>3. DOMAIN q = DOMAIN t.pol /\ \A n \in DOMAIN t.pol : q[n] = IF n = f.at THEN w ELSE t.pol[n]
    OBVIOUS
  <2>4. q = [n \in DOMAIN t.pol |-> q[n]]
    OBVIOUS
  <2>5. [t EXCEPT !.pol[f.at] = w] = [t EXCEPT !.pol = q]
    OBVIOUS
  <2> HIDE DEF q
  <2>6. \A n \in DOMAIN t.pol : Rec(q[n]) = q[n]
    BY <1>2, <2>2, <2>3
  <2>7. Recs(q) = q
    BY <2>3, <2>4, <2>6 DEF Recs
  <2>8. Execute(f, t) = [rls |-> t.rls, force |-> t.force, pol |-> q]
    BY <1>3, <2>1, <2>5, FieldChange
  <2> QED
    BY <1>1, <1>4, <2>7, <2>8
<1> QED
  BY <1>5, <1>6, <1>7, <1>8, RuleNames DEF TableRules

\* One more statement, executed, is one more statement of the whole.
LEMMA ExecuteApplies ==
    ASSUME NEW t, NEW S, NEW f, Harmonious(S \cup {f}),
           Shaped(Atomic!Applied(S, t)), Executable(f, Atomic!Applied(S, t))
    PROVE  Execute(f, Atomic!Applied(S, t)) = Atomic!Applied(S \cup {f}, t)
<1> DEFINE d == Atomic!Applied(S, t)
           u == Atomic!Applied(S \cup {f}, t)
           e == Execute(f, d)
<1>1. Wellformed(f) /\ Shaped(d) /\ Executable(f, d) /\ f.rule \in Rules
  BY DEF Harmonious, Wellformed
<1>2. \A R, n, p : DOMAIN Atomic!Written(R, n, p) = DOMAIN p
  BY DEF Atomic!Written
<1>3. /\ DOMAIN d.pol = DOMAIN t.pol \ Atomic!Dropped(S)
      /\ DOMAIN u.pol = DOMAIN t.pol \ Atomic!Dropped(S \cup {f})
      /\ \A n \in DOMAIN d.pol : d.pol[n] = Atomic!Written(S, n, t.pol[n])
      /\ \A n \in DOMAIN u.pol : u.pol[n] = Atomic!Written(S \cup {f}, n, t.pol[n])
  BY DEF Atomic!Applied
<1>4. /\ d.rls = (t.rls \/ \E g \in S : g.rule \in {"SEC001", "SEC032"})
      /\ u.rls = (t.rls \/ \E g \in S \cup {f} : g.rule \in {"SEC001", "SEC032"})
      /\ d.force = (t.force \/ \E g \in S : g.rule = "SEC002")
      /\ u.force = (t.force \/ \E g \in S \cup {f} : g.rule = "SEC002")
  BY DEF Atomic!Applied
<1>5. Proper(d) /\ Proper(u) /\ Proper(e)
  <2>1. Proper(d) /\ Proper(u)
    BY AppliedIsProper
  <2>2. f.rule \notin DropRules \cup TableRules => f.at \in DOMAIN d.pol
    BY <1>1 DEF Wellformed, Executable
  <2> HIDE DEF d, u
  <2> QED
    BY <1>1, <2>1, <2>2, ExecuteIsProper
<1>6. Atomic!Dropped(S \cup {f}) = IF f.rule \in DropRules THEN Atomic!Dropped(S) \cup {f.at}
                                   ELSE Atomic!Dropped(S)
  BY DEF Atomic!Dropped
<1>7. ASSUME NEW n \in DOMAIN d.pol \cap DOMAIN u.pol
      PROVE  /\ DOMAIN u.pol[n] = DOMAIN d.pol[n]
             /\ \A k \in DOMAIN d.pol[n] :
                    u.pol[n][k] = IF f.at = n /\ k \in DOMAIN f.new THEN f.new[k] ELSE d.pol[n][k]
  <2>1. u.pol[n] = Atomic!Written(S \cup {f}, n, t.pol[n])
        /\ d.pol[n] = Atomic!Written(S, n, t.pol[n])
    BY <1>3
  <2>2. \A p : \A k \in DOMAIN p :
            Atomic!Written(S \cup {f}, n, p)[k] =
                IF f.at = n /\ k \in DOMAIN f.new THEN f.new[k] ELSE Atomic!Written(S, n, p)[k]
    <3> HIDE DEF d, u
    <3> QED
      BY SMTT(60), WrittenStep
  <2> HIDE DEF d, u
  <2> QED
    BY SMTT(60), <1>2, <2>1, <2>2
<1>8. f.rule \in TableRules \cup DropRules => DOMAIN f.new = {}
  BY <1>1 DEF Wellformed
<1> HIDE DEF d, u
<1>9. CASE f.rule \in TableRules
  <2>1. /\ e.pol = d.pol /\ e.rls = (IF f.rule = "SEC002" THEN d.rls ELSE TRUE)
        /\ e.force = IF f.rule = "SEC002" THEN TRUE ELSE d.force
    BY <1>1, <1>9, ExecuteOnTable
  <2>2. f.rule \notin DropRules
    BY <1>9, RuleNames DEF TableRules
  <2>3. u.rls = e.rls /\ u.force = e.force
    BY <1>4, <1>9, <2>1 DEF TableRules
  <2>4. DOMAIN u.pol = DOMAIN d.pol
    BY <1>3, <1>6, <2>2
  <2> HIDE DEF e
  <2>5. \A n \in DOMAIN e.pol : /\ DOMAIN e.pol[n] = DOMAIN u.pol[n]
                                /\ \A k \in DOMAIN e.pol[n] : e.pol[n][k] = u.pol[n][k]
    BY <1>7, <1>8, <1>9, <2>1, <2>4
  <2>6. e = u
    BY <1>5, <2>1, <2>3, <2>4, <2>5, SameTable
  <2> QED
    BY <2>6 DEF d, u, e
<1>10. CASE f.rule \in DropRules
  <2>1. /\ e.rls = d.rls /\ e.force = d.force /\ DOMAIN e.pol = DOMAIN d.pol \ {f.at}
        /\ \A n \in DOMAIN d.pol \ {f.at} : e.pol[n] = d.pol[n]
    BY <1>1, <1>10, ExecuteDrop
  <2>2. u.rls = e.rls /\ u.force = e.force
    BY <1>4, <1>10, <2>1, RuleNames
  <2>3. DOMAIN u.pol = DOMAIN d.pol \ {f.at}
    BY <1>3, <1>6, <1>10
  <2> HIDE DEF e
  <2>4. \A n \in DOMAIN e.pol : /\ DOMAIN e.pol[n] = DOMAIN u.pol[n]
                                /\ \A k \in DOMAIN e.pol[n] : e.pol[n][k] = u.pol[n][k]
    BY <1>7, <1>8, <1>10, <2>1, <2>3
  <2>5. e = u
    BY <1>5, <2>1, <2>2, <2>3, <2>4, SameTable
  <2> QED
    BY <2>5 DEF d, u, e
<1>11. CASE f.rule \notin DropRules \cup TableRules
  <2>1. f.at \in DOMAIN d.pol
    BY <1>1, <1>11 DEF Wellformed, Executable
  <2>2. /\ e.rls = d.rls /\ e.force = d.force /\ DOMAIN e.pol = DOMAIN d.pol
        /\ \A n \in DOMAIN d.pol \ {f.at} : e.pol[n] = d.pol[n]
        /\ DOMAIN e.pol[f.at] = DOMAIN d.pol[f.at]
        /\ \A k \in DOMAIN d.pol[f.at] : e.pol[f.at][k] =
               IF k \in DOMAIN f.new THEN f.new[k] ELSE d.pol[f.at][k]
    BY <1>1, <1>11, <2>1, ExecuteRewrite
  <2>3. u.rls = e.rls /\ u.force = e.force
    BY <1>4, <1>11, <2>2 DEF TableRules
  <2>4. DOMAIN u.pol = DOMAIN d.pol
    BY <1>3, <1>6, <1>11
  <2> HIDE DEF e
  <2>5. \A n \in DOMAIN e.pol : /\ DOMAIN e.pol[n] = DOMAIN u.pol[n]
                                /\ \A k \in DOMAIN e.pol[n] : e.pol[n][k] = u.pol[n][k]
    BY <1>7, <2>1, <2>2, <2>4
  <2>6. e = u
    BY <1>5, <2>2, <2>3, <2>4, <2>5, SameTable
  <2> QED
    BY <2>6 DEF d, u, e
<1> QED
  BY <1>9, <1>10, <1>11
-------------------------------------------------------------------------------
\* A run's plan is made of the table it applies to, and its draft is what the
\* statements it is past make of that table.
Whole == \A r \in Runs :
    /\ pc[r] # "idle" => \E ruleFilter \in Filters : plan[r] = GenerateFixes(table, ruleFilter)
    /\ writer = r => draft = Atomic!Applied(plan[r] \ todo[r], table)
LoneInv == Proper(table) /\ Whole /\ edits \in Nat

\* The tables of the model are records of records.
LEMMA TablesAreProper ==
    ASSUME NEW t, IsTable(t)
    PROVE  Proper(t)
<1>1. \A p \in Policy : Rec(p) = p
  BY DEF Policy, Rec
<1>2. /\ t = [rls |-> t.rls, force |-> t.force, pol |-> [n \in DOMAIN t.pol |-> t.pol[n]]]
      /\ t.rls \in BOOLEAN /\ t.force \in BOOLEAN
      /\ \A n \in DOMAIN t.pol : t.pol[n] \in Policy
  BY DEF IsTable
<1>3. [n \in DOMAIN t.pol |-> t.pol[n]] = Recs(t.pol)
  BY <1>1, <1>2 DEF Recs
<1> QED
  BY <1>2, <1>3 DEF Proper

\* A statement of the only run applies one more of its plan.
LEMMA StatementWhole ==
    ASSUME PlanInv, LoneInv, NEW s, Runs = {s}, Statement(s)
    PROVE  LoneInv'
<1> DEFINE f == Next1(s)
           S == plan[s] \ todo[s]
<1>1. /\ todo[s] # {} /\ todo[s] \subseteq plan[s] /\ GoodPlan(plan[s]) /\ s # NoRun
      /\ Executable(f, draft) /\ Shaped(draft) /\ writer \in {NoRun, s}
  BY ApplyAssumption DEF Statement, HasTable, PlanInv, Plans, TablesOK
<1>2. /\ writer' = s /\ draft' = Execute(f, draft)
      /\ todo' = [todo EXCEPT ![s] = @ \ {f}]
      /\ UNCHANGED <<table, pc, plan, edits>>
  BY DEF Statement
<1>3. f \in todo[s] /\ f \in plan[s]
  BY <1>1, FirstExists DEF Next1, GoodPlan
<1>4. draft = Atomic!Applied(S, table)
  <2>1. CASE writer = s
    BY <2>1 DEF LoneInv, Whole
  <2>2. CASE writer = NoRun
    <3>1. S = {} /\ draft = table
      BY <1>1, <2>2 DEF PlanInv, Progress, TablesOK
    <3>2. Atomic!Applied({}, table) = table
      BY AppliedNothing DEF LoneInv
    <3> QED
      BY <3>1, <3>2
  <2> QED
    BY <1>1, <2>1, <2>2
<1> HIDE DEF f
<1>5. plan'[s] \ todo'[s] = S \cup {f}
  BY <1>1, <1>2, <1>3 DEF PlanInv, Functions
<1>6. Harmonious(S \cup {f})
  BY <1>1, <1>3 DEF Harmonious, GoodPlan
<1> HIDE DEF S
<1>7. draft' = Atomic!Applied(S \cup {f}, table)
  BY <1>1, <1>2, <1>4, <1>6, ExecuteApplies
<1>8. pc[s] # "idle" => \E ruleFilter \in Filters : plan[s] = GenerateFixes(table, ruleFilter)
  BY DEF LoneInv, Whole
<1>9. Whole'
  BY <1>2, <1>5, <1>7, <1>8 DEF Whole
<1> QED
  BY <1>2, <1>9 DEF LoneInv

\* What the only run commits is the effect of its whole plan, or nothing.
LEMMA CommitIsWhole ==
    ASSUME PlanInv, LoneInv, NEW s, Runs = {s}, Commit(s)
    PROVE  Atomic!FixRun \/ table' = table
<1>1. writer = NoRun => table' = table
  BY DEF Commit, PlanInv, TablesOK
<1>2. writer \in {NoRun, s}
  BY DEF PlanInv, Locks
<1>3. CASE writer = s
  <2>1. PICK ruleFilter \in Filters : plan[s] = GenerateFixes(table, ruleFilter)
    BY DEF Commit, LoneInv, Whole
  <2>2. plan[s] \ todo[s] = plan[s]
    BY DEF Commit
  <2>3. table' = Atomic!Applied(GenerateFixes(table, ruleFilter), table)
    BY <1>3, <2>1, <2>2 DEF Commit, LoneInv, Whole
  <2> QED
    BY <2>3 DEF Atomic!FixRun
<1> QED
  BY <1>1, <1>2, <1>3

\* Every step of the only run keeps its invariant and is one step of the
\* abstract specification, or none.
LEMMA LoneStep ==
    ASSUME PlanInv, LoneInv, [Next]_vars, NEW s, Runs = {s}, MaxEdits = 0
    PROVE  LoneInv' /\ [Atomic!Next]_table
<1>1. Functions /\ (writer # NoRun => pc[writer] = "applying") /\ s # NoRun
  BY ApplyAssumption DEF PlanInv, Locks
<1>2. ASSUME NEW ruleFilter \in Filters, Introspect(s, ruleFilter)
      PROVE  LoneInv' /\ table' = table
  <2>1. writer' # s
    BY <1>1, <1>2 DEF Introspect
  <2>2. plan'[s] = GenerateFixes(table, ruleFilter) /\ UNCHANGED <<table, edits>>
    BY <1>1, <1>2 DEF Introspect, Functions
  <2>3. Whole'
    BY <2>1, <2>2 DEF Whole
  <2> QED
    BY <2>2, <2>3 DEF LoneInv
<1>3. ASSUME Lock(s) PROVE LoneInv' /\ table' = table
  BY <1>1, <1>3 DEF Lock, LoneInv, Whole, Functions
<1>4. ASSUME Statement(s) PROVE LoneInv' /\ table' = table
  BY <1>4, StatementWhole DEF Statement
<1>5. ASSUME Ends(s) PROVE pc'[s] = "idle" /\ writer' # s
  BY <1>1, <1>5 DEF Ends, Functions
<1>6. ASSUME RolledBack(s) PROVE LoneInv' /\ table' = table
  BY <1>5, <1>6 DEF RolledBack, LoneInv, Whole
<1>7. ASSUME Commit(s) PROVE LoneInv' /\ [Atomic!Next]_table
  <2>1. Proper(table')
    BY <1>7, AppliedIsProper DEF Commit, PlanInv, Locks, TablesOK, LoneInv, Whole
  <2>2. Whole' /\ edits' = edits
    BY <1>5, <1>7 DEF Commit, Whole
  <2>3. Atomic!FixRun \/ table' = table
    BY <1>7, CommitIsWhole
  <2> QED
    BY <2>1, <2>2, <2>3 DEF LoneInv, Atomic!Next
<1>8. ~Migration
  <2>1. ~(edits < MaxEdits)
    BY DEF LoneInv
  <2> QED
    BY <2>1 DEF Migration, DropPolicy, InstallPolicy, Edited
<1>9. ASSUME UNCHANGED vars PROVE LoneInv' /\ table' = table
  BY <1>9 DEF vars, LoneInv, Whole
<1>10. ASSUME Run(s) PROVE LoneInv' /\ [Atomic!Next]_table
  BY <1>2, <1>3, <1>4, <1>6, <1>7, <1>10 DEF Run, Rejected, Abort
<1> QED
  BY <1>8, <1>9, <1>10 DEF Next

\* A single run that no migration disturbs, with any failures, goes from the
\* table it finds to what its whole plan makes of it in one step, or nowhere:
\* it implements the abstract specification.
THEOREM LoneRunIsAtomic ==
    ASSUME NEW s, Runs = {s}, MaxEdits = 0
    PROVE  Spec => RunsAreAtomic
<1>1. Init => LoneInv /\ Atomic!Init
  <2> SUFFICES ASSUME Init PROVE LoneInv /\ Atomic!Init
    OBVIOUS
  <2>1. Proper(table)
    BY ApplyAssumption, TablesAreProper DEF Init
  <2>2. Whole
    BY ApplyAssumption DEF Init, Whole
  <2> QED
    BY <2>1, <2>2 DEF Init, LoneInv, Atomic!Init
<1>2. PlanInv /\ LoneInv /\ [Next]_vars => LoneInv' /\ [Atomic!Next]_table
  BY LoneStep
<1> QED
  BY PlanInvariant, <1>1, <1>2, PTL DEF Spec, RunsAreAtomic, Atomic!Spec
-------------------------------------------------------------------------------
(* What a plan admits.                                                      *)

\* The recursion of `Without` up to n.
IsKept(f, d, test, n) ==
    f = [i \in 0 .. n |-> IF i = 0 THEN <<>>
                          ELSE IF d[i].test = test THEN f[i - 1] ELSE Append(f[i - 1], d[i])]

\* A set of natural numbers has a least one.
LEMMA LeastNumber ==
    ASSUME NEW S, S \subseteq Nat, S # {}
    PROVE  \E k \in S : \A j \in S : k <= j
<1> DEFINE key == [k \in S |-> k]
<1>1. \E f \in S : \A g \in S : key[f] <= key[g]
  <2>1. \A f \in S : key[f] \in Nat
    OBVIOUS
  <2> HIDE DEF key
  <2> QED
    BY <2>1, LeastKey
<1> QED
  BY <1>1

\* It defines a function.
LEMMA KeptExists ==
    ASSUME NEW d, NEW test, NEW n \in Nat
    PROVE  \E f : IsKept(f, d, test, n)
<1> DEFINE Missing == {m \in Nat : ~\E f : IsKept(f, d, test, m)}
           Next2(prev, i) == IF d[i].test = test THEN prev ELSE Append(prev, d[i])
<1> SUFFICES ASSUME Missing # {} PROVE FALSE
  OBVIOUS
<1>1. PICK m \in Missing : \A j \in Missing : m <= j
  <2>1. Missing \subseteq Nat
    OBVIOUS
  <2> HIDE DEF Missing
  <2> QED
    BY <2>1, LeastNumber
<1>2. m \in Nat /\ ~\E f : IsKept(f, d, test, m)
  OBVIOUS
<1>3. CASE m = 0
  <2> DEFINE g == [i \in 0 .. 0 |-> <<>>]
  <2>1. IsKept(g, d, test, 0)
    BY DEF IsKept
  <2> QED
    BY <1>2, <1>3, <2>1
<1>4. CASE m # 0
  <2>1. m - 1 \in Nat /\ ~(m <= m - 1)
    BY <1>2, <1>4
  <2>2. PICK f : IsKept(f, d, test, m - 1)
    BY <1>1, <2>1
  <2> DEFINE g == [i \in 0 .. m |-> IF i < m THEN f[i] ELSE Next2(f[m - 1], m)]
  <2>3. ASSUME NEW i \in 0 .. m
        PROVE  g[i] = IF i = 0 THEN <<>> ELSE Next2(g[i - 1], i)
    <3>1. CASE i = 0
      <4>1. 0 \in 0 .. (m - 1) /\ 0 < m
        BY <1>2, <1>4
      <4>2. f[0] = <<>>
        BY <2>2, <4>1 DEF IsKept
      <4> QED
        BY <3>1, <4>1, <4>2
    <3>2. CASE i # 0 /\ i < m
      <4>1. i \in 0 .. (m - 1) /\ i - 1 \in 0 .. m /\ i - 1 < m /\ i - 1 \in 0 .. (m - 1)
        BY <1>2, <3>2
      <4>2. f[i] = Next2(f[i - 1], i)
        BY <2>2, <3>2, <4>1 DEF IsKept
      <4> QED
        BY <3>2, <4>1, <4>2
    <3>3. CASE i = m
      <4>1. i - 1 \in 0 .. m /\ i - 1 < m /\ ~(i < m) /\ i # 0
        BY <1>2, <1>4, <3>3
      <4> QED
        BY <3>3, <4>1
    <3> QED
      BY <1>2, <3>1, <3>2, <3>3
  <2>4. IsKept(g, d, test, m)
    <3>1. g = [i \in 0 .. m |-> g[i]]
      OBVIOUS
    <3> HIDE DEF g
    <3> QED
      BY <2>3, <3>1 DEF IsKept
  <2> QED
    BY <1>2, <2>4
<1> QED
  BY <1>3, <1>4

\* What is kept of a disjunction are tests of it.
LEMMA WithoutPicks ==
    ASSUME NEW d \in Seq(Test), NEW test
    PROVE  Without(d, test) \in Seq({d[j] : j \in DOMAIN d})
<1> DEFINE R == {d[j] : j \in DOMAIN d}
           n == Len(d)
           f == CHOOSE g : IsKept(g, d, test, n)
           Wrong == {k \in 0 .. n : f[k] \notin Seq(R)}
<1>1. n \in Nat /\ DOMAIN d = 1 .. n
  OBVIOUS
<1>2. IsKept(f, d, test, n)
  <2>1. \E g : IsKept(g, d, test, n)
    BY <1>1, KeptExists
  <2> QED
    BY <2>1
<1>3. Without(d, test) = f[n]
  BY DEF Without, IsKept
<1> HIDE DEF f
<1>4. Wrong = {}
  <2> SUFFICES ASSUME Wrong # {} PROVE FALSE
    OBVIOUS
  <2>1. PICK k \in Wrong : \A j \in Wrong : k <= j
    <3>1. Wrong \subseteq Nat
      BY <1>1
    <3> HIDE DEF Wrong
    <3> QED
      BY <3>1, LeastNumber
  <2>2. k \in 0 .. n /\ f[k] \notin Seq(R)
    OBVIOUS
  <2>3. k # 0
    BY <1>2, <2>2 DEF IsKept
  <2>4. k - 1 \in 0 .. n /\ ~(k <= k - 1) /\ k \in DOMAIN d
    BY <1>1, <2>2, <2>3
  <2>5. f[k - 1] \in Seq(R)
    BY <2>1, <2>4
  <2>6. f[k] = IF d[k].test = test THEN f[k - 1] ELSE Append(f[k - 1], d[k])
    BY <1>2, <2>2, <2>3 DEF IsKept
  <2>7. d[k] \in R
    BY <2>4
  <2> HIDE DEF R
  <2>8. Append(f[k - 1], d[k]) \in Seq(R)
    BY <2>5, <2>7
  <2> QED
    BY <2>2, <2>5, <2>6, <2>8
<1>5. n \in 0 .. n
  BY <1>1
<1> QED
  BY <1>3, <1>4, <1>5

Answers == {"T", "F", "N", "E"}
\* What is not hidden: admitted, or never answered.
Open == {"T", "E"}

\* The length of a sequence is its domain's.
LEMMA LengthOf ==
    ASSUME NEW n \in Nat, NEW s, s = [i \in 1 .. n |-> s[i]]
    PROVE  Len(s) = n
OBVIOUS

\* An OR that is true has a true operand.
LEMMA OrTrue ==
    ASSUME NEW n \in Nat, NEW s, s = [i \in 1 .. n |-> s[i]], Or(s) = "T"
    PROVE  \E i \in 1 .. n : s[i] = "T"
BY LengthOf DEF Or

\* An OR with an operand that is true or raises is not false.
LEMMA OrOpen ==
    ASSUME NEW n \in Nat, NEW s, s = [i \in 1 .. n |-> s[i]],
           NEW j \in 1 .. n, s[j] \in Open
    PROVE  Or(s) \in Open
<1>1. Len(s) = n
  BY LengthOf
<1>2. CASE Before(s, j, "E")
  <2>1. Before(s, n + 1, "E")
    BY <1>2 DEF Before
  <2> QED
    BY <1>1, <2>1 DEF Or, Open
<1>3. CASE ~Before(s, j, "E") /\ s[j] = "T"
  BY <1>1, <1>3 DEF Or, Open
<1>4. CASE s[j] = "E"
  <2>1. Before(s, n + 1, "E")
    BY <1>4 DEF Before
  <2> QED
    BY <1>1, <2>1 DEF Or, Open
<1> QED
  BY <1>2, <1>3, <1>4 DEF Open

\* An AND that is true has true operands only.
LEMMA AndTrue ==
    ASSUME NEW n \in Nat, NEW s, s = [i \in 1 .. n |-> s[i]], \A i \in 1 .. n : s[i] \in Answers,
           And(s) = "T"
    PROVE  \A i \in 1 .. n : s[i] = "T"
<1>1. Len(s) = n
  BY LengthOf
<1>2. ~Before(s, n + 1, "E") /\ ~Before(s, n + 1, "N")
  BY <1>1 DEF And
<1>3. ~\E i \in 1 .. n : s[i] = "F" /\ ~Before(s, i, "E")
  BY <1>1 DEF And
<1>4. \A i \in 1 .. n : s[i] # "E" /\ s[i] # "N"
  BY <1>2 DEF Before
<1>5. \A i \in 1 .. n : ~Before(s, i, "E")
  BY <1>4 DEF Before
<1> QED
  BY <1>3, <1>4, <1>5 DEF Answers

\* An AND of operands that are true or raise is not false.
LEMMA AndOpen ==
    ASSUME NEW n \in Nat, NEW s, s = [i \in 1 .. n |-> s[i]], \A i \in 1 .. n : s[i] \in Open
    PROVE  And(s) \in Open
<1>1. Len(s) = n
  BY LengthOf
<1>2. ~\E i \in 1 .. n : s[i] = "F"
  BY DEF Open
<1>3. ~Before(s, n + 1, "N")
  BY DEF Open, Before
<1> QED
  BY <1>1, <1>2, <1>3 DEF And, Open

\* An OR or an AND has one of the four answers.
LEMMA AnswersOf == \A s : Or(s) \in Answers /\ And(s) \in Answers
BY DEF Or, And, Answers

\* A disjunction that is true has a true test.
LEMMA EvalOrTrue ==
    ASSUME NEW d \in Seq(Test), NEW q, NEW row, EvalOr(d, q, row) = "T"
    PROVE  \E i \in DOMAIN d : Eval(d[i], q, row) = "T"
<1>1. CASE \E i \in DOMAIN d : d[i].test = "true"
  BY <1>1 DEF Eval
<1>2. CASE ~\E i \in DOMAIN d : d[i].test = "true"
  <2> DEFINE s == [i \in DOMAIN d |-> Eval(d[i], q, row)]
  <2>1. Or(s) = "T" /\ DOMAIN d = 1 .. Len(d) /\ Len(d) \in Nat
    BY <1>2 DEF EvalOr
  <2>2. s = [i \in 1 .. Len(d) |-> s[i]] /\ \A i \in DOMAIN d : s[i] = Eval(d[i], q, row)
    BY <2>1
  <2> HIDE DEF s
  <2> QED
    BY <2>1, <2>2, OrTrue
<1> QED
  BY <1>1, <1>2

\* A disjunction with a test that is true or raises is not false.
LEMMA EvalOrOpen ==
    ASSUME NEW d \in Seq(Test), NEW q, NEW row, NEW j \in DOMAIN d, Eval(d[j], q, row) \in Open
    PROVE  EvalOr(d, q, row) \in Open
<1>1. CASE \E i \in DOMAIN d : d[i].test = "true"
  BY <1>1 DEF EvalOr, Open
<1>2. CASE ~\E i \in DOMAIN d : d[i].test = "true"
  <2> DEFINE s == [i \in DOMAIN d |-> Eval(d[i], q, row)]
  <2>1. EvalOr(d, q, row) = Or(s) /\ DOMAIN d = 1 .. Len(d) /\ Len(d) \in Nat
    BY <1>2 DEF EvalOr
  <2>2. s = [i \in 1 .. Len(d) |-> s[i]] /\ s[j] \in Open
    BY <2>1
  <2> HIDE DEF s
  <2> QED
    BY <2>1, <2>2, OrOpen
<1> QED
  BY <1>1, <1>2

\* A disjunction is narrower when every test of it stands for one that is open
\* wherever it is true.
NarrowerTest(b, a) == \A q \in Requests, row \in Rows :
    Eval(b, q, row) = "T" => Eval(a, q, row) \in Open
NarrowerOr(e, d) == \A q \in Requests, row \in Rows :
    EvalOr(e, q, row) = "T" => EvalOr(d, q, row) \in Open

\* So is a disjunction, test by test.
LEMMA TestsNarrow ==
    ASSUME NEW d \in Seq(Test), NEW e \in Seq(Test),
           \A i \in DOMAIN e : \E j \in DOMAIN d : NarrowerTest(e[i], d[j])
    PROVE  NarrowerOr(e, d)
<1> SUFFICES ASSUME NEW q \in Requests, NEW row \in Rows, EvalOr(e, q, row) = "T"
             PROVE  EvalOr(d, q, row) \in Open
  BY DEF NarrowerOr
<1>1. PICK i \in DOMAIN e : Eval(e[i], q, row) = "T"
  BY EvalOrTrue
<1>2. PICK j \in DOMAIN d : NarrowerTest(e[i], d[j])
  OBVIOUS
<1>3. Eval(d[j], q, row) \in Open
  BY <1>1, <1>2 DEF NarrowerTest
<1> QED
  BY <1>3, EvalOrOpen

\* A test is no wider than itself.
LEMMA SameTest == ASSUME NEW a PROVE NarrowerTest(a, a)
BY DEF NarrowerTest, Open

\* A clause is narrower when its disjunctions are.  A clause that is there stays.
Narrower(b, a) ==
    /\ b = Absent <=> a = Absent
    /\ \A q \in Requests, row \in Rows :
           EvalClause(b, q, row) = "T" => EvalClause(a, q, row) \in Open

\* The answers of a clause's disjunctions.
LEMMA ClauseValues ==
    ASSUME NEW c \in Clause, NEW q, NEW row
    PROVE  \E s : /\ s = [i \in 1 .. Len(c) |-> s[i]]
                  /\ \A i \in 1 .. Len(c) : s[i] = EvalOr(c[i], q, row) /\ s[i] \in Answers
                  /\ EvalClause(c, q, row) = And(s)
<1> DEFINE s == [i \in DOMAIN c |-> EvalOr(c[i], q, row)]
<1>1. DOMAIN c = 1 .. Len(c) /\ Len(c) \in Nat /\ c \in Seq(Seq(Test))
  BY DEF Clause
<1>2. \A d : EvalOr(d, q, row) \in Answers
  BY AnswersOf DEF EvalOr, Answers
<1>3. EvalClause(c, q, row) = And(s)
  BY DEF EvalClause
<1>4. s = [i \in 1 .. Len(c) |-> s[i]]
  BY <1>1
<1>5. \A i \in 1 .. Len(c) : s[i] = EvalOr(c[i], q, row) /\ s[i] \in Answers
  BY <1>1, <1>2
<1> QED
  BY <1>3, <1>4, <1>5

\* A clause is narrower when each of its disjunctions is.
LEMMA OrsNarrow ==
    ASSUME NEW c \in Clause, NEW b \in Clause, DOMAIN b = DOMAIN c,
           \A i \in DOMAIN c : NarrowerOr(b[i], c[i])
    PROVE  Narrower(b, c)
<1>0. DOMAIN c = 1 .. Len(c) /\ Len(c) \in Nat /\ DOMAIN b = 1 .. Len(b) /\ Len(b) \in Nat
  BY DEF Clause
<1>1. Len(b) = Len(c)
  BY <1>0
<1>2. b = Absent <=> c = Absent
  BY <1>0, <1>1 DEF Absent, Clause
<1>3. ASSUME NEW q \in Requests, NEW row \in Rows, EvalClause(b, q, row) = "T"
      PROVE  EvalClause(c, q, row) \in Open
  <2>1. PICK s : /\ s = [i \in 1 .. Len(b) |-> s[i]]
                 /\ \A i \in 1 .. Len(b) : s[i] = EvalOr(b[i], q, row) /\ s[i] \in Answers
                 /\ EvalClause(b, q, row) = And(s)
    BY ClauseValues
  <2>2. PICK t : /\ t = [i \in 1 .. Len(c) |-> t[i]]
                 /\ \A i \in 1 .. Len(c) : t[i] = EvalOr(c[i], q, row) /\ t[i] \in Answers
                 /\ EvalClause(c, q, row) = And(t)
    BY ClauseValues
  <2>3. \A i \in 1 .. Len(b) : s[i] = "T"
    BY <1>0, <1>3, <2>1, AndTrue
  <2>4. \A i \in 1 .. Len(c) : t[i] \in Open
    BY <1>0, <1>1, <2>1, <2>2, <2>3 DEF NarrowerOr
  <2> QED
    BY <1>0, <2>2, <2>4, AndOpen
<1> QED
  BY <1>2, <1>3 DEF Narrower

\* A clause is no wider than itself.
LEMMA SameClause == ASSUME NEW c PROVE Narrower(c, c)
BY DEF Narrower, Open

\* A disjunction without some of its tests is narrower.
LEMMA WithoutNarrows ==
    ASSUME NEW d \in Seq(Test), NEW test
    PROVE  Without(d, test) \in Seq(Test) /\ NarrowerOr(Without(d, test), d)
<1> DEFINE e == Without(d, test)
           R == {d[j] : j \in DOMAIN d}
<1>1. e \in Seq(R) /\ R \subseteq Test
  BY WithoutPicks
<1>2. \A i \in DOMAIN e : e[i] \in R
  <2> HIDE DEF e, R
  <2> QED
    BY <1>1
<1>3. e \in Seq(Test)
  <2> HIDE DEF e, R
  <2> QED
    BY <1>1
<1>4. \A i \in DOMAIN e : \E j \in DOMAIN d : NarrowerTest(e[i], d[j])
  BY <1>2, SameTest
<1> HIDE DEF e
<1>5. NarrowerOr(e, d)
  BY <1>3, <1>4, TestsNarrow
<1> QED
  BY <1>3, <1>5 DEF e

\* The elements of a sequence.
LEMMA ElementOf ==
    ASSUME NEW S, NEW s \in Seq(S), NEW i \in DOMAIN s
    PROVE  s[i] \in S
OBVIOUS

\* A sequence that is not empty has a first element.
LEMMA NotEmpty ==
    ASSUME NEW S, NEW s \in Seq(S), s # <<>>
    PROVE  Len(s) \in Nat /\ Len(s) >= 1 /\ 1 \in DOMAIN s /\ s[1] \in S
<1>1. Len(s) \in Nat /\ DOMAIN s = 1 .. Len(s) /\ Len(s) # 0
  OBVIOUS
<1>2. Len(s) >= 1 /\ 1 \in DOMAIN s
  BY <1>1
<1> QED
  BY <1>1, <1>2

\* A disjunction is no wider than itself.
LEMMA SameOr == ASSUME NEW d PROVE NarrowerOr(d, d)
BY DEF NarrowerOr, Open

\* SEC004's rewriting yields a narrower clause.
LEMMA StripNullAuthNarrows ==
    ASSUME NEW c \in Clause
    PROVE  StripNullAuth(c) \in Clause /\ Narrower(StripNullAuth(c), c)
<1>1. CASE StripNullAuth(c) = c
  BY <1>1, SameClause
<1>2. CASE StripNullAuth(c) # c
  <2> DEFINE kept == Without(c[1], "noauth")
  <2>1. Len(c) = 1 /\ kept # <<>> /\ StripNullAuth(c) = <<kept>>
    BY <1>2 DEF StripNullAuth
  <2>2. c \in Seq(Seq(Test)) /\ DOMAIN c = 1 .. 1
    BY <2>1 DEF Clause
  <2>3. c[1] \in Seq(Test)
    BY <2>2, ElementOf
  <2>4. kept \in Seq(Test) /\ NarrowerOr(kept, c[1])
    BY <2>3, WithoutNarrows
  <2> HIDE DEF kept
  <2>5. <<kept>> \in Clause
    BY <2>1, <2>4 DEF Clause
  <2>6. \A i \in DOMAIN c : NarrowerOr(<<kept>>[i], c[i])
    BY <2>2, <2>4
  <2>7. DOMAIN <<kept>> = DOMAIN c
    BY <2>2
  <2> QED
    BY <2>1, <2>5, <2>6, <2>7, OrsNarrow
<1> QED
  BY <1>1, <1>2

\* So does SEC011's.
LEMMA StripTrueNarrows ==
    ASSUME NEW c \in Clause, ~CannotStripTrue(c)
    PROVE  StripTrue(c) \in Clause /\ Narrower(StripTrue(c), c)
<1> DEFINE b == StripTrue(c)
<1>1. c \in Seq(Seq(Test)) /\ DOMAIN c = 1 .. Len(c) /\ Len(c) \in Nat /\ \A i \in DOMAIN c : c[i] # <<>>
  BY DEF Clause
<1>2. ASSUME NEW i \in DOMAIN c
      PROVE  b[i] \in Seq(Test) /\ b[i] # <<>> /\ NarrowerOr(b[i], c[i])
  <2>1. c[i] \in Seq(Test) /\ c[i] # <<>>
    BY <1>1
  <2>2. CASE Len(c[i]) = 1
    BY <2>1, <2>2, SameOr DEF StripTrue
  <2>3. CASE Len(c[i]) # 1
    <3>1. Len(c[i]) > 1
      <4> DEFINE n == Len(c[i])
      <4>1. n \in Nat /\ n >= 1 /\ n # 1
        BY <2>1, <2>3, NotEmpty
      <4> HIDE DEF n
      <4>2. n > 1
        BY <4>1
      <4> QED
        BY <4>2 DEF n
    <3>2. b[i] = RealTests(c[i]) /\ RealTests(c[i]) # <<>>
      BY <2>3, <3>1 DEF StripTrue, CannotStripTrue
    <3> QED
      BY <2>1, <3>2, WithoutNarrows DEF RealTests
  <2> QED
    BY <2>2, <2>3
<1>3. b = [i \in 1 .. Len(c) |-> b[i]]
  BY <1>1 DEF StripTrue
<1> HIDE DEF b
<1>4. b \in Seq(Seq(Test)) /\ DOMAIN b = DOMAIN c
  BY <1>1, <1>2, <1>3
<1>5. b \in Clause
  BY <1>2, <1>4 DEF Clause
<1>6. Narrower(b, c)
  BY <1>2, <1>4, <1>5, OrsNarrow
<1> QED
  BY <1>5, <1>6 DEF b

\* A test is no wider with missing_ok.
LEMMA MissingOkTest ==
    ASSUME NEW a \in Test
    PROVE  [a EXCEPT !.missingOk = TRUE] \in Test /\ NarrowerTest([a EXCEPT !.missingOk = TRUE], a)
BY DEF Test, NarrowerTest, Eval, Open

\* A test is no wider in a (SELECT ...).
LEMMA WrappedTest ==
    ASSUME NEW a \in Test
    PROVE  [a EXCEPT !.wrapped = TRUE] \in Test /\ NarrowerTest([a EXCEPT !.wrapped = TRUE], a)
BY DEF Test, NarrowerTest, Eval, Open

\* SEC019's rewriting yields a narrower clause.
LEMMA AddMissingOkNarrows ==
    ASSUME NEW c \in Clause
    PROVE  AddMissingOk(c) \in Clause /\ Narrower(AddMissingOk(c), c)
<1> DEFINE b == AddMissingOk(c)
<1>1. c \in Seq(Seq(Test)) /\ DOMAIN c = 1 .. Len(c) /\ Len(c) \in Nat /\ \A i \in DOMAIN c : c[i] # <<>>
  BY DEF Clause
<1>2. ASSUME NEW i \in DOMAIN c
      PROVE  b[i] \in Seq(Test) /\ b[i] # <<>> /\ NarrowerOr(b[i], c[i])
  <2>1. c[i] \in Seq(Test) /\ c[i] # <<>>
    BY <1>1
  <2>2. CASE ~(Len(c[i]) = 1 /\ c[i][1].test = "own")
    BY <2>1, <2>2, SameOr DEF AddMissingOk
  <2>3. CASE Len(c[i]) = 1 /\ c[i][1].test = "own"
    <3> DEFINE a == [c[i][1] EXCEPT !.missingOk = TRUE]
    <3>1. b[i] = <<a>>
      BY <2>3 DEF AddMissingOk
    <3>0. c[i][1] \in Test /\ 1 \in DOMAIN c[i]
      BY <2>1, NotEmpty
    <3>2. a \in Test /\ NarrowerTest(a, c[i][1])
      BY <3>0, MissingOkTest
    <3> HIDE DEF a
    <3>3. \A j \in DOMAIN <<a>> : NarrowerTest(<<a>>[j], c[i][1])
      BY <3>2
    <3>4. <<a>> \in Seq(Test) /\ <<a>> # <<>>
      BY <3>2
    <3> QED
      BY <2>1, <3>0, <3>1, <3>3, <3>4, TestsNarrow
  <2> QED
    BY <2>2, <2>3
<1>3. b = [i \in 1 .. Len(c) |-> b[i]]
  BY <1>1 DEF AddMissingOk
<1> HIDE DEF b
<1>4. b \in Seq(Seq(Test)) /\ DOMAIN b = DOMAIN c
  BY <1>1, <1>2, <1>3
<1>5. b \in Clause
  BY <1>2, <1>4 DEF Clause
<1>6. Narrower(b, c)
  BY <1>2, <1>4, <1>5, OrsNarrow
<1> QED
  BY <1>5, <1>6 DEF b

\* So does PERF001's.
LEMMA WrapNarrows ==
    ASSUME NEW c \in Clause
    PROVE  Wrap(c) \in Clause /\ Narrower(Wrap(c), c)
<1> DEFINE b == Wrap(c)
<1>1. c \in Seq(Seq(Test)) /\ DOMAIN c = 1 .. Len(c) /\ Len(c) \in Nat /\ \A i \in DOMAIN c : c[i] # <<>>
  BY DEF Clause
<1>2. ASSUME NEW i \in DOMAIN c
      PROVE  b[i] \in Seq(Test) /\ b[i] # <<>> /\ NarrowerOr(b[i], c[i])
  <2> DEFINE d == c[i]
             e == b[i]
  <2>1. d \in Seq(Test) /\ d # <<>> /\ DOMAIN d = 1 .. Len(d) /\ Len(d) \in Nat
    BY <1>1
  <2>2. e = [j \in 1 .. Len(d) |-> e[j]]
    BY <2>1 DEF Wrap
  <2>3. \A j \in DOMAIN d : e[j] = d[j] \/ e[j] = [d[j] EXCEPT !.wrapped = TRUE]
    BY DEF Wrap
  <2>4. \A j \in DOMAIN d : d[j] \in Test
    BY <2>1
  <2> HIDE DEF d, e
  <2>5. \A j \in DOMAIN d : e[j] \in Test /\ NarrowerTest(e[j], d[j])
    BY <2>3, <2>4, WrappedTest, SameTest
  <2>6. e \in Seq(Test) /\ DOMAIN e = DOMAIN d
    BY <2>1, <2>2, <2>5
  <2>7. e # <<>>
    BY <2>1, <2>6
  <2>8. NarrowerOr(e, d)
    BY <2>1, <2>5, <2>6, TestsNarrow
  <2> QED
    BY <2>6, <2>7, <2>8 DEF d, e
<1>3. b = [i \in 1 .. Len(c) |-> b[i]]
  BY <1>1 DEF Wrap
<1> HIDE DEF b
<1>4. b \in Seq(Seq(Test)) /\ DOMAIN b = DOMAIN c
  BY <1>1, <1>2, <1>3
<1>5. b \in Clause
  BY <1>2, <1>4 DEF Clause
<1>6. Narrower(b, c)
  BY <1>2, <1>4, <1>5, OrsNarrow
<1> QED
  BY <1>5, <1>6 DEF b

\* What is literally true is narrowed by anything.
LEMMA LiteralTrueOpen ==
    ASSUME NEW c \in Clause, LiteralTrue(c), NEW q, NEW row
    PROVE  EvalClause(c, q, row) \in Open
<1>1. PICK s : /\ s = [i \in 1 .. Len(c) |-> s[i]]
               /\ \A i \in 1 .. Len(c) : s[i] = EvalOr(c[i], q, row) /\ s[i] \in Answers
               /\ EvalClause(c, q, row) = And(s)
  BY ClauseValues
<1>2. Len(c) = 1 /\ c \in Seq(Seq(Test)) /\ Len(c[1]) = 1 /\ c[1][1].test = "true"
  BY DEF LiteralTrue, Clause
<1>3. 1 \in DOMAIN c[1]
  BY <1>2
<1>4. EvalOr(c[1], q, row) = "T"
  BY <1>2, <1>3 DEF EvalOr
<1>5. \A i \in 1 .. Len(c) : s[i] \in Open
  BY <1>1, <1>2, <1>4 DEF Open
<1> QED
  BY <1>1, <1>2, <1>5, AndOpen

\* A clause that a fixer re-emits is narrower than the one it replaces.
LEMMA NewOfNarrows ==
    ASSUME NEW p \in Policy, NEW rule, NEW k \in DOMAIN NewOf(rule, p)
    PROVE  k \in Clauses /\ NewOf(rule, p)[k] \in Clause /\ Narrower(NewOf(rule, p)[k], p[k])
<1>0. ShapedPolicy(p) /\ p.using \in Clause /\ p.check \in Clause
  BY PoliciesAreShaped DEF Policy
<1>1. k \in Clauses
  BY <1>0, NewClauses
<1>2. p[k] \in Clause
  BY <1>0, <1>1 DEF Clauses
<1>3. \A r : r \in [Clauses -> Clause] /\ (\A c \in Clauses : Narrower(r[c], p[c]))
             => \A c \in DOMAIN Changed(p, r) :
                    Changed(p, r)[c] \in Clause /\ Narrower(Changed(p, r)[c], p[c])
  BY DEF Changed
<1> DEFINE Good(new) == \A c \in DOMAIN new : new[c] \in Clause /\ Narrower(new[c], p[c])
<1>4. Good(NoClauses)
  BY DEF NoClauses
<1>5. \A c \in Clauses : p[c] \in Clause
  BY <1>0 DEF Clauses
<1>6. Good(NoNullAuth(p))
  BY <1>3, <1>5, StripNullAuthNarrows DEF NoNullAuth
<1>7. Good(MissingOk(p))
  BY <1>3, <1>5, AddMissingOkNarrows DEF MissingOk
<1>8. Good(Wrapped(p))
  BY <1>3, <1>5, WrapNarrows DEF Wrapped
<1>9. Good(NoOrTrue(p))
  <2>1. CASE NoOrTrue(p) = NoClauses
    BY <2>1, <1>4
  <2>2. CASE NoOrTrue(p) # NoClauses
    <3>1. /\ ~CannotStripTrue(p.using) /\ ~CannotStripTrue(p.check)
          /\ NoOrTrue(p) = Changed(p, [c \in Clauses |-> StripTrue(p[c])])
      BY <2>2 DEF NoOrTrue
    <3>2. \A c \in Clauses : ~CannotStripTrue(p[c])
      BY <3>1 DEF Clauses
    <3> QED
      BY <1>3, <1>5, <3>1, <3>2, StripTrueNarrows
  <2> QED
    BY <2>1, <2>2
<1>10. Good(MirroredUsing(p))
  <2>1. CASE MirroredUsing(p) = NoClauses
    BY <2>1, <1>4
  <2>2. CASE MirroredUsing(p) # NoClauses
    <3>1. /\ p.using # Absent /\ LiteralTrue(p.check) /\ ~CannotStripTrue(p.using)
          /\ MirroredUsing(p) = [c \in {"check"} |-> StripTrue(p.using)]
      BY <2>2 DEF MirroredUsing
    <3>2. StripTrue(p.using) \in Clause /\ Narrower(StripTrue(p.using), p.using)
      BY <1>0, <3>1, StripTrueNarrows
    <3>3. p.check # Absent /\ StripTrue(p.using) # Absent
      BY <3>1, <3>2 DEF Narrower, LiteralTrue, Absent
    <3>4. Narrower(StripTrue(p.using), p.check)
      BY <1>0, <3>1, <3>3, LiteralTrueOpen DEF Narrower
    <3> QED
      BY <3>1, <3>2, <3>4
  <2> QED
    BY <2>1, <2>2
<1>11. Good(NewOf(rule, p))
  <2> HIDE DEF Good
  <2> QED
    BY <1>4, <1>6, <1>7, <1>8, <1>9, <1>10 DEF NewOf
<1> QED
  BY <1>1, <1>11

\* A policy is narrower when its clauses are.
NarrowerPolicy(w, p) ==
    /\ w.cmd = p.cmd /\ w.permissive = p.permissive
    /\ \A c \in Clauses : Narrower(w[c], p[c])

\* The clause that gates an operation is narrower then.
LEMMA GateNarrows ==
    ASSUME NEW w, NEW p, NarrowerPolicy(w, p), NEW cmd, NEW op, NEW q \in Requests, NEW row \in Rows
    PROVE  /\ Governs(w, cmd, op) <=> Governs(p, cmd, op)
           /\ EvalClause(Gate(w, op), q, row) = "T" => EvalClause(Gate(p, op), q, row) \in Open
<1>1. Narrower(w.using, p.using) /\ Narrower(w.check, p.check)
  BY DEF NarrowerPolicy, Clauses
<1>2. Narrower(Gate(w, op), Gate(p, op))
  BY <1>1 DEF Gate, Narrower
<1> QED
  BY <1>2 DEF NarrowerPolicy, Governs, Narrower

\* Policies become narrower when each of them does, and one that is dropped is
\* permissive, or says nothing, or is one of those that stay, again.
Spared(new, old, n) ==
    \/ old[n].permissive
    \/ InertRestrictive(old[n])
    \/ \E m \in DOMAIN new : old[m] = old[n]
NarrowerPolicies(new, old) ==
    /\ DOMAIN new \subseteq DOMAIN old
    /\ \A n \in DOMAIN new : NarrowerPolicy(new[n], old[n])
    /\ \A n \in DOMAIN old : n \notin DOMAIN new => Spared(new, old, n)
Said(pol, n, op, q, row) == EvalClause(Gate(pol[n], op), q, row)
Speaks(pol, n, cmd, op, kind) ==
    n \in DOMAIN pol /\ pol[n].permissive = kind /\ Governs(pol[n], cmd, op)
AreValues(s, pol, cmd, op, q, row, kind, neutral) ==
    /\ s = [n \in 1 .. LastName |-> s[n]]
    /\ \A n \in 1 .. LastName : s[n] \in Answers
    /\ \A n \in 1 .. LastName :
           s[n] = IF Speaks(pol, n, cmd, op, kind) THEN Said(pol, n, op, q, row) ELSE neutral

\* What `Values` is.
LEMMA ValuesOf ==
    ASSUME NEW pol, NEW cmd, NEW op, NEW q, NEW row, NEW kind, NEW neutral \in Answers
    PROVE  AreValues(Values(pol, cmd, op, q, row, kind, neutral), pol, cmd, op, q, row, kind, neutral)
<1> DEFINE s == Values(pol, cmd, op, q, row, kind, neutral)
<1>1. s = [n \in 1 .. LastName |->
              IF Speaks(pol, n, cmd, op, kind) THEN Said(pol, n, op, q, row) ELSE neutral]
  BY DEF Values, Names, Speaks, Said
<1>2. \A n : Said(pol, n, op, q, row) \in Answers
  BY AnswersOf DEF Said, EvalClause
<1> HIDE DEF s
<1>3. AreValues(s, pol, cmd, op, q, row, kind, neutral)
  BY <1>1, <1>2 DEF AreValues
<1> QED
  BY <1>3 DEF s

\* What both kinds of policies say together.
LEMMA BothTrue ==
    ASSUME NEW x \in Answers, NEW y \in Answers, And(<<x, y>>) = "T"
    PROVE  x = "T" /\ y = "T"
<1> DEFINE s == <<x, y>>
<1>1. s = [i \in 1 .. 2 |-> s[i]] /\ \A i \in 1 .. 2 : s[i] \in Answers
  OBVIOUS
<1>2. \A i \in 1 .. 2 : s[i] = "T"
  <2> HIDE DEF s
  <2> QED
    BY <1>1, AndTrue DEF s
<1> QED
  BY <1>2

\* Two kinds that are not false are not false together.
LEMMA BothOpen ==
    ASSUME NEW x \in Open, NEW y \in Open
    PROVE  And(<<x, y>>) \in Open
<1> DEFINE s == <<x, y>>
<1>1. s = [i \in 1 .. 2 |-> s[i]] /\ \A i \in 1 .. 2 : s[i] \in Open
  OBVIOUS
<1> HIDE DEF s
<1>2. And(s) \in Open
  BY <1>1, AndOpen
<1> QED
  BY <1>2 DEF s

\* A restrictive policy that restricts nothing hides nothing.
LEMMA InertIsOpen ==
    ASSUME NEW p \in Policy, InertRestrictive(p), NEW cmd, NEW op, Governs(p, cmd, op), NEW q, NEW row
    PROVE  EvalClause(Gate(p, op), q, row) \in Open
<1>1. p.using \in Clause /\ p.check \in Clause
  BY DEF Policy
<1>2. Gate(p, op) \in Clause /\ LiteralTrue(Gate(p, op))
  BY <1>1 DEF Gate, Governs, InertRestrictive
<1> QED
  BY <1>2, LiteralTrueOpen

\* Narrower policies admit nothing that was hidden.
LEMMA PoliciesNarrow ==
    ASSUME NEW new, NEW old, NarrowerPolicies(new, old), DOMAIN old \subseteq Names,
           \A n \in DOMAIN old : old[n] \in Policy,
           NEW cmd, NEW op, NEW q \in Requests, NEW row \in Rows,
           Decision(new, cmd, op, q, row) = "T"
    PROVE  Decision(old, cmd, op, q, row) \in Open
<1> DEFINE s == Values(new, cmd, op, q, row, FALSE, "T")
           t == Values(old, cmd, op, q, row, FALSE, "T")
           u == Values(new, cmd, op, q, row, TRUE, "F")
           v == Values(old, cmd, op, q, row, TRUE, "F")
<1>0. LastName \in Nat /\ Names = 1 .. LastName /\ "T" \in Answers /\ "F" \in Answers
  BY RowsAssumption DEF Names, Answers
<1>1. AreValues(s, new, cmd, op, q, row, FALSE, "T")
  BY <1>0, ValuesOf
<1>2. AreValues(t, old, cmd, op, q, row, FALSE, "T")
  BY <1>0, ValuesOf
<1>3. AreValues(u, new, cmd, op, q, row, TRUE, "F")
  BY <1>0, ValuesOf
<1>4. AreValues(v, old, cmd, op, q, row, TRUE, "F")
  BY <1>0, ValuesOf
<1>5. And(<<And(s), Or(u)>>) = "T" /\ Decision(old, cmd, op, q, row) = And(<<And(t), Or(v)>>)
  BY DEF Decision
<1>6. \A n \in DOMAIN new : \A kind \in BOOLEAN :
          /\ n \in DOMAIN old /\ NarrowerPolicy(new[n], old[n])
          /\ Speaks(new, n, cmd, op, kind) <=> Speaks(old, n, cmd, op, kind)
          /\ Said(new, n, op, q, row) = "T" => Said(old, n, op, q, row) \in Open
  BY GateNarrows DEF NarrowerPolicies, NarrowerPolicy, Said, Speaks
<1>7. \A n \in DOMAIN old : n \notin DOMAIN new => Spared(new, old, n)
  BY DEF NarrowerPolicies
<1>8. \A n \in DOMAIN old : InertRestrictive(old[n]) /\ Speaks(old, n, cmd, op, FALSE) => Said(old, n, op, q, row) \in Open
  BY InertIsOpen DEF Said, Speaks
<1>9. \A m, n \in DOMAIN old : old[m] = old[n] =>
          /\ Said(old, m, op, q, row) = Said(old, n, op, q, row)
          /\ Speaks(old, m, cmd, op, FALSE) <=> Speaks(old, n, cmd, op, FALSE)
  BY DEF Said, Speaks
<1> HIDE DEF s, t, u, v
<1>10. And(s) = "T" /\ Or(u) = "T"
  BY <1>5, AnswersOf, BothTrue
<1>11. \A n \in 1 .. LastName : s[n] = "T"
  BY <1>0, <1>1, <1>10, AndTrue DEF AreValues
<1>12. ASSUME NEW n \in 1 .. LastName PROVE t[n] \in Open
  <2>1. CASE ~Speaks(old, n, cmd, op, FALSE)
    BY <1>2, <2>1 DEF Open, AreValues
  <2>2. CASE Speaks(old, n, cmd, op, FALSE) /\ n \in DOMAIN new
    BY <1>1, <1>2, <1>6, <1>11, <2>2 DEF AreValues
  <2>3. CASE Speaks(old, n, cmd, op, FALSE) /\ n \notin DOMAIN new
    <3>1. n \in DOMAIN old /\ ~old[n].permissive
      BY <2>3 DEF Speaks
    <3>2. CASE InertRestrictive(old[n])
      BY <1>2, <1>8, <2>3, <3>1, <3>2 DEF AreValues
    <3>3. CASE ~InertRestrictive(old[n])
      <4>1. PICK m \in DOMAIN new : old[m] = old[n]
        BY <1>7, <2>3, <3>1, <3>3 DEF Spared
      <4>2. m \in DOMAIN old /\ m \in 1 .. LastName
        BY <1>0, <1>6
      <4>3. Speaks(old, m, cmd, op, FALSE) /\ Speaks(new, m, cmd, op, FALSE) /\ Said(old, m, op, q, row) = Said(old, n, op, q, row)
        BY <1>6, <1>9, <2>3, <3>1, <4>1, <4>2
      <4>4. Said(old, m, op, q, row) \in Open
        BY <1>1, <1>6, <1>11, <4>2, <4>3 DEF AreValues
      <4> QED
        BY <1>2, <2>3, <4>3, <4>4 DEF AreValues
    <3> QED
      BY <3>2, <3>3
  <2> QED
    BY <2>1, <2>2, <2>3
<1>13. PICK n \in 1 .. LastName : u[n] = "T"
  BY <1>0, <1>3, <1>10, OrTrue DEF AreValues
<1>14. Speaks(new, n, cmd, op, TRUE)
  BY <1>3, <1>13 DEF AreValues
<1>15. n \in DOMAIN new
  BY <1>14 DEF Speaks
<1>16. v[n] \in Open
  BY <1>3, <1>4, <1>6, <1>13, <1>14, <1>15 DEF AreValues
<1>17. And(t) \in Open /\ Or(v) \in Open
  BY <1>0, <1>2, <1>4, <1>12, <1>16, AndOpen, OrOpen DEF AreValues
<1> QED
  BY <1>5, <1>17, BothOpen

\* What a fixer drops: a permissive policy, one that says nothing, or one that
\* an earlier policy repeats.
LEMMA DropProposed ==
    ASSUME NEW t, NEW f \in Proposed(t), f.rule \in DropRules
    PROVE  /\ f.at \in DOMAIN t.pol
           /\ f.rule = "HYG003" => Duplicate(t, f.at)
           /\ f.rule = "SEC010" => InertPermissive(t.pol[f.at])
           /\ f.rule = "SEC031" => InertRestrictive(t.pol[f.at])
<1>0. \A rule, n, new : Fix(rule, n, new).rule = rule /\ Fix(rule, n, new).at = n
  BY DEF Fix
<1>1. \A rule, new : \A g \in Rewrites(t, rule, new) : g.rule = rule
  <2> SUFFICES ASSUME NEW rule, NEW new, NEW g \in Rewrites(t, rule, new)
               PROVE  g.rule = rule
    OBVIOUS
  <2>1. PICK n \in DOMAIN t.pol : g = Fix(rule, n, new[n])
    BY DEF Rewrites
  <2> QED
    BY <1>0, <2>1
<1>2. \A rule, flagged : \A g \in OnTable(rule, flagged) : g.rule = rule
  BY <1>0 DEF OnTable
<1>3. \A rule, flagged : \A g \in Drops(rule, flagged) : g.rule = rule /\ g.at \in flagged
  <2> SUFFICES ASSUME NEW rule, NEW flagged, NEW g \in Drops(rule, flagged)
               PROVE  g.rule = rule /\ g.at \in flagged
    OBVIOUS
  <2>1. PICK n \in flagged : g = Fix(rule, n, NoClauses)
    BY DEF Drops
  <2> QED
    BY <1>0, <2>1
<1> QED
  BY <1>1, <1>2, <1>3, RuleNames DEF Proposed

\* Of the policies that are equal, one stays, or all of them say nothing.
LEMMA DroppedSpared ==
    ASSUME NEW t, IsTable(t), NEW ruleFilter,
           NEW n \in DOMAIN t.pol, n \in Atomic!Dropped(GenerateFixes(t, ruleFilter)),
           NEW new, DOMAIN new = DOMAIN t.pol \ Atomic!Dropped(GenerateFixes(t, ruleFilter))
    PROVE  Spared(new, t.pol, n)
<1> DEFINE S == GenerateFixes(t, ruleFilter)
           Same == {m \in DOMAIN t.pol : t.pol[m] = t.pol[n]}
<1>1. \A f \in S : f \in Proposed(t)
  BY DEF GenerateFixes, OneWriter, Runnable
<1>2. ASSUME NEW m \in Atomic!Dropped(S)
      PROVE  \E f \in Proposed(t) : f.rule \in DropRules /\ f.at = m
  BY <1>1 DEF Atomic!Dropped
<1> HIDE DEF S
<1>3. Same \subseteq Nat /\ n \in Same
  BY DEF IsTable, Names
<1>4. PICK m \in Same : \A j \in Same : m <= j
  <2> HIDE DEF Same
  <2> QED
    BY <1>3, LeastNumber
<1>5. ~Duplicate(t, m)
  <2> SUFFICES ASSUME NEW j \in DOMAIN t.pol, j < m, t.pol[j] = t.pol[m] PROVE FALSE
    BY DEF Duplicate
  <2>1. j \in Same /\ m <= j /\ j \in Nat /\ m \in Nat
    BY <1>3, <1>4
  <2> QED
    BY <2>1
<1>6. m \in DOMAIN t.pol /\ t.pol[m] = t.pol[n]
  BY <1>4
<1>7. CASE m \notin Atomic!Dropped(S)
  BY <1>6, <1>7 DEF Spared, S
<1>8. CASE m \in Atomic!Dropped(S)
  <2>1. PICK f \in Proposed(t) : f.rule \in DropRules /\ f.at = m
    BY <1>2, <1>8
  <2>2. f.rule = "SEC010" \/ f.rule = "SEC031"
    BY <1>5, <2>1, DropProposed, RuleNames
  <2>3. InertPermissive(t.pol[m]) \/ InertRestrictive(t.pol[m])
    BY <2>1, <2>2, DropProposed
  <2> QED
    BY <1>6, <2>3 DEF Spared, InertPermissive
<1> QED
  BY <1>7, <1>8

\* The policies as a plan leaves them are narrower.
LEMMA PlanNarrowsPolicies ==
    ASSUME NEW t, IsTable(t), NEW ruleFilter
    PROVE  NarrowerPolicies(Atomic!Applied(GenerateFixes(t, ruleFilter), t).pol, t.pol)
<1> DEFINE S == GenerateFixes(t, ruleFilter)
           new == Atomic!Applied(S, t).pol
<1>1. Shaped(t) /\ \A n \in DOMAIN t.pol : t.pol[n] \in Policy
  BY TablesAreShaped DEF IsTable
<1>2. Harmonious(S)
  BY <1>1, PlanFits, PlanCompatible DEF Harmonious
<1>3. \A f \in S : Determined(f, t) /\ (f.at = ThisTable <=> f.rule \in TableRules)
  <2>1. \A f \in S : f \in Proposed(t)
    BY DEF GenerateFixes, OneWriter, Runnable
  <2> QED
    BY <1>1, <2>1, ProposedDetermined, ProposedFits DEF Wellformed
<1>4. DOMAIN new = DOMAIN t.pol \ Atomic!Dropped(S)
      /\ \A n \in DOMAIN new : new[n] = Atomic!Written(S, n, t.pol[n])
  BY DEF Atomic!Applied
<1> HIDE DEF new
<1>5. \A n \in DOMAIN t.pol : n \notin DOMAIN new => Spared(new, t.pol, n)
  BY <1>4, DroppedSpared
<1> HIDE DEF S
<1>6. ASSUME NEW n \in DOMAIN new PROVE NarrowerPolicy(new[n], t.pol[n])
  <2> DEFINE p == t.pol[n]
             w == Atomic!Written(S, n, p)
  <2>1. n \in DOMAIN t.pol /\ new[n] = w /\ p \in Policy /\ n \in Names
    BY <1>1, <1>4 DEF Shaped
  <2>2. DOMAIN p = {"cmd", "permissive", "using", "check"}
    BY <2>1 DEF Policy
  <2>3. n # ThisTable
    BY <2>1 DEF Names, ThisTable
  <2>4. ASSUME NEW f \in S, f.at = n
        PROVE  f.new = NewOf(f.rule, p)
    BY <1>3, <2>3, <2>4 DEF Determined, Fix
  <2> HIDE DEF w, p
  <2>5. ASSUME NEW k \in DOMAIN p
        PROVE  \/ w[k] = p[k]
               \/ \E rule : k \in DOMAIN NewOf(rule, p) /\ w[k] = NewOf(rule, p)[k]
    <3>1. CASE \E f \in S : f.at = n /\ k \in DOMAIN f.new
      BY <1>2, <2>4, <3>1, WrittenIs DEF w
    <3>2. CASE \A f \in S : ~(f.at = n /\ k \in DOMAIN f.new)
      BY <1>2, <3>2, WrittenIs DEF w
    <3> QED
      BY <3>1, <3>2
  <2>6. \A rule : \A k \in DOMAIN NewOf(rule, p) :
            k \in Clauses /\ Narrower(NewOf(rule, p)[k], p[k])
    BY <2>1, NewOfNarrows
  <2>7. w.cmd = p.cmd /\ w.permissive = p.permissive
    BY <2>2, <2>5, <2>6 DEF Clauses
  <2>8. \A c \in Clauses : Narrower(w[c], p[c])
    BY <2>2, <2>5, <2>6, SameClause DEF Clauses
  <2> QED
    BY <2>1, <2>7, <2>8 DEF NarrowerPolicy, p
<1> QED
  BY <1>4, <1>5, <1>6 DEF NarrowerPolicies, new, S

\* The plan as a whole narrows, whatever is suppressed of it and whichever rules
\* are selected: what it makes of a table admits no read, insert, update or
\* delete that the table hid ("a fixer must never widen access").
THEOREM PlanNarrows ==
    ASSUME NEW t, IsTable(t), NEW ruleFilter
    PROVE  Admitted(Atomic!Applied(GenerateFixes(t, ruleFilter), t))
               \subseteq Admitted(t) \cup Raising(t)
<1> DEFINE u == Atomic!Applied(GenerateFixes(t, ruleFilter), t)
<1>1. (t.rls => u.rls) /\ (t.force => u.force)
  BY DEF Atomic!Applied
<1>2. NarrowerPolicies(u.pol, t.pol)
  BY PlanNarrowsPolicies
<1>3. DOMAIN t.pol \subseteq Names /\ \A n \in DOMAIN t.pol : t.pol[n] \in Policy
  BY DEF IsTable
<1> HIDE DEF u
<1>4. ASSUME NEW o \in Operations, NEW q \in Requests, NEW row \in Rows,
             Outcome(u, o, q, row) = "T"
      PROVE  Outcome(t, o, q, row) \in Open
  <2>1. CASE ~t.rls \/ (q = "owner" /\ ~t.force)
    BY <2>1 DEF Outcome, Open
  <2>2. CASE ~(~t.rls \/ (q = "owner" /\ ~t.force))
    <3>1. Decision(u.pol, o[1], o[2], q, row) = "T"
      BY <1>1, <1>4, <2>2 DEF Outcome
    <3>2. Decision(t.pol, o[1], o[2], q, row) \in Open
      BY <1>2, <1>3, <3>1, PoliciesNarrow
    <3> QED
      BY <2>2, <3>2 DEF Outcome
  <2> QED
    BY <2>1, <2>2
<1> SUFFICES ASSUME NEW x \in Admitted(u) PROVE x \in Admitted(t) \cup Raising(t)
  BY DEF u
<1>5. x \in Accesses /\ Outcome(u, x[1], x[2], x[3]) = "T"
  BY DEF Admitted
<1>6. x[1] \in Operations /\ x[2] \in Requests /\ x[3] \in Rows
  BY <1>5 DEF Accesses
<1> QED
  BY <1>4, <1>5, <1>6 DEF Admitted, Raising, Open

\* Whatever a plan was made from: its clauses are clauses, and the writer's draft
\* is what its statements so far, all at once, make of the table.
ClausesOK(fixes) == \A f \in fixes : \A c \in DOMAIN f.new : f.new[c] \in Clause
DraftInv ==
    /\ IsTable(table)
    /\ \A r \in Runs : ClausesOK(plan[r])
    /\ \A r \in Runs : writer = r => draft = Atomic!Applied(plan[r] \ todo[r], table)

\* What a plan re-emits are clauses.
LEMMA PlanClauses ==
    ASSUME NEW t, IsTable(t), NEW ruleFilter
    PROVE  ClausesOK(GenerateFixes(t, ruleFilter))
<1> SUFFICES ASSUME NEW f \in GenerateFixes(t, ruleFilter), NEW c \in DOMAIN f.new
             PROVE  f.new[c] \in Clause
  BY DEF ClausesOK
<1>1. f \in Proposed(t) /\ Shaped(t) /\ \A n \in DOMAIN t.pol : t.pol[n] \in Policy
  BY TablesAreShaped DEF GenerateFixes, OneWriter, Runnable, IsTable
<1>2. Determined(f, t) /\ Wellformed(f)
  BY <1>1, ProposedDetermined, ProposedFits
<1>3. f.rule \notin TableRules
  BY <1>2 DEF Wellformed
<1>4. f.at \in DOMAIN t.pol /\ f.new = NewOf(f.rule, t.pol[f.at])
  BY <1>2, <1>3 DEF Determined, Fix
<1> QED
  BY <1>1, <1>4, NewOfNarrows

\* What statements make of a table is a table again.
LEMMA AppliedIsTable ==
    ASSUME NEW t, IsTable(t), NEW S, Harmonious(S), ClausesOK(S), Shaped(Atomic!Applied(S, t))
    PROVE  IsTable(Atomic!Applied(S, t))
<1> DEFINE u == Atomic!Applied(S, t)
<1>1. /\ u = [rls |-> u.rls, force |-> u.force, pol |-> u.pol]
      /\ u.rls \in BOOLEAN /\ u.force \in BOOLEAN
      /\ DOMAIN u.pol = DOMAIN t.pol \ Atomic!Dropped(S)
      /\ u.pol = [n \in DOMAIN u.pol |-> u.pol[n]]
      /\ \A n \in DOMAIN u.pol : u.pol[n] = Atomic!Written(S, n, t.pol[n])
  BY DEF Atomic!Applied
<1>2. DOMAIN t.pol \subseteq Names /\ \A n \in DOMAIN t.pol : t.pol[n] \in Policy
  BY DEF IsTable
<1>3. Shaped(u)
  OBVIOUS
<1> HIDE DEF u
<1>4. ASSUME NEW n \in DOMAIN u.pol PROVE u.pol[n] \in Policy
  <2> DEFINE p == t.pol[n]
             w == Atomic!Written(S, n, p)
  <2>1. p \in Policy /\ u.pol[n] = w /\ ShapedPolicy(w)
    BY <1>1, <1>2, <1>3, <1>4 DEF Shaped
  <2>2. DOMAIN p = {"cmd", "permissive", "using", "check"}
        /\ p.cmd \in Commands /\ p.permissive \in BOOLEAN /\ p.using \in Clause /\ p.check \in Clause
    BY <2>1 DEF Policy
  <2>3. w = [k \in DOMAIN p |-> w[k]]
    BY DEF Atomic!Written
  <2> HIDE DEF w, p
  <2>4. \A k \in DOMAIN p : w[k] = p[k] \/ (k \in Clauses /\ w[k] \in Clause)
    <3> SUFFICES ASSUME NEW k \in DOMAIN p
                 PROVE  w[k] = p[k] \/ (k \in Clauses /\ w[k] \in Clause)
      OBVIOUS
    <3>1. CASE \E f \in S : f.at = n /\ k \in DOMAIN f.new
      BY <3>1, WrittenIs DEF w, ClausesOK, Harmonious, Wellformed
    <3>2. CASE \A f \in S : ~(f.at = n /\ k \in DOMAIN f.new)
      BY <3>2, WrittenIs DEF w
    <3> QED
      BY <3>1, <3>2
  <2>5. w.cmd \in Commands /\ w.permissive \in BOOLEAN
    BY <2>2, <2>4 DEF Clauses
  <2>6. w.using \in Clause /\ w.check \in Clause
    BY <2>2, <2>4
  <2>7. w \in [cmd : Commands, permissive : BOOLEAN, using : Clause, check : Clause]
    BY <2>2, <2>3, <2>5, <2>6
  <2> QED
    BY <2>1, <2>7 DEF Policy, ShapedPolicy
<1>5. IsTable(u)
  BY <1>1, <1>2, <1>4 DEF IsTable
<1> QED
  BY <1>5 DEF u

\* A run's statements are all there is between the table and its draft.
LEMMA DraftStatement ==
    ASSUME PlanInv, DraftInv, NEW r \in Runs, Statement(r)
    PROVE  DraftInv'
<1> DEFINE f == Next1(r)
           S == plan[r] \ todo[r]
<1>1. /\ todo[r] # {} /\ todo[r] \subseteq plan[r] /\ GoodPlan(plan[r]) /\ r # NoRun
      /\ Executable(f, draft) /\ Shaped(draft) /\ writer \in {NoRun, r} /\ NoRun \notin Runs
  BY ApplyAssumption DEF Statement, HasTable, PlanInv, Plans, TablesOK
<1>2. /\ writer' = r /\ draft' = Execute(f, draft)
      /\ todo' = [todo EXCEPT ![r] = @ \ {f}]
      /\ UNCHANGED <<table, plan>>
  BY DEF Statement
<1>3. f \in todo[r] /\ f \in plan[r]
  BY <1>1, FirstExists DEF Next1, GoodPlan
<1>4. draft = Atomic!Applied(S, table)
  <2>1. CASE writer = r
    BY <2>1 DEF DraftInv
  <2>2. CASE writer = NoRun
    <3>1. S = {} /\ draft = table
      BY <1>1, <2>2 DEF PlanInv, Progress, TablesOK
    <3>2. Atomic!Applied({}, table) = table
      BY AppliedNothing, TablesAreProper DEF DraftInv
    <3> QED
      BY <3>1, <3>2
  <2> QED
    BY <1>1, <2>1, <2>2
<1> HIDE DEF f
<1>5. plan'[r] \ todo'[r] = S \cup {f}
  BY <1>1, <1>2, <1>3 DEF PlanInv, Functions
<1>6. Harmonious(S \cup {f})
  BY <1>1, <1>3 DEF Harmonious, GoodPlan
<1> HIDE DEF S
<1>7. draft' = Atomic!Applied(S \cup {f}, table)
  BY <1>1, <1>2, <1>4, <1>6, ExecuteApplies
<1>8. \A q \in Runs : writer' = q => draft' = Atomic!Applied(plan'[q] \ todo'[q], table')
  BY <1>2, <1>5, <1>7
<1> QED
  BY <1>2, <1>8 DEF DraftInv

\* What a run commits is the effect of its whole plan on the table it finds,
\* whether the plan was made from that table or not.
LEMMA CommitApplies ==
    ASSUME PlanInv, DraftInv, NEW r \in Runs, Commit(r)
    PROVE  /\ table' = Atomic!Applied(plan[r], table)
           /\ IsTable(table')
<1>1. GoodPlan(plan[r]) /\ ClausesOK(plan[r]) /\ Shaped(draft) /\ IsTable(table)
      /\ todo[r] = {} /\ table' = draft
  BY DEF PlanInv, Plans, DraftInv, TablesOK, Commit
<1>2. table' = Atomic!Applied(plan[r], table)
  <2>1. CASE writer = r
    <3>1. plan[r] \ todo[r] = plan[r]
      BY <1>1
    <3> QED
      BY <1>1, <2>1, <3>1 DEF DraftInv
  <2>2. CASE writer # r
    <3>1. plan[r] = {} /\ writer = NoRun
      BY <1>1, <2>2, OnlyWriter DEF PlanInv, Progress, Commit
    <3>2. draft = table /\ Atomic!Applied({}, table) = table
      BY <1>1, <3>1, AppliedNothing, TablesAreProper DEF PlanInv, TablesOK
    <3> QED
      BY <1>1, <3>1, <3>2
  <2> QED
    BY <2>1, <2>2
<1>3. Harmonious(plan[r])
  BY <1>1 DEF Harmonious, GoodPlan
<1>4. IsTable(Atomic!Applied(plan[r], table))
  BY <1>1, <1>2, <1>3, AppliedIsTable
<1> QED
  BY <1>2, <1>4

\* A migration leaves a table of the model.
LEMMA MigrationTable ==
    ASSUME IsTable(table), Migration
    PROVE  IsTable(table') /\ writer = NoRun /\ writer' = writer /\ plan' = plan
<1>1. /\ table = [rls |-> table.rls, force |-> table.force, pol |-> table.pol]
      /\ table.rls \in BOOLEAN /\ table.force \in BOOLEAN
      /\ DOMAIN table.pol \subseteq Names
      /\ \A n \in DOMAIN table.pol : table.pol[n] \in Policy
  <2>1. table.pol = [n \in DOMAIN table.pol |-> table.pol[n]]
    <3> DEFINE pol == [n \in DOMAIN table.pol |-> table.pol[n]]
    <3>1. table = [rls |-> table.rls, force |-> table.force, pol |-> pol]
      BY DEF IsTable
    <3> HIDE DEF pol
    <3>2. table.pol = pol
      BY <3>1
    <3> QED
      BY <3>2 DEF pol
  <2> QED
    BY <2>1 DEF IsTable
<1>2. ASSUME NEW q, q = [n \in DOMAIN q |-> q[n]], DOMAIN q \subseteq Names,
             \A n \in DOMAIN q : q[n] \in Policy, table' = [table EXCEPT !.pol = q]
      PROVE  IsTable(table')
  <2>1. table' = [rls |-> table.rls, force |-> table.force, pol |-> q]
    BY <1>1, <1>2
  <2> QED
    BY <1>1, <1>2, <2>1 DEF IsTable
<1>3. ASSUME NEW n \in Names, DropPolicy(n) PROVE IsTable(table')
  <2> DEFINE q == [m \in DOMAIN table.pol \ {n} |-> table.pol[m]]
  <2>1. table' = [table EXCEPT !.pol = q]
    BY <1>3 DEF DropPolicy, Edited
  <2>2. q = [m \in DOMAIN q |-> q[m]] /\ DOMAIN q \subseteq Names /\ \A m \in DOMAIN q : q[m] \in Policy
    BY <1>1
  <2> HIDE DEF q
  <2> QED
    BY <1>2, <2>1, <2>2
<1>4. ASSUME NEW n \in Names, NEW p \in Installed, InstallPolicy(n, p) PROVE IsTable(table')
  <2> DEFINE q == [m \in DOMAIN table.pol \cup {n} |-> IF m = n THEN p ELSE table.pol[m]]
  <2>1. table' = [table EXCEPT !.pol = q]
    BY <1>4 DEF InstallPolicy, Edited
  <2>2. q = [m \in DOMAIN q |-> q[m]] /\ DOMAIN q \subseteq Names /\ \A m \in DOMAIN q : q[m] \in Policy
    BY <1>1, <1>4, ApplyAssumption
  <2> HIDE DEF q
  <2> QED
    BY <1>2, <2>1, <2>2
<1> QED
  BY <1>3, <1>4 DEF Migration, DropPolicy, InstallPolicy, Edited

\* Every step keeps it.
LEMMA DraftNext ==
    ASSUME PlanInv, DraftInv, [Next]_vars
    PROVE  DraftInv'
<1>0. Functions /\ NoRun \notin Runs /\ (writer # NoRun => pc[writer] = "applying")
  BY ApplyAssumption DEF PlanInv, Locks
<1>1. ASSUME NEW r \in Runs, NEW ruleFilter, Introspect(r, ruleFilter) PROVE DraftInv'
  <2>1. /\ plan' = [plan EXCEPT ![r] = GenerateFixes(table, ruleFilter)]
        /\ todo' = [todo EXCEPT ![r] = GenerateFixes(table, ruleFilter)]
        /\ UNCHANGED <<table, writer, draft>> /\ pc[r] = "idle"
    BY <1>1 DEF Introspect
  <2>2. writer # r
    BY <1>0, <2>1
  <2>3. ClausesOK(GenerateFixes(table, ruleFilter))
    BY PlanClauses DEF DraftInv
  <2>4. \A q \in Runs : ClausesOK(plan'[q])
    BY <1>0, <2>1, <2>3 DEF DraftInv, Functions
  <2>5. \A q \in Runs : writer' = q => draft' = Atomic!Applied(plan'[q] \ todo'[q], table')
    BY <1>0, <2>1, <2>2 DEF DraftInv, Functions
  <2> QED
    BY <2>1, <2>4, <2>5 DEF DraftInv
<1>2. ASSUME NEW r \in Runs, Lock(r) PROVE DraftInv'
  BY <1>2 DEF Lock, DraftInv
<1>3. ASSUME NEW r \in Runs, Ends(r), IsTable(table'),
             writer # r /\ writer # NoRun => table' = table /\ draft' = draft
      PROVE  DraftInv'
  <2>1. \A q \in Runs : ClausesOK(plan'[q])
    BY <1>0, <1>3 DEF Ends, DraftInv, Functions, ClausesOK
  <2>2. \A q \in Runs : writer' = q => q # r /\ writer = q
    BY <1>0, <1>3 DEF Ends
  <2>3. \A q \in Runs : q # r => plan'[q] = plan[q] /\ todo'[q] = todo[q]
    BY <1>0, <1>3 DEF Ends, Functions
  <2>4. \A q \in Runs : writer' = q => draft' = Atomic!Applied(plan'[q] \ todo'[q], table')
    BY <1>0, <1>3, <2>2, <2>3 DEF DraftInv
  <2> QED
    BY <1>3, <2>1, <2>4 DEF DraftInv
<1>4. ASSUME NEW r \in Runs, RolledBack(r) PROVE DraftInv'
  BY <1>3, <1>4 DEF RolledBack, DraftInv
<1>5. ASSUME NEW r \in Runs, Commit(r) PROVE DraftInv'
  <2>1. writer \in {NoRun, r}
    BY <1>5, OnlyWriter DEF Commit
  <2> QED
    BY <1>3, <1>5, <2>1, CommitApplies DEF Commit
<1>6. CASE Migration
  <2>1. IsTable(table') /\ writer' = NoRun /\ plan' = plan
    BY <1>6, MigrationTable DEF DraftInv
  <2> QED
    BY <1>0, <2>1 DEF DraftInv
<1>7. CASE UNCHANGED vars
  BY <1>7 DEF vars, DraftInv
<1>8. ASSUME NEW r \in Runs, Run(r) PROVE DraftInv'
  BY <1>1, <1>2, <1>4, <1>5, <1>8, DraftStatement DEF Run, Rejected, Abort
<1> QED
  BY <1>6, <1>7, <1>8 DEF Next

\* The invariant holds of every execution.
LEMMA DraftInvariant == Spec => []DraftInv
<1>1. Init => DraftInv
  <2> SUFFICES ASSUME Init PROVE DraftInv
    OBVIOUS
  <2> QED
    BY ApplyAssumption DEF Init, DraftInv, ClausesOK
<1>2. PlanInv /\ DraftInv /\ [Next]_vars => DraftInv'
  BY DraftNext
<1> QED
  BY PlanInvariant, <1>1, <1>2, PTL DEF Spec

\* A commit is one whole plan, for any number of runs: "all-or-nothing", also
\* of a plan that has gone stale.
CommitsWhole ==
    [][\A r \in Runs : Commit(r) => table' = Atomic!Applied(plan[r], table)]_vars

\* What a run commits is its whole plan, applied to the table it finds.
THEOREM CommitsAreWhole == Spec => CommitsWhole
<1>1. PlanInv /\ DraftInv =>
          [\A r \in Runs : Commit(r) => table' = Atomic!Applied(plan[r], table)]_vars
  BY CommitApplies
<1> QED
  BY PlanInvariant, DraftInvariant, <1>1, PTL DEF CommitsWhole

\* A plan that still is what the fixers make of the table it is applied to
\* narrows, for any number of runs, migrations and failures.
THEOREM FreshPlansAreNarrow == Spec => FreshPlansNarrow
<1>1. ASSUME PlanInv, DraftInv, NEW r \in Runs, Commit(r),
             NEW ruleFilter \in Filters, plan[r] = GenerateFixes(table, ruleFilter)
      PROVE  Admitted(table') \subseteq Admitted(table) \cup Raising(table)
  <2>1. table' = Atomic!Applied(GenerateFixes(table, ruleFilter), table) /\ IsTable(table)
    BY <1>1, CommitApplies DEF DraftInv
  <2> QED
    BY <2>1, PlanNarrows
<1>2. PlanInv /\ DraftInv =>
          [\A r \in Runs :
             Commit(r) /\ (\E ruleFilter \in Filters : plan[r] = GenerateFixes(table, ruleFilter))
             => Admitted(table') \subseteq Admitted(table) \cup Raising(table)]_vars
  BY <1>1
<1> QED
  BY PlanInvariant, DraftInvariant, <1>2, PTL DEF FreshPlansNarrow

\* A single run that no migration disturbs commits nothing else: it admits
\* nothing that was hidden.
THEOREM LoneRunNarrows ==
    ASSUME NEW s, Runs = {s}, MaxEdits = 0
    PROVE  Spec => NothingHiddenIsAdmitted
<1>1. Init => LoneInv
  <2> SUFFICES ASSUME Init PROVE LoneInv
    OBVIOUS
  <2>1. Proper(table) /\ Whole
    BY ApplyAssumption, TablesAreProper DEF Init, Whole
  <2> QED
    BY <2>1 DEF Init, LoneInv
<1>2. PlanInv /\ LoneInv /\ [Next]_vars => LoneInv'
  BY LoneStep
<1>3. ASSUME PlanInv, LoneInv, DraftInv, [Next]_vars, ByRun
      PROVE  Admitted(table') \subseteq Admitted(table) \cup Raising(table)
  <2>1. [Atomic!Next]_table /\ table' # table
    BY <1>3, LoneStep DEF ByRun
  <2>2. Commit(s)
    <3>1. ~Migration
      <4>1. ~(edits < MaxEdits)
        BY <1>3 DEF LoneInv
      <4> QED
        BY <4>1 DEF Migration, DropPolicy, InstallPolicy, Edited
    <3> QED
      BY <1>3, <2>1, <3>1 DEF Next, vars, Run, Introspect, Lock, Statement, Rejected, Abort, RolledBack
  <2>3. PICK ruleFilter \in Filters : plan[s] = GenerateFixes(table, ruleFilter)
    BY <1>3, <2>2 DEF LoneInv, Whole, Commit
  <2>4. table' = Atomic!Applied(GenerateFixes(table, ruleFilter), table) /\ IsTable(table)
    BY <1>3, <2>2, <2>3, CommitApplies DEF DraftInv
  <2> QED
    BY <2>4, PlanNarrows
<1>4. PlanInv /\ LoneInv /\ DraftInv /\ [Next]_vars =>
          [ByRun => Admitted(table') \subseteq Admitted(table) \cup Raising(table)]_vars
  BY <1>3
<1> QED
  BY PlanInvariant, DraftInvariant, <1>1, <1>2, <1>4, PTL DEF Spec, NothingHiddenIsAdmitted
===============================================================================
