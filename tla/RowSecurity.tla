----------------------------- MODULE RowSecurity -----------------------------
(***************************************************************************)
(* Row-level security of one table, as PostgreSQL applies it.  PostgreSQL  *)
(* is not under src/: this is what the fixers rely on (the comments of     *)
(* src/pgrls/fixers).  A clause is a conjunction of disjunctions of tests, *)
(* evaluated left to right; a policy's name is its place in name order.    *)
(***************************************************************************)
EXTENDS Naturals, Sequences

CONSTANTS Rows,      \* records [mine, public : BOOLEAN]
          LastName   \* the last policy name of the table

ASSUME RowsAssumption == /\ Rows \subseteq [mine : BOOLEAN, public : BOOLEAN]
                         /\ LastName \in Nat

Names == 1 .. LastName

\* own: owner = current_setting('app.user'[, true]); noauth: auth.uid() IS NULL.
\* wrapped: the call stands in a (SELECT ...); missingOk: its second argument.
Test == [test : {"true", "false", "own", "public", "noauth"},
         wrapped : BOOLEAN, missingOk : BOOLEAN]
Absent == <<>>                      \* no such clause
Clause == {c \in Seq(Seq(Test)) : \A i \in DOMAIN c : c[i] # <<>>}
Clauses == {"using", "check"}
Commands == {"ALL", "SELECT", "INSERT", "UPDATE", "DELETE"}
\* The clauses a command's policies have.
Takes(cmd, c) == IF c = "using" THEN cmd # "INSERT" ELSE cmd \notin {"SELECT", "DELETE"}
Policy == {p \in [cmd : Commands, permissive : BOOLEAN, using : Clause, check : Clause] :
              \A c \in Clauses : Takes(p.cmd, c) \/ p[c] = Absent}

\* The owner is not subject to policies unless they are forced; neither it nor
\* anonymous requests have the setting.
Requests == {"user", "anonymous", "owner"}

\* T, F, N (null) or E (raises).
Eval(a, q, row) ==
    CASE a.test = "true" -> "T"
      [] a.test = "false" -> "F"
      [] a.test = "public" -> IF row.public THEN "T" ELSE "F"
      [] a.test = "noauth" -> IF q = "user" THEN "F" ELSE "T"
      [] a.test = "own" -> IF q = "user" THEN (IF row.mine THEN "T" ELSE "F")
                           ELSE IF a.missingOk THEN "N" ELSE "E"

\* OR stops at the first T, AND at the first F; an error before that is raised.
Before(s, i, v) == \E j \in 1 .. i - 1 : s[j] = v
Or(s) == LET n == Len(s) IN
    IF \E i \in 1 .. n : s[i] = "T" /\ ~Before(s, i, "E") THEN "T"
    ELSE IF Before(s, n + 1, "E") THEN "E"
    ELSE IF Before(s, n + 1, "N") THEN "N" ELSE "F"
And(s) == LET n == Len(s) IN
    IF \E i \in 1 .. n : s[i] = "F" /\ ~Before(s, i, "E") THEN "F"
    ELSE IF Before(s, n + 1, "E") THEN "E"
    ELSE IF Before(s, n + 1, "N") THEN "N" ELSE "T"

\* The planner reduces a disjunction with a literal true.
EvalOr(d, q, row) ==
    IF \E i \in DOMAIN d : d[i].test = "true" THEN "T"
    ELSE Or([i \in DOMAIN d |-> Eval(d[i], q, row)])
EvalClause(c, q, row) == And([i \in DOMAIN c |-> EvalOr(c[i], q, row)])

\* The clauses that gate an operation, by policy name.
Gate(p, op) ==
    IF op = "new" THEN IF p.check # Absent THEN p.check ELSE p.using ELSE p.using
Governs(p, cmd, op) == p.cmd \in {"ALL", cmd} /\ Gate(p, op) # Absent
\* What the policies of one kind say, by name; who says nothing is neutral.
Values(pol, cmd, op, q, row, permissive, neutral) ==
    [n \in Names |->
        IF n \in DOMAIN pol /\ pol[n].permissive = permissive /\ Governs(pol[n], cmd, op)
        THEN EvalClause(Gate(pol[n], op), q, row) ELSE neutral]
Decision(pol, cmd, op, q, row) ==
    And(<<And(Values(pol, cmd, op, q, row, FALSE, "T")),
          Or(Values(pol, cmd, op, q, row, TRUE, "F"))>>)

\* What may happen to one row: it is read, inserted, deleted, offered to an
\* UPDATE, or accepted as what an UPDATE makes of a row.
Operations == {<<"SELECT", "old">>, <<"INSERT", "new">>, <<"DELETE", "old">>,
               <<"UPDATE", "old">>, <<"UPDATE", "new">>}
IsTable(t) == /\ t = [rls |-> t.rls, force |-> t.force,
                      pol |-> [n \in DOMAIN t.pol |-> t.pol[n]]]
              /\ t.rls \in BOOLEAN /\ t.force \in BOOLEAN
              /\ DOMAIN t.pol \subseteq Names
              /\ \A n \in DOMAIN t.pol : t.pol[n] \in Policy
Outcome(t, o, q, row) ==
    IF ~t.rls \/ (q = "owner" /\ ~t.force) THEN "T"
    ELSE Decision(t.pol, o[1], o[2], q, row)
Accesses == Operations \X Requests \X Rows
Admitted(t) == {x \in Accesses : Outcome(t, x[1], x[2], x[3]) = "T"}
Raising(t) == {x \in Accesses : Outcome(t, x[1], x[2], x[3]) = "E"}
==============================================================================
