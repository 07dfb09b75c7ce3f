------------------------------ MODULE FixAtomic ------------------------------
(***************************************************************************)
(* What fix --apply promises: a run takes the table from what it is to     *)
(* what the kept fixes, all at once, make of it, in one step; migrations   *)
(* come before or after it.  The order of the statements, the reading of   *)
(* the schema and the locks are not seen.                                  *)
(***************************************************************************)
CONSTANTS Names,                 \* of policies
          DropRules,             \* the rules whose fix drops a policy
          GenerateFixes(_, _),   \* the kept fixes for a table and a rule filter
          Filters, Tables, Installed
VARIABLE table

\* A clause has at most one writer among the kept fixes.
Writers(fixes, n, c) == {f \in fixes : f.at = n /\ c \in DOMAIN f.new}
Written(fixes, n, p) ==
    [k \in DOMAIN p |-> IF Writers(fixes, n, k) = {} THEN p[k]
                        ELSE (CHOOSE f \in Writers(fixes, n, k) : TRUE).new[k]]
Dropped(fixes) == {f.at : f \in {g \in fixes : g.rule \in DropRules}}
Applied(fixes, t) ==
    [rls   |-> t.rls \/ \E f \in fixes : f.rule \in {"SEC001", "SEC032"},
     force |-> t.force \/ \E f \in fixes : f.rule = "SEC002",
     pol   |-> [n \in DOMAIN t.pol \ Dropped(fixes) |-> Written(fixes, n, t.pol[n])]]

Init == table \in Tables
FixRun == \E ruleFilter \in Filters :
              table' = Applied(GenerateFixes(table, ruleFilter), table)
Migration ==
    \E n \in Names :
        \/ n \in DOMAIN table.pol
           /\ table' = [table EXCEPT !.pol = [m \in DOMAIN @ \ {n} |-> @[m]]]
        \/ \E p \in Installed :
             table' = [table EXCEPT !.pol =
                          [m \in DOMAIN @ \cup {n} |-> IF m = n THEN p ELSE @[m]]]
Next == FixRun \/ Migration
Spec == Init /\ [][Next]_table
==============================================================================
