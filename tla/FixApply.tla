------------------------------- MODULE FixApply -------------------------------
(***************************************************************************)
(* `pgrls fix --apply` (src/pgrls/cli.py): introspect, plan, take the      *)
(* advisory lock, execute the plan in one transaction.  Several runs, and  *)
(* migrations that know nothing of the advisory lock, work on one table;   *)
(* DDL holds the table's lock to the end of its transaction.  Any run may  *)
(* fail, be killed or lose its connection between any two statements.      *)
(***************************************************************************)
EXTENDS FixPlan

CONSTANTS Runs,        \* invocations of fix --apply, one at a time each
          NoRun,
          Filters,     \* what --rule may select: sets of rules
          Tables,      \* the tables to start from
          Installed,   \* policies a migration may install
          MaxEdits,    \* bound: migrations
          MaxAborts    \* bound: failures

ASSUME ApplyAssumption ==
    /\ NoRun \notin Runs /\ Filters \subseteq SUBSET Rules
    /\ (\A t \in Tables : IsTable(t)) /\ Installed \subseteq Policy
    /\ MaxEdits \in Nat /\ MaxAborts \in Nat

VARIABLES table,      \* the committed table
          pc, plan, todo,   \* of each run: its statements, and those left
          advisory,   \* the run that holds the advisory lock
          writer,     \* the run that holds the table's lock
          draft,      \* the table as the writer's transaction has it
          edits, aborts
vars == <<table, pc, plan, todo, advisory, writer, draft, edits, aborts>>

Init == /\ table \in Tables /\ draft = table
        /\ pc = [r \in Runs |-> "idle"]
        /\ plan = [r \in Runs |-> {}] /\ todo = [r \in Runs |-> {}]
        /\ advisory = NoRun /\ writer = NoRun /\ edits = 0 /\ aborts = 0

\* The schema is read, and the plan made, before any lock is taken.
Introspect(r, ruleFilter) ==
    /\ pc[r] = "idle"
    /\ LET fixes == GenerateFixes(table, ruleFilter)
       IN  /\ plan' = [plan EXCEPT ![r] = fixes] /\ todo' = [todo EXCEPT ![r] = fixes]
           /\ pc' = [pc EXCEPT ![r] = IF fixes = {} THEN "idle" ELSE "planned"]
    /\ UNCHANGED <<table, advisory, writer, draft, edits, aborts>>

Lock(r) ==
    /\ pc[r] = "planned" /\ advisory = NoRun /\ advisory' = r
    /\ pc' = [pc EXCEPT ![r] = "applying"]
    /\ UNCHANGED <<table, plan, todo, writer, draft, edits, aborts>>

Next1(r) == First(todo[r])
HasTable(r) == writer \in {NoRun, r}

Statement(r) ==
    /\ pc[r] = "applying" /\ todo[r] # {} /\ HasTable(r) /\ Executable(Next1(r), draft)
    /\ writer' = r /\ draft' = Execute(Next1(r), draft)
    /\ todo' = [todo EXCEPT ![r] = @ \ {Next1(r)}]
    /\ UNCHANGED <<table, pc, plan, advisory, edits, aborts>>

\* Mutant: the advisory lock is the session's, not the transaction's.
EndsKeepingLock(r) ==
    /\ pc' = [pc EXCEPT ![r] = "idle"]
    /\ plan' = [plan EXCEPT ![r] = {}] /\ todo' = [todo EXCEPT ![r] = {}]
    /\ writer' = IF writer = r THEN NoRun ELSE writer
    /\ UNCHANGED advisory
\* The transaction is over: its locks are released.
Ends(r) ==
    /\ pc' = [pc EXCEPT ![r] = "idle"]
    /\ plan' = [plan EXCEPT ![r] = {}] /\ todo' = [todo EXCEPT ![r] = {}]
    /\ advisory' = IF advisory = r THEN NoRun ELSE advisory
    /\ writer' = IF writer = r THEN NoRun ELSE writer
\* Mutant: what was executed before the failure is committed.
KeptOnFailure(r) ==
    /\ Ends(r)
    /\ table' = IF writer = r THEN draft ELSE table
    /\ UNCHANGED <<draft, edits>>
RolledBack(r) ==
    /\ Ends(r)
    /\ draft' = IF writer = r THEN table ELSE draft
    /\ UNCHANGED <<table, edits>>

Rejected(r) ==
    /\ pc[r] = "applying" /\ todo[r] # {} /\ HasTable(r) /\ ~Executable(Next1(r), draft)
    /\ RolledBack(r) /\ UNCHANGED aborts

Abort(r) == /\ pc[r] # "idle" /\ aborts < MaxAborts /\ aborts' = aborts + 1
            /\ RolledBack(r)

Commit(r) ==
    /\ pc[r] = "applying" /\ todo[r] = {}
    /\ table' = draft /\ Ends(r) /\ UNCHANGED <<draft, edits, aborts>>

\* Another session's DDL, committed at once.
Edited(t) ==
    /\ writer = NoRun /\ edits < MaxEdits /\ edits' = edits + 1
    /\ table' = t /\ draft' = t
    /\ UNCHANGED <<pc, plan, todo, advisory, writer, aborts>>
DropPolicy(n) ==
    n \in DOMAIN table.pol
    /\ Edited([table EXCEPT !.pol = [m \in DOMAIN @ \ {n} |-> @[m]]])
InstallPolicy(n, p) ==
    Edited([table EXCEPT !.pol = [m \in DOMAIN @ \cup {n} |-> IF m = n THEN p ELSE @[m]]])
-------------------------------------------------------------------------------
Run(r) == \/ \E ruleFilter \in Filters : Introspect(r, ruleFilter)
          \/ Lock(r) \/ Statement(r) \/ Rejected(r) \/ Abort(r) \/ Commit(r)
Migration == \E n \in Names : DropPolicy(n) \/ \E p \in Installed : InstallPolicy(n, p)
Next == (\E r \in Runs : Run(r)) \/ Migration
Spec == Init /\ [][Next]_vars

\* PostgreSQL answers statements, and grants the advisory lock in the order it
\* was asked for: a run that waits gets it although others take it meanwhile.
Served(r) == /\ SF_vars(Lock(r))
             /\ WF_vars(Statement(r) \/ Rejected(r)) /\ WF_vars(Commit(r))
ServedSpec == Spec /\ \A r \in Runs : Served(r)
\* ... and fix --apply, with every rule, is run again as long as it has fixes.
RepeatedSpec == ServedSpec /\ \A r \in Runs : WF_vars(Introspect(r, Rules))
-------------------------------------------------------------------------------
(* Properties.                                                              *)

ByRun == table' # table /\ edits' = edits

\* "A fixer must never widen access" (the docstrings of the fixers): what a run
\* commits admits no read, insert, update or delete that row-level security hid
\* before.  The fixers are argued one by one to narrow; it is the plan as a whole
\* that must, whatever it keeps of each.
NothingHiddenIsAdmitted ==
    [][ByRun => Admitted(table') \subseteq Admitted(table) \cup Raising(table)]_vars

\* The same among other runs and migrations, of a plan that still is what the
\* fixers make of the table it is applied to.  A stale plan may widen: the lock
\* is taken after planning, and the plan is not made again (_apply_statements).
FreshPlansNarrow ==
    [][\A r \in Runs :
           Commit(r) /\ (\E ruleFilter \in Filters : plan[r] = GenerateFixes(table, ruleFilter))
           => Admitted(table') \subseteq Admitted(table) \cup Raising(table)]_vars

\* A plan made from the table it is applied to never fails by itself: no
\* statement meets a policy an earlier one has dropped.
PlanRuns ==
    \A r \in Runs : pc[r] = "applying" /\ todo[r] # {} => Executable(Next1(r), draft)

\* What is committed is the effect of every statement of the plan: none was
\* undone by a later one, whoever ran between planning and locking.
EveryFixSurvives ==
    [][\A r \in Runs : Commit(r) => \A f \in plan[r] : Achieved(f, table')]_vars

\* A run is one step from the table it finds to the table its whole plan makes
\* of it, or nothing: "all-or-nothing", and two runs "serialize rather than
\* racing on a stale snapshot".
Atomic == INSTANCE FixAtomic
RunsAreAtomic == Atomic!Spec

\* fix, repeated, ends with no fixer left to propose anything (the "converges
\* over repeated runs contract" of generate_fixes), although each run defers what
\* it cannot keep.
Converges == <>[](Proposed(table) = {})

\* Runs wait for each other, for migrations and for nothing else.
EveryRunEnds == \A r \in Runs : pc[r] # "idle" ~> pc[r] = "idle"
===============================================================================
