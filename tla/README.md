# pgrls in TLA+

pgrls is a static analyser and test kit for PostgreSQL row-level security. It
reads a schema (from a live catalog, from DDL files or from a snapshot), reports
findings, writes and applies fixes, grades the difference between two schemas,
proves predicates with Z3, and comes with a client for tests of policies in
Python, TypeScript and Go. This directory holds TLA+ models of it, the TLC
configurations that check them and TLAPS proofs of their main properties.

## Inventory

Paths are relative to the repository; `pgrls/` stands for `src/pgrls/`.

| component | state | operations | interacts with | what is hard | what makes it correct | modules |
|---|---|---|---|---|---|---|
| test client: `pgrls/testing/{client,assertions}.py`, `go/pgrlstest`, `ts/src` | the session's transaction, role, claims GUC and savepoints; the tracked role; the cached login role | `transaction`, `as_role`, `exec`, `seed`, five assertion helpers | a database through a driver | nesting, errors between any two statements of `as_role`, caught errors, cancelled contexts, lost connections | a statement runs as the innermost block's actor; nothing of a test is committed or left for the next one; coverage names the role the server used | `PgSession`, `TestClient`, `ScenarioBlock` |
| drivers: `ts/src/drivers`, `go/pgrlstest/drivers` | the one connection they pin | query, rollback, close | the client, a pool | concurrent callers, a failed or late reservation, close during a query | every statement of a transaction goes to one connection, released once | `PinnedDriver` |
| fixers and `fix --apply`: `pgrls/fixers`, `pgrls/cli.py` | the schema read at the start, the plan, the open transaction | plan, lock, execute, commit, roll back | introspection, the database, other runs and migrations | a stale plan, statements that clobber each other, partial failure, repeated runs | a run never widens access, never half applies, and repeated runs end | `RowSecurity`, `FixPlan`, `FixApply`, `FixAtomic` |
| diff: `pgrls/diff` | none (two schemas in, changes out) | pair tables, policies, grants, columns; compare predicates; grade | the CLI's exit code | renames, unions of roles, restrictive policies, three-valued logic | a change that lets a role do more fails the gate | `PredicateCompare`, `PolicyDiff` |
| apply cache and ephemeral databases: `pgrls/diff/_apply_cache.py`, `pgrls/ephemeral.py` | docker images by key, a running container | look up, boot, restore, commit, apply, stop | docker | failures at every step, stale images, concurrent runs | a hit boots what a miss would have built; no container is left | `ApplyCache` |
| verify: `pgrls/verify.py` | none; the baseline verification of `--against` | verify tables, views and functions, compare with the base, gate | the provers of `pgrls/diff/_z3_compare.py` | two threat models, NULL and errors, exemptions, view chains, ratchets | what is proved isolated is | `Clauses`, `IsolationProofs`, `Verify` |
| access matrix: `pgrls/access.py` | the rounds of a fixpoint | resolve the privileges of a principal, follow every door, give each cell a verdict | the schema | triggers, rules, views, foreign keys and functions that lead to each other under other users | a session reads and writes no row outside its cells; the rounds end | `Access` |
| rules: `pgrls/rules` | none | one check each | schema, AST helpers | rules that share a table's findings | an open door is a finding | `PolicyRules`, `ObjectRules` |
| lint pipeline: `pgrls/{cli,config,baseline,violations}.py` | the baseline file | select rules, run, partition, decide the exit code | rules, formatters | baselines over many runs, option interplay | a new finding fails the run | `Lint` |
| generator: `pgrls/generate.py` | as fix | scaffold policies | as fix, the rules | options against rules and server | what it writes lints clean and isolates tenants | `Lint` |
| schema model and snapshots: `pgrls/model.py` | a file with a version | write, read back | rules | a field an older version did not write | no rule is silently inert | `Snapshots` |
| offline replay: `pgrls/schema_sources.py` | the schema built so far | apply one DDL statement | the rules | order, renames, names of constraints, inheritance | what it reports is there; what it cannot know makes it report more, not less | `Ddl`, `DdlReplay` |
| introspection: `pgrls/introspect.py` | none | a sequence of catalog queries | PostgreSQL | DDL between two queries | a schema that existed | - |
| probe, perf: `pgrls/{probe,perf}.py` | an open transaction | seed, probe, roll back | PostgreSQL | errors between savepoints | never commits | - |
| coverage, history, report | an artefact file | load, append, write | the pytest plugin | partial or old files | no run is lost or counted twice | - |
| matrix report and proofs, vectors, repro | none | render, prove cells | access, Z3 | - | agrees with PostgreSQL | - |
| language server: `pgrls/lsp` | open documents, cached configuration | open, change, save, close | an editor | versions, stale configuration | diagnostics are those of the latest version | - |
| MCP server, formatters, migration layouts | none | - | - | - | - | - |

`PROJECT.json` lists the same components with what is modelled of each, and,
under `hazards`, every place where the code is hard to test, with the property
that covers it.

## Modules and plan

Each arrow is EXTENDS, an "implements" an INSTANCE.

* `PgSession` -> `TestClient` -> `TestClientInv` -> `MCTestClient`, `TestClientProofs`;
  `TestClient` implements `ScenarioBlock`.
* `PinnedDriver` -> `PinnedDriverProofs`.
* `RowSecurity` -> `FixPlan` -> `FixApply` -> `MCFixApply`, `FixApplyProofs`; `FixApply`
  implements `FixAtomic`.
* `PredicateCompare` -> `PolicyDiff` -> `MCPolicyDiff`, `PolicyDiffProofs`.
* `ApplyCache` -> `MCApplyCache`, `ApplyCacheProofs`.
* `Access` -> `MCAccess`, `AccessProofs`.
* `Clauses` -> `IsolationProofs` -> `Verify` -> `MCVerify`, `VerifyProofs`.
* `Clauses` -> `Catalog`, and `IsolationProofs`, `Catalog` -> `PolicyRules` ->
  `ObjectRules`: the rules find in a clause what the provers encode, on a schema that
  `Catalog` gives its shape.
* `ObjectRules` -> `Snapshots` -> `Lint` -> `MCLint`, `LintProofs`: lint runs the rules on
  a database or on a snapshot of it. `ObjectRules` -> `Ddl` -> `DdlReplay` (with
  `Snapshots`) -> `MCDdlReplay`: the text of a migration is another way to the schema
  lint runs on.

There are three models of row security, one per question: `RowSecurity` has errors
and the order of evaluation, which the fixers are about; `PredicateCompare` has
nested clauses over few literals, which a comparison is about; `Clauses` has
identities and their NULL, unset and raising spellings, which the provers and
the rules are about.

Left, in order: proofs about `DdlReplay` (one statement at a time); `matrix_proof.py` on
top of `Access` and `IsolationProofs`; the probe's transaction on top of `PgSession`.

## The test client

### Modules

* `PgSession` - PostgreSQL as the client uses it: transaction state, role, claims
  GUC, savepoints, uncommitted rows. External: modelled from the statements the
  client sends. `SET LOCAL` and `set_config(..., true)` are undone by `ROLLBACK TO`
  and kept by `RELEASE`; an error aborts the transaction until a `ROLLBACK TO` or a
  `ROLLBACK`; a GUC that was set in a transaction reads `''` afterwards.
* `TestClient` - the client of the three languages. `Lang` selects the differences:
  Python lets psycopg open the transaction and commits on a clean exit of
  `connect()`, tracks the role for coverage, and keeps `''` apart from NULL; the
  ports send BEGIN, and Go sends every statement with a context.
* `ScenarioBlock` - what as_role promises: a stack of actors, and a statement runs
  as the actor on top.
* `TestClientInv` - the inductive invariant.
* `MCTestClient` - values for TLC.
* `TestClientProofs` - the theorems.

### State and actions

| model | code |
|---|---|
| `frames`, one record per active `as_role` call, `pc` the statement it is about to send | the call stack; `sp`, `prevUser`, `prevClaims`, `outerRole` are its locals |
| `raised` | an exception, or a non-nil error in Go, on its way out |
| `currentRole`, `loginRole` | `_current_role`, `_login_role` of the Python client |
| `cancelled` | the outermost block whose Go context is done |
| `CaptureActor`, `OpenSavepoint`, `SwitchRole`, `InstallClaims` | the four statements before the body |
| `ReleaseSavepoint`, `RestoreRole`, `RestoreClaims` | the clean exit |
| `RollbackToSavepoint` | the failed exit, and the unwinding of a failed entry |
| `Exec`, `Seed`, `AssertRowCount`, `AssertSilentlyDropped`, `AssertRejected` | the helpers, each with every outcome |
| `StatementFails`, `RaiseInBody`, `CatchInBody`, `ExecSetsClaims` | what a test body may do |
| `BeginTransaction`, `EndTransaction`, `CloseConnection` | `transaction()`, `connect()` |
| `Disconnect`, `CancelContext` | the server going away, a context cancelled |

A helper is one action because nothing else uses the session between its
statements; `as_role` is one action per statement because a failure between any
two of them leaves a different state.

### Runs

| run | question | result |
|---|---|---|
| `client_python` | whatever a body does in one `transaction()`, do statements run as the innermost block's role, does a block leave the non-NULL claims it found, is coverage right, and is nothing committed? | holds |
| `client_typescript` | is the invariant of the proofs an invariant over two transactions on one connection, does the second find nothing of the first, and does `as_role` implement `ScenarioBlock`? | holds |
| `client_go_cancel` | with contexts cancelled anywhere, is an aborted transaction only ever resumed as the actor at the savepoint? | holds |

The bodies of `client_python` may set the claims GUC themselves. A block leaves the
non-NULL claims it found; that it leaves NULL where it found NULL is not claimed:
a body that sets claims inside a block without any keeps them afterwards.

Bounds: blocks nest two deep (`MaxDepth = 2`), which is what it takes for an outer
block to be damaged by an inner one and for a failed entry inside a block; two
roles and one or two claim values; `MaxSaves` is the two blocks' savepoints and, in
`client_typescript`, one more (3) for `assert_rejected` inside both; in the other two
(2) it is entered inside one block. `MaxTests` is 1 or 2: the second test is the
one that can see what the first left. The runs over two languages and depths are
separate because the product is too large for one.

No fairness is assumed: every property is a safety property.

### Proofs

`TestClientProofs` proves for every nesting depth, set of roles and claims,
language, and with cancelled contexts and GUC-setting bodies allowed:

* `TypeCorrect` - `Spec => []TypeOK`.
* `SavepointDiscipline` - the savepoint a block is about to release or roll back to
  exists, and nested blocks hold theirs in order. `TypeOK` is not inductive alone:
  `RollbackToSavepoint` indexes `session.saves`, so it needs `SavepointsHeld`;
  that survives the release of an outer savepoint only because inner ones come
  later, `SavepointsNest`, and no outer call is outside its body, `OuterInBody`.
  Together they are `SavepointInv`, proved preserved action by action.

For contexts that are not cancelled and bodies that leave the claims GUC to `as_role`
(both assumptions are needed, see What the checks found) it proves:

* `ActorInvariant` - `ActorInv`: what a call captured is its enclosing block's actor
  (`CapturedOuter`), what its savepoint would restore is the same (`SavepointsOuter`),
  and a usable session has the actor of the point `as_role` has reached
  (`SessionRole`, `SessionClaims`). None of the four is inductive without the others:
  a clean exit restores what was captured, a failed one what the savepoint holds,
  and what is captured is what the session has.
* `BodiesRunAsTheirBlock`, `ClaimsStayInBlock` - `RoleFollowsBlock` and `ClaimsFollowBlock`
  follow.
* `RowsInvariant`, `TestRowsNeverCommit`, `NextTestStartsClean` - rows written inside
  `transaction()` are in the session or in a savepoint only while it lasts
  (`RowsInTransaction`), hence are never committed and never left behind. It is
  inductive only relative to `ActorInv`, whose `NoCancellation` says that the
  closing ROLLBACK is sent.
* `BlocksImplemented` - the refinement `ImplementsBlocks`. The stack of actors is read
  off the calls: a call that has installed its claims is a block, with the actor it was
  entered for, until it sends its first statement of the exit. Entering and leaving map
  to a push and a pop, a statement of the body to a statement of the actor on top
  (which is where `ActorInv` is used), everything else to a stutter.

Its last part, on unwinding, drops those assumptions as far as the code allows:

* `HeldInvariant`, `RecoveredBySavepoint` - with any contexts and any bodies, in any
  language: `Held` says what a call's savepoint would restore, step by step of
  `as_role`; an aborted transaction therefore resumes only as the actor at the
  savepoint (`RecoveryOnlyBySavepoint`).
* `RoleSurvivesClaims` - `RoleFollowsBlock` for bodies that set the claims GUC
  themselves; what is excluded is a cancelled Go context.
* `PythonInvariant`, `ClaimsRestored`, `CoverageAttributed` - for Python, whatever a body
  does: `NonNullClaimsRestored`, and `CoverageInOneTransaction` for the first
  transaction of a client. `PythonInv` ties the tracked role to the session's: they are
  the same wherever a statement of a body can run.

No property of the client's runs is left to TLC alone.

## Fixing

### Modules

* `RowSecurity` - row-level security of one table as PostgreSQL applies it: clauses
  with three-valued logic and errors, permissive policies ORed, restrictive ones
  ANDed, the clause that gates each operation, the owner's exemption. External:
  it is what the docstrings of the fixers appeal to, written once so that they can
  be held against it.
* `FixPlan` - the eleven fixers that act on tables and policies, and
  `generate_fixes`: pure operators from a table to a set of statements, and what a
  statement does to a table.
* `FixApply` - `fix --apply`: several runs, migrations, failures.
* `FixAtomic` - what it promises: each run is one step from the table it finds to
  the table its whole plan makes of it.
* `MCFixApply` - tables for TLC.
* `FixApplyProofs` - the theorems.

### State and actions

| model | code |
|---|---|
| `table` | the committed catalog |
| `plan[r]`, `todo[r]` | the list `generate_fixes` returned to run `r`, and what `_apply_statements` has not reached |
| `advisory` | `pg_advisory_xact_lock(hashtext('pgrls.fix'))` |
| `writer`, `draft` | the lock that the first DDL statement takes on the table, and the table inside that transaction |
| `Introspect` | `_connect_introspect_ctx`, `generate_fixes`; the schema is read before any lock |
| `Lock`, `Statement`, `Commit` | the three parts of `_apply_statements` |
| `Rejected` | the `psycopg.Error` branch: roll back, raise |
| `Abort` | any other end: an interrupt, a lost connection, an error of the server |
| `DropPolicy`, `InstallPolicy` | somebody else's DDL |
| `Proposed` | the loop over `default_fixers()` |
| `Runnable`, `OneWriter` | the suppression of ALTERs by DROPs, `_suppress_clobbering_clause_rewrites` |
| `First` | the final `sorted` |

A clause is a conjunction of disjunctions of five tests (`true`, `false`, a
comparison with a setting, a column, `auth.uid() IS NULL`): every pattern a fixer
looks for and the contexts in which it declines. Deeper nesting, NOT and function
calls, at which the fixers stop, are left out. Policies apply to PUBLIC. An
error is raised where left-to-right evaluation in the order of policy names meets
it. Introspection is one step; that it is many queries is a component of its own.

### Runs

| run | question | result |
|---|---|---|
| `fix_lone` | over every clause shape, alone and next to a sibling: does one run execute without a rejected statement, admit nothing that was hidden, take all or nothing (`FixAtomic`), and does repeating it end? | holds |
| `fix_concurrent` | when two runs plan before either applies and a migration comes in between, does a plan that has not gone stale admit nothing that was hidden, is each statement of a committed plan in effect, stale or not, and do both runs end? | holds |

`NothingHiddenIsAdmitted` and `FreshPlansNarrow` are about requests that row-level
security answered with no row. A request that got an error saw no row either, but is not counted as
hidden: SEC019's rewrite trades the error for a NULL, see What the checks found.

Bounds: two policies per table, because one sibling is what it takes for a drop, a
duplicate, or an OR over policies to matter; four rows (mine or not, public or
not) tell all tests apart. `Lone` has every pair of the ten clause shapes for each
command, permissive and restrictive, alone; eleven policies two by two; and two
policies that leave USING false or strippable next to every restrictive one. One
failure and one migration: a second does nothing a longer run could not meet
first; the migration closes a policy, so that a stale plan would open it again. Two runs: the lock orders any larger number of them.

Fairness: PostgreSQL answers a statement (weak fairness of `Statement`, `Rejected`
and `Commit`), and grants an advisory lock first come, first served, so a waiting
run is not overtaken for ever (strong fairness of `Lock`). `Converges` also needs
that `fix` is run again, with every rule (weak fairness of `Introspect`): that
is the premise of "converges over repeated runs".

### Proofs

`FixApplyProofs`, for every table, number of policies, allowlist and rule filter:

* `PlanCompatible` - two statements of a plan never write the same clause, and a
  dropped policy is neither altered nor dropped again. Two kept writers of a clause
  do not beat each other, `Beats` is total on rules, and a rule proposes one
  statement per policy (`Unique`).
* `PlanProgresses` - some statement is kept whenever one is proposed. `Beats` is the
  same order on every clause, so its least rule at a location keeps all its clauses;
  a preference per clause would not do.

For any number of runs, migrations and failures:

* `PlanInvariant` - `PlanInv`. That every executed statement is still in effect in the
  draft (`Progress`) is not inductive by itself: it takes that the writer is the run
  with the advisory lock (`Locks`), that its plan is made of compatible statements
  (`Plans`), and that a statement achieves its effect and undoes no compatible one
  (`ExecuteAchieves`, `ExecuteKeepsAchieved`), which needs the draft to have both
  clauses of a policy where its command allows them (`TablesOK`).
* `FixesSurvive` - `EveryFixSurvives` follows.
* `LonePlanRuns` - for a single run and no migration, `PlanRuns`: what is left can be
  executed on the draft (`Fresh`), since it could be on the table it was planned
  from and a statement hinders no compatible one.

* `LoneRunIsAtomic` - under the same premise the run implements `FixAtomic`
  (`RunsAreAtomic`): the committed table goes from the one the run read to what its
  whole plan makes of it, or nowhere. `FixAtomic` applies a set of statements at once
  (`Applied`), `_apply_statements` one after the other; the invariant `Whole` says that
  the draft is `Applied` to what is done so far. `WrittenStep` is why: of a set of
  compatible statements (`Harmonious`) at most one writes a clause of a policy, so
  executing one more is applying one more (`ExecuteApplies`). The tables have to be
  `Proper`: records and functions, since two tables are compared whole. A migration
  before the lock breaks it, and is why the premise is there.

* `CommitsAreWhole` - for any number of runs, migrations and failures, what a run commits
  is `Applied` of its whole plan to the table it finds, also when the plan was made from
  another one. The invariant is `DraftInv`: only the writer's statements stand between
  the table and its draft, since a migration or another commit needs a free table.

What a plan admits, for every set of rows and every clause of the model:

* `PlanNarrows` - `Applied` of a plan to the table it was made from admits nothing that
  the table hid. A clause is `Narrower` than another if wherever it is TRUE the other is
  TRUE or raises. Each rewriting yields a narrower clause: of a disjunction any part of
  its tests does (`WithoutNarrows`; `Without` is a recursive function, and that it exists
  and picks tests of the list goes by the least index where it would not), SEC020's
  new WITH CHECK replaces one that was always TRUE, SEC019's NULL and PERF001's wrapping are
  never TRUE where the old test was not. AND, OR and the two kinds of policies carry the
  relation up (`AndOpen`, `OrOpen`, `PoliciesNarrow`). The one case that is not clause by clause is
  a restrictive policy dropped as a duplicate, whose first equal may be dropped too:
  the least of the equal policies is nobody's duplicate, so it stays or restricts
  nothing (`DroppedSpared`).
* `FreshPlansAreNarrow` and `LoneRunNarrows` - `FreshPlansNarrow` for any number of runs, and
  `NothingHiddenIsAdmitted` for a single run that no migration disturbs, from
  `CommitsAreWhole` and `PlanNarrows`.

Model-checked only: the two liveness properties.

## The pooled drivers

`PinnedDriver` models `postgresJsDriver` and the Go `Pool` and `DB` drivers, which take
a connection from a pool at their first call and keep it until `close()`.

| model | code |
|---|---|
| `tracked` | `reservedPromise` in TypeScript, the acquired connection in Go |
| `res`, `waiters` | the promises of reservations, and who awaits each |
| `queue`, `free`, `Grant`, `Refuse` | the pool; external |
| `QueryJs`, `CatchJs`, `ResumeJs`, `CloseJs` | the driver between two awaits; `CatchJs` is the handler that forgets a reservation that failed |
| `CallGo`, `QueryGo`, `AcquiredGo`, `CloseGo` | the driver under its mutex |
| `stage`, `txConn` | `transaction()` of the caller `Tester` |

Run `drivers`: three callers, two connections, six calls, a pool that may refuse. A
refused reservation, a newer one and a `close()` need three callers; a second
connection is needed for a statement to go to the wrong one. Fairness is weak
fairness of `Progress`: pool and event loop go on; callers may stop. A transaction
keeps its connection only if nobody closes the driver meanwhile; with a close the
ROLLBACK goes to a new connection, in both languages.

The three safety properties are proved for any numbers of callers, connections and
calls. `DriverInv` is the inductive invariant: a granted reservation is `Minded` (it is
tracked, or a call that will release or track it awaits it); in Go a call that awaits
or has sent holds the mutex, so nobody tracks a second connection (`GoOK`); in
postgres.js the waiters of a promise are exactly those who await it, in line, and a
`close()` is the last of them because it forgot the promise when it joined
(`WaitersOK`). From the line alone it follows that nothing is sent on a released
connection. `TxOK` is the addition for transactions: between BEGIN and ROLLBACK the tracked
reservation is the one BEGIN was sent on, unless somebody called `close()`. Assumed
(`DriverAssumption`): `Tester` is a caller, and `NoCaller` and `NoConn` are neither
caller nor connection. `CallsReturn` is liveness and stays with TLC.

## Diff

`PredicateCompare` is `compare_predicates`: conjuncts and disjuncts as sets first, then
the implications Z3 decides over two truth values, against PostgreSQL's three. A
clause is a two-level formula over six literals. `PolicyDiff` is `diff_schemas` on one
table: pairing by name, by rename detection (`off`, `strict`, `relaxed`), flags, roles,
commands, clauses, grants, a dropped column; one action per DDL statement edits the
head. What access a table grants (`Accesses`) is PostgreSQL's row security.

Run `diff_grades`: every migration of two statements from 14 tables, in all rename
modes. Two policies and a third name give a rename next to a drop; two statements
give a rename with an edit. Three properties: a widening fails
`--fail-on requires-review`, a quiet diff changes nothing, and a counterexample row
leaks. Two exceptions are part of the statements, since the code has them:

* `Misgraded`: a RESTRICTIVE policy that comes to govern fewer roles is graded
  safe, though those it left see more; a permissive policy whose command moves
  sideways is graded breaking, which `requires-review` does not fail on.
* `Blind`: clauses such as `y = 2 OR y <> 2`, true in two values and NULL for a NULL
  `y`. The comment at `_z3_compare.py:83` says a loosening is never missed; here one is.

`PolicyDiffProofs` proves all three, for any table, policies, roles and number of
statements:

* Of clauses: every row has models of Z3's that agree with it on all that its columns
  determine, and a clause that admits the row is true in them (`CompatibleExists`,
  `EncodingSound`): where the encoding errs it admits more. The converse holds of the
  models of a row together unless the clause is `Blind` (`EncodingComplete`). So an
  implication Z3 finds is one between rows if its right side is not blind, which is
  where the exception is needed (`ImplicationSound`). The comparison of conjuncts and
  disjuncts as sets needs none (`ConjunctsAdmit`, `DisjunctsAdmit`); `ComparisonSound`,
  `EqualSound` and `CounterexampleSound` put the methods together.
* Of grades: a pair of policies of one name, or of one rename, about which nothing is
  dangerous or for review admits no more than before (`SharedGraded`, `RenameGraded`;
  this is where `Misgraded` is needed), and neither does a table of which all changes
  pass the gate (`NoFailureNoWidening`). Hence `WideningsAreReported`.
  `QuietDiffsChangeNothing` is the same with equality on both sides, and
  `CounterexamplesAreReal` follows from the first part.

`TypeCorrect` is the only invariant they need: what a diff says depends on two
tables, not on how the migration came from one to the other.

## Apply cache and ephemeral databases

`ApplyCache` models `diff --apply` (look up, boot, prepare, restore, CHECKPOINT,
commit, migrate, introspect, stop) and the build from migration files, several runs
at once, each step failing or its process killed, images pruned and the base tag
pulled in between. `HeadAsUncached`: a cached run reports what an uncached one would
have on some image the tag has named; the key holds the tag and not the image, so a
hit may be older than the tag. `RunsEnd` takes weak fairness of each run's own steps
(a process is scheduled) and nothing of the others. Run `diff_apply`: two runs, two
baselines, two migrations, one of them with an extension, and two versions of the
tag. A third run only repeats what the second can do to the first. A container whose start
fails after it was created is left to testcontainers' reaper (`ephemeral.py:164`),
which the model takes for stopped.

Proved in `ApplyCacheProofs`, for any numbers of runs, baselines, migrations and
versions: `CacheInvariant` and from it `HeadIsUncached`. `HeadAsUncached` alone is not
inductive: it says nothing of a container before its run reports. `CacheInv` adds what
a container holds at each step (`ContainerOK`: the base image, provisioned, restored,
then a prefix of the files) and that an image under a key is what the set-up makes for
some job with that key (`ImagesOK`). `SameKey` then gives the same for every job
with that key, because the key has the baseline, the roles and the extensions,
which are all the set-up reads. Assumed (`CacheAssumption`): baselines with one
text are one baseline, and a build is a sequence of migrations.

## Verify

`Clauses` has policy clauses in disjunctive normal form over comparisons of columns,
literals and the functions that read the request, and what PostgreSQL makes of
them, NULL and errors included. `IsolationProofs` has the encodings the provers hand
to Z3 and what they conclude, under the anonymous and under the tenant threat
model; Z3 is external: an exhaustive search over the model's values. `Verify` has
the modes of `pgrls verify`: anonymous, cross-tenant, write, view reach, owner
escalation and functions, their roll-up, and the gate of `--against --strict` over
successive merges.

Run `verify`: two DDL statements, two merges, from four bases (with and without
FORCE, with and without the membership graph), 25 policies, eight views chained two
deep, five function bodies; Z3 chooses from five values, which are also those
of the rows. The premises are in the
statements of the properties:

* `MembershipsKnown`: the graph was captured, or the memberships a verdict takes for
  absent are absent. A membership in the owner that an old snapshot lacks is
  documented as fail-open (`verify.py:1117`); so are, for the same reason, privileges of
  the anonymous roles through other roles, other roles that log in as them, and a view
  owned by one.
* The roles of an anonymous session are `SessionRoles`, a parameter; the run has one,
  `anon`. A policy's name is a number, its place in the order of names: the first leaking
  policy gives the witness, and a witness that is every row changes what is reported
  (`FirstLeak`, `WholeLeaks`, and `ForeignLeaks`, where owner escalation is ceded to the
  cross-tenant leak). Where login paths have different settings the code takes the
  witness of the first path, the model the narrower one.
* `AsksForNull`: a request without an identity passes a clause that asks for that
  (`tenant_id = x OR x IS NULL`); the threat model's requests have one.
* `NewRowsOnly`: see What the checks found.
* `LeaksAreReal` leaves out snapshots without the graph, floors that cover some of the
  roles, and the atoms whose encoding is wider than the server's (`WiderAtom`): a wrapped
  operand and a function of its own are free variables of the encoding, the anon key's
  JWT has any content, and see What the checks found for the setting that raises.

Anonymous requests come from a fresh backend. `README.md:510` says that
`current_setting(name, true)` yields NULL for them; on a pooled backend after a
`SET LOCAL` it reads `''`, as `probe.py:90` knows.

`VerifyProofs` proves all four, for any clauses, policies, roles,
memberships, views, functions and numbers of statements and merges:

* `AnonIsolationSound`: a request and a row make a world of the encoding
  (`WorldOfType`), in which every atom that the server finds true is true
  (`TrueAtomsAgree`, `AnonOperandAgrees`: settings that are unset, NULL functions,
  coalesced and wrapped operands). A clause with no passing world admits no row to an
  anonymous request. `AllOfAdmits` carries it to a policy composed with its floors.
* `IsolatedTableHidden`: the policies that govern a request are among those the verdict
  looked at. It takes that what a role may become grows with the memberships and with
  the roles one starts from (`ReachMonotone`, by chains of memberships, `ChainExists`,
  and `LeastNumber` in place of an induction).
* `ViewHidden`, `FunctionHidden`: a path, and a body, hands over nothing when it is not
  reported, since an owner with rows to give is exempt or has a verdict of its own.
  `IsolatedDatabase` collects the doors; `IsolatedIsUnread` is the theorem.
* `MergesHideRows`: the invariant is that every verdict of the base is settled. A merge
  keeps it because the gate refuses both bad verdicts, and a settled table with row
  security is an isolated one (`SettledIsIsolated`).
* `ProofsKeepTenantsApart`: if a row on neither side of the axis passed, the world of it
  and the request would satisfy the clause with the two sides of the axis unequal, which
  is what the prover found impossible (`TenantClauseSound`). For writes the proof is of
  the disjunction of both gates, so it holds of a row that passes either
  (`GateIsChecked`), under the floors that cover all roles and operations
  (`FloorCovers`).
* `ReportedLeaksAreReal` goes the other way: a world that passes is a row (`RowOf`) that
  the server admits to the request (`TrueAtomsAreReal`, `AnonLeakReal`), where no atom is
  wider. `Told` is what an encoded operand must tell of the server's value for that, in
  place of `Agrees`. The composed clause admits the row, hence so does each floor
  (`AllOfAdmitsEach`); a policy that is reachable for several roles governs one of them
  (`ReachFromOne`), and the settings the leak was found under are those of a login
  role (`AnonGucsAreReal`).

Assumed: `VerifyAssumption` (what DDL may create is well-formed), `ValuesAssumption`
(Z3's strings include what requests hold, and neither NULL nor the error; `Rows` are all
rows of such strings and NULL, whose number does not matter to a proof), `BasesAssumption`,
and `CleanBases` for the merges.

## Access matrix

`Access` has the engine of `pgrls matrix` (`CellFor`, the doors, `Round` until nothing
changes) beside a session of the same principal: it issues a statement, which opens
views, fires triggers, applies rules, cascades along foreign keys, moves rows between
partitions and calls functions, one hop per action and each under the user and
session PostgreSQL gives it. `CellsCoverReach`: no row a chain touches is outside the
cell the engine computed, unless the door is listed as untraced. `AnalysisEnds` takes
weak fairness of `Round`.

Run `access`: every catalogue that differs from the default in at most two of eleven
parts (policies, grants, FORCE, a partition or child, a referencing table, views, a
function, triggers, rules, the membership graph), for a role and for PUBLIC. Pairs of parts
are what a chain of two different doors takes; chains within a part may be longer.

What lies behind a statement the engine only knows to be undecided is followed with
`Behind` = `Guess`, and counts as told. One known gap bounds the statement: a parameter set
in one door's body is still set in the doors its writes open (`exec.chosen` = "before").
Two predicates are alike if they are the same clauses by name, as the code compares
their text, whatever rows pass them. The statements of a body are tags: `hidden` are those that
the code's walk of the body cannot follow.
A table has at most one parent in the model.

`AccessProofs` proves `MatrixCoversReach`, `CellsCoverReach` for any catalogues, roles,
clauses and rows. The cells of the fixpoint are not computed in the proof; it uses only
that a round which changes nothing has taken every door into account:

* `Inv` is the inductive invariant. Its engine half, `Engine`, ties cells, issued writes
  and untraced doors to the last round; when the loop has returned, `EngineSettles` gives
  `Settled`: the cell of each door is covered by the matrix (`Covers`, in rows and in
  verdict), and each write a door attempts is issued. That merging keeps what it merges
  is `FoldCovers`, where two filters are alike only if the same rows pass them
  (`SameFilterRows`).
* Its session half, `ExecOK`, is about the statement being executed, and `CellsCoverReach`
  is far from inductive without it. On a table (`TableOK`): its rows are in the cell,
  the write is among the issued ones, or came from a table above it or from a row moved
  out of one. On a view (`ViewOK`): the matrix has answered for every table that opening
  the view can lead to, as the role and session that will open it (`WalkSeen`), or
  has left all of them undecided (`WideBelow`).
* One lemma per action shows that `ExecOK` is kept. `Answer` is the bridge: the matrix's
  cell covers the rows a role sees of a table with a given session. It holds for the
  principal (`OwnAnswers`, `OwnViews`), for bodies and rules (`RunSeen`, `FunctionSeen`,
  `RuleSeen`), for views opened one through the other (`WalkAnswers`, `ViewAnswers`),
  for a table below another (`ParentsSeen`), and `TriggerExpected` says that a trigger
  the session fires is one the engine fires.
* A TRUNCATE that PostgreSQL accepts is one the engine calls open: among the named tables
  there are lowest ones that serve as the engine's choice (`TruncateOpen`).

Assumed: `AccessAssumption` (a clause depends on current_user or on privileges only if it
is among those that the engine takes to), `CatalogueAssumption` (what PostgreSQL accepts
in its catalogue: owners are roles, no cycle of parents, no rule on a materialized view), and the
theorem's hypothesis `Followable`, whose three parts are gaps of the engine (see What the
checks found). The 497 catalogues of the run satisfy it, 32 of them without the
membership graph.

## Lint, rules, generate

`Catalog` has the types of the schema model: what a table, view, function, policy or role
is to the rules. `PolicyRules` and `ObjectRules` have every detection rule as an operator
from such a schema to the locations it fires at. `Lint` has the command: selection by `--rule`,
`--exclude-rule` and `disable`, severity overrides, allowlists, the failing
threshold, the baseline file and its update, runs on a snapshot of any version
(`Snapshots`), `generate --apply`, and DDL in between. Its second part is what
PostgreSQL lets `anon` and `authenticated` read and insert.

Run `lint` checks five properties over DDL (two edits, three steps, on a table and
its partition; one edit without row security, on a table and its partition or child), a longer baseline history (five steps), and a database
that makes the rules that do not concern access fire:

* `DoorsReported`, with the shapes no rule looks for named in `Blind`: an alternative
  that tests the caller only beside one that reads a column
  (`tenant_id = ... OR auth.role() = 'authenticated'`), and rows that only several
  policies open together.
* `NewDoorsFailTheGate`. A baseline or allowlist entry also covers a later widening at
  the same rule and location (ALTER POLICY ... TO anon); a missing baseline file is
  created and the run passes. Both are the code's design, and the property counts an
  entry as acceptance.
* `OneOwnerPerBypass`, `GeneratedLintsClean`, `NoSilentRule`. `Standing` names the rules that
  look at what `generate` does not write, `ElsewhereRules` those about objects that may
  share a table's name.

A finding's location is the code's: SEC035 has one for each index, SEC047 for each
foreign key, and an allowlist entry of either names the table. SEC047's allowlist also
takes the bare name of a foreign key; that form is left out. `auth.email` is read by
SEC034 only and is no auth function of the other rules' defaults.

`UpdateBaseline` and `Allow` happen only after a failing run. Views and functions belong
to a superuser.

`LintProofs` proves, for any names, databases, configurations and numbers of steps:

* `SchemasStaySchemas` - DDL and `generate` make schemas of schemas (`IsSchema`): policies
  have the clauses of their command, a view reads what is there, a grant is on a
  column of the table. The rules are evaluated on nothing else.
* `BypassesHaveOneOwner` - `OneOwnerPerBypass`. A table without row security is
  SEC041's if an ancestor has it, otherwise SEC032's or SEC001's by whether it has
  policies, so two of them never meet.
* `GateIsAsGoodAsTheRules` - as long as every door is reported (`DoorsReported`, which
  the run checks), `NewDoorsFailTheGate`. This is the part of the command that has a
  history: `RunRules` with an allowlist is `RunRules` without it minus what is listed
  (`AllowlistOnly`), and a passing run has a finding's key in the file it read or wrote
  (`PassedRun`). The premise is that `fail_on` is `warning`, the default, or `info`.
* `SnapshotsLeaveNoRuleOutInSilence` - `NoSilentRule`. What a snapshot of some version
  still tells is said field by field (`SnapshotTells`: equal from the version that wrote
  the field, empty before). `RulesTold` then goes through the registry: a rule reads
  fields that every version has (the rules of policies and of row security), or its
  version in `CatalogDependentRules` is at least that of each field it reads
  (`NotInert`), or it is one of `Unnoticed`. Version 27 tells everything
  (`SnapshotIsWhole`), so a clean run that left nothing out is a clean database's; the
  invariant (`LastSnapshot`) is that a run's verdict stays that of the database until the
  next step.
* `ScaffoldedTablesLintClean` - `GeneratedLintsClean`. The invariant (`LastGenerated`) is
  that the tables of the last `generate` are `Scaffolded`. From that alone, whatever else
  is in the schema, 46 rules are silent at such a table: the policies' clause is a column
  equal to a wrapped call (`GeneratedPredicate`), which is what the rules about policies
  ask (`PolicyRulesSilent`; for SEC003 and its kin also that the prover finds no
  anonymous request that reads every row, `IsolationIsNoOpenRead`), and row security,
  FORCE, the policies and the index are what the rules about tables ask
  (`TableRulesSilent`). The clause is TRUE only of rows that have the session's value
  (`IsolatedRow`).

The recursion over ancestors (`Reached`) is over a function from tables to their parents,
so that two schemas with the same parents have the same ancestors without induction.
Assumed of `PolicyNames`: it lists names without repeating one; of the names that `generate`
uses: they are no placeholders, and no volatile functions or claims
(`GenerateAssumption`).

`DoorsReported` stays with TLC. It asks for a finding at every door, and a door is a
session that reads every one of the instance's rows: with fewer rows or other columns a
clause that tests a column is open on all of them and no rule is about it, so it is a
statement about rich instances and the shapes named in `Blind`, not about every value
of the constants.

## Reading a migration's text

`Ddl` executes a migration as PostgreSQL does: inheritance, named and NOT VALID
constraints, renames, drops. `DdlReplay` is `schema_from_sql` on the text of the same
statements. Run `reading` compares the two after every migration of up to four to six
statements from eight catalogues of statements, each about one theme (lives of a
name, row security and policies, partitions, inheritance, constraints, constraints that move with
renames). The state space is a tree of logs, so a bound is the length of the text.

`ReplayFaithful`, `NullsErrWide` and `NoMissedFindings` carry the gaps as named operators:

* `Mixed`: a name used for two tables. After `DROP a; CREATE a` the new table has the
  old one's policies and grants (the docstring at `schema_sources.py:388` promises
  order); after `RENAME docs TO docs_old; CREATE docs` the second `docs` is read into
  the first. Children of such a table inherit the stale answer.
* `ColumnsTold`: `CREATE TABLE AS` has no columns, and later columns of a parent do not
  reach a child.
* `Detached`: DETACH and NO INHERIT are not replayed, nor REVOKE, which over-reports.
* `Skipped`: `CREATE TABLE IF NOT EXISTS` after an ADD CONSTRAINT makes the replay skip
  the constraint and lose its name; after SET NOT NULL and DROP CONSTRAINT a
  nullable column reads as NOT NULL. The comment near `schema_sources.py:957` says
  skipping errs towards nullable only.

ATTACH PARTITION, SET SCHEMA, RENAME COLUMN, DROP ... CASCADE and DROP SCHEMA are
not replayed by the code and are not statements of the model. Nor is ALTER DEFAULT
PRIVILEGES, which the replay skips: what it grants on later tables is not read.

## What the checks found

Where a run disagreed with a comment, a docstring or a page of the documentation,
the property now names the exception; each was met as a counterexample first.

* Python client: when RELEASE, the restore or ROLLBACK TO raises inside `finally`,
  `client.py:281` is not reached and the tracked role stays the block's; a client used
  for another transaction attributes its queries to it (the comment at 184 says it is
  restored on exit). `CoverageInOneTransaction` is about one transaction.
* Go: the deferred ROLLBACK of `Transaction` uses the caller's context
  (`client.go:102`); once that is done nothing is sent and the session keeps the open
  transaction, though the doc at 85 says always. The block's ROLLBACK TO has the same flaw
  (`client.go:364`), and the outer body goes on as the inner role.
* Go and TypeScript take captured claims of `''` for none (`client.go:273`,
  `client.ts:238`); `docs/pgrls-test-protocol.md:57` restores what is not NULL.
* `fix --apply` takes its lock after planning (`cli.py:1484`; the docstring at 1470 says
  that two runs "serialize rather than racing on a stale snapshot"). Two runs that plan
  the same strip of `own OR auth() IS NULL OR true` race: the first commits, is run
  again, strips `IS NULL` and commits; the second then commits its stale clause and lets
  anonymous requests in. So does a run planned before a migration closes the
  policy, and one with another `--rule` filter. `NothingHiddenIsAdmitted` is violated
  in `fix_concurrent` by both; the property there is `FreshPlansNarrow`.
* SEC019's fixer (`sec019.py:155`, docstring 127) looks inside one clause; beside a
  permissive sibling its rewrite admits rows that the raising form withheld.
* `verify --mode write` composes a RESTRICTIVE floor FOR ALL or FOR UPDATE that has only a
  WITH CHECK with permissive policies that let old rows be updated or deleted
  (`verify.py:867`; the docstring of `_floor_applies` at 494 says a floor is composed only
  if it binds what the policy admits). Such a floor does not bind old rows, so another
  tenant's row can be deleted under a proof. It was met when the proof of
  `NoForeignRowTouched` failed at this step; the run now has the policies that show it,
  and the property names the exception (`NewRowsOnly`).
* `verify` treats a one-argument `current_setting` that is unset as raising in a comparison
  and as a predicate, but not in COALESCE and not under IS NOT NULL
  (`diff/_z3_compare.py:1696` and 1736 drop the mark): the statement raises, and a leak is
  reported that no request shows, which the comment at `_z3_compare.py:1642` says the mark
  prevents ("Without this ... report a phantom LEAK"). The COALESCE was met when
  the proof of `LeaksAreReal` failed, as was the anon key's JWT, whose content the
  encoding leaves free.
* `matrix` without the membership graph: a role with a grant on a table may also own it
  through a membership that was not captured, and is then exempt; `cell_for` answers with
  the policies
  (`access.py:440` asks for an owner path only among the known ones). And when the permissive
  policies known to apply have no clause for the command, the cell is denied although
  others may apply (`access.py:470`); the comment at 450 says that such a policy leans toward over-reporting.
* `matrix` takes what a rule's action reads through a security_invoker view to be read
  by the relation's owner (`_rule_doors`); the server reads it as the role that wrote. These
  three were met when the proof of `CellsCoverReach` failed, and are the parts of `Followable`.
* Disabling row security makes a table vanish from `verify --against`, which then
  passes and lists a base's leak as fixed.
* The table of snapshot versions gives column grants version 15, SEC041's threshold is
  8: between them a table reached by column grants only is missed and lint says
  nothing; SEC045, SEC049 and SEC030 are not in the table (`Unnoticed`).
* `README.md:336` says that lint has no findings after `generate --apply`; rules it does not
  address may still fire (`Standing`). Two of them were met only when the proof of
  `GeneratedLintsClean` failed: SEC050 at a generated `storage.objects`, whose policies
  do not look at the bucket, and SEC046 where a function that the predicate calls is
  declared IMMUTABLE.

## Proved and model-checked

TLAPS proves the theorems of `TestClientProofs`, `FixApplyProofs`, `PinnedDriverProofs`,
`PolicyDiffProofs`, `ApplyCacheProofs`, `VerifyProofs`, `LintProofs` and `AccessProofs`, for every value of the constants under the named assumptions; the
arguments are in the sections above. Everything else is checked by TLC within the
bounds named.

Left to TLC:

* liveness under fairness and ENABLED (`CallsReturn`, `RunsEnd`, `AnalysisEnds`,
  `Converges`, `EveryRunEnds`), out of the prover's reach;
* `ReplayFaithful`, `NullsErrWide` and `NoMissedFindings`, which compare a fold over the text
  of a migration with the state it leads to: the steps of the fold are provable one by
  one, what the fold computes is induction over data;
* `DoorsReported`: it asks for a finding at every door, which depends on the rows the
  instance has; the exhaustive run is the evidence.

## Not modelled

* `matrix_proof.py`, `vector.py`, `matrix.py`: a solver query per matrix cell with its own
  list of doors, and reports.
* Introspection: the queries and the mapping of rows; that each query has its own
  snapshot is PostgreSQL's doing and pgrls has no code against it.
* The probe and the performance measurement: one transaction that is rolled back, with
  the discipline of the test client's.
* Coverage, history, reports, formatters, reproduction: files and text.
* The language server and the MCP server: adapters without concurrency of their own.
* Of `fix`: the fixers of indexes, functions, views, grants and default privileges,
  `--check`, `--output`, the offline path, and `generate --apply`'s lock key.
* Of diff: views, functions, indexes, memberships, default privileges.
* Quoting, message texts, report layout; the parser (pglast), Z3 and docker themselves.
