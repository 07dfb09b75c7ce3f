------------------------------ MODULE TestClient ------------------------------
(***************************************************************************)
(* The pgrls test client: transaction(), as_role() and the assertion       *)
(* helpers, as the Python reference (src/pgrls/testing) and the TypeScript *)
(* and Go ports (ts/src, go/pgrlstest) implement them over one session.    *)
(*                                                                         *)
(* as_role is one step per statement it sends.  A test body is the         *)
(* environment: at any point outside the client's own code it may run a    *)
(* statement, open a nested block, raise, catch what was raised, return.   *)
(* The server may go away and, in Go, a block's context may be cancelled   *)
(* between any two steps.                                                  *)
(***************************************************************************)
EXTENDS PgSession

CONSTANTS Lang,            \* the implementation: "python", "typescript" or "go"
          BodySetsClaims,  \* may a test body call set_config on the GUC itself?
          CtxCancels,      \* may a Go context be cancelled between statements?
          MaxDepth,        \* bound: nested as_role blocks
          MaxSaves,        \* bound: savepoints in the session
          MaxTests         \* bound: transaction() calls on one client

ASSUME ClientAssumption ==
    /\ Lang \in {"python", "typescript", "go"}
    /\ BodySetsClaims \in BOOLEAN /\ CtxCancels \in BOOLEAN
    /\ MaxDepth \in Nat /\ MaxSaves \in Nat /\ MaxTests \in Nat

VARIABLES session,      \* the PostgreSQL session
          committed,    \* marks of the rows other sessions can see
          inTx,         \* inside transaction()
          frames,       \* the active as_role calls, innermost last
          raised,       \* an exception (Go: a non-nil error) is propagating
          cancelled,    \* outermost block whose context is done; MaxDepth+1: none
          currentRole,  \* _current_role: the role coverage attributes to
          loginRole,    \* _login_role, cached at its first use
          ran,          \* the last statement a body ran, and as whom
          tests
vars == <<session, committed, inTx, frames, raised, cancelled, currentRole,
          loginRole, ran, tests>>

Frame == [role : Roles, claims : Json \cup {NoValue},
          captured : ClaimsValue,             \* what current_setting returned
          prevUser : Roles \cup {Login}, prevClaims : ClaimsValue,
          outerRole : Roles \cup {NoValue}, sp : Nat,
          pc : {"capture", "savepoint", "setrole", "setclaims", "body", "release",
                "restorerole", "restoreclaims", "undo", "rollbackto"}]

Live == MaxDepth + 1
Depth == Len(frames)
Top == frames[Depth]
AtBody == Depth > 0 => Top.pc = "body"

Init == /\ session = Connected /\ committed = {}
        /\ inTx = FALSE /\ frames = <<>> /\ raised = FALSE /\ cancelled = Live
        /\ currentRole = NoValue /\ loginRole = NoValue
        /\ ran = [role |-> Login, claims |-> NoValue, covered |-> NoValue]
        /\ tests = 0
-------------------------------------------------------------------------------
(* Statements.                                                             *)

\* The statement reaches the server.
Sent == session.tx # "lost" /\ cancelled > Depth
\* ... which executes it.
Runs == Sent /\ session.tx # "failed"
\* psycopg opens a transaction at the first statement; the ports do not.
Started == IF Lang = "python" /\ session.tx = "idle" THEN Begun(session) ELSE session
\* What a statement that fails leaves.
AfterError == IF Sent THEN Aborted(Started) ELSE session
Mark == IF inTx THEN "inside" ELSE "outside"

Insert == IF Started.tx = "open"
          THEN session' = Written(Started, Mark) /\ UNCHANGED committed
          ELSE session' = Started /\ committed' = committed \cup {Mark}
Read == session' = Started /\ UNCHANGED committed

ActiveRole == IF currentRole # NoValue THEN currentRole
              ELSE IF loginRole # NoValue THEN loginRole ELSE session.role
Ran(covered) ==
    ran' = [role |-> session.role, claims |-> CurrentClaims(session), covered |-> covered]
\* _capture: coverage of a statement that ran.  Only the Python client has it.
RanCaptured ==
    IF Lang = "python"
    THEN /\ Ran(ActiveRole)
         /\ loginRole' = IF currentRole = NoValue THEN ActiveRole ELSE loginRole
    ELSE Ran(NoValue) /\ UNCHANGED loginRole
RanUncaptured == Ran(NoValue) /\ UNCHANGED loginRole

Control == <<inTx, frames, cancelled, currentRole, tests>>
InBody == AtBody /\ ~raised
-------------------------------------------------------------------------------
(* What a test body does.                                                  *)

Exec == /\ InBody /\ Runs
        /\ Insert \/ Read
        /\ RanCaptured /\ UNCHANGED <<raised, Control>>

ExecSetsClaims(j) ==
    /\ BodySetsClaims /\ InBody /\ Runs /\ Started.tx = "open"
    /\ session' = SetConfig(Started, j)
    /\ RanCaptured /\ UNCHANGED <<committed, raised, Control>>

\* The statement of an exec, fetchall, seed or assertion call raises.
StatementFails ==
    /\ InBody /\ session' = AfterError /\ raised' = TRUE
    /\ UNCHANGED <<committed, ran, loginRole, Control>>

\* seed: rejected before any SQL, complete, or failing on a later row.
Seed == /\ InBody
        /\ \/ raised' = TRUE /\ UNCHANGED <<session, committed, ran, loginRole>>
           \/ Runs /\ Insert /\ RanUncaptured /\ UNCHANGED raised
           \/ /\ Runs /\ raised' = TRUE
              /\ IF Started.tx = "open"
                 THEN session' = Aborted(Written(Started, Mark)) /\ UNCHANGED committed
                 ELSE UNCHANGED session /\ committed' = committed \cup {Mark}
              /\ RanUncaptured
        /\ UNCHANGED Control

\* assert_rows, assert_visible, assert_invisible.
AssertRowCount(holds) ==
    /\ InBody /\ Runs /\ Read
    /\ IF holds THEN RanCaptured ELSE RanUncaptured
    /\ raised' = ~holds /\ UNCHANGED Control

\* The statement runs before the verb and RETURNING gates look at it.
AssertSilentlyDropped(dropped) ==
    /\ InBody /\ Runs
    /\ IF dropped THEN Read /\ RanCaptured ELSE Insert /\ RanUncaptured
    /\ raised' = ~dropped /\ UNCHANGED Control

\* assert_rejected: SAVEPOINT, the probe, then ROLLBACK TO unless it succeeded.
AssertRejected(outcome) ==
    /\ InBody /\ Runs /\ Started.tx = "open" /\ Len(session.saves) < MaxSaves
    /\ LET marked == Savepoint(Started)
           p == Len(marked.saves)
       IN  session' = IF outcome = "succeeded" THEN Release(Written(marked, Mark), p)
                                               ELSE RollbackTo(Aborted(marked), p)
    /\ raised' = (outcome # "denied")
    /\ IF outcome = "denied" THEN RanCaptured ELSE RanUncaptured
    /\ UNCHANGED <<committed, Control>>

RaiseInBody == InBody /\ raised' = TRUE
               /\ UNCHANGED <<session, committed, ran, loginRole, Control>>
CatchInBody == AtBody /\ raised /\ raised' = FALSE
               /\ UNCHANGED <<session, committed, ran, loginRole, Control>>

CallAsRole(r, c) ==
    /\ InBody /\ Depth < MaxDepth /\ Len(session.saves) < MaxSaves
    /\ frames' = Append(frames,
           [role |-> r, claims |-> c, captured |-> NoValue, prevUser |-> Login,
            prevClaims |-> NoValue, outerRole |-> currentRole, sp |-> 0,
            pc |-> "capture"])
    /\ UNCHANGED <<session, committed, inTx, raised, cancelled, currentRole,
                   loginRole, ran, tests>>

BodyEnds == /\ Depth > 0 /\ Top.pc = "body"
            /\ frames' = [frames EXCEPT ![Depth].pc =
                              IF raised THEN "rollbackto" ELSE "release"]
            /\ UNCHANGED <<session, committed, inTx, raised, cancelled, currentRole,
                           loginRole, ran, tests>>
-------------------------------------------------------------------------------
(* as_role.                                                                *)

Goto(pc) == frames' = [frames EXCEPT ![Depth].pc = pc] /\ UNCHANGED cancelled
\* The call returns or raises: its frame and its context go.
Pop == /\ frames' = SubSeq(frames, 1, Depth - 1)
       /\ cancelled' = IF cancelled = Depth THEN Live ELSE cancelled
\* `finally` ran to its last line.
Tracked(role) == currentRole' = IF Lang = "python" THEN role ELSE currentRole
\* An exception leaves as_role before that line.
Raises == Pop /\ raised' = TRUE /\ UNCHANGED currentRole
\* Mutant: the tracker is not brought back.
UntrackedLeaves == Pop /\ UNCHANGED <<raised, currentRole>>
Leaves == Pop /\ Tracked(Top.outerRole) /\ UNCHANGED raised
Elsewhere == <<committed, inTx, loginRole, ran, tests>>

\* Mutant: the claims are tested for truth, not for None.
TruthyPrevClaims(s) == IF CurrentClaims(s) = Empty THEN NoValue ELSE CurrentClaims(s)
\* Python keeps '' apart from NULL; the ports take '' for "no claims".
PrevClaims(s) == IF Lang # "python" /\ CurrentClaims(s) = Empty
                 THEN NoValue ELSE CurrentClaims(s)

CaptureActor ==
    /\ Depth > 0 /\ Top.pc = "capture" /\ UNCHANGED Elsewhere
    /\ \/ /\ Runs /\ session' = Started
          /\ frames' = [frames EXCEPT ![Depth].prevUser = session.role,
                                      ![Depth].captured = CurrentClaims(session),
                                      ![Depth].prevClaims = PrevClaims(session),
                                      ![Depth].pc = "savepoint"]
          /\ UNCHANGED <<raised, cancelled, currentRole>>
       \/ ~Runs /\ Raises /\ UNCHANGED session

OpenSavepoint ==
    /\ Depth > 0 /\ Top.pc = "savepoint" /\ UNCHANGED Elsewhere
    /\ \/ /\ Runs /\ session.tx = "open" /\ session' = Savepoint(session)
          /\ frames' = [frames EXCEPT ![Depth].sp = Len(session.saves) + 1,
                                      ![Depth].pc = "setrole"]
          /\ UNCHANGED <<raised, cancelled, currentRole>>
       \/ ~(Runs /\ session.tx = "open") /\ Raises /\ UNCHANGED session

\* The role or the claims cannot be installed: unwind to the savepoint.
EntryFails == /\ Goto("undo") /\ raised' = TRUE /\ session' = AfterError
              /\ UNCHANGED currentRole
\* quote_ident or the JSON encoder raises: nothing is sent.
RefusedLocally == Goto("undo") /\ raised' = TRUE /\ UNCHANGED <<session, currentRole>>
Enter == Goto("body") /\ Tracked(Top.role) /\ UNCHANGED raised

SwitchRole ==
    /\ Depth > 0 /\ Top.pc = "setrole" /\ UNCHANGED Elsewhere
    /\ \/ /\ Runs /\ session' = SetLocalRole(session, Top.role)
          /\ \/ Top.claims = NoValue /\ Enter
             \/ Top.claims # NoValue /\ Goto("setclaims") /\ UNCHANGED <<raised, currentRole>>
       \/ EntryFails
       \/ Lang # "go" /\ RefusedLocally     \* Go quotes the role before any SQL

InstallClaims ==
    /\ Depth > 0 /\ Top.pc = "setclaims" /\ UNCHANGED Elsewhere
    /\ \/ Runs /\ session' = SetConfig(session, Top.claims) /\ Enter
       \/ EntryFails
       \/ RefusedLocally

\* Mutant: RELEASE is taken to undo SET LOCAL.
ReleaseOnly ==
    /\ Depth > 0 /\ Top.pc = "release" /\ UNCHANGED Elsewhere
    /\ \/ Runs /\ session' = Release(session, Top.sp) /\ Leaves
       \/ ~Runs /\ Raises /\ UNCHANGED session

ReleaseSavepoint ==
    /\ Depth > 0 /\ Top.pc = "release" /\ UNCHANGED Elsewhere
    /\ \/ /\ Runs /\ session' = Release(session, Top.sp) /\ Goto("restorerole")
          /\ UNCHANGED <<raised, currentRole>>
       \/ ~Runs /\ Raises /\ UNCHANGED session

\* Mutant: the role restored is the tracker's, not the captured one.
RestoreTrackedRole ==
    /\ Depth > 0 /\ Top.pc = "restorerole" /\ UNCHANGED Elsewhere
    /\ Runs /\ session' = SetLocalRole(session, Top.outerRole) /\ Leaves
\* Mutant: no `elif claims is not None`.
RestoreRoleClaimsIfAny ==
    /\ Depth > 0 /\ Top.pc = "restorerole" /\ UNCHANGED Elsewhere
    /\ \/ /\ Runs /\ session' = SetLocalRole(session, Top.prevUser)
          /\ IF Top.prevClaims # NoValue
             THEN Goto("restoreclaims") /\ UNCHANGED <<raised, currentRole>>
             ELSE Leaves
       \/ ~Runs /\ Raises /\ UNCHANGED session

RestoreRole ==
    /\ Depth > 0 /\ Top.pc = "restorerole" /\ UNCHANGED Elsewhere
    /\ \/ /\ Runs /\ session' = SetLocalRole(session, Top.prevUser)
          /\ IF Top.prevClaims # NoValue \/ Top.claims # NoValue
             THEN Goto("restoreclaims") /\ UNCHANGED <<raised, currentRole>>
             ELSE Leaves
       \/ ~Runs /\ Raises /\ UNCHANGED session

\* The captured claims, or NULL when there were none and the block set some.
RestoreClaims ==
    /\ Depth > 0 /\ Top.pc = "restoreclaims" /\ UNCHANGED Elsewhere
    /\ \/ Runs /\ session' = SetConfig(session, Top.prevClaims) /\ Leaves
       \/ ~Runs /\ Raises /\ UNCHANGED session

\* Mutant: every block names its savepoint alike.
RollbackToLatest ==
    /\ Depth > 0 /\ Top.pc \in {"undo", "rollbackto"} /\ UNCHANGED Elsewhere
    /\ \/ Sent /\ session' = RollbackTo(session, Len(session.saves)) /\ Leaves
       \/ ~Sent /\ Raises /\ UNCHANGED session
\* Mutant: the savepoint is released on errors too.
ReleaseOnError ==
    /\ Depth > 0 /\ Top.pc \in {"undo", "rollbackto"} /\ UNCHANGED Elsewhere
    /\ \/ Runs /\ session' = Release(session, Top.sp) /\ Leaves
       \/ ~Runs /\ Raises /\ UNCHANGED session

RollbackToSavepoint ==
    /\ Depth > 0 /\ Top.pc \in {"undo", "rollbackto"} /\ UNCHANGED Elsewhere
    /\ \/ Sent /\ session' = RollbackTo(session, Top.sp) /\ Leaves
       \/ ~Sent /\ Raises /\ UNCHANGED session
-------------------------------------------------------------------------------
(* transaction(), the connection and contexts.                             *)

\* Python sends nothing; the ports send BEGIN, which fails in an aborted
\* transaction and is a no-op in one that was left open.
BeginTransaction ==
    /\ Depth = 0 /\ ~inTx /\ ~raised /\ tests < MaxTests
    /\ tests' = tests + 1
    /\ \/ /\ Lang = "python"
          /\ inTx' = TRUE /\ UNCHANGED <<session, raised>>
       \/ /\ Lang # "python" /\ Runs
          /\ session' = Begun(session) /\ inTx' = TRUE /\ UNCHANGED raised
       \/ /\ Lang # "python" /\ ~Runs
          /\ raised' = TRUE /\ UNCHANGED <<session, inTx>>
    /\ UNCHANGED <<committed, frames, cancelled, currentRole, loginRole, ran>>

\* Mutant: rolled back on errors only.
RollbackOnErrorOnly ==
    /\ Depth = 0 /\ inTx
    /\ inTx' = FALSE /\ raised' = FALSE /\ cancelled' = Live
    /\ session' = IF Sent /\ raised THEN TransactionEnded(session) ELSE session
    /\ UNCHANGED <<committed, frames, currentRole, loginRole, ran, tests>>

\* The rollback goes out with the body's context; an error in it is reported.
EndTransaction ==
    /\ Depth = 0 /\ inTx
    /\ inTx' = FALSE /\ raised' = FALSE /\ cancelled' = Live
    /\ session' = IF Sent THEN TransactionEnded(session) ELSE session
    /\ UNCHANGED <<committed, frames, currentRole, loginRole, ran, tests>>

\* connect() exits: psycopg commits unless an exception is propagating.  The
\* ports leave the connection to its owner.  A new client takes its place.
CloseConnection ==
    /\ Depth = 0 /\ ~inTx
    /\ committed' = IF Lang = "python" /\ session.tx = "open" /\ ~raised
                    THEN committed \cup session.dirty ELSE committed
    /\ session' = Connected /\ raised' = FALSE
    /\ currentRole' = NoValue /\ loginRole' = NoValue
    /\ UNCHANGED <<inTx, frames, cancelled, ran, tests>>

Disconnect == /\ session.tx # "lost" /\ session' = Lost(session)
              /\ UNCHANGED <<committed, inTx, frames, raised, cancelled, currentRole,
                             loginRole, ran, tests>>

CancelContext(level) ==
    /\ Lang = "go" /\ CtxCancels /\ inTx /\ level <= Depth /\ level < cancelled
    /\ cancelled' = level
    /\ UNCHANGED <<session, committed, inTx, frames, raised, currentRole, loginRole,
                   ran, tests>>
-------------------------------------------------------------------------------
Body == \/ Exec \/ StatementFails \/ Seed \/ RaiseInBody \/ CatchInBody \/ BodyEnds
        \/ \E j \in Json : ExecSetsClaims(j)
        \/ \E ok \in BOOLEAN : AssertRowCount(ok) \/ AssertSilentlyDropped(ok)
        \/ \E o \in {"denied", "othererror", "succeeded"} : AssertRejected(o)
        \/ \E r \in Roles, c \in Json \cup {NoValue} : CallAsRole(r, c)
AsRole == \/ CaptureActor \/ OpenSavepoint \/ SwitchRole \/ InstallClaims
          \/ ReleaseSavepoint \/ RestoreRole \/ RestoreClaims \/ RollbackToSavepoint
World == \/ BeginTransaction \/ EndTransaction \/ CloseConnection \/ Disconnect
         \/ \E level \in 0 .. MaxDepth : CancelContext(level)
Next == Body \/ AsRole \/ World
Spec == Init /\ [][Next]_vars
-------------------------------------------------------------------------------
(* Properties.                                                             *)

TypeOK ==
    /\ session \in Session /\ committed \subseteq Marks /\ inTx \in BOOLEAN
    /\ frames \in Seq(Frame) /\ raised \in BOOLEAN /\ cancelled \in 0 .. Live
    /\ currentRole \in Roles \cup {NoValue}
    /\ loginRole \in Roles \cup {Login, NoValue}
    /\ ran \in [role : Roles \cup {Login}, claims : ClaimsValue,
                covered : Roles \cup {Login, NoValue}]
    /\ tests \in Nat

Claimless(v) == IF v \in Json THEN v ELSE NoValue
\* The role and the claims of the block that encloses frame i + 1 (0: none).
BlockRole(i) == IF i = 0 THEN Login ELSE frames[i].role
BlockClaims(i) == IF i = 0 THEN NoValue
                  ELSE IF frames[i].claims # NoValue THEN frames[i].claims
                  ELSE Claimless(frames[i].prevClaims)

\* Whenever control is in a test body and statements can run, the session has
\* the role of the innermost block: whatever nested blocks, failed entries,
\* caught errors and probes came before, as_role put the role back.
RoleFollowsBlock ==
    AtBody /\ session.tx \in {"idle", "open"} => session.role = BlockRole(Depth)

\* The same of the claims GUC: no scenario's claims are seen by the next one
\* (protocol: "prevents one role's GUC values from bleeding").
ClaimsFollowBlock ==
    AtBody /\ session.tx \in {"idle", "open"} =>
        Claimless(session.claims) = BlockClaims(Depth)

\* Coverage attributes a statement to the role PostgreSQL ran it as.
CoverageFollowsRole == ran.covered # NoValue => ran.covered = ran.role

\* ... as the pytest fixture uses a client: one transaction() per client.
CoverageInOneTransaction ==
    [][inTx /\ tests = 1 /\ ran' # ran => CoverageFollowsRole']_vars

\* Rows a test writes inside transaction() are never visible to others.
TestWritesNeverCommit == "inside" \notin committed

\* Once transaction() is over, the next test finds neither its rows nor its
\* role on a connection that still works.
NothingLeftBehind ==
    ~inTx /\ Depth = 0 /\ session.tx # "lost" =>
        /\ "inside" \notin session.dirty
        /\ session.tx # "failed" => session.role = Login

\* Step 6 of the protocol: a block that exits cleanly leaves the claims it
\* found, whenever it found any value but NULL.
NonNullClaimsRestored ==
    [][Depth' < Depth /\ ~raised' /\ Top.captured # NoValue
       => CurrentClaims(session') = Top.captured]_vars

\* A caught error never lets a statement run in a transaction the server has
\* aborted: only a block's ROLLBACK TO, or a probe's, makes it usable again,
\* and then as the actor that was active at that savepoint.
RecoveryOnlyBySavepoint ==
    [][session.tx = "failed" /\ session'.tx = "open" =>
        /\ session'.role = Top.prevUser
        /\ Claimless(session'.claims) = Claimless(Top.captured)]_vars

\* The blocks a body is in, as the abstract specification sees them.
Entering == {"capture", "savepoint", "setrole", "setclaims", "undo"}
Entered == IF Depth > 0 /\ Top.pc \in Entering THEN Depth - 1 ELSE Depth
Actor(r, c) == [role |-> r, claims |-> c]
Block == INSTANCE ScenarioBlock WITH
             LoginActor <- Actor(Login, NoValue),
             Actors <- [role : Roles, claims : Json \cup {NoValue}],
             actors <- [i \in 1 .. Entered |-> Actor(BlockRole(i), BlockClaims(i))],
             ran <- Actor(ran.role, Claimless(ran.claims))
\* Every statement of a test body runs as the actor of its innermost block.
ImplementsBlocks == Block!Spec
===============================================================================
