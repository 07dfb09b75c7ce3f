---------------------------- MODULE TestClientInv ----------------------------
(***************************************************************************)
(* The inductive invariant behind RoleFollowsBlock, ClaimsFollowBlock,     *)
(* TestWritesNeverCommit, NothingLeftBehind and ImplementsBlocks: what the *)
(* captured values, the savepoint snapshots and the session are worth at   *)
(* every point of every active as_role call.  IInv is for contexts that    *)
(* are not cancelled and bodies that leave the claims GUC to as_role.      *)
(***************************************************************************)
EXTENDS TestClient

\* From its SAVEPOINT to its RELEASE or ROLLBACK TO a call holds a savepoint.
Holding == {"setrole", "setclaims", "body", "release", "undo", "rollbackto"}
\* The session has the block's own role, or its own claims.
HasRole == {"setclaims", "body", "release", "restorerole", "rollbackto"}
HasClaims == {"body", "release", "restorerole", "restoreclaims", "rollbackto"}

NoCancellation == cancelled = Live /\ Depth <= MaxDepth

\* Claims are installed only for a block that has some.
ClaimsToInstall == Depth > 0 /\ Top.pc = "setclaims" => Top.claims # NoValue

\* Only the innermost call is in as_role's own code.
OuterInBody == \A i \in 1 .. Depth - 1 : frames[i].pc = "body"

\* What a call captured is what its enclosing block has.
CapturedOuter ==
    \A i \in 1 .. Depth : frames[i].pc # "capture" =>
        /\ frames[i].prevUser = BlockRole(i - 1)
        /\ Claimless(frames[i].prevClaims) = BlockClaims(i - 1)

\* A held savepoint exists,
SavepointsHeld ==
    \A i \in 1 .. Depth :
        frames[i].pc \in Holding => frames[i].sp \in 1 .. Len(session.saves)

\* and would roll back to what the enclosing block has.
SavepointsOuter ==
    \A i \in 1 .. Depth : frames[i].pc \in Holding =>
        /\ session.saves[frames[i].sp].role = BlockRole(i - 1)
        /\ Claimless(session.saves[frames[i].sp].claims) = BlockClaims(i - 1)

\* Savepoints are held in the order the calls nest.
SavepointsNest ==
    \A i, j \in 1 .. Depth :
        i < j /\ frames[j].pc \in Holding => frames[i].sp < frames[j].sp

\* A usable session has the role and the claims of the point reached.
SessionRole ==
    session.tx \in {"idle", "open"} =>
        session.role = IF Depth = 0 THEN Login
                       ELSE IF Top.pc \in HasRole THEN Top.role
                       ELSE IF Top.pc = "undo" THEN session.role
                       ELSE BlockRole(Depth - 1)
SessionClaims ==
    session.tx \in {"idle", "open"} =>
        Claimless(session.claims) =
            IF Depth = 0 THEN NoValue
            ELSE IF Top.pc \in HasClaims THEN BlockClaims(Depth)
            ELSE IF Top.pc = "undo" THEN Claimless(session.claims)
            ELSE BlockClaims(Depth - 1)

\* Uncommitted rows of a test exist only inside transaction(), which in the
\* ports means inside BEGIN.
RowsInTransaction ==
    /\ ~inTx /\ session.tx # "lost" =>
           /\ "inside" \notin session.dirty
           /\ \A p \in 1 .. Len(session.saves) : "inside" \notin session.saves[p].dirty
    /\ inTx /\ Lang # "python" => session.tx # "idle"
    /\ "inside" \notin committed

\* Inductive for every language, cancelled contexts and GUC-setting bodies.
SavepointInv == TypeOK /\ OuterInBody /\ SavepointsHeld /\ SavepointsNest

\* Inductive, on top of SavepointInv, without those two.
ActorInv == /\ SavepointInv /\ NoCancellation /\ ClaimsToInstall /\ CapturedOuter
            /\ SavepointsOuter /\ SessionRole /\ SessionClaims
RowsInv == SavepointInv /\ NoCancellation /\ RowsInTransaction
IInv == ActorInv /\ RowsInv
-------------------------------------------------------------------------------
(* The same of what a call captured, without the two assumptions.          *)

UsableNow == session.tx \in {"idle", "open"}

\* The savepoint of a call would bring back the actor the call captured; until
\* it is taken the session still has that actor.
CapturedHeld ==
    \A i \in 1 .. Depth :
        /\ frames[i].pc = "savepoint" /\ UsableNow =>
               /\ session.role = frames[i].prevUser
               /\ Claimless(session.claims) = Claimless(frames[i].captured)
        /\ frames[i].pc \in Holding =>
               /\ session.saves[frames[i].sp].role = frames[i].prevUser
               /\ Claimless(session.saves[frames[i].sp].claims) = Claimless(frames[i].captured)
\* Inductive for every language, cancelled contexts and GUC-setting bodies.
HeldInv == SavepointInv /\ CapturedHeld

\* Calls restore the role of the enclosing block, whatever the body does to the
\* claims.
CapturedRole == \A i \in 1 .. Depth :
                    frames[i].pc # "capture" => frames[i].prevUser = BlockRole(i - 1)
RoleInv == HeldInv /\ NoCancellation /\ CapturedRole /\ SessionRole

\* Only an exception rolls back, and Python captures the claims as they are.
Unwinding == Depth > 0 /\ Top.pc \in {"undo", "rollbackto"} => raised
CapturedAsIs == \A i \in 1 .. Depth : frames[i].captured = frames[i].prevClaims

\* Transactions are counted when they begin.
Counted == inTx => tests > 0
\* Until the first transaction() of a client is over ...
FirstTransaction == tests = 0 \/ (inTx /\ tests = 1)
TrackedRole(i) == IF i = 0 THEN NoValue ELSE frames[i].role
\* ... a call knows the role its enclosing block is tracked as,
OuterTracked ==
    FirstTransaction =>
        \A i \in 1 .. Depth : frames[i].pc # "capture" \/ UsableNow =>
            frames[i].outerRole = TrackedRole(i - 1)
\* the tracker has the role of the point reached, if statements can run,
CurrentTracked ==
    FirstTransaction /\ UsableNow =>
        currentRole = IF Depth = 0 THEN NoValue
                      ELSE IF Top.pc \in {"body", "release", "restorerole", "restoreclaims"}
                      THEN Top.role
                      ELSE IF Top.pc \in {"undo", "rollbackto"} THEN currentRole
                      ELSE TrackedRole(Depth - 1)
\* and the cached login role is the login role.
LoginTracked == FirstTransaction => loginRole \in {NoValue, Login}
\* Inductive for Python.
PythonInv == /\ RoleInv /\ Unwinding /\ CapturedAsIs /\ Counted
             /\ OuterTracked /\ CurrentTracked /\ LoginTracked
===============================================================================
