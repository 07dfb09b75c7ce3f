------------------------------ MODULE PgSession ------------------------------
(***************************************************************************)
(* One PostgreSQL session as the pgrls test clients drive it: the          *)
(* transaction status, the role and the claims GUC that SET LOCAL ROLE and *)
(* set_config('request.jwt.claims', ..., true) change, the rows written    *)
(* but not committed, and the savepoint stack.  PostgreSQL itself is not   *)
(* under src/: the operators say what the statements the clients send do   *)
(* to the session, as the comments of the clients and                      *)
(* docs/pgrls-test-protocol.md record it (the documents call the behaviour *)
(* of an unset GUC "measured").                                            *)
(*                                                                         *)
(* Savepoint names are random, hence distinct; a name is modelled by the   *)
(* position its savepoint has in the stack for as long as it exists.       *)
(***************************************************************************)
EXTENDS Naturals, Sequences

CONSTANTS Login,     \* the role the connection logs in as
          Roles,     \* the other roles SET LOCAL ROLE may name
          Json,      \* JSON texts stored in the claims GUC
          NoValue,   \* SQL NULL (the GUC was never set), and the clients' None/null/nil
          Empty      \* '': what an unset GUC reads as once it was touched

ASSUME SessionAssumption ==
    /\ Login \notin Roles
    /\ NoValue \notin Json \cup {Empty} \cup {Login} \cup Roles
    /\ Empty \notin Json

ClaimsValue == Json \cup {NoValue, Empty}
Marks == {"inside", "outside"}      \* was a row written inside transaction()?
Snapshot == [role : Roles \cup {Login}, claims : ClaimsValue, dirty : SUBSET Marks]
Session == [tx      : {"idle", "open", "failed", "lost"},
            role    : Roles \cup {Login},
            claims  : ClaimsValue,
            touched : BOOLEAN,
            dirty   : SUBSET Marks,
            saves   : Seq(Snapshot)]

Connected == [tx |-> "idle", role |-> Login, claims |-> NoValue,
              touched |-> FALSE, dirty |-> {}, saves |-> <<>>]

\* current_setting('request.jwt.claims', true).
CurrentClaims(s) == IF s.claims = NoValue /\ s.touched THEN Empty ELSE s.claims

Begun(s) == [s EXCEPT !.tx = "open"]
\* An error puts an open transaction in the aborted state.
Aborted(s) == IF s.tx = "open" THEN [s EXCEPT !.tx = "failed"] ELSE s
Lost(s) == [s EXCEPT !.tx = "lost"]

SetLocalRole(s, r) == [s EXCEPT !.role = r]
\* Setting NULL leaves the empty string.
SetConfig(s, v) ==
    [s EXCEPT !.claims = IF v = NoValue THEN Empty ELSE v, !.touched = TRUE]
Written(s, mark) == [s EXCEPT !.dirty = @ \cup {mark}]

SnapshotOf(s) == [role |-> s.role, claims |-> s.claims, dirty |-> s.dirty]
Savepoint(s) == [s EXCEPT !.saves = Append(@, SnapshotOf(s))]
\* RELEASE keeps what was set since, and drops the savepoint and later ones.
Release(s, p) == [s EXCEPT !.saves = SubSeq(@, 1, p - 1)]
\* ROLLBACK TO reverts what was set since and keeps the savepoint itself.
RollbackTo(s, p) ==
    [s EXCEPT !.tx = "open", !.role = s.saves[p].role, !.claims = s.saves[p].claims,
              !.dirty = s.saves[p].dirty, !.saves = SubSeq(@, 1, p)]
\* ROLLBACK (and COMMIT, but for the rows): SET LOCAL is undone.
TransactionEnded(s) ==
    [s EXCEPT !.tx = "idle", !.role = Login, !.claims = NoValue,
              !.dirty = {}, !.saves = <<>>]
=============================================================================
