--------------------------- MODULE TestClientProofs ---------------------------
(***************************************************************************)
(* First the types and the savepoints, with no assumption.  Then the actor *)
(* invariant: as_role keeps the session's role and claims those of the     *)
(* innermost block, for every nesting and every order of failures, while   *)
(* contexts are not cancelled and bodies leave the GUC to as_role.  On top *)
(* of it, the rows a test writes: they end with its transaction().         *)
(***************************************************************************)
EXTENDS TestClientInv, TLAPS

\* The statements map sessions to sessions.
LEMMA SessionOps ==
    ASSUME NEW s \in Session
    PROVE  /\ Begun(s) \in Session /\ Aborted(s) \in Session /\ Lost(s) \in Session
           /\ TransactionEnded(s) \in Session /\ Connected \in Session
           /\ \A r \in Roles \cup {Login} : SetLocalRole(s, r) \in Session
           /\ \A v \in ClaimsValue : SetConfig(s, v) \in Session
           /\ \A m \in Marks : Written(s, m) \in Session
           /\ CurrentClaims(s) \in ClaimsValue
  <1> USE DEF Session
  <1>1. Begun(s) \in Session /\ Aborted(s) \in Session /\ Lost(s) \in Session
    BY DEF Begun, Aborted, Lost
  <1>2. TransactionEnded(s) \in Session
    <2>1. <<>> \in Seq(Snapshot) /\ {} \in SUBSET Marks /\ NoValue \in ClaimsValue
      BY DEF ClaimsValue
    <2> QED BY <2>1 DEF TransactionEnded
  <1>3. Connected \in Session
    BY DEF Connected, ClaimsValue, Marks
  <1>4. \A r \in Roles \cup {Login} : SetLocalRole(s, r) \in Session
    BY DEF SetLocalRole
  <1>5. \A v \in ClaimsValue : SetConfig(s, v) \in Session
    BY DEF SetConfig, ClaimsValue
  <1>6. \A m \in Marks : Written(s, m) \in Session
    BY DEF Written
  <1>7. CurrentClaims(s) \in ClaimsValue
    BY DEF CurrentClaims, ClaimsValue
  <1> QED BY <1>1, <1>2, <1>3, <1>4, <1>5, <1>6, <1>7

\* SAVEPOINT pushes one snapshot and leaves those below.
LEMMA SavepointOp ==
    ASSUME NEW s \in Session
    PROVE  /\ Savepoint(s) \in Session
           /\ Len(Savepoint(s).saves) = Len(s.saves) + 1
           /\ \A i \in 1 .. Len(s.saves) : Savepoint(s).saves[i] = s.saves[i]
           /\ Savepoint(s).saves[Len(s.saves) + 1] = SnapshotOf(s)
  <1> DEFINE sn == SnapshotOf(s)
  <1>1. s.saves \in Seq(Snapshot) /\ sn \in Snapshot
    BY DEF Session, SnapshotOf, Snapshot
  <1>2. Savepoint(s) = [s EXCEPT !.saves = Append(s.saves, sn)]
    BY DEF Savepoint
  <1> HIDE DEF sn
  <1>3. Append(s.saves, sn) \in Seq(Snapshot)
    BY <1>1
  <1>4. Savepoint(s) \in Session /\ Savepoint(s).saves = Append(s.saves, sn)
    BY <1>2, <1>3 DEF Session
  <1> QED BY <1>1, <1>4 DEF sn

\* RELEASE pops the savepoint and those above it.
LEMMA ReleaseOp ==
    ASSUME NEW s \in Session, NEW p \in 1 .. Len(s.saves)
    PROVE  /\ Release(s, p) \in Session
           /\ Len(Release(s, p).saves) = p - 1
           /\ \A i \in 1 .. p - 1 : Release(s, p).saves[i] = s.saves[i]
  <1>1. s.saves \in Seq(Snapshot)
    BY DEF Session
  <1>2. /\ SubSeq(s.saves, 1, p - 1) \in Seq(Snapshot)
        /\ Len(SubSeq(s.saves, 1, p - 1)) = p - 1
        /\ \A i \in 1 .. p - 1 : SubSeq(s.saves, 1, p - 1)[i] = s.saves[i]
    BY <1>1
  <1>3. Release(s, p) \in Session /\ Release(s, p).saves = SubSeq(s.saves, 1, p - 1)
    BY <1>2 DEF Session, Release
  <1> QED BY <1>2, <1>3

\* ROLLBACK TO pops those above the savepoint and restores its snapshot.
LEMMA RollbackToOp ==
    ASSUME NEW s \in Session, NEW p \in 1 .. Len(s.saves)
    PROVE  /\ RollbackTo(s, p) \in Session
           /\ Len(RollbackTo(s, p).saves) = p
           /\ \A i \in 1 .. p : RollbackTo(s, p).saves[i] = s.saves[i]
           /\ RollbackTo(s, p).tx = "open"
           /\ RollbackTo(s, p).role = s.saves[p].role
           /\ RollbackTo(s, p).claims = s.saves[p].claims
           /\ RollbackTo(s, p).dirty = s.saves[p].dirty
  <1>1. s.saves \in Seq(Snapshot) /\ s.saves[p] \in Snapshot
    BY DEF Session
  <1>2. /\ SubSeq(s.saves, 1, p) \in Seq(Snapshot)
        /\ Len(SubSeq(s.saves, 1, p)) = p
        /\ \A i \in 1 .. p : SubSeq(s.saves, 1, p)[i] = s.saves[i]
    BY <1>1
  <1>3. /\ RollbackTo(s, p) \in Session
        /\ RollbackTo(s, p).saves = SubSeq(s.saves, 1, p)
        /\ RollbackTo(s, p).tx = "open"
        /\ RollbackTo(s, p).role = s.saves[p].role
        /\ RollbackTo(s, p).claims = s.saves[p].claims
        /\ RollbackTo(s, p).dirty = s.saves[p].dirty
    BY <1>1, <1>2 DEF Session, RollbackTo, Snapshot
  <1> QED BY <1>2, <1>3

-------------------------------------------------------------------------------
(* Sequences of frames.                                                    *)

\* The innermost call changes; the enclosing ones do not.
LEMMA FrameUpdate ==
    ASSUME NEW fs \in Seq(Frame), fs # <<>>, NEW g \in Frame
    PROVE  LET n == Len(fs)
               gs == [fs EXCEPT ![n] = g]
           IN  /\ n \in Nat \ {0} /\ gs \in Seq(Frame) /\ Len(gs) = n
               /\ gs[n] = g /\ \A i \in 1 .. n - 1 : gs[i] = fs[i]
  OBVIOUS

\* The innermost call returns; the enclosing ones do not change.
LEMMA FramePop ==
    ASSUME NEW fs \in Seq(Frame), fs # <<>>
    PROVE  LET n == Len(fs)
               gs == SubSeq(fs, 1, n - 1)
           IN  /\ n \in Nat \ {0} /\ gs \in Seq(Frame) /\ Len(gs) = n - 1
               /\ \A i \in 1 .. n - 1 : gs[i] = fs[i]
  <1> DEFINE n == Len(fs)
  <1>1. n \in Nat \ {0} /\ n - 1 \in 0 .. n
    OBVIOUS
  <1>2. n - 1 = Len(fs) - 1 /\ n \in 1 .. Len(fs)
    BY <1>1
  <1> HIDE DEF n
  <1>3. /\ SubSeq(fs, 1, n - 1) \in Seq(Frame)
        /\ Len(SubSeq(fs, 1, n - 1)) = n - 1
        /\ \A i \in 1 .. n - 1 : SubSeq(fs, 1, n - 1)[i] = fs[i]
    BY <1>2
  <1> QED BY <1>1, <1>3 DEF n

\* A call begins; the enclosing ones do not change.
LEMMA FramePush ==
    ASSUME NEW fs \in Seq(Frame), NEW g \in Frame
    PROVE  LET n == Len(fs)
               gs == Append(fs, g)
           IN  /\ n \in Nat /\ gs \in Seq(Frame) /\ Len(gs) = n + 1
               /\ gs[n + 1] = g /\ \A i \in 1 .. n : gs[i] = fs[i]
  OBVIOUS
-------------------------------------------------------------------------------
(* What a test body's statement does to the session: nothing to the         *)
(* savepoints held, and nothing to the role and, unless it sets the claims  *)
(* itself, the claims of a session that stays usable.                       *)

Usable(s) == s.tx \in {"idle", "open"}
Keeps(s, t) ==
    /\ t \in Session
    /\ Len(s.saves) <= Len(t.saves)
    /\ \A p \in 1 .. Len(s.saves) : t.saves[p] = s.saves[p]
KeepsActor(s, t) ==
    Usable(t) => Usable(s) /\ t.role = s.role /\ t.claims = s.claims

\* Statements that are not savepoints keep the savepoint stack.
LEMMA KeepsBasics ==
    ASSUME NEW s \in Session
    PROVE  /\ Keeps(s, s) /\ KeepsActor(s, s)
           /\ Keeps(s, Begun(s)) /\ (Usable(s) => KeepsActor(s, Begun(s)))
           /\ Keeps(s, Aborted(s)) /\ KeepsActor(s, Aborted(s))
           /\ Keeps(s, Lost(s)) /\ KeepsActor(s, Lost(s))
           /\ \A m \in Marks : Keeps(s, Written(s, m)) /\ KeepsActor(s, Written(s, m))
           /\ \A v \in ClaimsValue : Keeps(s, SetConfig(s, v))
  <1>1. s.saves \in Seq(Snapshot)
    BY DEF Session
  <1>2. Len(s.saves) \in Nat
    BY <1>1
  <1>3. Begun(s).saves = s.saves /\ Begun(s).role = s.role /\ Begun(s).claims = s.claims
    BY DEF Begun, Session
  <1>4. /\ Aborted(s).saves = s.saves /\ Aborted(s).role = s.role
        /\ Aborted(s).claims = s.claims /\ (Usable(Aborted(s)) => Usable(s))
    BY DEF Aborted, Session, Usable
  <1>5. Lost(s).saves = s.saves /\ ~Usable(Lost(s))
    BY DEF Lost, Session, Usable
  <1>6. ASSUME NEW m \in Marks
        PROVE  Keeps(s, Written(s, m)) /\ KeepsActor(s, Written(s, m))
    <2>1. /\ Written(s, m).saves = s.saves /\ Written(s, m).role = s.role
          /\ Written(s, m).claims = s.claims /\ Written(s, m).tx = s.tx
      BY DEF Written, Session
    <2>2. Written(s, m) \in Session
      BY SessionOps
    <2> QED BY <2>1, <2>2, <1>2 DEF Keeps, KeepsActor, Usable
  <1>7. ASSUME NEW v \in ClaimsValue
        PROVE  Keeps(s, SetConfig(s, v))
    <2>1. SetConfig(s, v).saves = s.saves
      BY DEF SetConfig, Session
    <2> QED BY <2>1, <1>2, SessionOps DEF Keeps
  <1> QED BY <1>2, <1>3, <1>4, <1>5, <1>6, <1>7, SessionOps DEF Keeps, KeepsActor

\* Two such steps in a row are one.
LEMMA KeepsTrans ==
    ASSUME NEW s \in Session, NEW t \in Session, NEW u \in Session,
           Keeps(s, t), Keeps(t, u)
    PROVE  Keeps(s, u)
  <1>1. Len(s.saves) \in Nat /\ Len(t.saves) \in Nat /\ Len(u.saves) \in Nat
    BY DEF Session
  <1> QED BY <1>1 DEF Keeps

\* A probe that is rolled back, or released, leaves the savepoints below it.
LEMMA ProbeKeeps ==
    ASSUME NEW s \in Session, s.tx = "open", NEW m \in Marks
    PROVE  LET k == Savepoint(s)
               p == Len(k.saves)
           IN  /\ Keeps(s, RollbackTo(Aborted(k), p))
               /\ KeepsActor(s, RollbackTo(Aborted(k), p))
               /\ Keeps(s, Release(Written(k, m), p))
               /\ KeepsActor(s, Release(Written(k, m), p))
  <1> DEFINE k == Savepoint(s)
             n == Len(s.saves)
             a == Aborted(k)
             w == Written(k, m)
             r == RollbackTo(a, n + 1)
             e == Release(w, n + 1)
  <1>1. n \in Nat
    BY DEF Session
  <1>2. /\ k \in Session /\ Len(k.saves) = n + 1 /\ k.tx = s.tx /\ k.role = s.role
        /\ k.claims = s.claims /\ k.saves[n + 1] = SnapshotOf(s)
        /\ \A i \in 1 .. n : k.saves[i] = s.saves[i]
    BY SavepointOp DEF Session, Savepoint
  <1>3. a \in Session /\ a.saves = k.saves
    BY <1>2, SessionOps DEF Aborted, Session
  <1>4. w \in Session /\ w.saves = k.saves /\ w.role = s.role /\ w.claims = s.claims
    BY <1>2, SessionOps DEF Written, Session
  <1>5. n + 1 \in 1 .. Len(a.saves) /\ n + 1 \in 1 .. Len(w.saves)
    BY <1>1, <1>2, <1>3, <1>4
  <1> HIDE DEF k, a, w
  <1>6. /\ r \in Session /\ Len(r.saves) = n + 1
        /\ \A i \in 1 .. n + 1 : r.saves[i] = a.saves[i]
        /\ r.role = a.saves[n + 1].role /\ r.claims = a.saves[n + 1].claims
    BY <1>3, <1>5, RollbackToOp
  <1>7. /\ e \in Session /\ Len(e.saves) = n
        /\ \A i \in 1 .. n : e.saves[i] = w.saves[i]
    <2>1. (n + 1) - 1 = n
      BY <1>1
    <2> QED BY <2>1, <1>4, <1>5, ReleaseOp
  <1>8. e.role = w.role /\ e.claims = w.claims
    BY <1>4 DEF Release, Session
  <1> HIDE DEF r, e, n
  <1>9. Keeps(s, r) /\ KeepsActor(s, r)
    BY <1>1, <1>2, <1>3, <1>6 DEF Keeps, KeepsActor, Usable, SnapshotOf, n
  <1>10. Keeps(s, e) /\ KeepsActor(s, e)
    BY <1>1, <1>2, <1>4, <1>7, <1>8 DEF Keeps, KeepsActor, Usable, n
  <1> QED BY <1>2, <1>9, <1>10 DEF k, a, w, r, e, n
-------------------------------------------------------------------------------
(* Each action of a test body, in one lemma: its effect on the session.     *)

\* psycopg's implicit BEGIN keeps the savepoint stack.
LEMMA StartedKeeps ==
    ASSUME TypeOK
    PROVE  /\ Started \in Session /\ Keeps(session, Started)
           /\ KeepsActor(session, Started)
           /\ (Usable(session) => Usable(Started))
           /\ (Started.tx = session.tx \/ (session.tx = "idle" /\ Started.tx = "open"))
           /\ Started.saves = session.saves /\ Started.dirty = session.dirty
           /\ AfterError \in Session /\ Keeps(session, AfterError)
           /\ KeepsActor(session, AfterError)
  <1>1. session \in Session
    BY DEF TypeOK
  <1>2. CASE Lang = "python" /\ session.tx = "idle"
    <2>1. Started = Begun(session) /\ Usable(session)
      BY <1>2 DEF Started, Usable
    <2>2. Begun(session) \in Session /\ Begun(session).tx = "open"
          /\ Begun(session).saves = session.saves
          /\ Begun(session).dirty = session.dirty
      BY <1>1, SessionOps DEF Begun, Session
    <2>3. Keeps(session, Begun(session)) /\ KeepsActor(session, Begun(session))
      BY <1>1, <2>1, KeepsBasics
    <2>4. Aborted(Begun(session)) \in Session /\ Keeps(session, Aborted(Begun(session)))
          /\ ~Usable(Aborted(Begun(session)))
      <3>1. Aborted(Begun(session)).tx = "failed"
        BY <2>2 DEF Aborted, Session
      <3>2. Aborted(Begun(session)) \in Session
        BY <2>2, SessionOps
      <3>3. Keeps(Begun(session), Aborted(Begun(session)))
        BY <2>2, KeepsBasics
      <3> QED BY <1>1, <2>2, <2>3, <3>1, <3>2, <3>3, KeepsTrans DEF Usable
    <2>5. Usable(Started) /\ Started.tx = "open"
      BY <2>1, <2>2 DEF Usable
    <2>6. AfterError = Aborted(Begun(session)) \/ AfterError = session
      BY <2>1 DEF AfterError
    <2>7. KeepsActor(session, Aborted(Begun(session)))
      BY <2>4 DEF KeepsActor
    <2>8. /\ AfterError \in Session /\ Keeps(session, AfterError)
          /\ KeepsActor(session, AfterError)
      BY <1>1, <2>4, <2>6, <2>7, KeepsBasics
    <2> QED BY <1>2, <2>1, <2>2, <2>3, <2>5, <2>8
  <1>3. CASE ~(Lang = "python" /\ session.tx = "idle")
    <2>1. Started = session
      BY <1>3 DEF Started
    <2> QED BY <1>1, <2>1, KeepsBasics, SessionOps DEF AfterError
  <1> QED BY <1>2, <1>3

\* A write keeps the savepoint stack.
LEMMA InsertKeeps ==
    ASSUME TypeOK, Insert
    PROVE  Keeps(session, session') /\ KeepsActor(session, session')
           /\ committed' \subseteq Marks
  <1>1. session \in Session /\ Mark \in Marks /\ committed \subseteq Marks
    BY DEF TypeOK, Mark, Marks
  <1>2. Keeps(Started, Written(Started, Mark)) /\ KeepsActor(Started, Written(Started, Mark))
        /\ Written(Started, Mark) \in Session
    BY <1>1, StartedKeeps, KeepsBasics, SessionOps
  <1>3. Keeps(session, Written(Started, Mark)) /\ KeepsActor(session, Written(Started, Mark))
    BY <1>1, <1>2, StartedKeeps, KeepsTrans DEF KeepsActor
  <1> QED BY <1>1, <1>3, StartedKeeps DEF Insert

\* What ran, and the cached login role, keep their types.
LEMMA RanTypes ==
    ASSUME TypeOK, RanCaptured \/ RanUncaptured
    PROVE  /\ ran' \in [role : Roles \cup {Login}, claims : ClaimsValue,
                       covered : Roles \cup {Login, NoValue}]
           /\ loginRole' \in Roles \cup {Login, NoValue}
  <1>1. session.role \in Roles \cup {Login} /\ CurrentClaims(session) \in ClaimsValue
    BY SessionOps DEF TypeOK, Session
  <1>2. ActiveRole \in Roles \cup {Login, NoValue}
    BY <1>1 DEF ActiveRole, TypeOK
  <1> QED BY <1>1, <1>2 DEF RanCaptured, RanUncaptured, Ran, TypeOK

\* The parts of TypeOK a body action can disturb, frames and session apart.
BodyTypes ==
    /\ committed' \subseteq Marks /\ raised' \in BOOLEAN
    /\ loginRole' \in Roles \cup {Login, NoValue}
    /\ ran' \in [role : Roles \cup {Login}, claims : ClaimsValue,
                 covered : Roles \cup {Login, NoValue}]
    /\ UNCHANGED <<inTx, frames, cancelled, currentRole, tests>>

Statement == \/ Exec \/ StatementFails \/ Seed \/ RaiseInBody \/ CatchInBody
             \/ \E ok \in BOOLEAN : AssertRowCount(ok) \/ AssertSilentlyDropped(ok)
             \/ \E o \in {"denied", "othererror", "succeeded"} : AssertRejected(o)

\* Each statement of a test body keeps the savepoint stack.
LEMMA StatementKeeps ==
    ASSUME TypeOK, Statement
    PROVE  BodyTypes /\ Keeps(session, session') /\ KeepsActor(session, session')
  <1>1. session \in Session /\ Keeps(session, session) /\ KeepsActor(session, session)
    BY KeepsBasics DEF TypeOK
  <1>2. CASE Exec
    <2>1. CASE Insert
      BY <1>2, <2>1, InsertKeeps, RanTypes DEF Exec, BodyTypes, TypeOK, Control
    <2>2. CASE Read
      BY <1>2, <2>2, StartedKeeps, RanTypes DEF Exec, Read, BodyTypes, TypeOK, Control
    <2> QED BY <1>2, <2>1, <2>2 DEF Exec
  <1>3. CASE StatementFails
    BY <1>3, StartedKeeps DEF StatementFails, BodyTypes, TypeOK, Control
  <1>4. CASE Seed
    <2>1. CASE raised' = TRUE /\ UNCHANGED <<session, committed, ran, loginRole>>
      BY <1>1, <1>4, <2>1 DEF Seed, BodyTypes, TypeOK, Control
    <2>2. CASE Runs /\ Insert /\ RanUncaptured /\ UNCHANGED raised
      BY <1>4, <2>2, InsertKeeps, RanTypes DEF Seed, BodyTypes, TypeOK, Control
    <2>3. CASE /\ Runs /\ raised' = TRUE
               /\ IF Started.tx = "open"
                  THEN session' = Aborted(Written(Started, Mark)) /\ UNCHANGED committed
                  ELSE UNCHANGED session /\ committed' = committed \cup {Mark}
               /\ RanUncaptured
      <3>1. Mark \in Marks
        BY DEF Mark, Marks
      <3>2. LET w == Written(Started, Mark)
            IN  /\ Started \in Session /\ w \in Session /\ Aborted(w) \in Session
                /\ Keeps(session, Started) /\ Keeps(Started, w) /\ Keeps(w, Aborted(w))
        BY <3>1, StartedKeeps, KeepsBasics, SessionOps
      <3>3. LET w == Written(Started, Mark)
            IN  Keeps(session, Aborted(w))
        BY <1>1, <3>2, KeepsTrans
      <3>4. LET w == Written(Started, Mark)
            IN  \/ Aborted(w).tx # "open" /\ Aborted(w).tx # "idle"
                \/ Started.tx # "open"
        BY <3>2 DEF Aborted, Written, Session
      <3>5. committed' \subseteq Marks
        BY <2>3, <3>1 DEF TypeOK
      <3> QED BY <1>1, <1>4, <2>3, <3>3, <3>4, <3>5, RanTypes
              DEF Seed, BodyTypes, TypeOK, KeepsActor, Usable, Control
    <2> QED BY <1>4, <2>1, <2>2, <2>3 DEF Seed
  <1>5. CASE RaiseInBody \/ CatchInBody
    BY <1>1, <1>5 DEF RaiseInBody, CatchInBody, BodyTypes, TypeOK, Control
  <1>6. ASSUME NEW ok \in BOOLEAN, AssertRowCount(ok)
        PROVE  BodyTypes /\ Keeps(session, session') /\ KeepsActor(session, session')
    BY <1>6, StartedKeeps, RanTypes DEF AssertRowCount, Read, BodyTypes, TypeOK, Control
  <1>7. ASSUME NEW ok \in BOOLEAN, AssertSilentlyDropped(ok)
        PROVE  BodyTypes /\ Keeps(session, session') /\ KeepsActor(session, session')
    <2>1. CASE ok
      BY <1>7, <2>1, StartedKeeps, RanTypes
         DEF AssertSilentlyDropped, Read, BodyTypes, TypeOK, Control
    <2>2. CASE ~ok
      BY <1>7, <2>2, InsertKeeps, RanTypes
         DEF AssertSilentlyDropped, BodyTypes, TypeOK, Control
    <2> QED BY <2>1, <2>2
  <1>8. ASSUME NEW o \in {"denied", "othererror", "succeeded"}, AssertRejected(o)
        PROVE  BodyTypes /\ Keeps(session, session') /\ KeepsActor(session, session')
    <2>1. Mark \in Marks /\ Started.tx = "open"
      BY <1>8 DEF Mark, Marks, AssertRejected
    <2>2. Keeps(Started, session') /\ KeepsActor(Started, session') /\ session' \in Session
      BY <1>8, <2>1, StartedKeeps, ProbeKeeps DEF AssertRejected, Keeps
    <2>3. Keeps(session, session') /\ KeepsActor(session, session')
      BY <1>1, <2>2, StartedKeeps, KeepsTrans DEF KeepsActor
    <2> QED BY <1>8, <2>3, RanTypes DEF AssertRejected, BodyTypes, TypeOK, Control
  <1> QED BY <1>2, <1>3, <1>4, <1>5, <1>6, <1>7, <1>8 DEF Statement

\* A body that keeps the savepoints keeps the savepoint discipline.
LEMMA BodyKeepsSavepointInv ==
    ASSUME SavepointInv, BodyTypes, Keeps(session, session')
    PROVE  SavepointInv'
  <1>1. TypeOK'
    BY DEF SavepointInv, TypeOK, BodyTypes, Keeps, Live
  <1>2. SavepointsHeld'
    <2> SUFFICES ASSUME NEW i \in 1 .. Depth, frames[i].pc \in Holding
                 PROVE  frames[i].sp \in 1 .. Len(session'.saves)
      BY DEF SavepointsHeld, BodyTypes, Depth
    <2>1. frames[i].sp \in 1 .. Len(session.saves)
      BY DEF SavepointInv, SavepointsHeld
    <2>2. Len(session.saves) \in Nat /\ Len(session'.saves) \in Nat
          /\ Len(session.saves) <= Len(session'.saves)
      BY DEF SavepointInv, TypeOK, Keeps, Session
    <2> QED BY <2>1, <2>2
  <1>3. OuterInBody' /\ SavepointsNest'
    BY DEF SavepointInv, OuterInBody, SavepointsNest, BodyTypes, Depth
  <1> QED BY <1>1, <1>2, <1>3 DEF SavepointInv
-------------------------------------------------------------------------------
(* The savepoint discipline through as_role's own steps.                    *)

OuterHeld == \A i \in 1 .. Depth - 1 : frames[i].sp \in 1 .. Len(session'.saves)
OtherTypes ==
    /\ session' \in Session /\ committed' \subseteq Marks /\ inTx' \in BOOLEAN
    /\ raised' \in BOOLEAN /\ cancelled' \in 0 .. Live
    /\ currentRole' \in Roles \cup {NoValue}
    /\ loginRole' \in Roles \cup {Login, NoValue}
    /\ ran' \in [role : Roles \cup {Login}, claims : ClaimsValue,
                 covered : Roles \cup {Login, NoValue}]
    /\ tests' \in Nat

\* as_role goes on to a point that holds a savepoint only if it has one.
LEMMA UpdateKeeps ==
    ASSUME SavepointInv, Depth > 0, OtherTypes, OuterHeld,
           NEW g \in Frame, frames' = [frames EXCEPT ![Depth] = g],
           g.pc \in Holding => /\ g.sp \in 1 .. Len(session'.saves)
                               /\ \A i \in 1 .. Depth - 1 : frames[i].sp < g.sp
    PROVE  SavepointInv'
  <1>1. frames \in Seq(Frame) /\ frames # <<>>
    BY DEF SavepointInv, TypeOK, Depth
  <1>2. /\ Depth \in Nat \ {0} /\ frames' \in Seq(Frame) /\ Depth' = Depth
        /\ frames'[Depth] = g /\ \A i \in 1 .. Depth - 1 : frames'[i] = frames[i]
    BY <1>1, FrameUpdate DEF Depth
  <1>3. TypeOK'
    BY <1>2 DEF TypeOK, OtherTypes, Live
  <1>4. OuterInBody'
    BY <1>2 DEF SavepointInv, OuterInBody
  <1>5. SavepointsHeld'
    BY <1>2 DEF SavepointsHeld, OuterHeld
  <1>6. SavepointsNest'
    BY <1>2 DEF SavepointInv, SavepointsNest
  <1> QED BY <1>3, <1>4, <1>5, <1>6 DEF SavepointInv

\* as_role returns, with the savepoints of the enclosing calls untouched.
LEMMA PopKeeps ==
    ASSUME SavepointInv, Depth > 0, OtherTypes, OuterHeld,
           frames' = SubSeq(frames, 1, Depth - 1)
    PROVE  SavepointInv'
  <1>1. frames \in Seq(Frame) /\ frames # <<>>
    BY DEF SavepointInv, TypeOK, Depth
  <1>2. /\ Depth \in Nat \ {0} /\ frames' \in Seq(Frame) /\ Depth' = Depth - 1
        /\ \A i \in 1 .. Depth - 1 : frames'[i] = frames[i]
    BY <1>1, FramePop DEF Depth
  <1>3. TypeOK'
    BY <1>2 DEF TypeOK, OtherTypes, Live
  <1>4. OuterInBody'
    BY <1>2 DEF SavepointInv, OuterInBody
  <1>5. SavepointsHeld'
    BY <1>2 DEF SavepointsHeld, OuterHeld
  <1>6. SavepointsNest'
    BY <1>2 DEF SavepointInv, SavepointsNest
  <1> QED BY <1>3, <1>4, <1>5, <1>6 DEF SavepointInv

\* The innermost call, and what is held below it.
LEMMA TopFacts ==
    ASSUME SavepointInv, Depth > 0
    PROVE  /\ Depth \in Nat \ {0} /\ Top \in Frame /\ Depth \in 1 .. Depth
           /\ Len(session.saves) \in Nat
           /\ \A i \in 1 .. Depth - 1 : frames[i].sp \in 1 .. Len(session.saves)
           /\ (Top.pc \in Holding =>
                 /\ Top.sp \in 1 .. Len(session.saves)
                 /\ \A i \in 1 .. Depth - 1 : frames[i].sp < Top.sp)
  <1>1. frames \in Seq(Frame) /\ Depth \in Nat \ {0} /\ session.saves \in Seq(Snapshot)
    BY DEF SavepointInv, TypeOK, Depth, Session
  <1>2. Depth \in 1 .. Depth /\ \A i \in 1 .. Depth - 1 : i \in 1 .. Depth /\ i < Depth
    BY <1>1
  <1>3. \A i \in 1 .. Depth - 1 : frames[i].pc \in Holding
    BY DEF SavepointInv, OuterInBody, Holding
  <1>4. Top \in Frame
    BY <1>1, <1>2 DEF Top, Depth
  <1>5. \A i \in 1 .. Depth - 1 : frames[i].sp \in 1 .. Len(session.saves)
    BY <1>2, <1>3 DEF SavepointInv, SavepointsHeld
  <1>6. ASSUME Top.pc \in Holding
        PROVE  /\ Top.sp \in 1 .. Len(session.saves)
               /\ \A i \in 1 .. Depth - 1 : frames[i].sp < Top.sp
    BY <1>2, <1>6 DEF SavepointInv, SavepointsHeld, SavepointsNest, Top
  <1> QED BY <1>1, <1>2, <1>4, <1>5, <1>6

\* A new call holds no savepoint yet.
LEMMA PushKeeps ==
    ASSUME SavepointInv, NEW r \in Roles, NEW c \in Json \cup {NoValue}, CallAsRole(r, c)
    PROVE  SavepointInv'
  <1> DEFINE g == [role |-> r, claims |-> c, captured |-> NoValue, prevUser |-> Login,
                   prevClaims |-> NoValue, outerRole |-> currentRole, sp |-> 0,
                   pc |-> "capture"]
  <1>1. g \in Frame /\ g.pc = "capture"
    BY DEF SavepointInv, TypeOK, Frame, ClaimsValue
  <1>2. frames \in Seq(Frame) /\ frames' = Append(frames, g)
    BY DEF CallAsRole, SavepointInv, TypeOK
  <1> HIDE DEF g
  <1>3. /\ Depth \in Nat /\ frames' \in Seq(Frame) /\ Depth' = Depth + 1
        /\ frames'[Depth + 1] = g /\ \A i \in 1 .. Depth : frames'[i] = frames[i]
    BY <1>1, <1>2, FramePush DEF Depth
  <1>4. TypeOK'
    BY <1>3 DEF CallAsRole, SavepointInv, TypeOK, Live
  <1>5. OuterInBody'
    <2>1. \A i \in 1 .. Depth : frames[i].pc = "body"
      BY <1>3 DEF CallAsRole, InBody, AtBody, Top, SavepointInv, OuterInBody
    <2> QED BY <1>3, <2>1 DEF OuterInBody
  <1>6. \A i \in 1 .. Depth' : frames'[i].pc \in Holding =>
            i \in 1 .. Depth /\ frames'[i] = frames[i]
    BY <1>1, <1>3 DEF Holding
  <1>7. SavepointsHeld'
    BY <1>6 DEF CallAsRole, SavepointInv, SavepointsHeld
  <1>8. SavepointsNest'
    <2> SUFFICES ASSUME NEW i \in 1 .. Depth', NEW j \in 1 .. Depth', i < j,
                        frames'[j].pc \in Holding
                 PROVE  frames'[i].sp < frames'[j].sp
      BY DEF SavepointsNest
    <2>1. j \in 1 .. Depth /\ frames'[j] = frames[j]
      BY <1>6
    <2>2. i \in 1 .. Depth /\ frames'[i] = frames[i]
      BY <1>3, <2>1
    <2> QED BY <2>1, <2>2 DEF SavepointInv, SavepointsNest
  <1> QED BY <1>4, <1>5, <1>7, <1>8 DEF SavepointInv

\* One step of as_role's own code.
LEMMA AsRoleKeepsSavepointInv ==
    ASSUME SavepointInv, AsRole
    PROVE  SavepointInv'
  <1> DEFINE At(pc) == Depth > 0 /\ Top.pc = pc
  <1>1. TypeOK /\ session \in Session /\ Depth > 0
    BY DEF SavepointInv, TypeOK, AsRole, CaptureActor, OpenSavepoint, SwitchRole,
           InstallClaims, ReleaseSavepoint, RestoreRole, RestoreClaims, RollbackToSavepoint
  <1>2. /\ Depth \in Nat \ {0} /\ Top \in Frame /\ Len(session.saves) \in Nat
        /\ \A i \in 1 .. Depth - 1 : frames[i].sp \in 1 .. Len(session.saves)
        /\ (Top.pc \in Holding =>
              /\ Top.sp \in 1 .. Len(session.saves)
              /\ \A i \in 1 .. Depth - 1 : frames[i].sp < Top.sp)
    BY <1>1, TopFacts
  \* The variables no step of as_role writes, and the ones every step may.
  <1>3. /\ committed' \subseteq Marks /\ inTx' \in BOOLEAN
        /\ loginRole' \in Roles \cup {Login, NoValue}
        /\ ran' \in [role : Roles \cup {Login}, claims : ClaimsValue,
                     covered : Roles \cup {Login, NoValue}]
        /\ tests' \in Nat
    BY <1>1 DEF TypeOK, AsRole, CaptureActor, OpenSavepoint, SwitchRole, InstallClaims,
           ReleaseSavepoint, RestoreRole, RestoreClaims, RollbackToSavepoint, Elsewhere
  <1>4. ASSUME NEW pc, Goto(pc), pc \in {"setclaims", "body", "restorerole",
                     "restoreclaims", "undo"},
               raised' \in BOOLEAN, currentRole' \in Roles \cup {NoValue},
               session' \in Session, OuterHeld,
               pc \in Holding => Top.pc \in Holding /\ Top.sp \in 1 .. Len(session'.saves)
        PROVE  SavepointInv'
    <2>1. [Top EXCEPT !.pc = pc] \in Frame
      BY <1>2, <1>4 DEF Frame
    <2>2. frames' = [frames EXCEPT ![Depth] = [Top EXCEPT !.pc = pc]]
      BY <1>4 DEF Goto, Top
    <2>3. [Top EXCEPT !.pc = pc].sp = Top.sp /\ [Top EXCEPT !.pc = pc].pc = pc
      BY <1>2 DEF Frame
    <2>4. cancelled' \in 0 .. Live
      BY <1>1, <1>4 DEF Goto, TypeOK
    <2>5. OtherTypes
      BY <1>3, <1>4, <2>4 DEF OtherTypes
    <2> HIDE DEF OuterHeld
    <2> QED BY <1>1, <1>2, <1>4, <2>1, <2>2, <2>3, <2>5, UpdateKeeps
  <1>5. ASSUME Pop, raised' \in BOOLEAN, currentRole' \in Roles \cup {NoValue},
               session' \in Session, OuterHeld
        PROVE  SavepointInv'
    <2>1. cancelled' \in 0 .. Live
      BY <1>1, <1>5, ClientAssumption DEF Pop, TypeOK, Live, ClientAssumption
    <2>2. OtherTypes
      BY <1>3, <1>5, <2>1 DEF OtherTypes
    <2> QED BY <1>1, <1>5, <2>2, PopKeeps DEF Pop
  <1>6. (UNCHANGED session \/ Keeps(session, session')) => OuterHeld /\ session' \in Session
    <2>1. Keeps(session, session)
      BY <1>1, KeepsBasics
    <2>2. CASE UNCHANGED session
      BY <1>1, <1>2, <2>2 DEF OuterHeld
    <2>3. CASE Keeps(session, session')
      <3>1. Len(session'.saves) \in Nat
        BY <2>3 DEF Keeps, Session
      <3> QED BY <1>2, <2>3, <3>1 DEF OuterHeld, Keeps
    <2> QED BY <2>2, <2>3
  <1>7. ASSUME Raises, UNCHANGED session
        PROVE  SavepointInv'
    BY <1>1, <1>5, <1>6, <1>7 DEF Raises, TypeOK
  <1>8. ASSUME Leaves, session' \in Session, OuterHeld
        PROVE  SavepointInv'
    <2>1. currentRole' \in Roles \cup {NoValue} /\ raised' \in BOOLEAN
      BY <1>1, <1>2, <1>8 DEF Leaves, Tracked, TypeOK, Frame
    <2> QED BY <1>5, <1>8, <2>1 DEF Leaves
  <1>9. ASSUME EntryFails \/ RefusedLocally, Top.pc \in Holding
        PROVE  SavepointInv'
    <2>1. Keeps(session, session')
      BY <1>1, <1>9, StartedKeeps, KeepsBasics DEF EntryFails, RefusedLocally
    <2>2. OuterHeld /\ session' \in Session
      BY <1>6, <2>1
    <2>3. Top.sp \in 1 .. Len(session'.saves)
      <3>1. Len(session'.saves) \in Nat
        BY <2>1 DEF Keeps, Session
      <3> QED BY <1>2, <1>9, <2>1, <3>1 DEF Keeps
    <2>4. Goto("undo") /\ raised' \in BOOLEAN /\ currentRole' \in Roles \cup {NoValue}
      BY <1>1, <1>9 DEF EntryFails, RefusedLocally, TypeOK
    <2> QED BY <1>4, <1>9, <2>2, <2>3, <2>4
  <1>10. CASE CaptureActor
    <2>1. CASE /\ Runs /\ session' = Started
               /\ frames' = [frames EXCEPT ![Depth].prevUser = session.role,
                                      ![Depth].captured = CurrentClaims(session),
                                      ![Depth].prevClaims = PrevClaims(session),
                                      ![Depth].pc = "savepoint"]
               /\ UNCHANGED <<raised, cancelled, currentRole>>
      <3> DEFINE g == [Top EXCEPT !.prevUser = session.role,
                                  !.captured = CurrentClaims(session),
                                  !.prevClaims = PrevClaims(session),
                                  !.pc = "savepoint"]
      <3>1. session.role \in Roles \cup {Login} /\ CurrentClaims(session) \in ClaimsValue
            /\ PrevClaims(session) \in ClaimsValue
        BY <1>1, SessionOps DEF Session, PrevClaims, ClaimsValue
      <3>2. g \in Frame /\ g.pc = "savepoint"
        BY <1>2, <3>1 DEF Frame
      <3>3. frames' = [frames EXCEPT ![Depth] = g]
        BY <2>1 DEF Top
      <3>4. OuterHeld /\ OtherTypes
        BY <1>1, <1>3, <1>6, <2>1, StartedKeeps DEF OtherTypes, TypeOK, Live
      <3> HIDE DEF g
      <3> QED BY <1>1, <3>2, <3>3, <3>4, UpdateKeeps DEF Holding
    <2> QED BY <1>7, <1>10, <2>1 DEF CaptureActor
  <1>11. CASE OpenSavepoint
    <2>1. CASE /\ Runs /\ session.tx = "open" /\ session' = Savepoint(session)
               /\ frames' = [frames EXCEPT ![Depth].sp = Len(session.saves) + 1,
                                           ![Depth].pc = "setrole"]
               /\ UNCHANGED <<raised, cancelled, currentRole>>
      <3> DEFINE g == [Top EXCEPT !.sp = Len(session.saves) + 1, !.pc = "setrole"]
      <3>1. g \in Frame /\ g.sp = Len(session.saves) + 1
        <4>1. Len(session.saves) + 1 \in Nat
          BY <1>2
        <4> QED BY <1>2, <4>1 DEF Frame
      <3>2. frames' = [frames EXCEPT ![Depth] = g]
        BY <2>1 DEF Top
      <3>3. session' \in Session /\ Len(session'.saves) = Len(session.saves) + 1
        BY <1>1, <2>1, SavepointOp
      <3>4. OuterHeld /\ OtherTypes
        BY <1>1, <1>2, <1>3, <2>1, <3>3 DEF OuterHeld, OtherTypes, TypeOK, Live
      <3>5. g.sp \in 1 .. Len(session'.saves) /\ \A i \in 1 .. Depth - 1 : frames[i].sp < g.sp
        BY <1>2, <3>1, <3>3
      <3> HIDE DEF g
      <3> QED BY <1>1, <3>1, <3>2, <3>4, <3>5, UpdateKeeps
    <2> QED BY <1>7, <1>11, <2>1 DEF OpenSavepoint
  <1>12. CASE SwitchRole
    <2>1. Top.pc \in Holding /\ Top.role \in Roles
      BY <1>2, <1>12 DEF SwitchRole, Holding, Frame
    <2>2. CASE Runs /\ session' = SetLocalRole(session, Top.role)
               /\ (Enter \/ (Goto("setclaims") /\ UNCHANGED <<raised, currentRole>>))
      <3>1. session' \in Session /\ session'.saves = session.saves
        BY <1>1, <2>1, <2>2, SessionOps DEF SetLocalRole, Session
      <3>2. OuterHeld /\ Top.sp \in 1 .. Len(session'.saves)
        BY <1>2, <2>1, <3>1 DEF OuterHeld
      <3>3. raised' \in BOOLEAN /\ currentRole' \in Roles \cup {NoValue}
            /\ (Goto("body") \/ Goto("setclaims"))
        BY <1>1, <2>1, <2>2 DEF Enter, Tracked, TypeOK
      <3> QED BY <1>4, <2>1, <3>1, <3>2, <3>3
    <2> QED BY <1>9, <1>12, <2>1, <2>2 DEF SwitchRole
  <1>13. CASE InstallClaims
    <2>1. Top.pc \in Holding /\ Top.role \in Roles /\ Top.claims \in ClaimsValue
      BY <1>2, <1>13 DEF InstallClaims, Holding, Frame, ClaimsValue
    <2>2. CASE Runs /\ session' = SetConfig(session, Top.claims) /\ Enter
      <3>1. session' \in Session /\ session'.saves = session.saves
        <4>1. session' \in Session
          BY <1>1, <2>1, <2>2, SessionOps
        <4> QED BY <1>1, <2>2, <4>1 DEF SetConfig, Session
      <3>2. OuterHeld /\ Top.sp \in 1 .. Len(session'.saves)
        BY <1>2, <2>1, <3>1 DEF OuterHeld
      <3>3. raised' \in BOOLEAN /\ currentRole' \in Roles \cup {NoValue} /\ Goto("body")
        BY <1>1, <2>1, <2>2 DEF Enter, Tracked, TypeOK
      <3> QED BY <1>4, <2>1, <3>1, <3>2, <3>3
    <2> QED BY <1>9, <1>13, <2>1, <2>2 DEF InstallClaims
  <1>14. CASE ReleaseSavepoint
    <2>1. CASE Runs /\ session' = Release(session, Top.sp) /\ Goto("restorerole")
               /\ UNCHANGED <<raised, currentRole>>
      <3>1. Top.sp \in 1 .. Len(session.saves)
            /\ \A i \in 1 .. Depth - 1 : frames[i].sp < Top.sp
        BY <1>2, <1>14 DEF ReleaseSavepoint, Holding
      <3>2. session' \in Session /\ Len(session'.saves) = Top.sp - 1
        BY <1>1, <2>1, <3>1, ReleaseOp
      <3>3. OuterHeld
        BY <1>2, <3>1, <3>2 DEF OuterHeld
      <3> QED BY <1>1, <1>4, <2>1, <3>2, <3>3 DEF TypeOK, Holding
    <2> QED BY <1>7, <1>14, <2>1 DEF ReleaseSavepoint
  <1>15. CASE RestoreRole
    <2>1. CASE Runs /\ session' = SetLocalRole(session, Top.prevUser)
      <3>1. session' \in Session /\ session'.saves = session.saves
        <4>1. Top.prevUser \in Roles \cup {Login}
          BY <1>2 DEF Frame
        <4>2. session' \in Session
          BY <1>1, <2>1, <4>1, SessionOps
        <4> QED BY <1>1, <2>1, <4>2 DEF SetLocalRole, Session
      <3>2. OuterHeld
        BY <1>2, <3>1 DEF OuterHeld
      <3>3. CASE Goto("restoreclaims") /\ UNCHANGED <<raised, currentRole>>
        BY <1>1, <1>4, <3>1, <3>2, <3>3 DEF TypeOK, Holding
      <3> QED BY <1>8, <1>15, <2>1, <3>1, <3>2, <3>3 DEF RestoreRole, Runs
    <2> QED BY <1>7, <1>15, <2>1 DEF RestoreRole
  <1>16. CASE RestoreClaims
    <2>1. CASE Runs /\ session' = SetConfig(session, Top.prevClaims) /\ Leaves
      <3>1. session' \in Session /\ session'.saves = session.saves
        <4>1. Top.prevClaims \in ClaimsValue
          BY <1>2, <1>16 DEF Frame, RestoreClaims
        <4>2. session' \in Session
          BY <1>1, <2>1, <4>1, SessionOps
        <4> QED BY <1>1, <2>1, <4>2 DEF SetConfig, Session
      <3>2. OuterHeld
        BY <1>2, <3>1 DEF OuterHeld
      <3> QED BY <1>8, <2>1, <3>1, <3>2
    <2> QED BY <1>7, <1>16, <2>1 DEF RestoreClaims
  <1>17. CASE RollbackToSavepoint
    <2>1. CASE Sent /\ session' = RollbackTo(session, Top.sp) /\ Leaves
      <3>1. Top.sp \in 1 .. Len(session.saves)
            /\ \A i \in 1 .. Depth - 1 : frames[i].sp < Top.sp
        BY <1>2, <1>17 DEF RollbackToSavepoint, Holding
      <3>2. session' \in Session /\ Len(session'.saves) = Top.sp
        BY <1>1, <2>1, <3>1, RollbackToOp
      <3>3. OuterHeld
        BY <1>2, <3>1, <3>2 DEF OuterHeld
      <3> QED BY <1>8, <2>1, <3>2, <3>3
    <2> QED BY <1>7, <1>17, <2>1 DEF RollbackToSavepoint
  <1> QED BY <1>10, <1>11, <1>12, <1>13, <1>14, <1>15, <1>16, <1>17 DEF AsRole

\* transaction(), the connection and contexts keep the discipline: they run
\* outside every block, or leave frames and savepoints alone.
LEMMA WorldKeepsSavepointInv ==
    ASSUME SavepointInv, World
    PROVE  SavepointInv'
  <1>1. TypeOK /\ session \in Session
    BY DEF SavepointInv, TypeOK
  <1>2. ASSUME UNCHANGED frames, OtherTypes, Depth = 0
        PROVE  SavepointInv'
    <2>1. TypeOK'
      BY <1>1, <1>2 DEF TypeOK, OtherTypes, Live
    <2>2. OuterInBody' /\ SavepointsHeld' /\ SavepointsNest'
      BY <1>2 DEF OuterInBody, SavepointsHeld, SavepointsNest, Depth
    <2> QED BY <2>1, <2>2 DEF SavepointInv
  <1>3. CASE BeginTransaction
    <2>1. session' \in Session
      BY <1>1, <1>3, SessionOps DEF BeginTransaction
    <2>2. tests' \in Nat
      <3>1. tests \in Nat /\ tests' = tests + 1
        BY <1>1, <1>3 DEF BeginTransaction, TypeOK
      <3> QED BY <3>1
    <2>3. inTx' \in BOOLEAN /\ raised' \in BOOLEAN
      <3>1. /\ inTx \in BOOLEAN /\ raised \in BOOLEAN
            /\ inTx' \in {TRUE, inTx} /\ raised' \in {TRUE, raised}
        BY <1>1, <1>3, Zenon DEF BeginTransaction, TypeOK
      <3> QED BY <3>1
    <2>4. OtherTypes
      BY <1>1, <1>3, <2>1, <2>2, <2>3 DEF BeginTransaction, OtherTypes, TypeOK, Live
    <2> QED BY <1>2, <1>3, <2>4 DEF BeginTransaction
  <1>4. CASE EndTransaction
    <2>1. session' \in Session
      BY <1>1, <1>4, SessionOps DEF EndTransaction
    <2>2. Live \in 0 .. Live
      BY ClientAssumption DEF ClientAssumption, Live
    <2> QED BY <1>1, <1>2, <1>4, <2>1, <2>2 DEF EndTransaction, OtherTypes, TypeOK, Live
  <1>5. CASE CloseConnection
    <2>1. session' \in Session /\ session.dirty \subseteq Marks
      BY <1>1, <1>5, SessionOps DEF CloseConnection, Session
    <2> QED BY <1>1, <1>2, <1>5, <2>1 DEF CloseConnection, OtherTypes, TypeOK, Live
  <1>6. CASE Disconnect
    <2>1. Keeps(session, session')
      BY <1>1, <1>6, KeepsBasics DEF Disconnect
    <2>2. BodyTypes
      BY <1>1, <1>6 DEF Disconnect, BodyTypes, TypeOK
    <2> QED BY <2>1, <2>2, BodyKeepsSavepointInv
  <1>7. ASSUME NEW level \in 0 .. MaxDepth, CancelContext(level)
        PROVE  SavepointInv'
    <2>1. level \in 0 .. Live
      BY ClientAssumption DEF ClientAssumption, Live
    <2>2. TypeOK'
      BY <1>1, <1>7, <2>1 DEF CancelContext, TypeOK, Live
    <2>3. OuterInBody' /\ SavepointsHeld' /\ SavepointsNest'
      BY <1>7 DEF CancelContext, SavepointInv, OuterInBody, SavepointsHeld,
                  SavepointsNest, Depth
    <2> QED BY <2>2, <2>3 DEF SavepointInv
  <1> QED BY <1>3, <1>4, <1>5, <1>6, <1>7 DEF World

\* Everything a test body may do.
LEMMA BodyKeepsSavepoints ==
    ASSUME SavepointInv, Body
    PROVE  SavepointInv'
  <1>1. TypeOK /\ session \in Session
    BY DEF SavepointInv, TypeOK
  <1>2. CASE Statement
    BY <1>1, <1>2, StatementKeeps, BodyKeepsSavepointInv
  <1>3. ASSUME NEW j \in Json, ExecSetsClaims(j)
        PROVE  SavepointInv'
    <2>1. j \in ClaimsValue
      BY DEF ClaimsValue
    <2>2. Keeps(session, session')
      BY <1>1, <1>3, <2>1, StartedKeeps, KeepsBasics, SessionOps, KeepsTrans
         DEF ExecSetsClaims
    <2>3. BodyTypes
      BY <1>1, <1>3, RanTypes DEF ExecSetsClaims, BodyTypes, TypeOK, Control
    <2> QED BY <2>2, <2>3, BodyKeepsSavepointInv
  <1>4. CASE BodyEnds
    <2> DEFINE pc == IF raised THEN "rollbackto" ELSE "release"
               g == [Top EXCEPT !.pc = pc]
    <2>1. Depth > 0 /\ Top.pc \in Holding
      BY <1>4 DEF BodyEnds, Holding
    <2>2. /\ Top \in Frame /\ Top.sp \in 1 .. Len(session.saves)
          /\ \A i \in 1 .. Depth - 1 : frames[i].sp \in 1 .. Len(session.saves)
          /\ \A i \in 1 .. Depth - 1 : frames[i].sp < Top.sp
      BY <2>1, TopFacts
    <2>3. g \in Frame /\ g.sp = Top.sp
      BY <2>2 DEF Frame
    <2>4. frames' = [frames EXCEPT ![Depth] = g]
      BY <1>4 DEF BodyEnds, Top
    <2>5. OuterHeld /\ OtherTypes
      BY <1>1, <1>4, <2>2 DEF BodyEnds, OuterHeld, OtherTypes, TypeOK, Live
    <2>6. Top.sp \in 1 .. Len(session'.saves)
      BY <1>4, <2>2 DEF BodyEnds
    <2> HIDE DEF g
    <2> QED BY <2>1, <2>2, <2>3, <2>4, <2>5, <2>6, UpdateKeeps
  <1>5. ASSUME NEW r \in Roles, NEW c \in Json \cup {NoValue}, CallAsRole(r, c)
        PROVE  SavepointInv'
    BY <1>5, PushKeeps
  <1> QED BY <1>2, <1>3, <1>4, <1>5 DEF Body, Statement

\* A new client holds no savepoint.
LEMMA InitSavepointInv == Init => SavepointInv
  <1> SUFFICES ASSUME Init PROVE SavepointInv
    OBVIOUS
  <1>1. Connected \in Session
    BY SessionOps DEF Connected, Session, ClaimsValue, Marks
  <1>2. Depth = 0 /\ frames \in Seq(Frame)
    BY DEF Init, Depth
  <1>3. cancelled \in 0 .. Live
    BY ClientAssumption DEF Init, Live, ClientAssumption
  <1>4. ran \in [role : Roles \cup {Login}, claims : ClaimsValue,
                covered : Roles \cup {Login, NoValue}]
    BY DEF Init, ClaimsValue
  <1>5. session \in Session
    BY <1>1 DEF Init
  <1>6. TypeOK
    BY <1>2, <1>3, <1>4, <1>5 DEF Init, TypeOK
  <1> QED BY <1>2, <1>6 DEF SavepointInv, OuterInBody, SavepointsHeld, SavepointsNest

\* In every language, whatever contexts are cancelled and whatever a test body
\* does, the savepoint that ROLLBACK TO or RELEASE of an active block names
\* exists, and the blocks hold theirs in nesting order.
THEOREM SavepointDiscipline == Spec => []SavepointInv
  <1>1. SavepointInv /\ [Next]_vars => SavepointInv'
    <2> SUFFICES ASSUME SavepointInv, [Next]_vars PROVE SavepointInv'
      OBVIOUS
    <2>1. CASE Body
      BY <2>1, BodyKeepsSavepoints
    <2>2. CASE AsRole
      BY <2>2, AsRoleKeepsSavepointInv
    <2>3. CASE World
      BY <2>3, WorldKeepsSavepointInv
    <2>4. CASE UNCHANGED vars
      BY <2>4 DEF vars, SavepointInv, TypeOK, OuterInBody, SavepointsHeld,
                  SavepointsNest, Depth, Live
    <2> QED BY <2>1, <2>2, <2>3, <2>4 DEF Next
  <1> QED BY <1>1, InitSavepointInv, PTL DEF Spec

\* ... and every variable has its type.
THEOREM TypeCorrect == Spec => []TypeOK
  <1>1. SavepointInv => TypeOK
    BY DEF SavepointInv
  <1> QED BY <1>1, SavepointDiscipline, PTL
-------------------------------------------------------------------------------
(* The actors.                                                             *)

\* Empty and NULL are no claims; installed claims are what they are.
LEMMA ClaimlessFacts ==
    /\ Claimless(NoValue) = NoValue /\ Claimless(Empty) = NoValue
    /\ \A j \in Json : Claimless(j) = j /\ j # NoValue /\ j # Empty
    /\ \A v \in ClaimsValue : Claimless(Claimless(v)) = Claimless(v)
  BY SessionAssumption DEF SessionAssumption, Claimless, ClaimsValue

\* Reading or writing the GUC does not tell NULL from the empty string, to us.
LEMMA ClaimsRoundTrip ==
    ASSUME NEW s \in Session
    PROVE  /\ Claimless(CurrentClaims(s)) = Claimless(s.claims)
           /\ Claimless(PrevClaims(s)) = Claimless(s.claims)
           /\ \A v \in ClaimsValue : Claimless(SetConfig(s, v).claims) = Claimless(v)
  <1>1. Claimless(CurrentClaims(s)) = Claimless(s.claims)
    BY ClaimlessFacts DEF CurrentClaims
  <1>2. Claimless(PrevClaims(s)) = Claimless(s.claims)
    BY <1>1, ClaimlessFacts DEF PrevClaims
  <1>3. \A v \in ClaimsValue : SetConfig(s, v).claims = IF v = NoValue THEN Empty ELSE v
    BY DEF SetConfig, Session
  <1> QED BY <1>1, <1>2, <1>3, ClaimlessFacts

\* A step that leaves the calls alone, keeps the savepoints and does not touch
\* the actor of a usable session keeps the invariant.
LEMMA StutterKeepsActors ==
    ASSUME ActorInv, SavepointInv', UNCHANGED <<frames, cancelled>>,
           Keeps(session, session'), KeepsActor(session, session')
    PROVE  ActorInv'
  <1>1. NoCancellation' /\ ClaimsToInstall' /\ CapturedOuter'
    BY DEF ActorInv, NoCancellation, ClaimsToInstall, CapturedOuter, Live, Depth, Top,
           BlockRole, BlockClaims
  <1>2. SavepointsOuter'
    <2> SUFFICES ASSUME NEW i \in 1 .. Depth, frames[i].pc \in Holding
                 PROVE  /\ session'.saves[frames[i].sp].role = BlockRole(i - 1)
                        /\ Claimless(session'.saves[frames[i].sp].claims) = BlockClaims(i - 1)
      BY DEF SavepointsOuter, Depth, BlockRole, BlockClaims
    <2>1. session'.saves[frames[i].sp] = session.saves[frames[i].sp]
      BY DEF ActorInv, SavepointInv, SavepointsHeld, Keeps
    <2> QED BY <2>1 DEF ActorInv, SavepointsOuter
  <1>3. Usable(session') => /\ Usable(session) /\ session'.role = session.role
                            /\ session'.claims = session.claims
    BY DEF KeepsActor
  <1>4. SessionRole' /\ SessionClaims'
    BY <1>3 DEF ActorInv, SessionRole, SessionClaims, Usable, Depth, Top, BlockRole,
                BlockClaims
  <1> QED BY <1>1, <1>2, <1>4 DEF ActorInv

\* The innermost call, its enclosing actor and what it holds.
LEMMA TopActor ==
    ASSUME ActorInv, Depth > 0
    PROVE  /\ Depth \in Nat \ {0} /\ Top \in Frame /\ session \in Session
           /\ BlockRole(Depth) = Top.role
           /\ BlockClaims(Depth) = IF Top.claims # NoValue THEN Top.claims
                                   ELSE Claimless(Top.prevClaims)
           /\ (Top.pc # "capture" =>
                 /\ Top.prevUser = BlockRole(Depth - 1)
                 /\ Claimless(Top.prevClaims) = BlockClaims(Depth - 1))
           /\ (Top.pc \in Holding =>
                 /\ Top.sp \in 1 .. Len(session.saves)
                 /\ session.saves[Top.sp].role = BlockRole(Depth - 1)
                 /\ Claimless(session.saves[Top.sp].claims) = BlockClaims(Depth - 1))
           /\ \A i \in 1 .. Depth - 1 :
                 /\ frames[i].sp \in 1 .. Len(session.saves)
                 /\ session.saves[frames[i].sp].role = BlockRole(i - 1)
                 /\ Claimless(session.saves[frames[i].sp].claims) = BlockClaims(i - 1)
                 /\ frames[i].prevUser = BlockRole(i - 1)
                 /\ Claimless(frames[i].prevClaims) = BlockClaims(i - 1)
  <1>1. SavepointInv /\ TypeOK /\ session \in Session
    BY DEF ActorInv, SavepointInv, TypeOK
  <1>2. /\ Depth \in Nat \ {0} /\ Top \in Frame /\ Depth \in 1 .. Depth
        /\ \A i \in 1 .. Depth - 1 : frames[i].sp \in 1 .. Len(session.saves)
        /\ (Top.pc \in Holding => Top.sp \in 1 .. Len(session.saves))
    BY <1>1, TopFacts
  <1>3. \A i \in 1 .. Depth - 1 : i \in 1 .. Depth /\ frames[i].pc = "body"
    BY <1>1, <1>2 DEF SavepointInv, OuterInBody
  <1>4. BlockRole(Depth) = Top.role
        /\ BlockClaims(Depth) = IF Top.claims # NoValue THEN Top.claims
                                ELSE Claimless(Top.prevClaims)
    BY <1>2 DEF BlockRole, BlockClaims, Top
  <1>5. /\ (Top.pc # "capture" =>
              /\ Top.prevUser = BlockRole(Depth - 1)
              /\ Claimless(Top.prevClaims) = BlockClaims(Depth - 1))
        /\ (Top.pc \in Holding =>
              /\ session.saves[Top.sp].role = BlockRole(Depth - 1)
              /\ Claimless(session.saves[Top.sp].claims) = BlockClaims(Depth - 1))
    BY <1>2 DEF ActorInv, CapturedOuter, SavepointsOuter, Top
  <1>6. \A i \in 1 .. Depth - 1 :
              /\ session.saves[frames[i].sp].role = BlockRole(i - 1)
              /\ Claimless(session.saves[frames[i].sp].claims) = BlockClaims(i - 1)
              /\ frames[i].prevUser = BlockRole(i - 1)
              /\ Claimless(frames[i].prevClaims) = BlockClaims(i - 1)
    BY <1>3 DEF ActorInv, CapturedOuter, SavepointsOuter, Holding
  <1> QED BY <1>1, <1>2, <1>4, <1>5, <1>6

\* The outer calls' savepoints are still the ones they were.
OuterSaves == \A i \in 1 .. Depth - 1 :
                  session'.saves[frames[i].sp] = session.saves[frames[i].sp]

\* The innermost call moves on.
LEMMA UpdateActors ==
    ASSUME ActorInv, SavepointInv', Depth > 0, cancelled' = cancelled, OuterSaves,
           NEW g \in Frame, frames' = [frames EXCEPT ![Depth] = g],
           g.pc = "setclaims" => g.claims # NoValue,
           g.pc # "capture" => /\ g.prevUser = BlockRole(Depth - 1)
                               /\ Claimless(g.prevClaims) = BlockClaims(Depth - 1),
           g.pc \in Holding => 
               /\ session'.saves[g.sp].role = BlockRole(Depth - 1)
               /\ Claimless(session'.saves[g.sp].claims) = BlockClaims(Depth - 1),
           Usable(session') /\ g.pc # "undo" =>
               /\ session'.role = IF g.pc \in HasRole THEN g.role ELSE BlockRole(Depth - 1)
               /\ Claimless(session'.claims) =
                      IF g.pc \in HasClaims /\ g.claims # NoValue THEN g.claims
                      ELSE BlockClaims(Depth - 1)
    PROVE  ActorInv'
  <1>1. frames \in Seq(Frame) /\ frames # <<>>
    BY DEF ActorInv, SavepointInv, TypeOK, Depth
  <1>2. /\ Depth \in Nat \ {0} /\ Depth' = Depth /\ Top' = g
        /\ frames'[Depth] = g /\ \A i \in 1 .. Depth - 1 : frames'[i] = frames[i]
    BY <1>1, FrameUpdate DEF Depth, Top
  <1>3. \A i \in 1 .. Depth : BlockRole(i - 1)' = BlockRole(i - 1)
                              /\ BlockClaims(i - 1)' = BlockClaims(i - 1)
    <2> TAKE i \in 1 .. Depth
    <2>1. i - 1 = 0 \/ i - 1 \in 1 .. Depth - 1
      BY <1>2
    <2> QED BY <1>2, <2>1 DEF BlockRole, BlockClaims
  <1>4. NoCancellation' /\ ClaimsToInstall'
    BY <1>2 DEF ActorInv, NoCancellation, ClaimsToInstall, Live
  <1>5. \A i \in 1 .. Depth - 1 : i \in 1 .. Depth
    BY <1>2
  <1>6. CapturedOuter'
    <2> SUFFICES ASSUME NEW i \in 1 .. Depth, frames'[i].pc # "capture"
                 PROVE  /\ frames'[i].prevUser = BlockRole(i - 1)'
                        /\ Claimless(frames'[i].prevClaims) = BlockClaims(i - 1)'
      BY <1>2 DEF CapturedOuter, Claimless
    <2>1. CASE i = Depth
      BY <1>2, <1>3, <2>1
    <2>2. CASE i \in 1 .. Depth - 1
      BY <1>2, <1>3, <2>2, TopActor
    <2> QED BY <1>2, <2>1, <2>2
  <1>7. SavepointsOuter'
    <2> SUFFICES ASSUME NEW i \in 1 .. Depth, frames'[i].pc \in Holding
                 PROVE  /\ session'.saves[frames'[i].sp].role = BlockRole(i - 1)'
                        /\ Claimless(session'.saves[frames'[i].sp].claims) = BlockClaims(i - 1)'
      BY <1>2 DEF SavepointsOuter, Claimless
    <2>1. CASE i = Depth
      BY <1>2, <1>3, <2>1
    <2>2. CASE i \in 1 .. Depth - 1
      <3>1. frames'[i] = frames[i] /\ session'.saves[frames[i].sp] = session.saves[frames[i].sp]
        BY <1>2, <2>2 DEF OuterSaves
      <3>2. /\ session.saves[frames[i].sp].role = BlockRole(i - 1)
            /\ Claimless(session.saves[frames[i].sp].claims) = BlockClaims(i - 1)
        BY <2>2, TopActor
      <3> QED BY <1>3, <3>1, <3>2
    <2> QED BY <1>2, <2>1, <2>2
  <1>8. SessionRole'
    <2> SUFFICES ASSUME Usable(session'), g.pc # "undo"
                 PROVE  session'.role = IF g.pc \in HasRole THEN g.role
                                        ELSE IF Depth - 1 = 0 THEN Login
                                        ELSE frames'[Depth - 1].role
      BY <1>2 DEF SessionRole, Usable, BlockRole, HasRole
    <2> QED BY <1>2 DEF BlockRole
  <1>9. SessionClaims'
    <2>1. BlockClaims(Depth)' = IF g.claims # NoValue THEN g.claims ELSE Claimless(g.prevClaims)
      BY <1>2 DEF BlockClaims, Claimless
    <2>2. g.pc \in HasClaims => Claimless(g.prevClaims) = BlockClaims(Depth - 1)
      BY DEF HasClaims
    <2>3. BlockClaims(Depth - 1)' = BlockClaims(Depth - 1)
      <3>1. Depth - 1 = 0 \/ Depth - 1 \in 1 .. Depth - 1
        BY <1>2
      <3> QED BY <1>2, <3>1 DEF BlockClaims, Claimless
    <2>4. Claimless(session.claims)' = Claimless(session'.claims)
      BY DEF Claimless
    <2> QED BY <1>2, <2>1, <2>2, <2>3, <2>4 DEF SessionClaims, Usable, HasClaims
  <1> QED BY <1>4, <1>6, <1>7, <1>8, <1>9 DEF ActorInv

\* The innermost call is over: a session that can still run statements has the
\* enclosing actor.
LEMMA PopActors ==
    ASSUME ActorInv, SavepointInv', Depth > 0, Pop, OuterSaves,
           Usable(session') => /\ session'.role = BlockRole(Depth - 1)
                               /\ Claimless(session'.claims) = BlockClaims(Depth - 1)
    PROVE  ActorInv'
  <1>1. frames \in Seq(Frame) /\ frames # <<>>
    BY DEF ActorInv, SavepointInv, TypeOK, Depth
  <1>2. /\ Depth \in Nat \ {0} /\ Depth' = Depth - 1
        /\ \A i \in 1 .. Depth - 1 : frames'[i] = frames[i]
    BY <1>1, FramePop DEF Depth, Pop
  <1>3. \A i \in 1 .. Depth : BlockRole(i - 1)' = BlockRole(i - 1)
                              /\ BlockClaims(i - 1)' = BlockClaims(i - 1)
    <2> TAKE i \in 1 .. Depth
    <2>1. i - 1 = 0 \/ i - 1 \in 1 .. Depth - 1
      BY <1>2
    <2> QED BY <1>2, <2>1 DEF BlockRole, BlockClaims
  <1>4. Depth > 1 => Top' = frames[Depth - 1] /\ Top'.pc = "body"
    <2> SUFFICES ASSUME Depth > 1 PROVE Top' = frames[Depth - 1] /\ Top'.pc = "body"
      OBVIOUS
    <2>1. Depth - 1 \in 1 .. Depth - 1
      BY <1>2
    <2> QED BY <1>2, <2>1 DEF Top, ActorInv, SavepointInv, OuterInBody
  <1>5. NoCancellation'
    <2>1. cancelled' = Live
      BY DEF Pop, ActorInv, NoCancellation
    <2>2. MaxDepth \in Nat
      BY ClientAssumption DEF ClientAssumption
    <2> QED BY <1>2, <2>1, <2>2 DEF ActorInv, NoCancellation, Live
  <1>6. ClaimsToInstall'
    BY <1>2, <1>4 DEF ClaimsToInstall
  <1>7. CapturedOuter'
    <2> SUFFICES ASSUME NEW i \in 1 .. Depth - 1
                 PROVE  /\ frames'[i].prevUser = BlockRole(i - 1)'
                        /\ Claimless(frames'[i].prevClaims) = BlockClaims(i - 1)'
      BY <1>2 DEF CapturedOuter, Claimless
    <2> QED BY <1>2, <1>3, TopActor
  <1>8. SavepointsOuter'
    <2> SUFFICES ASSUME NEW i \in 1 .. Depth - 1
                 PROVE  /\ session'.saves[frames'[i].sp].role = BlockRole(i - 1)'
                        /\ Claimless(session'.saves[frames'[i].sp].claims) = BlockClaims(i - 1)'
      BY <1>2 DEF SavepointsOuter, Claimless
    <2> QED BY <1>2, <1>3, TopActor DEF OuterSaves
  <1>9. SessionRole'
    <2> SUFFICES ASSUME Usable(session')
                 PROVE  session'.role = IF Depth - 1 = 0 THEN Login ELSE Top'.role
      BY <1>2, <1>4 DEF SessionRole, Usable, HasRole
    <2> QED BY <1>2, <1>4 DEF BlockRole
  <1>10. SessionClaims'
    <2>1. BlockClaims(Depth)' = BlockClaims(Depth - 1)
      <3>1. Depth - 1 = 0 \/ Depth - 1 \in 1 .. Depth - 1
        BY <1>2
      <3> QED BY <1>2, <3>1 DEF BlockClaims, Claimless
    <2>2. Depth' = 0 => BlockClaims(Depth)' = NoValue
      BY DEF BlockClaims
    <2>3. Claimless(session.claims)' = Claimless(session'.claims)
      BY DEF Claimless
    <2>4. Depth' # 0 => Top'.pc \in HasClaims
      BY <1>2, <1>4 DEF HasClaims
    <2> QED BY <2>1, <2>2, <2>3, <2>4 DEF SessionClaims, Usable
  <1> QED BY <1>5, <1>6, <1>7, <1>8, <1>9, <1>10 DEF ActorInv
-------------------------------------------------------------------------------
(* Each step of as_role.                                                    *)

\* A statement of as_role moves the session from the enclosing actor to the
\* block's own, or back, as the point it was reached at says.
LEMMA AsRoleKeepsActors ==
    ASSUME ActorInv, SavepointInv', AsRole
    PROVE  ActorInv'
  <1>1. SavepointInv /\ TypeOK /\ session \in Session
    BY DEF ActorInv, SavepointInv, TypeOK
  <1>2. Depth > 0
    BY DEF AsRole, CaptureActor, OpenSavepoint, SwitchRole, InstallClaims,
           ReleaseSavepoint, RestoreRole, RestoreClaims, RollbackToSavepoint
  <1>3. /\ Depth \in Nat \ {0} /\ Top \in Frame
        /\ BlockRole(Depth) = Top.role
        /\ BlockClaims(Depth) = IF Top.claims # NoValue THEN Top.claims
                                ELSE Claimless(Top.prevClaims)
        /\ (Top.pc # "capture" =>
              /\ Top.prevUser = BlockRole(Depth - 1)
              /\ Claimless(Top.prevClaims) = BlockClaims(Depth - 1))
        /\ (Top.pc \in Holding =>
              /\ Top.sp \in 1 .. Len(session.saves)
              /\ session.saves[Top.sp].role = BlockRole(Depth - 1)
              /\ Claimless(session.saves[Top.sp].claims) = BlockClaims(Depth - 1))
        /\ \A i \in 1 .. Depth - 1 : frames[i].sp \in 1 .. Len(session.saves)
    BY <1>2, TopActor
  <1>4. Top.pc \in Holding => \A i \in 1 .. Depth - 1 : frames[i].sp < Top.sp
    BY <1>1, <1>2, TopFacts
  \* What the session has at each point of the call.
  <1>5. Usable(session) /\ Top.pc # "undo" =>
            /\ session.role = IF Top.pc \in HasRole THEN Top.role ELSE BlockRole(Depth - 1)
            /\ Claimless(session.claims) = IF Top.pc \in HasClaims THEN BlockClaims(Depth)
                                           ELSE BlockClaims(Depth - 1)
    BY <1>3 DEF ActorInv, SessionRole, SessionClaims, Usable
  <1>6. cancelled > Depth /\ (~Sent => session.tx = "lost")
        /\ (Runs => Usable(session)) /\ (~Runs => ~Usable(session))
    <2>1. Live > Depth
      BY <1>3, ClientAssumption DEF ClientAssumption, ActorInv, NoCancellation, Live
    <2>2. cancelled > Depth
      BY <2>1 DEF ActorInv, NoCancellation
    <2> QED BY <1>1, <2>2 DEF Sent, Runs, Usable, Session
  <1>7. (UNCHANGED session \/ Keeps(session, session')) => OuterSaves
    BY <1>3 DEF OuterSaves, Keeps
  \* A step that only moves pc.
  <1>8. ASSUME NEW pc, Goto(pc), OuterSaves, Top.pc # "capture",
               pc \in {"setclaims", "body", "restorerole", "restoreclaims", "undo"},
               pc = "setclaims" => Top.claims # NoValue,
               pc \in Holding => /\ Top.pc \in Holding
                                 /\ session'.saves[Top.sp] = session.saves[Top.sp],
               Usable(session') /\ pc # "undo" =>
                   /\ session'.role = IF pc \in HasRole THEN Top.role
                                      ELSE BlockRole(Depth - 1)
                   /\ Claimless(session'.claims) =
                          IF pc \in HasClaims /\ Top.claims # NoValue THEN Top.claims
                          ELSE BlockClaims(Depth - 1)
        PROVE  ActorInv'
    <2> DEFINE g == [Top EXCEPT !.pc = pc]
    <2>1. /\ g \in Frame /\ g.pc = pc /\ g.role = Top.role /\ g.claims = Top.claims
          /\ g.prevUser = Top.prevUser /\ g.prevClaims = Top.prevClaims /\ g.sp = Top.sp
      BY <1>3, <1>8 DEF Frame
    <2>2. frames' = [frames EXCEPT ![Depth] = g] /\ cancelled' = cancelled
      BY <1>8 DEF Goto, Top
    <2> HIDE DEF g
    <2> QED BY <1>2, <1>3, <1>8, <2>1, <2>2, UpdateActors
  \* An error, or a refusal, before the block is entered.
  <1>9. ASSUME EntryFails \/ RefusedLocally, Top.pc \in Holding
        PROVE  ActorInv'
    <2>1. Keeps(session, session')
      BY <1>1, <1>9, StartedKeeps, KeepsBasics DEF EntryFails, RefusedLocally
    <2>2. OuterSaves /\ session'.saves[Top.sp] = session.saves[Top.sp]
      BY <1>3, <1>7, <1>9, <2>1 DEF Keeps
    <2>3. Goto("undo") /\ Top.pc # "capture"
      BY <1>9 DEF EntryFails, RefusedLocally, Holding
    <2> QED BY <1>8, <1>9, <2>2, <2>3
  \* The call is over and nothing was sent, or the server refused.
  <1>10. ASSUME Raises, UNCHANGED session, ~Usable(session)
         PROVE  ActorInv'
    BY <1>2, <1>7, <1>10, PopActors DEF Raises, Usable
  <1>11. CASE CaptureActor
    <2>1. CASE /\ Runs /\ session' = Started
               /\ frames' = [frames EXCEPT ![Depth].prevUser = session.role,
                                      ![Depth].captured = CurrentClaims(session),
                                      ![Depth].prevClaims = PrevClaims(session),
                                      ![Depth].pc = "savepoint"]
               /\ UNCHANGED <<raised, cancelled, currentRole>>
      <3> DEFINE g == [Top EXCEPT !.prevUser = session.role,
                                  !.captured = CurrentClaims(session),
                                  !.prevClaims = PrevClaims(session),
                                  !.pc = "savepoint"]
      <3>1. session.role \in Roles \cup {Login} /\ CurrentClaims(session) \in ClaimsValue
            /\ PrevClaims(session) \in ClaimsValue
        BY <1>1, SessionOps DEF Session, PrevClaims, ClaimsValue
      <3>2. /\ g \in Frame /\ g.pc = "savepoint" /\ g.role = Top.role
            /\ g.claims = Top.claims /\ g.prevUser = session.role
            /\ g.prevClaims = PrevClaims(session)
        BY <1>3, <3>1 DEF Frame
      <3>3. frames' = [frames EXCEPT ![Depth] = g] /\ cancelled' = cancelled
        BY <2>1 DEF Top
      <3>4. Keeps(session, session') /\ KeepsActor(session, session')
        BY <1>1, <2>1, StartedKeeps
      <3>5. /\ session.role = BlockRole(Depth - 1)
            /\ Claimless(session.claims) = BlockClaims(Depth - 1)
        BY <1>5, <1>6, <1>11, <2>1 DEF CaptureActor, HasRole, HasClaims
      <3>6. /\ g.prevUser = BlockRole(Depth - 1)
            /\ Claimless(g.prevClaims) = BlockClaims(Depth - 1)
        BY <1>1, <3>2, <3>5, ClaimsRoundTrip
      <3>7. Usable(session') => /\ session'.role = BlockRole(Depth - 1)
                                /\ Claimless(session'.claims) = BlockClaims(Depth - 1)
        BY <3>4, <3>5 DEF KeepsActor
      <3>8. g.pc \notin Holding /\ g.pc \notin HasRole /\ g.pc \notin HasClaims
        BY <3>2 DEF Holding, HasRole, HasClaims
      <3> HIDE DEF g
      <3> QED BY <1>2, <1>7, <3>2, <3>3, <3>4, <3>6, <3>7, <3>8, UpdateActors
    <2> QED BY <1>6, <1>10, <1>11, <2>1 DEF CaptureActor
  <1>12. CASE OpenSavepoint
    <2>1. CASE /\ Runs /\ session.tx = "open" /\ session' = Savepoint(session)
               /\ frames' = [frames EXCEPT ![Depth].sp = Len(session.saves) + 1,
                                           ![Depth].pc = "setrole"]
               /\ UNCHANGED <<raised, cancelled, currentRole>>
      <3> DEFINE g == [Top EXCEPT !.sp = Len(session.saves) + 1, !.pc = "setrole"]
      <3>1. Len(session.saves) \in Nat
        BY <1>1 DEF Session
      <3>2. /\ g \in Frame /\ g.sp = Len(session.saves) + 1 /\ g.pc = "setrole"
            /\ g.role = Top.role /\ g.claims = Top.claims
            /\ g.prevUser = Top.prevUser /\ g.prevClaims = Top.prevClaims
        <4>1. Len(session.saves) + 1 \in Nat
          BY <3>1
        <4> QED BY <1>3, <4>1 DEF Frame
      <3>3. frames' = [frames EXCEPT ![Depth] = g] /\ cancelled' = cancelled
        BY <2>1 DEF Top
      <3>4. /\ \A i \in 1 .. Len(session.saves) : session'.saves[i] = session.saves[i]
            /\ session'.saves[Len(session.saves) + 1] = SnapshotOf(session)
        BY <1>1, <2>1, SavepointOp
      <3>5. session'.role = session.role /\ session'.claims = session.claims
        BY <1>1, <2>1 DEF Savepoint, Session
      <3>6. /\ session.role = BlockRole(Depth - 1)
            /\ Claimless(session.claims) = BlockClaims(Depth - 1)
        BY <1>5, <1>6, <1>12, <2>1 DEF OpenSavepoint, HasRole, HasClaims
      <3>7. /\ session'.saves[g.sp].role = BlockRole(Depth - 1)
            /\ Claimless(session'.saves[g.sp].claims) = BlockClaims(Depth - 1)
        BY <3>2, <3>4, <3>6 DEF SnapshotOf
      <3>8. OuterSaves
        BY <1>3, <3>4 DEF OuterSaves
      <3>9. /\ g.prevUser = BlockRole(Depth - 1)
            /\ Claimless(g.prevClaims) = BlockClaims(Depth - 1)
        BY <1>3, <1>12, <3>2 DEF OpenSavepoint
      <3>10. g.pc \notin HasRole /\ g.pc \notin HasClaims /\ g.pc # "setclaims"
        BY <3>2 DEF HasRole, HasClaims
      <3> HIDE DEF g
      <3> QED BY <1>2, <3>2, <3>3, <3>5, <3>6, <3>7, <3>8, <3>9, <3>10, UpdateActors
    <2>2. CASE ~(Runs /\ session.tx = "open") /\ Raises /\ UNCHANGED session
      <3>1. Usable(session) => /\ session.role = BlockRole(Depth - 1)
                               /\ Claimless(session.claims) = BlockClaims(Depth - 1)
        BY <1>5, <1>12 DEF OpenSavepoint, HasRole, HasClaims
      <3> QED BY <1>2, <1>7, <2>2, <3>1, PopActors DEF Raises
    <2> QED BY <1>12, <2>1, <2>2 DEF OpenSavepoint
  <1>13. CASE SwitchRole
    <2>1. Top.pc = "setrole" /\ Top.pc \in Holding /\ Top.role \in Roles
      BY <1>3, <1>13 DEF SwitchRole, Holding, Frame
    <2>2. CASE Runs /\ session' = SetLocalRole(session, Top.role)
               /\ \/ Top.claims = NoValue /\ Enter
                  \/ Top.claims # NoValue /\ Goto("setclaims") /\ UNCHANGED <<raised, currentRole>>
      <3>1. /\ session'.saves = session.saves /\ session'.role = Top.role
            /\ session'.claims = session.claims
        BY <1>1, <2>2 DEF SetLocalRole, Session
      <3>2. OuterSaves
        BY <3>1 DEF OuterSaves
      <3>3. Claimless(session'.claims) = BlockClaims(Depth - 1)
        BY <1>5, <1>6, <2>1, <2>2, <3>1 DEF HasClaims
      <3>4. CASE Top.claims = NoValue /\ Enter
        <4>1. Goto("body") /\ "body" \in HasRole
          BY <3>4 DEF Enter, HasRole
        <4> QED BY <1>8, <2>1, <3>1, <3>2, <3>3, <3>4, <4>1
      <3>5. CASE Top.claims # NoValue /\ Goto("setclaims")
        <4>1. "setclaims" \in HasRole /\ "setclaims" \notin HasClaims
          BY DEF HasRole, HasClaims
        <4> QED BY <1>8, <2>1, <3>1, <3>2, <3>3, <3>5, <4>1
      <3> QED BY <2>2, <3>4, <3>5
    <2> QED BY <1>9, <1>13, <2>1, <2>2 DEF SwitchRole
  <1>14. CASE InstallClaims
    <2>1. /\ Top.pc = "setclaims" /\ Top.pc \in Holding /\ Top.claims # NoValue
          /\ Top.claims \in Json
      BY <1>2, <1>3, <1>14 DEF InstallClaims, Holding, Frame, ActorInv, ClaimsToInstall
    <2>2. CASE Runs /\ session' = SetConfig(session, Top.claims) /\ Enter
      <3>1. session'.saves = session.saves /\ session'.role = session.role
        BY <1>1, <2>2 DEF SetConfig, Session
      <3>2. Claimless(session'.claims) = Top.claims
        BY <1>1, <2>1, <2>2, ClaimsRoundTrip, ClaimlessFacts DEF ClaimsValue
      <3>3. OuterSaves
        BY <3>1 DEF OuterSaves
      <3>4. session'.role = Top.role
        BY <1>5, <1>6, <2>1, <2>2, <3>1 DEF HasRole
      <3>5. Goto("body") /\ "body" \in HasRole /\ "body" \in HasClaims
        BY <2>2 DEF Enter, HasRole, HasClaims
      <3> QED BY <1>8, <2>1, <3>1, <3>2, <3>3, <3>4, <3>5
    <2> QED BY <1>9, <1>14, <2>1, <2>2 DEF InstallClaims
  <1>15. CASE ReleaseSavepoint
    <2>1. Top.pc = "release" /\ Top.pc \in Holding
      BY <1>15 DEF ReleaseSavepoint, Holding
    <2>2. CASE Runs /\ session' = Release(session, Top.sp) /\ Goto("restorerole")
      <3>1. session'.role = session.role /\ session'.claims = session.claims
        BY <1>1, <2>2 DEF Release, Session
      <3>2. \A i \in 1 .. Top.sp - 1 : session'.saves[i] = session.saves[i]
        BY <1>1, <1>3, <2>1, <2>2, ReleaseOp
      <3>3. OuterSaves
        <4>1. \A i \in 1 .. Depth - 1 : frames[i].sp \in 1 .. Top.sp - 1
          BY <1>3, <1>4, <2>1
        <4> QED BY <3>2, <4>1 DEF OuterSaves
      <3>4. session'.role = Top.role /\ Claimless(session'.claims) = BlockClaims(Depth)
        BY <1>5, <1>6, <2>1, <2>2, <3>1 DEF HasRole, HasClaims
      <3>5. /\ "restorerole" \in HasRole /\ "restorerole" \in HasClaims
            /\ "restorerole" \notin Holding
        BY DEF HasRole, HasClaims, Holding
      <3>6. BlockClaims(Depth) = IF Top.claims # NoValue THEN Top.claims
                                 ELSE BlockClaims(Depth - 1)
        BY <1>3, <2>1
      <3> QED BY <1>8, <2>1, <2>2, <3>3, <3>4, <3>5, <3>6
    <2> QED BY <1>6, <1>10, <1>15, <2>2 DEF ReleaseSavepoint
  <1>16. CASE RestoreRole
    <2>1. Top.pc = "restorerole"
      BY <1>16 DEF RestoreRole
    <2>2. CASE Runs /\ session' = SetLocalRole(session, Top.prevUser)
               /\ IF Top.prevClaims # NoValue \/ Top.claims # NoValue
                  THEN Goto("restoreclaims") /\ UNCHANGED <<raised, currentRole>>
                  ELSE Leaves
      <3>1. /\ session'.saves = session.saves /\ session'.role = BlockRole(Depth - 1)
            /\ session'.claims = session.claims
        BY <1>1, <1>3, <2>1, <2>2 DEF SetLocalRole, Session
      <3>2. OuterSaves
        BY <3>1 DEF OuterSaves
      <3>3. Claimless(session'.claims) = BlockClaims(Depth)
        BY <1>5, <1>6, <2>1, <2>2, <3>1 DEF HasClaims
      <3>4. CASE Goto("restoreclaims")
        <4>1. /\ "restoreclaims" \notin HasRole /\ "restoreclaims" \in HasClaims
              /\ "restoreclaims" \notin Holding
          BY DEF HasRole, HasClaims, Holding
        <4>2. BlockClaims(Depth) = IF Top.claims # NoValue THEN Top.claims
                                   ELSE BlockClaims(Depth - 1)
          BY <1>3, <2>1
        <4> QED BY <1>8, <2>1, <3>1, <3>2, <3>3, <3>4, <4>1, <4>2
      <3>5. CASE Top.prevClaims = NoValue /\ Top.claims = NoValue /\ Leaves
        <4>1. BlockClaims(Depth) = BlockClaims(Depth - 1)
          BY <1>3, <2>1, <3>5
        <4> QED BY <1>2, <3>1, <3>2, <3>3, <3>5, <4>1, PopActors DEF Leaves
      <3> QED BY <2>2, <3>4, <3>5
    <2> QED BY <1>6, <1>10, <1>16, <2>2 DEF RestoreRole
  <1>17. CASE RestoreClaims
    <2>1. Top.pc = "restoreclaims" /\ Top.prevClaims \in ClaimsValue
      BY <1>3, <1>17 DEF RestoreClaims, Frame
    <2>2. CASE Runs /\ session' = SetConfig(session, Top.prevClaims) /\ Leaves
      <3>1. session'.saves = session.saves /\ session'.role = session.role
        BY <1>1, <2>2 DEF SetConfig, Session
      <3>2. Claimless(session'.claims) = BlockClaims(Depth - 1)
        BY <1>1, <1>3, <2>1, <2>2, ClaimsRoundTrip
      <3>3. session'.role = BlockRole(Depth - 1)
        BY <1>5, <1>6, <2>1, <2>2, <3>1 DEF HasRole
      <3>4. OuterSaves
        BY <3>1 DEF OuterSaves
      <3> QED BY <1>2, <2>2, <3>2, <3>3, <3>4, PopActors DEF Leaves
    <2> QED BY <1>6, <1>10, <1>17, <2>2 DEF RestoreClaims
  <1>18. CASE RollbackToSavepoint
    <2>1. Top.pc \in Holding
      BY <1>18 DEF RollbackToSavepoint, Holding
    <2>2. CASE Sent /\ session' = RollbackTo(session, Top.sp) /\ Leaves
      <3>1. /\ \A i \in 1 .. Top.sp : session'.saves[i] = session.saves[i]
            /\ session'.role = session.saves[Top.sp].role
            /\ session'.claims = session.saves[Top.sp].claims
        BY <1>1, <1>3, <2>1, <2>2, RollbackToOp
      <3>2. OuterSaves
        <4>1. \A i \in 1 .. Depth - 1 : frames[i].sp \in 1 .. Top.sp
          BY <1>3, <1>4, <2>1
        <4> QED BY <3>1, <4>1 DEF OuterSaves
      <3> QED BY <1>2, <1>3, <2>1, <2>2, <3>1, <3>2, PopActors DEF Leaves
    <2>3. CASE ~Sent /\ Raises /\ UNCHANGED session
      <3>1. ~Usable(session)
        BY <1>6, <2>3 DEF Usable
      <3> QED BY <1>10, <2>3, <3>1
    <2> QED BY <1>18, <2>2, <2>3 DEF RollbackToSavepoint
  <1> QED BY <1>11, <1>12, <1>13, <1>14, <1>15, <1>16, <1>17, <1>18 DEF AsRole
-------------------------------------------------------------------------------
(* The body and the world.                                                  *)

\* A test body leaves role and claims alone and captures nothing itself.
LEMMA BodyKeepsActors ==
    ASSUME ~BodySetsClaims, ActorInv, SavepointInv', Body
    PROVE  ActorInv'
  <1>1. TypeOK /\ SavepointInv
    BY DEF ActorInv, SavepointInv
  <1>2. CASE Statement
    BY <1>1, <1>2, StatementKeeps, StutterKeepsActors DEF BodyTypes
  <1>3. CASE BodyEnds
    <2> DEFINE g == [Top EXCEPT !.pc = IF raised THEN "rollbackto" ELSE "release"]
    <2>1. Depth > 0 /\ Top.pc = "body" /\ UNCHANGED <<session, cancelled>>
      BY <1>3 DEF BodyEnds
    <2>2. /\ Depth \in Nat \ {0} /\ Top \in Frame /\ BlockRole(Depth) = Top.role
          /\ BlockClaims(Depth) = IF Top.claims # NoValue THEN Top.claims
                                  ELSE Claimless(Top.prevClaims)
          /\ Top.prevUser = BlockRole(Depth - 1)
          /\ Claimless(Top.prevClaims) = BlockClaims(Depth - 1)
          /\ session.saves[Top.sp].role = BlockRole(Depth - 1)
          /\ Claimless(session.saves[Top.sp].claims) = BlockClaims(Depth - 1)
      BY <2>1, TopActor DEF Holding
    <2>3. /\ g \in Frame /\ g.pc \in {"rollbackto", "release"} /\ g.role = Top.role
          /\ g.claims = Top.claims /\ g.prevUser = Top.prevUser
          /\ g.prevClaims = Top.prevClaims /\ g.sp = Top.sp
      BY <2>2 DEF Frame
    <2>4. frames' = [frames EXCEPT ![Depth] = g]
      BY <1>3 DEF BodyEnds, Top
    <2>5. Usable(session) => session.role = Top.role
                             /\ Claimless(session.claims) = BlockClaims(Depth)
      BY <2>1, <2>2 DEF ActorInv, SessionRole, SessionClaims, Usable, HasRole, HasClaims
    <2>6. g.pc \in HasRole /\ g.pc \in HasClaims /\ OuterSaves
      BY <2>1, <2>3 DEF HasRole, HasClaims, OuterSaves
    <2>7. g.pc # "setclaims" /\ g.pc # "capture"
      BY <2>3
    <2> HIDE DEF g
    <2> QED BY <2>1, <2>2, <2>3, <2>4, <2>5, <2>6, <2>7, UpdateActors
  <1>4. ASSUME NEW r \in Roles, NEW c \in Json \cup {NoValue}, CallAsRole(r, c)
        PROVE  ActorInv'
    <2> DEFINE g == [role |-> r, claims |-> c, captured |-> NoValue, prevUser |-> Login,
                     prevClaims |-> NoValue, outerRole |-> currentRole, sp |-> 0,
                     pc |-> "capture"]
    <2>1. g \in Frame /\ g.pc = "capture"
      BY <1>1 DEF TypeOK, Frame, ClaimsValue
    <2>2. frames \in Seq(Frame) /\ frames' = Append(frames, g) /\ Depth < MaxDepth
          /\ UNCHANGED <<session, cancelled>>
      BY <1>1, <1>4 DEF CallAsRole, TypeOK
    <2> HIDE DEF g
    <2>3. /\ Depth \in Nat /\ Depth' = Depth + 1 /\ Top' = g
          /\ \A i \in 1 .. Depth : frames'[i] = frames[i]
      BY <2>1, <2>2, FramePush DEF Depth, Top
    <2>4. \A i \in 1 .. Depth : frames[i].pc = "body"
      BY <1>1, <1>4, <2>3 DEF CallAsRole, InBody, AtBody, Top, SavepointInv, OuterInBody
    <2>5. \A i \in 1 .. Depth' : frames'[i].pc # "capture" => i \in 1 .. Depth
      BY <2>1, <2>3 DEF Top
    <2>6. \A i \in 0 .. Depth : /\ BlockRole(i)' = BlockRole(i)
                                /\ BlockClaims(i)' = BlockClaims(i)
      BY <2>3 DEF BlockRole, BlockClaims, Claimless
    <2>7. \A i \in 1 .. Depth : i - 1 \in 0 .. Depth
      BY <2>3
    <2>8. NoCancellation' /\ ClaimsToInstall'
      <3>1. Depth + 1 <= MaxDepth
        BY <2>2, <2>3, ClientAssumption DEF ClientAssumption
      <3> QED BY <2>1, <2>2, <2>3, <3>1 DEF ActorInv, NoCancellation, ClaimsToInstall, Live
    <2>9. CapturedOuter'
      <3> SUFFICES ASSUME NEW i \in 1 .. Depth
                   PROVE  /\ frames'[i].prevUser = BlockRole(i - 1)'
                          /\ Claimless(frames'[i].prevClaims) = BlockClaims(i - 1)'
        BY <2>5 DEF CapturedOuter, Claimless
      <3> QED BY <2>3, <2>4, <2>6, <2>7 DEF ActorInv, CapturedOuter
    <2>10. SavepointsOuter'
      <3> SUFFICES ASSUME NEW i \in 1 .. Depth
                   PROVE  /\ session'.saves[frames'[i].sp].role = BlockRole(i - 1)'
                          /\ Claimless(session'.saves[frames'[i].sp].claims)
                                 = BlockClaims(i - 1)'
        BY <2>5 DEF SavepointsOuter, Claimless, Holding
      <3> QED BY <2>2, <2>3, <2>4, <2>6, <2>7 DEF ActorInv, SavepointsOuter, Holding
    <2>11. Usable(session) => /\ session.role = BlockRole(Depth)
                              /\ Claimless(session.claims) = BlockClaims(Depth)
      <3>1. Depth = 0 \/ Depth \in 1 .. Depth
        BY <2>3
      <3> QED BY <2>4, <3>1 DEF ActorInv, SessionRole, SessionClaims, Usable, HasRole,
                                HasClaims, BlockRole, BlockClaims, Top
    <2>12. SessionRole'
      <3>1. BlockRole(Depth' - 1) = BlockRole(Depth) /\ BlockRole(Depth - 1)' = BlockRole(Depth)
        BY <2>3, <2>6 DEF BlockRole
      <3> QED BY <2>1, <2>2, <2>3, <2>11, <3>1 DEF SessionRole, Usable, HasRole
    <2>13. SessionClaims'
      <3>1. BlockClaims(Depth - 1)' = BlockClaims(Depth)
        BY <2>3, <2>6 DEF BlockClaims, Claimless
      <3>2. Claimless(session.claims)' = Claimless(session.claims)
        BY <2>2 DEF Claimless
      <3> QED BY <2>1, <2>2, <2>3, <2>11, <3>1, <3>2 DEF SessionClaims, Usable, HasClaims
    <2> QED BY <2>8, <2>9, <2>10, <2>12, <2>13 DEF ActorInv
  <1> QED BY <1>2, <1>3, <1>4 DEF Body, Statement, ExecSetsClaims

\* Transactions and connections begin and end outside every block, as Login.
LEMMA WorldKeepsActors ==
    ASSUME ~CtxCancels, ActorInv, SavepointInv', World
    PROVE  ActorInv'
  <1>1. session \in Session /\ MaxDepth \in Nat
    BY ClientAssumption DEF ActorInv, SavepointInv, TypeOK, ClientAssumption
  \* Outside every block only the session's own role and claims matter.
  <1>2. ASSUME Depth = 0, UNCHANGED frames, cancelled' = Live,
               Usable(session') => session'.role = Login /\ Claimless(session'.claims) = NoValue
        PROVE  ActorInv'
    <2>1. Depth' = 0
      BY <1>2 DEF Depth
    <2>2. NoCancellation' /\ ClaimsToInstall' /\ CapturedOuter' /\ SavepointsOuter'
      BY <1>1, <1>2, <2>1 DEF NoCancellation, ClaimsToInstall, CapturedOuter,
                              SavepointsOuter, Live
    <2>3. SessionRole' /\ SessionClaims'
      BY <1>2, <2>1 DEF SessionRole, SessionClaims, Usable, Claimless
    <2> QED BY <2>2, <2>3 DEF ActorInv
  <1>3. Depth = 0 /\ Usable(session) =>
            session.role = Login /\ Claimless(session.claims) = NoValue
    BY DEF ActorInv, SessionRole, SessionClaims, Usable
  <1>4. cancelled = Live
    BY DEF ActorInv, NoCancellation
  <1>5. CASE BeginTransaction
    <2>1. UNCHANGED session \/ (Runs /\ session' = Begun(session))
      BY <1>5 DEF BeginTransaction
    <2>2. Begun(session).role = session.role /\ Begun(session).claims = session.claims
      BY <1>1 DEF Begun, Session
    <2>3. Runs => Usable(session)
      BY <1>1 DEF Runs, Sent, Usable, Session
    <2> QED BY <1>1, <1>2, <1>3, <1>4, <1>5, <2>1, <2>2, <2>3 DEF BeginTransaction
  <1>6. CASE EndTransaction
    <2>1. /\ TransactionEnded(session).role = Login
          /\ Claimless(TransactionEnded(session).claims) = NoValue
      BY <1>1, ClaimlessFacts DEF TransactionEnded, Session
    <2> QED BY <1>2, <1>3, <1>6, <2>1 DEF EndTransaction
  <1>7. CASE CloseConnection
    <2>1. Connected.role = Login /\ Claimless(Connected.claims) = NoValue
      BY ClaimlessFacts DEF Connected
    <2> QED BY <1>2, <1>4, <1>7, <2>1 DEF CloseConnection
  <1>8. CASE Disconnect
    BY <1>1, <1>8, KeepsBasics, StutterKeepsActors DEF Disconnect
  <1> QED BY <1>5, <1>6, <1>7, <1>8 DEF World, CancelContext

\* A new client on a new session has no block and no claims.
LEMMA InitActorInv == Init => ActorInv
  <1> SUFFICES ASSUME Init PROVE ActorInv
    OBVIOUS
  <1>1. SavepointInv /\ Depth = 0
    BY InitSavepointInv DEF Init, Depth
  <1>2. session.role = Login /\ Claimless(session.claims) = NoValue
    BY ClaimlessFacts DEF Init, Connected
  <1>3. NoCancellation
    BY <1>1, ClientAssumption DEF Init, NoCancellation, ClientAssumption
  <1> QED BY <1>1, <1>2, <1>3 DEF ActorInv, ClaimsToInstall, CapturedOuter,
                                  SavepointsOuter, SessionRole, SessionClaims

\* The captured values, the savepoint snapshots and the session agree at every
\* point of every active as_role call: the inductive part of the theorem below.
THEOREM ActorInvariant ==
    ASSUME ~BodySetsClaims, ~CtxCancels
    PROVE  Spec => []ActorInv
  <1>1. ActorInv /\ [Next]_vars => ActorInv'
    <2> SUFFICES ASSUME ActorInv, [Next]_vars PROVE ActorInv'
      OBVIOUS
    <2>1. SavepointInv
      BY DEF ActorInv
    <2>2. CASE Body
      BY <2>1, <2>2, BodyKeepsSavepoints, BodyKeepsActors
    <2>3. CASE AsRole
      BY <2>1, <2>3, AsRoleKeepsSavepointInv, AsRoleKeepsActors
    <2>4. CASE World
      BY <2>1, <2>4, WorldKeepsSavepointInv, WorldKeepsActors
    <2>5. CASE UNCHANGED vars
      <3>1. SavepointInv'
        BY <2>1, <2>5 DEF vars, SavepointInv, TypeOK, OuterInBody, SavepointsHeld,
                          SavepointsNest, Depth, Live
      <3>2. session \in Session
        BY <2>1 DEF SavepointInv, TypeOK
      <3>3. Keeps(session, session') /\ KeepsActor(session, session')
        BY <2>5, <3>2, KeepsBasics DEF vars
      <3> QED BY <2>5, <3>1, <3>3, StutterKeepsActors DEF vars
    <2> QED BY <2>2, <2>3, <2>4, <2>5 DEF Next
  <1> QED BY <1>1, InitActorInv, PTL DEF Spec

\* Whatever nesting, failed entries, caught errors and probes came before, a
\* test body's statements run as the role and with the claims of its block.
THEOREM BodiesRunAsTheirBlock ==
    ASSUME ~BodySetsClaims, ~CtxCancels
    PROVE  Spec => [](RoleFollowsBlock /\ ClaimsFollowBlock)
  <1>1. ActorInv => RoleFollowsBlock /\ ClaimsFollowBlock
    <2> SUFFICES ASSUME ActorInv, AtBody, session.tx \in {"idle", "open"}
                 PROVE  /\ session.role = BlockRole(Depth)
                        /\ Claimless(session.claims) = BlockClaims(Depth)
      BY DEF RoleFollowsBlock, ClaimsFollowBlock
    <2>1. CASE Depth = 0
      BY <2>1 DEF ActorInv, SessionRole, SessionClaims, BlockRole, BlockClaims
    <2>2. CASE Depth > 0
      <3>1. Depth \in Nat \ {0} /\ BlockRole(Depth) = Top.role
        BY <2>2, TopActor
      <3> QED BY <2>2, <3>1 DEF ActorInv, SessionRole, SessionClaims, AtBody, HasRole,
                                HasClaims
    <2>3. Depth \in Nat
      BY DEF ActorInv, SavepointInv, TypeOK, Depth
    <2> QED BY <2>1, <2>2, <2>3
  <1> QED BY <1>1, ActorInvariant, PTL
-------------------------------------------------------------------------------
(* Rows: what a test writes is rolled back with its transaction.            *)

Clean(s) == /\ "inside" \notin s.dirty
            /\ \A p \in 1 .. Len(s.saves) : "inside" \notin s.saves[p].dirty

\* No operation on a session but a write inside transaction() adds such a row,
\* and a savepoint saves only rows the session already has.
LEMMA CleanOps ==
    ASSUME NEW s \in Session, Clean(s)
    PROVE  /\ Clean(Begun(s)) /\ Clean(Aborted(s)) /\ Clean(Written(s, "outside"))
           /\ Clean(Savepoint(s)) /\ Clean(TransactionEnded(s)) /\ Clean(Connected)
           /\ \A r \in Roles \cup {Login} : Clean(SetLocalRole(s, r))
           /\ \A v \in ClaimsValue : Clean(SetConfig(s, v))
           /\ \A p \in 1 .. Len(s.saves) : Clean(Release(s, p)) /\ Clean(RollbackTo(s, p))
  <1>1. s.saves \in Seq(Snapshot) /\ Len(s.saves) \in Nat
    BY DEF Session
  <1>2. Clean(Begun(s)) /\ Clean(Aborted(s))
    BY DEF Begun, Aborted, Clean, Session
  <1>3. Clean(Written(s, "outside"))
    BY DEF Written, Clean, Session
  <1>4. Clean(Savepoint(s))
    <2>1. /\ Len(Savepoint(s).saves) = Len(s.saves) + 1 /\ Savepoint(s).dirty = s.dirty
          /\ \A i \in 1 .. Len(s.saves) : Savepoint(s).saves[i] = s.saves[i]
          /\ Savepoint(s).saves[Len(s.saves) + 1].dirty = s.dirty
      BY SavepointOp DEF SnapshotOf, Savepoint, Session
    <2>2. \A i \in 1 .. Len(s.saves) + 1 : i \in 1 .. Len(s.saves) \/ i = Len(s.saves) + 1
      BY <1>1
    <2> QED BY <2>1, <2>2 DEF Clean
  <1>5. Clean(TransactionEnded(s)) /\ Clean(Connected)
    BY DEF TransactionEnded, Connected, Clean, Session
  <1>6. /\ \A r \in Roles \cup {Login} : Clean(SetLocalRole(s, r))
        /\ \A v \in ClaimsValue : Clean(SetConfig(s, v))
    BY DEF SetLocalRole, SetConfig, Clean, Session
  <1>7. ASSUME NEW p \in 1 .. Len(s.saves)
        PROVE  Clean(Release(s, p)) /\ Clean(RollbackTo(s, p))
    <2>1. /\ Len(Release(s, p).saves) = p - 1 /\ Release(s, p).dirty = s.dirty
          /\ \A i \in 1 .. p - 1 : Release(s, p).saves[i] = s.saves[i]
      BY ReleaseOp DEF Release, Session
    <2>2. /\ Len(RollbackTo(s, p).saves) = p /\ RollbackTo(s, p).dirty = s.saves[p].dirty
          /\ \A i \in 1 .. p : RollbackTo(s, p).saves[i] = s.saves[i]
      BY RollbackToOp
    <2>3. \A i \in 1 .. p : i \in 1 .. Len(s.saves)
      BY <1>1
    <2>4. \A i \in 1 .. p - 1 : i \in 1 .. Len(s.saves)
      BY <1>1
    <2> QED BY <2>1, <2>2, <2>3, <2>4 DEF Clean
  <1> QED BY <1>2, <1>3, <1>4, <1>5, <1>6, <1>7

\* A step inside, or outside, a transaction() that stays so.
RowsStep ==
    /\ inTx' = inTx /\ "inside" \notin committed'
    /\ session'.tx # "lost" => session.tx # "lost"
    /\ session'.tx = "idle" => session.tx = "idle"
    /\ ~inTx /\ session'.tx # "lost" /\ Clean(session) => Clean(session')

\* A step of that kind keeps the rows invariant.
LEMMA RowsStepKeeps ==
    ASSUME RowsInTransaction, RowsStep PROVE RowsInTransaction'
  BY DEF RowsInTransaction, RowsStep, Clean

\* A write is committed at once only outside transaction() and BEGIN.
LEMMA InsertRows ==
    ASSUME TypeOK, RowsInTransaction, Runs, Insert, inTx' = inTx
    PROVE  RowsStep
  <1>1. /\ session \in Session /\ Started \in Session /\ Started.dirty = session.dirty
        /\ Started.saves = session.saves
        /\ (Started.tx = session.tx \/ (session.tx = "idle" /\ Started.tx = "open"))
    BY StartedKeeps DEF TypeOK
  <1>2. Clean(session) => Clean(Started)
    BY <1>1 DEF Clean
  <1>3. CASE Started.tx = "open"
    <2>1. session' = Written(Started, Mark) /\ UNCHANGED committed
      BY <1>3 DEF Insert
    <2>2. session'.tx = "open" /\ session.tx # "lost"
      BY <1>1, <1>3, <2>1 DEF Written, Session, Runs, Sent
    <2>3. ~inTx => Mark = "outside"
      BY DEF Mark
    <2>4. Clean(Started) => Clean(Written(Started, "outside"))
      BY <1>1, CleanOps
    <2> QED BY <1>2, <2>1, <2>2, <2>3, <2>4 DEF RowsStep, RowsInTransaction
  <1>4. CASE Started.tx # "open"
    <2>1. session' = Started /\ committed' = committed \cup {Mark}
      BY <1>4 DEF Insert
    <2>2. session.tx = "idle" /\ Started = session /\ Lang # "python"
      BY <1>1, <1>4 DEF Runs, Sent, Started, Session, Begun
    <2>3. Mark = "outside"
      BY <2>2 DEF RowsInTransaction, Mark
    <2> QED BY <1>2, <2>1, <2>2, <2>3 DEF RowsStep, RowsInTransaction
  <1> QED BY <1>3, <1>4

\* Reads, errors and a lost connection add no row.
LEMMA ReadRows ==
    ASSUME TypeOK, RowsInTransaction, inTx' = inTx, UNCHANGED committed,
           session' \in {session, Started, AfterError, Lost(session)}
    PROVE  RowsStep
  <1>1. /\ session \in Session /\ Started \in Session /\ Started.dirty = session.dirty
        /\ Started.saves = session.saves
        /\ (Started.tx = session.tx \/ (session.tx = "idle" /\ Started.tx = "open"))
    BY StartedKeeps DEF TypeOK
  <1>2. Clean(session) => Clean(Started)
    BY <1>1 DEF Clean
  <1>3. Clean(Started) => Clean(Aborted(Started))
    BY <1>1, CleanOps
  <1>4. Aborted(Started).tx = IF Started.tx = "open" THEN "failed" ELSE Started.tx
    BY <1>1 DEF Aborted, Session
  <1>5. Lost(session).tx = "lost"
    BY <1>1 DEF Lost, Session
  <1>6. AfterError = Aborted(Started) \/ AfterError = session
    BY DEF AfterError
  <1> QED BY <1>1, <1>2, <1>3, <1>4, <1>5, <1>6 DEF RowsStep, RowsInTransaction

\* Each statement of a test body.
LEMMA StatementRows ==
    ASSUME TypeOK, RowsInTransaction, Statement
    PROVE  RowsStep
  <1>1. inTx' = inTx
    BY StatementKeeps DEF BodyTypes
  <1>2. CASE Exec
    BY <1>1, <1>2, InsertRows, ReadRows DEF Exec, Read
  <1>3. CASE StatementFails \/ RaiseInBody \/ CatchInBody
    BY <1>1, <1>3, ReadRows DEF StatementFails, RaiseInBody, CatchInBody
  <1>4. CASE Seed
    <2>1. CASE UNCHANGED <<session, committed>>
      BY <1>1, <2>1, ReadRows
    <2>2. CASE Runs /\ Insert
      BY <1>1, <2>2, InsertRows
    <2>3. CASE /\ Runs
               /\ IF Started.tx = "open"
                  THEN session' = Aborted(Written(Started, Mark)) /\ UNCHANGED committed
                  ELSE UNCHANGED session /\ committed' = committed \cup {Mark}
      <3>1. /\ session \in Session /\ Started \in Session /\ Started.dirty = session.dirty
            /\ Started.saves = session.saves
            /\ (Started.tx = session.tx \/ (session.tx = "idle" /\ Started.tx = "open"))
        BY StartedKeeps DEF TypeOK
      <3>2. CASE Started.tx = "open"
        <4>1. Clean(session) => Clean(Started)
          BY <3>1 DEF Clean
        <4>2. Written(Started, "outside") \in Session
          BY <3>1, SessionOps DEF Marks
        <4>3. Clean(Started) => Clean(Aborted(Written(Started, "outside")))
          BY <3>1, <4>2, CleanOps
        <4>4. session' = Aborted(Written(Started, Mark)) /\ UNCHANGED committed
          BY <2>3, <3>2
        <4>5. Written(Started, Mark).tx = "open"
          BY <3>1, <3>2 DEF Written, Session
        <4>6. Written(Started, Mark) \in Session
          BY <3>1, SessionOps DEF Mark, Marks
        <4>7. session'.tx = "failed" /\ session.tx # "lost"
          BY <2>3, <4>4, <4>5, <4>6 DEF Aborted, Session, Runs, Sent
        <4>8. ~inTx => Mark = "outside"
          BY DEF Mark
        <4> QED BY <1>1, <4>1, <4>3, <4>4, <4>7, <4>8 DEF RowsStep, RowsInTransaction
      <3>3. CASE Started.tx # "open"
        <4>1. session.tx = "idle" /\ Lang # "python"
          BY <2>3, <3>1, <3>3 DEF Runs, Sent, Started, Session, Begun
        <4>2. Mark = "outside"
          BY <4>1 DEF RowsInTransaction, Mark
        <4> QED BY <1>1, <2>3, <3>3, <4>1, <4>2 DEF RowsStep, RowsInTransaction
      <3> QED BY <3>2, <3>3
    <2> QED BY <1>4, <2>1, <2>2, <2>3 DEF Seed
  <1>5. ASSUME NEW ok \in BOOLEAN, AssertRowCount(ok) \/ AssertSilentlyDropped(ok)
        PROVE  RowsStep
    BY <1>1, <1>5, InsertRows, ReadRows DEF AssertRowCount, AssertSilentlyDropped, Read
  <1>6. ASSUME NEW o \in {"denied", "othererror", "succeeded"}, AssertRejected(o)
        PROVE  RowsStep
    <2> DEFINE k == Savepoint(Started)
               n == Len(Started.saves) + 1
               a == Aborted(k)
               w == Written(k, Mark)
    <2>1. /\ Started \in Session /\ Started.tx = "open" /\ session.tx # "lost"
          /\ Started.dirty = session.dirty /\ Started.saves = session.saves
          /\ UNCHANGED committed
      BY <1>6, StartedKeeps DEF AssertRejected, Runs, Sent
    <2>2. /\ k \in Session /\ Len(k.saves) = n /\ k.tx = "open" /\ n \in 1 .. n
      <3>1. Len(Started.saves) \in Nat
        BY <2>1 DEF Session
      <3>2. k \in Session /\ Len(k.saves) = n
        BY <2>1, SavepointOp
      <3>3. k.tx = "open"
        BY <2>1 DEF Savepoint, Session
      <3>4. n \in 1 .. n
        BY <3>1
      <3> QED BY <3>2, <3>3, <3>4
    <2>3. a \in Session /\ w \in Session
      BY <2>2, SessionOps DEF Mark, Marks
    <2>4. a.saves = k.saves /\ w.saves = k.saves /\ w.tx = "open"
      BY <2>2 DEF Aborted, Written, Session
    <2>5. session' = RollbackTo(a, n) \/ session' = Release(w, n)
      BY <1>6, <2>2 DEF AssertRejected
    <2>6. RollbackTo(a, n).tx = "open" /\ Release(w, n).tx = "open"
      BY <2>2, <2>3, <2>4, RollbackToOp DEF Release, Session
    <2>7. ~inTx /\ Clean(session) => Clean(session')
      <3> SUFFICES ASSUME ~inTx, Clean(session) PROVE Clean(session')
        OBVIOUS
      <3>1. Mark = "outside" /\ Clean(Started)
        BY <2>1 DEF Mark, Clean
      <3>2. Clean(k)
        BY <2>1, <3>1, CleanOps
      <3> HIDE DEF k
      <3>3. Clean(a) /\ Clean(w)
        BY <2>2, <3>1, <3>2, CleanOps
      <3> HIDE DEF a, w, n
      <3> QED BY <2>2, <2>3, <2>4, <2>5, <3>3, CleanOps
    <2> QED BY <1>1, <2>1, <2>5, <2>6, <2>7 DEF RowsStep, RowsInTransaction
  <1> QED BY <1>2, <1>3, <1>4, <1>5, <1>6 DEF Statement

\* Each statement of as_role: rolling back to a savepoint brings back no row.
LEMMA AsRoleRows ==
    ASSUME SavepointInv, RowsInTransaction, AsRole
    PROVE  RowsStep
  <1>1. TypeOK /\ session \in Session /\ Depth > 0
    BY DEF SavepointInv, TypeOK, AsRole, CaptureActor, OpenSavepoint, SwitchRole,
           InstallClaims, ReleaseSavepoint, RestoreRole, RestoreClaims, RollbackToSavepoint
  <1>2. /\ Top \in Frame
        /\ (Top.pc \in Holding => Top.sp \in 1 .. Len(session.saves))
    BY <1>1, TopFacts
  <1>3. UNCHANGED <<inTx, committed>>
    BY DEF AsRole, CaptureActor, OpenSavepoint, SwitchRole, InstallClaims,
           ReleaseSavepoint, RestoreRole, RestoreClaims, RollbackToSavepoint, Elsewhere
  <1>4. ASSUME session' \in {session, Started, AfterError} PROVE RowsStep
    BY <1>1, <1>3, <1>4, ReadRows
  <1>5. ASSUME Sent, session'.tx \in {session.tx, "open"},
               Clean(session) => Clean(session')
        PROVE  RowsStep
    BY <1>3, <1>5 DEF RowsStep, RowsInTransaction, Sent
  <1>6. CASE CaptureActor
    BY <1>4, <1>6 DEF CaptureActor
  <1>7. CASE OpenSavepoint
    <2>1. Savepoint(session).tx = session.tx
      BY <1>1 DEF Savepoint, Session
    <2> QED BY <1>1, <1>4, <1>5, <1>7, <2>1, CleanOps DEF OpenSavepoint, Runs
  <1>8. CASE SwitchRole
    <2>1. /\ Top.role \in Roles \cup {Login}
          /\ SetLocalRole(session, Top.role).tx = session.tx
      BY <1>1, <1>2 DEF SetLocalRole, Session, Frame
    <2> QED BY <1>1, <1>4, <1>5, <1>8, <2>1, CleanOps
            DEF SwitchRole, Runs, EntryFails, RefusedLocally
  <1>9. CASE InstallClaims
    <2>1. Top.claims \in ClaimsValue /\ SetConfig(session, Top.claims).tx = session.tx
      BY <1>1, <1>2 DEF SetConfig, Session, Frame, ClaimsValue
    <2> QED BY <1>1, <1>4, <1>5, <1>9, <2>1, CleanOps
            DEF InstallClaims, Runs, EntryFails, RefusedLocally
  <1>10. CASE ReleaseSavepoint
    <2>1. /\ Top.sp \in 1 .. Len(session.saves)
          /\ Release(session, Top.sp).tx = session.tx
      BY <1>1, <1>2, <1>10 DEF ReleaseSavepoint, Holding, Release, Session
    <2> QED BY <1>1, <1>4, <1>5, <1>10, <2>1, CleanOps DEF ReleaseSavepoint, Runs
  <1>11. CASE RestoreRole
    <2>1. /\ Top.prevUser \in Roles \cup {Login}
          /\ SetLocalRole(session, Top.prevUser).tx = session.tx
      BY <1>1, <1>2 DEF SetLocalRole, Session, Frame
    <2> QED BY <1>1, <1>4, <1>5, <1>11, <2>1, CleanOps DEF RestoreRole, Runs
  <1>12. CASE RestoreClaims
    <2>1. /\ Top.prevClaims \in ClaimsValue
          /\ SetConfig(session, Top.prevClaims).tx = session.tx
      BY <1>1, <1>2 DEF SetConfig, Session, Frame
    <2> QED BY <1>1, <1>4, <1>5, <1>12, <2>1, CleanOps DEF RestoreClaims, Runs
  <1>13. CASE RollbackToSavepoint
    <2>1. /\ Top.sp \in 1 .. Len(session.saves)
          /\ RollbackTo(session, Top.sp).tx = "open"
      BY <1>1, <1>2, <1>13, RollbackToOp DEF RollbackToSavepoint, Holding
    <2> QED BY <1>1, <1>4, <1>5, <1>13, <2>1, CleanOps DEF RollbackToSavepoint
  <1> QED BY <1>6, <1>7, <1>8, <1>9, <1>10, <1>11, <1>12, <1>13 DEF AsRole

\* transaction() begins clean; its end discards the rows; a Python connection
\* that exits commits only rows written outside transaction().
LEMMA WorldRows ==
    ASSUME SavepointInv, NoCancellation, RowsInTransaction, World
    PROVE  RowsInTransaction'
  <1>1. TypeOK /\ session \in Session
    BY DEF SavepointInv, TypeOK
  <1>2. CASE BeginTransaction
    <2>1. Begun(session).tx = "open"
      BY <1>1 DEF Begun, Session
    <2> QED BY <1>2, <2>1 DEF BeginTransaction, RowsInTransaction
  <1>3. CASE EndTransaction
    <2>1. Sent \/ session.tx = "lost"
      <3>1. Live > 0
        BY ClientAssumption DEF ClientAssumption, Live
      <3> QED BY <1>3, <3>1 DEF EndTransaction, Sent, NoCancellation
    <2>2. /\ TransactionEnded(session).dirty = {} /\ TransactionEnded(session).saves = <<>>
      BY <1>1 DEF TransactionEnded, Session
    <2> QED BY <1>3, <2>1, <2>2 DEF EndTransaction, RowsInTransaction
  <1>4. CASE CloseConnection
    <2>1. Connected.dirty = {} /\ Connected.saves = <<>>
      BY DEF Connected
    <2>2. session.tx = "open" => "inside" \notin session.dirty
      BY <1>4 DEF CloseConnection, RowsInTransaction
    <2>3. "inside" \notin committed'
      BY <1>4, <2>2 DEF CloseConnection, RowsInTransaction
    <2> QED BY <1>4, <2>1, <2>3 DEF CloseConnection, RowsInTransaction
  <1>5. CASE Disconnect
    BY <1>1, <1>5, ReadRows, RowsStepKeeps DEF Disconnect
  <1>6. ASSUME NEW level \in 0 .. MaxDepth, CancelContext(level)
        PROVE  RowsInTransaction'
    BY <1>6 DEF CancelContext, RowsInTransaction
  <1> QED BY <1>2, <1>3, <1>4, <1>5, <1>6 DEF World

\* Everything a test body may do.
LEMMA BodyRows ==
    ASSUME ~BodySetsClaims, TypeOK, RowsInTransaction, Body
    PROVE  RowsInTransaction'
  <1>1. CASE Statement
    BY <1>1, StatementRows, RowsStepKeeps
  <1>2. CASE BodyEnds
    BY <1>2, ReadRows, RowsStepKeeps DEF BodyEnds
  <1>3. ASSUME NEW r \in Roles, NEW c \in Json \cup {NoValue}, CallAsRole(r, c)
        PROVE  RowsInTransaction'
    BY <1>3, ReadRows, RowsStepKeeps DEF CallAsRole
  <1> QED BY <1>1, <1>2, <1>3 DEF Body, Statement, ExecSetsClaims

\* A new session has no rows.
LEMMA InitRows == Init => RowsInTransaction
  BY DEF Init, Connected, RowsInTransaction

\* Everything IInv says holds at every step: the actors of the theorem above
\* and the rows of the two below.
THEOREM RowsInvariant ==
    ASSUME ~BodySetsClaims, ~CtxCancels
    PROVE  Spec => []IInv
  <1>1. ActorInv /\ RowsInTransaction /\ [Next]_vars => RowsInTransaction'
    <2> SUFFICES ASSUME ActorInv, RowsInTransaction, [Next]_vars
                 PROVE  RowsInTransaction'
      OBVIOUS
    <2>1. SavepointInv /\ TypeOK /\ NoCancellation
      BY DEF ActorInv, SavepointInv
    <2>2. CASE Body
      BY <2>1, <2>2, BodyRows
    <2>3. CASE AsRole
      BY <2>1, <2>3, AsRoleRows, RowsStepKeeps
    <2>4. CASE World
      BY <2>1, <2>4, WorldRows
    <2>5. CASE UNCHANGED vars
      BY <2>5 DEF vars, RowsInTransaction
    <2> QED BY <2>2, <2>3, <2>4, <2>5 DEF Next
  <1>2. ActorInv /\ RowsInTransaction => IInv
    BY DEF IInv, RowsInv, ActorInv
  <1> QED BY <1>1, <1>2, ActorInvariant, InitRows, PTL DEF Spec

\* No interleaving of blocks, errors, probes, lost connections and reused
\* clients makes a row a test wrote inside transaction() visible to others.
THEOREM TestRowsNeverCommit ==
    ASSUME ~BodySetsClaims, ~CtxCancels
    PROVE  Spec => []TestWritesNeverCommit
  <1>1. IInv => TestWritesNeverCommit
    BY DEF IInv, RowsInv, RowsInTransaction, TestWritesNeverCommit
  <1> QED BY <1>1, RowsInvariant, PTL

\* The next test on the same connection starts from the login role and
\* without the rows of the test before it.
THEOREM NextTestStartsClean ==
    ASSUME ~BodySetsClaims, ~CtxCancels
    PROVE  Spec => []NothingLeftBehind
  <1>1. IInv => NothingLeftBehind
    <2> SUFFICES ASSUME IInv, ~inTx, Depth = 0, session.tx # "lost"
                 PROVE  /\ "inside" \notin session.dirty
                        /\ session.tx # "failed" => session.role = Login
      BY DEF NothingLeftBehind
    <2>1. session.tx \in {"idle", "open", "failed"}
      BY DEF IInv, ActorInv, SavepointInv, TypeOK, Session
    <2>2. session.tx # "failed" => session.role = Login
      BY <2>1 DEF IInv, ActorInv, SessionRole
    <2> QED BY <2>2 DEF IInv, RowsInv, RowsInTransaction
  <1> QED BY <1>1, RowsInvariant, PTL
\* The claims a body sees are those of its block: none of a scenario's claims
\* reach the next one, and a block without claims sees those around it.
THEOREM ClaimsStayInBlock ==
    ASSUME ~BodySetsClaims, ~CtxCancels
    PROVE  Spec => []ClaimsFollowBlock
  BY BodiesRunAsTheirBlock, PTL
-------------------------------------------------------------------------------
(* The refinement: nested calls of as_role implement nested scenario blocks. *)

\* What the statements of a body may do to the records of what ran.
LEMMA StatementRecords ==
    ASSUME Statement \/ \E j \in Json : ExecSetsClaims(j)
    PROVE  /\ AtBody /\ UNCHANGED <<frames, inTx, tests, currentRole, cancelled>>
           /\ \/ UNCHANGED <<ran, loginRole>>
              \/ Runs /\ RanUncaptured
              \/ Runs /\ RanCaptured
  BY DEF Statement, Exec, ExecSetsClaims, StatementFails, Seed, RaiseInBody, CatchInBody,
         AssertRowCount, AssertSilentlyDropped, AssertRejected, InBody, Control

\* The actors of the abstract specification.
BlockActors == [i \in 1 .. Entered |-> Actor(BlockRole(i), BlockClaims(i))]
BlockRan == Actor(ran.role, Claimless(ran.claims))

\* The calls a body has entered, and whether the innermost one is entered.
LEMMA EnteredIs ==
    ASSUME ActorInv
    PROVE  /\ Depth \in Nat /\ Entered \in 0 .. Depth
           /\ (AtBody => Entered = Depth)
           /\ (Depth > 0 => Entered = IF Top.pc \in Entering THEN Depth - 1 ELSE Depth)
  <1>1. Depth \in Nat
    BY DEF ActorInv, SavepointInv, TypeOK, Depth
  <1> QED BY <1>1 DEF Entered, AtBody, Entering

\* Their actors are a sequence of actors.
LEMMA ActorsAreTyped ==
    ASSUME ActorInv, NEW i \in 1 .. Depth
    PROVE  Actor(BlockRole(i), BlockClaims(i)) \in [role : Roles, claims : Json \cup {NoValue}]
  <1>1. frames[i] \in Frame
    BY DEF ActorInv, SavepointInv, TypeOK, Depth
  <1>2. BlockRole(i) \in Roles /\ BlockClaims(i) \in Json \cup {NoValue}
    BY <1>1 DEF BlockRole, BlockClaims, Frame, Claimless
  <1> QED BY <1>2 DEF Actor

\* What the abstract specification sees of call i is fixed once it is entered.
Same(i) == /\ frames'[i].role = frames[i].role /\ frames'[i].claims = frames[i].claims
           /\ frames'[i].prevClaims = frames[i].prevClaims
LEMMA SameActor ==
    ASSUME NEW i \in Nat \ {0}, Same(i)
    PROVE  Actor(BlockRole(i), BlockClaims(i))' = Actor(BlockRole(i), BlockClaims(i))
  BY DEF Same, Actor, BlockRole, BlockClaims, Claimless

\* The three ways a step changes the stack of actors.
LEMMA StackSteps ==
    ASSUME ActorInv, NEW n \in Nat, n = Entered', \A i \in 1 .. n : Same(i)
    PROVE  /\ n = Entered => BlockActors' = BlockActors
           /\ n = Entered + 1 => BlockActors' =
                  Append(BlockActors, Actor(BlockRole(n), BlockClaims(n)))
           /\ n = Entered - 1 => /\ BlockActors # <<>>
                                 /\ BlockActors' = SubSeq(BlockActors, 1, Len(BlockActors) - 1)
  <1> DEFINE A(i) == Actor(BlockRole(i), BlockClaims(i))
  <1>1. \A i \in 1 .. n : A(i)' = A(i)
    BY SameActor
  <1>2. Entered \in Nat
    BY EnteredIs
  <1>3. BlockActors' = [i \in 1 .. n |-> A(i)]
    BY <1>1 DEF BlockActors
  <1>4. BlockActors = [i \in 1 .. Entered |-> A(i)]
    BY DEF BlockActors
  <1> HIDE DEF A
  <1>5. n = Entered => BlockActors' = BlockActors
    BY <1>3, <1>4
  <1>6. n = Entered + 1 => BlockActors' = Append(BlockActors, A(n))
    BY <1>2, <1>3, <1>4
  <1>7. n = Entered - 1 => /\ BlockActors # <<>>
                           /\ BlockActors' = SubSeq(BlockActors, 1, Len(BlockActors) - 1)
    BY <1>2, <1>3, <1>4
  <1>8. A(n) = Actor(BlockRole(n), BlockClaims(n))
    BY DEF A
  <1> QED BY <1>5, <1>6, <1>7, <1>8
\* The steps of the abstract specification, or none.
BlockEnters == /\ \E a \in [role : Roles, claims : Json \cup {NoValue}] :
                      BlockActors' = Append(BlockActors, a)
               /\ BlockRan' = BlockRan
BlockLeaves == /\ BlockActors # <<>> /\ BlockRan' = BlockRan
               /\ BlockActors' = SubSeq(BlockActors, 1, Len(BlockActors) - 1)
BlockRuns == /\ BlockActors' = BlockActors
             /\ BlockRan' = IF BlockActors = <<>> THEN Actor(Login, NoValue)
                            ELSE BlockActors[Len(BlockActors)]
BlockRests == BlockActors' = BlockActors /\ BlockRan' = BlockRan
BlockStep == BlockEnters \/ BlockLeaves \/ BlockRuns \/ BlockRests

\* A statement of a body runs as the innermost actor.
LEMMA StatementRuns ==
    ASSUME ActorInv, Statement
    PROVE  BlockStep
  <1>1. /\ AtBody /\ UNCHANGED frames
        /\ \/ UNCHANGED ran
           \/ Runs /\ Ran(NoValue)
           \/ Runs /\ Ran(ActiveRole)
    BY StatementRecords DEF RanUncaptured, RanCaptured
  <1>2. BlockActors' = BlockActors
    BY <1>1 DEF BlockActors, Entered, Depth, Top, Actor, BlockRole, BlockClaims, Claimless
  <1>3. CASE UNCHANGED ran
    BY <1>2, <1>3 DEF BlockStep, BlockRests, BlockRan, Actor, Claimless
  <1>4. CASE Runs /\ ran'.role = session.role /\ ran'.claims = CurrentClaims(session)
    <2>1. session \in Session /\ Depth \in Nat /\ Entered = Depth
      BY <1>1, EnteredIs DEF ActorInv, SavepointInv, TypeOK
    <2>2. Usable(session) /\ Claimless(CurrentClaims(session)) = Claimless(session.claims)
      BY <1>4, <2>1, ClaimsRoundTrip DEF Runs, Sent, Usable, Session
    <2>3. BlockRan' = Actor(session.role, Claimless(session.claims))
      BY <1>4, <2>2 DEF BlockRan, Actor, Claimless
    <2>4. CASE Depth = 0
      <3>1. BlockActors = <<>>
        BY <2>1, <2>4 DEF BlockActors
      <3>2. session.role = Login /\ Claimless(session.claims) = NoValue
        BY <2>2, <2>4 DEF ActorInv, SessionRole, SessionClaims, Usable
      <3> QED BY <1>2, <2>3, <3>1, <3>2 DEF BlockStep, BlockRuns
    <2>5. CASE Depth > 0
      <3>1. BlockActors # <<>> /\ BlockActors[Len(BlockActors)] =
                                      Actor(BlockRole(Depth), BlockClaims(Depth))
        BY <2>1, <2>5 DEF BlockActors
      <3>2. session.role = BlockRole(Depth) /\ Claimless(session.claims) = BlockClaims(Depth)
        <4>1. Top.pc = "body" /\ BlockRole(Depth) = Top.role
          BY <1>1, <2>5, TopActor DEF AtBody
        <4> QED BY <2>2, <2>5, <4>1 DEF ActorInv, SessionRole, SessionClaims, Usable, HasRole,
                                        HasClaims
      <3> QED BY <1>2, <2>3, <3>1, <3>2 DEF BlockStep, BlockRuns
    <2> QED BY <2>1, <2>4, <2>5
  <1> QED BY <1>1, <1>3, <1>4 DEF Ran

\* The innermost call moves on: the body enters it, or nothing is seen.
LEMMA MoveRefines ==
    ASSUME ActorInv, Depth > 0, UNCHANGED ran,
           NEW g \in Frame, frames' = [frames EXCEPT ![Depth] = g],
           \/ Top.pc \in Entering /\ g.pc \in Entering
           \/ /\ g.pc \notin Entering
              /\ g.role = Top.role /\ g.claims = Top.claims /\ g.prevClaims = Top.prevClaims
    PROVE  BlockStep
  <1>1. frames \in Seq(Frame) /\ frames # <<>>
    BY DEF ActorInv, SavepointInv, TypeOK, Depth
  <1>2. /\ Depth \in Nat \ {0} /\ Depth' = Depth /\ Top' = g
        /\ frames'[Depth] = g /\ \A i \in 1 .. Depth - 1 : frames'[i] = frames[i]
    BY <1>1, FrameUpdate DEF Depth, Top
  <1>3. Entered = IF Top.pc \in Entering THEN Depth - 1 ELSE Depth
    BY EnteredIs
  <1>4. Entered' = IF g.pc \in Entering THEN Depth - 1 ELSE Depth
    BY <1>2 DEF Entered, Entering
  <1>5. BlockRan' = BlockRan
    BY DEF BlockRan, Actor, Claimless
  <1>6. CASE Top.pc \in Entering /\ g.pc \in Entering
    <2>1. Depth - 1 \in Nat /\ Depth - 1 = Entered' /\ Depth - 1 = Entered
      BY <1>2, <1>3, <1>4, <1>6
    <2>2. \A i \in 1 .. Depth - 1 : Same(i)
      BY <1>2 DEF Same
    <2>3. BlockActors' = BlockActors
      BY <2>1, <2>2, StackSteps
    <2> QED BY <1>5, <2>3 DEF BlockStep, BlockRests
  <1>7. CASE g.pc \notin Entering /\ g.role = Top.role /\ g.claims = Top.claims
             /\ g.prevClaims = Top.prevClaims
    <2>1. Depth \in Nat /\ Depth = Entered' /\ (Depth = Entered \/ Depth = Entered + 1)
      BY <1>2, <1>3, <1>4, <1>7
    <2>2. \A i \in 1 .. Depth : Same(i)
      <3>1. \A i \in 1 .. Depth : i = Depth \/ i \in 1 .. Depth - 1
        BY <1>2
      <3> QED BY <1>2, <1>7, <3>1 DEF Same, Top
    <2>3. CASE Depth = Entered
      BY <1>5, <2>1, <2>2, <2>3, StackSteps DEF BlockStep, BlockRests
    <2>4. CASE Depth = Entered + 1
      <3>1. BlockActors' = Append(BlockActors, Actor(BlockRole(Depth), BlockClaims(Depth)))
        BY <2>1, <2>2, <2>4, StackSteps
      <3>2. Depth \in 1 .. Depth
        BY <1>2
      <3>3. Actor(BlockRole(Depth), BlockClaims(Depth))
                \in [role : Roles, claims : Json \cup {NoValue}]
        BY <3>2, ActorsAreTyped
      <3> QED BY <1>5, <3>1, <3>3 DEF BlockStep, BlockEnters
    <2> QED BY <2>1, <2>3, <2>4
  <1> QED BY <1>6, <1>7

\* The innermost call is over: the body leaves it if it had entered it.
LEMMA PopRefines ==
    ASSUME ActorInv, Depth > 0, UNCHANGED ran, Pop
    PROVE  BlockStep
  <1>1. frames \in Seq(Frame) /\ frames # <<>>
    BY DEF ActorInv, SavepointInv, TypeOK, Depth
  <1>2. /\ Depth \in Nat \ {0} /\ Depth' = Depth - 1
        /\ \A i \in 1 .. Depth - 1 : frames'[i] = frames[i]
    BY <1>1, FramePop DEF Depth, Pop
  <1>3. Depth > 1 => Top'.pc = "body"
    <2> SUFFICES ASSUME Depth > 1 PROVE Top'.pc = "body"
      OBVIOUS
    <2>1. Depth - 1 \in 1 .. Depth - 1
      BY <1>2
    <2> QED BY <1>2, <2>1 DEF Top, ActorInv, SavepointInv, OuterInBody
  <1>4. Entered' = Depth - 1
    BY <1>2, <1>3 DEF Entered, Entering
  <1>5. Entered = Depth - 1 \/ Entered = Depth
    BY <1>2, EnteredIs
  <1>6. BlockRan' = BlockRan
    BY DEF BlockRan, Actor, Claimless
  <1>7. \A i \in 1 .. Depth - 1 : Same(i)
    BY <1>2 DEF Same
  <1>8. Depth - 1 \in Nat /\ (Depth - 1 = Entered \/ Depth - 1 = Entered - 1)
    BY <1>2, <1>5
  <1>9. BlockActors' = BlockActors
        \/ /\ BlockActors # <<>>
           /\ BlockActors' = SubSeq(BlockActors, 1, Len(BlockActors) - 1)
    BY <1>4, <1>7, <1>8, StackSteps
  <1> QED BY <1>6, <1>9 DEF BlockStep, BlockRests, BlockLeaves

\* A call begins: nothing is seen before its block is entered.
LEMMA CallRefines ==
    ASSUME ActorInv, NEW r \in Roles, NEW c \in Json \cup {NoValue}, CallAsRole(r, c)
    PROVE  BlockStep
  <1> DEFINE g == [role |-> r, claims |-> c, captured |-> NoValue, prevUser |-> Login,
                   prevClaims |-> NoValue, outerRole |-> currentRole, sp |-> 0,
                   pc |-> "capture"]
  <1>1. TypeOK
    BY DEF ActorInv, SavepointInv
  <1>2. g \in Frame /\ g.pc = "capture"
    BY <1>1 DEF TypeOK, Frame, ClaimsValue
  <1>3. frames \in Seq(Frame) /\ frames' = Append(frames, g) /\ UNCHANGED ran /\ AtBody
    BY <1>1 DEF CallAsRole, TypeOK, InBody
  <1> HIDE DEF g
  <1>4. /\ Depth \in Nat /\ Depth' = Depth + 1 /\ Top' = g
        /\ \A i \in 1 .. Depth : frames'[i] = frames[i]
    BY <1>2, <1>3, FramePush DEF Depth, Top
  <1>5. Entered' = Depth /\ Entered = Depth
    BY <1>2, <1>3, <1>4, EnteredIs DEF Entered, Entering
  <1>6. \A i \in 1 .. Depth : Same(i)
    BY <1>4 DEF Same
  <1>7. BlockActors' = BlockActors
    BY <1>4, <1>5, <1>6, StackSteps
  <1> QED BY <1>3, <1>7 DEF BlockStep, BlockRests, BlockRan, Actor, Claimless
\* Each statement of as_role.
LEMMA AsRoleRefines ==
    ASSUME ActorInv, AsRole
    PROVE  BlockStep
  <1>1. Depth > 0 /\ UNCHANGED ran
    BY DEF AsRole, CaptureActor, OpenSavepoint, SwitchRole, InstallClaims, ReleaseSavepoint,
           RestoreRole, RestoreClaims, RollbackToSavepoint, Elsewhere
  <1>2. Top \in Frame
    BY <1>1, TopActor
  <1>3. ASSUME Pop PROVE BlockStep
    BY <1>1, <1>3, PopRefines
  <1>4. ASSUME NEW pc, Goto(pc),
               \/ pc \in {"setclaims", "undo"} /\ Top.pc \in Entering
               \/ pc \in {"body", "restorerole", "restoreclaims"}
        PROVE  BlockStep
    <2> DEFINE g == [Top EXCEPT !.pc = pc]
    <2>1. /\ g.pc = pc /\ g.role = Top.role /\ g.claims = Top.claims
          /\ g.prevClaims = Top.prevClaims
      BY <1>2 DEF Frame
    <2>2. frames' = [frames EXCEPT ![Depth] = g]
      BY <1>4 DEF Goto, Top
    <2>3. g \in Frame
      BY <1>2, <1>4 DEF Frame, Entering
    <2> HIDE DEF g
    <2> QED BY <1>1, <1>4, <2>1, <2>2, <2>3, MoveRefines DEF Entering
  <1>5. CASE CaptureActor
    <2>1. CASE /\ Runs
               /\ frames' = [frames EXCEPT ![Depth].prevUser = session.role,
                                      ![Depth].captured = CurrentClaims(session),
                                      ![Depth].prevClaims = PrevClaims(session),
                                      ![Depth].pc = "savepoint"]
      <3> DEFINE g == [Top EXCEPT !.prevUser = session.role,
                                  !.captured = CurrentClaims(session),
                                  !.prevClaims = PrevClaims(session),
                                  !.pc = "savepoint"]
      <3>1. session \in Session
        BY <1>1, TopActor
      <3>2. session.role \in Roles \cup {Login} /\ CurrentClaims(session) \in ClaimsValue
            /\ PrevClaims(session) \in ClaimsValue
        BY <3>1, SessionOps DEF Session, PrevClaims, ClaimsValue
      <3>3. g \in Frame /\ g.pc = "savepoint"
        BY <1>2, <3>2 DEF Frame
      <3>4. frames' = [frames EXCEPT ![Depth] = g]
        BY <2>1 DEF Top
      <3>5. Top.pc = "capture"
        BY <1>5 DEF CaptureActor
      <3> HIDE DEF g
      <3> QED BY <1>1, <3>3, <3>4, <3>5, MoveRefines DEF Entering
    <2> QED BY <1>3, <1>5, <2>1 DEF CaptureActor, Raises
  <1>6. CASE OpenSavepoint
    <2>1. CASE frames' = [frames EXCEPT ![Depth].sp = Len(session.saves) + 1,
                                        ![Depth].pc = "setrole"]
      <3> DEFINE g == [Top EXCEPT !.sp = Len(session.saves) + 1, !.pc = "setrole"]
      <3>1. Len(session.saves) + 1 \in Nat
        BY <1>1, TopActor DEF Session
      <3>2. g \in Frame /\ g.pc = "setrole"
        BY <1>2, <3>1 DEF Frame
      <3>3. frames' = [frames EXCEPT ![Depth] = g]
        BY <2>1 DEF Top
      <3>4. Top.pc = "savepoint"
        BY <1>6 DEF OpenSavepoint
      <3> HIDE DEF g
      <3> QED BY <1>1, <3>2, <3>3, <3>4, MoveRefines DEF Entering
    <2> QED BY <1>3, <1>6, <2>1 DEF OpenSavepoint, Raises
  <1>7. CASE SwitchRole \/ InstallClaims
    BY <1>4, <1>7 DEF SwitchRole, InstallClaims, EntryFails, RefusedLocally, Enter, Entering
  <1>8. CASE ReleaseSavepoint \/ RestoreRole \/ RestoreClaims \/ RollbackToSavepoint
    BY <1>3, <1>4, <1>8 DEF ReleaseSavepoint, RestoreRole, RestoreClaims,
                            RollbackToSavepoint, Raises, Leaves
  <1> QED BY <1>5, <1>6, <1>7, <1>8 DEF AsRole

\* The body returns or raises: it is in its block until as_role is done.
LEMMA BodyEndsRefines ==
    ASSUME ActorInv, BodyEnds
    PROVE  BlockStep
  <1> DEFINE g == [Top EXCEPT !.pc = IF raised THEN "rollbackto" ELSE "release"]
  <1>1. Depth > 0 /\ Top \in Frame /\ UNCHANGED ran
    BY TopActor DEF BodyEnds
  <1>2. /\ g \in Frame /\ g.pc \in {"rollbackto", "release"} /\ g.role = Top.role
        /\ g.claims = Top.claims /\ g.prevClaims = Top.prevClaims
    BY <1>1 DEF Frame
  <1>3. frames' = [frames EXCEPT ![Depth] = g]
    BY DEF BodyEnds, Top
  <1> HIDE DEF g
  <1> QED BY <1>1, <1>2, <1>3, MoveRefines DEF Entering

\* Every statement of a test body runs as the actor of its innermost block: the
\* statements as_role sends, in whatever order they fail, implement the stack of
\* actors a test author is promised.
THEOREM BlocksImplemented ==
    ASSUME ~BodySetsClaims, ~CtxCancels
    PROVE  Spec => ImplementsBlocks
  <1>1. Init => Block!Init
    BY DEF Init, Block!Init, Entered, Depth, Actor, Claimless
  <1>2. ASSUME ActorInv, [Next]_vars PROVE BlockStep
    <2>1. CASE UNCHANGED vars \/ World
      <3>1. UNCHANGED <<frames, ran>>
        BY <2>1 DEF vars, World, BeginTransaction, EndTransaction, CloseConnection,
                    Disconnect, CancelContext
      <3> QED BY <3>1 DEF BlockStep, BlockRests, BlockActors, BlockRan, Entered, Depth, Top,
                          Actor, BlockRole, BlockClaims, Claimless
    <2>2. CASE Body
      BY <1>2, <2>2, StatementRuns, BodyEndsRefines, CallRefines
         DEF Body, Statement, ExecSetsClaims
    <2> QED BY <1>2, <2>1, <2>2, AsRoleRefines DEF Next
  <1>3. BlockStep =>
            [Block!Next]_<<[i \in 1 .. Entered |-> Actor(BlockRole(i), BlockClaims(i))],
                           Actor(ran.role, Claimless(ran.claims))>>
    BY DEF BlockStep, BlockEnters, BlockLeaves, BlockRuns, BlockRests, BlockActors, BlockRan,
           Block!Next, Block!Enter, Block!Leave, Block!Run, Block!Innermost
  <1> QED BY <1>1, <1>2, <1>3, ActorInvariant, PTL DEF Spec, ImplementsBlocks, Block!Spec

-------------------------------------------------------------------------------
(* What unwinding a block brings back.  Without any assumption on contexts *)
(* and bodies: an aborted transaction becomes usable again only as the     *)
(* actor some block captured.  For Python, where a body may also set the   *)
(* claims GUC itself: the role of the enclosing block, the claims that     *)
(* were found, and the role coverage attributes statements to.             *)

\* A statement of as_role leaves the savepoints of the enclosing calls, and
\* until the block is entered its own.
LEMMA AsRoleSaves ==
    ASSUME SavepointInv, AsRole
    PROVE  /\ OuterSaves /\ session' \in Session
           /\ Top.pc \in {"setrole", "setclaims"} =>
                  session'.saves[Top.sp] = session.saves[Top.sp]
  <1>1. TypeOK /\ session \in Session /\ Depth > 0
    BY DEF SavepointInv, TypeOK, AsRole, CaptureActor, OpenSavepoint, SwitchRole,
           InstallClaims, ReleaseSavepoint, RestoreRole, RestoreClaims, RollbackToSavepoint
  <1>2. /\ Depth \in Nat \ {0} /\ Top \in Frame /\ Len(session.saves) \in Nat
        /\ \A i \in 1 .. Depth - 1 : frames[i].sp \in 1 .. Len(session.saves)
        /\ (Top.pc \in Holding =>
              /\ Top.sp \in 1 .. Len(session.saves)
              /\ \A i \in 1 .. Depth - 1 : frames[i].sp < Top.sp)
    BY <1>1, TopFacts
  <1>3. session' \in Session
    BY AsRoleKeepsSavepointInv DEF SavepointInv, TypeOK
  <1>4. ASSUME Keeps(session, session') \/ session'.saves = session.saves
        PROVE  /\ OuterSaves
               /\ Top.pc \in {"setrole", "setclaims"} =>
                      session'.saves[Top.sp] = session.saves[Top.sp]
    BY <1>2, <1>4 DEF OuterSaves, Keeps, Holding
  <1>5. ASSUME session' \in {session, Started, AfterError} PROVE Keeps(session, session')
    BY <1>1, <1>5, StartedKeeps, KeepsBasics
  <1>6. /\ \A r : SetLocalRole(session, r).saves = session.saves
        /\ \A v : SetConfig(session, v).saves = session.saves
    BY <1>1 DEF Session, SetLocalRole, SetConfig
  <1>7. CASE CaptureActor
    BY <1>3, <1>4, <1>5, <1>7 DEF CaptureActor
  <1>8. CASE OpenSavepoint
    <2>1. CASE session' = Savepoint(session)
      <3>1. \A i \in 1 .. Len(session.saves) : session'.saves[i] = session.saves[i]
        BY <1>1, <2>1, SavepointOp
      <3> QED BY <1>2, <1>3, <1>8, <3>1 DEF OuterSaves, OpenSavepoint
    <2> QED BY <1>3, <1>4, <1>5, <1>8, <2>1 DEF OpenSavepoint
  <1>9. CASE SwitchRole
    BY <1>3, <1>4, <1>5, <1>6, <1>9 DEF SwitchRole, EntryFails, RefusedLocally
  <1>10. CASE InstallClaims
    BY <1>3, <1>4, <1>5, <1>6, <1>10 DEF InstallClaims, EntryFails, RefusedLocally
  <1>11. CASE ReleaseSavepoint
    <2>1. Top.pc = "release" /\ Top.pc \in Holding
      BY <1>11 DEF ReleaseSavepoint, Holding
    <2>2. CASE session' = Release(session, Top.sp)
      <3>1. \A i \in 1 .. Top.sp - 1 : session'.saves[i] = session.saves[i]
        BY <1>1, <1>2, <2>1, <2>2, ReleaseOp
      <3>2. \A i \in 1 .. Depth - 1 : frames[i].sp \in 1 .. Top.sp - 1
        BY <1>2, <2>1
      <3> QED BY <1>3, <2>1, <3>1, <3>2 DEF OuterSaves
    <2> QED BY <1>3, <1>4, <1>5, <1>11, <2>2 DEF ReleaseSavepoint
  <1>12. CASE RestoreRole
    BY <1>3, <1>4, <1>5, <1>6, <1>12 DEF RestoreRole
  <1>13. CASE RestoreClaims
    BY <1>3, <1>4, <1>5, <1>6, <1>13 DEF RestoreClaims
  <1>14. CASE RollbackToSavepoint
    <2>1. Top.pc \notin {"setrole", "setclaims"} /\ Top.pc \in Holding
      BY <1>14 DEF RollbackToSavepoint, Holding
    <2>2. CASE session' = RollbackTo(session, Top.sp)
      <3>1. \A i \in 1 .. Top.sp : session'.saves[i] = session.saves[i]
        BY <1>1, <1>2, <2>1, <2>2, RollbackToOp
      <3>2. \A i \in 1 .. Depth - 1 : frames[i].sp \in 1 .. Top.sp
        BY <1>2, <2>1
      <3> QED BY <1>3, <2>1, <3>1, <3>2 DEF OuterSaves
    <2> QED BY <1>3, <1>4, <1>5, <1>14, <2>2 DEF RollbackToSavepoint
  <1> QED BY <1>7, <1>8, <1>9, <1>10, <1>11, <1>12, <1>13, <1>14 DEF AsRole

\* What CapturedHeld says of one call.
Held(f, s) == /\ f.pc = "savepoint" /\ Usable(s) =>
                     /\ s.role = f.prevUser
                     /\ Claimless(s.claims) = Claimless(f.captured)
              /\ f.pc \in Holding =>
                     /\ s.saves[f.sp].role = f.prevUser
                     /\ Claimless(s.saves[f.sp].claims) = Claimless(f.captured)
LEMMA CapturedHeldIs == CapturedHeld <=> \A i \in 1 .. Depth : Held(frames[i], session)
  BY DEF CapturedHeld, Held, UsableNow, Usable

\* The innermost call moves on: only it has to be looked at.
LEMMA HeldUpdate ==
    ASSUME HeldInv, SavepointInv', Depth > 0, OuterSaves,
           NEW g \in Frame, frames' = [frames EXCEPT ![Depth] = g], Held(g, session')
    PROVE  HeldInv'
  <1>1. frames \in Seq(Frame) /\ frames # <<>>
    BY DEF HeldInv, SavepointInv, TypeOK, Depth
  <1>2. /\ Depth \in Nat \ {0} /\ Depth' = Depth
        /\ frames'[Depth] = g /\ \A i \in 1 .. Depth - 1 : frames'[i] = frames[i]
    BY <1>1, FrameUpdate DEF Depth
  <1>3. \A i \in 1 .. Depth - 1 : /\ i \in 1 .. Depth /\ frames[i].pc = "body"
                                  /\ Held(frames[i], session)
    BY <1>2, CapturedHeldIs DEF HeldInv, SavepointInv, OuterInBody
  <1>4. \A i \in 1 .. Depth - 1 : Held(frames[i], session')
    BY <1>3 DEF Held, OuterSaves, Holding
  <1>5. \A i \in 1 .. Depth : Held(frames'[i], session')
    BY <1>2, <1>4
  <1> QED BY <1>2, <1>5 DEF HeldInv, CapturedHeld, Held, UsableNow, Usable, Claimless

\* The innermost call is over.
LEMMA HeldPop ==
    ASSUME HeldInv, SavepointInv', Depth > 0, OuterSaves,
           frames' = SubSeq(frames, 1, Depth - 1)
    PROVE  HeldInv'
  <1>1. frames \in Seq(Frame) /\ frames # <<>>
    BY DEF HeldInv, SavepointInv, TypeOK, Depth
  <1>2. /\ Depth \in Nat \ {0} /\ Depth' = Depth - 1
        /\ \A i \in 1 .. Depth - 1 : frames'[i] = frames[i]
    BY <1>1, FramePop DEF Depth
  <1>3. \A i \in 1 .. Depth - 1 : /\ i \in 1 .. Depth /\ frames[i].pc = "body"
                                  /\ Held(frames[i], session)
    BY <1>2, CapturedHeldIs DEF HeldInv, SavepointInv, OuterInBody
  <1>4. \A i \in 1 .. Depth - 1 : Held(frames'[i], session')
    BY <1>2, <1>3 DEF Held, OuterSaves, Holding
  <1> QED BY <1>2, <1>4 DEF HeldInv, CapturedHeld, Held, UsableNow, Usable, Claimless

\* The calls stay where they are.
LEMMA HeldStutter ==
    ASSUME HeldInv, SavepointInv', UNCHANGED frames, Keeps(session, session'),
           KeepsActor(session, session') \/ AtBody
    PROVE  HeldInv'
  <1>1. \A i \in 1 .. Depth : frames[i].pc = "savepoint" => ~AtBody
    BY DEF HeldInv, SavepointInv, OuterInBody, AtBody, Top, TypeOK, Depth
  <1>2. \A i \in 1 .. Depth : Held(frames[i], session)
    BY CapturedHeldIs DEF HeldInv
  <1>3. \A i \in 1 .. Depth : frames[i].pc \in Holding =>
            session'.saves[frames[i].sp] = session.saves[frames[i].sp]
    BY DEF HeldInv, SavepointInv, SavepointsHeld, Keeps
  <1>4. \A i \in 1 .. Depth : Held(frames[i], session')
    BY <1>1, <1>2, <1>3 DEF Held, KeepsActor
  <1> QED BY <1>4 DEF HeldInv, CapturedHeld, Held, UsableNow, Usable, Claimless, Depth

\* Each statement of as_role.
LEMMA AsRoleKeepsHeld ==
    ASSUME HeldInv, AsRole
    PROVE  HeldInv'
  <1>1. SavepointInv /\ SavepointInv' /\ TypeOK /\ session \in Session /\ Depth > 0
    BY AsRoleKeepsSavepointInv
       DEF HeldInv, SavepointInv, TypeOK, AsRole, CaptureActor, OpenSavepoint, SwitchRole,
           InstallClaims, ReleaseSavepoint, RestoreRole, RestoreClaims, RollbackToSavepoint
  <1>2. /\ OuterSaves
        /\ Top.pc \in {"setrole", "setclaims"} =>
               session'.saves[Top.sp] = session.saves[Top.sp]
    BY <1>1, AsRoleSaves
  <1>3. Top \in Frame /\ Held(Top, session)
    BY <1>1, TopFacts, CapturedHeldIs DEF HeldInv, Top
  <1>4. ASSUME Pop PROVE HeldInv'
    BY <1>1, <1>2, <1>4, HeldPop DEF Pop
  <1>5. ASSUME NEW pc, Goto(pc),
               \/ pc \in {"restorerole", "restoreclaims"}
               \/ /\ pc \in {"setclaims", "body", "undo"}
                  /\ Top.pc \in {"setrole", "setclaims"}
        PROVE  HeldInv'
    <2> DEFINE g == [Top EXCEPT !.pc = pc]
    <2>1. /\ g \in Frame /\ g.pc = pc /\ g.sp = Top.sp /\ g.prevUser = Top.prevUser
          /\ g.captured = Top.captured
      BY <1>3, <1>5 DEF Frame
    <2>2. frames' = [frames EXCEPT ![Depth] = g]
      BY <1>5 DEF Goto, Top
    <2>3. Held(g, session')
      BY <1>2, <1>3, <1>5, <2>1 DEF Held, Holding
    <2> HIDE DEF g
    <2> QED BY <1>1, <1>2, <2>1, <2>2, <2>3, HeldUpdate
  <1>6. CASE CaptureActor
    <2>1. CASE /\ Runs /\ session' = Started
               /\ frames' = [frames EXCEPT ![Depth].prevUser = session.role,
                                      ![Depth].captured = CurrentClaims(session),
                                      ![Depth].prevClaims = PrevClaims(session),
                                      ![Depth].pc = "savepoint"]
      <3> DEFINE g == [Top EXCEPT !.prevUser = session.role,
                                  !.captured = CurrentClaims(session),
                                  !.prevClaims = PrevClaims(session),
                                  !.pc = "savepoint"]
      <3>1. session.role \in Roles \cup {Login} /\ CurrentClaims(session) \in ClaimsValue
            /\ PrevClaims(session) \in ClaimsValue
        BY <1>1, SessionOps DEF Session, PrevClaims, ClaimsValue
      <3>2. /\ g \in Frame /\ g.pc = "savepoint" /\ g.prevUser = session.role
            /\ g.captured = CurrentClaims(session)
        BY <1>3, <3>1 DEF Frame
      <3>3. frames' = [frames EXCEPT ![Depth] = g]
        BY <2>1 DEF Top
      <3>4. KeepsActor(session, session')
        BY <1>1, <2>1, StartedKeeps
      <3>5. Held(g, session')
        BY <1>1, <3>2, <3>4, ClaimsRoundTrip DEF Held, KeepsActor, Holding
      <3> HIDE DEF g
      <3> QED BY <1>1, <1>2, <3>2, <3>3, <3>5, HeldUpdate
    <2> QED BY <1>4, <1>6, <2>1 DEF CaptureActor, Raises
  <1>7. CASE OpenSavepoint
    <2>1. CASE /\ Runs /\ session.tx = "open" /\ session' = Savepoint(session)
               /\ frames' = [frames EXCEPT ![Depth].sp = Len(session.saves) + 1,
                                           ![Depth].pc = "setrole"]
      <3> DEFINE g == [Top EXCEPT !.sp = Len(session.saves) + 1, !.pc = "setrole"]
      <3>1. Len(session.saves) + 1 \in Nat
        BY <1>1 DEF Session
      <3>2. /\ g \in Frame /\ g.sp = Len(session.saves) + 1 /\ g.pc = "setrole"
            /\ g.prevUser = Top.prevUser /\ g.captured = Top.captured
        BY <1>3, <3>1 DEF Frame
      <3>3. frames' = [frames EXCEPT ![Depth] = g]
        BY <2>1 DEF Top
      <3>4. session'.saves[Len(session.saves) + 1] = SnapshotOf(session)
        BY <1>1, <2>1, SavepointOp
      <3>5. /\ session.role = Top.prevUser
            /\ Claimless(session.claims) = Claimless(Top.captured)
        BY <1>3, <1>7, <2>1 DEF Held, OpenSavepoint, Usable
      <3>6. Held(g, session')
        BY <3>2, <3>4, <3>5 DEF Held, SnapshotOf
      <3> HIDE DEF g
      <3> QED BY <1>1, <1>2, <3>2, <3>3, <3>6, HeldUpdate
    <2> QED BY <1>4, <1>7, <2>1 DEF OpenSavepoint, Raises
  <1>8. CASE SwitchRole
    BY <1>5, <1>8 DEF SwitchRole, EntryFails, RefusedLocally, Enter
  <1>9. CASE InstallClaims
    BY <1>5, <1>9 DEF InstallClaims, EntryFails, RefusedLocally, Enter
  <1>10. CASE ReleaseSavepoint \/ RestoreRole \/ RestoreClaims \/ RollbackToSavepoint
    BY <1>4, <1>5, <1>10 DEF ReleaseSavepoint, RestoreRole, RestoreClaims,
                             RollbackToSavepoint, Raises, Leaves
  <1> QED BY <1>6, <1>7, <1>8, <1>9, <1>10 DEF AsRole

\* Everything a test body may do, setting the claims included.
LEMMA BodyKeepsHeld ==
    ASSUME HeldInv, Body
    PROVE  HeldInv'
  <1>1. SavepointInv /\ SavepointInv' /\ TypeOK /\ session \in Session
    BY BodyKeepsSavepoints DEF HeldInv, SavepointInv, TypeOK
  <1>2. CASE Statement
    BY <1>1, <1>2, StatementKeeps, HeldStutter DEF BodyTypes
  <1>3. ASSUME NEW j \in Json, ExecSetsClaims(j)
        PROVE  HeldInv'
    <2>1. Keeps(session, session')
      <3>1. j \in ClaimsValue
        BY DEF ClaimsValue
      <3> QED BY <1>1, <1>3, <3>1, StartedKeeps, KeepsBasics, SessionOps, KeepsTrans
              DEF ExecSetsClaims
    <2>2. AtBody /\ UNCHANGED frames
      BY <1>3 DEF ExecSetsClaims, InBody, Control
    <2> QED BY <1>1, <2>1, <2>2, HeldStutter
  <1>4. CASE BodyEnds
    <2> DEFINE g == [Top EXCEPT !.pc = IF raised THEN "rollbackto" ELSE "release"]
    <2>1. Depth > 0 /\ Top.pc = "body" /\ UNCHANGED session
      BY <1>4 DEF BodyEnds
    <2>2. Top \in Frame /\ Held(Top, session) /\ OuterSaves
      BY <1>1, <2>1, TopFacts, CapturedHeldIs DEF HeldInv, Top, OuterSaves
    <2>3. /\ g \in Frame /\ g.pc \in {"rollbackto", "release"} /\ g.sp = Top.sp
          /\ g.prevUser = Top.prevUser /\ g.captured = Top.captured
      BY <2>2 DEF Frame
    <2>4. frames' = [frames EXCEPT ![Depth] = g]
      BY <1>4 DEF BodyEnds, Top
    <2>5. Held(g, session')
      BY <2>1, <2>2, <2>3 DEF Held, Holding
    <2> HIDE DEF g
    <2> QED BY <1>1, <2>1, <2>2, <2>3, <2>4, <2>5, HeldUpdate
  <1>5. ASSUME NEW r \in Roles, NEW c \in Json \cup {NoValue}, CallAsRole(r, c)
        PROVE  HeldInv'
    <2> DEFINE g == [role |-> r, claims |-> c, captured |-> NoValue, prevUser |-> Login,
                     prevClaims |-> NoValue, outerRole |-> currentRole, sp |-> 0,
                     pc |-> "capture"]
    <2>1. g \in Frame /\ g.pc = "capture"
      BY <1>1 DEF TypeOK, Frame, ClaimsValue
    <2>2. frames \in Seq(Frame) /\ frames' = Append(frames, g) /\ UNCHANGED session
      BY <1>1, <1>5 DEF CallAsRole, TypeOK
    <2> HIDE DEF g
    <2>3. /\ Depth \in Nat /\ Depth' = Depth + 1 /\ frames'[Depth + 1] = g
          /\ \A i \in 1 .. Depth : frames'[i] = frames[i]
      BY <2>1, <2>2, FramePush DEF Depth
    <2>4. Held(g, session')
      BY <2>1 DEF Held, Holding
    <2>5. \A i \in 1 .. Depth' : Held(frames'[i], session')
      <3>1. \A i \in 1 .. Depth : Held(frames[i], session)
        BY CapturedHeldIs DEF HeldInv
      <3>2. session' = session /\ \A i \in 1 .. Depth' : i = Depth + 1 \/ i \in 1 .. Depth
        BY <2>2, <2>3
      <3> HIDE DEF Held
      <3> QED BY <2>3, <2>4, <3>1, <3>2
    <2> QED BY <1>1, <2>5 DEF HeldInv, CapturedHeld, Held, UsableNow, Usable, Claimless
  <1> QED BY <1>2, <1>3, <1>4, <1>5 DEF Body, Statement

\* transaction(), the connection and contexts.
LEMMA WorldKeepsHeld ==
    ASSUME HeldInv, World
    PROVE  HeldInv'
  <1>1. SavepointInv /\ SavepointInv' /\ session \in Session
    BY WorldKeepsSavepointInv DEF HeldInv, SavepointInv, TypeOK
  <1>2. CASE Depth = 0 /\ UNCHANGED frames
    BY <1>1, <1>2 DEF HeldInv, CapturedHeld, Depth
  <1>3. CASE Disconnect
    BY <1>1, <1>3, KeepsBasics, HeldStutter DEF Disconnect
  <1>4. ASSUME NEW level \in 0 .. MaxDepth, CancelContext(level) PROVE HeldInv'
    BY <1>1, <1>4, KeepsBasics, HeldStutter DEF CancelContext
  <1> QED BY <1>2, <1>3, <1>4 DEF World, BeginTransaction, EndTransaction, CloseConnection

\* In every language, whatever contexts are cancelled and whatever a test body
\* does: what the savepoint of an active block would bring back is the actor
\* the block captured.
THEOREM HeldInvariant == Spec => []HeldInv
  <1>1. Init => HeldInv
    BY InitSavepointInv DEF Init, HeldInv, CapturedHeld, Depth
  <1>2. HeldInv /\ [Next]_vars => HeldInv'
    <2> SUFFICES ASSUME HeldInv, [Next]_vars PROVE HeldInv'
      OBVIOUS
    <2>1. CASE UNCHANGED vars
      <3>1. SavepointInv'
        BY <2>1 DEF vars, HeldInv, SavepointInv, TypeOK, OuterInBody, SavepointsHeld,
                    SavepointsNest, Depth, Live
      <3> QED BY <2>1, <3>1 DEF vars, HeldInv, CapturedHeld, UsableNow, Depth
    <2> QED BY <2>1, BodyKeepsHeld, AsRoleKeepsHeld, WorldKeepsHeld DEF Next
  <1> QED BY <1>1, <1>2, PTL DEF Spec

\* Whatever errors are caught and contexts cancelled, no statement runs in a
\* transaction the server has aborted until a block rolls back to its savepoint,
\* and then the session has the actor that was active at that savepoint.
THEOREM RecoveredBySavepoint == Spec => RecoveryOnlyBySavepoint
  <1>1. ASSUME HeldInv, Next, session.tx = "failed", session'.tx = "open"
        PROVE  /\ session'.role = Top.prevUser
               /\ Claimless(session'.claims) = Claimless(Top.captured)
    <2>1. SavepointInv /\ TypeOK /\ session \in Session /\ ~Usable(session) /\ Usable(session')
      BY <1>1 DEF HeldInv, SavepointInv, TypeOK, Usable
    <2>2. ~KeepsActor(session, session') /\ ~Runs /\ ~UNCHANGED session
      BY <1>1, <2>1 DEF KeepsActor, Runs
    <2>3. ~Statement
      BY <2>1, <2>2, StatementKeeps
    <2>4. ~Body
      BY <2>2, <2>3 DEF Body, Statement, ExecSetsClaims, BodyEnds, CallAsRole
    <2>5. session' \notin {session, Started, AfterError}
      BY <2>1, <2>2, StartedKeeps
    <2>6. CASE AsRole
      <3>1. RollbackToSavepoint /\ Depth > 0
        BY <2>2, <2>5, <2>6 DEF AsRole, CaptureActor, OpenSavepoint, SwitchRole, InstallClaims,
             ReleaseSavepoint, RestoreRole, RestoreClaims, EntryFails, RefusedLocally,
             RollbackToSavepoint
      <3>2. Top.pc \in Holding /\ session' = RollbackTo(session, Top.sp)
        BY <2>2, <3>1 DEF RollbackToSavepoint, Holding
      <3>3. Top.sp \in 1 .. Len(session.saves) /\ Held(Top, session)
        BY <2>1, <3>1, <3>2, TopFacts, CapturedHeldIs, <1>1 DEF HeldInv, Top
      <3> QED BY <2>1, <3>2, <3>3, RollbackToOp DEF Held
    <2>7. CASE World
      <3>1. /\ Lost(session).tx = "lost" /\ TransactionEnded(session).tx = "idle"
            /\ Connected.tx = "idle"
        BY <2>1 DEF Lost, TransactionEnded, Connected, Session
      <3> QED BY <1>1, <2>2, <2>7, <3>1 DEF World, BeginTransaction, EndTransaction,
                CloseConnection, Disconnect, CancelContext
    <2> QED BY <1>1, <2>4, <2>6, <2>7 DEF Next
  <1>2. HeldInv /\ [Next]_vars =>
            [session.tx = "failed" /\ session'.tx = "open" =>
                 /\ session'.role = Top.prevUser
                 /\ Claimless(session'.claims) = Claimless(Top.captured)]_vars
    BY <1>1
  <1> QED BY <1>2, HeldInvariant, PTL DEF Spec, RecoveryOnlyBySavepoint
-------------------------------------------------------------------------------
(* The role, whatever the body does to the claims.                          *)

\* Roles of the enclosing blocks depend on their calls only.
LEMMA RoleUpdate ==
    ASSUME RoleInv, HeldInv', Depth > 0, cancelled' = cancelled,
           NEW g \in Frame, frames' = [frames EXCEPT ![Depth] = g],
           g.pc # "capture" => g.prevUser = BlockRole(Depth - 1),
           Usable(session') /\ g.pc # "undo" =>
               session'.role = IF g.pc \in HasRole THEN g.role ELSE BlockRole(Depth - 1)
    PROVE  RoleInv'
  <1>1. frames \in Seq(Frame) /\ frames # <<>>
    BY DEF RoleInv, HeldInv, SavepointInv, TypeOK, Depth
  <1>2. /\ Depth \in Nat \ {0} /\ Depth' = Depth /\ Top' = g
        /\ frames'[Depth] = g /\ \A i \in 1 .. Depth - 1 : frames'[i] = frames[i]
    BY <1>1, FrameUpdate DEF Depth, Top
  <1>3. \A i \in 1 .. Depth : BlockRole(i - 1)' = BlockRole(i - 1)
    <2> TAKE i \in 1 .. Depth
    <2>1. i - 1 = 0 \/ i - 1 \in 1 .. Depth - 1
      BY <1>2
    <2> QED BY <1>2, <2>1 DEF BlockRole
  <1>4. NoCancellation'
    BY <1>2 DEF RoleInv, NoCancellation, Live
  <1>5. CapturedRole'
    <2> SUFFICES ASSUME NEW i \in 1 .. Depth, frames'[i].pc # "capture"
                 PROVE  frames'[i].prevUser = BlockRole(i - 1)'
      BY <1>2 DEF CapturedRole
    <2>1. CASE i = Depth
      BY <1>2, <1>3, <2>1
    <2>2. CASE i \in 1 .. Depth - 1
      BY <1>2, <1>3, <2>2 DEF RoleInv, CapturedRole
    <2> QED BY <1>2, <2>1, <2>2
  <1>6. SessionRole'
    <2>1. BlockRole(Depth - 1)' = BlockRole(Depth - 1)
      BY <1>2, <1>3
    <2> QED BY <1>2, <2>1 DEF SessionRole, Usable, HasRole
  <1> QED BY <1>4, <1>5, <1>6 DEF RoleInv

\* The innermost call is over, with the role of the enclosing block.
LEMMA RolePop ==
    ASSUME RoleInv, HeldInv', Depth > 0, Pop,
           Usable(session') => session'.role = BlockRole(Depth - 1)
    PROVE  RoleInv'
  <1>1. frames \in Seq(Frame) /\ frames # <<>>
    BY DEF RoleInv, HeldInv, SavepointInv, TypeOK, Depth
  <1>2. /\ Depth \in Nat \ {0} /\ Depth' = Depth - 1
        /\ \A i \in 1 .. Depth - 1 : frames'[i] = frames[i] /\ i \in 1 .. Depth
    BY <1>1, FramePop DEF Depth, Pop
  <1>3. \A i \in 1 .. Depth : BlockRole(i - 1)' = BlockRole(i - 1)
    <2> TAKE i \in 1 .. Depth
    <2>1. i - 1 = 0 \/ i - 1 \in 1 .. Depth - 1
      BY <1>2
    <2> QED BY <1>2, <2>1 DEF BlockRole
  <1>4. Depth > 1 => Top' = frames[Depth - 1] /\ Top'.pc = "body"
    <2> SUFFICES ASSUME Depth > 1 PROVE Top' = frames[Depth - 1] /\ Top'.pc = "body"
      OBVIOUS
    <2>1. Depth - 1 \in 1 .. Depth - 1
      BY <1>2
    <2> QED BY <1>2, <2>1 DEF Top, RoleInv, HeldInv, SavepointInv, OuterInBody
  <1>5. NoCancellation'
    <2>1. cancelled' = Live /\ MaxDepth \in Nat
      BY ClientAssumption DEF Pop, RoleInv, NoCancellation, ClientAssumption
    <2> QED BY <1>2, <2>1 DEF RoleInv, NoCancellation, Live
  <1>6. CapturedRole'
    <2> SUFFICES ASSUME NEW i \in 1 .. Depth - 1, frames'[i].pc # "capture"
                 PROVE  frames'[i].prevUser = BlockRole(i - 1)'
      BY <1>2 DEF CapturedRole
    <2> QED BY <1>2, <1>3 DEF RoleInv, CapturedRole
  <1>7. SessionRole'
    <2> SUFFICES ASSUME Usable(session')
                 PROVE  session'.role = IF Depth - 1 = 0 THEN Login ELSE Top'.role
      BY <1>2, <1>4 DEF SessionRole, Usable, HasRole
    <2> QED BY <1>2, <1>4 DEF BlockRole
  <1> QED BY <1>5, <1>6, <1>7 DEF RoleInv

\* The calls stay where they are, and so does the role of a usable session.
LEMMA RoleStutter ==
    ASSUME RoleInv, HeldInv', UNCHANGED <<frames, cancelled>>,
           Usable(session') => Usable(session) /\ session'.role = session.role
    PROVE  RoleInv'
  BY DEF RoleInv, NoCancellation, CapturedRole, SessionRole, Usable, Depth, Top, BlockRole, Live

\* What is known of the innermost call and of the session.
LEMMA TopRole ==
    ASSUME RoleInv, Depth > 0
    PROVE  /\ Depth \in Nat \ {0} /\ Top \in Frame /\ session \in Session /\ TypeOK
           /\ (Top.pc # "capture" => Top.prevUser = BlockRole(Depth - 1))
           /\ (Top.pc \in Holding => /\ Top.sp \in 1 .. Len(session.saves)
                                     /\ session.saves[Top.sp].role = BlockRole(Depth - 1))
           /\ (Usable(session) /\ Top.pc # "undo" =>
                   session.role = IF Top.pc \in HasRole THEN Top.role ELSE BlockRole(Depth - 1))
           /\ cancelled > Depth /\ (~Sent => session.tx = "lost")
           /\ (Runs <=> Usable(session))
  <1>1. SavepointInv /\ TypeOK /\ session \in Session /\ Depth \in 1 .. Depth
        /\ Depth \in Nat \ {0} /\ Top \in Frame
    BY TopFacts DEF RoleInv, HeldInv, SavepointInv, TypeOK
  <1>2. Top.pc # "capture" => Top.prevUser = BlockRole(Depth - 1)
    BY <1>1 DEF RoleInv, CapturedRole, Top
  <1>3. Top.pc \in Holding => /\ Top.sp \in 1 .. Len(session.saves)
                              /\ session.saves[Top.sp].role = Top.prevUser
    BY <1>1, TopFacts, CapturedHeldIs DEF RoleInv, HeldInv, Held, Top
  <1>4. cancelled > Depth
    BY <1>1, ClientAssumption DEF ClientAssumption, RoleInv, NoCancellation, Live
  <1>5. (~Sent => session.tx = "lost") /\ (Runs <=> Usable(session))
    BY <1>1, <1>4 DEF Sent, Runs, Usable, Session
  <1>6. Usable(session) /\ Top.pc # "undo" =>
            session.role = IF Top.pc \in HasRole THEN Top.role ELSE BlockRole(Depth - 1)
    BY <1>1 DEF RoleInv, SessionRole, Usable
  <1> QED BY <1>1, <1>2, <1>3, <1>4, <1>5, <1>6 DEF Holding

\* Each statement of as_role.
LEMMA AsRoleKeepsRole ==
    ASSUME RoleInv, AsRole
    PROVE  RoleInv'
  <1>1. HeldInv' /\ Depth > 0
    BY AsRoleKeepsHeld
       DEF RoleInv, AsRole, CaptureActor, OpenSavepoint, SwitchRole, InstallClaims,
           ReleaseSavepoint, RestoreRole, RestoreClaims, RollbackToSavepoint
  <1>2. /\ Depth \in Nat \ {0} /\ Top \in Frame /\ session \in Session /\ TypeOK
        /\ (Top.pc # "capture" => Top.prevUser = BlockRole(Depth - 1))
        /\ (Top.pc \in Holding => /\ Top.sp \in 1 .. Len(session.saves)
                                  /\ session.saves[Top.sp].role = BlockRole(Depth - 1))
        /\ (Usable(session) /\ Top.pc # "undo" =>
                session.role = IF Top.pc \in HasRole THEN Top.role ELSE BlockRole(Depth - 1))
        /\ cancelled > Depth /\ (~Sent => session.tx = "lost")
        /\ (Runs <=> Usable(session))
    BY <1>1, TopRole
  <1>3. ASSUME NEW pc, Goto(pc), Top.pc # "capture",
               pc \in {"setclaims", "body", "restorerole", "restoreclaims", "undo"},
               Usable(session') /\ pc # "undo" =>
                   session'.role = IF pc \in HasRole THEN Top.role ELSE BlockRole(Depth - 1)
        PROVE  RoleInv'
    <2> DEFINE g == [Top EXCEPT !.pc = pc]
    <2>1. /\ g \in Frame /\ g.pc = pc /\ g.role = Top.role /\ g.prevUser = Top.prevUser
      BY <1>2, <1>3 DEF Frame
    <2>2. frames' = [frames EXCEPT ![Depth] = g] /\ cancelled' = cancelled
      BY <1>3 DEF Goto, Top
    <2> HIDE DEF g
    <2> QED BY <1>1, <1>2, <1>3, <2>1, <2>2, RoleUpdate
  <1>4. ASSUME Raises, UNCHANGED session, ~Usable(session) PROVE RoleInv'
    BY <1>1, <1>4, RolePop DEF Raises, Usable
  <1>5. ASSUME EntryFails \/ RefusedLocally, Top.pc # "capture" PROVE RoleInv'
    BY <1>3, <1>5 DEF EntryFails, RefusedLocally
  <1>6. /\ \A r : /\ SetLocalRole(session, r).role = r
        /\ \A v : SetConfig(session, v).role = session.role
        /\ \A p : Release(session, p).role = session.role
        /\ Savepoint(session).role = session.role
    BY <1>2 DEF Session, SetLocalRole, SetConfig, Release, Savepoint
  <1>7. CASE CaptureActor
    <2>1. CASE /\ Runs /\ session' = Started
               /\ frames' = [frames EXCEPT ![Depth].prevUser = session.role,
                                      ![Depth].captured = CurrentClaims(session),
                                      ![Depth].prevClaims = PrevClaims(session),
                                      ![Depth].pc = "savepoint"]
               /\ UNCHANGED <<raised, cancelled, currentRole>>
      <3> DEFINE g == [Top EXCEPT !.prevUser = session.role,
                                  !.captured = CurrentClaims(session),
                                  !.prevClaims = PrevClaims(session),
                                  !.pc = "savepoint"]
      <3>1. session.role \in Roles \cup {Login} /\ CurrentClaims(session) \in ClaimsValue
            /\ PrevClaims(session) \in ClaimsValue
        BY <1>2, SessionOps DEF Session, PrevClaims, ClaimsValue
      <3>2. g \in Frame /\ g.pc = "savepoint" /\ g.prevUser = session.role
        BY <1>2, <3>1 DEF Frame
      <3>3. frames' = [frames EXCEPT ![Depth] = g] /\ cancelled' = cancelled
        BY <2>1 DEF Top
      <3>4. KeepsActor(session, session') /\ session.role = BlockRole(Depth - 1)
        BY <1>2, <1>7, <2>1, StartedKeeps DEF CaptureActor, HasRole
      <3> HIDE DEF g
      <3> QED BY <1>1, <3>2, <3>3, <3>4, RoleUpdate DEF KeepsActor, HasRole
    <2> QED BY <1>2, <1>4, <1>7, <2>1 DEF CaptureActor
  <1>8. CASE OpenSavepoint
    <2>1. CASE /\ Runs /\ session.tx = "open" /\ session' = Savepoint(session)
               /\ frames' = [frames EXCEPT ![Depth].sp = Len(session.saves) + 1,
                                           ![Depth].pc = "setrole"]
               /\ UNCHANGED <<raised, cancelled, currentRole>>
      <3> DEFINE g == [Top EXCEPT !.sp = Len(session.saves) + 1, !.pc = "setrole"]
      <3>1. Len(session.saves) + 1 \in Nat
        BY <1>2 DEF Session
      <3>2. g \in Frame /\ g.pc = "setrole" /\ g.prevUser = Top.prevUser
        BY <1>2, <3>1 DEF Frame
      <3>3. frames' = [frames EXCEPT ![Depth] = g] /\ cancelled' = cancelled
        BY <2>1 DEF Top
      <3>4. session'.role = BlockRole(Depth - 1) /\ Top.pc = "savepoint"
        BY <1>2, <1>6, <1>8, <2>1 DEF OpenSavepoint, HasRole
      <3> HIDE DEF g
      <3> QED BY <1>1, <1>2, <3>2, <3>3, <3>4, RoleUpdate DEF HasRole
    <2>2. CASE Raises /\ UNCHANGED session
      <3>1. Usable(session) => session.role = BlockRole(Depth - 1)
        BY <1>2, <1>8 DEF OpenSavepoint, HasRole
      <3> QED BY <1>1, <2>2, <3>1, RolePop DEF Raises
    <2> QED BY <1>8, <2>1, <2>2 DEF OpenSavepoint
  <1>9. CASE SwitchRole
    BY <1>3, <1>5, <1>6, <1>9 DEF SwitchRole, Enter, HasRole
  <1>10. CASE InstallClaims
    BY <1>2, <1>3, <1>5, <1>6, <1>10 DEF InstallClaims, Enter, HasRole
  <1>11. CASE ReleaseSavepoint
    BY <1>2, <1>3, <1>4, <1>6, <1>11 DEF ReleaseSavepoint, HasRole
  <1>12. CASE RestoreRole
    <2>1. CASE Leaves /\ session' = SetLocalRole(session, Top.prevUser)
      BY <1>1, <1>2, <1>6, <1>12, <2>1, RolePop DEF RestoreRole, Leaves
    <2> QED BY <1>2, <1>3, <1>4, <1>6, <1>12, <2>1 DEF RestoreRole, HasRole
  <1>13. CASE RestoreClaims
    <2>1. CASE Runs /\ Leaves /\ session' = SetConfig(session, Top.prevClaims)
      BY <1>1, <1>2, <1>6, <1>13, <2>1, RolePop DEF RestoreClaims, Leaves, HasRole
    <2> QED BY <1>2, <1>4, <1>13, <2>1 DEF RestoreClaims
  <1>14. CASE RollbackToSavepoint
    <2>1. Top.pc \in Holding
      BY <1>14 DEF RollbackToSavepoint, Holding
    <2>2. CASE Leaves /\ session' = RollbackTo(session, Top.sp)
      <3>1. session'.role = BlockRole(Depth - 1)
        BY <1>2, <2>1, <2>2, RollbackToOp
      <3> QED BY <1>1, <2>2, <3>1, RolePop DEF Leaves
    <2>3. CASE ~Sent /\ Raises /\ UNCHANGED session
      BY <1>2, <1>4, <2>3 DEF Usable
    <2> QED BY <1>14, <2>2, <2>3 DEF RollbackToSavepoint
  <1> QED BY <1>7, <1>8, <1>9, <1>10, <1>11, <1>12, <1>13, <1>14 DEF AsRole

\* Everything a test body may do, setting the claims included.
LEMMA BodyKeepsRole ==
    ASSUME RoleInv, Body
    PROVE  RoleInv'
  <1>1. HeldInv' /\ TypeOK /\ session \in Session
    BY BodyKeepsHeld DEF RoleInv, HeldInv, SavepointInv, TypeOK
  <1>2. CASE Statement
    BY <1>1, <1>2, StatementKeeps, RoleStutter DEF BodyTypes, KeepsActor
  <1>3. ASSUME NEW j \in Json, ExecSetsClaims(j) PROVE RoleInv'
    <2>1. session'.role = session.role /\ Usable(session)
      BY <1>1, <1>3, StartedKeeps DEF ExecSetsClaims, SetConfig, Session, KeepsActor, Usable
    <2> QED BY <1>1, <1>3, <2>1, RoleStutter DEF ExecSetsClaims, Control
  <1>4. CASE BodyEnds
    <2> DEFINE g == [Top EXCEPT !.pc = IF raised THEN "rollbackto" ELSE "release"]
    <2>1. Depth > 0 /\ Top.pc = "body" /\ UNCHANGED <<session, cancelled>>
      BY <1>4 DEF BodyEnds
    <2>2. /\ Top \in Frame /\ Top.prevUser = BlockRole(Depth - 1)
          /\ Usable(session) => session.role = Top.role
      BY <2>1, TopRole DEF HasRole
    <2>3. /\ g \in Frame /\ g.pc \in {"rollbackto", "release"} /\ g.role = Top.role
          /\ g.prevUser = Top.prevUser
      BY <2>2 DEF Frame
    <2>4. frames' = [frames EXCEPT ![Depth] = g]
      BY <1>4 DEF BodyEnds, Top
    <2> HIDE DEF g
    <2> QED BY <1>1, <2>1, <2>2, <2>3, <2>4, RoleUpdate DEF HasRole
  <1>5. ASSUME NEW r \in Roles, NEW c \in Json \cup {NoValue}, CallAsRole(r, c) PROVE RoleInv'
    <2> DEFINE g == [role |-> r, claims |-> c, captured |-> NoValue, prevUser |-> Login,
                     prevClaims |-> NoValue, outerRole |-> currentRole, sp |-> 0,
                     pc |-> "capture"]
    <2>1. g \in Frame /\ g.pc = "capture"
      BY <1>1 DEF TypeOK, Frame, ClaimsValue
    <2>2. frames \in Seq(Frame) /\ frames' = Append(frames, g) /\ Depth < MaxDepth
          /\ UNCHANGED <<session, cancelled>>
      BY <1>1, <1>5 DEF CallAsRole, TypeOK
    <2> HIDE DEF g
    <2>3. /\ Depth \in Nat /\ Depth' = Depth + 1 /\ Top' = g
          /\ \A i \in 1 .. Depth : frames'[i] = frames[i]
      BY <2>1, <2>2, FramePush DEF Depth, Top
    <2>4. \A i \in 1 .. Depth' : frames'[i].pc # "capture" => i \in 1 .. Depth
      BY <2>1, <2>3 DEF Top
    <2>5. \A i \in 0 .. Depth : BlockRole(i)' = BlockRole(i)
      BY <2>3 DEF BlockRole
    <2>6. NoCancellation'
      <3>1. Depth + 1 <= MaxDepth
        BY <2>2, <2>3, ClientAssumption DEF ClientAssumption
      <3> QED BY <2>2, <2>3, <3>1 DEF RoleInv, NoCancellation, Live
    <2>7. CapturedRole'
      <3> SUFFICES ASSUME NEW i \in 1 .. Depth, frames'[i].pc # "capture"
                   PROVE  frames'[i].prevUser = BlockRole(i - 1)'
        BY <2>4 DEF CapturedRole
      <3>1. i - 1 \in 0 .. Depth
        BY <2>3
      <3> QED BY <2>3, <2>5, <3>1 DEF RoleInv, CapturedRole
    <2>8. Usable(session) => session.role = BlockRole(Depth)
      BY <1>5, <2>3 DEF CallAsRole, InBody, AtBody, RoleInv, SessionRole, Usable, HasRole,
                        BlockRole, Top
    <2>9. SessionRole'
      BY <2>1, <2>2, <2>3, <2>5, <2>8 DEF SessionRole, Usable, HasRole
    <2> QED BY <1>1, <2>6, <2>7, <2>9 DEF RoleInv
  <1> QED BY <1>2, <1>3, <1>4, <1>5 DEF Body, Statement

\* transaction() and the connection; contexts are not cancelled.
LEMMA WorldKeepsRole ==
    ASSUME RoleInv, World, ~(\E level \in 0 .. MaxDepth : CancelContext(level))
    PROVE  RoleInv'
  <1>1. HeldInv' /\ session \in Session /\ MaxDepth \in Nat
    BY WorldKeepsHeld, ClientAssumption
       DEF RoleInv, HeldInv, SavepointInv, TypeOK, ClientAssumption
  <1>2. ASSUME Depth = 0, UNCHANGED frames, cancelled' \in {cancelled, Live},
               Usable(session') => session'.role = Login
        PROVE  RoleInv'
    <2>1. Depth' = 0 /\ cancelled' = Live
      BY <1>2 DEF Depth, RoleInv, NoCancellation
    <2>2. NoCancellation' /\ CapturedRole' /\ SessionRole'
      BY <1>1, <1>2, <2>1 DEF NoCancellation, CapturedRole, SessionRole, Usable, Live
    <2> QED BY <1>1, <2>2 DEF RoleInv
  <1>3. /\ TransactionEnded(session).role = Login /\ Connected.role = Login
        /\ Begun(session).role = session.role
    BY <1>1 DEF TransactionEnded, Connected, Begun, Session
  <1>4. Depth = 0 /\ Usable(session) => session.role = Login
    BY DEF RoleInv, SessionRole, Usable
  <1>5. CASE BeginTransaction
    <2>1. Usable(session') => Usable(session)
      BY <1>1, <1>5 DEF BeginTransaction, Runs, Sent, Usable, Session
    <2> QED BY <1>2, <1>3, <1>4, <1>5, <2>1 DEF BeginTransaction
  <1>6. CASE EndTransaction
    BY <1>2, <1>3, <1>4, <1>6 DEF EndTransaction
  <1>7. CASE CloseConnection
    BY <1>2, <1>3, <1>7 DEF CloseConnection
  <1>8. CASE Disconnect
    <2>1. ~Usable(session')
      BY <1>1, <1>8 DEF Disconnect, Lost, Session, Usable
    <2> QED BY <1>1, <1>8, <2>1, RoleStutter DEF Disconnect
  <1> QED BY <1>5, <1>6, <1>7, <1>8 DEF World

\* A step keeps the role invariant unless it cancels a context.
LEMMA NextKeepsRole ==
    ASSUME RoleInv, [Next]_vars, ~(\E level \in 0 .. MaxDepth : CancelContext(level))
    PROVE  RoleInv'
  <1>1. CASE UNCHANGED vars
    <2>1. SavepointInv'
      BY <1>1 DEF vars, RoleInv, HeldInv, SavepointInv, TypeOK, OuterInBody, SavepointsHeld,
                  SavepointsNest, Depth, Live
    <2>2. HeldInv'
      BY <1>1, <2>1 DEF vars, RoleInv, HeldInv, CapturedHeld, UsableNow, Depth
    <2> QED BY <1>1, <2>2, RoleStutter DEF vars
  <1> QED BY <1>1, BodyKeepsRole, AsRoleKeepsRole, WorldKeepsRole DEF Next

LEMMA InitRole == Init => RoleInv
  BY InitSavepointInv, ClientAssumption
     DEF Init, RoleInv, HeldInv, CapturedHeld, NoCancellation, CapturedRole, SessionRole,
         Depth, Live, Connected, ClientAssumption

\* Bodies that set the claims GUC themselves do not disturb the role: without
\* cancelled contexts a test body always runs with its innermost block's role.
THEOREM RoleSurvivesClaims ==
    ASSUME Lang = "go" => ~CtxCancels
    PROVE  Spec => []RoleFollowsBlock
  <1>1. RoleInv /\ [Next]_vars => RoleInv'
    BY NextKeepsRole DEF CancelContext
  <1>2. RoleInv => RoleFollowsBlock
    <2> SUFFICES ASSUME RoleInv, AtBody, session.tx \in {"idle", "open"}
                 PROVE  session.role = BlockRole(Depth)
      BY DEF RoleFollowsBlock
    <2>1. CASE Depth = 0
      BY <2>1 DEF RoleInv, SessionRole, BlockRole
    <2>2. CASE Depth > 0
      BY <2>2, TopRole DEF AtBody, HasRole, BlockRole, Top, Usable
    <2>3. Depth \in Nat
      BY DEF RoleInv, HeldInv, SavepointInv, TypeOK, Depth
    <2> QED BY <2>1, <2>2, <2>3
  <1> QED BY <1>1, <1>2, InitRole, PTL DEF Spec
-------------------------------------------------------------------------------
(* The Python client: the claims it captured, the tracker of coverage.      *)

\* The innermost call moves on.
LEMMA PythonUpdate ==
    ASSUME PythonInv, RoleInv', Depth > 0, UNCHANGED <<inTx, tests, loginRole>>,
           NEW g \in Frame, frames' = [frames EXCEPT ![Depth] = g],
           g.pc \in {"undo", "rollbackto"} => raised', g.captured = g.prevClaims,
           FirstTransaction /\ (g.pc # "capture" \/ Usable(session')) =>
               g.outerRole = TrackedRole(Depth - 1),
           FirstTransaction /\ Usable(session') /\ g.pc \notin {"undo", "rollbackto"} =>
               currentRole' = IF g.pc \in {"body", "release", "restorerole", "restoreclaims"}
                              THEN g.role ELSE TrackedRole(Depth - 1)
    PROVE  PythonInv'
  <1>1. frames \in Seq(Frame) /\ frames # <<>>
    BY DEF PythonInv, RoleInv, HeldInv, SavepointInv, TypeOK, Depth
  <1>2. /\ Depth \in Nat \ {0} /\ Depth' = Depth /\ Top' = g
        /\ frames'[Depth] = g /\ \A i \in 1 .. Depth - 1 : frames'[i] = frames[i]
    BY <1>1, FrameUpdate DEF Depth, Top
  <1>3. \A i \in 1 .. Depth : TrackedRole(i - 1)' = TrackedRole(i - 1)
    <2> TAKE i \in 1 .. Depth
    <2>1. i - 1 = 0 \/ i - 1 \in 1 .. Depth - 1
      BY <1>2
    <2> QED BY <1>2, <2>1 DEF TrackedRole
  <1>4. \A i \in 1 .. Depth : i = Depth \/ i \in 1 .. Depth - 1
    BY <1>2
  <1>5. Unwinding' /\ Counted' /\ LoginTracked'
    BY <1>2 DEF PythonInv, Unwinding, Counted, LoginTracked, FirstTransaction
  <1>6. CapturedAsIs'
    BY <1>2, <1>4 DEF PythonInv, CapturedAsIs
  <1>7. OuterTracked'
    <2> SUFFICES ASSUME FirstTransaction, NEW i \in 1 .. Depth,
                        frames'[i].pc # "capture" \/ Usable(session')
                 PROVE  frames'[i].outerRole = TrackedRole(i - 1)
      BY <1>2, <1>3 DEF OuterTracked, FirstTransaction, Usable, UsableNow
    <2>1. CASE i = Depth
      BY <1>2, <2>1
    <2>2. CASE i \in 1 .. Depth - 1
      <3>1. frames[i].pc # "capture" /\ i \in 1 .. Depth
        BY <2>2 DEF PythonInv, RoleInv, HeldInv, SavepointInv, OuterInBody
      <3> QED BY <1>2, <2>2, <3>1 DEF PythonInv, OuterTracked
    <2> QED BY <1>4, <2>1, <2>2
  <1>8. CurrentTracked'
    <2>1. TrackedRole(Depth - 1)' = TrackedRole(Depth - 1) /\ Depth' # 0
      BY <1>2, <1>3
    <2> QED BY <1>2, <2>1 DEF CurrentTracked, FirstTransaction, Usable, UsableNow
  <1> QED BY <1>5, <1>6, <1>7, <1>8 DEF PythonInv

\* The innermost call is over: the tracker is back, or no statement can run.
LEMMA PythonPop ==
    ASSUME PythonInv, RoleInv', Depth > 0, Pop, UNCHANGED <<inTx, tests, loginRole>>,
           FirstTransaction /\ Usable(session') => currentRole' = TrackedRole(Depth - 1)
    PROVE  PythonInv'
  <1>1. frames \in Seq(Frame) /\ frames # <<>>
    BY DEF PythonInv, RoleInv, HeldInv, SavepointInv, TypeOK, Depth
  <1>2. /\ Depth \in Nat \ {0} /\ Depth' = Depth - 1
        /\ \A i \in 1 .. Depth - 1 : frames'[i] = frames[i] /\ i \in 1 .. Depth
    BY <1>1, FramePop DEF Depth, Pop
  <1>3. \A i \in 1 .. Depth : TrackedRole(i - 1)' = TrackedRole(i - 1)
    <2> TAKE i \in 1 .. Depth
    <2>1. i - 1 = 0 \/ i - 1 \in 1 .. Depth - 1
      BY <1>2
    <2> QED BY <1>2, <2>1 DEF TrackedRole
  <1>4. Depth > 1 => Top' = frames[Depth - 1] /\ Top'.pc = "body"
    <2> SUFFICES ASSUME Depth > 1 PROVE Top' = frames[Depth - 1] /\ Top'.pc = "body"
      OBVIOUS
    <2>1. Depth - 1 \in 1 .. Depth - 1
      BY <1>2
    <2> QED BY <1>2, <2>1 DEF Top, PythonInv, RoleInv, HeldInv, SavepointInv, OuterInBody
  <1>5. Unwinding' /\ Counted' /\ LoginTracked'
    BY <1>2, <1>4 DEF PythonInv, Unwinding, Counted, LoginTracked, FirstTransaction
  <1>6. CapturedAsIs'
    BY <1>2 DEF PythonInv, CapturedAsIs
  <1>7. OuterTracked'
    <2> SUFFICES ASSUME FirstTransaction, NEW i \in 1 .. Depth - 1
                 PROVE  frames'[i].outerRole = TrackedRole(i - 1)
      BY <1>2, <1>3 DEF OuterTracked, FirstTransaction
    <2>1. frames[i].pc # "capture" /\ i \in 1 .. Depth
      BY <1>2 DEF PythonInv, RoleInv, HeldInv, SavepointInv, OuterInBody
    <2> QED BY <1>2, <2>1 DEF PythonInv, OuterTracked
  <1>8. CurrentTracked'
    <2> SUFFICES ASSUME FirstTransaction, Usable(session')
                 PROVE  currentRole' = IF Depth - 1 = 0 THEN NoValue ELSE Top'.role
      BY <1>2, <1>4 DEF CurrentTracked, FirstTransaction, Usable, UsableNow
    <2> QED BY <1>2, <1>4 DEF TrackedRole
  <1> QED BY <1>5, <1>6, <1>7, <1>8 DEF PythonInv

\* The calls stay where they are.
LEMMA PythonStutter ==
    ASSUME PythonInv, RoleInv', UNCHANGED <<frames, inTx, tests, currentRole>>,
           AtBody \/ raised' = raised, Usable(session') => Usable(session),
           FirstTransaction => loginRole' \in {NoValue, Login}
    PROVE  PythonInv'
  <1>1. Unwinding' /\ Counted' /\ LoginTracked' /\ CapturedAsIs'
    BY DEF PythonInv, Unwinding, Counted, LoginTracked, CapturedAsIs, FirstTransaction,
           Depth, Top, AtBody
  <1>2. OuterTracked' /\ CurrentTracked'
    BY DEF PythonInv, OuterTracked, CurrentTracked, FirstTransaction, TrackedRole, Depth,
           Top, Usable, UsableNow
  <1> QED BY <1>1, <1>2 DEF PythonInv

\* What is known of the innermost call besides TopRole.
LEMMA TopTracked ==
    ASSUME PythonInv, Depth > 0
    PROVE  /\ Top.captured = Top.prevClaims
           /\ (Top.pc \in {"undo", "rollbackto"} => raised)
           /\ (FirstTransaction /\ (Top.pc # "capture" \/ Usable(session)) =>
                   Top.outerRole = TrackedRole(Depth - 1))
           /\ (FirstTransaction /\ Usable(session) /\ Top.pc \notin {"undo", "rollbackto"} =>
                   currentRole = IF Top.pc \in {"body", "release", "restorerole",
                                                "restoreclaims"}
                                 THEN Top.role ELSE TrackedRole(Depth - 1))
  <1>1. Depth \in 1 .. Depth
    BY TopRole DEF PythonInv
  <1> QED BY <1>1 DEF PythonInv, CapturedAsIs, Unwinding, OuterTracked, CurrentTracked, Top,
                      Usable, UsableNow
\* Each statement of as_role.
LEMMA AsRoleKeepsPython ==
    ASSUME Lang = "python", PythonInv, AsRole
    PROVE  PythonInv'
  <1>1. RoleInv' /\ Depth > 0 /\ UNCHANGED <<inTx, tests, loginRole>>
    BY AsRoleKeepsRole
       DEF PythonInv, AsRole, CaptureActor, OpenSavepoint, SwitchRole, InstallClaims,
           ReleaseSavepoint, RestoreRole, RestoreClaims, RollbackToSavepoint, Elsewhere
  <1>2. /\ Depth \in Nat \ {0} /\ Top \in Frame /\ session \in Session
        /\ (~Sent => session.tx = "lost") /\ (Runs <=> Usable(session))
    BY <1>1, TopRole DEF PythonInv
  <1>3. /\ Top.captured = Top.prevClaims
        /\ (Top.pc \in {"undo", "rollbackto"} => raised)
        /\ (FirstTransaction /\ (Top.pc # "capture" \/ Usable(session)) =>
                Top.outerRole = TrackedRole(Depth - 1))
        /\ (FirstTransaction /\ Usable(session) /\ Top.pc \notin {"undo", "rollbackto"} =>
                currentRole = IF Top.pc \in {"body", "release", "restorerole",
                                             "restoreclaims"}
                              THEN Top.role ELSE TrackedRole(Depth - 1))
    BY <1>1, TopTracked
  <1>4. ASSUME NEW pc, Goto(pc), Top.pc # "capture",
               \/ pc = "undo" /\ raised'
               \/ pc \in {"restorerole", "restoreclaims"} /\ UNCHANGED currentRole
                  /\ Runs /\ Top.pc \in {"release", "restorerole"}
               \/ pc = "setclaims" /\ UNCHANGED currentRole /\ Runs /\ Top.pc = "setrole"
               \/ pc = "body" /\ Enter
        PROVE  PythonInv'
    <2> DEFINE g == [Top EXCEPT !.pc = pc]
    <2>1. /\ g \in Frame /\ g.pc = pc /\ g.role = Top.role /\ g.captured = Top.captured
          /\ g.prevClaims = Top.prevClaims /\ g.outerRole = Top.outerRole
      BY <1>2, <1>4 DEF Frame
    <2>2. frames' = [frames EXCEPT ![Depth] = g]
      BY <1>4 DEF Goto, Top
    <2>3. pc = "body" /\ Enter => currentRole' = Top.role
      BY DEF Enter, Tracked
    <2> HIDE DEF g
    <2> QED BY <1>1, <1>2, <1>3, <1>4, <2>1, <2>2, <2>3, PythonUpdate
  <1>5. ASSUME Raises, UNCHANGED session, ~Usable(session) \/ Top.pc = "savepoint"
        PROVE  PythonInv'
    BY <1>1, <1>3, <1>5, PythonPop DEF Raises
  <1>6. ASSUME Leaves, Top.pc # "capture" PROVE PythonInv'
    <2>1. currentRole' = Top.outerRole /\ Pop
      BY <1>6 DEF Leaves, Tracked
    <2> QED BY <1>1, <1>3, <1>6, <2>1, PythonPop
  <1>7. ASSUME EntryFails \/ RefusedLocally, Top.pc # "capture" PROVE PythonInv'
    BY <1>4, <1>7 DEF EntryFails, RefusedLocally
  <1>8. CASE CaptureActor
    <2>1. CASE /\ Runs /\ session' = Started
               /\ frames' = [frames EXCEPT ![Depth].prevUser = session.role,
                                      ![Depth].captured = CurrentClaims(session),
                                      ![Depth].prevClaims = PrevClaims(session),
                                      ![Depth].pc = "savepoint"]
               /\ UNCHANGED <<raised, cancelled, currentRole>>
      <3> DEFINE g == [Top EXCEPT !.prevUser = session.role,
                                  !.captured = CurrentClaims(session),
                                  !.prevClaims = PrevClaims(session),
                                  !.pc = "savepoint"]
      <3>1. session.role \in Roles \cup {Login} /\ CurrentClaims(session) \in ClaimsValue
            /\ PrevClaims(session) = CurrentClaims(session)
        BY <1>2, SessionOps DEF Session, PrevClaims, ClaimsValue
      <3>2. /\ g \in Frame /\ g.pc = "savepoint" /\ g.captured = g.prevClaims
            /\ g.outerRole = Top.outerRole
        BY <1>2, <3>1 DEF Frame
      <3>3. frames' = [frames EXCEPT ![Depth] = g]
        BY <2>1 DEF Top
      <3>4. Top.pc = "capture" /\ Usable(session)
        BY <1>2, <1>8, <2>1 DEF CaptureActor
      <3> HIDE DEF g
      <3> QED BY <1>1, <1>3, <2>1, <3>2, <3>3, <3>4, PythonUpdate
    <2> QED BY <1>2, <1>5, <1>8, <2>1 DEF CaptureActor
  <1>9. CASE OpenSavepoint
    <2>1. CASE /\ Runs /\ session.tx = "open" /\ session' = Savepoint(session)
               /\ frames' = [frames EXCEPT ![Depth].sp = Len(session.saves) + 1,
                                           ![Depth].pc = "setrole"]
               /\ UNCHANGED <<raised, cancelled, currentRole>>
      <3> DEFINE g == [Top EXCEPT !.sp = Len(session.saves) + 1, !.pc = "setrole"]
      <3>1. Len(session.saves) + 1 \in Nat
        BY <1>2 DEF Session
      <3>2. /\ g \in Frame /\ g.pc = "setrole" /\ g.captured = Top.captured
            /\ g.prevClaims = Top.prevClaims /\ g.outerRole = Top.outerRole
        BY <1>2, <3>1 DEF Frame
      <3>3. frames' = [frames EXCEPT ![Depth] = g]
        BY <2>1 DEF Top
      <3>4. Top.pc = "savepoint" /\ Usable(session)
        BY <1>2, <1>9, <2>1 DEF OpenSavepoint
      <3> HIDE DEF g
      <3> QED BY <1>1, <1>3, <2>1, <3>2, <3>3, <3>4, PythonUpdate
    <2> QED BY <1>5, <1>9, <2>1 DEF OpenSavepoint
  <1>10. CASE SwitchRole
    BY <1>4, <1>7, <1>10 DEF SwitchRole, Enter
  <1>11. CASE InstallClaims
    BY <1>4, <1>7, <1>11 DEF InstallClaims, Enter
  <1>12. CASE ReleaseSavepoint \/ RestoreRole \/ RestoreClaims
    BY <1>2, <1>4, <1>5, <1>6, <1>12 DEF ReleaseSavepoint, RestoreRole, RestoreClaims
  <1>13. CASE RollbackToSavepoint
    BY <1>2, <1>5, <1>6, <1>13 DEF RollbackToSavepoint, Usable
  <1> QED BY <1>8, <1>9, <1>10, <1>11, <1>12, <1>13 DEF AsRole

\* Where a body's statement can run, coverage attributes it to the session's role.
LEMMA ActiveRoleIsSessionRole ==
    ASSUME PythonInv, FirstTransaction, AtBody, Usable(session)
    PROVE  /\ ActiveRole = session.role
           /\ currentRole = NoValue => session.role = Login
  <1>1. Depth \in Nat
    BY DEF PythonInv, RoleInv, HeldInv, SavepointInv, TypeOK, Depth
  <1>2. loginRole \in {NoValue, Login}
    BY DEF PythonInv, LoginTracked
  <1>3. CASE Depth = 0
    BY <1>2, <1>3 DEF PythonInv, CurrentTracked, RoleInv, SessionRole, ActiveRole, Usable,
                      UsableNow
  <1>4. CASE Depth > 0
    <2>1. Top.pc = "body" /\ currentRole = Top.role /\ session.role = Top.role
          /\ Top.role \in Roles
      BY <1>4, TopTracked, TopRole DEF AtBody, PythonInv, HasRole, Frame
    <2> QED BY <2>1, SessionAssumption DEF SessionAssumption, ActiveRole
  <1> QED BY <1>1, <1>3, <1>4

\* Everything a test body may do, setting the claims included.
LEMMA BodyKeepsPython ==
    ASSUME Lang = "python", PythonInv, Body
    PROVE  PythonInv'
  <1>1. RoleInv' /\ TypeOK /\ session \in Session
    BY BodyKeepsRole DEF PythonInv, RoleInv, HeldInv, SavepointInv, TypeOK
  <1>2. CASE Statement \/ \E j \in Json : ExecSetsClaims(j)
    <2>1. /\ AtBody /\ UNCHANGED <<frames, inTx, tests, currentRole, cancelled>>
          /\ \/ UNCHANGED <<ran, loginRole>>
             \/ Runs /\ RanUncaptured
             \/ Runs /\ RanCaptured
      BY <1>2, StatementRecords
    <2>2. Usable(session') => Usable(session)
      <3>1. CASE Statement
        BY <1>1, <3>1, StatementKeeps DEF PythonInv, RoleInv, HeldInv, KeepsActor
      <3>2. CASE \E j \in Json : ExecSetsClaims(j)
        BY <1>1, <3>2 DEF ExecSetsClaims, Runs, Sent, Session, Usable
      <3> QED BY <1>2, <3>1, <3>2
    <2>3. FirstTransaction => loginRole' \in {NoValue, Login}
      <3>1. FirstTransaction => loginRole \in {NoValue, Login}
        BY DEF PythonInv, LoginTracked
      <3>2. Runs => Usable(session)
        BY <1>1 DEF Runs, Sent, Usable, Session
      <3> QED BY <2>1, <3>1, <3>2, ActiveRoleIsSessionRole DEF RanCaptured, RanUncaptured
    <2> QED BY <1>1, <2>1, <2>2, <2>3, PythonStutter
  <1>3. CASE BodyEnds
    <2> DEFINE g == [Top EXCEPT !.pc = IF raised THEN "rollbackto" ELSE "release"]
    <2>1. /\ Depth > 0 /\ Top.pc = "body"
          /\ UNCHANGED <<session, inTx, tests, loginRole, currentRole, raised>>
      BY <1>3 DEF BodyEnds
    <2>2. /\ Top \in Frame /\ Top.captured = Top.prevClaims
          /\ (FirstTransaction => Top.outerRole = TrackedRole(Depth - 1))
          /\ (FirstTransaction /\ Usable(session) => currentRole = Top.role)
      BY <2>1, TopRole, TopTracked DEF PythonInv
    <2>3. /\ g \in Frame /\ g.role = Top.role /\ g.captured = Top.captured
          /\ g.pc = IF raised THEN "rollbackto" ELSE "release"
          /\ g.prevClaims = Top.prevClaims /\ g.outerRole = Top.outerRole
      BY <2>2 DEF Frame
    <2>4. frames' = [frames EXCEPT ![Depth] = g]
      BY <1>3 DEF BodyEnds, Top
    <2> HIDE DEF g
    <2>5. raised \in BOOLEAN
      BY <1>1 DEF TypeOK
    <2> QED BY <1>1, <2>1, <2>2, <2>3, <2>4, <2>5, PythonUpdate
  <1>4. ASSUME NEW r \in Roles, NEW c \in Json \cup {NoValue}, CallAsRole(r, c)
        PROVE  PythonInv'
    <2> DEFINE g == [role |-> r, claims |-> c, captured |-> NoValue, prevUser |-> Login,
                     prevClaims |-> NoValue, outerRole |-> currentRole, sp |-> 0,
                     pc |-> "capture"]
    <2>1. /\ g \in Frame /\ g.pc = "capture" /\ g.captured = g.prevClaims
          /\ g.outerRole = currentRole
      BY <1>1 DEF TypeOK, Frame, ClaimsValue
    <2>2. frames \in Seq(Frame) /\ frames' = Append(frames, g)
          /\ UNCHANGED <<session, inTx, tests, loginRole, currentRole>> /\ AtBody
      BY <1>1, <1>4 DEF CallAsRole, TypeOK, InBody
    <2> HIDE DEF g
    <2>3. /\ Depth \in Nat /\ Depth' = Depth + 1 /\ Top' = g
          /\ \A i \in 1 .. Depth : frames'[i] = frames[i]
          /\ frames'[Depth + 1] = g
      BY <2>1, <2>2, FramePush DEF Depth, Top
    <2>4. \A i \in 1 .. Depth' : i = Depth + 1 \/ i \in 1 .. Depth
      BY <2>3
    <2>5. \A i \in 0 .. Depth : TrackedRole(i)' = TrackedRole(i)
      BY <2>3 DEF TrackedRole
    <2>6. Unwinding' /\ Counted' /\ LoginTracked'
      BY <2>1, <2>2, <2>3 DEF PythonInv, Unwinding, Counted, LoginTracked, FirstTransaction
    <2>7. CapturedAsIs'
      BY <2>1, <2>3, <2>4 DEF PythonInv, CapturedAsIs
    <2>8. FirstTransaction /\ Usable(session) => currentRole = TrackedRole(Depth)
      BY <2>2, <2>3 DEF PythonInv, CurrentTracked, Usable, UsableNow, TrackedRole, AtBody, Top
    <2>9. OuterTracked'
      <3> SUFFICES ASSUME FirstTransaction, NEW i \in 1 .. Depth + 1,
                          frames'[i].pc # "capture" \/ Usable(session)
                   PROVE  frames'[i].outerRole = TrackedRole(i - 1)
        <4>1. \A i \in 1 .. Depth + 1 : i - 1 \in 0 .. Depth
          BY <2>3
        <4> QED BY <2>2, <2>3, <2>5, <4>1
                DEF OuterTracked, FirstTransaction, Usable, UsableNow
      <3>1. CASE i = Depth + 1
        BY <2>1, <2>3, <2>8, <3>1
      <3>2. CASE i \in 1 .. Depth
        BY <2>3, <3>2 DEF PythonInv, OuterTracked, Usable, UsableNow
      <3> QED BY <2>3, <2>4, <3>1, <3>2
    <2>10. CurrentTracked'
      BY <2>1, <2>2, <2>3, <2>5, <2>8
         DEF CurrentTracked, FirstTransaction, Usable, UsableNow
    <2> QED BY <1>1, <2>6, <2>7, <2>9, <2>10 DEF PythonInv
  <1> QED BY <1>2, <1>3, <1>4 DEF Body, Statement

\* transaction() and the connection; Python has no contexts.
LEMMA WorldKeepsPython ==
    ASSUME Lang = "python", PythonInv, World
    PROVE  PythonInv'
  <1>1. ~(\E level \in 0 .. MaxDepth : CancelContext(level))
    BY DEF CancelContext
  <1>2. RoleInv' /\ TypeOK /\ session \in Session
    BY <1>1, WorldKeepsRole DEF PythonInv, RoleInv, HeldInv, SavepointInv, TypeOK
  <1>3. ASSUME Depth = 0, UNCHANGED frames, Counted', LoginTracked',
               FirstTransaction' /\ Usable(session') => currentRole' = NoValue
        PROVE  PythonInv'
    <2>1. Depth' = 0
      BY <1>3 DEF Depth
    <2>2. Unwinding' /\ CapturedAsIs' /\ OuterTracked' /\ CurrentTracked'
      BY <1>3, <2>1 DEF Unwinding, CapturedAsIs, OuterTracked, CurrentTracked, Usable,
                        UsableNow
    <2> QED BY <1>2, <1>3, <2>2 DEF PythonInv
  <1>4. tests \in Nat /\ Counted /\ LoginTracked
        /\ (Depth = 0 /\ FirstTransaction /\ Usable(session) => currentRole = NoValue)
    BY <1>2 DEF PythonInv, TypeOK, CurrentTracked, Usable, UsableNow
  <1>5. CASE BeginTransaction
    <2>1. /\ Depth = 0 /\ ~inTx /\ tests' = tests + 1 /\ inTx'
          /\ UNCHANGED <<session, frames, currentRole, loginRole>>
      BY <1>5 DEF BeginTransaction
    <2>2. Counted' /\ (FirstTransaction' => FirstTransaction)
      BY <1>4, <2>1 DEF Counted, FirstTransaction
    <2> QED BY <1>3, <1>4, <2>1, <2>2 DEF LoginTracked
  <1>6. CASE EndTransaction
    <2>1. Depth = 0 /\ inTx /\ ~inTx' /\ UNCHANGED <<frames, tests>>
      BY <1>6 DEF EndTransaction
    <2>2. ~FirstTransaction' /\ Counted'
      BY <1>4, <2>1 DEF Counted, FirstTransaction
    <2> QED BY <1>3, <2>1, <2>2 DEF LoginTracked
  <1>7. CASE CloseConnection
    <2>1. /\ Depth = 0 /\ UNCHANGED <<frames, inTx, tests>>
          /\ currentRole' = NoValue /\ loginRole' = NoValue
      BY <1>7 DEF CloseConnection
    <2> QED BY <1>3, <1>4, <2>1 DEF LoginTracked, Counted
  <1>8. CASE Disconnect
    <2>1. ~Usable(session')
      BY <1>2, <1>8 DEF Disconnect, Lost, Session, Usable
    <2> QED BY <1>2, <1>4, <1>8, <2>1, PythonStutter DEF Disconnect, LoginTracked
  <1> QED BY <1>1, <1>5, <1>6, <1>7, <1>8 DEF World

\* The tracker of the Python client, the values it captured and the session
\* agree at every point of every block.
THEOREM PythonInvariant ==
    ASSUME Lang = "python"
    PROVE  Spec => []PythonInv
  <1>1. Init => PythonInv
    BY InitRole DEF Init, PythonInv, Unwinding, CapturedAsIs, Counted, OuterTracked,
                    CurrentTracked, LoginTracked, Depth
  <1>2. PythonInv /\ [Next]_vars => PythonInv'
    <2> SUFFICES ASSUME PythonInv, [Next]_vars PROVE PythonInv'
      OBVIOUS
    <2>1. RoleInv'
      BY NextKeepsRole DEF PythonInv, CancelContext
    <2>2. CASE UNCHANGED vars
      BY <2>1, <2>2, PythonStutter DEF vars, PythonInv, LoginTracked
    <2> QED BY <2>2, BodyKeepsPython, AsRoleKeepsPython, WorldKeepsPython DEF Next
  <1> QED BY <1>1, <1>2, PTL DEF Spec

\* Python: a block that ends without an exception leaves the claims GUC at the
\* value it found there, unless that was NULL, even if the body set it itself.
THEOREM ClaimsRestored ==
    ASSUME Lang = "python"
    PROVE  Spec => NonNullClaimsRestored
  <1>1. ASSUME PythonInv, Next, Depth' < Depth, ~raised', Top.captured # NoValue
        PROVE  CurrentClaims(session') = Top.captured
    <2>1. TypeOK /\ session \in Session /\ frames \in Seq(Frame) /\ Depth \in Nat
      BY <1>1 DEF PythonInv, RoleInv, HeldInv, SavepointInv, TypeOK, Depth
    <2>2. ~UNCHANGED frames /\ Depth > 0
      BY <1>1, <2>1 DEF Depth
    <2>3. \A f : Len([frames EXCEPT ![Depth] = f]) = Depth
      BY <2>1 DEF Depth
    <2>4. \A f : Len(Append(frames, f)) = Depth + 1
      BY <2>1 DEF Depth
    <2>5. Top.captured = Top.prevClaims /\ (Top.pc \in {"undo", "rollbackto"} => raised)
      BY <1>1, <2>2, TopTracked
    <2>6. ~Raises /\ \A pc : ~Goto(pc)
      BY <1>1, <2>1, <2>3 DEF Raises, Goto, Depth
    <2>7. ~World
      BY <2>2 DEF World, BeginTransaction, EndTransaction, CloseConnection, Disconnect,
                  CancelContext
    <2>8. ~Body
      <3>1. ~Statement /\ ~(\E j \in Json : ExecSetsClaims(j))
        BY <2>2, StatementRecords, <1>1
      <3>2. ~BodyEnds /\ \A r \in Roles, c \in Json \cup {NoValue} : ~CallAsRole(r, c)
        BY <1>1, <2>1, <2>3, <2>4 DEF BodyEnds, CallAsRole, Depth
      <3> QED BY <3>1, <3>2 DEF Body, Statement
    <2>9. RestoreClaims /\ session' = SetConfig(session, Top.prevClaims)
      <3>1. ~CaptureActor /\ ~OpenSavepoint
        BY <1>1, <2>1, <2>3, <2>6 DEF CaptureActor, OpenSavepoint, Depth
      <3>2. ~SwitchRole /\ ~InstallClaims /\ ~ReleaseSavepoint
        BY <2>6 DEF SwitchRole, InstallClaims, ReleaseSavepoint, EntryFails, RefusedLocally,
                    Enter
      <3>3. ~RestoreRole
        BY <1>1, <2>5, <2>6 DEF RestoreRole
      <3>4. ~RollbackToSavepoint
        BY <1>1, <2>5, <2>6 DEF RollbackToSavepoint, Leaves
      <3> QED BY <1>1, <2>6, <2>7, <2>8, <3>1, <3>2, <3>3, <3>4
              DEF Next, AsRole, RestoreClaims
    <2> QED BY <1>1, <2>1, <2>5, <2>9 DEF SetConfig, CurrentClaims, Session
  <1>2. PythonInv /\ [Next]_vars =>
            [Depth' < Depth /\ ~raised' /\ Top.captured # NoValue
             => CurrentClaims(session') = Top.captured]_vars
    BY <1>1
  <1> QED BY <1>2, PythonInvariant, PTL DEF Spec, NonNullClaimsRestored

\* Python: in the first transaction() of a client, the one the pytest fixture
\* gives a test, coverage attributes each statement to the role that ran it.
THEOREM CoverageAttributed ==
    ASSUME Lang = "python"
    PROVE  Spec => CoverageInOneTransaction
  <1>1. ASSUME PythonInv, Next, inTx, tests = 1, ran' # ran
        PROVE  CoverageFollowsRole'
    <2>1. ~AsRole /\ ~World
      BY <1>1 DEF AsRole, CaptureActor, OpenSavepoint, SwitchRole, InstallClaims,
                  ReleaseSavepoint, RestoreRole, RestoreClaims, RollbackToSavepoint,
                  Elsewhere, World, BeginTransaction, EndTransaction, CloseConnection,
                  Disconnect, CancelContext
    <2>2. Statement \/ \E j \in Json : ExecSetsClaims(j)
      BY <1>1, <2>1 DEF Next, Body, Statement, BodyEnds, CallAsRole
    <2>3. AtBody /\ Runs /\ (RanCaptured \/ RanUncaptured)
      BY <1>1, <2>2, StatementRecords
    <2>4. Usable(session)
      BY <1>1, <2>3 DEF PythonInv, RoleInv, HeldInv, SavepointInv, TypeOK, Session, Runs,
                        Sent, Usable
    <2>5. ActiveRole = session.role
      BY <1>1, <2>3, <2>4, ActiveRoleIsSessionRole DEF FirstTransaction
    <2> QED BY <2>3, <2>5 DEF RanCaptured, RanUncaptured, Ran, CoverageFollowsRole
  <1>2. PythonInv /\ [Next]_vars =>
            [inTx /\ tests = 1 /\ ran' # ran => CoverageFollowsRole']_vars
    BY <1>1
  <1> QED BY <1>2, PythonInvariant, PTL DEF Spec, CoverageInOneTransaction
===============================================================================
