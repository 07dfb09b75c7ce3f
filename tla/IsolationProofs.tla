-------------------------- MODULE IsolationProofs --------------------------
(***************************************************************************)
(* The provers behind `pgrls verify`: a clause is encoded in three-valued  *)
(* logic over free columns and the terms of a session, and Z3 is asked     *)
(* whether some row passes it.  A world gives every variable of the        *)
(* encoding a value and a NULL flag.                                       *)
(***************************************************************************)
EXTENDS Clauses

CONSTANTS Values,             \* the strings Z3 may choose from
          AuthFunctions,      \* the functions taken to be NULL without a JWT
          IdentityColumns     \* the columns a tenant axis may be on

ASSUME ProofAssumption == {Default, "anon", "t"} \subseteq Values

\* A session of the encoding: the JWT-less and the anon-key caller, with the
\* value configured for app.tenant ("": none), or a tenant's ("tenant").
NotSet == ""
AnonSession(key, guc) == [kind |-> IF key THEN "anonkey" ELSE "anon", guc |-> guc]
TenantSession == [kind |-> "tenant", guc |-> NotSet]

Settings == {"setting", "setting_strict"}
Unwrapped(o) == IF o.is = "select" THEN Call(o.of) ELSE o     \* _unwrap_scalar_sublink
IsAnonNullLeaf(f) == f \in AuthFunctions /\ ~IsNeverNull(f)
\* Encoded by a session variable when the session is a tenant's.
IsSessionTerm(o) == o.is = "call" /\ (IsAnonNullLeaf(o.of) \/ o.of = "setting_strict")

\* EXISTS, a pattern match, current_user and other keywords are not encoded.
Encodable(c) ==
    \A a \in AtomsOf(c) :
        /\ a.op \notin {"exists", "~~"}
        /\ \A o \in {a.l, a.r} : o.is \in Functions => o.of # "current_user"
\* The variables of a clause: columns, session terms and opaque calls.
Variables(c) == {IF o.is = "coalesce" THEN Call(o.of) ELSE Unwrapped(o) :
                    o \in {p \in OperandsOf(c) : p.is \notin {"literal", "none", "relation"}}}
Worlds(c) == [Variables(c) -> [v : Values, n : BOOLEAN]]

Value(v, n, unset) == [v |-> v, n |-> n, unset |-> unset]
AnonVal(o, w, session) ==
    LET f == o.of  v == w[o].v IN
    IF session.kind = "anonkey" /\ f = "auth.role" THEN Value("anon", FALSE, FALSE)
    ELSE IF session.kind = "anonkey" /\ f = "auth.jwt" THEN Value(v, FALSE, FALSE)
    ELSE IF f \in Settings /\ session.guc # NotSet THEN Value(session.guc, FALSE, FALSE)
    ELSE IF IsAnonNullLeaf(f) THEN Value(v, TRUE, FALSE)
    ELSE IF f = "setting_strict" THEN Value(v, FALSE, TRUE)
    ELSE Value(v, w[o].n, FALSE)
EncodedCall(o, w, session) ==
    IF session.kind = "tenant" /\ IsSessionTerm(o) THEN Value(w[o].v, FALSE, FALSE)
    ELSE AnonVal(o, w, session)
Encoded(o, w, session) ==
    CASE o.is = "literal" -> Value(o.of, FALSE, FALSE)
      [] o.is = "coalesce" -> LET e == EncodedCall(Call(o.of), w, session) IN
                              Value(IF e.n THEN Default ELSE e.v, FALSE, FALSE)
      [] o.is \in {"call", "select"} -> EncodedCall(Unwrapped(o), w, session)
      [] OTHER -> Value(w[o].v, w[o].n, FALSE)

\* Whether the atom is TRUE.  Only that matters: no NOT is above an atom, and
\* AND and OR are TRUE by the truth of their arguments.
Comparison(op, l, r) ==
    LET known == ~l.unset /\ ~r.unset /\ ~l.n /\ ~r.n IN
    CASE op = "true" -> TRUE
      [] op = "false" -> FALSE
      [] op = "holds" -> ~l.unset /\ ~l.n /\ l.v = "t"
      [] op \in {"=", "in"} -> known /\ l.v = r.v
      [] op = "<>" -> known /\ l.v # r.v
      [] op = "isnull" -> l.n
      [] op = "notnull" -> ~l.n
IsTrue(a, w, session) == Comparison(a.op, Encoded(a.l, w, session), Encoded(a.r, w, session))
Passes(c, w, session) == \E d \in c : \A a \in d : IsTrue(a, w, session)
-------------------------------------------------------------------------------
(* Anonymous reads.                                                        *)

\* A leak has a witness row, a total one (the witness {}) is of every row.
ProveAnonSession(c, session) ==
    IF ~Encodable(c) THEN "unverified"
    ELSE IF \A w \in Worlds(c) : ~Passes(c, w, session) THEN "isolated"
    ELSE IF \A w \in Worlds(c) : Passes(c, w, session) THEN "total" ELSE "leak"
Strongest(verdicts) == IF verdicts \cap {"leak", "total"} # {} THEN "leak"
                       ELSE IF "unverified" \in verdicts THEN "unverified" ELSE "isolated"
\* Mutant: the anon-key caller is not tried.
ProveJwtLess(c, gucs) ==
    Strongest({ProveAnonSession(c, AnonSession(FALSE, g)) : g \in gucs})
\* gucs: the values app.tenant may be configured with, one per login path.
AnonVerdicts(c, gucs) ==
    {ProveAnonSession(c, AnonSession(key, g)) : key \in BOOLEAN, g \in gucs}
ProveAnonIsolation(c, gucs) == Strongest(AnonVerdicts(c, gucs))
\* Every anonymous session reads every row.
AnonLeakIsTotal(c, gucs) == AnonVerdicts(c, gucs) = {"total"}
\* SEC038: a policy that every anonymous session without a JWT reads whole.
AnonReadCounterexample(c) == ProveAnonSession(c, AnonSession(FALSE, NotSet)) = "total"
-------------------------------------------------------------------------------
(* Reads across tenants.                                                   *)

\* <column> = <session term>: the pairs a tenant axis is taken from.
PairsOf(a) ==
    {pr \in {<<Unwrapped(a.l), Unwrapped(a.r)>>, <<Unwrapped(a.r), Unwrapped(a.l)>>} :
        a.op \in {"=", "in"} /\ pr[1].is = "column" /\ IsSessionTerm(pr[2])}
TenantPairs(c) == UNION {PairsOf(a) : a \in AtomsOf(c)}
NullTested(c) == {t \in {Unwrapped(a.l) : a \in {b \in AtomsOf(c) :
                                                    b.op \in {"isnull", "notnull"}}} :
                     IsSessionTerm(t)}
\* Mutant: a NULL test of another session term is not noticed.
ProveOneAxis(c) ==
    LET pairs == TenantPairs(c) IN
    IF ~Encodable(c) \/ Cardinality(pairs) # 1 THEN "unverified"
    ELSE LET pr == CHOOSE p \in pairs : TRUE IN
         IF pr[1].of \notin IdentityColumns THEN "unverified"
         ELSE IF \E w \in Worlds(c) : Passes(c, w, TenantSession) /\ w[pr[1]].v # w[pr[2]].v
         THEN "leak" ELSE "isolated"
ProveCrossTenant(c) ==
    LET pairs == TenantPairs(c) IN
    IF ~Encodable(c) \/ Cardinality(pairs) # 1 THEN "unverified"
    ELSE LET pr == CHOOSE p \in pairs : TRUE IN
         IF NullTested(c) \ {pr[2]} # {} \/ pr[1].of \notin IdentityColumns THEN "unverified"
         ELSE IF \E w \in Worlds(c) : Passes(c, w, TenantSession) /\ w[pr[1]].v # w[pr[2]].v
         THEN "leak" ELSE "isolated"
\* The column and the session term of the axis.
TenantAxis(c) == CHOOSE pr \in TenantPairs(c) : TRUE
\* Witness {}: every row of another tenant passes.  A model of Z3's that gives a
\* further column a value nobody asked for would keep it in the witness.
CrossTenantTotal(c) ==
    LET axis == TenantAxis(c) IN
    \A w \in Worlds(c) : w[axis[1]].v # w[axis[2]].v => Passes(c, w, TenantSession)
===============================================================================
