----------------------------- MODULE VerifyProofs -----------------------------
(***************************************************************************)
(* What holds of `pgrls verify` for every set of policies, roles, views    *)
(* and functions: a database it calls isolated keeps its rows from         *)
(* anonymous requests, and so does every sequence of merges it lets pass;  *)
(* a proof across tenants keeps a tenant on its side of an axis; and a     *)
(* leak it reports is a row that some request reads.                       *)
(***************************************************************************)
EXTENDS Verify, FiniteSetTheorems, WellFoundedInduction, TLAPS

-------------------------------------------------------------------------------
(* Memberships.                                                            *)

\* A set of natural numbers has a least one.
LEMMA LeastNumber ==
    ASSUME NEW S, S \subseteq Nat, S # {}
    PROVE  \E k \in S : \A j \in S : k <= j
<1>1. PICK k \in S : \A j \in S : ~(<<j, k>> \in OpToRel(<, Nat))
  BY NatLessThanWellFounded, WFMin, Zenon
<1>2. ASSUME NEW j \in S PROVE k <= j
  <2>1. j \in Nat /\ k \in Nat
    OBVIOUS
  <2>2. ASSUME j < k PROVE <<j, k>> \in OpToRel(<, Nat)
    <3>1. <<j, k>> \in Nat \X Nat /\ <<j, k>>[1] < <<j, k>>[2]
      BY <2>1, <2>2
    <3> QED
      BY <3>1, Zenon DEF OpToRel
  <2>3. ~(j < k)
    BY <1>1, <2>2
  <2> QED
    BY <2>1, <2>3
<1> QED
  BY <1>2

\* The roles one membership above some roles, and the chain of `Reach`.
Above(edges, below) == below \cup {e.role : e \in {x \in edges : x.member \in below}}
IsChain(f, edges, from, n) ==
    f = [k \in 0..n |-> IF k = 0 THEN from ELSE Above(edges, f[k - 1])]

\* The recursion of `Reach` defines a function.
LEMMA ChainExists ==
    ASSUME NEW edges, NEW from, NEW n \in Nat
    PROVE  \E f : IsChain(f, edges, from, n)
<1> DEFINE Missing == {m \in Nat : ~\E f : IsChain(f, edges, from, m)}
<1> SUFFICES ASSUME Missing # {} PROVE FALSE
  OBVIOUS
<1>1. PICK m \in Missing : \A j \in Missing : m <= j
  <2>1. Missing \subseteq Nat
    OBVIOUS
  <2> HIDE DEF Missing
  <2> QED
    BY <2>1, LeastNumber
<1>2. m \in Nat /\ ~\E f : IsChain(f, edges, from, m)
  OBVIOUS
<1>3. CASE m = 0
  <2> DEFINE g == [k \in 0..0 |-> from]
  <2>1. IsChain(g, edges, from, 0)
    BY DEF IsChain
  <2> QED
    BY <1>2, <1>3, <2>1
<1>4. CASE m # 0
  <2>1. m - 1 \in Nat /\ ~(m <= m - 1)
    BY <1>2, <1>4
  <2>2. PICK f : IsChain(f, edges, from, m - 1)
    BY <1>1, <2>1
  <2> DEFINE g == [k \in 0..m |-> IF k < m THEN f[k] ELSE Above(edges, f[m - 1])]
  <2>3. ASSUME NEW k \in 0..m
        PROVE  g[k] = IF k = 0 THEN from ELSE Above(edges, g[k - 1])
    <3>1. CASE k = 0
      <4>1. 0 \in 0..(m - 1) /\ 0 < m
        BY <1>2, <1>4
      <4>2. f[0] = from
        BY <2>2, <4>1 DEF IsChain
      <4> QED
        BY <3>1, <4>1, <4>2
    <3>2. CASE k # 0 /\ k < m
      <4>1. k \in 0..(m - 1) /\ k - 1 \in 0..m /\ k - 1 < m /\ k - 1 \in 0..(m - 1)
        BY <1>2, <3>2
      <4>2. f[k] = Above(edges, f[k - 1])
        BY <2>2, <3>2, <4>1 DEF IsChain
      <4> QED
        BY <3>2, <4>1, <4>2
    <3>3. CASE k = m
      <4>1. k - 1 \in 0..m /\ k - 1 < m /\ ~(k < m) /\ k # 0
        BY <1>2, <1>4, <3>3
      <4> QED
        BY <3>3, <4>1
    <3> QED
      BY <1>2, <3>1, <3>2, <3>3
  <2>4. IsChain(g, edges, from, m)
    <3>1. g = [k \in 0..m |-> g[k]]
      OBVIOUS
    <3> HIDE DEF g
    <3> QED
      BY <2>3, <3>1 DEF IsChain
  <2> QED
    BY <1>2, <2>4
<1> QED
  BY <1>3, <1>4

\* More memberships and more roles to start from reach more.
LEMMA ChainMonotone ==
    ASSUME NEW edges, NEW more, NEW from, NEW wider, NEW n \in Nat, NEW f, NEW g,
           edges \subseteq more, from \subseteq wider,
           IsChain(f, edges, from, n), IsChain(g, more, wider, n)
    PROVE  \A k \in 0..n : from \subseteq f[k] /\ f[k] \subseteq g[k]
<1> DEFINE Wrong == {k \in 0..n : ~(from \subseteq f[k] /\ f[k] \subseteq g[k])}
<1> SUFFICES ASSUME Wrong # {} PROVE FALSE
  OBVIOUS
<1>1. PICK k \in Wrong : \A j \in Wrong : k <= j
  <2>1. Wrong \subseteq Nat
    OBVIOUS
  <2> HIDE DEF Wrong
  <2> QED
    BY <2>1, LeastNumber
<1>2. k \in 0..n /\ ~(from \subseteq f[k] /\ f[k] \subseteq g[k])
  OBVIOUS
<1>3. k # 0
  BY <1>2 DEF IsChain
<1>4. k - 1 \in 0..n /\ ~(k <= k - 1)
  BY <1>2, <1>3
<1>5. from \subseteq f[k - 1] /\ f[k - 1] \subseteq g[k - 1]
  BY <1>1, <1>4
<1>6. f[k] = Above(edges, f[k - 1]) /\ g[k] = Above(more, g[k - 1])
  BY <1>2, <1>3 DEF IsChain
<1>7. Above(edges, f[k - 1]) \subseteq Above(more, g[k - 1])
  BY <1>5 DEF Above
<1>8. from \subseteq Above(edges, f[k - 1])
  BY <1>5 DEF Above
<1> QED
  BY <1>2, <1>6, <1>7, <1>8

\* `Reach` is the end of a chain.
LEMMA ReachIsChain ==
    ASSUME NEW edges, NEW from
    PROVE  \E f : /\ IsChain(f, edges, from, Cardinality(Roles))
                  /\ Reach(edges, from) = f[Cardinality(Roles)]
<1> DEFINE n == Cardinality(Roles)
           f == CHOOSE x : IsChain(x, edges, from, n)
<1>1. IsChain(f, edges, from, n)
  <2>1. \E x : IsChain(x, edges, from, n)
    BY VerifyAssumption, FS_CardinalityType, ChainExists
  <2> QED
    BY <2>1
<1>2. Reach(edges, from) = f[n]
  BY DEF Reach, IsChain, Above
<1> QED
  BY <1>1, <1>2

\* `Reach` has the roles it starts from, and grows with both arguments.
LEMMA ReachMonotone ==
    ASSUME NEW edges, NEW more, NEW from, NEW wider, edges \subseteq more, from \subseteq wider
    PROVE  from \subseteq Reach(edges, from) /\ Reach(edges, from) \subseteq Reach(more, wider)
<1> DEFINE n == Cardinality(Roles)
<1>1. n \in Nat
  BY VerifyAssumption, FS_CardinalityType
<1>2. PICK f : IsChain(f, edges, from, n) /\ Reach(edges, from) = f[n]
  BY ReachIsChain
<1>3. PICK g : IsChain(g, more, wider, n) /\ Reach(more, wider) = g[n]
  BY ReachIsChain
<1>4. n \in 0..n
  BY <1>1
<1>5. from \subseteq f[n] /\ f[n] \subseteq g[n]
  <2> HIDE DEF n
  <2> QED
    BY <1>1, <1>2, <1>3, <1>4, ChainMonotone
<1> QED
  BY <1>2, <1>3, <1>5
-------------------------------------------------------------------------------
(* The provers.  A row and a request that PostgreSQL may see make a world  *)
(* of the encoding in which every atom that is TRUE is TRUE.               *)

\* A variable whose server value is NULL or raises is filled.
WorldOf(c, s, w, fill) ==
    [o \in Variables(c) |-> [v |-> IF Val(o, s, w) \in Values \ {Null, Raises} THEN Val(o, s, w)
                                   ELSE fill[o],
                             n |-> Val(o, s, w) = Null]]
Defaults(c) == [o \in Variables(c) |-> Default]

\* It is a world.
LEMMA WorldOfType ==
    ASSUME NEW c, NEW s, NEW w, NEW fill \in [Variables(c) -> Values]
    PROVE  WorldOf(c, s, w, fill) \in Worlds(c)
  BY DEF WorldOf, Worlds

\* What the encoding e of an operand tells of the server's value x.
Agrees(x, e) == x \notin {Null, Raises} => e.v = x /\ ~e.n /\ ~e.unset

\* An encoded atom is TRUE where the server's is.
LEMMA TrueAtomsAgree ==
    ASSUME NEW a, NEW s, NEW w, NEW v, NEW session, IsAtom(a), a.op \notin {"exists", "~~"},
           a.op \notin {"true", "false"} => Agrees(Val(a.l, s, w), Encoded(a.l, v, session)),
           a.op \in {"=", "in", "<>"} => Agrees(Val(a.r, s, w), Encoded(a.r, v, session)),
           a.op = "isnull" /\ Val(a.l, s, w) = Null => Encoded(a.l, v, session).n,
           Truth(a, s, w) = "T"
    PROVE  IsTrue(a, v, session)
<1> DEFINE l == Encoded(a.l, v, session)
           r == Encoded(a.r, v, session)
           x == Val(a.l, s, w)
           y == Val(a.r, s, w)
<1>1. a.op \in {"true", "false", "holds", "isnull", "notnull", "=", "in", "<>"}
  BY DEF IsAtom
<1>2. CASE a.op = "true"
  BY <1>2 DEF IsTrue, Comparison
<1>3. CASE a.op = "false"
  BY <1>3 DEF Truth
<1>4. CASE a.op = "holds"
  <2>1. Agrees(x, l)
    BY <1>4
  <2>2. x = "t"
    BY <1>4 DEF Truth
  <2>3. ~l.unset /\ ~l.n /\ l.v = "t"
    BY <2>1, <2>2 DEF Agrees, Null, Raises
  <2> QED
    BY <1>4, <2>3 DEF IsTrue, Comparison
<1>5. CASE a.op = "isnull"
  <2>1. x = Null
    BY <1>5 DEF Truth
  <2> QED
    BY <1>5, <2>1 DEF IsTrue, Comparison
<1>6. CASE a.op = "notnull"
  <2>1. x \notin {Null, Raises} /\ Agrees(x, l)
    BY <1>6 DEF Truth
  <2> QED
    BY <1>6, <2>1 DEF Agrees, IsTrue, Comparison
<1>7. CASE a.op \in {"=", "in"}
  <2>1. Agrees(x, l) /\ Agrees(y, r)
    BY <1>7
  <2>2. x \notin {Null, Raises} /\ y \notin {Null, Raises} /\ x = y
    BY <1>7 DEF Truth
  <2> QED
    BY <1>7, <2>1, <2>2 DEF Agrees, IsTrue, Comparison
<1>8. CASE a.op = "<>"
  <2>1. Agrees(x, l) /\ Agrees(y, r)
    BY <1>8
  <2>2. x \notin {Null, Raises} /\ y \notin {Null, Raises} /\ x # y
    BY <1>8 DEF Truth
  <2> QED
    BY <1>8, <2>1, <2>2 DEF Agrees, IsTrue, Comparison
<1> QED
  BY <1>1, <1>2, <1>3, <1>4, <1>5, <1>6, <1>7, <1>8

\* A clause that admits a row has a disjunct whose atoms are TRUE; it passes in
\* a world where each of them is.
LEMMA PassesWhereAdmitted ==
    ASSUME NEW c, NEW s, NEW w, NEW v, NEW session, Admits(c, s, w),
           \A a \in AtomsOf(c) : Truth(a, s, w) = "T" => IsTrue(a, v, session)
    PROVE  Passes(c, v, session)
  BY DEF Admits, Passes, AtomsOf

\* A request the encoding has strings for.
IsRequest(s) == \A f \in Fns : s[f] \in (Values \ {Null, Raises}) \cup {Null}

\* The world has what a row holds, and what a session's function returns.
LEMMA WorldHasColumns ==
    ASSUME NEW c, NEW o \in OperandsOf(c), IsOperand(o), o.is \in {"column", "wrap", "wrapcall"},
           NEW s, IsRequest(s), NEW w \in Rows, NEW fill,
           NEW v, v = WorldOf(c, s, w, fill)
    PROVE  /\ Val(o, s, w) \notin {Null, Raises} => v[o].v = Val(o, s, w) /\ ~v[o].n
           /\ Val(o, s, w) = Null => v[o].n
<1>1. o \in Variables(c)
  <2>1. o \in {p \in OperandsOf(c) : p.is \notin {"literal", "none", "relation"}}
    OBVIOUS
  <2>2. o = IF o.is = "coalesce" THEN Call(o.of) ELSE Unwrapped(o)
    BY DEF Unwrapped
  <2> QED
    BY <2>1, <2>2 DEF Variables
<1>2. Val(o, s, w) \in Values \cup {Null, Raises}
  <2>1. CASE o.is \in {"column", "wrap"}
    <3>1. o.of \in Columns /\ Val(o, s, w) = w[o.of]
      BY <2>1 DEF IsOperand, Val, Functions
    <3>2. w[o.of] \in Values \cup {Null}
      BY <3>1 DEF Rows
    <3> QED
      BY <3>1, <3>2, ValuesAssumption
  <2>2. CASE o.is = "wrapcall"
    <3>1. o.of \in Fns \cup {"setting_strict"} /\ Val(o, s, w) = Read(o.of, s)
      BY <2>2 DEF IsOperand, Val, Functions
    <3>2. "setting" \in Fns
      BY DEF Fns
    <3> QED
      BY <3>1, <3>2 DEF IsRequest, Read
  <2> QED
    BY <2>1, <2>2
<1> QED
  BY <1>1, <1>2 DEF WorldOf

\* The same for the functions that a clause calls.
LEMMA WorldHasCalls ==
    ASSUME NEW c, NEW o \in OperandsOf(c), IsOperand(o), o.is \in {"call", "select", "coalesce"},
           NEW s, IsRequest(s), NEW w, NEW fill, NEW v, v = WorldOf(c, s, w, fill)
    PROVE  /\ Call(o.of) \in Variables(c)
           /\ o.of \in Fns \cup {"setting_strict"}
           /\ Read(o.of, s) \notin {Null, Raises} =>
                 v[Call(o.of)].v = Read(o.of, s) /\ ~v[Call(o.of)].n
           /\ Read(o.of, s) \in {Null, Raises} => v[Call(o.of)].v = fill[Call(o.of)]
           /\ Read(o.of, s) = Null => v[Call(o.of)].n
           /\ Read(o.of, s) # Null => ~v[Call(o.of)].n
<1>1. Call(o.of) \in Variables(c)
  <2>1. o \in {p \in OperandsOf(c) : p.is \notin {"literal", "none", "relation"}}
    OBVIOUS
  <2>2. Call(o.of) = IF o.is = "coalesce" THEN Call(o.of) ELSE Unwrapped(o)
    BY DEF Unwrapped, IsOperand, Call
  <2> QED
    BY <2>1, <2>2 DEF Variables
<1>2. o.of \in Fns \cup {"setting_strict"}
  BY DEF IsOperand
<1>3. Read(o.of, s) \in (Values \ {Null, Raises}) \cup {Null, Raises}
  <2>1. "setting" \in Fns
    BY DEF Fns
  <2> QED
    BY <1>2, <2>1 DEF IsRequest, Read
<1>4. Val(Call(o.of), s, w) = Read(o.of, s)
  BY DEF Val, Call, Operand
<1> QED
  BY <1>1, <1>2, <1>3, <1>4 DEF WorldOf

-------------------------------------------------------------------------------
(* The anonymous prover.                                                   *)

AnonRole(key) == IF key THEN "anon" ELSE Null
AnonRequest(key, t) == Request(Null, AnonRole(key), AnonRole(key), t)
GucOf(t) == IF t = Null THEN NotSet ELSE t

\* What an anonymous request holds.
LEMMA AnonRequestHolds ==
    ASSUME NEW key \in BOOLEAN, NEW t \in Tenants \cup {Null}, NEW f \in Fns
    PROVE  AnonRequest(key, t)[f] = IF f = "auth.uid" THEN Null
                                    ELSE IF f = "setting" THEN t ELSE AnonRole(key)
  BY DEF AnonRequest, Request, Fns

\* The encoding of a call in an anonymous session.
LEMMA AnonCallAgrees ==
    ASSUME NEW key \in BOOLEAN, NEW t \in Tenants \cup {Null}, NEW o, NEW v,
           o.of \in Fns \cup {"setting_strict"},
           Read(o.of, AnonRequest(key, t)) \notin {Null, Raises} =>
               v[o].v = Read(o.of, AnonRequest(key, t)),
           Read(o.of, AnonRequest(key, t)) = Null => v[o].n,
           Read(o.of, AnonRequest(key, t)) # Null => ~v[o].n
    PROVE  /\ Agrees(Read(o.of, AnonRequest(key, t)), EncodedCall(o, v, AnonSession(key, GucOf(t))))
           /\ Read(o.of, AnonRequest(key, t)) = Null
              => EncodedCall(o, v, AnonSession(key, GucOf(t))).n
<1> DEFINE s == AnonRequest(key, t)
           session == AnonSession(key, GucOf(t))
           x == Read(o.of, s)
<1>1. EncodedCall(o, v, session) = AnonVal(o, v, session)
  BY DEF EncodedCall, AnonSession
<1>2. /\ session.kind = IF key THEN "anonkey" ELSE "anon"
      /\ session.guc = GucOf(t)
  BY DEF AnonSession
<1>3. t # NotSet /\ t # Raises
  BY DEF Tenants, Null, Raises, NotSet
<1>4. CASE o.of = "auth.uid"
  <2>1. x = Null
    BY <1>4, AnonRequestHolds DEF Read, Fns
  <2>2. AnonVal(o, v, session) = IF IsAnonNullLeaf(o.of) THEN Value(v[o].v, TRUE, FALSE)
                                 ELSE Value(v[o].v, v[o].n, FALSE)
    BY <1>2, <1>4 DEF AnonVal, Settings
  <2> QED
    BY <1>1, <2>1, <2>2 DEF Agrees, Value
<1>5. CASE o.of = "auth.role"
  <2>1. x = AnonRole(key)
    BY <1>5, AnonRequestHolds DEF Read, Fns
  <2>2. AnonVal(o, v, session) = IF key THEN Value("anon", FALSE, FALSE)
                                 ELSE IF IsAnonNullLeaf(o.of) THEN Value(v[o].v, TRUE, FALSE)
                                 ELSE Value(v[o].v, v[o].n, FALSE)
    BY <1>2, <1>5 DEF AnonVal, Settings
  <2> QED
    BY <1>1, <2>1, <2>2 DEF Agrees, Value, AnonRole, Null
<1>6. CASE o.of = "auth.jwt"
  <2>1. x = AnonRole(key)
    BY <1>6, AnonRequestHolds DEF Read, Fns
  <2>2. AnonVal(o, v, session) = IF key THEN Value(v[o].v, FALSE, FALSE)
                                 ELSE IF IsAnonNullLeaf(o.of) THEN Value(v[o].v, TRUE, FALSE)
                                 ELSE Value(v[o].v, v[o].n, FALSE)
    BY <1>2, <1>6 DEF AnonVal, Settings
  <2> QED
    BY <1>1, <2>1, <2>2 DEF Agrees, Value, AnonRole, Null
<1>7. CASE o.of = "setting"
  <2>1. x = t
    BY <1>7, AnonRequestHolds DEF Read, Fns
  <2>2. AnonVal(o, v, session) = IF t # Null THEN Value(t, FALSE, FALSE)
                                 ELSE IF IsAnonNullLeaf(o.of) THEN Value(v[o].v, TRUE, FALSE)
                                 ELSE Value(v[o].v, v[o].n, FALSE)
    BY <1>2, <1>3, <1>7 DEF AnonVal, Settings, GucOf
  <2> QED
    BY <1>1, <2>1, <2>2 DEF Agrees, Value
<1>8. CASE o.of = "setting_strict"
  <2>1. x = IF t = Null THEN Raises ELSE t
    BY <1>8, AnonRequestHolds DEF Read, Fns
  <2>2. AnonVal(o, v, session) = IF t # Null THEN Value(t, FALSE, FALSE)
                                 ELSE Value(v[o].v, FALSE, TRUE)
    BY <1>2, <1>3, <1>8 DEF AnonVal, Settings, GucOf, IsAnonNullLeaf, IsNeverNull
  <2> QED
    BY <1>1, <2>1, <2>2 DEF Agrees, Value, Null, Raises
<1> QED
  BY <1>4, <1>5, <1>6, <1>7, <1>8 DEF Fns

\* Every operand of a clause in an anonymous session.
LEMMA AnonOperandAgrees ==
    ASSUME NEW c, NEW o \in OperandsOf(c), IsOperand(o), NEW key \in BOOLEAN,
           NEW t \in Tenants \cup {Null}, NEW w \in Rows,
           NEW s, s = AnonRequest(key, t), IsRequest(s),
           NEW v, v = WorldOf(c, s, w, Defaults(c))
    PROVE  /\ Agrees(Val(o, s, w), Encoded(o, v, AnonSession(key, GucOf(t))))
           /\ Val(o, s, w) = Null => Encoded(o, v, AnonSession(key, GucOf(t))).n
<1> DEFINE session == AnonSession(key, GucOf(t))
           e == EncodedCall(Call(o.of), v, session)
<1>1. CASE o.is = "literal"
  <2>1. Val(o, s, w) = o.of /\ o.of \notin {Null, Raises}
    BY <1>1 DEF Val, IsOperand, Functions
  <2>2. Encoded(o, v, session) = Value(o.of, FALSE, FALSE)
    BY <1>1 DEF Encoded
  <2> QED
    BY <2>1, <2>2 DEF Agrees, Value
<1>2. CASE o.is \in {"column", "wrap", "wrapcall"}
  <2>1. Encoded(o, v, session) = Value(v[o].v, v[o].n, FALSE)
    BY <1>2 DEF Encoded
  <2>2. /\ Val(o, s, w) \notin {Null, Raises} => v[o].v = Val(o, s, w) /\ ~v[o].n
        /\ Val(o, s, w) = Null => v[o].n
    BY <1>2, WorldHasColumns
  <2> QED
    BY <2>1, <2>2 DEF Agrees, Value
<1>3. ASSUME o.is \in {"call", "select", "coalesce"}
      PROVE  Agrees(Read(o.of, s), e) /\ (Read(o.of, s) = Null => e.n)
  <2>1. /\ o.of \in Fns \cup {"setting_strict"}
        /\ Read(o.of, s) \notin {Null, Raises} =>
              v[Call(o.of)].v = Read(o.of, s) /\ ~v[Call(o.of)].n
        /\ Read(o.of, s) = Null => v[Call(o.of)].n
        /\ Read(o.of, s) # Null => ~v[Call(o.of)].n
    BY <1>3, WorldHasCalls
  <2>2. Call(o.of).of = o.of
    BY DEF Call, Operand
  <2> QED
    BY <2>1, <2>2, AnonCallAgrees
<1>4. CASE o.is \in {"call", "select"}
  <2>1. Val(o, s, w) = Read(o.of, s)
    BY <1>4 DEF Val
  <2>2. Unwrapped(o) = Call(o.of)
    BY <1>4 DEF Unwrapped, IsOperand, Call
  <2>3. Encoded(o, v, session) = e
    BY <1>4, <2>2 DEF Encoded
  <2> QED
    BY <1>3, <1>4, <2>1, <2>3
<1>5. CASE o.is = "coalesce"
  <2>1. Val(o, s, w) = IF Read(o.of, s) = Null THEN Default ELSE Read(o.of, s)
    BY <1>5 DEF Val
  <2>2. Encoded(o, v, session) = Value(IF e.n THEN Default ELSE e.v, FALSE, FALSE)
    BY <1>5 DEF Encoded
  <2> HIDE DEF e
  <2> QED
    BY <1>3, <1>5, <2>1, <2>2 DEF Agrees, Value, Default, Null
<1> QED
  BY <1>1, <1>2, <1>4, <1>5 DEF IsOperand, Functions

\* What holds of an anonymous request.
LEMMA AnonRequestType ==
    ASSUME NEW key \in BOOLEAN, NEW t \in Tenants \cup {Null}
    PROVE  IsRequest(AnonRequest(key, t))
<1>1. AnonRole(key) \in (Values \ {Null, Raises}) \cup {Null}
  BY ValuesAssumption DEF AnonRole, Null, Raises
<1>2. t \in (Values \ {Null, Raises}) \cup {Null}
  BY ValuesAssumption DEF Tenants, Null, Raises
<1> QED
  BY <1>1, <1>2, AnonRequestHolds DEF IsRequest

\* A clause proved isolated in a session admits no row under a request of it.
LEMMA AnonSessionSound ==
    ASSUME NEW c, NEW key \in BOOLEAN, NEW t \in Tenants \cup {Null}, NEW w \in Rows, IsClause(c),
           ProveAnonSession(c, AnonSession(key, GucOf(t))) = "isolated"
    PROVE  ~Admits(c, AnonRequest(key, t), w)
<1> SUFFICES ASSUME Admits(c, AnonRequest(key, t), w) PROVE FALSE
  OBVIOUS
<1> DEFINE s == AnonRequest(key, t)
           session == AnonSession(key, GucOf(t))
           v == WorldOf(c, s, w, Defaults(c))
<1>1. Encodable(c) /\ \A x \in Worlds(c) : ~Passes(c, x, session)
  BY DEF ProveAnonSession
<1>2. v \in Worlds(c)
  <2>1. Defaults(c) \in [Variables(c) -> Values]
    BY ProofAssumption DEF Defaults
  <2> QED
    BY <2>1, WorldOfType
<1>3. ASSUME NEW a \in AtomsOf(c), Truth(a, s, w) = "T" PROVE IsTrue(a, v, session)
  <2>1. IsAtom(a) /\ a.op \notin {"exists", "~~"}
    BY <1>1 DEF IsClause, Encodable
  <2>2. a.l \in OperandsOf(c) /\ a.r \in OperandsOf(c)
    BY DEF OperandsOf
  <2>3. IsRequest(s)
    BY AnonRequestType
  <2> HIDE DEF s, v
  <2>4. ASSUME NEW o \in OperandsOf(c), IsOperand(o)
        PROVE  Agrees(Val(o, s, w), Encoded(o, v, session))
               /\ (Val(o, s, w) = Null => Encoded(o, v, session).n)
    BY <2>3, <2>4, AnonOperandAgrees DEF s, v
  <2>5. /\ a.op \notin {"true", "false"} => IsOperand(a.l)
        /\ a.op \in {"=", "in", "<>"} => IsOperand(a.r)
    BY <2>1 DEF IsAtom
  <2>6. /\ a.op \notin {"true", "false"} => Agrees(Val(a.l, s, w), Encoded(a.l, v, session))
        /\ a.op \in {"=", "in", "<>"} => Agrees(Val(a.r, s, w), Encoded(a.r, v, session))
        /\ a.op = "isnull" /\ Val(a.l, s, w) = Null => Encoded(a.l, v, session).n
    BY <2>2, <2>4, <2>5
  <2> QED
    BY <1>3, <2>1, <2>6, TrueAtomsAgree
<1>4. Passes(c, v, session)
  <2> HIDE DEF s, v, session
  <2> QED
    BY <1>3, PassesWhereAdmitted DEF s
<1> QED
  BY <1>1, <1>2, <1>4

\* `Strongest` gives the verdicts of a proof.
LEMMA StrongestIsolated ==
    ASSUME NEW S, Strongest(S) = "isolated", S \subseteq {"isolated", "leak", "total", "unverified"}
    PROVE  \A x \in S : x = "isolated"
  BY DEF Strongest

\* A clause proved isolated admits no row under any anonymous request tried.
LEMMA AnonIsolationSound ==
    ASSUME NEW c, NEW gucs, NEW key \in BOOLEAN, NEW t \in Tenants \cup {Null}, NEW w \in Rows,
           IsClause(c), GucOf(t) \in gucs, ProveAnonIsolation(c, gucs) = "isolated"
    PROVE  ~Admits(c, AnonRequest(key, t), w)
<1>1. AnonVerdicts(c, gucs) \subseteq {"isolated", "leak", "total", "unverified"}
  <2>1. \A x : ProveAnonSession(c, x) \in {"isolated", "leak", "total", "unverified"}
    BY DEF ProveAnonSession
  <2> QED
    BY <2>1 DEF AnonVerdicts
<1>2. \A x \in AnonVerdicts(c, gucs) : x = "isolated"
  BY <1>1, StrongestIsolated DEF ProveAnonIsolation
<1>3. ProveAnonSession(c, AnonSession(key, GucOf(t))) \in AnonVerdicts(c, gucs)
  BY DEF AnonVerdicts
<1>4. ProveAnonSession(c, AnonSession(key, GucOf(t))) = "isolated"
  BY <1>2, <1>3
<1> QED
  BY <1>4, AnonSessionSound

-------------------------------------------------------------------------------
(* Compositions and tables.                                                *)

\* A row that passes a clause and the floors passes their composition.
LEMMA AllOfAdmits ==
    ASSUME NEW c, NEW floors, NEW s, NEW w, \A f \in floors \cup {c} : Admits(f, s, w)
    PROVE  Admits(AllOf(c, floors), s, w)
<1> DEFINE pick == [f \in floors \cup {c} |-> CHOOSE d \in f : \A a \in d : Truth(a, s, w) = "T"]
<1>1. \A f \in floors \cup {c} : pick[f] \in f /\ \A a \in pick[f] : Truth(a, s, w) = "T"
  BY DEF Admits
<1>2. pick \in [floors \cup {c} -> UNION (floors \cup {c})] /\ DOMAIN pick = floors \cup {c}
  BY <1>1
<1> DEFINE d == UNION {pick[f] : f \in DOMAIN pick}
<1> HIDE DEF pick
<1>3. d \in AllOf(c, floors)
  <2>1. pick \in {p \in [floors \cup {c} -> UNION (floors \cup {c})] : \A f \in DOMAIN p : p[f] \in f}
    BY <1>1, <1>2
  <2> QED
    BY <2>1 DEF AllOf
<1>4. \A a \in d : Truth(a, s, w) = "T"
  BY <1>1, <1>2
<1> QED
  BY <1>3, <1>4 DEF Admits

\* A composition has the atoms of its parts.
LEMMA AllOfIsClause ==
    ASSUME NEW c, NEW floors, \A f \in floors \cup {c} : IsClause(f)
    PROVE  IsClause(AllOf(c, floors))
<1> SUFFICES ASSUME NEW d \in AllOf(c, floors), NEW a \in d PROVE IsAtom(a)
  BY DEF IsClause, AtomsOf
<1>1. PICK p \in [floors \cup {c} -> UNION (floors \cup {c})] :
         (\A f \in DOMAIN p : p[f] \in f) /\ d = UNION {p[f] : f \in DOMAIN p}
  BY DEF AllOf
<1>2. PICK f \in floors \cup {c} : a \in p[f]
  BY <1>1
<1>3. p[f] \in f /\ IsClause(f)
  BY <1>1, <1>2
<1> QED
  BY <1>2, <1>3 DEF IsClause, AtomsOf

\* Without floors it is the clause itself.
LEMMA AllOfNone ==
    ASSUME NEW c
    PROVE  AllOf(c, {}) = c
<1>1. ASSUME NEW d \in AllOf(c, {}) PROVE d \in c
  <2>1. PICK p \in [{} \cup {c} -> UNION ({} \cup {c})] :
           (\A f \in DOMAIN p : p[f] \in f) /\ d = UNION {p[f] : f \in DOMAIN p}
    BY DEF AllOf
  <2>2. DOMAIN p = {c}
    BY <2>1
  <2>3. d = p[c] /\ p[c] \in c
    BY <2>1, <2>2
  <2> QED
    BY <2>3
<1>2. ASSUME NEW d \in c PROVE d \in AllOf(c, {})
  <2> DEFINE p == [f \in {} \cup {c} |-> d]
  <2>1. p \in [{} \cup {c} -> UNION ({} \cup {c})] /\ DOMAIN p = {c} /\ p[c] = d
    BY <1>2
  <2>2. d = UNION {p[f] : f \in DOMAIN p}
    BY <2>1
  <2> HIDE DEF p
  <2>3. p \in {q \in [{} \cup {c} -> UNION ({} \cup {c})] : \A f \in DOMAIN q : q[f] \in f}
    BY <1>2, <2>1
  <2> QED
    BY <2>2, <2>3 DEF AllOf
<1> QED
  BY <1>1, <1>2

\* What the tables hold.
LEMMA TableIs ==
    ASSUME NEW f
    PROVE  Table(f) = f
  BY DEF Table

\* The proof of a clause for anonymous sessions.
LEMMA AnonProofOf ==
    ASSUME NEW c \in ProofClauses("anon"), NEW gucs \in GucSets
    PROVE  Prove(c, "anon", gucs) = ProveAnonIsolation(c, gucs)
<1> DEFINE proofs == [cg \in ProofClauses("anon") \X GucSets |-> ProveAnonIsolation(cg[1], cg[2])]
<1>1. AnonProofs = proofs
  BY TableIs DEF AnonProofs
<1>2. <<c, gucs>> \in ProofClauses("anon") \X GucSets
  OBVIOUS
<1>3. proofs[<<c, gucs>>] = ProveAnonIsolation(c, gucs)
  BY <1>2
<1> HIDE DEF proofs
<1> QED
  BY <1>1, <1>3 DEF Prove

\* The proof of a clause across tenants.
LEMMA TenantProofOf ==
    ASSUME NEW mode \in {"cross-tenant", "write"}, NEW c \in ProofClauses(mode), NEW gucs
    PROVE  Prove(c, mode, gucs) = ProveCrossTenant(c)
<1>1. c \in UNION {ProofClauses(m) : m \in {"cross-tenant", "write"}} /\ mode # "anon"
  OBVIOUS
<1> QED
  BY <1>1, TableIs DEF TenantProofs, Prove

\* The rows a clause admits.
LEMMA AdmittedIs ==
    ASSUME NEW c \in Clauses0, NEW s \in Requests
    PROVE  Admitted(c, s) = {w \in Rows : Admits(c, s, w)}
<1> DEFINE f == [cs \in Clauses0 \X Requests |-> {w \in Rows : Admits(cs[1], cs[2], w)}]
<1>1. AdmittedRows = f
  BY TableIs DEF AdmittedRows
<1>2. <<c, s>> \in Clauses0 \X Requests
  OBVIOUS
<1>3. f[<<c, s>>] = {w \in Rows : Admits(c, s, w)}
  BY <1>2
<1> HIDE DEF f
<1> QED
  BY <1>1, <1>3 DEF Admitted

\* The parts of a database.
LEMMA DatabaseHas ==
    ASSUME NEW d \in Databases
    PROVE  /\ d.rls \in BOOLEAN /\ d.force \in BOOLEAN /\ d.graph \in BOOLEAN
           /\ d.owner \in Roles \ TenantRoles /\ d.grants \subseteq Grantees /\ d.edges \subseteq Edges
           /\ \A n \in DOMAIN d.pol : d.pol[n] \in Policies /\ IsPolicy(d.pol[n])
           /\ d.guc \in [Roles \cup {"ALL"} -> Gucs \cup {NotSet}]
           /\ DOMAIN d.views \subseteq {"outer", "inner"}
           /\ \A n \in DOMAIN d.views : d.views[n] \in Views /\ IsView(d.views[n])
           /\ d.fns \subseteq Bodies /\ \A f, g \in d.fns : f = g
           /\ \A f \in d.fns : IsFunction(f)
<1>1. /\ d.rls \in BOOLEAN /\ d.force \in BOOLEAN /\ d.graph \in BOOLEAN
      /\ d.owner \in Roles \ TenantRoles /\ d.grants \subseteq Grantees /\ d.edges \subseteq Edges
      /\ d.guc \in [Roles \cup {"ALL"} -> Gucs \cup {NotSet}]
      /\ d.fns \in {{}} \cup {{f} : f \in Bodies}
  BY DEF Databases
<1>2. PICK names \in SUBSET PolicyNames : d.pol \in [names -> Policies]
  BY DEF Databases
<1>3. PICK shown \in SUBSET {"outer", "inner"} : d.views \in [shown -> Views]
  BY DEF Databases
<1>4. \A n \in DOMAIN d.pol : d.pol[n] \in Policies
  BY <1>2
<1>5. DOMAIN d.views \subseteq {"outer", "inner"} /\ \A n \in DOMAIN d.views : d.views[n] \in Views
  BY <1>3
<1> QED
  BY <1>1, <1>4, <1>5, VerifyAssumption

\* Anonymous sessions run as roles, "anon" one of them.
LEMMA SessionRolesAre ==
    /\ "anon" \in SessionRoles /\ SessionRoles \subseteq Roles
    /\ Public \notin SessionRoles /\ SessionRoles \subseteq AnonRoles
BY VerifyAssumption DEF SessionRoles, Grantees

\* Every value of app.tenant an anonymous request may come with is tried.
LEMMA LoginGucsType ==
    ASSUME NEW d \in Databases
    PROVE  /\ LoginGucs(d) \in GucSets
           /\ "anon" \in LoginRoles(d) /\ LoginRoles(d) \subseteq Roles
           /\ \A r \in Roles : Configured(d, r) \in Gucs \cup {Null}
           /\ \A r \in Roles : GucOf(Configured(d, r)) \in Gucs \cup {NotSet}
<1>1. "anon" \in LoginRoles(d) /\ LoginRoles(d) \subseteq Roles
  <2>1. {"anon"} \subseteq Reach(d.edges, {"anon"})
    BY ReachMonotone
  <2> QED
    BY <2>1, SessionRolesAre DEF LoginRoles
<1>2. ASSUME NEW r \in Roles
      PROVE  Configured(d, r) \in Gucs \cup {Null} /\ GucOf(Configured(d, r)) \in Gucs \cup {NotSet}
  <2>1. d.guc[r] \in Gucs \cup {NotSet} /\ d.guc["ALL"] \in Gucs \cup {NotSet}
    BY <1>2, DatabaseHas
  <2>2. Configured(d, r) \in Gucs \cup {Null}
    BY <2>1 DEF Configured
  <2> QED
    BY <2>2 DEF GucOf
<1> DEFINE logins == IF d.graph THEN LoginRoles(d) ELSE SessionRoles
<1>3. "anon" \in logins /\ logins \subseteq Roles
  BY <1>1, SessionRolesAre
<1>4. GucOf(Configured(d, "anon")) \in LoginGucs(d)
  BY <1>3 DEF LoginGucs, GucOf
<1>5. ASSUME NEW g \in LoginGucs(d) PROVE g \in Gucs \cup {NotSet}
  <2>1. PICK r \in logins : g = GucOf(Configured(d, r))
    BY DEF LoginGucs, GucOf
  <2> QED
    BY <1>2, <1>3, <2>1
<1>6. LoginGucs(d) \in GucSets
  <2>1. LoginGucs(d) \subseteq Gucs \cup {NotSet}
    BY <1>5
  <2>2. LoginGucs(d) # {}
    BY <1>4
  <2> HIDE DEF logins
  <2>3. LoginGucs(d) \in SUBSET (Gucs \cup {NotSet})
    BY <2>1
  <2> QED
    BY <2>2, <2>3 DEF GucSets
<1> QED
  BY <1>1, <1>2, <1>6

\* Clauses and requests that the tables have rows for.
LEMMA InTables ==
    /\ \A p \in Policies : p.using \in Clauses0 /\ p.check \in Clauses0
    /\ \A key \in BOOLEAN, t \in Tenants \cup {Null} : AnonRequest(key, t) \in Requests
    /\ TenantRequests \subseteq Requests
<1>1. ASSUME NEW p \in Policies PROVE p.using \in Clauses0 /\ p.check \in Clauses0
  BY DEF Clauses0
<1>2. ASSUME NEW key \in BOOLEAN, NEW t \in Tenants \cup {Null}
      PROVE  AnonRequest(key, t) \in Requests
  <2> DEFINE a == <<AnonRole(key), AnonRole(key)>>
  <2>1. a \in {<<Null, Null>>, <<"anon", "anon">>}
    BY DEF AnonRole
  <2>2. AnonRequest(key, t) = Request(Null, a[1], a[2], t)
    BY DEF AnonRequest
  <2> HIDE DEF a
  <2> QED
    BY <2>1, <2>2 DEF Requests
<1>3. TenantRequests \subseteq Requests
  BY DEF Requests
<1> QED
  BY <1>1, <1>2, <1>3

\* Compositions that the tables have proofs of.
LEMMA InProofClauses ==
    ASSUME NEW p \in Policies, NEW mode, CheckedAst(p, mode) # Absent,
           NEW floors, floors \subseteq {q \in Policies : ~q.permissive},
           \A q \in floors : CheckedAst(q, mode) # Absent
    PROVE  AllOf(CheckedAst(p, mode), {CheckedAst(q, mode) : q \in floors}) \in ProofClauses(mode)
<1> DEFINE cs == {CheckedAst(q, mode) : q \in Policies} \ {Absent}
           all == {CheckedAst(q, mode) : q \in {x \in Policies : ~x.permissive}} \ {Absent}
           fs == {CheckedAst(q, mode) : q \in floors}
<1>1. CheckedAst(p, mode) \in cs
  OBVIOUS
<1>2. fs \in SUBSET all
  OBVIOUS
<1>3. ProofClauses(mode) = {AllOf(c, f) : c \in cs, f \in SUBSET all}
  BY DEF ProofClauses
<1> HIDE DEF cs, all, fs
<1>4. AllOf(CheckedAst(p, mode), fs) \in ProofClauses(mode)
  BY <1>1, <1>2, <1>3
<1> QED
  BY <1>4 DEF fs

\* The clause of one policy is among them.
LEMMA AloneInProofClauses ==
    ASSUME NEW p \in Policies, NEW mode, CheckedAst(p, mode) # Absent
    PROVE  CheckedAst(p, mode) \in ProofClauses(mode)
<1>1. AllOf(CheckedAst(p, mode), {CheckedAst(q, mode) : q \in {}}) \in ProofClauses(mode)
  BY InProofClauses
<1>2. {CheckedAst(q, mode) : q \in {}} = {}
  OBVIOUS
<1> QED
  BY <1>1, <1>2, AllOfNone

\* The clauses that are checked are clauses.
LEMMA CheckedIsClause ==
    ASSUME NEW p \in Policies, NEW mode
    PROVE  IsClause(CheckedAst(p, mode))
<1>1. IsClause(p.using) /\ IsClause(p.check)
  BY VerifyAssumption DEF IsPolicy
<1>2. IsClause(Absent)
  BY DEF IsClause, AtomsOf, Absent
<1>3. IsClause(EffectiveWriteCheck(p)) /\ IsClause(OldRowWriteGate(p))
  BY <1>1, <1>2 DEF EffectiveWriteCheck, OldRowWriteGate
<1>4. IsClause(EffectiveWriteCheck(p) \cup OldRowWriteGate(p))
  BY <1>3 DEF IsClause, AtomsOf
<1> QED
  BY <1>1, <1>4 DEF CheckedAst

\* A roll-up is isolated if each proof is.
LEMMA RollupIsolated ==
    ASSUME NEW S, Rollup(S) = "isolated"
    PROVE  "leak" \notin S /\ "unverified" \notin S
  BY DEF Rollup

-------------------------------------------------------------------------------
(* The anonymous verdict on a table.                                       *)

\* The verdicts on a policy.
LEMMA AnonProofType ==
    ASSUME NEW d \in Databases, NEW n \in DOMAIN d.pol, NEW R
    PROVE  PolicyProof(d, d.pol[n], "anon", R, LoginGucs(d)) \in {"isolated", "leak", "unverified"}
<1> DEFINE p == d.pol[n]
           gucs == LoginGucs(d)
           floors == Floors(d, p, "anon")
<1>1. p \in Policies /\ gucs \in GucSets
  BY DatabaseHas, LoginGucsType
<1>2. \A c \in ProofClauses("anon") : Prove(c, "anon", gucs) \in {"isolated", "leak", "unverified"}
  BY <1>1, AnonProofOf DEF ProveAnonIsolation, Strongest
<1>3. CheckedAst(p, "anon") # Absent
      => Prove(CheckedAst(p, "anon"), "anon", gucs) \in {"isolated", "leak", "unverified"}
  BY <1>1, <1>2, AloneInProofClauses
<1>4. CheckedAst(p, "anon") # Absent /\ (\A q \in floors : CheckedAst(q, "anon") # Absent)
      => Prove(Composed(d, p, "anon"), "anon", gucs) \in {"isolated", "leak", "unverified"}
  <2>1. floors \subseteq {q \in Policies : ~q.permissive}
    <3>1. Relevant(d, "anon", FALSE) \subseteq {q \in Policies : ~q.permissive}
      BY DatabaseHas DEF Relevant
    <3> QED
      BY <3>1 DEF Floors
  <2> HIDE DEF p, gucs
  <2> QED
    BY <1>1, <1>2, <2>1, InProofClauses DEF Composed
<1> HIDE DEF p, gucs
<1> QED
  BY <1>3, <1>4 DEF PolicyProof, p, gucs

\* A policy whose proof is isolated gives an anonymous request no row that the
\* floors it was composed with let through, if the request may have the policy.
LEMMA AnonPolicySound ==
    ASSUME NEW d \in Databases, NEW n \in DOMAIN d.pol, NEW R, NEW key \in BOOLEAN,
           NEW t \in Tenants \cup {Null}, NEW w \in Rows,
           GucOf(t) \in LoginGucs(d),
           PolicyProof(d, d.pol[n], "anon", R, LoginGucs(d)) = "isolated",
           d.graph => d.pol[n].roles \cap ReachableRoles(d, R) # {},
           \A q \in Floors(d, d.pol[n], "anon") :
               q.using # Absent => Admits(q.using, AnonRequest(key, t), w)
    PROVE  ~Admits(d.pol[n].using, AnonRequest(key, t), w)
<1> DEFINE p == d.pol[n]
           gucs == LoginGucs(d)
           floors == Floors(d, p, "anon")
           s == AnonRequest(key, t)
<1> SUFFICES ASSUME Admits(p.using, s, w) PROVE FALSE
  OBVIOUS
<1>1. p \in Policies /\ gucs \in GucSets
  BY DatabaseHas, LoginGucsType
<1>2. \A q : CheckedAst(q, "anon") = q.using
  BY DEF CheckedAst
<1>3. p.using # Absent
  BY DEF Admits, Absent
<1>4. p.using \in ProofClauses("anon")
  BY <1>1, <1>2, <1>3, AloneInProofClauses
<1>5. IsClause(p.using)
  BY <1>1, <1>2, CheckedIsClause
<1>6. Prove(p.using, "anon", gucs) = "leak"
  <2>1. Prove(p.using, "anon", gucs) # "isolated"
    BY <1>1, <1>4, <1>5, AnonProofOf, AnonIsolationSound
  <2> HIDE DEF p, gucs, s, floors
  <2>2. PolicyProof(d, p, "anon", R, gucs) = "isolated"
    BY DEF p, gucs
  <2> QED
    BY <1>2, <1>3, <2>1, <2>2 DEF PolicyProof
<1>7. PolicyReach(d, p, R) = "reachable"
  <2> HIDE DEF p, gucs, s, floors
  <2>1. PolicyProof(d, p, "anon", R, gucs) = "isolated"
    BY DEF p, gucs
  <2>2. PolicyReach(d, p, R) # "unknown"
    BY <1>2, <1>3, <1>6, <2>1 DEF PolicyProof
  <2> QED
    BY <2>2 DEF PolicyReach, p
<1>8. /\ \A q \in floors : q.using # Absent
      /\ Prove(Composed(d, p, "anon"), "anon", gucs) = "isolated"
  <2> HIDE DEF p, gucs, s
  <2>1. PolicyProof(d, p, "anon", R, gucs) = "isolated"
    BY DEF p, gucs
  <2> QED
    BY <1>2, <1>3, <1>6, <1>7, <2>1 DEF PolicyProof
<1>9. floors \subseteq {q \in Policies : ~q.permissive}
  <2>1. Relevant(d, "anon", FALSE) \subseteq {q \in Policies : ~q.permissive}
    BY DatabaseHas DEF Relevant
  <2> QED
    BY <2>1 DEF Floors
<1> DEFINE parts == {CheckedAst(q, "anon") : q \in floors}
<1>10. Composed(d, p, "anon") = AllOf(p.using, parts)
  BY <1>2 DEF Composed
<1>11. \A f \in parts \cup {p.using} : Admits(f, s, w) /\ IsClause(f)
  <2> HIDE DEF s, p
  <2>1. ASSUME NEW q \in floors
        PROVE  Admits(CheckedAst(q, "anon"), s, w) /\ IsClause(CheckedAst(q, "anon"))
    <3>1. q \in Policies /\ q.using # Absent
      BY <1>8, <1>9
    <3>2. Admits(q.using, s, w)
      BY <3>1 DEF s, p
    <3> QED
      BY <1>2, <3>1, <3>2, CheckedIsClause
  <2> QED
    BY <1>5, <2>1
<1>12. AllOf(p.using, parts) \in ProofClauses("anon")
  <2>1. \A q \in floors : CheckedAst(q, "anon") # Absent
    BY <1>2, <1>8
  <2>2. CheckedAst(p, "anon") = p.using
    BY <1>2
  <2> HIDE DEF p, floors
  <2>3. AllOf(CheckedAst(p, "anon"), {CheckedAst(q, "anon") : q \in floors}) \in ProofClauses("anon")
    BY <1>1, <1>3, <1>9, <2>1, <2>2, InProofClauses
  <2> QED
    BY <2>2, <2>3
<1> DEFINE c == AllOf(p.using, parts)
<1> HIDE DEF parts
<1>13. IsClause(c)
  BY <1>11, AllOfIsClause
<1>14. Admits(c, s, w)
  <2> HIDE DEF s, p
  <2> QED
    BY <1>11, AllOfAdmits
<1>15. ProveAnonIsolation(c, gucs) = "isolated"
  <2> HIDE DEF p, gucs, s
  <2> QED
    BY <1>1, <1>8, <1>10, <1>12, AnonProofOf
<1> QED
  <2> HIDE DEF c
  <2> QED
    BY <1>13, <1>14, <1>15, AnonIsolationSound

\* The privileges of a role are among those that reach a policy for some roles.
LEMMA PrivilegesReach ==
    ASSUME NEW d \in Databases, NEW R, NEW r \in R
    PROVE  /\ r \in Privileges(d, r)
           /\ d.graph => Privileges(d, r) \cup {Public} \subseteq ReachableRoles(d, R)
<1> DEFINE inh == {e \in d.edges : e.inherit}
<1>1. {r} \subseteq Reach(inh, {r}) /\ Reach(inh, {r}) \subseteq Reach(inh, R \cup {Public})
  <2>1. {r} \subseteq R \cup {Public} /\ inh \subseteq inh
    OBVIOUS
  <2> HIDE DEF inh
  <2> QED
    BY <2>1, ReachMonotone
<1>2. R \cup {Public} \subseteq Reach(inh, R \cup {Public})
  <2> HIDE DEF inh
  <2>1. inh \subseteq inh /\ R \cup {Public} \subseteq R \cup {Public}
    OBVIOUS
  <2> QED
    BY <2>1, ReachMonotone
<1>3. Privileges(d, r) = Reach(inh, {r})
  BY DEF Privileges
<1>4. d.graph => ReachableRoles(d, R) = Reach(inh, R \cup {Public})
  BY DEF ReachableRoles
<1> HIDE DEF inh
<1> QED
  BY <1>1, <1>2, <1>3, <1>4

\* A floor governs whoever a policy it covers governs.
LEMMA FloorGoverns ==
    ASSUME NEW d, NEW n, NEW m, NEW r, NEW mode, NEW op, NEW permissive,
           Governs(d, n, r, op, permissive), FloorApplies(d.pol[n], d.pol[m], mode),
           d.pol[m].cmd \in {"ALL", op}, ~d.pol[m].permissive, d.pol[m].permissive \in BOOLEAN
    PROVE  Governs(d, m, r, op, FALSE)
<1>1. d.pol[m].roles \cap (Privileges(d, r) \cup {Public}) # {}
  BY DEF Governs, FloorApplies
<1> QED
  BY <1>1 DEF Governs

\* A table proved isolated shows no row to a role that its policies bind.
LEMMA IsolatedTableHidden ==
    ASSUME NEW d \in Databases, NEW R, NEW r \in R, NEW owners, NEW key \in BOOLEAN,
           NEW t \in Tenants \cup {Null}, GucOf(t) \in LoginGucs(d),
           TableVerdict(d, "anon", R, LoginGucs(d), owners) = "isolated", ~Exempt(d, r)
    PROVE  Visible(d, r, AnonRequest(key, t), "SELECT", "old") = {}
<1> DEFINE s == AnonRequest(key, t)
           gucs == LoginGucs(d)
<1> SUFFICES ASSUME NEW w \in Visible(d, r, s, "SELECT", "old") PROVE FALSE
  OBVIOUS
<1>1. d.rls /\ s \in Requests
  BY InTables DEF TableVerdict
<1>2. \A m \in DOMAIN d.pol : /\ Gate(d.pol[m], "old") = d.pol[m].using
                             /\ d.pol[m].using \in Clauses0
  BY DatabaseHas, InTables DEF Gate
<1>3. \A m \in DOMAIN d.pol : w \in Admitted(d.pol[m].using, s) => w \in Rows /\ Admits(d.pol[m].using, s, w)
  BY <1>1, <1>2, AdmittedIs
<1> HIDE DEF s
<1>4. /\ \E n \in DOMAIN d.pol : /\ Governs(d, n, r, "SELECT", TRUE)
                              /\ w \in Admitted(Gate(d.pol[n], "old"), s)
      /\ \A n \in DOMAIN d.pol : Governs(d, n, r, "SELECT", FALSE) /\ Gate(d.pol[n], "old") # Absent
                              => w \in Admitted(Gate(d.pol[n], "old"), s)
  BY <1>1 DEF Visible
<1>5. PICK n \in DOMAIN d.pol : Governs(d, n, r, "SELECT", TRUE) /\ w \in Admitted(d.pol[n].using, s)
  BY <1>2, <1>4
<1>6. w \in Rows /\ Admits(d.pol[n].using, s, w)
  BY <1>3, <1>5
<1>7. PolicyProof(d, d.pol[n], "anon", R, gucs) \notin {"leak", "unverified"}
  <2>1. d.pol[n] \in Relevant(d, "anon", TRUE)
    BY <1>5 DEF Relevant, Governs, ModeCommands
  <2>2. Rollup({PolicyProof(d, p, "anon", R, gucs) : p \in Relevant(d, "anon", TRUE)}) = "isolated"
    BY DEF TableVerdict
  <2> HIDE DEF gucs
  <2> QED
    BY <2>1, <2>2, RollupIsolated
<1>8. PolicyProof(d, d.pol[n], "anon", R, gucs) \in {"isolated", "leak", "unverified"}
  BY AnonProofType
<1>9. d.graph => d.pol[n].roles \cap ReachableRoles(d, R) # {}
  BY <1>5, PrivilegesReach DEF Governs
<1>10. \A q \in Floors(d, d.pol[n], "anon") : q.using # Absent => Admits(q.using, s, w)
  <2> SUFFICES ASSUME NEW q \in Floors(d, d.pol[n], "anon"), q.using # Absent
               PROVE  Admits(q.using, s, w)
    OBVIOUS
  <2>1. PICK m \in DOMAIN d.pol : /\ q = d.pol[m] /\ d.pol[m].cmd \in {"ALL", "SELECT"}
                                  /\ ~d.pol[m].permissive
                                  /\ FloorApplies(d.pol[n], d.pol[m], "anon")
    BY DEF Floors, Relevant, ModeCommands
  <2>2. d.pol[m].permissive \in BOOLEAN
    BY DatabaseHas DEF IsPolicy
  <2>3. Governs(d, m, r, "SELECT", FALSE)
    BY <1>5, <2>1, <2>2, FloorGoverns
  <2> QED
    BY <1>2, <1>3, <1>4, <2>1, <2>3
<1> QED
  BY <1>6, <1>7, <1>8, <1>9, <1>10, AnonPolicySound DEF s

-------------------------------------------------------------------------------
(* The doors beside the table.                                             *)

\* An effective user whom the code takes for bound by the policies is.
LEMMA NotExempt ==
    ASSUME NEW d, NEW o, EffectiveUserExempt(d, o) = "F"
    PROVE  ~Exempt(d, o)
  BY DEF EffectiveUserExempt, InheritsPrivs, Exempt
\* One whom the code refuses the table has no privilege on it.
LEMMA ReadsNothing ==
    ASSUME NEW d, NEW r, NEW owner, NEW grants, RoleReads(d, r, owner, grants) = "F"
    PROVE  ~MaySelect(d, r, owner, grants)
  BY DEF RoleReads

\* The verdicts on a table.
LEMMA TableVerdictType ==
    ASSUME NEW d, NEW mode, NEW R, NEW gucs, NEW owners, d.rls
    PROVE  TableVerdict(d, mode, R, gucs, owners) \in {"isolated", "leak", "unverified"}
  BY DEF TableVerdict, Rollup

\* A bound owner to whom the policies grant nothing reads nothing.
LEMMA BoundOwnerReadsNothing ==
    ASSUME NEW d \in Databases, NEW o, NEW key \in BOOLEAN, NEW t \in Tenants \cup {Null},
           GucOf(t) \in LoginGucs(d),
           \/ RoleReads(d, o, d.owner, d.grants) = "F"
           \/ EffectiveUserExempt(d, o) = "F" /\ OwnerVerdict(d, o) = "isolated"
    PROVE  ReadsTable(d, o, AnonRequest(key, t)) = {}
<1>1. CASE RoleReads(d, o, d.owner, d.grants) = "F"
  BY <1>1, ReadsNothing DEF ReadsTable
<1>2. CASE EffectiveUserExempt(d, o) = "F" /\ OwnerVerdict(d, o) = "isolated"
  <2>1. ~Exempt(d, o) /\ o \in {o}
    BY <1>2, NotExempt
  <2>2. TableVerdict(d, "anon", {o}, LoginGucs(d), TRUE) = "isolated"
    BY <1>2 DEF OwnerVerdict
  <2>3. Visible(d, o, AnonRequest(key, t), "SELECT", "old") = {}
    BY <2>1, <2>2, IsolatedTableHidden
  <2> QED
    BY <2>3 DEF ReadsTable
<1> QED
  BY <1>1, <1>2

\* A path that hands over nothing does.
LEMMA PathToNothing ==
    ASSUME NEW d \in Databases, NEW o, NEW key \in BOOLEAN, NEW t \in Tenants \cup {Null},
           GucOf(t) \in LoginGucs(d), d.rls, PathTo(d, o) = "nothing"
    PROVE  ReadsTable(d, o, AnonRequest(key, t)) = {}
<1>1. EffectiveUserExempt(d, o) \in {"T", "F", "U"}
  BY DEF EffectiveUserExempt, InheritsPrivs
<1>2. OwnerVerdict(d, o) \in {"isolated", "leak", "unverified"}
  BY TableVerdictType DEF OwnerVerdict
<1>3. \/ RoleReads(d, o, d.owner, d.grants) = "F"
      \/ EffectiveUserExempt(d, o) = "F" /\ OwnerVerdict(d, o) = "isolated"
  BY <1>1, <1>2 DEF PathTo, OwnerReads
<1> QED
  BY <1>3, BoundOwnerReadsNothing

\* Every anonymous request comes with a value of app.tenant that was tried.
LEMMA AnonRequestTried ==
    ASSUME NEW d \in Databases, MembershipsKnown(d), NEW s \in AnonRequests(d)
    PROVE  \E key \in BOOLEAN, t \in Tenants \cup {Null} :
               s = AnonRequest(key, t) /\ GucOf(t) \in LoginGucs(d)
<1>1. PICK key \in BOOLEAN, r \in LoginRoles(d) : s = AnonRequest(key, Configured(d, r))
  BY DEF AnonRequests, AnonRequest, AnonRole
<1>2. Configured(d, r) \in Tenants \cup {Null}
  BY <1>1, LoginGucsType, VerifyAssumption
<1>3. r \in IF d.graph THEN LoginRoles(d) ELSE SessionRoles
  BY <1>1 DEF MembershipsKnown
<1>4. GucOf(Configured(d, r)) \in LoginGucs(d)
  BY <1>3 DEF LoginGucs, GucOf
<1> QED
  BY <1>1, <1>2, <1>4

\* What an anonymous session may select, the code finds.
LEMMA AnonSelectsFound ==
    ASSUME NEW d \in Databases, NEW a \in SessionRoles, NEW owner, NEW grants,
           MembershipsKnown(d), d.graph \/ owner \notin SessionRoles, MaySelect(d, a, owner, grants)
    PROVE  AnonHoldsSelect(d, owner, grants)
<1>1. a \in AnonRoles \ {Public}
  BY SessionRolesAre
<1>2. CASE d.graph
  BY <1>1, <1>2 DEF AnonHoldsSelect
<1>3. CASE ~d.graph
  <2>1. Privileges(d, a) = {a} /\ owner # a
    BY <1>3 DEF MembershipsKnown
  <2>2. grants \cap {a, Public} # {}
    BY <2>1 DEF MaySelect
  <2> QED
    BY <1>1, <2>2 DEF AnonHoldsSelect
<1> QED
  BY <1>2, <1>3

\* A table proved isolated shows an anonymous session nothing directly.
LEMMA DirectlyHidden ==
    ASSUME NEW d \in Databases, NEW a \in SessionRoles, NEW key \in BOOLEAN,
           NEW t \in Tenants \cup {Null}, MembershipsKnown(d),
           Verification(d, "anon") = "isolated", GucOf(t) \in LoginGucs(d)
    PROVE  ReadsTable(d, a, AnonRequest(key, t)) = {}
<1>1. TableVerdict(d, "anon", AnonRoles, LoginGucs(d), TRUE) = "isolated"
  BY DEF Verification
<1>2. a \in AnonRoles /\ a # Public
  BY SessionRolesAre
<1>3. ~AnonSessionExempt(d, AnonRoles)
  BY <1>1 DEF TableVerdict
<1>4. ~Exempt(d, a)
  BY <1>2, <1>3 DEF AnonSessionExempt, Exempt, MembershipsKnown
<1>5. Visible(d, a, AnonRequest(key, t), "SELECT", "old") = {}
  BY <1>1, <1>2, <1>4, IsolatedTableHidden
<1> QED
  BY <1>5 DEF ReadsTable

\* What `SaysIsolated` says.
LEMMA SaidIsolated ==
    ASSUME NEW d \in Databases, SaysIsolated(d)
    PROVE  /\ d.rls /\ Verification(d, "anon") = "isolated"
           /\ \A n \in DOMAIN d.views : Path(d, d.views[n]) = "nothing"
           /\ \A f \in d.fns : FunctionVerdict(d, f) = "absent"
<1>1. Verification(d, "anon") = "isolated"
  BY DEF SaysIsolated, Verdict
<1>2. d.rls
  BY <1>1 DEF Verification, TableVerdict
<1>3. ASSUME NEW n \in DOMAIN d.views PROVE Path(d, d.views[n]) = "nothing"
  <2>1. n \in {"outer", "inner"}
    BY DatabaseHas
  <2>2. ReachVerdict(d, d.views[n]) = "absent"
    BY <2>1 DEF SaysIsolated, Verdict
  <2> QED
    BY <1>1, <1>2, <2>2 DEF ReachVerdict, Widens
<1>4. ASSUME NEW f \in d.fns PROVE FunctionVerdict(d, f) = "absent"
  <2>1. f = CHOOSE g \in d.fns : TRUE
    <3>1. (CHOOSE g \in d.fns : TRUE) \in d.fns
      BY <1>4
    <3> QED
      BY <1>4, <3>1, DatabaseHas
  <2> QED
    BY <2>1 DEF SaysIsolated, Verdict
<1> QED
  BY <1>1, <1>2, <1>3, <1>4

\* A view that the mode finds harmless shows anon nothing.
LEMMA ViewHidden ==
    ASSUME NEW d \in Databases, NEW a \in SessionRoles, NEW n \in DOMAIN d.views,
           NEW key \in BOOLEAN, NEW t \in Tenants \cup {Null},
           MembershipsKnown(d), SaysIsolated(d), GucOf(t) \in LoginGucs(d)
    PROVE  ReadsView(d, d.views[n], a, AnonRequest(key, t)) = {}
<1> DEFINE s == AnonRequest(key, t)
           v == d.views[n]
<1> SUFFICES ASSUME ReadsView(d, v, a, s) # {} PROVE FALSE
  OBVIOUS
<1>1. d.rls /\ Path(d, v) = "nothing" /\ ReadsTable(d, a, s) = {}
  BY SaidIsolated, DirectlyHidden
<1>2. MaySelect(d, a, v.owner, v.grants) /\ ~v.mat
  BY DEF ReadsView
<1>3. \A x \in DOMAIN d.views : d.graph \/ d.views[x].owner \notin SessionRoles
  BY DEF MembershipsKnown
<1>4. \A o : PathTo(d, o) = "nothing" => ReadsTable(d, o, s) = {}
  BY <1>1, PathToNothing
<1> HIDE DEF s
<1>5. AnonHoldsSelect(d, v.owner, v.grants)
  BY <1>2, <1>3, AnonSelectsFound
<1>6. v.owner \in Roles /\ v.owner # ""
  BY DatabaseHas, VerifyAssumption DEF IsView
<1>7. CASE v.ref = Doc
  <2>1. CASE v.invoker
    <3>1. ReadsView(d, v, a, s) = ReadsTable(d, a, s)
      BY <1>2, <1>7, <2>1 DEF ReadsView, RunsAs
    <3> QED
      BY <1>1, <3>1
  <2>2. CASE ~v.invoker
    <3>1. ReadsView(d, v, a, s) = ReadsTable(d, v.owner, s)
      BY <1>2, <1>7, <2>2 DEF ReadsView, RunsAs
    <3>2. PathTo(d, v.owner) = "nothing"
      BY <1>1, <1>2, <1>5, <1>7, <2>2 DEF Path, Doc
    <3> QED
      BY <1>4, <3>1, <3>2
  <2> QED
    BY <2>1, <2>2
<1>8. CASE v.ref # Doc
  <2> DEFINE opener == RunsAs(v, a)
             i == d.views["inner"]
  <2>1. v.ref = "inner"
    BY <1>8, DatabaseHas DEF IsView
  <2>2. ReadsView(d, v, a, s) = ReadsInner(d, opener, a, s)
    BY <1>2, <1>8 DEF ReadsView
  <2>3. InnerPath(d, IF v.invoker THEN "" ELSE v.owner) = "nothing"
    BY <1>1, <1>2, <1>5, <2>1 DEF Path
  <2>4. "inner" \in DOMAIN d.views /\ MaySelect(d, opener, i.owner, i.grants)
    BY <2>2 DEF ReadsInner
  <2>5. IF v.invoker THEN AnonHoldsSelect(d, i.owner, i.grants)
        ELSE RoleReads(d, v.owner, i.owner, i.grants) # "F"
    <3>1. CASE v.invoker
      <4>1. MaySelect(d, a, i.owner, i.grants)
        BY <2>4, <3>1 DEF RunsAs
      <4> QED
        BY <1>3, <2>4, <3>1, <4>1, AnonSelectsFound
    <3>2. CASE ~v.invoker
      <4>1. MaySelect(d, v.owner, i.owner, i.grants)
        BY <2>4, <3>2 DEF RunsAs
      <4> QED
        BY <3>2, <4>1, ReadsNothing
    <3> QED
      BY <3>1, <3>2
  <2>6. ~i.mat /\ (~i.invoker => PathTo(d, i.owner) = "nothing")
    <3> HIDE DEF opener
    <3> QED
      BY <1>6, <2>3, <2>5 DEF InnerPath
  <2>7. ReadsInner(d, opener, a, s) = ReadsTable(d, RunsAs(i, a), s)
    BY <2>4, <2>6 DEF ReadsInner
  <2>8. ReadsTable(d, RunsAs(i, a), s) = {}
    BY <1>1, <1>4, <2>6 DEF RunsAs
  <2> QED
    BY <2>2, <2>7, <2>8
<1> QED
  BY <1>7, <1>8

\* A function that the mode finds harmless returns anon nothing.
LEMMA FunctionHidden ==
    ASSUME NEW d \in Databases, NEW a \in SessionRoles, NEW f \in d.fns,
           NEW key \in BOOLEAN, NEW t \in Tenants \cup {Null},
           MembershipsKnown(d), SaysIsolated(d), GucOf(t) \in LoginGucs(d)
    PROVE  ReadsFunction(d, f, a, AnonRequest(key, t)) = {}
<1> DEFINE s == AnonRequest(key, t)
           gives == Gives(d, f)
<1> SUFFICES ASSUME ReadsFunction(d, f, a, s) # {} PROVE FALSE
  OBVIOUS
<1>1. d.rls /\ Judged(d, f, gives) = "absent"
  BY SaidIsolated DEF FunctionVerdict
<1>2. f.execute \cap (Privileges(d, a) \cup {Public}) # {}
  BY DEF ReadsFunction
<1>3. f.execute \cap (AnonRoles \cup {Public} \cup
                      IF d.graph THEN ReachableRoles(d, AnonRoles) ELSE {}) # {}
  <2>1. a \in AnonRoles
    BY SessionRolesAre
  <2>2. CASE d.graph
    BY <1>2, <2>1, <2>2, PrivilegesReach
  <2>3. CASE ~d.graph
    BY <1>2, <2>1, <2>3 DEF MembershipsKnown
  <2> QED
    BY <2>2, <2>3
<1>4. EffectiveUserExempt(d, f.owner) \in {"T", "F", "U"} /\ Launders(d, f) \in {"T", "F", "U"}
  BY DEF EffectiveUserExempt, InheritsPrivs, Launders, Gained, RoleReads
<1>5. AnonRollup(d) # "absent"
  BY DEF AnonRollup, Beside
<1>6. gives = {"F"} /\ ~Unseen(f)
  <2>1. ~Candidate(d, f, gives) \/ ("T" \notin gives /\ "U" \notin gives /\ ~Unseen(f))
    <3> HIDE DEF gives
    <3> QED
      BY <1>1, <1>5 DEF Judged
  <2>2. gives = {EffectiveUserExempt(d, f.owner), Launders(d, f)}
    BY DEF Gives
  <2>3. "T" \notin gives /\ "U" \notin gives => gives = {"F"}
    BY <1>4, <2>2
  <2> HIDE DEF gives
  <2> QED
    BY <1>1, <1>3, <2>1, <2>3 DEF Candidate
<1>7. EffectiveUserExempt(d, f.owner) = "F" /\ Launders(d, f) = "F"
  <2>1. EffectiveUserExempt(d, f.owner) \in gives /\ Launders(d, f) \in gives
    BY DEF Gives
  <2> HIDE DEF gives
  <2> QED
    BY <1>6, <2>1
<1>8. \/ RoleReads(d, f.owner, d.owner, d.grants) = "F"
      \/ OwnerVerdict(d, f.owner) = "isolated"
  BY <1>7 DEF Launders, Gained
<1>9. ReadsTable(d, f.owner, s) = {}
  BY <1>7, <1>8, BoundOwnerReadsNothing
<1>10. f.body = "reads"
  BY <1>6, DatabaseHas DEF Unseen, OpaqueCall, SetsParameters, IsFunction
<1>11. [s EXCEPT !["setting"] = s["setting"]] = s
  BY DEF AnonRequest, Request
<1>12. ReadsFunction(d, f, a, s) = {}
  <2> HIDE DEF s, gives
  <2>1. ReadsFunction(d, f, a, s)
        = UNION {ReadsTable(d, f.owner, [s EXCEPT !["setting"] = x]) : x \in {s["setting"]}}
    BY <1>2, <1>10 DEF ReadsFunction
  <2>2. \A x \in {s["setting"]} : ReadsTable(d, f.owner, [s EXCEPT !["setting"] = x]) = {}
    BY <1>9, <1>11
  <2> QED
    BY <2>1, <2>2
<1> QED
  BY <1>12

\* The guarantee of the modes together, of one database.
LEMMA IsolatedDatabase ==
    ASSUME NEW d \in Databases, MembershipsKnown(d), SaysIsolated(d)
    PROVE  AnonReads(d) = {}
<1>1. ASSUME NEW a \in SessionRoles, NEW s \in AnonRequests(d)
      PROVE  /\ ReadsTable(d, a, s) = {}
             /\ \A n \in DOMAIN d.views : ReadsView(d, d.views[n], a, s) = {}
             /\ \A f \in d.fns : ReadsFunction(d, f, a, s) = {}
  <2>1. PICK key \in BOOLEAN, t \in Tenants \cup {Null} :
            s = AnonRequest(key, t) /\ GucOf(t) \in LoginGucs(d)
    BY AnonRequestTried
  <2> QED
    BY <2>1, SaidIsolated, DirectlyHidden, ViewHidden, FunctionHidden
<1>2. \A a \in SessionRoles : AnonReadsAs(d, a) = {}
  BY <1>1 DEF AnonReadsAs
<1> QED
  BY <1>2 DEF AnonReads
-------------------------------------------------------------------------------
(* The migration and the merges.                                           *)

\* Put and Drop keep functions between the sets of a database.
LEMMA PutInto ==
    ASSUME NEW N, NEW S, NEW f \in UNION {[names -> S] : names \in SUBSET N}, NEW n \in N, NEW x \in S
    PROVE  Put(f, n, x) \in UNION {[names -> S] : names \in SUBSET N}
<1>1. PICK names \in SUBSET N : f \in [names -> S]
  OBVIOUS
<1>2. Put(f, n, x) \in [names \cup {n} -> S]
  BY <1>1 DEF Put
<1>3. names \cup {n} \in SUBSET N
  OBVIOUS
<1> QED
  BY <1>2, <1>3

\* The same for Drop.
LEMMA DropFrom ==
    ASSUME NEW N, NEW S, NEW f \in UNION {[names -> S] : names \in SUBSET N}, NEW n
    PROVE  Drop(f, n) \in UNION {[names -> S] : names \in SUBSET N}
<1>1. PICK names \in SUBSET N : f \in [names -> S]
  OBVIOUS
<1>2. Drop(f, n) \in [names \ {n} -> S]
  BY <1>1 DEF Drop
<1>3. names \ {n} \in SUBSET N
  OBVIOUS
<1> QED
  BY <1>2, <1>3

\* Every statement of a migration and every merge leaves databases.
LEMMA TypeInvariant ==
    Spec => []TypeOK
<1> DEFINE pols == UNION {[names -> Policies] : names \in SUBSET PolicyNames}
           views == UNION {[names -> Views] : names \in SUBSET {"outer", "inner"}}
           fns == {{}} \cup {{f} : f \in Bodies}
           gucs == [Roles \cup {"ALL"} -> Gucs \cup {NotSet}]
<1>0. MaxEdits \in Nat /\ MaxMerges \in Nat
  BY VerifyAssumption
<1> HIDE DEF pols, views, fns, gucs
<1>1. Init => TypeOK
  BY <1>0, BasesAssumption DEF Init, TypeOK
<1>2. TypeOK /\ [Next]_vars => TypeOK'
  <2> SUFFICES ASSUME TypeOK, [Next]_vars PROVE TypeOK'
    OBVIOUS
  <2>t. base \in Databases /\ head \in Databases /\ edits \in 0..MaxEdits /\ merges \in 0..MaxMerges
    BY DEF TypeOK
  <2>1. Databases = [rls : BOOLEAN, force : BOOLEAN, graph : BOOLEAN, owner : Roles \ TenantRoles,
                     pol : pols, grants : SUBSET Grantees, edges : SUBSET Edges, guc : gucs,
                     views : views, fns : fns]
    BY DEF Databases, pols, views, fns, gucs
  <2>2. ASSUME NEW d, Edited(d), d \in Databases PROVE TypeOK'
    BY <1>0, <2>t, <2>2 DEF Edited, TypeOK
  <2>3. ASSUME NEW n \in PolicyNames, DropPolicy(n) PROVE TypeOK'
    <3>1. Drop(head.pol, n) \in pols
      <4>1. head.pol \in pols
        BY <2>t, <2>1
      <4> QED
        BY <4>1, DropFrom DEF pols
    <3>2. [head EXCEPT !.pol = Drop(@, n)] \in Databases
      BY <2>t, <2>1, <3>1
    <3> QED
      BY <2>2, <2>3, <3>2 DEF DropPolicy
  <2>4. ASSUME NEW n \in PolicyNames, NEW p \in Policies, CreatePolicy(n, p) PROVE TypeOK'
    <3>1. Put(head.pol, n, p) \in pols
      <4>1. head.pol \in pols
        BY <2>t, <2>1
      <4> QED
        BY <2>4, <4>1, PutInto DEF pols
    <3>2. [head EXCEPT !.pol = Put(@, n, p)] \in Databases
      BY <2>t, <2>1, <3>1
    <3> QED
      BY <2>2, <2>4, <3>2 DEF CreatePolicy
  <2>5. ASSUME NEW on \in BOOLEAN, SetRls(on) \/ SetForce(on) PROVE TypeOK'
    <3>1. [head EXCEPT !.rls = on] \in Databases /\ [head EXCEPT !.force = on] \in Databases
      BY <2>t, <2>1
    <3> QED
      BY <2>2, <2>5, <3>1 DEF SetRls, SetForce
  <2>6. ASSUME NEW e \in Edges, GrantMembership(e) PROVE TypeOK'
    <3>1. [head EXCEPT !.edges = @ \cup {e}] \in Databases
      BY <2>t, <2>1
    <3> QED
      BY <2>2, <2>6, <3>1 DEF GrantMembership
  <2>7. ASSUME NEW r \in {"anon", "authenticator", "ALL"}, NEW x \in Gucs, Configure(r, x) PROVE TypeOK'
    <3>1. [head.guc EXCEPT ![r] = x] \in gucs
      <4>1. head.guc \in gucs
        BY <2>t, <2>1
      <4> QED
        BY <4>1 DEF gucs
    <3>2. [head EXCEPT !.guc[r] = x] \in Databases
      BY <2>t, <2>1, <3>1
    <3> QED
      BY <2>2, <2>7, <3>2 DEF Configure
  <2>8. ASSUME NEW n \in {"outer", "inner"}, NEW v \in Views, CreateView(n, v) PROVE TypeOK'
    <3>1. Put(head.views, n, v) \in views
      <4> DEFINE all == {"outer", "inner"}
      <4>1. head.views \in views
        BY <2>t, <2>1
      <4>2. views = UNION {[names -> Views] : names \in SUBSET all}
        BY DEF views
      <4>3. n \in all
        OBVIOUS
      <4> HIDE DEF all
      <4> QED
        BY <4>1, <4>2, <4>3, PutInto
    <3>2. [head EXCEPT !.views = Put(@, n, v)] \in Databases
      BY <2>t, <2>1, <3>1
    <3> QED
      BY <2>2, <2>8, <3>2 DEF CreateView
  <2>9. ASSUME NEW f \in Bodies, CreateFunction(f) PROVE TypeOK'
    <3>1. {f} \in fns
      BY DEF fns
    <3>2. [head EXCEPT !.fns = {f}] \in Databases
      BY <2>t, <2>1, <3>1
    <3> QED
      BY <2>2, <2>9, <3>2 DEF CreateFunction
  <2>10. ASSUME NEW r \in {"anon", "reporter"}, GrantSelect(r) PROVE TypeOK'
    <3>1. r \in Grantees
      BY VerifyAssumption DEF Grantees
    <3>2. [head EXCEPT !.grants = @ \cup {r}] \in Databases
      BY <2>t, <2>1, <3>1
    <3> QED
      BY <2>2, <2>10, <3>2 DEF GrantSelect
  <2>11. CASE Merge
    BY <1>0, <2>t, <2>11 DEF Merge, TypeOK
  <2>12. CASE UNCHANGED vars
    BY <2>t, <2>12 DEF vars, TypeOK
  <2> QED
    BY <2>3, <2>4, <2>5, <2>6, <2>7, <2>8, <2>9, <2>10, <2>11, <2>12 DEF Next
<1> QED
  BY <1>1, <1>2, PTL DEF Spec

\* When the modes report and doubt nothing of a pull request's database, no
\* anonymous request reads a row of it, whatever it holds and however it was
\* built, if the memberships are known (verify_state, find_unlinted_rls_state).
THEOREM IsolatedIsUnread ==
    Spec => []IsolatedMeansUnread
<1>1. TypeOK => IsolatedMeansUnread
  BY IsolatedDatabase DEF TypeOK, IsolatedMeansUnread
<1> QED
  BY <1>1, TypeInvariant, PTL

\* The verdicts there are.
LEMMA VerdictType ==
    ASSUME NEW d \in Databases, NEW k \in Subjects
    PROVE  Verdict(d, k) \in {"isolated", "leak", "unverified", "absent"}
<1>1. \A mode : Verification(d, mode) \in {"isolated", "leak", "unverified", "absent"}
  BY DEF Verification, TableVerdict, Rollup
<1>2. OwnerEscalation(d) \in {"isolated", "leak", "unverified", "absent"}
  BY DEF OwnerEscalation, Escalates
<1>3. \A f : FunctionVerdict(d, f) \in {"isolated", "leak", "unverified", "absent"}
  BY <1>1 DEF FunctionVerdict, Judged, AnonRollup, Beside
<1>4. \A v : ReachVerdict(d, v) \in {"isolated", "leak", "unverified", "absent"}
  BY <1>1 DEF ReachVerdict, Widens
<1> QED
  BY <1>1, <1>2, <1>3, <1>4 DEF Verdict

\* A protected database whose verdicts are settled is isolated: a door beside a
\* table that anon cannot read is a leak or doubted, never harmless.
LEMMA SettledIsIsolated ==
    ASSUME NEW d \in Databases, d.rls, \A k \in Subjects : Verdict(d, k) \in Settled
    PROVE  SaysIsolated(d)
<1>1. Verification(d, "anon") = "isolated"
  <2>1. Verdict(d, "anon") = Verification(d, "anon") /\ "anon" \in Subjects
    BY DEF Verdict, Subjects
  <2>2. Verification(d, "anon") \in {"isolated", "leak", "unverified"}
    BY TableVerdictType DEF Verification
  <2> QED
    BY <2>1, <2>2 DEF Settled
<1>2. \A f : FunctionVerdict(d, f) # "isolated"
  BY <1>1 DEF FunctionVerdict, Judged, AnonRollup, Beside
<1>3. \A v : ReachVerdict(d, v) # "isolated"
  BY <1>1 DEF ReachVerdict, Widens
<1>4. \A k \in {"function", "outer", "inner"} : Verdict(d, k) # "isolated"
  BY <1>2, <1>3 DEF Verdict
<1> QED
  BY <1>1, <1>4 DEF SaysIsolated, Verdict, Subjects, Settled

\* The ratchet: pull requests that pass `verify --against --strict`, one after
\* the other, never show an anonymous request a row of a protected table. The
\* verdicts of the base stay settled, for a statement changes the head only and
\* the gate lets no settled verdict become a leak or a doubt.
THEOREM MergesHideRows ==
    Spec => []MergesKeepRowsHidden
<1> DEFINE Quiet == \A k \in Subjects : Verdict(base, k) \in Settled
<1>1. Init => Quiet
  BY CleanBases DEF Init
<1>2. TypeOK /\ Quiet /\ [Next]_vars => Quiet'
  <2> SUFFICES ASSUME TypeOK, Quiet, [Next]_vars PROVE Quiet'
    OBVIOUS
  <2>1. CASE Merge
    <3>1. base' = head /\ GatePasses(base, head) /\ head \in Databases
      BY <2>1 DEF Merge, TypeOK
    <3>2. \A k \in Subjects : Verdict(head, k) \notin {"leak", "unverified"}
      BY <3>1 DEF GatePasses, NoneWorse, Compared, Verdicts
    <3>3. \A k \in Subjects : Verdict(head, k) \in Settled
      BY <3>1, <3>2, VerdictType DEF Settled
    <3> QED
      BY <3>1, <3>3
  <2>2. CASE base' = base
    BY <2>2
  <2> QED
    BY <2>1, <2>2 DEF Next, vars, Edited, CreatePolicy, DropPolicy, SetRls, SetForce,
       GrantMembership, Configure, CreateView, CreateFunction, GrantSelect
<1>3. TypeOK /\ Quiet => MergesKeepRowsHidden
  BY SettledIsIsolated, IsolatedDatabase DEF TypeOK, MergesKeepRowsHidden
<1> HIDE DEF Quiet
<1> QED
  BY <1>1, <1>2, <1>3, TypeInvariant, PTL DEF Spec
-------------------------------------------------------------------------------
(* The prover across tenants.                                              *)

\* A tenant's requests hold strings or NULL.
LEMMA TenantRequestType ==
    ASSUME NEW s \in TenantRequests
    PROVE  IsRequest(s)
<1>1. PICK u \in Tenants \cup {Null}, t \in Tenants \cup {Null} :
         s = Request(u, "authenticated", "authenticated", t)
  BY DEF TenantRequests
<1>2. \A x \in Tenants \cup {Null} : x \in (Values \ {Null, Raises}) \cup {Null}
  BY ValuesAssumption DEF Tenants, Null, Raises
<1>3. "authenticated" \in Values \ {Null, Raises}
  BY ValuesAssumption DEF Null, Raises
<1>4. \A f \in Fns : s[f] \in {u, t, "authenticated"}
  BY <1>1 DEF Request, Fns
<1> QED
  BY <1>2, <1>3, <1>4 DEF IsRequest

\* The encoding of a call in a tenant's session: a session term is never NULL.
LEMMA TenantCall ==
    ASSUME NEW o, NEW v, o.is = "call"
    PROVE  EncodedCall(o, v, TenantSession) =
               IF IsSessionTerm(o) THEN Value(v[o].v, FALSE, FALSE)
               ELSE Value(v[o].v, v[o].n, FALSE)
<1>1. CASE IsSessionTerm(o)
  BY <1>1 DEF EncodedCall, TenantSession
<1>2. CASE ~IsSessionTerm(o)
  <2>1. ~IsAnonNullLeaf(o.of) /\ o.of # "setting_strict"
    BY <1>2 DEF IsSessionTerm
  <2>2. AnonVal(o, v, TenantSession) = Value(v[o].v, v[o].n, FALSE)
    BY <2>1 DEF AnonVal, TenantSession
  <2> QED
    BY <1>2, <2>2 DEF EncodedCall
<1> QED
  BY <1>1, <1>2

\* Every operand of a clause in a tenant's session; only a session term that is
\* NULL is taken for a value.
LEMMA TenantOperandAgrees ==
    ASSUME NEW c, NEW o \in OperandsOf(c), IsOperand(o), NEW w \in Rows, NEW s, IsRequest(s),
           NEW fill, o.is = "coalesce" /\ Read(o.of, s) = Null => fill[Call(o.of)] = Default,
           NEW v, v = WorldOf(c, s, w, fill)
    PROVE  /\ Agrees(Val(o, s, w), Encoded(o, v, TenantSession))
           /\ Val(o, s, w) = Null /\ ~IsSessionTerm(Unwrapped(o)) => Encoded(o, v, TenantSession).n
<1> DEFINE e == EncodedCall(Call(o.of), v, TenantSession)
<1>1. CASE o.is = "literal"
  <2>1. Val(o, s, w) = o.of /\ o.of \notin {Null, Raises}
    BY <1>1 DEF Val, IsOperand, Functions
  <2>2. Encoded(o, v, TenantSession) = Value(o.of, FALSE, FALSE)
    BY <1>1 DEF Encoded
  <2> QED
    BY <2>1, <2>2 DEF Agrees, Value
<1>2. CASE o.is \in {"column", "wrap", "wrapcall"}
  <2>1. Encoded(o, v, TenantSession) = Value(v[o].v, v[o].n, FALSE)
    BY <1>2 DEF Encoded
  <2>2. /\ Val(o, s, w) \notin {Null, Raises} => v[o].v = Val(o, s, w) /\ ~v[o].n
        /\ Val(o, s, w) = Null => v[o].n
    BY <1>2, WorldHasColumns
  <2> QED
    BY <2>1, <2>2 DEF Agrees, Value
<1>3. ASSUME o.is \in {"call", "select", "coalesce"}
      PROVE  /\ Agrees(Read(o.of, s), e)
             /\ Read(o.of, s) = Null => IF IsSessionTerm(Call(o.of))
                                        THEN e.v = fill[Call(o.of)] /\ ~e.n ELSE e.n
  <2>1. /\ Read(o.of, s) \notin {Null, Raises} =>
              v[Call(o.of)].v = Read(o.of, s) /\ ~v[Call(o.of)].n
        /\ Read(o.of, s) \in {Null, Raises} => v[Call(o.of)].v = fill[Call(o.of)]
        /\ Read(o.of, s) = Null => v[Call(o.of)].n
    BY <1>3, WorldHasCalls
  <2>2. e = IF IsSessionTerm(Call(o.of)) THEN Value(v[Call(o.of)].v, FALSE, FALSE)
            ELSE Value(v[Call(o.of)].v, v[Call(o.of)].n, FALSE)
    <3>1. Call(o.of).is = "call"
      BY DEF Call, Operand
    <3> QED
      BY <3>1, TenantCall
  <2> HIDE DEF e
  <2> QED
    BY <2>1, <2>2 DEF Agrees, Value
<1>4. CASE o.is \in {"call", "select"}
  <2>1. Val(o, s, w) = Read(o.of, s)
    BY <1>4 DEF Val
  <2>2. Unwrapped(o) = Call(o.of)
    BY <1>4 DEF Unwrapped, IsOperand, Call
  <2>3. Encoded(o, v, TenantSession) = e
    BY <1>4, <2>2 DEF Encoded
  <2> HIDE DEF e
  <2> QED
    BY <1>3, <1>4, <2>1, <2>2, <2>3
<1>5. CASE o.is = "coalesce"
  <2>1. Val(o, s, w) = IF Read(o.of, s) = Null THEN Default ELSE Read(o.of, s)
    BY <1>5 DEF Val
  <2>2. Encoded(o, v, TenantSession) = Value(IF e.n THEN Default ELSE e.v, FALSE, FALSE)
    BY <1>5 DEF Encoded
  <2> HIDE DEF e
  <2> QED
    BY <1>3, <1>5, <2>1, <2>2 DEF Agrees, Value, Default, Null
<1> QED
  BY <1>1, <1>2, <1>4, <1>5 DEF IsOperand, Functions

\* The axis of a clause: a column and a session term that the clause compares.
LEMMA AxisType ==
    ASSUME NEW c, IsClause(c), NEW axis \in TenantPairs(c)
    PROVE  /\ axis[1] \in Variables(c) /\ axis[1] \in OperandsOf(c)
           /\ axis[1].is = "column" /\ IsOperand(axis[1])
           /\ axis[2] \in Variables(c) /\ IsSessionTerm(axis[2])
           /\ axis[2] = Call(axis[2].of) /\ axis[2].of \in Fns \cup {"setting_strict"}
<1>1. PICK a \in AtomsOf(c) : axis \in PairsOf(a)
  BY DEF TenantPairs
<1>2. PICK l \in {a.l, a.r}, r \in {a.l, a.r} :
         /\ axis = <<Unwrapped(l), Unwrapped(r)>> /\ axis[1].is = "column"
         /\ IsSessionTerm(axis[2]) /\ a.op \in {"=", "in"}
  BY <1>1 DEF PairsOf
<1>3. IsOperand(l) /\ IsOperand(r) /\ l \in OperandsOf(c) /\ r \in OperandsOf(c)
  <2>1. IsAtom(a)
    BY <1>1 DEF IsClause
  <2> QED
    BY <1>1, <1>2, <2>1 DEF IsAtom, OperandsOf
<1>4. axis[1] = l /\ l.is = "column"
  BY <1>2 DEF Unwrapped, Call, Operand
<1>5. /\ axis[2] = Unwrapped(r) /\ axis[2].is = "call" /\ r.is \in {"call", "select"}
      /\ axis[2].of = r.of
  BY <1>2 DEF Unwrapped, Call, Operand, IsSessionTerm
<1>6. axis[2] = Call(axis[2].of) /\ axis[2].of \in Fns \cup {"setting_strict"}
  BY <1>3, <1>5 DEF IsOperand, Functions, Unwrapped, Call, Operand
<1>7. axis[1] \in Variables(c)
  <2>1. l \in {p \in OperandsOf(c) : p.is \notin {"literal", "none", "relation"}}
    BY <1>3, <1>4
  <2>2. l = IF l.is = "coalesce" THEN Call(l.of) ELSE Unwrapped(l)
    BY <1>4 DEF Unwrapped
  <2> QED
    BY <1>4, <2>1, <2>2 DEF Variables
<1>8. axis[2] \in Variables(c)
  <2>1. r \in {p \in OperandsOf(c) : p.is \notin {"literal", "none", "relation"}}
    BY <1>3, <1>5
  <2>2. Unwrapped(r) = IF r.is = "coalesce" THEN Call(r.of) ELSE Unwrapped(r)
    BY <1>5
  <2> QED
    BY <1>5, <2>1, <2>2 DEF Variables
<1> QED
  BY <1>2, <1>3, <1>4, <1>6, <1>7, <1>8

\* A clause proved isolated across tenants admits only rows on the requester's
\* side of its axis: a foreign row would make a world in which the clause
\* passes and the axis differs.
LEMMA TenantClauseSound ==
    ASSUME NEW c, IsClause(c), NEW s \in TenantRequests, NEW w \in Rows,
           ProveCrossTenant(c) = "isolated", Admits(c, s, w)
    PROVE  OwnSide(c, s, w)
<1> DEFINE axis == TenantAxis(c)
           identity == Read(axis[2].of, s)
<1>1. /\ Encodable(c) /\ Cardinality(TenantPairs(c)) = 1
      /\ NullTested(c) \subseteq {axis[2]}
      /\ \A v \in Worlds(c) : Passes(c, v, TenantSession) => v[axis[1]].v = v[axis[2]].v
  BY DEF ProveCrossTenant, TenantAxis
<1>2. axis \in TenantPairs(c)
  <2>1. TenantPairs(c) # {}
    BY <1>1, FS_EmptySet
  <2> QED
    BY <2>1 DEF TenantAxis
<1> HIDE DEF axis
<1>3. /\ axis[1] \in Variables(c) /\ axis[1] \in OperandsOf(c)
      /\ axis[1].is = "column" /\ IsOperand(axis[1])
      /\ axis[2] \in Variables(c) /\ IsSessionTerm(axis[2])
      /\ axis[2] = Call(axis[2].of) /\ axis[2].of \in Fns \cup {"setting_strict"}
  BY <1>2, AxisType
<1>4. axis[1] # axis[2]
  BY <1>3 DEF IsSessionTerm
<1>5. IsRequest(s)
  BY TenantRequestType
<1>6. identity \in (Values \ {Null, Raises}) \cup {Null, Raises}
  <2>1. "setting" \in Fns
    BY DEF Fns
  <2> QED
    BY <1>3, <1>5, <2>1 DEF IsRequest, Read
<1>7. Val(axis[1], s, w) = w[axis[1].of] /\ Val(axis[2], s, w) = identity
  BY <1>3 DEF Val, IsSessionTerm
<1> SUFFICES ASSUME w[axis[1].of] # identity,
                    identity \in {Null, Raises} => ~AsksForNull(c, axis[2])
             PROVE  FALSE
  BY <1>1 DEF OwnSide, axis
<1>8. ASSUME NEW fill \in [Variables(c) -> Values],
             \A o \in Variables(c) : o.is = "call" /\ o # axis[2] => fill[o] = Default
      PROVE  /\ WorldOf(c, s, w, fill) \in Worlds(c)
             /\ WorldOf(c, s, w, fill)[axis[1]].v = WorldOf(c, s, w, fill)[axis[2]].v
  <2> DEFINE v == WorldOf(c, s, w, fill)
  <2>1. v \in Worlds(c)
    BY WorldOfType
  <2> HIDE DEF v, identity
  <2>2. ASSUME NEW o \in OperandsOf(c), IsOperand(o)
        PROVE  /\ Agrees(Val(o, s, w), Encoded(o, v, TenantSession))
               /\ Val(o, s, w) = Null /\ ~IsSessionTerm(Unwrapped(o))
                  => Encoded(o, v, TenantSession).n
    <3>1. o.is = "coalesce" /\ Read(o.of, s) = Null => fill[Call(o.of)] = Default
      <4> SUFFICES ASSUME o.is = "coalesce", Read(o.of, s) = Null
                   PROVE  fill[Call(o.of)] = Default
        OBVIOUS
      <4>1. Call(o.of) \in Variables(c)
        BY <1>5, <2>2, WorldHasCalls
      <4>2. Call(o.of).is = "call" /\ Call(o.of).of = o.of
        BY DEF Call, Operand
      <4>3. Call(o.of) # axis[2]
        <5>1. ASSUME Call(o.of) = axis[2] PROVE FALSE
          <6>1. identity = Null
            BY <4>2, <5>1 DEF identity
          <6>2. Coalesce(axis[2].of) = o
            BY <2>2, <4>2, <5>1 DEF IsOperand, Coalesce
          <6> QED
            BY <6>1, <6>2 DEF AsksForNull
        <5> QED
          BY <5>1
      <4> QED
        BY <1>8, <4>1, <4>2, <4>3
    <3> QED
      BY <1>5, <2>2, <3>1, TenantOperandAgrees DEF v
  <2>3. ASSUME NEW a \in AtomsOf(c), Truth(a, s, w) = "T" PROVE IsTrue(a, v, TenantSession)
    <3>1. IsAtom(a) /\ a.op \notin {"exists", "~~"}
      BY <1>1 DEF IsClause, Encodable
    <3>2. a.l \in OperandsOf(c) /\ a.r \in OperandsOf(c)
      BY DEF OperandsOf
    <3>3. /\ a.op \notin {"true", "false"} => IsOperand(a.l)
          /\ a.op \in {"=", "in", "<>"} => IsOperand(a.r)
      BY <3>1 DEF IsAtom
    <3>4. ASSUME a.op = "isnull", Val(a.l, s, w) = Null PROVE ~IsSessionTerm(Unwrapped(a.l))
      <4> SUFFICES ASSUME IsSessionTerm(Unwrapped(a.l)) PROVE FALSE
        OBVIOUS
      <4>1. Unwrapped(a.l) \in NullTested(c)
        BY <3>4 DEF NullTested
      <4>2. Unwrapped(a.l) = axis[2]
        BY <1>1, <4>1
      <4>3. a.l.is \in {"call", "select"} /\ a.l.of = axis[2].of
        BY <4>2, <1>3 DEF Unwrapped, IsSessionTerm, Call, Operand
      <4>4. identity = Null
        BY <3>4, <4>3 DEF Val, identity
      <4> QED
        BY <4>1, <4>2, <4>4 DEF AsksForNull
    <3>5. /\ a.op \notin {"true", "false"}
             => Agrees(Val(a.l, s, w), Encoded(a.l, v, TenantSession))
          /\ a.op \in {"=", "in", "<>"}
             => Agrees(Val(a.r, s, w), Encoded(a.r, v, TenantSession))
          /\ a.op = "isnull" /\ Val(a.l, s, w) = Null => Encoded(a.l, v, TenantSession).n
      BY <2>2, <3>2, <3>3, <3>4
    <3> QED
      BY <2>3, <3>1, <3>5, TrueAtomsAgree
  <2>4. Passes(c, v, TenantSession)
    BY <2>3, PassesWhereAdmitted
  <2> QED
    BY <1>1, <2>1, <2>4 DEF v
<1>9. ASSUME NEW fill
      PROVE  /\ WorldOf(c, s, w, fill)[axis[1]].v =
                    IF w[axis[1].of] \in Values \ {Null, Raises} THEN w[axis[1].of] ELSE fill[axis[1]]
             /\ WorldOf(c, s, w, fill)[axis[2]].v =
                    IF identity \in Values \ {Null, Raises} THEN identity ELSE fill[axis[2]]
  BY <1>3, <1>7 DEF WorldOf
<1>10. Default \in Values /\ "B" \in Values /\ Default # "B"
  BY ValuesAssumption, ProofAssumption DEF Tenants, Default
<1> HIDE DEF identity
<1>11. CASE identity \notin {Null, Raises}
  <2>1. PICK x \in Values : x # identity
    BY <1>10
  <2> DEFINE fill == [o \in Variables(c) |-> IF o = axis[1] THEN x ELSE Default]
  <2>2. fill \in [Variables(c) -> Values] /\ fill[axis[1]] = x
    BY <1>3, <1>10
  <2>3. \A o \in Variables(c) : o.is = "call" /\ o # axis[2] => fill[o] = Default
    BY <1>3
  <2> HIDE DEF fill
  <2> QED
    BY <1>6, <1>8, <1>9, <1>11, <2>1, <2>2, <2>3
<1>12. CASE identity \in {Null, Raises}
  <2> DEFINE col == IF w[axis[1].of] \in Values \ {Null, Raises} THEN w[axis[1].of] ELSE Default
  <2>1. PICK x \in Values : x # col
    BY <1>10
  <2> DEFINE fill == [o \in Variables(c) |-> IF o = axis[2] THEN x ELSE Default]
  <2>2. /\ fill \in [Variables(c) -> Values] /\ fill[axis[2]] = x /\ fill[axis[1]] = Default
        /\ \A o \in Variables(c) : o.is = "call" /\ o # axis[2] => fill[o] = Default
    BY <1>3, <1>4, <1>10
  <2> HIDE DEF fill
  <2> QED
    BY <1>8, <1>9, <1>12, <2>1, <2>2
<1> QED
  BY <1>11, <1>12
-------------------------------------------------------------------------------
(* The verdicts across tenants, for reads and for writes.                  *)

\* What a tenant's requests are checked against, as the mode sees it.
Checks(mode) == IF mode = "cross-tenant" THEN {<<"SELECT", "old">>}
                ELSE {<<"INSERT", "new">>, <<"UPDATE", "old">>, <<"UPDATE", "new">>,
                      <<"DELETE", "old">>}
TenantModes == {"cross-tenant", "write"}

\* A wider clause admits what a narrower one does.
LEMMA AdmitsMore ==
    ASSUME NEW c, NEW wider, NEW s, NEW w, c \subseteq wider, Admits(c, s, w)
    PROVE  Admits(wider, s, w)
  BY DEF Admits

\* The clause that governs an operation is part of the one the mode checks. A
\* restrictive clause that the mode checks governs it, but for the floors with
\* a WITH CHECK only.
LEMMA GateIsChecked ==
    ASSUME NEW p \in Policies, NEW mode \in TenantModes, NEW check \in Checks(mode),
           p.cmd \in {"ALL", check[1]}
    PROVE  /\ Gate(p, check[2]) \subseteq CheckedAst(p, mode)
           /\ ~(mode = "write" /\ NewRowsOnly(p)) /\ CheckedAst(p, mode) # Absent
              => Gate(p, check[2]) # Absent
<1>1. IsPolicy(p)
  BY VerifyAssumption
<1>2. CASE mode = "cross-tenant"
  <2>1. check = <<"SELECT", "old">>
    BY <1>2 DEF Checks
  <2> QED
    BY <1>2, <2>1 DEF Gate, CheckedAst
<1>3. CASE mode = "write"
  <2>1. CheckedAst(p, mode) = EffectiveWriteCheck(p) \cup OldRowWriteGate(p)
    BY <1>3 DEF CheckedAst
  <2>2. CASE check = <<"INSERT", "new">>
    BY <1>1, <1>3, <2>1, <2>2 DEF Gate, EffectiveWriteCheck, OldRowWriteGate, IsPolicy, Absent
  <2>3. CASE check = <<"UPDATE", "old">>
    BY <1>1, <1>3, <2>1, <2>3 DEF Gate, EffectiveWriteCheck, OldRowWriteGate, IsPolicy, Absent,
       NewRowsOnly
  <2>4. CASE check = <<"UPDATE", "new">>
    BY <1>1, <1>3, <2>1, <2>4 DEF Gate, EffectiveWriteCheck, OldRowWriteGate, IsPolicy, Absent
  <2>5. CASE check = <<"DELETE", "old">>
    BY <1>1, <1>3, <2>1, <2>5 DEF Gate, EffectiveWriteCheck, OldRowWriteGate, IsPolicy, Absent,
       NewRowsOnly
  <2> QED
    BY <1>3, <2>2, <2>3, <2>4, <2>5 DEF Checks
<1> QED
  BY <1>2, <1>3 DEF TenantModes

\* A floor covers every operation that the policy governs.
LEMMA FloorCovers ==
    ASSUME NEW mode \in TenantModes, NEW check \in Checks(mode), NEW p, NEW q,
           p.cmd \in {"ALL", check[1]}, q.cmd \in ModeCommands(mode), FloorApplies(p, q, mode)
    PROVE  q.cmd \in {"ALL", check[1]}
<1>1. CASE mode = "cross-tenant"
  BY <1>1 DEF Checks, ModeCommands
<1>2. CASE mode = "write"
  <2>1. check[1] \in WriteOps(p.cmd)
    BY <1>2 DEF Checks, WriteOps
  <2>2. WriteOps(p.cmd) \subseteq WriteOps(q.cmd)
    BY <1>2 DEF FloorApplies
  <2> QED
    BY <2>1, <2>2 DEF WriteOps
<1> QED
  BY <1>1, <1>2 DEF TenantModes

\* The proof that a policy is isolated, and the clause it was made of.
LEMMA TenantPolicySound ==
    ASSUME NEW d \in Databases, NEW mode \in TenantModes, NEW n \in DOMAIN d.pol, NEW R, NEW gucs,
           PolicyProof(d, d.pol[n], mode, R, gucs) = "isolated",
           NEW s \in TenantRequests, NEW w \in Rows, Admits(CheckedAst(d.pol[n], mode), s, w),
           \A q \in Floors(d, d.pol[n], mode) :
               CheckedAst(q, mode) # Absent => Admits(CheckedAst(q, mode), s, w)
    PROVE  OwnSide(ProofClause(d, d.pol[n], mode), s, w)
<1> DEFINE p == d.pol[n]
           ast == CheckedAst(p, mode)
           floors == Floors(d, p, mode)
           parts == {CheckedAst(q, mode) : q \in floors}
           alone == Prove(ast, mode, gucs)
<1>1. p \in Policies /\ mode # "anon" /\ ast # Absent
  BY DatabaseHas DEF TenantModes, Admits, Absent
<1>2. \A c : Prove(c, mode, gucs) = Prove(c, mode, {})
  BY <1>1 DEF Prove
<1>3. ast \in ProofClauses(mode) /\ IsClause(ast)
  BY <1>1, AloneInProofClauses, CheckedIsClause
<1>4. alone = ProveCrossTenant(ast) /\ Prove(ast, mode, {}) = alone
  BY <1>2, <1>3, TenantProofOf DEF TenantModes
<1> HIDE DEF alone, ast, floors, p
<1>5. \/ alone = "isolated"
      \/ /\ alone = "leak" /\ \A q \in floors : CheckedAst(q, mode) # Absent
         /\ Prove(Composed(d, p, mode), mode, gucs) = "isolated"
  BY <1>1 DEF PolicyProof, p, ast, alone, floors
<1>6. CASE alone = "isolated"
  <2>1. ProofClause(d, p, mode) = ast
    BY <1>4, <1>6 DEF ProofClause, ast
  <2>2. Admits(ast, s, w)
    BY DEF ast, p
  <2>3. OwnSide(ast, s, w)
    BY <1>3, <1>4, <1>6, <2>2, TenantClauseSound
  <2> QED
    BY <2>1, <2>3 DEF p
<1>7. CASE /\ alone = "leak" /\ \A q \in floors : CheckedAst(q, mode) # Absent
           /\ Prove(Composed(d, p, mode), mode, gucs) = "isolated"
  <2>1. floors \subseteq {q \in Policies : ~q.permissive}
    <3>1. Relevant(d, mode, FALSE) \subseteq {q \in Policies : ~q.permissive}
      BY DatabaseHas DEF Relevant
    <3> QED
      BY <3>1 DEF Floors, floors
  <2>2. Composed(d, p, mode) = AllOf(ast, parts)
    BY DEF Composed, ast, floors
  <2>3. \A f \in parts \cup {ast} : Admits(f, s, w) /\ IsClause(f)
    <3>1. ASSUME NEW q \in floors
          PROVE  Admits(CheckedAst(q, mode), s, w) /\ IsClause(CheckedAst(q, mode))
      BY <1>7, <2>1, CheckedIsClause DEF floors, p
    <3>2. Admits(ast, s, w)
      BY DEF ast, p
    <3> QED
      BY <1>3, <3>1, <3>2
  <2>4. AllOf(ast, parts) \in ProofClauses(mode)
    BY <1>1, <1>7, <2>1, InProofClauses DEF ast
  <2> HIDE DEF parts
  <2> DEFINE c == AllOf(ast, parts)
  <2>5. IsClause(c) /\ Admits(c, s, w)
    BY <2>3, AllOfIsClause, AllOfAdmits
  <2>6. ProveCrossTenant(c) = "isolated"
    BY <1>7, <2>2, <2>4, TenantProofOf DEF TenantModes
  <2>7. ProofClause(d, p, mode) = c
    BY <1>4, <1>7, <2>2 DEF ProofClause, ast
  <2> HIDE DEF c
  <2>8. OwnSide(c, s, w)
    BY <2>5, <2>6, TenantClauseSound
  <2> QED
    BY <2>7, <2>8 DEF p
<1> QED
  BY <1>5, <1>6, <1>7

\* The verdicts on a policy that checks something.
LEMMA TenantProofType ==
    ASSUME NEW d \in Databases, NEW mode \in TenantModes, NEW n \in DOMAIN d.pol, NEW R, NEW gucs
    PROVE  PolicyProof(d, d.pol[n], mode, R, gucs) \in {"isolated", "leak", "unverified"}
<1> DEFINE p == d.pol[n]
           floors == Floors(d, p, mode)
<1>1. p \in Policies
  BY DatabaseHas
<1>2. \A c \in ProofClauses(mode) : Prove(c, mode, gucs) \in {"isolated", "leak", "unverified"}
  <2>1. \A c : ProveCrossTenant(c) \in {"isolated", "leak", "unverified"}
    BY DEF ProveCrossTenant
  <2> QED
    BY <2>1, TenantProofOf DEF TenantModes
<1>3. CheckedAst(p, mode) # Absent
      => Prove(CheckedAst(p, mode), mode, gucs) \in {"isolated", "leak", "unverified"}
  BY <1>1, <1>2, AloneInProofClauses
<1>4. CheckedAst(p, mode) # Absent /\ (\A q \in floors : CheckedAst(q, mode) # Absent)
      => Prove(Composed(d, p, mode), mode, gucs) \in {"isolated", "leak", "unverified"}
  <2>1. floors \subseteq {q \in Policies : ~q.permissive}
    <3>1. Relevant(d, mode, FALSE) \subseteq {q \in Policies : ~q.permissive}
      BY DatabaseHas DEF Relevant
    <3> QED
      BY <3>1 DEF Floors
  <2> HIDE DEF p
  <2> QED
    BY <1>1, <1>2, <2>1, InProofClauses DEF Composed
<1> HIDE DEF p
<1> QED
  BY <1>3, <1>4 DEF PolicyProof, p

\* A role of a tenant is bound by the policies of an isolated table.
LEMMA TenantsAreBound ==
    ASSUME NEW d \in Databases, NEW mode \in TenantModes, Verification(d, mode) = "isolated",
           NEW r \in TenantRoles
    PROVE  d.rls /\ ~Exempt(d, r)
<1>1. d.rls /\ (d.force \/ OwnerReachers(d) = {})
  BY DEF Verification, TableVerdict, TenantModes
<1>2. r \in Roles \ (Bypass \cup {d.owner})
  <2>1. r \in Roles \ Bypass
    BY VerifyAssumption
  <2>2. d.owner \notin TenantRoles
    BY DatabaseHas
  <2> QED
    BY <2>1, <2>2
<1>3. Privileges(d, r) \subseteq Reach(d.edges, {r})
  <2> DEFINE inh == {e \in d.edges : e.inherit}
  <2>1. inh \subseteq d.edges /\ {r} \subseteq {r}
    OBVIOUS
  <2>2. Privileges(d, r) = Reach(inh, {r})
    BY DEF Privileges
  <2> HIDE DEF inh
  <2> QED
    BY <2>1, <2>2, ReachMonotone
<1>4. d.owner \in Privileges(d, r) => r \in OwnerReachers(d)
  BY <1>2, <1>3 DEF OwnerReachers
<1> QED
  BY <1>1, <1>2, <1>4 DEF Exempt

\* A row that an operation may touch is on the requester's side of the axis of
\* some proof.
LEMMA IsolatedTableKeepsSides ==
    ASSUME NEW d \in Databases, NEW mode \in TenantModes, Verification(d, mode) = "isolated",
           mode = "write" => \A p \in Relevant(d, mode, FALSE) : ~NewRowsOnly(p),
           NEW r \in TenantRoles, NEW s \in TenantRequests, NEW check \in Checks(mode),
           NEW w \in Visible(d, r, s, check[1], check[2])
    PROVE  \E c \in ProvedClauses(d, mode) : OwnSide(c, s, w)
<1> DEFINE op == check[1]
           side == check[2]
<1>1. d.rls /\ ~Exempt(d, r) /\ s \in Requests
  BY TenantsAreBound, InTables
<1>2. \A m \in DOMAIN d.pol : d.pol[m] \in Policies /\ Gate(d.pol[m], side) \in Clauses0
  BY DatabaseHas, InTables DEF Gate
<1>3. \A m \in DOMAIN d.pol : w \in Admitted(Gate(d.pol[m], side), s)
                             => w \in Rows /\ Admits(Gate(d.pol[m], side), s, w)
  BY <1>1, <1>2, AdmittedIs
<1> HIDE DEF op, side
<1>4. /\ \E n \in DOMAIN d.pol : Governs(d, n, r, op, TRUE) /\ w \in Admitted(Gate(d.pol[n], side), s)
      /\ \A n \in DOMAIN d.pol : Governs(d, n, r, op, FALSE) /\ Gate(d.pol[n], side) # Absent
                                => w \in Admitted(Gate(d.pol[n], side), s)
  BY <1>1 DEF Visible, op, side
<1>5. PICK n \in DOMAIN d.pol : Governs(d, n, r, op, TRUE) /\ w \in Admitted(Gate(d.pol[n], side), s)
  BY <1>4
<1>6. d.pol[n].cmd \in {"ALL", op} /\ d.pol[n].permissive
  BY <1>5 DEF Governs
<1>7. w \in Rows /\ Admits(CheckedAst(d.pol[n], mode), s, w)
  <2>1. w \in Rows /\ Admits(Gate(d.pol[n], side), s, w)
    BY <1>3, <1>5
  <2>2. Gate(d.pol[n], side) \subseteq CheckedAst(d.pol[n], mode)
    BY <1>2, <1>6, GateIsChecked DEF op, side
  <2> QED
    BY <2>1, <2>2, AdmitsMore
<1>8. d.pol[n] \in Relevant(d, mode, TRUE)
  <2>1. d.pol[n].cmd \in ModeCommands(mode)
    BY <1>6 DEF ModeCommands, TenantModes, Checks, op
  <2> QED
    BY <1>6, <2>1 DEF Relevant
<1>9. PolicyProof(d, d.pol[n], mode, AnonRoles, LoginGucs(d)) = "isolated"
  <2>1. Rollup({PolicyProof(d, p, mode, AnonRoles, LoginGucs(d)) : p \in Relevant(d, mode, TRUE)})
        = "isolated"
    BY DEF Verification, TableVerdict, TenantModes
  <2>2. PolicyProof(d, d.pol[n], mode, AnonRoles, LoginGucs(d)) \notin {"leak", "unverified"}
    BY <1>8, <2>1, RollupIsolated
  <2> QED
    BY <2>2, TenantProofType, <1>7
<1>10. ASSUME NEW q \in Floors(d, d.pol[n], mode), CheckedAst(q, mode) # Absent
       PROVE  Admits(CheckedAst(q, mode), s, w)
  <2>1. PICK m \in DOMAIN d.pol : /\ q = d.pol[m] /\ d.pol[m].cmd \in ModeCommands(mode)
                                 /\ ~d.pol[m].permissive /\ d.pol[m] \in Relevant(d, mode, FALSE)
                                 /\ FloorApplies(d.pol[n], d.pol[m], mode)
    BY DEF Floors, Relevant
  <2>2. d.pol[m].cmd \in {"ALL", op}
    BY <1>6, <2>1, FloorCovers DEF op
  <2>3. d.pol[m].permissive \in BOOLEAN
    BY DatabaseHas DEF IsPolicy
  <2>4. Governs(d, m, r, op, FALSE)
    BY <1>5, <2>1, <2>2, <2>3, FloorGoverns
  <2>5. /\ Gate(d.pol[m], side) \subseteq CheckedAst(d.pol[m], mode)
        /\ Gate(d.pol[m], side) # Absent
    BY <1>2, <1>10, <2>1, <2>2, GateIsChecked DEF op, side
  <2>6. Admits(Gate(d.pol[m], side), s, w)
    BY <1>3, <1>4, <2>4, <2>5
  <2> QED
    BY <2>1, <2>5, <2>6, AdmitsMore
<1>11. OwnSide(ProofClause(d, d.pol[n], mode), s, w)
  BY <1>7, <1>9, <1>10, TenantPolicySound
<1> QED
  BY <1>8, <1>11 DEF ProvedClauses

\* Across every migration, the rows that a tenant's requests read or write under
\* a proof of isolation are on their side of an axis (prove_cross_tenant and
\* prove_write_isolation, composed with the floors by _prove_policies).
THEOREM ProofsKeepTenantsApart ==
    Spec => []NoForeignRowTouched
<1>1. TypeOK => NoForeignRowTouched
  <2> SUFFICES ASSUME TypeOK, NEW mode \in TenantModes, Verification(head, mode) = "isolated",
                      mode = "write" => \A p \in Relevant(head, mode, FALSE) : ~NewRowsOnly(p),
                      NEW r \in TenantRoles, NEW s \in TenantRequests,
                      NEW w \in Touched(head, mode, r, s)
               PROVE  \E c \in ProvedClauses(head, mode) : OwnSide(c, s, w)
    BY DEF NoForeignRowTouched, TenantModes
  <2>1. PICK check \in Checks(mode) : w \in Visible(head, r, s, check[1], check[2])
    BY DEF Touched, Checks
  <2>2. head \in Databases
    BY DEF TypeOK
  <2> QED
    BY <2>1, <2>2, IsolatedTableKeepsSides
<1> QED
  BY <1>1, TypeInvariant, PTL

-------------------------------------------------------------------------------
(* Reported leaks.  The converse of the first part: a world that passes is a  *)
(* row that the server admits, where no atom's encoding is wider.             *)

\* Who is reached from several roles is reached from one of them.
LEMMA ReachFromOne ==
    ASSUME NEW edges, \A e \in edges : e.member # Public, NEW R, NEW x \in Reach(edges, R \cup {Public})
    PROVE  x = Public \/ \E r \in R \ {Public} : x \in Reach(edges, {r})
<1> DEFINE n == Cardinality(Roles)
           g(r) == CHOOSE h : IsChain(h, edges, {r}, n)
<1>1. n \in Nat
  BY VerifyAssumption, FS_CardinalityType
<1>2. PICK f : IsChain(f, edges, R \cup {Public}, n) /\ Reach(edges, R \cup {Public}) = f[n]
  BY ReachIsChain
<1>3. \A r : IsChain(g(r), edges, {r}, n)
  BY <1>1, ChainExists
<1>4. \A r : Reach(edges, {r}) = g(r)[n]
  BY DEF Reach, IsChain, Above
<1> HIDE DEF n, g
<1> DEFINE Reached(k) == \A y \in f[k] : y = Public \/ \E r \in R \ {Public} : y \in g(r)[k]
           Wrong == {k \in 0..n : ~Reached(k)}
<1>5. Wrong = {}
  <2> SUFFICES ASSUME Wrong # {} PROVE FALSE
    OBVIOUS
  <2>1. PICK k \in Wrong : \A j \in Wrong : k <= j
    <3>1. Wrong \subseteq Nat
      BY <1>1
    <3> HIDE DEF Wrong
    <3> QED
      BY <3>1, LeastNumber
  <2>2. k \in 0..n /\ ~Reached(k)
    OBVIOUS
  <2>3. CASE k = 0
    <3>1. f[0] = R \cup {Public} /\ \A r : g(r)[0] = {r}
      BY <1>1, <1>2, <1>3 DEF IsChain
    <3> QED
      BY <2>2, <2>3, <3>1
  <2>4. CASE k # 0
    <3>1. k - 1 \in 0..n /\ ~(k <= k - 1)
      BY <1>1, <2>2, <2>4
    <3>2. Reached(k - 1)
      BY <2>1, <3>1
    <3>3. f[k] = Above(edges, f[k - 1])
      BY <1>2, <2>2, <2>4 DEF IsChain
    <3>4. ASSUME NEW r PROVE g(r)[k] = Above(edges, g(r)[k - 1])
      <4>1. IsChain(g(r), edges, {r}, n)
        BY <1>3
      <4> QED
        BY <4>1, <2>2, <2>4 DEF IsChain
    <3>5. Reached(k)
      <4> SUFFICES ASSUME NEW y \in f[k], y # Public
                   PROVE  \E r \in R \ {Public} : y \in g(r)[k]
        OBVIOUS
      <4>1. CASE y \in f[k - 1]
        BY <3>2, <3>4, <4>1 DEF Above
      <4>2. CASE y \notin f[k - 1]
        <5>1. PICK e \in edges : e.member \in f[k - 1] /\ y = e.role
          BY <3>3, <4>2 DEF Above
        <5>2. PICK r \in R \ {Public} : e.member \in g(r)[k - 1]
          BY <3>2, <5>1
        <5>3. y \in g(r)[k]
          BY <3>4, <5>1, <5>2 DEF Above
        <5> QED
          BY <5>3
      <4> QED
        BY <4>1, <4>2
    <3> QED
      BY <2>2, <3>5
  <2> QED
    BY <2>3, <2>4
<1>6. Reached(n)
  BY <1>1, <1>5
<1> QED
  BY <1>2, <1>4, <1>6

\* A row that passes a composition passes its parts.
LEMMA AllOfAdmitsEach ==
    ASSUME NEW c, NEW floors, NEW s, NEW w, Admits(AllOf(c, floors), s, w), NEW f \in floors \cup {c}
    PROVE  Admits(f, s, w)
<1>1. PICK d \in AllOf(c, floors) : \A a \in d : Truth(a, s, w) = "T"
  BY DEF Admits
<1>2. PICK p \in [floors \cup {c} -> UNION (floors \cup {c})] :
         (\A x \in DOMAIN p : p[x] \in x) /\ d = UNION {p[x] : x \in DOMAIN p}
  BY DEF AllOf
<1>3. f \in DOMAIN p
  BY <1>2
<1>4. p[f] \in f /\ p[f] \subseteq d
  BY <1>2, <1>3
<1> QED
  BY <1>1, <1>4 DEF Admits

\* A composition has the atoms of its parts.
LEMMA AllOfAtoms ==
    ASSUME NEW c, NEW floors, NEW a \in AtomsOf(AllOf(c, floors))
    PROVE  \E f \in floors \cup {c} : a \in AtomsOf(f)
<1>1. PICK d \in AllOf(c, floors) : a \in d
  BY DEF AtomsOf
<1>2. PICK p \in [floors \cup {c} -> UNION (floors \cup {c})] :
         (\A f \in DOMAIN p : p[f] \in f) /\ d = UNION {p[f] : f \in DOMAIN p}
  BY DEF AllOf
<1>3. PICK f \in floors \cup {c} : a \in p[f]
  BY <1>1, <1>2
<1>4. p[f] \in f
  BY <1>2
<1> QED
  BY <1>3, <1>4 DEF AtomsOf

\* What the encoding e of an operand tells of the server's value x where it is
\* not wider: whether there is a value, and which.
ToldValue(x, e) == /\ ~e.n /\ ~e.unset => x \notin {Null, Raises}
                   /\ e.n => x = Null
SameValue(x, e) == ~e.n /\ ~e.unset => x = e.v

\* The two together, for what the function f gives: of the anon key's JWT it is
\* told only that there is one.
Told(f, x, e) == /\ ToldValue(x, e) /\ (f # "auth.jwt" => SameValue(x, e))
                 /\ f # "setting_strict" => ~e.unset /\ x # Raises

\* A call of an anonymous request.
LEMMA AnonCallTold ==
    ASSUME NEW key \in BOOLEAN, NEW t \in Tenants \cup {Null}, NEW o, NEW v,
           o.of \in Fns \cup {"setting_strict"}, o.of \in AuthFunctions \cup {"setting_strict"}
    PROVE  Told(o.of, Read(o.of, AnonRequest(key, t)),
                EncodedCall(o, v, AnonSession(key, GucOf(t))))
<1> DEFINE s == AnonRequest(key, t)
           session == AnonSession(key, GucOf(t))
           x == Read(o.of, s)
           e == EncodedCall(o, v, session)
<1>1. e = AnonVal(o, v, session)
  BY DEF EncodedCall, AnonSession
<1>2. /\ session.kind = IF key THEN "anonkey" ELSE "anon"
      /\ session.guc = GucOf(t)
  BY DEF AnonSession
<1>3. t # NotSet /\ t # Raises
  BY DEF Tenants, Null, Raises, NotSet
<1>4. \A f \in AuthFunctions \ {"setting_strict"} : IsAnonNullLeaf(f)
  BY DEF IsAnonNullLeaf, IsNeverNull
<1>5. ASSUME o.of \in {"auth.uid", "auth.role", "auth.jwt"} PROVE Told(o.of, x, e)
  <2>1. x = IF o.of = "auth.uid" THEN Null ELSE AnonRole(key)
    BY <1>5, AnonRequestHolds DEF Read, Fns
  <2>2. AnonVal(o, v, session) = IF key /\ o.of = "auth.role" THEN Value("anon", FALSE, FALSE)
                                 ELSE IF key /\ o.of = "auth.jwt" THEN Value(v[o].v, FALSE, FALSE)
                                 ELSE Value(v[o].v, TRUE, FALSE)
    BY <1>2, <1>4, <1>5 DEF AnonVal, Settings
  <2> HIDE DEF x, e, s, session
  <2> QED
    BY <1>1, <1>5, <2>1, <2>2 DEF Told, ToldValue, SameValue, Value, AnonRole, Null, Raises
<1>6. ASSUME o.of = "setting" PROVE Told(o.of, x, e)
  <2>1. x = t
    BY <1>6, AnonRequestHolds DEF Read, Fns
  <2>2. AnonVal(o, v, session) = IF t # Null THEN Value(t, FALSE, FALSE) ELSE Value(v[o].v, TRUE, FALSE)
    BY <1>2, <1>3, <1>4, <1>6 DEF AnonVal, Settings, GucOf
  <2> HIDE DEF x, e, s, session
  <2> QED
    BY <1>1, <1>3, <1>6, <2>1, <2>2 DEF Told, ToldValue, SameValue, Value, Null, Raises
<1>7. ASSUME o.of = "setting_strict" PROVE Told(o.of, x, e)
  <2>1. x = IF t = Null THEN Raises ELSE t
    BY <1>7, AnonRequestHolds DEF Read, Fns
  <2>2. AnonVal(o, v, session) = IF t # Null THEN Value(t, FALSE, FALSE) ELSE Value(v[o].v, FALSE, TRUE)
    BY <1>2, <1>3, <1>7 DEF AnonVal, Settings, GucOf, IsAnonNullLeaf, IsNeverNull
  <2> HIDE DEF x, e, s, session
  <2> QED
    BY <1>1, <1>3, <1>7, <2>1, <2>2 DEF Told, ToldValue, SameValue, Value, Null, Raises
<1> HIDE DEF x, e
<1>8. Told(o.of, x, e)
  BY <1>5, <1>6, <1>7 DEF Fns
<1> QED
  BY <1>8 DEF x, e, s, session

\* The row of a world: a column that the clause does not name is NULL.
RowOf(c, v) == [x \in Columns |-> IF Col(x) \in Variables(c) /\ ~v[Col(x)].n THEN v[Col(x)].v ELSE Null]

\* It is a row.
LEMMA RowOfType ==
    ASSUME NEW c, NEW v \in Worlds(c)
    PROVE  RowOf(c, v) \in Rows
<1>1. ASSUME NEW x \in Columns, Col(x) \in Variables(c) PROVE v[Col(x)].v \in Values
  BY <1>1 DEF Worlds
<1> QED
  BY <1>1 DEF RowOf, Rows

\* An operand that the encoding is not wider for.
Exact(o) == /\ o.is \notin {"wrap", "wrapcall"} /\ o # Coalesce("setting_strict")
            /\ o.is \in Functions => o.of \in AuthFunctions \cup {"setting_strict"}

\* Every operand of a clause in an anonymous session.
LEMMA AnonOperandTold ==
    ASSUME NEW c, NEW o \in OperandsOf(c), IsOperand(o), Exact(o), NEW key \in BOOLEAN,
           NEW t \in Tenants \cup {Null}, NEW v \in Worlds(c)
    PROVE  Told(IF o.is \in Functions THEN o.of ELSE "", Val(o, AnonRequest(key, t), RowOf(c, v)),
                Encoded(o, v, AnonSession(key, GucOf(t))))
<1> DEFINE s == AnonRequest(key, t)
           session == AnonSession(key, GucOf(t))
           w == RowOf(c, v)
           f == IF o.is \in Functions THEN o.of ELSE ""
<1>1. CASE o.is = "literal"
  <2>1. Val(o, s, w) = o.of /\ o.of \notin {Null, Raises}
    BY <1>1 DEF Val, IsOperand, Functions
  <2>2. Encoded(o, v, session) = Value(o.of, FALSE, FALSE)
    BY <1>1 DEF Encoded
  <2> HIDE DEF s, session, w, f
  <2>3. Told(f, Val(o, s, w), Encoded(o, v, session))
    BY <2>1, <2>2 DEF Told, ToldValue, SameValue, Value
  <2> QED
    BY <2>3 DEF s, session, w, f
<1>2. CASE o.is = "column"
  <2>1. o.of \in Columns /\ o = Col(o.of)
    BY <1>2 DEF IsOperand, Functions, Col
  <2>2. o \in Variables(c)
    <3>1. o \in {p \in OperandsOf(c) : p.is \notin {"literal", "none", "relation"}}
      BY <1>2
    <3>2. o = IF o.is = "coalesce" THEN Call(o.of) ELSE Unwrapped(o)
      BY <1>2 DEF Unwrapped
    <3> QED
      BY <3>1, <3>2 DEF Variables
  <2>3. v[o].v \in Values /\ v[o].n \in BOOLEAN
    BY <2>2 DEF Worlds
  <2>4. Val(o, s, w) = IF ~v[o].n THEN v[o].v ELSE Null
    <3>1. Val(o, s, w) = w[o.of]
      BY <1>2 DEF Val
    <3>2. w[o.of] = IF Col(o.of) \in Variables(c) /\ ~v[Col(o.of)].n THEN v[Col(o.of)].v ELSE Null
      BY <2>1 DEF RowOf
    <3> QED
      BY <2>1, <2>2, <3>1, <3>2
  <2>5. Encoded(o, v, session) = Value(v[o].v, v[o].n, FALSE)
    BY <1>2 DEF Encoded
  <2>6. v[o].v \notin {Null, Raises}
    BY <2>3, ValuesAssumption
  <2> HIDE DEF s, session, w, f
  <2>7. Told(f, Val(o, s, w), Encoded(o, v, session))
    BY <2>3, <2>4, <2>5, <2>6 DEF Told, ToldValue, SameValue, Value, Null, Raises
  <2> QED
    BY <2>7 DEF s, session, w, f
<1> DEFINE k == EncodedCall(Call(o.of), v, session)
           x == Read(o.of, s)
<1>3. ASSUME o.is \in {"call", "select", "coalesce"} PROVE Told(o.of, x, k)
  <2>1. o.of \in Fns \cup {"setting_strict"} /\ o.of \in AuthFunctions \cup {"setting_strict"}
    BY <1>3 DEF IsOperand, Exact, Functions
  <2>2. Call(o.of).of = o.of
    BY DEF Call, Operand
  <2>3. Told(Call(o.of).of, Read(Call(o.of).of, s), k)
    <3>1. Call(o.of).of \in Fns \cup {"setting_strict"} /\ Call(o.of).of \in AuthFunctions \cup {"setting_strict"}
      BY <2>1, <2>2
    <3> QED
      BY <3>1, AnonCallTold
  <2> HIDE DEF k, x
  <2> QED
    BY <2>2, <2>3 DEF x
<1>4. CASE o.is \in {"call", "select"}
  <2>1. Val(o, s, w) = x
    BY <1>4 DEF Val
  <2>2. Unwrapped(o) = Call(o.of)
    BY <1>4 DEF Unwrapped, IsOperand, Call
  <2>3. Encoded(o, v, session) = k
    BY <1>4, <2>2 DEF Encoded
  <2>4. f = o.of
    BY <1>4 DEF Functions
  <2> HIDE DEF s, session, w, f, x, k
  <2>5. Told(f, Val(o, s, w), Encoded(o, v, session))
    BY <1>3, <1>4, <2>1, <2>3, <2>4
  <2> QED
    BY <2>5 DEF s, session, w, f
<1>5. CASE o.is = "coalesce"
  <2>1. Val(o, s, w) = IF x = Null THEN Default ELSE x
    BY <1>5 DEF Val
  <2>2. Encoded(o, v, session) = Value(IF k.n THEN Default ELSE k.v, FALSE, FALSE)
    BY <1>5 DEF Encoded
  <2>3. o.of # "setting_strict"
    BY <1>5 DEF Exact, IsOperand, Coalesce
  <2>4. f = o.of
    BY <1>5 DEF Functions
  <2> HIDE DEF s, session, w, f, x, k
  <2>5. Told(f, Val(o, s, w), Encoded(o, v, session))
    BY <1>3, <1>5, <2>1, <2>2, <2>3, <2>4
       DEF Told, ToldValue, SameValue, Value, Default, Null, Raises
  <2> QED
    BY <2>5 DEF s, session, w, f
<1>6. o.is \in {"column", "literal", "call", "select", "coalesce"}
  BY DEF IsOperand, Exact, Functions
<1> QED
  BY <1>1, <1>2, <1>4, <1>5, <1>6

\* An encoded atom that is TRUE is TRUE on the server, where it is not wider.
LEMMA TrueAtomsAreReal ==
    ASSUME NEW a, NEW s, NEW w, NEW v, NEW session, NEW fl, NEW fr, IsAtom(a), a.op \notin {"exists", "~~"},
           a.op \notin {"true", "false"} => Told(fl, Val(a.l, s, w), Encoded(a.l, v, session)),
           a.op \in {"=", "in", "<>"} => Told(fr, Val(a.r, s, w), Encoded(a.r, v, session)),
           a.op \notin {"isnull", "notnull"} => "auth.jwt" \notin {fl, fr},
           a.op = "notnull" => fl # "setting_strict",
           IsTrue(a, v, session)
    PROVE  Truth(a, s, w) = "T"
<1> DEFINE l == Encoded(a.l, v, session)
           r == Encoded(a.r, v, session)
           x == Val(a.l, s, w)
           y == Val(a.r, s, w)
<1>1. a.op \in {"true", "false", "holds", "isnull", "notnull", "=", "in", "<>"}
  BY DEF IsAtom
<1>2. CASE a.op = "true"
  BY <1>2 DEF Truth
<1>3. CASE a.op = "false"
  BY <1>3 DEF IsTrue, Comparison
<1>4. CASE a.op = "holds"
  <2>1. ~l.unset /\ ~l.n /\ l.v = "t"
    BY <1>4 DEF IsTrue, Comparison
  <2>2. Told(fl, x, l) /\ fl # "auth.jwt"
    BY <1>4
  <2> HIDE DEF l, x
  <2>3. x = "t"
    BY <2>1, <2>2 DEF Told, SameValue
  <2> QED
    BY <1>4, <2>3 DEF Truth, x, Null
<1>5. CASE a.op = "isnull"
  <2>1. l.n /\ Told(fl, x, l)
    BY <1>5 DEF IsTrue, Comparison
  <2>2. x = Null
    BY <2>1 DEF Told, ToldValue
  <2> QED
    BY <1>5, <2>2 DEF Truth, Null, Raises
<1>6. CASE a.op = "notnull"
  <2>1. ~l.n /\ Told(fl, x, l) /\ fl # "setting_strict"
    BY <1>6 DEF IsTrue, Comparison
  <2>2. x \notin {Null, Raises}
    BY <2>1 DEF Told, ToldValue
  <2> QED
    BY <1>6, <2>2 DEF Truth
<1>7. CASE a.op \in {"=", "in", "<>"}
  <2>1. /\ ~l.unset /\ ~r.unset /\ ~l.n /\ ~r.n
        /\ IF a.op = "<>" THEN l.v # r.v ELSE l.v = r.v
    BY <1>7 DEF IsTrue, Comparison
  <2>2. Told(fl, x, l) /\ Told(fr, y, r) /\ "auth.jwt" \notin {fl, fr}
    BY <1>7
  <2> HIDE DEF l, r, x, y
  <2>3. {x, y} \cap {Null, Raises} = {} /\ x = l.v /\ y = r.v
    BY <2>1, <2>2 DEF Told, ToldValue, SameValue
  <2> QED
    BY <1>7, <2>1, <2>3 DEF Truth, x, y
<1> QED
  BY <1>1, <1>2, <1>3, <1>4, <1>5, <1>6, <1>7

\* A row of a world that passes a clause is admitted.
LEMMA AnonLeakReal ==
    ASSUME NEW c, IsClause(c), ~Wider(c), Encodable(c), NEW key \in BOOLEAN,
           NEW t \in Tenants \cup {Null}, NEW v \in Worlds(c),
           Passes(c, v, AnonSession(key, GucOf(t)))
    PROVE  Admits(c, AnonRequest(key, t), RowOf(c, v))
<1> DEFINE s == AnonRequest(key, t)
           session == AnonSession(key, GucOf(t))
           w == RowOf(c, v)
           fn(o) == IF o.is \in Functions THEN o.of ELSE ""
<1>1. PICK d \in c : \A a \in d : IsTrue(a, v, session)
  BY DEF Passes
<1>2. ASSUME NEW a \in d PROVE Truth(a, s, w) = "T"
  <2>1. a \in AtomsOf(c)
    BY DEF AtomsOf
  <2>2. IsAtom(a) /\ a.op \notin {"exists", "~~"} /\ IsTrue(a, v, session)
    BY <1>1, <2>1 DEF IsClause, Encodable
  <2>3. /\ \A o \in {a.l, a.r} : Exact(o)
        /\ \A o \in {a.l, a.r} : o.is \in Functions /\ o.of = "auth.jwt" => a.op \in {"isnull", "notnull"}
        /\ a.op = "notnull" => a.l.of # "setting_strict"
    BY <2>1 DEF Wider, WiderAtom, Exact
  <2>4. a.l \in OperandsOf(c) /\ a.r \in OperandsOf(c)
    BY <2>1 DEF OperandsOf
  <2>5. /\ a.op \notin {"true", "false"} => IsOperand(a.l)
        /\ a.op \in {"=", "in", "<>"} => IsOperand(a.r)
    BY <2>2 DEF IsAtom
  <2>6. ASSUME NEW o \in {a.l, a.r}, IsOperand(o)
        PROVE  Told(fn(o), Val(o, s, w), Encoded(o, v, session))
    BY <2>3, <2>4, <2>6, AnonOperandTold
  <2>7. /\ a.op \notin {"isnull", "notnull"} => "auth.jwt" \notin {fn(a.l), fn(a.r)}
        /\ a.op = "notnull" => fn(a.l) # "setting_strict"
    BY <2>3
  <2> HIDE DEF fn, s, w, session
  <2>8. /\ a.op \notin {"true", "false"} => Told(fn(a.l), Val(a.l, s, w), Encoded(a.l, v, session))
        /\ a.op \in {"=", "in", "<>"} => Told(fn(a.r), Val(a.r, s, w), Encoded(a.r, v, session))
    BY <2>5, <2>6
  <2> QED
    BY <2>2, <2>7, <2>8, TrueAtomsAreReal
<1> QED
  BY <1>2 DEF Admits

\* A leak of the prover is a world that passes, in one of the sessions tried.
LEMMA AnonLeakFound ==
    ASSUME NEW c, NEW gucs, ProveAnonIsolation(c, gucs) = "leak"
    PROVE  /\ Encodable(c)
           /\ \E key \in BOOLEAN : \E g \in gucs : \E v \in Worlds(c) : Passes(c, v, AnonSession(key, g))
<1>1. AnonVerdicts(c, gucs) \cap {"leak", "total"} # {}
  BY DEF ProveAnonIsolation, Strongest
<1>2. PICK key \in BOOLEAN, g \in gucs : ProveAnonSession(c, AnonSession(key, g)) \in {"leak", "total"}
  BY <1>1 DEF AnonVerdicts
<1>3. Encodable(c) /\ \E v \in Worlds(c) : Passes(c, v, AnonSession(key, g))
  BY <1>2 DEF ProveAnonSession
<1> QED
  BY <1>3

\* A composition of clauses that the encoding is not wider for is not wider.
LEMMA AllOfExact ==
    ASSUME NEW c, NEW floors, \A f \in floors \cup {c} : ~Wider(f)
    PROVE  ~Wider(AllOf(c, floors))
<1> SUFFICES ASSUME Wider(AllOf(c, floors)) PROVE FALSE
  OBVIOUS
<1>1. PICK a \in AtomsOf(AllOf(c, floors)) : WiderAtom(a)
  BY DEF Wider
<1>2. PICK f \in floors \cup {c} : a \in AtomsOf(f)
  BY AllOfAtoms
<1> QED
  BY <1>1, <1>2 DEF Wider

\* The requests a leak was found for are made.
LEMMA AnonGucsAreReal ==
    ASSUME NEW d \in Databases, d.graph, NEW g \in LoginGucs(d), NEW key \in BOOLEAN
    PROVE  \E t \in Tenants \cup {Null} : g = GucOf(t) /\ AnonRequest(key, t) \in AnonRequests(d)
<1>1. PICK r \in LoginRoles(d) : g = GucOf(Configured(d, r))
  BY DEF LoginGucs, GucOf
<1>2. Configured(d, r) \in Tenants \cup {Null}
  BY <1>1, LoginGucsType, VerifyAssumption
<1>3. AnonRequest(key, Configured(d, r)) \in AnonRequests(d)
  BY <1>1 DEF AnonRequests, AnonRequest, AnonRole
<1> QED
  BY <1>1, <1>2, <1>3

\* Somebody makes an anonymous request, and there are rows.
LEMMA AnonRequestsExist ==
    ASSUME NEW d \in Databases
    PROVE  AnonRequests(d) # {} /\ Rows # {}
<1>1. "anon" \in LoginRoles(d)
  BY LoginGucsType
<1>2. AnonRequests(d) # {}
  <2>1. Request(Null, Null, Null, Configured(d, "anon")) \in AnonRequests(d)
    <3>1. \E key \in BOOLEAN, r \in LoginRoles(d) :
             Request(Null, Null, Null, Configured(d, "anon")) =
             Request(Null, IF key THEN "anon" ELSE Null, IF key THEN "anon" ELSE Null, Configured(d, r))
      <4>1. FALSE \in BOOLEAN
        OBVIOUS
      <4> QED
        BY <1>1, <4>1
    <3> QED
      BY <3>1 DEF AnonRequests
  <2> QED
    BY <2>1
<1>3. [x \in Columns |-> Null] \in Rows
  BY DEF Rows
<1> QED
  BY <1>2, <1>3

\* A policy that reaches one of the roles governs it.
LEMMA ReachableIsGoverned ==
    ASSUME NEW d \in Databases, d.graph, NEW n \in DOMAIN d.pol, d.pol[n].cmd \in {"ALL", "SELECT"},
           d.pol[n].permissive, PolicyReach(d, d.pol[n], AnonRoles) = "reachable"
    PROVE  \E r \in SessionRoles : Governs(d, n, r, "SELECT", TRUE)
<1> DEFINE inh == {e \in d.edges : e.inherit}
<1>1. PICK x \in d.pol[n].roles : x \in Reach(inh, AnonRoles \cup {Public})
  BY DEF PolicyReach, ReachableRoles
<1>2. \A e \in inh : e.member # Public
  <2>1. \A e \in Edges : e.member # Public
    <3>1. Public \notin Roles
      BY VerifyAssumption
    <3>2. \A e \in Edges : e.member \in Roles
      BY VerifyAssumption DEF IsEdge
    <3> QED
      BY <3>1, <3>2
  <2>2. d.edges \subseteq Edges
    BY DatabaseHas
  <2> QED
    BY <2>1, <2>2
<1>3. \A r : Privileges(d, r) = Reach(inh, {r})
  BY DEF Privileges
<1> HIDE DEF inh
<1>4. x = Public \/ \E r \in SessionRoles : x \in Reach(inh, {r})
  BY <1>1, <1>2, ReachFromOne DEF SessionRoles
<1>5. PICK r \in SessionRoles : x \in Privileges(d, r) \cup {Public}
  BY <1>3, <1>4, SessionRolesAre
<1>6. d.pol[n].permissive = TRUE
  BY DatabaseHas DEF IsPolicy
<1> QED
  BY <1>1, <1>5, <1>6 DEF Governs

\* A policy whose proof leaks shows a row to a role it governs, where every
\* floor binds everyone.
LEMMA LeakyPolicyShows ==
    ASSUME NEW d \in Databases, d.rls, d.graph, NEW n \in DOMAIN d.pol,
           d.pol[n] \in Relevant(d, "anon", TRUE),
           PolicyProof(d, d.pol[n], "anon", AnonRoles, LoginGucs(d)) = "leak",
           \A p \in Relevant(d, "anon", FALSE) : Public \in p.roles,
           \A m \in DOMAIN d.pol : ~Wider(d.pol[m].using)
    PROVE  \E r \in SessionRoles : \E s \in AnonRequests(d) :
               Visible(d, r, s, "SELECT", "old") # {}
<1> DEFINE p == d.pol[n]
           gucs == LoginGucs(d)
           floors == Floors(d, p, "anon")
           parts == {q.using : q \in floors}
           c == AllOf(p.using, parts)
<1>1. p \in Policies /\ gucs \in GucSets /\ p.cmd \in {"ALL", "SELECT"} /\ p.permissive
  BY DatabaseHas, LoginGucsType DEF Relevant, ModeCommands
<1>2. /\ p.using # Absent /\ PolicyReach(d, p, AnonRoles) = "reachable"
      /\ \A q \in floors : q.using # Absent
      /\ Prove(c, "anon", gucs) = "leak"
  <2>1. \A q : CheckedAst(q, "anon") = q.using
    BY DEF CheckedAst
  <2>2. Composed(d, p, "anon") = c
    BY <2>1 DEF Composed
  <2>3. PolicyReach(d, p, AnonRoles) \in {"reachable", "unreachable", "unknown"}
    BY DEF PolicyReach
  <2> HIDE DEF c, p, gucs
  <2>4. PolicyProof(d, p, "anon", AnonRoles, gucs) = "leak"
    BY DEF p, gucs
  <2> QED
    BY <2>1, <2>2, <2>3, <2>4 DEF PolicyProof
<1>3. floors \subseteq {q \in Policies : ~q.permissive} /\ floors \subseteq {d.pol[m] : m \in DOMAIN d.pol}
  <2>1. Relevant(d, "anon", FALSE) \subseteq {q \in Policies : ~q.permissive}
    BY DatabaseHas DEF Relevant
  <2>2. Relevant(d, "anon", FALSE) \subseteq {d.pol[m] : m \in DOMAIN d.pol}
    BY DEF Relevant
  <2> QED
    BY <2>1, <2>2 DEF Floors
<1>4. ProveAnonIsolation(c, gucs) = "leak"
  <2>1. c \in ProofClauses("anon")
    <3>1. \A q : CheckedAst(q, "anon") = q.using
      BY DEF CheckedAst
    <3>2. CheckedAst(p, "anon") # Absent /\ \A q \in floors : CheckedAst(q, "anon") # Absent
      BY <1>2, <3>1
    <3>3. CheckedAst(p, "anon") = p.using /\ {CheckedAst(q, "anon") : q \in floors} = parts
      BY <3>1
    <3> HIDE DEF p, floors, parts
    <3>4. AllOf(CheckedAst(p, "anon"), {CheckedAst(q, "anon") : q \in floors}) \in ProofClauses("anon")
      BY <1>1, <1>3, <3>2, InProofClauses
    <3> QED
      BY <3>3, <3>4
  <2> HIDE DEF c, gucs, p
  <2> QED
    BY <1>1, <1>2, <2>1, AnonProofOf
<1>5. \A f \in parts \cup {p.using} : IsClause(f) /\ ~Wider(f)
  <2>1. \A m \in DOMAIN d.pol : IsClause(d.pol[m].using)
    BY DatabaseHas DEF IsPolicy
  <2>2. parts \cup {p.using} \subseteq {d.pol[m].using : m \in DOMAIN d.pol}
    BY <1>3
  <2> HIDE DEF parts, p
  <2> QED
    BY <2>1, <2>2
<1>6. IsClause(c) /\ ~Wider(c)
  <2> HIDE DEF parts, p
  <2> QED
    BY <1>5, AllOfIsClause, AllOfExact
<1> HIDE DEF c
<1>7. PICK key \in BOOLEAN, g \in gucs, v \in Worlds(c) :
         Encodable(c) /\ Passes(c, v, AnonSession(key, g))
  BY <1>4, AnonLeakFound
<1>8. PICK t \in Tenants \cup {Null} : g = GucOf(t) /\ AnonRequest(key, t) \in AnonRequests(d)
  BY AnonGucsAreReal
<1> DEFINE s == AnonRequest(key, t)
           w == RowOf(c, v)
<1>9. w \in Rows /\ Admits(c, s, w)
  BY <1>6, <1>7, <1>8, RowOfType, AnonLeakReal
<1>10. s \in Requests /\ \A m \in DOMAIN d.pol : /\ Gate(d.pol[m], "old") = d.pol[m].using
                                               /\ d.pol[m].using \in Clauses0
  BY DatabaseHas, InTables DEF Gate
<1> HIDE DEF s, w
<1>11. \A f \in parts \cup {p.using} : Admits(f, s, w)
  <2> HIDE DEF parts, p
  <2> QED
    BY <1>9, AllOfAdmitsEach DEF c
<1>12. PICK r \in SessionRoles : Governs(d, n, r, "SELECT", TRUE)
  BY <1>1, <1>2, ReachableIsGoverned
<1>13. ASSUME NEW m \in DOMAIN d.pol, Governs(d, m, r, "SELECT", FALSE), d.pol[m].using # Absent
       PROVE  w \in Admitted(d.pol[m].using, s)
  <2>1. d.pol[m] \in Relevant(d, "anon", FALSE)
    BY <1>13 DEF Relevant, Governs, ModeCommands
  <2>2. d.pol[m] \in floors
    BY <2>1 DEF Floors, FloorApplies
  <2>3. Admits(d.pol[m].using, s, w)
    BY <1>11, <2>2
  <2> QED
    BY <1>9, <1>10, <2>3, AdmittedIs
<1>14. w \in Admitted(p.using, s)
  BY <1>9, <1>10, <1>11, AdmittedIs
<1>15. w \in Visible(d, r, s, "SELECT", "old")
  <2>1. CASE Exempt(d, r)
    BY <1>9, <2>1 DEF Visible
  <2>2. CASE ~Exempt(d, r)
    <3>1. n \in {m \in DOMAIN d.pol : Governs(d, m, r, "SELECT", TRUE)}
      BY <1>12
    <3>2. w \in UNION {Admitted(Gate(d.pol[m], "old"), s) :
                          m \in {x \in DOMAIN d.pol : Governs(d, x, r, "SELECT", TRUE)}}
      BY <1>10, <1>14, <3>1
    <3>3. \A m \in DOMAIN d.pol : Governs(d, m, r, "SELECT", FALSE) /\ Gate(d.pol[m], "old") # Absent
                                  => w \in Admitted(Gate(d.pol[m], "old"), s)
      BY <1>10, <1>13
    <3> QED
      BY <2>2, <3>2, <3>3 DEF Visible
  <2> QED
    BY <2>1, <2>2
<1> QED
  BY <1>8, <1>12, <1>15 DEF s

\* Who reports a leak shows one: every anonymous leak on the table is a row
\* that some anonymous request reads, if it has the grant, when the memberships
\* were captured, every floor binds everyone, and the encoding of no clause is
\* wider than the server's (verify_anon_isolation, _policy_proof).
THEOREM ReportedLeaksAreReal ==
    Spec => []LeaksAreReal
<1>1. TypeOK => LeaksAreReal
  <2> SUFFICES ASSUME head \in Databases, Verification(head, "anon") = "leak", head.graph,
                      \A p \in Relevant(head, "anon", FALSE) : Public \in p.roles,
                      \A n \in DOMAIN head.pol : ~Wider(head.pol[n].using)
               PROVE  \E r \in SessionRoles : \E s \in AnonRequests(head) :
                         Visible(head, r, s, "SELECT", "old") # {}
    BY DEF TypeOK, LeaksAreReal
  <2>1. head.rls
    BY DEF Verification, TableVerdict
  <2>2. PICK s \in AnonRequests(head) : Rows # {}
    BY AnonRequestsExist
  <2>3. CASE AnonSessionExempt(head, AnonRoles)
    <3>1. PICK r \in SessionRoles : Exempt(head, r)
      BY <2>3, VerifyAssumption DEF AnonSessionExempt, Exempt, SessionRoles
    <3>2. Visible(head, r, s, "SELECT", "old") # {}
      BY <2>2, <3>1 DEF Visible
    <3> QED
      BY <3>1, <3>2
  <2>4. CASE ~AnonSessionExempt(head, AnonRoles)
    <3>1. Rollup({PolicyProof(head, p, "anon", AnonRoles, LoginGucs(head)) :
                     p \in Relevant(head, "anon", TRUE)}) = "leak"
      BY <2>1, <2>4 DEF Verification, TableVerdict
    <3>2. PICK p \in Relevant(head, "anon", TRUE) :
             PolicyProof(head, p, "anon", AnonRoles, LoginGucs(head)) = "leak"
      BY <3>1 DEF Rollup
    <3>3. PICK n \in DOMAIN head.pol : p = head.pol[n]
      BY DEF Relevant
    <3> QED
      BY <2>1, <3>2, <3>3, LeakyPolicyShows
  <2> QED
    BY <2>3, <2>4
<1> QED
  BY <1>1, TypeInvariant, PTL
===============================================================================
