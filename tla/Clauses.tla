------------------------------ MODULE Clauses ------------------------------
(***************************************************************************)
(* Policy clauses and what PostgreSQL makes of them.  A clause is a        *)
(* disjunction of conjunctions of atoms; an atom compares two operands.    *)
(* An AND or OR of clauses is again a clause: three-valued logic           *)
(* distributes.  Rows map columns to values, sessions map the functions    *)
(* that read the request (auth.uid(), current_setting(...)) to values.     *)
(***************************************************************************)
EXTENDS Naturals, FiniteSets

Null == "null"
Raises == "raises"     \* evaluating the operand is an error
Default == "A"         \* the literal of COALESCE(f(), 'A')

\* Operands.
Operand(is, of) == [is |-> is, of |-> of]
Col(c) == Operand("column", c)           \* a column of the policy's table
Inner(c) == Operand("inner", c)          \* a column of a subquery's table
Call(f) == Operand("call", f)            \* f()
Select(f) == Operand("select", f)        \* (SELECT f())
Coalesce(f) == Operand("coalesce", f)    \* COALESCE(f(), 'A')
Wrap(c) == Operand("wrap", c)            \* lower(c), of a column
WrapCall(f) == Operand("wrapcall", f)    \* lower(f())
Lit(v) == Operand("literal", v)
Rel(t) == Operand("relation", t)         \* FROM t, in a subquery
None == Operand("none", "")

\* Atoms.
Atom(op, l, r) == [op |-> op, l |-> l, r |-> r]
Eq(l, r) == Atom("=", l, r)
Ne(l, r) == Atom("<>", l, r)
Like(l, r) == Atom("~~", l, r)
IsNull(l) == Atom("isnull", l, None)
NotNull(l) == Atom("notnull", l, None)
Holds(l) == Atom("holds", l, None)           \* a boolean column
Exists(t, r) == Atom("exists", Rel(t), r)    \* EXISTS (SELECT 1 FROM t WHERE t.user_id = r)
Yes == Atom("true", None, None)
No == Atom("false", None, None)

\* Clauses.
Absent == {}
One(atom) == {{atom}}
And(c, d) == {x \cup y : x \in c, y \in d}
AllOf(c, floors) == {UNION {pick[f] : f \in DOMAIN pick} :
                        pick \in {p \in [floors \cup {c} -> UNION (floors \cup {c})] :
                                     \A f \in DOMAIN p : p[f] \in f}}
AtomsOf(c) == UNION c
OperandsOf(c) == {a.l : a \in AtomsOf(c)} \cup {a.r : a \in AtomsOf(c)}
Functions == {"call", "select", "coalesce", "wrapcall"}
CallsOf(c) == {o \in OperandsOf(c) : o.is \in Functions}
-------------------------------------------------------------------------------
(* The server.                                                             *)

\* current_setting with one argument reads the same parameter as the form with
\* two, and raises where that is NULL.
Read(f, s) == IF f = "setting_strict"
              THEN IF s["setting"] = Null THEN Raises ELSE s["setting"]
              ELSE s[f]
Val(o, s, r) == CASE o.is \in {"column", "wrap"} -> r[o.of]
                  [] o.is \in {"call", "select", "wrapcall"} -> Read(o.of, s)
                  [] o.is = "coalesce" -> IF Read(o.of, s) = Null THEN Default ELSE Read(o.of, s)
                  [] o.is = "literal" -> o.of

\* "T", "F", or "N" for unknown.  An error is unknown as well: a disjunct that
\* is TRUE may have been evaluated first.
Truth(a, s, r) ==
    LET l == Val(a.l, s, r)  m == Val(a.r, s, r) IN
    CASE a.op = "true" -> "T"
      [] a.op = "false" -> "F"
      [] a.op = "holds" -> IF l = Null THEN "N" ELSE IF l = "t" THEN "T" ELSE "F"
      [] a.op \in {"=", "in", "~~"} ->
            IF {l, m} \cap {Null, Raises} # {} THEN "N" ELSE IF l = m THEN "T" ELSE "F"
      [] a.op = "<>" ->
            IF {l, m} \cap {Null, Raises} # {} THEN "N" ELSE IF l = m THEN "F" ELSE "T"
      [] a.op = "isnull" -> IF l = Raises THEN "N" ELSE IF l = Null THEN "T" ELSE "F"
      [] a.op = "notnull" -> IF l = Raises THEN "N" ELSE IF l = Null THEN "F" ELSE "T"
      [] a.op = "exists" -> IF a.r = None \/ m \notin {Null, Raises} THEN "T" ELSE "F"
\* A row passes a clause that is exactly TRUE.
Admits(c, s, r) == \E d \in c : \A a \in d : Truth(a, s, r) = "T"
-------------------------------------------------------------------------------
(* Questions the code asks of the syntax tree.                             *)

IsLiteralTrue(c) == c = One(Yes)
IsLiteralFalse(c) == c = One(No)
\* flatten_or_disjuncts: a disjunct that is one atom.
DisjunctAtoms(c) == {a \in AtomsOf(c) : {a} \in c}
HasTrueDisjunct(c) == \E d \in c : d = {Yes}
FindFuncCalls(c) == {o.of : o \in CallsOf(c)}
OwnColumns(c) == {o.of : o \in {p \in OperandsOf(c) : p.is \in {"column", "wrap"}}}
RangeVars(c) == {o.of : o \in {p \in OperandsOf(c) : p.is = "relation"}}
IsNeverNull(f) == f = "setting_strict"
===============================================================================
