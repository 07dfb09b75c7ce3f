------------------------------- MODULE Verify -------------------------------
(***************************************************************************)
(* `pgrls verify` on one table, two views and a SECURITY DEFINER function: *)
(* a migration edits the database statement by statement, and the gate of  *)
(* `verify --against` decides whether a pull request is merged.  The first *)
(* part is what PostgreSQL lets sessions do, the second what the five      *)
(* modes say.                                                              *)
(***************************************************************************)
EXTENDS IsolationProofs

CONSTANTS Roles,          \* every role of the cluster
          Bypass,         \* the roles with BYPASSRLS
          AnonRoles,      \* [lint.rules.SEC004].anon_roles
          TenantRoles,    \* the roles a tenant's requests run as
          Edges,          \* the memberships a migration may grant
          Policies, PolicyNames, Gucs, Views, Bodies,   \* what DDL may create
          Bases,          \* the databases pull requests start from
          MaxEdits,       \* bound: statements, over all pull requests
          MaxMerges       \* bound: pull requests merged

Public == "PUBLIC"
Doc == "docs"                       \* the table
Grantees == Roles \cup {Public}
\* What a session may hold: the two tenants' identifiers in every parameter.
Fns == {"auth.uid", "auth.role", "auth.jwt", "setting"}
Tenants == {"A", "B"}
Columns == {"tenant_id", "user_id", "is_public"}
Rows == [Columns -> Values \cup {Null}]

\* Clauses that the table's columns and the session's functions give a meaning.
IsOperand(o) ==
    /\ o = Operand(o.is, o.of)
    /\ \/ o.is \in {"column", "wrap"} /\ o.of \in Columns
       \/ o.is \in Functions /\ o.of \in Fns \cup {"setting_strict"}
       \/ o.is = "literal" /\ o.of \notin {Null, Raises}
IsAtom(a) == \/ a.op \in {"true", "false", "exists"}
             \/ a.op \in {"holds", "isnull", "notnull"} /\ IsOperand(a.l)
             \/ a.op \in {"=", "in", "<>", "~~"} /\ IsOperand(a.l) /\ IsOperand(a.r)
IsClause(c) == \A a \in AtomsOf(c) : IsAtom(a)
\* An INSERT policy has no USING, a SELECT or DELETE policy no WITH CHECK.
IsPolicy(p) == /\ p.cmd \in {"ALL", "SELECT", "INSERT", "UPDATE", "DELETE"}
               /\ p.permissive \in BOOLEAN /\ p.roles \subseteq Grantees
               /\ IsClause(p.using) /\ IsClause(p.check)
               /\ p.cmd = "INSERT" => p.using = Absent
               /\ p.cmd \in {"SELECT", "DELETE"} => p.check = Absent
IsEdge(e) == e \in [member : Roles, role : Roles, inherit : BOOLEAN]
IsView(v) == v \in [owner : Roles, invoker : BOOLEAN, mat : BOOLEAN,
                    ref : {Doc, "inner"}, grants : SUBSET Grantees]
\* A body "reads" (SELECT FROM docs), "sets" (SET app.tenant first), "calls" (an
\* unknown function as well) or is "opaque" (PL/pgSQL).  The statements of a body
\* are not modelled: the tag stands for what the code's recognizers find in them.
IsFunction(f) == f \in [owner : Roles, execute : SUBSET Grantees,
                        body : {"reads", "sets", "calls", "opaque"}]

ASSUME VerifyAssumption ==
    /\ IsFiniteSet(Roles) /\ {Public, ""} \cap Roles = {} 
    /\ {"anon", "authenticator", "reporter"} \subseteq Roles /\ "anon" \in AnonRoles
    /\ AnonRoles \subseteq Grantees /\ Bypass \subseteq Roles /\ TenantRoles \subseteq Roles \ Bypass
    /\ PolicyNames \subseteq Nat        \* in the order of the names
    /\ Gucs \subseteq Tenants /\ MaxEdits \in Nat /\ MaxMerges \in Nat
    /\ \A p \in Policies : IsPolicy(p)
    /\ \A e \in Edges : IsEdge(e)
    /\ \A v \in Views : IsView(v)
    /\ \A f \in Bodies : IsFunction(f)

\* Z3 chooses from all strings: whatever a row or a request may hold.
ASSUME ValuesAssumption == /\ Tenants \cup {"t", "anon", "authenticated"} \subseteq Values
                           /\ {Null, Raises} \cap Values = {}

\* The table's flags, owner, policies and SELECT grants, the edges, whether the
\* graph was captured (snapshots before version 26 lack it), the values of
\* app.tenant by role ("ALL": the database), views and functions.  A tenant's
\* requests do not run as the owner.
Databases ==
    [rls : BOOLEAN, force : BOOLEAN, graph : BOOLEAN, owner : Roles \ TenantRoles,
     pol : UNION {[names -> Policies] : names \in SUBSET PolicyNames},
     grants : SUBSET Grantees, edges : SUBSET Edges,
     guc : [Roles \cup {"ALL"} -> Gucs \cup {NotSet}],
     views : UNION {[names -> Views] : names \in SUBSET {"outer", "inner"}},
     fns : {{}} \cup {{f} : f \in Bodies}]

ASSUME BasesAssumption == Bases \subseteq Databases

VARIABLES base, head, edits, merges
vars == <<base, head, edits, merges>>
TypeOK == /\ base \in Databases /\ head \in Databases
          /\ edits \in 0..MaxEdits /\ merges \in 0..MaxMerges
Init == base \in Bases /\ head = base /\ edits = 0 /\ merges = 0
-------------------------------------------------------------------------------
(* The migration.                                                          *)

Edited(d) == /\ edits < MaxEdits /\ d # head
             /\ head' = d /\ edits' = edits + 1 /\ UNCHANGED <<base, merges>>
Put(f, k, v) == [x \in DOMAIN f \cup {k} |-> IF x = k THEN v ELSE f[x]]
Drop(f, k) == [x \in DOMAIN f \ {k} |-> f[x]]

CreatePolicy(n, p) == n \notin DOMAIN head.pol /\ Edited([head EXCEPT !.pol = Put(@, n, p)])
DropPolicy(n) == Edited([head EXCEPT !.pol = Drop(@, n)])
SetRls(on) == Edited([head EXCEPT !.rls = on])
SetForce(on) == Edited([head EXCEPT !.force = on])
GrantMembership(e) == Edited([head EXCEPT !.edges = @ \cup {e}])
Configure(r, v) == Edited([head EXCEPT !.guc[r] = v])
CreateView(n, v) == /\ v.ref = "inner" => n # "inner" /\ "inner" \in DOMAIN head.views
                    /\ Edited([head EXCEPT !.views = Put(@, n, v)])
CreateFunction(f) == Edited([head EXCEPT !.fns = {f}])
GrantSelect(r) == Edited([head EXCEPT !.grants = @ \cup {r}])
-------------------------------------------------------------------------------
(* What PostgreSQL does.                                                   *)

Reach(edges, from) ==
    LET n == Cardinality(Roles)
        reach[k \in 0..n] ==
            IF k = 0 THEN from
            ELSE LET below == reach[k - 1] IN
                 below \cup {e.role : e \in {x \in edges : x.member \in below}}
    IN reach[n]
\* The roles whose privileges r has.
Privileges(d, r) == Reach({e \in d.edges : e.inherit}, {r})
\* The roles an anonymous session runs as, and those it logs in as.  Of several
\* anonymous roles the login paths are not told apart, as in the code.
SessionRoles == AnonRoles \ {Public}
LoginRoles(d) == {r \in Roles : Reach(d.edges, {r}) \cap SessionRoles # {}}
OwnerReachers(d) == {r \in Roles \ (Bypass \cup {d.owner}) : d.owner \in Reach(d.edges, {r})}

\* A request has the functions of a session; an anonymous one reads what its
\* login role is configured with.  Of a JWT only its role is told apart.
Request(uid, role, jwt, setting) ==
    [f \in Fns |-> CASE f = "auth.uid" -> uid [] f = "auth.role" -> role
                     [] f = "auth.jwt" -> jwt [] f = "setting" -> setting]
Configured(d, login) == IF d.guc[login] # NotSet THEN d.guc[login]
                        ELSE IF d.guc["ALL"] # NotSet THEN d.guc["ALL"] ELSE Null
AnonRequests(d) == {Request(Null, IF key THEN "anon" ELSE Null, IF key THEN "anon" ELSE Null,
                            Configured(d, r)) : key \in BOOLEAN, r \in LoginRoles(d)}
TenantRequests == {Request(u, "authenticated", "authenticated", t) : u \in Tenants \cup {Null},
                                                        t \in Tenants \cup {Null}}
Clauses0 == UNION {{p.using, p.check} : p \in Policies}
Requests == TenantRequests \cup {Request(Null, a[1], a[2], t) :
                a \in {<<Null, Null>>, <<"anon", "anon">>}, t \in Tenants \cup {Null}}
Table(f) == CHOOSE g \in {f} : g = f      \* f itself: TLC evaluates it once
AdmittedRows == Table([cs \in Clauses0 \X Requests |-> {w \in Rows : Admits(cs[1], cs[2], w)}])
Admitted(c, s) == AdmittedRows[<<c, s>>]

Exempt(d, r) == r \in Bypass \/ (~d.force /\ d.owner \in Privileges(d, r))
Governs(d, n, r, cmd, permissive) ==
    /\ d.pol[n].permissive = permissive /\ d.pol[n].cmd \in {"ALL", cmd}
    /\ d.pol[n].roles \cap (Privileges(d, r) \cup {Public}) # {}
\* The clause that governs old rows ("old") or new ones.
Gate(p, side) == IF side = "new" /\ p.check # Absent THEN p.check ELSE p.using
Visible(d, r, s, cmd, side) ==
    IF ~d.rls \/ Exempt(d, r) THEN Rows
    ELSE {w \in UNION {Admitted(Gate(d.pol[n], side), s) :
                          n \in {m \in DOMAIN d.pol : Governs(d, m, r, cmd, TRUE)}} :
            \A n \in DOMAIN d.pol :
               Governs(d, n, r, cmd, FALSE) /\ Gate(d.pol[n], side) # Absent
               => w \in Admitted(Gate(d.pol[n], side), s)}
MaySelect(d, r, owner, grants) ==
    owner \in Privileges(d, r) \/ grants \cap (Privileges(d, r) \cup {Public}) # {}
ReadsTable(d, r, s) == IF MaySelect(d, r, d.owner, d.grants)
                       THEN Visible(d, r, s, "SELECT", "old") ELSE {}
\* A view runs as its owner, or as the caller; a materialized one holds what
\* its owner saw, which may be any row.
RunsAs(v, caller) == IF v.invoker THEN caller ELSE v.owner
ReadsInner(d, opener, caller, s) ==
    IF "inner" \notin DOMAIN d.views THEN {}
    ELSE LET v == d.views["inner"] IN
         IF ~MaySelect(d, opener, v.owner, v.grants) THEN {}
         ELSE IF v.mat THEN Rows ELSE ReadsTable(d, RunsAs(v, caller), s)
ReadsView(d, v, caller, s) ==
    IF ~MaySelect(d, caller, v.owner, v.grants) \/ v.mat THEN {}
    ELSE IF v.ref = Doc THEN ReadsTable(d, RunsAs(v, caller), s)
    ELSE ReadsInner(d, RunsAs(v, caller), caller, s)
\* A function runs as its owner; a body that sets the parameter, or that does
\* not show what it does, reads under any value of it.
ReadsFunction(d, f, caller, s) ==
    IF f.execute \cap (Privileges(d, caller) \cup {Public}) = {} THEN {}
    ELSE UNION {ReadsTable(d, f.owner, [s EXCEPT !["setting"] = t]) :
                   t \in IF f.body \in {"reads", "calls"} THEN {s["setting"]}
                         ELSE Tenants \cup {s["setting"]}}
AnonReadsAs(d, a) ==
    UNION {ReadsTable(d, a, s)
           \cup (UNION {ReadsView(d, d.views[n], a, s) : n \in DOMAIN d.views})
           \cup (UNION {ReadsFunction(d, f, a, s) : f \in d.fns}) : s \in AnonRequests(d)}
AnonReads(d) == UNION {AnonReadsAs(d, a) : a \in SessionRoles}
-------------------------------------------------------------------------------
(* The verdict on a table from its policies.                               *)

ReachableRoles(d, roles) == IF d.graph THEN Reach({e \in d.edges : e.inherit}, roles \cup {Public})
                            ELSE roles \cup {Public}
\* Mutant: the roles a policy is for are not looked at.
ReachOfAnyRole(d, p, roles) == IF d.graph THEN "reachable" ELSE "unknown"
PolicyReach(d, p, roles) ==
    IF p.roles \cap ReachableRoles(d, roles) # {} THEN "reachable"
    ELSE IF d.graph THEN "unreachable" ELSE "unknown"
\* The states of app.tenant an anonymous caller may arrive with.
LoginGucs(d) == {LET v == Configured(d, r) IN IF v = Null THEN NotSet ELSE v :
                    r \in IF d.graph THEN LoginRoles(d) ELSE SessionRoles}
AnonSessionExempt(d, roles) ==
    \/ Bypass \cap roles # {}
    \/ ~d.force /\ d.graph /\ \E r \in roles \ {Public} : d.owner \in Privileges(d, r)

EffectiveWriteCheck(p) == IF p.check # Absent THEN p.check
                          ELSE IF p.cmd \in {"UPDATE", "ALL"} THEN p.using ELSE Absent
OldRowWriteGate(p) == IF p.cmd \in {"UPDATE", "DELETE", "ALL"} THEN p.using ELSE Absent
CheckedAst(p, mode) ==
    IF mode = "write" THEN EffectiveWriteCheck(p) \cup OldRowWriteGate(p) ELSE p.using
ModeCommands(mode) == IF mode = "write" THEN {"ALL", "INSERT", "UPDATE", "DELETE"}
                      ELSE {"ALL", "SELECT"}
WriteOps(cmd) == IF cmd = "ALL" THEN {"INSERT", "UPDATE", "DELETE"} ELSE {cmd}
FloorApplies(p, r, mode) ==
    /\ Public \in r.roles \/ (Public \notin p.roles /\ p.roles \subseteq r.roles)
    /\ mode = "write" => WriteOps(p.cmd) \subseteq WriteOps(r.cmd)
\* The proofs of every clause there may be.
ProofClauses(mode) == UNION {
    {AllOf(c, fs) : c \in {CheckedAst(p, mode) : p \in ps} \ {Absent},
                    fs \in SUBSET ({CheckedAst(r, mode) : r \in {p \in ps : ~p.permissive}}
                                   \ {Absent})} : ps \in {Policies}}
GucSets == (SUBSET (Gucs \cup {NotSet})) \ {{}}
AnonProofs == Table([cg \in ProofClauses("anon") \X GucSets |-> ProveAnonIsolation(cg[1], cg[2])])
TenantProofs == Table([c \in UNION {ProofClauses(m) : m \in {"cross-tenant", "write"}} |->
                          ProveCrossTenant(c)])
\* Witness {}: whatever leaks, leaks whole.  Where sessions differ the code takes
\* the witness of the first login path, here the narrower one.
WholeLeaks == {cg \in ProofClauses("anon") \X GucSets : "leak" \notin AnonVerdicts(cg[1], cg[2])}
TotalLeaks == {cg \in WholeLeaks : AnonLeakIsTotal(cg[1], cg[2])}
ForeignLeaks == {c \in ProofClauses("cross-tenant") :
                     ProveCrossTenant(c) = "leak" /\ CrossTenantTotal(c)}
Prove(c, mode, gucs) == IF mode = "anon" THEN AnonProofs[<<c, gucs>>] ELSE TenantProofs[c]

Relevant(d, mode, permissive) == {d.pol[n] : n \in {m \in DOMAIN d.pol :
    d.pol[m].cmd \in ModeCommands(mode) /\ d.pol[m].permissive = permissive}}
Floors(d, p, mode) == {r \in Relevant(d, mode, FALSE) : FloorApplies(p, r, mode)}
Composed(d, p, mode) == AllOf(CheckedAst(p, mode), {CheckedAst(r, mode) : r \in Floors(d, p, mode)})
PolicyProof(d, p, mode, roles, gucs) ==
    LET ast == CheckedAst(p, mode)
        alone == Prove(ast, mode, gucs)
        floors == Floors(d, p, mode)
    IN  IF ast = Absent
        THEN IF mode = "write" /\ p.cmd = "INSERT" THEN "isolated" ELSE "unverified"
        ELSE IF alone # "leak" THEN alone
        ELSE IF mode = "anon" /\ PolicyReach(d, p, roles) = "unreachable" THEN "isolated"
        ELSE IF mode = "anon" /\ PolicyReach(d, p, roles) = "unknown" THEN "unverified"
        ELSE IF \E r \in floors : CheckedAst(r, mode) = Absent THEN "unverified"
        ELSE Prove(Composed(d, p, mode), mode, gucs)
First(names) == CHOOSE n \in names : \A m \in names : n <= m
\* The clause whose witness stands for the table: of the first policy that leaks.
FirstLeak(d, mode, roles, gucs) ==
    Composed(d, d.pol[First({n \in DOMAIN d.pol :
                                 /\ d.pol[n] \in Relevant(d, mode, TRUE)
                                 /\ PolicyProof(d, d.pol[n], mode, roles, gucs) = "leak"})], mode)
Rollup(verdicts) == IF "leak" \in verdicts THEN "leak"
                    ELSE IF "unverified" \in verdicts THEN "unverified" ELSE "isolated"
\* owners: whether a role that can become the owner withholds the proof.
TableVerdict(d, mode, roles, gucs, owners) ==
    IF ~d.rls THEN "absent"
    ELSE IF mode = "anon" /\ AnonSessionExempt(d, roles) THEN "leak"
    ELSE IF mode # "anon" /\ owners /\ ~d.force /\ OwnerReachers(d) # {} THEN "unverified"
    ELSE Rollup({PolicyProof(d, p, mode, roles, gucs) : p \in Relevant(d, mode, TRUE)})
Verification(d, mode) == TableVerdict(d, mode, AnonRoles, LoginGucs(d), TRUE)
-------------------------------------------------------------------------------
(* Escalation and reachability: the doors beside the table.                *)

AnonHoldsSelect(d, owner, grants) ==
    \/ grants \cap (AnonRoles \cup {Public}) # {}
    \/ d.graph /\ \E r \in SessionRoles : MaySelect(d, r, owner, grants)
\* "T", "F", or "U" when the graph was not captured and membership decides.
InheritsPrivs(d, r, target) == IF r = target THEN "T" ELSE IF ~d.graph THEN "U"
                               ELSE IF target \in Privileges(d, r) THEN "T" ELSE "F"
EffectiveUserExempt(d, owner) == IF owner \in Bypass THEN "T" ELSE IF d.force THEN "F"
                                 ELSE InheritsPrivs(d, owner, d.owner)
RoleReads(d, r, owner, grants) ==
    IF r = owner \/ grants \cap {Public, r} # {} THEN "T" ELSE IF ~d.graph THEN "U"
    ELSE IF MaySelect(d, r, owner, grants) THEN "T" ELSE "F"
OwnerVerdict(d, owner) == TableVerdict(d, "anon", {owner}, LoginGucs(d), TRUE)
\* anon_leak_is_total of some policy an anonymous session certainly has.
AnonReadsEveryRow(d) ==
    \/ AnonSessionExempt(d, AnonRoles)
    \/ LET floors == {CheckedAst(r, "anon") : r \in {x \in Relevant(d, "anon", FALSE) :
                                          PolicyReach(d, x, AnonRoles) # "unreachable"}}
       IN  /\ Absent \notin floors
           /\ \E p \in Relevant(d, "anon", TRUE) :
                 /\ PolicyReach(d, p, AnonRoles) = "reachable" /\ p.using # Absent
                 /\ <<AllOf(p.using, floors), LoginGucs(d)>> \in TotalLeaks
DirectlyTotal(d) == AnonReadsEveryRow(d) /\ AnonHoldsSelect(d, d.owner, d.grants)

\* A path ends at the table as some effective owner: what it hands over is
\* "every row", "some" of them, "nothing", or "unknown".
\* An owner the policies bind reads what they leak to it, whole or in part.
OwnerReads(verdict, reads, whole) ==
    CASE verdict = "unverified" -> "unknown"
      [] verdict = "leak" -> IF reads = "U" THEN "unknown" ELSE IF whole THEN "every row" ELSE "some"
      [] OTHER -> "nothing"
PathTo(d, owner) ==
    LET reads == RoleReads(d, owner, d.owner, d.grants)
        exempt == EffectiveUserExempt(d, owner)
    IN  IF reads = "F" THEN "nothing"
        ELSE IF exempt = "U" \/ (exempt = "T" /\ reads = "U") THEN "unknown"
        ELSE IF exempt = "T" THEN "every row"
        ELSE OwnerReads(OwnerVerdict(d, owner), reads,
                        <<FirstLeak(d, "anon", {owner}, LoginGucs(d)), LoginGucs(d)>> \in WholeLeaks)
\* opener "" is the caller.
InnerPath(d, opener) ==
    LET v == d.views["inner"]
        readable == IF opener = "" THEN IF AnonHoldsSelect(d, v.owner, v.grants) THEN "T" ELSE "F"
                    ELSE RoleReads(d, opener, v.owner, v.grants)
    IN  IF readable = "F" THEN "nothing"
        ELSE IF v.mat \/ readable = "U" THEN "unknown"
        ELSE IF v.invoker THEN "nothing" ELSE PathTo(d, v.owner)
Path(d, v) ==
    IF v.mat \/ ~AnonHoldsSelect(d, v.owner, v.grants) THEN "nothing"
    ELSE IF v.ref = "inner" THEN InnerPath(d, IF v.invoker THEN "" ELSE v.owner)
    ELSE IF v.invoker THEN "nothing" ELSE PathTo(d, v.owner)
Widens(d, path, anon) ==
    IF ~d.rls \/ path = "nothing" THEN "absent"
    ELSE IF path = "unknown" \/ anon = "unverified" THEN "unverified"
    ELSE IF anon = "isolated" THEN "leak"
    ELSE IF DirectlyTotal(d) THEN "isolated"
    ELSE IF path = "some" /\ AnonHoldsSelect(d, d.owner, d.grants) THEN "unverified"
    ELSE "leak"
ReachVerdict(d, v) == Widens(d, Path(d, v), Verification(d, "anon"))

\* What a function's owner is to the table: exempt from its policies, or
\* granted rows by them ("T", "F" or "U").
Gained(verdict) == CASE verdict = "leak" -> "T" [] verdict = "isolated" -> "F" [] OTHER -> "U"
Launders(d, f) ==
    LET reads == RoleReads(d, f.owner, d.owner, d.grants) IN
    IF reads # "T" THEN reads ELSE Gained(OwnerVerdict(d, f.owner))
OpaqueCall(f) == f.body = "calls"
SetsParameters(f) == f.body = "sets"
Unseen(f) == f.body = "opaque" \/ OpaqueCall(f) \/ SetsParameters(f)
\* What the table's own verdict leaves for a function to add.
Beside(anon, total) == CASE anon \in {"isolated", "absent"} -> "leak"
                         [] anon = "leak" -> IF total THEN "isolated" ELSE "leak"
                         [] OTHER -> "unverified"
AnonRollup(d) == Beside(Verification(d, "anon"), DirectlyTotal(d))
Gives(d, f) == {EffectiveUserExempt(d, f.owner), Launders(d, f)}
Candidate(d, f, gives) ==
    /\ d.rls /\ (gives # {"F"} \/ Unseen(f))
    /\ f.execute \cap (AnonRoles \cup {Public} \cup
                          IF d.graph THEN ReachableRoles(d, AnonRoles) ELSE {}) # {}
Judged(d, f, gives) ==
    IF ~Candidate(d, f, gives) THEN "absent"
    ELSE IF f.body = "opaque" THEN "unverified"
    ELSE IF "T" \in gives
    THEN LET rollup == AnonRollup(d) IN
         IF Unseen(f) /\ rollup = "isolated" THEN "unverified" ELSE rollup
    ELSE IF "U" \in gives \/ Unseen(f) THEN "unverified" ELSE "absent"
FunctionVerdict(d, f) == Judged(d, f, Gives(d, f))
\* A role that can become an owner whom the policies do not bind: nothing new
\* where the first leak across tenants is of every row (total).
Escalates(tenants, total) == CASE tenants = "unverified" -> "unverified"
                               [] tenants = "leak" /\ total -> "isolated"
                               [] OTHER -> "leak"
OwnerEscalation(d) ==
    IF ~d.rls \/ d.force \/ OwnerReachers(d) = {} THEN "absent"
    ELSE Escalates(TableVerdict(d, "cross-tenant", AnonRoles, LoginGucs(d), FALSE),
                   FirstLeak(d, "cross-tenant", AnonRoles, LoginGucs(d)) \in ForeignLeaks)
-------------------------------------------------------------------------------
(* The gate of `verify --against`, run in every mode.                      *)

\* The verdicts of a database, by what they are keyed on.
Subjects == {"anon", "cross-tenant", "write", "owner", "function", "outer", "inner"}
Verdict(d, x) ==
    CASE x \in {"anon", "cross-tenant", "write"} -> Verification(d, x)
      [] x = "owner" -> OwnerEscalation(d)
      [] x = "function" -> IF d.fns = {} THEN "absent"
                           ELSE FunctionVerdict(d, CHOOSE f \in d.fns : TRUE)
      [] OTHER -> IF x \notin DOMAIN d.views THEN "absent" ELSE ReachVerdict(d, d.views[x])
Verdicts(d) == [x \in Subjects |-> Verdict(d, x)]
Settled == {"isolated", "absent"}
NoneWorse(x, refused) == \A k \in Subjects : x["base"][k] \in Settled => x["head"][k] \notin refused
Compared(b, h) == [side \in {"base", "head"} |-> Verdicts(IF side = "base" THEN b ELSE h)]
\* Mutant: the gate without --strict.
GateLenient(b, h) == NoneWorse(Compared(b, h), {"leak"})
\* diff_verifications and --strict: no new leak, nothing newly unverified.
GatePasses(b, h) == NoneWorse(Compared(b, h), {"leak", "unverified"})
Merge == /\ merges < MaxMerges /\ base # head /\ GatePasses(base, head)
         /\ base' = head /\ merges' = merges + 1 /\ UNCHANGED <<head, edits>>

\* The projects considered have settled every verdict before their first pull
\* request.
ASSUME CleanBases == \A d \in Bases : \A k \in Subjects : Verdict(d, k) \in Settled

Next == \/ \E n \in PolicyNames : DropPolicy(n) \/ \E p \in Policies : CreatePolicy(n, p)
        \/ \E on \in BOOLEAN : SetRls(on) \/ SetForce(on)
        \/ \E e \in Edges : GrantMembership(e)
        \/ \E r \in {"anon", "authenticator", "ALL"}, v \in Gucs : Configure(r, v)
        \/ \E n \in {"outer", "inner"}, v \in Views : CreateView(n, v)
        \/ \E f \in Bodies : CreateFunction(f)
        \/ \E r \in {"anon", "reporter"} : GrantSelect(r)
        \/ Merge
Spec == Init /\ [][Next]_vars
-------------------------------------------------------------------------------
(* Properties.                                                             *)

\* Memberships that a snapshot did not capture are taken for absent.  Without the
\* graph a verdict holds only if FORCE binds the members of the owner, the
\* anonymous roles have no privileges but their own, nobody else logs in as them,
\* and they own no view.
MembershipsKnown(d) ==
    d.graph \/ /\ d.force /\ LoginRoles(d) = SessionRoles
               /\ \A a \in SessionRoles : Privileges(d, a) = {a}
               /\ \A n \in DOMAIN d.views : d.views[n].owner \notin SessionRoles

\* When no mode reports or doubts anything, no anonymous request reads a row:
\* not from the table, not through a view or a chain of two, not through a
\* SECURITY DEFINER function, whatever login role it arrives by.
SaysIsolated(d) == \A k \in {"anon", "function", "outer", "inner"} :
                       Verdict(d, k) = IF k = "anon" THEN "isolated" ELSE "absent"
IsolatedMeansUnread ==
    TypeOK /\ (MembershipsKnown(head) /\ SaysIsolated(head) => AnonReads(head) = {})

\* The rows a tenant's requests touch under a proof across tenants are on the
\* requester's side of some axis the proof was made on.  The threat model's
\* requests have an identity: the statement leaves out one whose axis term is
\* NULL or unset, if the clause asks for that.  It also leaves out floors FOR ALL
\* and FOR UPDATE with a WITH CHECK only, which do not bind old rows though the
\* proof takes them to.
ProofClause(d, p, mode) == IF Prove(CheckedAst(p, mode), mode, {}) = "leak"
                           THEN Composed(d, p, mode) ELSE CheckedAst(p, mode)
ProvedClauses(d, mode) == {ProofClause(d, p, mode) : p \in Relevant(d, mode, TRUE)}
AsksForNull(c, term) == term \in NullTested(c) \/ Coalesce(term.of) \in OperandsOf(c)
OwnSide(c, s, w) ==
    /\ Cardinality(TenantPairs(c)) = 1
    /\ LET axis == TenantAxis(c)  identity == Read(axis[2].of, s) IN
       \/ w[axis[1].of] = identity
       \/ identity \in {Null, Raises} /\ AsksForNull(c, axis[2])
NewRowsOnly(p) == p.cmd \in {"ALL", "UPDATE"} /\ p.using = Absent /\ p.check # Absent
Touched(d, mode, r, s) ==
    IF mode = "cross-tenant" THEN Visible(d, r, s, "SELECT", "old")
    ELSE UNION {Visible(d, r, s, a[1], a[2]) :
                   a \in {<<"INSERT", "new">>, <<"UPDATE", "old">>, <<"UPDATE", "new">>,
                          <<"DELETE", "old">>}}
NoForeignRowTouched ==
    \A mode \in {"cross-tenant", "write"} :
        /\ Verification(head, mode) = "isolated"
        /\ mode = "write" => \A p \in Relevant(head, mode, FALSE) : ~NewRowsOnly(p)
        => \A r \in TenantRoles, s \in TenantRequests :
              \A w \in Touched(head, mode, r, s) :
                 \E c \in ProvedClauses(head, mode) : OwnSide(c, s, w)

\* A reported anonymous leak is real: some request reads some row, if it has
\* the grant.  Not so where a floor covers only some roles of the permissive
\* policy (it is left out of the proof) and for an atom whose encoding is wider
\* than the server's: a wrapped operand, a function that is not known to be NULL
\* without a JWT, the anon key's JWT, and a setting that raises where it is
\* unset, in a COALESCE or under IS NOT NULL.
WiderAtom(a) ==
    \/ \E o \in {a.l, a.r} :
          \/ o.is \in {"wrap", "wrapcall"} \/ o = Coalesce("setting_strict")
          \/ o.is \in Functions /\ o.of \notin AuthFunctions \cup {"setting_strict"}
          \/ o.is \in Functions /\ o.of = "auth.jwt" /\ a.op \notin {"isnull", "notnull"}
    \/ a.op = "notnull" /\ a.l.of = "setting_strict"
Wider(c) == \E a \in AtomsOf(c) : WiderAtom(a)
LeaksAreReal ==
    ( /\ Verification(head, "anon") = "leak" /\ head.graph
      /\ \A p \in Relevant(head, "anon", FALSE) : Public \in p.roles
      /\ \A n \in DOMAIN head.pol : ~Wider(head.pol[n].using) )
    => \E r \in SessionRoles : \E s \in AnonRequests(head) :
          Visible(head, r, s, "SELECT", "old") # {}

\* Pull requests that pass `verify --against --strict` in every mode, one after
\* the other, never make a row of a protected table readable to an anonymous
\* request.  Disabling row security passes: it drops the table from the
\* verification.
MergesKeepRowsHidden == base.rls /\ MembershipsKnown(base) => AnonReads(base) = {}
===============================================================================
