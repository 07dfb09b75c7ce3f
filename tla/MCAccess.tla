------------------------------ MODULE MCAccess ------------------------------
EXTENDS Access, Sequences

MCRoles == {"alice", "team", "app", "svc", "root", "dumper"}
MCClauses == {"plain", "mine", "shared"}
\* "mine" is read as current_user, "shared" by a sub-select.
MCClauseRows ==
    [x \in MCClauses \X (MCRoles \cup {Public}) \X (MCRoles \cup {Public}) |->
        CASE x[1] = "plain" -> {1}
          [] x[1] = "mine" -> IF x[2] \in {"alice", "team"} THEN {1} ELSE {2}
          [] x[1] = "shared" -> IF x[3] = "alice" THEN {1} ELSE IF x[3] = "app" THEN {1, 2} ELSE {}]

P(cmd, permissive, role, using, check) ==
    [cmd |-> cmd, permissive |-> permissive, roles |-> {role}, using |-> using, check |-> check]
MCTable(grants, rls, force, policies, parent, declarative, fks, triggers) ==
    [owner |-> "app", grants |-> grants, rls |-> rls, force |-> force, policies |-> policies,
     parent |-> parent, declarative |-> declarative, fks |-> fks, triggers |-> triggers]
V(owner, invoker, mat, ref, grants, updatable, known) ==
    [owner |-> owner, invoker |-> invoker, mat |-> mat, ref |-> ref, grants |-> grants,
     updatable |-> updatable, known |-> known]
F(owner, execute, trigger, touches, hidden, sets) ==
    [owner |-> owner, execute |-> execute, trigger |-> trigger, touches |-> touches,
     hidden |-> hidden, sets |-> sets]
Fk(del, upd) == [ref |-> "docs", on_delete |-> del, on_update |-> upd]
Tr(cmd, row, timing) == [cmd |-> cmd, row |-> row, timing |-> timing, fn |-> "audit"]
Rule(rel, cmd, instead, touches) ==
    [name |-> rel \o " rule", rel |-> rel, cmd |-> cmd, instead |-> instead, touches |-> touches]
To2(role, cmds) == {role} \X cmds
Writing == {"INSERT", "UPDATE", "DELETE"}
None == <<>>

\* What each part of a catalogue may be; the first is the default.
Graphs == <<TRUE, FALSE>>
Policies == <<{P("SELECT", TRUE, Public, "plain", Absent)},
              {P("ALL", TRUE, "team", "mine", Absent), P("SELECT", TRUE, "svc", Open, Absent)},
              {P("ALL", TRUE, Public, Open, "plain"), P("ALL", FALSE, "alice", "mine", Absent)},
              {P("ALL", TRUE, Public, "shared", Absent), P("INSERT", FALSE, Public, Absent, "plain")}>>
Grants == <<{}, To2("alice", {"SELECT"}), To2("team", Writing \cup {"TRUNCATE"}),
            To2(Public, {"DELETE", "INSERT"})>>
Forced == <<FALSE, TRUE>>
Parts == <<MCTable({}, TRUE, FALSE, {}, "docs", TRUE, {}, {}),
           MCTable(To2("team", Commands), TRUE, TRUE, {P("ALL", TRUE, Public, "mine", Absent)},
                 "docs", TRUE, {}, {}),
           MCTable({}, TRUE, TRUE, {P("ALL", TRUE, Public, "plain", Absent)}, "docs", FALSE, {}, {})>>
Items == <<MCTable({}, TRUE, TRUE, {P("ALL", TRUE, Public, "mine", Absent)}, Unset, FALSE, {}, {}),
           MCTable({}, TRUE, FALSE, {}, Unset, FALSE, {Fk("CASCADE", "SET NULL")}, {}),
           MCTable(To2("team", {"TRUNCATE", "SELECT"}), TRUE, FALSE,
                 {P("ALL", TRUE, Public, "mine", Absent)}, Unset, FALSE, {Fk("NO ACTION", "CASCADE")}, {}),
           MCTable({}, TRUE, FALSE, {}, Unset, FALSE, {Fk("SET NULL", "NO ACTION")},
                 {Tr("UPDATE", FALSE, "AFTER")})>>
v1(owner, invoker, mat, grants, known) == V(owner, invoker, mat, "docs", grants, Writing, known)
Inner(owner, invoker, mat) == v1(owner, invoker, mat, To2("app", {"SELECT", "UPDATE"}), TRUE)
ViewSets ==
    <<None,
      [x \in {"v"} |-> v1("app", FALSE, FALSE, To2("alice", {"SELECT", "UPDATE"}), TRUE)],
      [x \in {"v"} |-> v1("svc", TRUE, FALSE, To2(Public, Commands), TRUE)],
      [x \in {"v", "w"} |-> IF x = "v" THEN Inner("svc", TRUE, FALSE)
                            ELSE V("app", FALSE, FALSE, "v", To2("alice", {"SELECT", "UPDATE"}), Writing, TRUE)],
      [x \in {"v", "w"} |-> IF x = "v" THEN Inner("root", FALSE, FALSE)
                            ELSE V("app", FALSE, FALSE, "v", To2("alice", {"SELECT", "UPDATE"}), Writing, TRUE)],
      [x \in {"v", "w"} |-> IF x = "v" THEN Inner("app", FALSE, TRUE)
                            ELSE V("app", FALSE, FALSE, "v", To2("alice", {"SELECT"}), {}, TRUE)],
      [x \in {"v"} |-> v1("dumper", FALSE, FALSE, To2("team", {"DELETE"}), FALSE)]>>
Fn(f) == [x \in {"f"} |-> f]
Functions ==
    <<None, Fn(F("svc", {"team"}, FALSE, {<<"docs", "SELECT">>}, {}, FALSE)),
      Fn(F("app", {"team"}, FALSE, {<<"items", "SELECT">>, <<"docs", "INSERT">>}, {}, TRUE)),
      Fn(F("svc", {Public}, FALSE, {}, {<<"items", "DELETE">>}, FALSE)),
      Fn(F("app", {"alice"}, FALSE, {<<"docs", "TRUNCATE_CASCADE">>}, {}, FALSE)),
      Fn(F("app", {"alice"}, FALSE, {<<"docs", "TRUNCATE">>}, {}, FALSE)),
      Fn(F("svc", {"alice"}, FALSE, {<<"v", "SELECT">>}, {}, FALSE))>>
Audits == <<F("svc", {}, TRUE, {<<"items", "UPDATE">>}, {}, FALSE),
            F("app", {}, TRUE, {<<"items", "INSERT">>}, {}, TRUE),
            F("app", {}, TRUE, {}, {<<"items", "SELECT">>}, FALSE)>>
Triggers == <<{}, {Tr("INSERT", TRUE, "BEFORE")}, {Tr("DELETE", TRUE, "AFTER")},
              {Tr("UPDATE", FALSE, "AFTER")}, {Tr("TRUNCATE", FALSE, "AFTER")}>>
Rules == <<{}, {Rule("docs", "INSERT", FALSE, {<<"items", "INSERT">>})},
           {Rule("docs", "DELETE", TRUE, {<<"items", "UPDATE">>})},
           {Rule("v", "UPDATE", TRUE, {<<"docs", "UPDATE">>})}>>

\* Items "svc" holds grants on; a catalogue whose statements name a view has it.
SvcItems == To2("svc", {"SELECT", "UPDATE", "DELETE"})
Catalogue(n) ==
    [graph |-> Graphs[n[1]], edges |-> {<<"alice", "team">>},
     tables |-> [t \in {"docs", "part", "items"} |->
        CASE t = "docs" -> MCTable(Grants[n[3]] \cup To2("svc", {"SELECT", "INSERT"})
                                 \cup To2("dumper", {"DELETE"}), TRUE, Forced[n[4]],
                                 Policies[n[2]], Unset, FALSE, {}, Triggers[n[10]])
          [] t = "part" -> Parts[n[5]]
          [] t = "items" -> LET x == Items[n[6]] IN
               [x EXCEPT !.grants = @ \cup SvcItems,
                         \* the catalog has a foreign key to each partition
                         !.fks = @ \cup IF Parts[n[5]].declarative
                                        THEN {[fk EXCEPT !.ref = "part"] : fk \in @} ELSE {}]],
     views |-> ViewSets[n[7]],
     fns |-> Functions[n[8]] @@ [x \in {"audit"} |-> Audits[n[9]]],
     rules |-> Rules[n[11]]]
Sizes == <<2, 4, 4, 2, 3, 4, 7, 7, 3, 5, 4>>
\* A statement that names the view needs it, and a materialized view has no rule.
Valid(n) == (n[8] = 7 \/ n[11] = 4 => n[7] # 1) /\ (n[11] = 4 => n[7] # 6)
\* Catalogues that differ from the default in at most two parts.
Picks(k) == {n \in UNION {[d -> 2..7] : d \in {e \in SUBSET (1..11) : Cardinality(e) <= k}} :
                \A i \in DOMAIN n : n[i] <= Sizes[i]}
Full(n) == [i \in 1..11 |-> IF i \in DOMAIN n THEN n[i] ELSE 1]
MCCatalogues == {Catalogue(n) : n \in {m \in {Full(x) : x \in Picks(2)} : Valid(m)}}
===============================================================================
