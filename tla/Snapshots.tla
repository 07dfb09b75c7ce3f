------------------------------- MODULE Snapshots -------------------------------
(***************************************************************************)
(* What lint reads without a database.  A snapshot file has the version of *)
(* the pgrls that wrote it; a field that version did not write reads as an *)
(* empty default.  A rule that needs the field is inert there: lint leaves *)
(* it out and says so.                                                     *)
(***************************************************************************)
EXTENDS ObjectRules

Versions == 3..27
\* The first versions that wrote a field.
TableSince == [details |-> 5, triggers |-> 6, indexes |-> 7, primary |-> 13, colgrants |-> 15,
               inherits |-> 17, fks |-> 20, pubs |-> 22]
ObjectSince == [views |-> 4, fns |-> 4, path |-> 8, bypass |-> 9, leakproof |-> 10, escalations |-> 11,
                execute |-> 16, defaults |-> 18, immutable |-> 19, reachers |-> 21, viewGrants |-> 23,
                foreign |-> 24]

From(v, since, full, empty) == IF v >= since THEN full ELSE empty
TableFromDict(t, v) ==
    [t EXCEPT
        !.nullable = From(v, TableSince.details, @, {}), !.uuid = From(v, TableSince.details, @, {}),
        !.triggers = From(v, TableSince.triggers, @, {}),
        !.indexes = From(v, TableSince.indexes,
                         {[i EXCEPT !.primary = v >= TableSince.primary /\ @] : i \in @}, {}),
        !.colgrants = From(v, TableSince.colgrants, @, {}),
        !.inherits = From(v, TableSince.inherits, @, {}), !.fks = From(v, TableSince.fks, @, {}),
        !.pubs = From(v, TableSince.pubs, @, {})]
ViewFromDict(w, v) == [w EXCEPT !.grants = From(v, ObjectSince.viewGrants, @, {})]
SecdefFromDict(f, v) ==
    [f EXCEPT !.path = From(v, ObjectSince.path, @, <<>>),
              !.execute = From(v, ObjectSince.execute, @, {}),
              !.bypass = v >= ObjectSince.execute /\ @]
\* The schema read back from a snapshot of db of version v.
FromSnapshot(db, v) ==
    [db EXCEPT
        !.tables = [t \in DOMAIN @ |-> TableFromDict(@[t], v)],
        !.views = From(v, ObjectSince.views, [w \in DOMAIN @ |-> ViewFromDict(@[w], v)], <<>>),
        !.fns = From(v, ObjectSince.fns, [f \in DOMAIN @ |-> SecdefFromDict(@[f], v)], <<>>),
        !.bypass = From(v, ObjectSince.bypass, @, {}),
        !.leakproof = From(v, ObjectSince.leakproof, @, {}),
        !.escalations = From(v, ObjectSince.escalations, @, {}),
        !.defaults = From(v, ObjectSince.defaults, @, {}),
        !.immutable = From(v, ObjectSince.immutable, @, <<>>),
        !.reachers = From(v, ObjectSince.reachers, @, {}),
        !.foreign = From(v, ObjectSince.foreign, @, <<>>)]

\* The rules that read what only a catalog has, with the first version that
\* writes all of it.
CatalogDependentRules ==
    [SEC013 |-> 6, SEC014 |-> 4, SEC015 |-> 8, SEC016 |-> 9, SEC017 |-> 10, SEC023 |-> 9,
     SEC029 |-> 11, SEC035 |-> 13, SEC041 |-> 8, SEC042 |-> 16, SEC043 |-> 17, SEC044 |-> 18,
     SEC046 |-> 19, SEC047 |-> 20, SEC048 |-> 21, SEC051 |-> 22, SEC052 |-> 23, SEC053 |-> 24,
     SEC054 |-> 23, PERF003 |-> 7, PERF004 |-> 7,
     VIEW001 |-> 4, VIEW002 |-> 4, VIEW003 |-> 4, VIEW004 |-> 4]
\* Mutant: a rule runs one version too early.
InertTooLate(source, v) ==
    IF source = "sql" THEN DOMAIN CatalogDependentRules
    ELSE {r \in DOMAIN CatalogDependentRules : v + 1 < CatalogDependentRules[r]}
\* source: "sql" (a migration's text, or a snapshot of one) or "snapshot".
InertRuleIds(source, v) ==
    IF source = "sql" THEN DOMAIN CatalogDependentRules
    ELSE {r \in DOMAIN CatalogDependentRules : v < CatalogDependentRules[r]}
===============================================================================
