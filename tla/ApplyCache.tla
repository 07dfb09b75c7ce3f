----------------------------- MODULE ApplyCache -----------------------------
(***************************************************************************)
(* The two commands that build a schema in a throw-away PostgreSQL:        *)
(* `pgrls diff --apply`, which keeps the restored baseline as a Docker     *)
(* image for the next run, and the build from migration files, which has   *)
(* no cache.  Several runs share one Docker daemon; images are pruned and  *)
(* pulled meanwhile, and every step may fail.                              *)
(***************************************************************************)
EXTENDS Naturals, Sequences, FiniteSets

CONSTANTS Runs,          \* processes
          Baselines,     \* rendered baselines; a record says what it needs
          Migrations,    \* records [extensions, breaksOn]
          Builds,        \* sequences of migration files
          None, Error,
          Caching,       \* whether a diff may use the cache: PGRLS_DIFF_APPLY_NO_CACHE
          MaxVersion     \* bound: images the base tag has pointed at

\* roles: those its policies and grants name; extensions: those it uses.
ASSUME CacheAssumption ==
    /\ \A b \in Baselines : DOMAIN b = {"id", "roles", "extensions"}
    /\ \A b, c \in Baselines : b.id = c.id => b = c
    /\ \A g \in Migrations : DOMAIN g = {"id", "uses"}
    /\ None \notin Baselines /\ Builds \subseteq Seq(Migrations)
    /\ MaxVersion \in Nat \ {0} /\ Caching \subseteq BOOLEAN

VARIABLES baseTag,    \* the image the base image's tag names now
          images,     \* the cached images, by key
          pc, job, hit, ctr,
          result      \* what a run returned
vars == <<baseTag, images, pc, job, hit, ctr, result>>

\* The database in a container or image.  disk: "whole" if what is on disk is.
Database == [version : 1..MaxVersion, roles : {None} \cup {b.roles : b \in Baselines},
             extensions : SUBSET UNION {b.extensions \cup UNION {g.uses : g \in Migrations}
                                          : b \in Baselines},
             baseline : Baselines \cup {None},
             applied : Seq(Migrations), disk : {"whole", "torn"}]
Fresh(v) == [version |-> v, roles |-> None, extensions |-> {}, baseline |-> None,
             applied |-> <<>>, disk |-> "whole"]
\* A diff names a baseline, one migration file and the extensions that its
\* text creates or that flags name, which the baseline needs too; a build, a
\* sequence of files.
Diffs == {j \in [baseline : Baselines, files : {<<g>> : g \in Migrations}, cached : Caching] :
             j.baseline.extensions \subseteq j.files[1].uses}
Job == Diffs \cup [baseline : {None}, files : Builds, cached : {FALSE}]
IsDiff(r) == job[r].baseline # None
Extensions(j) == UNION {g.uses : g \in {j.files[i] : i \in DOMAIN j.files}}

\* Mutant: the key leaves out the extensions.
KeyOfBaseline(j) == <<j.baseline.id, j.baseline.roles>>
\* compute_cache_key; the text of the baseline stands for its id, and the
\* base image's tag, the same for all runs, is left out.
CacheKey(j) == <<j.baseline.id, j.baseline.roles, Extensions(j)>>

Steps == {"idle", "lookup", "boot", "prepare", "baseline", "checkpoint", "commit",
          "migrate", "introspect", "stop"}
TypeOK == /\ baseTag \in 1..MaxVersion
          /\ \A k \in DOMAIN images : images[k] \in Database
          /\ pc \in [Runs -> Steps] /\ hit \in [Runs -> BOOLEAN]
          /\ \A r \in Runs : /\ job[r] \in Job \cup {None}
                             /\ ctr[r] \in Database \cup {None}
                             /\ result[r] \in Database \cup {None, Error}
Init == /\ baseTag = 1 /\ images = <<>>
        /\ pc = [r \in Runs |-> "idle"] /\ job = [r \in Runs |-> None]
        /\ hit = [r \in Runs |-> FALSE] /\ ctr = [r \in Runs |-> None]
        /\ result = [r \in Runs |-> None]
-------------------------------------------------------------------------------
Goto(r, step) == pc' = [pc EXCEPT ![r] = step]
At(r, step) == pc[r] = step
Contains(r, db) == ctr' = [ctr EXCEPT ![r] = db]
\* An error leaves the `with container` block: only the teardown remains.
Fails(r) == /\ Goto(r, "stop") /\ result' = [result EXCEPT ![r] = Error]
            /\ UNCHANGED <<baseTag, images, job, hit, ctr>>

Start(r, j) == /\ At(r, "idle") /\ job' = [job EXCEPT ![r] = j]
               /\ Goto(r, IF j.cached THEN "lookup" ELSE "boot")
               /\ UNCHANGED <<baseTag, images, hit, ctr, result>>

\* image_exists: an error of the daemon is a miss.
Lookup(r) == /\ At(r, "lookup")
             /\ \E answered \in BOOLEAN :
                   hit' = [hit EXCEPT ![r] = answered /\ CacheKey(job[r]) \in DOMAIN images]
             /\ Goto(r, "boot")
             /\ UNCHANGED <<baseTag, images, job, ctr, result>>

\* The run is over; result was its answer.
Ends(r) == /\ Goto(r, "idle") /\ job' = [job EXCEPT ![r] = None]
           /\ result' = [result EXCEPT ![r] = None] /\ hit' = [hit EXCEPT ![r] = FALSE]

\* The container boots from the cached image or from the base image.
Boot(r) == /\ At(r, "boot")
           /\ hit[r] => CacheKey(job[r]) \in DOMAIN images
           /\ Contains(r, IF hit[r] THEN images[CacheKey(job[r])] ELSE Fresh(baseTag))
           /\ Goto(r, IF hit[r] THEN "migrate" ELSE "prepare")
           /\ UNCHANGED <<baseTag, images, job, hit, result>>
\* The image was pruned, or the daemon fails: there is no container to stop.
BootFails(r) == At(r, "boot") /\ Ends(r) /\ UNCHANGED <<baseTag, images, ctr>>

\* The set-up of a miss, in the order of the code: roles and extensions, then
\* the baseline.  A build provisions the roles it is told to and nothing else.
Prepare(r) ==
    /\ At(r, "prepare")
    /\ Contains(r, IF IsDiff(r)
                   THEN [ctr[r] EXCEPT !.disk = "torn", !.roles = job[r].baseline.roles,
                                       !.extensions = Extensions(job[r])]
                   ELSE [ctr[r] EXCEPT !.disk = "torn"])
    /\ Goto(r, IF IsDiff(r) THEN "baseline" ELSE "migrate")
    /\ UNCHANGED <<baseTag, images, job, hit, result>>
\* The baseline's statements need its extensions.
RestoreBaseline(r) ==
    /\ At(r, "baseline") /\ job[r].baseline.extensions \subseteq ctr[r].extensions
    /\ Contains(r, [ctr[r] EXCEPT !.baseline = job[r].baseline])
    /\ Goto(r, IF job[r].cached THEN "checkpoint" ELSE "migrate")
    /\ UNCHANGED <<baseTag, images, job, hit, result>>
\* Mutant: the image is taken without a checkpoint.
NoCheckpoint(r) == /\ At(r, "checkpoint") /\ Goto(r, "commit")
                   /\ UNCHANGED <<baseTag, images, job, hit, ctr, result>>
Checkpoint(r) == /\ At(r, "checkpoint") /\ Contains(r, [ctr[r] EXCEPT !.disk = "whole"])
                 /\ Goto(r, "commit")
                 /\ UNCHANGED <<baseTag, images, job, hit, result>>
\* commit_baseline: an error is swallowed.
Commit(r) == /\ At(r, "commit") /\ Goto(r, "migrate")
             /\ \/ images' = [k \in DOMAIN images \cup {CacheKey(job[r])} |->
                                 IF k = CacheKey(job[r]) THEN ctr[r] ELSE images[k]]
                \/ UNCHANGED images
             /\ UNCHANGED <<baseTag, job, hit, ctr, result>>

\* The next file.  It runs as one transaction; a build runs a file with a
\* statement that cannot, such as CREATE INDEX CONCURRENTLY, by statements.
\* A migration may create the extensions it uses, or rely on flags for them.
Migrate(r) ==
    LET next == job[r].files[Len(ctr[r].applied) + 1] IN
    /\ At(r, "migrate")
    /\ IF Len(ctr[r].applied) = Len(job[r].files) THEN Goto(r, "introspect") /\ UNCHANGED ctr
       ELSE /\ IsDiff(r) => next.uses \subseteq ctr[r].extensions
            /\ Contains(r, [ctr[r] EXCEPT !.applied = Append(@, next), !.disk = "torn"])
            /\ UNCHANGED pc
    /\ UNCHANGED <<baseTag, images, job, hit, result>>
\* introspect() on a new connection.
Introspect(r) == /\ At(r, "introspect") /\ result' = [result EXCEPT ![r] = ctr[r]]
                 /\ Goto(r, "stop")
                 /\ UNCHANGED <<baseTag, images, job, hit, ctr>>
Working == {"prepare", "baseline", "checkpoint", "migrate", "introspect"}
StepFails(r) == pc[r] \in Working /\ Fails(r)

\* Mutant: an error leaves without the teardown.
StopOnSuccess(r) == /\ At(r, "stop") /\ Ends(r) /\ UNCHANGED <<baseTag, images>>
                    /\ IF result[r] = Error THEN UNCHANGED ctr ELSE Contains(r, None)
\* The context manager, or the finally block, removes the container.
Stop(r) == At(r, "stop") /\ Ends(r) /\ Contains(r, None) /\ UNCHANGED <<baseTag, images>>
\* The process is killed; Docker's reaper removes the container.
Kill(r) == /\ pc[r] # "idle" /\ Ends(r) /\ Contains(r, None) /\ UNCHANGED <<baseTag, images>>
-------------------------------------------------------------------------------
(* Others on the same host.                                                *)
Prune == /\ DOMAIN images # {} /\ images' = <<>>
         /\ UNCHANGED <<baseTag, pc, job, hit, ctr, result>>
PullBase == /\ baseTag < MaxVersion /\ baseTag' = baseTag + 1
            /\ UNCHANGED <<images, pc, job, hit, ctr, result>>

RunSteps(r) == \/ Lookup(r) \/ Boot(r) \/ BootFails(r) \/ Prepare(r)
               \/ RestoreBaseline(r) \/ Checkpoint(r) \/ Commit(r)
               \/ Migrate(r) \/ Introspect(r) \/ StepFails(r) \/ Stop(r)
Next == \/ \E r \in Runs : \/ RunSteps(r) \/ Kill(r)
                           \/ \E j \in Job : Start(r, j)
        \/ Prune \/ PullBase
Spec == Init /\ [][Next]_vars
FairSpec == Spec /\ \A r \in Runs : WF_vars(RunSteps(r))
-------------------------------------------------------------------------------
(* Properties.                                                             *)

\* What a run without a cache makes of the job on an image of version v.
Uncached(j, v) ==
    [version |-> v, roles |-> IF j.baseline = None THEN None ELSE j.baseline.roles,
     extensions |-> IF j.baseline = None THEN {} ELSE Extensions(j),
     baseline |-> j.baseline, applied |-> j.files, disk |-> "torn"]

\* The schema a run reports is the one it would have reported without the
\* cache, on some version the base tag has had: no partial, torn or foreign
\* image is ever used, whatever the other runs, failed commits and prunes do.
HeadAsUncached ==
    /\ TypeOK
    /\ \A r \in Runs : result[r] \notin {None, Error} =>
          \E v \in 1..baseTag : result[r] = Uncached(job[r], v)
    /\ \A k \in DOMAIN images : images[k].disk = "whole"

\* Every run ends, and once it has its container is gone.
RunsEnd == \A r \in Runs : []<>(pc[r] = "idle" /\ ctr[r] = None)
===============================================================================
