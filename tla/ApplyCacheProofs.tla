-------------------------- MODULE ApplyCacheProofs --------------------------
(***************************************************************************)
(* What holds of the apply cache for any number of runs, baselines,        *)
(* migrations and versions of the base image: a run reports the schema it  *)
(* would have reported without the cache (HeadAsUncached).                 *)
(***************************************************************************)
EXTENDS ApplyCache, TLAPS

Versions == 1..baseTag
\* What the set-up of a diff makes of the base image.
Restored(j, v, disk) ==
    [version |-> v, roles |-> j.baseline.roles, extensions |-> Extensions(j),
     baseline |-> j.baseline, applied |-> <<>>, disk |-> disk]
\* The same before the baseline is restored.
Provisioned(j, v) ==
    [version |-> v, roles |-> j.baseline.roles, extensions |-> Extensions(j),
     baseline |-> None, applied |-> <<>>, disk |-> "torn"]
\* A container in which some of the files have been applied.
Partly(j, v, applied, disk) ==
    [version |-> v, roles |-> Uncached(j, v).roles, extensions |-> Uncached(j, v).extensions,
     baseline |-> j.baseline, applied |-> applied, disk |-> disk]
IsPrefix(s, t) == Len(s) \in 0..Len(t) /\ \A i \in 1..Len(s) : s[i] = t[i]
Midway(j, c) ==
    \E v \in Versions, applied \in Seq(Migrations), disk \in {"whole", "torn"} :
        /\ c = Partly(j, v, applied, disk) /\ IsPrefix(applied, j.files)
        /\ j.baseline = None \/ applied # <<>> => disk = "torn"

\* An image under a key is what the set-up makes for every job with that key.
ImagesOK == \A k \in DOMAIN images : \E j \in Diffs, v \in Versions :
                j.cached /\ k = CacheKey(j) /\ images[k] = Restored(j, v, "whole")

\* A container is as far as its run.
ContainerOK(r) ==
    LET j == job[r]  c == ctr[r] IN
    /\ pc[r] \in {"idle", "lookup", "boot"} => c = None
    /\ pc[r] = "prepare" => \E v \in Versions : c = Fresh(v)
    /\ pc[r] = "baseline" => IsDiff(r) /\ \E v \in Versions : c = Provisioned(j, v)
    /\ pc[r] = "checkpoint" => j.cached /\ \E v \in Versions : c = Restored(j, v, "torn")
    /\ pc[r] = "commit" => j.cached /\ \E v \in Versions : c = Restored(j, v, "whole")
    /\ pc[r] = "migrate" => Midway(j, c)
    /\ pc[r] \in {"introspect", "stop"} => c \in Database
    /\ pc[r] = "introspect" => \E v \in Versions : c = Uncached(j, v)

RunOK(r) ==
    /\ pc[r] = "idle" => job[r] = None /\ ~hit[r]
    /\ pc[r] # "idle" => job[r] \in Job
    /\ pc[r] = "lookup" \/ hit[r] => job[r].cached
    /\ pc[r] # "stop" => result[r] = None
    /\ pc[r] = "stop" => \/ result[r] = Error
                         \/ \E v \in Versions : result[r] = Uncached(job[r], v)

Shaped == /\ baseTag \in 1..MaxVersion
          /\ pc \in [Runs -> Steps] /\ hit \in [Runs -> BOOLEAN]
          /\ DOMAIN job = Runs /\ DOMAIN ctr = Runs /\ DOMAIN result = Runs
CacheInv == Shaped /\ ImagesOK /\ \A r \in Runs : RunOK(r) /\ ContainerOK(r)
-------------------------------------------------------------------------------
\* A diff has a baseline and one file.
LEMMA DiffShape ==
    ASSUME NEW j \in Diffs
    PROVE  /\ j.baseline \in Baselines /\ j.baseline # None /\ j.cached \in BOOLEAN
           /\ j.files \in Seq(Migrations) /\ Len(j.files) = 1
<1>1. j \in [baseline : Baselines, files : {<<g>> : g \in Migrations}, cached : Caching]
  BY DEF Diffs
<1>2. PICK g \in Migrations : j.files = <<g>>
  BY <1>1
<1>3. j.files \in Seq(Migrations) /\ Len(j.files) = 1
  BY <1>2
<1> QED
  BY <1>1, <1>3, CacheAssumption

\* A job is a diff, or a build, which has no baseline and uses no cache.
LEMMA JobShape ==
    ASSUME NEW j \in Job
    PROVE  /\ j.files \in Seq(Migrations) /\ j.cached \in BOOLEAN
           /\ j.baseline # None => /\ j \in Diffs /\ j.baseline \in Baselines
                                   /\ Len(j.files) = 1
           /\ j.baseline = None => ~j.cached
<1>1. CASE j \in Diffs
  BY <1>1, DiffShape
<1>2. CASE j \in [baseline : {None}, files : Builds, cached : {FALSE}]
  <2>1. j.baseline = None /\ j.files \in Builds /\ j.cached = FALSE
    BY <1>2
  <2> QED
    BY <2>1, CacheAssumption
<1> QED
  BY <1>1, <1>2 DEF Job

\* No file is applied at first.
LEMMA EmptySeq == <<>> \in Seq(Migrations)
OBVIOUS

\* The extensions of a job's files are extensions that migrations use.
LEMMA ExtensionsKnown ==
    ASSUME NEW j \in Diffs
    PROVE  Extensions(j) \in SUBSET UNION {b.extensions \cup UNION {g.uses : g \in Migrations}
                                             : b \in Baselines}
<1>1. j.files \in Seq(Migrations) /\ j.baseline \in Baselines
  BY DiffShape
<1>2. \A i \in DOMAIN j.files : j.files[i] \in Migrations
  BY <1>1
<1>3. Extensions(j) \subseteq UNION {g.uses : g \in Migrations}
  BY <1>2 DEF Extensions
<1> QED
  BY <1>1, <1>3

\* What a job makes of the base image is a database, at every stage.
LEMMA DatabasesMade ==
    ASSUME NEW j \in Job, NEW v \in 1..MaxVersion, NEW applied \in Seq(Migrations),
           NEW disk \in {"whole", "torn"}
    PROVE  /\ Partly(j, v, applied, disk) \in Database
           /\ Uncached(j, v) \in Database
           /\ j \in Diffs => Restored(j, v, disk) \in Database
                             /\ Provisioned(j, v) \in Database
           /\ Fresh(v) \in Database
<1>1. <<>> \in Seq(Migrations) /\ j.files \in Seq(Migrations)
  BY JobShape
<1>2. Uncached(j, v).extensions \in
          SUBSET UNION {b.extensions \cup UNION {g.uses : g \in Migrations} : b \in Baselines}
  BY JobShape, ExtensionsKnown DEF Uncached
<1>3. Uncached(j, v).roles \in {None} \cup {b.roles : b \in Baselines}
  BY JobShape DEF Uncached
<1>4. j.baseline \in Baselines \cup {None}
  BY JobShape
<1>5. Uncached(j, v) \in Database /\ Partly(j, v, applied, disk) \in Database
  BY <1>1, <1>2, <1>3, <1>4 DEF Uncached, Partly, Database
<1>6. ASSUME j \in Diffs
      PROVE  Restored(j, v, disk) \in Database /\ Provisioned(j, v) \in Database
  <2>1. j.baseline \in Baselines
    BY <1>6 DEF Diffs
  <2> QED
    BY <1>1, <2>1, <1>6, ExtensionsKnown DEF Restored, Provisioned, Database
<1>7. Fresh(v) \in Database
  BY <1>1 DEF Fresh, Database
<1> QED
  BY <1>5, <1>6, <1>7

\* The set-up of two jobs with one key makes one database, which is what a
\* container of either holds before its files.
LEMMA SameKey ==
    ASSUME NEW j \in Diffs, NEW k \in Diffs, CacheKey(j) = CacheKey(k), NEW v
    PROVE  Restored(k, v, "whole") = Partly(j, v, <<>>, "whole")
<1>1. j.baseline \in Baselines /\ k.baseline \in Baselines /\ j.baseline # None
  BY DiffShape
<1>2. j.baseline.id = k.baseline.id /\ Extensions(j) = Extensions(k)
  BY DEF CacheKey
<1>3. j.baseline = k.baseline
  BY <1>1, <1>2, CacheAssumption
<1>4. Uncached(j, v) = [version |-> v, roles |-> j.baseline.roles, extensions |-> Extensions(j),
                        baseline |-> j.baseline, applied |-> j.files, disk |-> "torn"]
  BY <1>1 DEF Uncached
<1>5. Partly(j, v, <<>>, "whole") =
          [version |-> v, roles |-> j.baseline.roles, extensions |-> Extensions(j),
           baseline |-> j.baseline, applied |-> <<>>, disk |-> "whole"]
  BY <1>4 DEF Partly
<1> QED
  BY <1>2, <1>3, <1>5 DEF Restored

\* Two databases that agree in every field are one.
LEMMA SameFields ==
    ASSUME NEW c \in Database, NEW d \in Database,
           c.version = d.version, c.roles = d.roles, c.extensions = d.extensions,
           c.baseline = d.baseline, c.applied = d.applied, c.disk = d.disk
    PROVE  c = d
BY DEF Database

\* What provisioning changes of a database.
LEMMA EditOfPrepare ==
    ASSUME NEW c \in Database, NEW x, NEW y, NEW e \in Database,
           e = [version |-> c.version, roles |-> x, extensions |-> y,
                baseline |-> c.baseline, applied |-> c.applied, disk |-> "torn"]
    PROVE  [c EXCEPT !.disk = "torn", !.roles = x, !.extensions = y] = e
<1> DEFINE d == [c EXCEPT !.disk = "torn", !.roles = x, !.extensions = y]
<1>1. x = e.roles /\ y = e.extensions
  OBVIOUS
<1>2. d \in Database
  BY <1>1 DEF Database
<1>3. /\ d.version = c.version /\ d.roles = x /\ d.extensions = y
      /\ d.baseline = c.baseline /\ d.applied = c.applied /\ d.disk = "torn"
  BY DEF Database
<1> QED
  BY <1>2, <1>3, SameFields

\* What a file changes of a database.
LEMMA EditOfMigrate ==
    ASSUME NEW c \in Database, NEW x, NEW e \in Database,
           e = [version |-> c.version, roles |-> c.roles, extensions |-> c.extensions,
                baseline |-> c.baseline, applied |-> x, disk |-> "torn"]
    PROVE  [c EXCEPT !.applied = x, !.disk = "torn"] = e
<1> DEFINE d == [c EXCEPT !.applied = x, !.disk = "torn"]
<1>1. x = e.applied
  OBVIOUS
<1>2. d \in Database
  BY <1>1 DEF Database
<1>3. /\ d.version = c.version /\ d.roles = c.roles /\ d.extensions = c.extensions
      /\ d.baseline = c.baseline /\ d.applied = x /\ d.disk = "torn"
  BY DEF Database
<1> QED
  BY <1>2, <1>3, SameFields

\* What a write, a checkpoint and the baseline change of a database.
LEMMA EditOfOne ==
    ASSUME NEW c \in Database, NEW x
    PROVE  /\ [c EXCEPT !.disk = x] =
                  [version |-> c.version, roles |-> c.roles, extensions |-> c.extensions,
                   baseline |-> c.baseline, applied |-> c.applied, disk |-> x]
           /\ [c EXCEPT !.baseline = x] =
                  [version |-> c.version, roles |-> c.roles, extensions |-> c.extensions,
                   baseline |-> x, applied |-> c.applied, disk |-> c.disk]
<1>1. [c EXCEPT !.disk = x] =
          [version |-> c.version, roles |-> c.roles, extensions |-> c.extensions,
           baseline |-> c.baseline, applied |-> c.applied, disk |-> x]
  BY DEF Database
<1>2. [c EXCEPT !.baseline = x] =
          [version |-> c.version, roles |-> c.roles, extensions |-> c.extensions,
           baseline |-> x, applied |-> c.applied, disk |-> c.disk]
  BY DEF Database
<1> QED
  BY <1>1, <1>2

\* A container that holds the whole of a job's files is what the job makes
\* without a cache.
LEMMA AllApplied ==
    ASSUME NEW j \in Job, NEW c, Midway(j, c), Len(c.applied) = Len(j.files)
    PROVE  \E v \in Versions : c = Uncached(j, v)
<1>1. PICK v \in Versions, applied \in Seq(Migrations), disk \in {"whole", "torn"} :
          /\ c = Partly(j, v, applied, disk) /\ IsPrefix(applied, j.files)
          /\ j.baseline = None \/ applied # <<>> => disk = "torn"
  BY DEF Midway
<1>2. c.applied = applied
  BY <1>1 DEF Partly, Uncached
<1>3. j.files \in Seq(Migrations)
  BY JobShape
<1>4. applied = j.files
  BY <1>1, <1>2, <1>3 DEF IsPrefix
<1>5. disk = "torn"
  <2>1. j.baseline # None => applied # <<>>
    BY SMTT(60), <1>4, JobShape
  <2> QED
    BY <1>1, <2>1
<1>6. c = Uncached(j, v)
  BY <1>1, <1>4, <1>5 DEF Partly, Uncached
<1> QED
  BY <1>6
-------------------------------------------------------------------------------
Untouched(q) == /\ pc'[q] = pc[q] /\ job'[q] = job[q] /\ hit'[q] = hit[q]
                /\ ctr'[q] = ctr[q] /\ result'[q] = result[q]

\* A step of others leaves a run as good as it was, also when the base tag
\* moves on.
LEMMA Framed ==
    ASSUME NEW q \in Runs, RunOK(q), ContainerOK(q), Untouched(q),
           Versions \subseteq Versions'
    PROVE  RunOK(q)' /\ ContainerOK(q)'
<1>1. RunOK(q)'
  BY DEF RunOK, Untouched
<1>2. ASSUME Midway(job[q], ctr[q]) PROVE Midway(job[q], ctr[q])'
  BY <1>2 DEF Midway, Untouched
<1>3. ContainerOK(q)'
  BY <1>2 DEF ContainerOK, Untouched, IsDiff
<1> QED
  BY <1>1, <1>3

\* A step of one run keeps the invariant if it keeps it of this run and of the
\* images.
LEMMA StepOfRun ==
    ASSUME CacheInv, NEW r \in Runs, Shaped', ImagesOK', RunOK(r)', ContainerOK(r)',
           baseTag' = baseTag, \A q \in Runs \ {r} : Untouched(q)
    PROVE  CacheInv'
<1>1. ASSUME NEW q \in Runs, q # r PROVE RunOK(q)' /\ ContainerOK(q)'
  BY <1>1, Framed DEF CacheInv, Versions
<1> QED
  BY <1>1 DEF CacheInv

\* At first no run has begun and there is no image.
LEMMA InitInv == Init => CacheInv
BY CacheAssumption DEF Init, CacheInv, Shaped, ImagesOK, RunOK, ContainerOK, Steps

\* A job begins without a container.
LEMMA StartInv ==
    ASSUME CacheInv, NEW r \in Runs, NEW j \in Job, Start(r, j)
    PROVE  CacheInv'
<1>1. RunOK(r) /\ ContainerOK(r) /\ Shaped /\ ImagesOK
  BY DEF CacheInv
<1>2. Shaped'
  BY <1>1 DEF Start, Goto, Shaped, Steps
<1>3. ImagesOK'
  BY <1>1 DEF Start, ImagesOK, Versions
<1>4. RunOK(r)'
  BY <1>1 DEF Start, At, Goto, Shaped, RunOK
<1>5. ContainerOK(r)'
  BY <1>1 DEF Start, At, Goto, Shaped, ContainerOK
<1>6. \A q \in Runs \ {r} : Untouched(q)
  BY <1>1 DEF Start, Goto, Shaped, Untouched
<1> QED
  BY <1>2, <1>3, <1>4, <1>5, <1>6, StepOfRun DEF Start

\* A hit is only of a job that uses the cache.
LEMMA LookupInv ==
    ASSUME CacheInv, NEW r \in Runs, Lookup(r)
    PROVE  CacheInv'
<1>1. RunOK(r) /\ ContainerOK(r) /\ Shaped /\ ImagesOK
  BY DEF CacheInv
<1>2. Shaped'
  BY <1>1 DEF Lookup, Goto, Shaped, Steps
<1>3. ImagesOK'
  BY <1>1 DEF Lookup, ImagesOK, Versions
<1>4. RunOK(r)'
  BY <1>1 DEF Lookup, At, Goto, Shaped, RunOK
<1>5. ContainerOK(r)'
  BY <1>1 DEF Lookup, At, Goto, Shaped, ContainerOK
<1>6. \A q \in Runs \ {r} : Untouched(q)
  BY <1>1 DEF Lookup, Goto, Shaped, Untouched
<1> QED
  BY <1>2, <1>3, <1>4, <1>5, <1>6, StepOfRun DEF Lookup

\* A container boots from an image that is what the set-up would have made, or
\* from the base image.
LEMMA BootInv ==
    ASSUME CacheInv, NEW r \in Runs, Boot(r)
    PROVE  CacheInv'
<1>1. RunOK(r) /\ ContainerOK(r) /\ Shaped /\ ImagesOK
  BY DEF CacheInv
<1>2. Shaped'
  BY <1>1 DEF Boot, Goto, Contains, Shaped, Steps
<1>3. ImagesOK'
  BY <1>1 DEF Boot, ImagesOK, Versions
<1>4. RunOK(r)'
  BY <1>1 DEF Boot, At, Goto, Shaped, RunOK
<1>5. ContainerOK(r)'
  <2>1. CASE hit[r]
    <3>1. job[r] \in Job /\ job[r].cached
      BY <2>1, <1>1 DEF Boot, At, RunOK
    <3>2. job[r] \in Diffs
      BY <3>1, JobShape
    <3>3. PICK k \in Diffs, v \in Versions :
             CacheKey(job[r]) = CacheKey(k) /\ images[CacheKey(job[r])] = Restored(k, v, "whole")
      BY <1>1, <2>1 DEF Boot, ImagesOK
    <3>4. images[CacheKey(job[r])] = Partly(job[r], v, <<>>, "whole")
      BY <3>2, <3>3, SameKey
    <3>5. <<>> \in Seq(Migrations) /\ IsPrefix(<<>>, job[r].files) /\ job[r].baseline # None
      BY <3>1, JobShape DEF IsPrefix
    <3>6. Midway(job[r], images[CacheKey(job[r])])
      BY <3>4, <3>5 DEF Midway
    <3>8. Midway(job[r], ctr[r])'
      BY <3>6, <2>1, <1>1 DEF Boot, Contains, Shaped, Midway, Versions
    <3> QED
      BY <3>8, <2>1, <1>1 DEF Boot, Goto, Shaped, ContainerOK
  <2>2. CASE ~hit[r]
    BY <2>2, <1>1, CacheAssumption DEF Boot, Goto, Contains, Shaped, ContainerOK, Versions
  <2> QED
    BY <2>1, <2>2
<1>6. \A q \in Runs \ {r} : Untouched(q)
  BY <1>1 DEF Boot, Goto, Contains, Shaped, Untouched
<1> QED
  BY <1>2, <1>3, <1>4, <1>5, <1>6, StepOfRun DEF Boot

\* A run that is over, or that ended or was killed early, leaves no container.
LEMMA EndsInv ==
    ASSUME CacheInv, NEW r \in Runs, BootFails(r) \/ Stop(r) \/ Kill(r)
    PROVE  CacheInv'
<1>1. RunOK(r) /\ ContainerOK(r) /\ Shaped /\ ImagesOK
  BY DEF CacheInv
<1>2. Shaped'
  <2>1. pc' = [pc EXCEPT ![r] = "idle"] /\ hit' = [hit EXCEPT ![r] = FALSE]
    BY DEF BootFails, Stop, Kill, Ends, Goto
  <2>2. pc' \in [Runs -> Steps] /\ hit' \in [Runs -> BOOLEAN]
    BY <2>1, <1>1 DEF Shaped, Steps
  <2>3. baseTag' = baseTag /\ DOMAIN job' = Runs /\ DOMAIN ctr' = Runs /\ DOMAIN result' = Runs
    BY <1>1 DEF BootFails, Stop, Kill, Ends, Contains, Shaped
  <2> QED
    BY <2>2, <2>3, <1>1 DEF Shaped
<1>3. ImagesOK'
  BY <1>1 DEF BootFails, Stop, Kill, Ends, ImagesOK, Versions
<1>4. RunOK(r)'
  BY <1>1 DEF BootFails, Stop, Kill, Ends, At, Goto, Shaped, RunOK
<1>5. ContainerOK(r)'
  BY <1>1 DEF BootFails, Stop, Kill, Ends, At, Goto, Contains, Shaped, ContainerOK
<1>6. \A q \in Runs \ {r} : Untouched(q)
  BY <1>1 DEF BootFails, Stop, Kill, Ends, Goto, Contains, Shaped, Untouched
<1> QED
  BY <1>2, <1>3, <1>4, <1>5, <1>6, StepOfRun DEF BootFails, Stop, Kill, Ends

\* A miss is provisioned first; a build goes on to its files.
LEMMA PrepareInv ==
    ASSUME CacheInv, NEW r \in Runs, Prepare(r)
    PROVE  CacheInv'
<1>1. RunOK(r) /\ ContainerOK(r) /\ Shaped /\ ImagesOK
  BY DEF CacheInv
<1>2. Shaped'
  BY <1>1 DEF Prepare, Goto, Contains, Shaped, Steps
<1>3. ImagesOK'
  BY <1>1 DEF Prepare, ImagesOK, Versions
<1>4. RunOK(r)'
  BY <1>1 DEF Prepare, At, Goto, Shaped, RunOK
<1>5. ContainerOK(r)'
  <2>1. job[r] \in Job
    BY <1>1 DEF Prepare, At, RunOK
  <2>2. PICK v \in Versions : ctr[r] = Fresh(v)
    BY <1>1 DEF Prepare, At, ContainerOK
  <2>6. v \in 1..MaxVersion
    BY <1>1, CacheAssumption DEF Shaped, Versions
  <2>5. ctr[r] \in Database
    BY <2>1, <2>2, <2>6, DatabasesMade, EmptySeq
  <2>3. CASE IsDiff(r)
    <3>1. ctr'[r] = [ctr[r] EXCEPT !.disk = "torn", !.roles = job[r].baseline.roles,
                                   !.extensions = Extensions(job[r])]
      BY <2>3, <1>1 DEF Prepare, Contains, Shaped
    <3>2. ctr'[r] = Provisioned(job[r], v)
      <4>1. Provisioned(job[r], v) \in Database
        BY <2>1, <2>3, <2>6, DatabasesMade, EmptySeq, JobShape DEF IsDiff
      <4>2. /\ ctr[r].version = v /\ ctr[r].baseline = None /\ ctr[r].applied = <<>>
        BY <2>2 DEF Fresh
      <4>3. Provisioned(job[r], v) =
               [version |-> ctr[r].version, roles |-> job[r].baseline.roles,
                extensions |-> Extensions(job[r]), baseline |-> ctr[r].baseline,
                applied |-> ctr[r].applied, disk |-> "torn"]
        BY <4>2 DEF Provisioned
      <4>4. [ctr[r] EXCEPT !.disk = "torn", !.roles = job[r].baseline.roles,
                           !.extensions = Extensions(job[r])] = Provisioned(job[r], v)
        BY <4>1, <4>3, <2>5, EditOfPrepare
      <4> QED
        BY <4>4, <3>1
    <3>3. Provisioned(job[r], v) = Provisioned(job[r], v)'
      BY <1>1 DEF Prepare, Provisioned, Extensions
    <3> QED
      BY <3>2, <3>3, <2>3, <1>1 DEF Prepare, Goto, Shaped, ContainerOK, IsDiff, Versions
  <2>4. CASE ~IsDiff(r)
    <3>0. ctr'[r] = [ctr[r] EXCEPT !.disk = "torn"]
      BY <2>4, <1>1 DEF Prepare, Contains, Shaped
    <3>1. ctr'[r] = Partly(job[r], v, <<>>, "torn")
      <4>1. ctr'[r] = [version |-> ctr[r].version, roles |-> ctr[r].roles,
                       extensions |-> ctr[r].extensions, baseline |-> ctr[r].baseline,
                       applied |-> ctr[r].applied, disk |-> "torn"]
        BY <2>5, <3>0, EditOfOne
      <4>2. Uncached(job[r], v).roles = None /\ Uncached(job[r], v).extensions = {}
        BY <2>4 DEF IsDiff, Uncached
      <4>3. job[r].baseline = None
        BY <2>4 DEF IsDiff
      <4> QED
        BY <4>1, <4>2, <4>3, <2>2 DEF Fresh, Partly
    <3>2. <<>> \in Seq(Migrations) /\ IsPrefix(<<>>, job[r].files)
      BY <2>1, JobShape DEF IsPrefix
    <3>3. Midway(job[r], ctr'[r])
      BY <3>1, <3>2 DEF Midway
    <3>4. Midway(job[r], ctr[r])'
      BY <3>3, <1>1 DEF Prepare, Midway, Versions
    <3> QED
      BY <3>4, <2>4, <1>1 DEF Prepare, Goto, Shaped, ContainerOK
  <2> QED
    BY <2>3, <2>4
<1>6. \A q \in Runs \ {r} : Untouched(q)
  BY <1>1 DEF Prepare, Goto, Contains, Shaped, Untouched
<1> QED
  BY <1>2, <1>3, <1>4, <1>5, <1>6, StepOfRun DEF Prepare

\* The baseline completes the set-up of a diff.
LEMMA RestoreInv ==
    ASSUME CacheInv, NEW r \in Runs, RestoreBaseline(r)
    PROVE  CacheInv'
<1>1. RunOK(r) /\ ContainerOK(r) /\ Shaped /\ ImagesOK
  BY DEF CacheInv
<1>2. Shaped'
  BY <1>1 DEF RestoreBaseline, Goto, Contains, Shaped, Steps
<1>3. ImagesOK'
  BY <1>1 DEF RestoreBaseline, ImagesOK, Versions
<1>4. RunOK(r)'
  BY <1>1 DEF RestoreBaseline, At, Goto, Shaped, RunOK
<1>5. ContainerOK(r)'
  <2>1. job[r] \in Job /\ job[r].baseline # None
    BY <1>1 DEF RestoreBaseline, At, RunOK, ContainerOK, IsDiff
  <2>2. PICK v \in Versions : ctr[r] = Provisioned(job[r], v)
    BY <1>1 DEF RestoreBaseline, At, ContainerOK
  <2>8. v \in 1..MaxVersion /\ job[r] \in Diffs
    BY <2>1, <1>1, CacheAssumption, JobShape DEF Shaped, Versions
  <2>6. ctr[r] \in Database
    BY <2>1, <2>2, <2>8, DatabasesMade, EmptySeq
  <2>7. ctr'[r] = [ctr[r] EXCEPT !.baseline = job[r].baseline]
    BY <1>1 DEF RestoreBaseline, Contains, Shaped
  <2>3. ctr'[r] = Restored(job[r], v, "torn")
    <3>1. ctr'[r] = [version |-> ctr[r].version, roles |-> ctr[r].roles,
                     extensions |-> ctr[r].extensions, baseline |-> job[r].baseline,
                     applied |-> ctr[r].applied, disk |-> ctr[r].disk]
      BY <2>6, <2>7, EditOfOne
    <3> QED
      BY <3>1, <2>2 DEF Provisioned, Restored
  <2>4. CASE job[r].cached
    BY ZenonT(60), <2>3, <2>4, <1>1 DEF RestoreBaseline, Goto, Shaped, ContainerOK, Versions, Restored, Extensions
  <2>5. CASE ~job[r].cached
    <3>1. ctr'[r] = Partly(job[r], v, <<>>, "torn")
      BY <2>1, <2>3 DEF Restored, Partly, Uncached
    <3>2. <<>> \in Seq(Migrations) /\ IsPrefix(<<>>, job[r].files)
      BY <2>1, JobShape DEF IsPrefix
    <3>3. Midway(job[r], ctr'[r])
      BY <3>1, <3>2 DEF Midway
    <3>4. Midway(job[r], ctr[r])'
      BY <3>3, <1>1 DEF RestoreBaseline, Midway, Versions
    <3> QED
      BY <3>4, <2>5, <1>1 DEF RestoreBaseline, Goto, Shaped, ContainerOK
  <2> QED
    BY <2>4, <2>5
<1>6. \A q \in Runs \ {r} : Untouched(q)
  BY <1>1 DEF RestoreBaseline, Goto, Contains, Shaped, Untouched
<1> QED
  BY <1>2, <1>3, <1>4, <1>5, <1>6, StepOfRun DEF RestoreBaseline

\* The base tag has only named versions there are.
LEMMA VersionsKnown == ASSUME Shaped PROVE Versions \subseteq 1..MaxVersion
BY CacheAssumption DEF Shaped, Versions

\* Once it has a container, a run has a database.
LEMMA ContainerKnown ==
    ASSUME CacheInv, NEW r \in Runs, pc[r] \notin {"idle", "lookup", "boot"}
    PROVE  ctr[r] \in Database
<1>1. RunOK(r) /\ ContainerOK(r) /\ Versions \subseteq 1..MaxVersion
  BY VersionsKnown DEF CacheInv
<1>2. pc[r] \in Steps /\ job[r] \in Job
  BY <1>1 DEF CacheInv, Shaped, RunOK
<1>3. CASE pc[r] = "prepare"
  BY <1>1, <1>2, <1>3, DatabasesMade, EmptySeq DEF ContainerOK
<1>4. CASE pc[r] = "baseline"
  <2>1. job[r] \in Diffs
    BY <1>1, <1>2, <1>4, JobShape DEF ContainerOK, IsDiff
  <2> QED
    BY <2>1, <1>1, <1>2, <1>4, DatabasesMade, EmptySeq DEF ContainerOK
<1>5. CASE pc[r] \in {"checkpoint", "commit"}
  <2>1. job[r] \in Diffs
    BY <1>1, <1>2, <1>5, JobShape DEF ContainerOK
  <2> QED
    BY <2>1, <1>1, <1>2, <1>5, DatabasesMade, EmptySeq DEF ContainerOK
<1>6. CASE pc[r] = "migrate"
  <2>1. Midway(job[r], ctr[r])
    BY <1>1, <1>6 DEF ContainerOK
  <2> QED
    BY <2>1, <1>1, <1>2, DatabasesMade DEF Midway
<1>7. CASE pc[r] \in {"introspect", "stop"}
  BY <1>1, <1>7 DEF ContainerOK
<1> QED
  BY <1>2, <1>3, <1>4, <1>5, <1>6, <1>7 DEF Steps

\* A checkpoint makes the disk whole.
LEMMA CheckpointInv ==
    ASSUME CacheInv, NEW r \in Runs, Checkpoint(r)
    PROVE  CacheInv'
<1>1. RunOK(r) /\ ContainerOK(r) /\ Shaped /\ ImagesOK
  BY DEF CacheInv
<1>2. Shaped'
  BY <1>1 DEF Checkpoint, Goto, Contains, Shaped, Steps
<1>3. ImagesOK'
  BY <1>1 DEF Checkpoint, ImagesOK, Versions
<1>4. RunOK(r)'
  BY <1>1 DEF Checkpoint, At, Goto, Shaped, RunOK
<1>5. ContainerOK(r)'
  <2>1. PICK v \in Versions : ctr[r] = Restored(job[r], v, "torn")
    BY <1>1 DEF Checkpoint, At, ContainerOK
  <2>2. ctr[r] \in Database
    BY ContainerKnown DEF Checkpoint, At
  <2>3. ctr'[r] = [ctr[r] EXCEPT !.disk = "whole"]
    BY <1>1 DEF Checkpoint, Contains, Shaped
  <2>4. ctr'[r] = Restored(job[r], v, "whole")
    <3>1. ctr'[r] = [version |-> ctr[r].version, roles |-> ctr[r].roles,
                     extensions |-> ctr[r].extensions, baseline |-> ctr[r].baseline,
                     applied |-> ctr[r].applied, disk |-> "whole"]
      BY <2>2, <2>3, EditOfOne
    <3> QED
      BY <3>1, <2>1 DEF Restored
  <2>5. job[r].cached
    BY <1>1 DEF Checkpoint, At, ContainerOK
  <2> QED
    BY ZenonT(60), <2>4, <2>5, <1>1 DEF Checkpoint, Goto, Shaped, ContainerOK, Versions, Restored, Extensions
<1>6. \A q \in Runs \ {r} : Untouched(q)
  BY <1>1 DEF Checkpoint, Goto, Contains, Shaped, Untouched
<1> QED
  BY <1>2, <1>3, <1>4, <1>5, <1>6, StepOfRun DEF Checkpoint

\* What is committed is what the set-up made, under the key of its job.
LEMMA CommitInv ==
    ASSUME CacheInv, NEW r \in Runs, Commit(r)
    PROVE  CacheInv'
<1>1. RunOK(r) /\ ContainerOK(r) /\ Shaped /\ ImagesOK
  BY DEF CacheInv
<1>2. Shaped'
  BY <1>1 DEF Commit, Goto, Shaped, Steps
<1>3. ImagesOK'
  <2>1. PICK v \in Versions : ctr[r] = Restored(job[r], v, "whole")
    BY <1>1 DEF Commit, At, ContainerOK
  <2>2. job[r] \in Diffs /\ job[r].cached
    BY <1>1, JobShape DEF Commit, At, RunOK, ContainerOK
  <2>3. ASSUME NEW k \in DOMAIN images'
        PROVE  \E j \in Diffs, w \in Versions :
                  j.cached /\ k = CacheKey(j) /\ images'[k] = Restored(j, w, "whole")
    <3>1. CASE images' = images
      BY <3>1, <2>3, <1>1 DEF ImagesOK
    <3>2. CASE images' = [i \in DOMAIN images \cup {CacheKey(job[r])} |->
                             IF i = CacheKey(job[r]) THEN ctr[r] ELSE images[i]]
      <4>1. CASE k = CacheKey(job[r])
        BY <4>1, <3>2, <2>1, <2>2
      <4>2. CASE k # CacheKey(job[r])
        BY <4>2, <3>2, <2>3, <1>1 DEF ImagesOK
      <4> QED
        BY <4>1, <4>2
    <3> QED
      BY <3>1, <3>2 DEF Commit
  <2>4. Versions' = Versions
    BY DEF Commit, Versions
  <2> QED
    BY <2>3, <2>4 DEF ImagesOK
<1>4. RunOK(r)'
  BY <1>1 DEF Commit, At, Goto, Shaped, RunOK
<1>5. ContainerOK(r)'
  <2>1. PICK v \in Versions : ctr[r] = Restored(job[r], v, "whole")
    BY <1>1 DEF Commit, At, ContainerOK
  <2>2. job[r] \in Diffs
    BY <1>1, JobShape DEF Commit, At, RunOK, ContainerOK
  <2>3. ctr[r] = Partly(job[r], v, <<>>, "whole")
    BY <2>1, <2>2, SameKey
  <2>4. <<>> \in Seq(Migrations) /\ IsPrefix(<<>>, job[r].files) /\ job[r].baseline # None
    BY <2>2, DiffShape DEF IsPrefix
  <2>5. Midway(job[r], ctr[r])
    BY <2>3, <2>4 DEF Midway
  <2>6. Midway(job[r], ctr[r])'
    BY <2>5 DEF Commit, Midway, Versions
  <2> QED
    BY <2>6, <1>1 DEF Commit, Goto, Shaped, ContainerOK
<1>6. \A q \in Runs \ {r} : Untouched(q)
  BY <1>1 DEF Commit, Goto, Shaped, Untouched
<1> QED
  BY <1>2, <1>3, <1>4, <1>5, <1>6, StepOfRun DEF Commit

\* A file extends what has been applied; after the last, the schema is complete.
LEMMA MigrateInv ==
    ASSUME CacheInv, NEW r \in Runs, Migrate(r)
    PROVE  CacheInv'
<1>1. RunOK(r) /\ ContainerOK(r) /\ Shaped /\ ImagesOK
  BY DEF CacheInv
<1>2. Shaped'
  BY <1>1 DEF Migrate, Goto, Contains, Shaped, Steps
<1>3. ImagesOK'
  BY <1>1 DEF Migrate, ImagesOK, Versions
<1>4. RunOK(r)'
  BY <1>1 DEF Migrate, At, Goto, Shaped, RunOK
<1>5. ContainerOK(r)'
  <2>1. Midway(job[r], ctr[r]) /\ job[r] \in Job /\ ctr[r] \in Database
    BY <1>1, ContainerKnown DEF Migrate, At, ContainerOK, RunOK
  <2>2. CASE Len(ctr[r].applied) = Len(job[r].files)
    <3>1. PICK v \in Versions : ctr[r] = Uncached(job[r], v)
      BY <2>1, <2>2, AllApplied
    <3>2. /\ ctr'[r] = ctr[r] /\ pc'[r] = "introspect" /\ job'[r] = job[r] /\ baseTag' = baseTag
      BY <2>2, <1>1 DEF Migrate, Goto, Shaped
    <3>3. \E w \in Versions' : ctr'[r] = Uncached(job'[r], w)
      BY <3>1, <3>2 DEF Versions
    <3> QED
      BY <2>1, <3>2, <3>3 DEF ContainerOK
  <2>3. CASE Len(ctr[r].applied) # Len(job[r].files)
    <3>1. PICK v \in Versions, applied \in Seq(Migrations), disk \in {"whole", "torn"} :
             ctr[r] = Partly(job[r], v, applied, disk) /\ IsPrefix(applied, job[r].files)
      BY <2>1 DEF Midway
    <3> DEFINE next == job[r].files[Len(applied) + 1]
               after == Append(applied, next)
    <3>2. job[r].files \in Seq(Migrations) /\ ctr[r].applied = applied
      BY <2>1, <3>1, JobShape DEF Partly
    <3>3. next \in Migrations
      BY <2>3, <3>1, <3>2 DEF IsPrefix
    <3>4. after \in Seq(Migrations) /\ IsPrefix(after, job[r].files)
      BY <2>3, <3>1, <3>2, <3>3 DEF IsPrefix
    <3>5. ctr'[r] = [ctr[r] EXCEPT !.applied = after, !.disk = "torn"]
      BY <2>3, <3>2, <1>1 DEF Migrate, Contains, Shaped
    <3>6. Partly(job[r], v, after, "torn") \in Database
      BY <2>1, <3>4, <1>1, VersionsKnown, DatabasesMade
    <3>7. Partly(job[r], v, after, "torn") =
             [version |-> ctr[r].version, roles |-> ctr[r].roles,
              extensions |-> ctr[r].extensions, baseline |-> ctr[r].baseline,
              applied |-> after, disk |-> "torn"]
      BY <3>1 DEF Partly
    <3>8. [ctr[r] EXCEPT !.applied = after, !.disk = "torn"] = Partly(job[r], v, after, "torn")
      BY <3>6, <3>7, <2>1, EditOfMigrate
    <3>9. Midway(job[r], ctr'[r])
      BY <3>4, <3>5, <3>8 DEF Midway
    <3>10. Midway(job[r], ctr[r])'
      BY <3>9, <1>1 DEF Migrate, Midway, Versions
    <3> QED
      BY <3>10, <2>3, <1>1 DEF Migrate, At, Goto, Shaped, ContainerOK
  <2> QED
    BY <2>2, <2>3
<1>6. \A q \in Runs \ {r} : Untouched(q)
  BY <1>1 DEF Migrate, Goto, Contains, Shaped, Untouched
<1> QED
  BY <1>2, <1>3, <1>4, <1>5, <1>6, StepOfRun DEF Migrate

\* The result is what the container holds.
LEMMA IntrospectInv ==
    ASSUME CacheInv, NEW r \in Runs, Introspect(r)
    PROVE  CacheInv'
<1>1. RunOK(r) /\ ContainerOK(r) /\ Shaped /\ ImagesOK
  BY DEF CacheInv
<1>2. Shaped'
  BY <1>1 DEF Introspect, Goto, Shaped, Steps
<1>3. ImagesOK'
  BY <1>1 DEF Introspect, ImagesOK, Versions
<1>4. RunOK(r)'
  <2>1. PICK v \in Versions : ctr[r] = Uncached(job[r], v)
    BY <1>1 DEF Introspect, At, ContainerOK
  <2>2. /\ result'[r] = ctr[r] /\ pc'[r] = "stop" /\ job'[r] = job[r] /\ hit'[r] = hit[r]
        /\ baseTag' = baseTag /\ pc[r] = "introspect"
    BY <1>1 DEF Introspect, At, Goto, Shaped
  <2>3. \E w \in Versions' : result'[r] = Uncached(job'[r], w)
    BY <2>1, <2>2 DEF Versions
  <2> QED
    BY <2>2, <2>3, <1>1 DEF RunOK
<1>5. ContainerOK(r)'
  <2>1. ctr[r] \in Database
    BY ContainerKnown DEF Introspect, At
  <2> QED
    BY <2>1, <1>1 DEF Introspect, Goto, Shaped, ContainerOK
<1>6. \A q \in Runs \ {r} : Untouched(q)
  BY <1>1 DEF Introspect, Goto, Shaped, Untouched
<1> QED
  BY <1>2, <1>3, <1>4, <1>5, <1>6, StepOfRun DEF Introspect

\* A step that fails leaves the container to the teardown.
LEMMA StepFailsInv ==
    ASSUME CacheInv, NEW r \in Runs, StepFails(r)
    PROVE  CacheInv'
<1>1. RunOK(r) /\ ContainerOK(r) /\ Shaped /\ ImagesOK
  BY DEF CacheInv
<1>2. Shaped'
  BY <1>1 DEF StepFails, Fails, Goto, Shaped, Steps
<1>3. ImagesOK'
  BY <1>1 DEF StepFails, Fails, ImagesOK, Versions
<1>4. RunOK(r)'
  BY <1>1 DEF StepFails, Working, Fails, Goto, Shaped, RunOK
<1>5. ContainerOK(r)'
  <2>1. ctr[r] \in Database
    BY ContainerKnown DEF StepFails, Working
  <2> QED
    BY <2>1, <1>1 DEF StepFails, Fails, Goto, Shaped, ContainerOK
<1>6. \A q \in Runs \ {r} : Untouched(q)
  BY <1>1 DEF StepFails, Fails, Goto, Shaped, Untouched
<1> QED
  BY <1>2, <1>3, <1>4, <1>5, <1>6, StepOfRun DEF StepFails, Fails

\* Others on the host may prune the images and move the base tag on.
LEMMA OthersInv ==
    ASSUME CacheInv, Prune \/ PullBase
    PROVE  CacheInv'
<1>1. Shaped /\ ImagesOK /\ \A r \in Runs : RunOK(r) /\ ContainerOK(r)
  BY DEF CacheInv
<1>2. Shaped'
  BY <1>1, CacheAssumption DEF Shaped, Prune, PullBase
<1>3. Versions \subseteq Versions'
  BY <1>1, CacheAssumption DEF Shaped, Versions, Prune, PullBase
<1>4. ImagesOK'
  <2>1. CASE images' = images
    BY <2>1, <1>1, <1>3 DEF ImagesOK
  <2>2. CASE images' = <<>>
    BY <2>2 DEF ImagesOK
  <2> QED
    BY <2>1, <2>2 DEF Prune, PullBase
<1>5. ASSUME NEW q \in Runs PROVE RunOK(q)' /\ ContainerOK(q)'
  <2>1. Untouched(q)
    BY DEF Prune, PullBase, Untouched
  <2> QED
    BY <2>1, <1>1, <1>3, Framed
<1> QED
  BY <1>2, <1>4, <1>5 DEF CacheInv

\* Every step keeps the invariant.
LEMMA NextInv == ASSUME CacheInv, [Next]_vars PROVE CacheInv'
<1>1. ASSUME NEW r \in Runs, RunSteps(r) PROVE CacheInv'
  BY <1>1, LookupInv, BootInv, EndsInv, PrepareInv, RestoreInv, CheckpointInv, CommitInv,
     MigrateInv, IntrospectInv, StepFailsInv DEF RunSteps
<1>2. ASSUME NEW r \in Runs, Kill(r) PROVE CacheInv'
  BY <1>2, EndsInv
<1>3. ASSUME NEW r \in Runs, NEW j \in Job, Start(r, j) PROVE CacheInv'
  BY <1>3, StartInv
<1>4. CASE Prune \/ PullBase
  BY <1>4, OthersInv
<1>5. CASE UNCHANGED vars
  <2>1. Shaped' /\ ImagesOK' /\ Versions \subseteq Versions'
    BY <1>5 DEF vars, CacheInv, Shaped, ImagesOK, Versions
  <2>2. ASSUME NEW q \in Runs PROVE RunOK(q)' /\ ContainerOK(q)'
    BY <2>1, <1>5, Framed DEF CacheInv, vars, Untouched
  <2> QED
    BY <2>1, <2>2 DEF CacheInv
<1> QED
  BY <1>1, <1>2, <1>3, <1>4, <1>5 DEF Next
-------------------------------------------------------------------------------
\* The invariant: an image under a key is what the set-up makes for any job
\* with that key, and a container is as far as its run, through commits that
\* fail, prunes, kills and a base tag that moves.
THEOREM CacheInvariant == Spec => []CacheInv
<1>1. Init => CacheInv
  BY InitInv
<1>2. CacheInv /\ [Next]_vars => CacheInv'
  BY NextInv
<1> QED
  BY <1>1, <1>2, PTL DEF Spec

\* The invariant bounds every field.
LEMMA Typed == ASSUME CacheInv PROVE TypeOK
<1>1. Shaped /\ ImagesOK /\ Versions \subseteq 1..MaxVersion
  BY VersionsKnown DEF CacheInv
<1>2. ASSUME NEW k \in DOMAIN images PROVE images[k] \in Database
  <2>1. PICK j \in Diffs, v \in Versions : images[k] = Restored(j, v, "whole")
    BY <1>1, <1>2 DEF ImagesOK
  <2> QED
    BY <2>1, <1>1, DatabasesMade, EmptySeq DEF Job
<1>3. ASSUME NEW r \in Runs
      PROVE  /\ job[r] \in Job \cup {None} /\ ctr[r] \in Database \cup {None}
             /\ result[r] \in Database \cup {None, Error}
  <2>1. RunOK(r) /\ ContainerOK(r)
    BY DEF CacheInv
  <2>2. job[r] \in Job \cup {None}
    BY <2>1 DEF RunOK
  <2>3. ctr[r] \in Database \cup {None}
    BY <2>1, ContainerKnown DEF ContainerOK
  <2>4. result[r] \in Database \cup {None, Error}
    <3>1. CASE pc[r] = "stop"
      <4>1. job[r] \in Job
        BY <3>1, <2>1 DEF RunOK
      <4>2. result[r] = Error \/ \E v \in Versions : result[r] = Uncached(job[r], v)
        BY <3>1, <2>1 DEF RunOK
      <4> QED
        BY <4>1, <4>2, <1>1, DatabasesMade, EmptySeq
    <3>2. CASE pc[r] # "stop"
      BY <3>2, <2>1 DEF RunOK
    <3> QED
      BY <3>1, <3>2
  <2> QED
    BY <2>2, <2>3, <2>4
<1> QED
  BY <1>1, <1>2, <1>3 DEF TypeOK, Shaped

\* A run reports the schema it would have reported without the cache, on a
\* version the base tag has had, whatever other runs, failed commits and prunes
\* do; and no image is torn.
THEOREM HeadIsUncached == Spec => []HeadAsUncached
<1>1. CacheInv => HeadAsUncached
  <2> SUFFICES ASSUME CacheInv PROVE HeadAsUncached
    OBVIOUS
  <2>1. ASSUME NEW r \in Runs, result[r] \notin {None, Error}
        PROVE  \E v \in 1..baseTag : result[r] = Uncached(job[r], v)
    BY <2>1 DEF CacheInv, RunOK, Versions
  <2>2. ASSUME NEW k \in DOMAIN images PROVE images[k].disk = "whole"
    BY <2>2 DEF CacheInv, ImagesOK, Restored
  <2> QED
    BY <2>1, <2>2, Typed DEF HeadAsUncached
<1> QED
  BY <1>1, CacheInvariant, PTL
===============================================================================
