---------------------------- MODULE FileJobStore ----------------------------
(***************************************************************************)
(* The file job store (fileJobStore.ts): a cache of at most maxCacheSize   *)
(* jobs over one JSON file per job.  Operations are synchronous, so each   *)
(* is a step.  An operation on a job that is not cached reads its file     *)
(* first, which may push out another job, or the very job just read; the   *)
(* operation then works on an object the cache no longer has.              *)
(*                                                                         *)
(* A file is replaced by renaming a temporary file, so a crash leaves the  *)
(* old content or the new one, and a crash with the following start of the *)
(* server is the single step Restart.  Writes succeed.                     *)
(***************************************************************************)
EXTENDS Integers, FiniteSets, Functions

CONSTANTS JobIds, Accounts, JobStatus, AccountStatus, Times, NoJob,
    MaxCacheSize

VARIABLES
    disk,           \* the file of each job id, NoJob where there is none
    cache,          \* the cached jobs: a function on some of the ids
    reply           \* what the last call returned

fileVars == <<disk, cache, reply>>

\* The operations of the interface on the contents of the files: the file store
\* uses the same helpers as the in-memory store.
Abstract == INSTANCE JobStore WITH jobs <- disk

Job == Abstract!Job

ASSUME FileJobStoreAssumption ==
    /\ MaxCacheSize \in Nat \ {0}
    /\ IsFiniteSet(JobIds)
    /\ NoJob \notin Job
    /\ Times \subseteq Nat
    /\ "queued" \in JobStatus \cap AccountStatus
    /\ "none" \notin AccountStatus

FileTypeOK ==
    /\ disk \in [JobIds -> Job \cup {NoJob}]
    /\ DOMAIN cache \subseteq JobIds
    /\ \A id \in DOMAIN cache : cache[id] \in Job
    /\ reply \in Abstract!Reply

OnDisk == {id \in JobIds : disk[id] # NoJob}

-----------------------------------------------------------------------------
(* The cache.                                                              *)

CacheSet(c, id, job) == [i \in DOMAIN c \cup {id} |-> IF i = id THEN job ELSE c[i]]

\* What evictOldest may leave of a cache: the newest jobs.  Jobs of one instant
\* go in the order they were cached, which the model leaves open.
EvictOldest(c) ==
    IF Cardinality(DOMAIN c) <= MaxCacheSize
    THEN {c}
    ELSE {Restrict(c, keep) : keep \in
             {k \in SUBSET DOMAIN c :
                 /\ Cardinality(k) = MaxCacheSize
                 /\ \A i \in k, o \in DOMAIN c \ k : c[o].createdAt <= c[i].createdAt}}

\* The caches after a job was looked up that the disk has: getMutableJob, getJob.
AfterLookup(id) ==
    IF id \in DOMAIN cache THEN {cache} ELSE EvictOldest(CacheSet(cache, id, disk[id]))

\* The object a look-up returns, cached or read from disk.
Found(id) == IF id \in DOMAIN cache THEN cache[id] ELSE disk[id]

\* Nothing finds the job, in the cache or on disk.
Missing(id) == id \notin DOMAIN cache /\ disk[id] = NoJob

\* The object found is changed in place: in the cache too if that still has it.
UpdateInPlace(c, id, job) == IF id \in DOMAIN c THEN CacheSet(c, id, job) ELSE c

\* persist(job): the file is written and renamed, and the call returns.
Persist(id, job) ==
    /\ disk' = [disk EXCEPT ![id] = job]
    /\ reply' = Abstract!Answer(<< <<id, job>> >>)

-----------------------------------------------------------------------------
(* The operations.                                                         *)

FileInit ==
    /\ Abstract!Init
    /\ cache = [id \in {} |-> NoJob]

CreateJob(id, accts, t) ==
    LET job == Abstract!CreatedJob(accts, t)
    IN  /\ Missing(id)
        /\ Persist(id, job)
        /\ cache' \in EvictOldest(CacheSet(cache, id, job))

GetJob(id) ==
    /\ IF Missing(id) THEN UNCHANGED cache ELSE cache' \in AfterLookup(id)
    /\ reply' = Abstract!Answer(IF Missing(id) THEN <<>> ELSE << <<id, Found(id)>> >>)
    /\ UNCHANGED disk

\* Mutation: jobs pushed out of the cache are forgotten.
ListJobsCached ==
    /\ \E s \in Abstract!NewestFirst({<<id, cache[id]>> : id \in DOMAIN cache}) :
          reply' = Abstract!Answer(s)
    /\ UNCHANGED <<disk, cache>>

\* The cached jobs, and the files of the others, sorted as they were found.
ListJobs ==
    /\ \E s \in Abstract!NewestFirst({<<id, Found(id)>> : id \in DOMAIN cache \cup OnDisk}) :
          reply' = Abstract!Answer(s)
    /\ UNCHANGED <<disk, cache>>

MutateMissing(id) ==
    /\ Missing(id)
    /\ reply' = Abstract!Thrown
    /\ UNCHANGED <<disk, cache>>

Mutate(id, job) ==
    /\ ~Missing(id)
    /\ \E c \in AfterLookup(id) : cache' = UpdateInPlace(c, id, job)
    /\ Persist(id, job)

MarkJob(id, s) == Mutate(id, Abstract!JobMarked(Found(id), s))

MarkAccount(id, a, s) ==
    /\ ~Missing(id) /\ Abstract!AccountInJob(Found(id), a)
    /\ Mutate(id, Abstract!AccountMarked(Found(id), a, s))

LogAccountStep(id, a) ==
    /\ ~Missing(id) /\ Abstract!AccountInJob(Found(id), a)
    /\ Mutate(id, Found(id))

\* The account is not part of the job: the call throws after the look-up.
MutateStranger(id, a) ==
    /\ ~Missing(id) /\ ~Abstract!AccountInJob(Found(id), a)
    /\ cache' \in AfterLookup(id)
    /\ reply' = Abstract!Thrown
    /\ UNCHANGED disk

\* loadExistingJobs fills the cache in the order of the file names, which are
\* random ids.
Restart ==
    /\ \E keep \in SUBSET OnDisk :
          /\ \/ Cardinality(keep) = MaxCacheSize
             \/ Cardinality(keep) < MaxCacheSize /\ keep = OnDisk
          /\ cache' = Restrict(disk, keep)
    /\ UNCHANGED <<disk, reply>>

-----------------------------------------------------------------------------
FileNext ==
    \/ ListJobs
    \/ \E id \in JobIds :
          \/ \E accts \in SUBSET Accounts, t \in Times : CreateJob(id, accts, t)
          \/ GetJob(id)
          \/ MutateMissing(id)
          \/ \E s \in JobStatus : MarkJob(id, s)
          \/ \E a \in Accounts :
                \/ \E s \in AccountStatus : MarkAccount(id, a, s)
                \/ LogAccountStep(id, a)
                \/ MutateStranger(id, a)
    \/ Restart

FileSpec == FileInit /\ [][FileNext]_fileVars

-----------------------------------------------------------------------------
(* Properties.                                                             *)

\* fileJobStore.ts: the store "writes through to disk on every mutation".  What
\* the cache has is what the disk has.
WriteThrough == \A id \in DOMAIN cache : cache[id] = disk[id]

\* The cache never outgrows its limit, whichever operation fills it.
CacheBounded == Cardinality(DOMAIN cache) <= MaxCacheSize

\* Callers cannot tell the store from one map that lists the newest job first:
\* evictions, reloads and restarts neither lose an update, nor answer with an old
\* job, nor list a job twice or out of order.
ImplementsJobStore == Abstract!Spec
=============================================================================
