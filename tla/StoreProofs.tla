----------------------------- MODULE StoreProofs ----------------------------
(***************************************************************************)
(* The two file stores of the server: safety of the work items, for any    *)
(* jobs, accounts, workers, lease, retry delay and clock; and the file job *)
(* store implements the job store, for any jobs, accounts, statuses and    *)
(* cache size.                                                             *)
(*                                                                         *)
(* The store of work items treats items one at a time, so the inductive    *)
(* invariant is a statement about one item, ItemInv, that every transition *)
(* of WorkItems preserves; the actions of the store then apply transitions *)
(* to items.  For the jobs the argument rests on one fact: a cached job is *)
(* what its file holds.  Then a look-up finds what the disk has, whether   *)
(* it hits or misses the cache, and every operation does to the disk what  *)
(* the operation of JobStore does to the map.                              *)
(***************************************************************************)
EXTENDS WorkItemQueue, FileJobStore, FiniteSetTheorems, TLAPS

-----------------------------------------------------------------------------
(* Work items.                                                              *)

ItemInv(item) ==
    /\ item \in WorkItem
    /\ item.attempt <= item.maxAttempts
    /\ item.status \in LeaseFrom => item.attempt < item.maxAttempts
    /\ item.workerId # NoWorker <=> item.status \in HeldItem
    /\ item.leaseExpiresAt # NoTime => item.status \in HeldItem
    /\ item.status = "leased" => item.leaseExpiresAt # NoTime

ItemsInv ==
    /\ DOMAIN items = ItemId
    /\ items = [i \in ItemId |-> items[i]]
    /\ \A i \in ItemId : ItemInv(items[i])
    /\ now \in Nat

-----------------------------------------------------------------------------
(* The transitions preserve ItemInv.                                       *)

\* A created item satisfies the item invariant: the maximum is at least one.
LEMMA CreateKeepsItemInv ==
    ASSUME NEW max \in Int, NEW t \in Nat
    PROVE  ItemInv(CreateWorkItem(max, t))
  <1>1. (IF max > 1 THEN max ELSE 1) \in Nat \ {0}
    OBVIOUS
  <1>2. CreateWorkItem(max, t) \in WorkItem
    BY <1>1 DEF CreateWorkItem, AbsentItem, WorkItem, ItemStatus, OptionalTime
  <1>3. QED
    BY <1>1, <1>2 DEF ItemInv, CreateWorkItem, AbsentItem, LeaseFrom, HeldItem

\* Leasing a claimable item uses up one of the attempts it has left.
LEMMA LeaseKeepsItemInv ==
    ASSUME NEW item, ItemInv(item), item.status \in LeaseFrom,
           NEW w \in WorkerIds, NEW t \in Nat
    PROVE  ItemInv(TransitionToLeased(item, w, t))
  <1>1. t + LeaseMs \in Nat /\ w # NoWorker
    BY WorkItemsAssumption
  <1>2. item.attempt + 1 \in Nat /\ item.attempt + 1 <= item.maxAttempts
    BY DEF ItemInv, WorkItem
  <1>3. TransitionToLeased(item, w, t) \in WorkItem
    BY <1>1, <1>2 DEF ItemInv, TransitionToLeased, WorkItem, ItemStatus, OptionalTime
  <1>4. QED
    BY <1>1, <1>2, <1>3
    DEF ItemInv, WorkItem, TransitionToLeased, NoTime, LeaseFrom, HeldItem

\* Running an item leaves its attempts and its lease as they are.
LEMMA RunKeepsItemInv ==
    ASSUME NEW item, ItemInv(item), item.status \in RunFrom, NEW w \in WorkerIds
    PROVE  ItemInv(TransitionToRunning(item, w))
  BY WorkItemsAssumption
  DEF ItemInv, TransitionToRunning, WorkItem, ItemStatus, LeaseFrom, HeldItem

\* Finishing an item clears its worker and its lease.
LEMMA DoneKeepsItemInv ==
    ASSUME NEW item, ItemInv(item), NEW s \in {"succeeded", "skipped", "cancelled"}
    PROVE  ItemInv(TransitionToDone(item, s))
  BY DEF ItemInv, TransitionToDone, WorkItem, ItemStatus, OptionalTime, LeaseFrom, HeldItem

\* A failure is retried only while an attempt is left.
LEMMA FailKeepsItemInv ==
    ASSUME NEW item, ItemInv(item), NEW retryable \in BOOLEAN, NEW t \in Nat
    PROVE  ItemInv(TransitionToFailed(item, retryable, t))
  <1>1. t + RetryDelayMs \in Nat
    BY WorkItemsAssumption
  <1>2. CASE retryable /\ item.attempt < item.maxAttempts
    BY <1>1, <1>2
    DEF ItemInv, TransitionToFailed, WorkItem, ItemStatus, OptionalTime, NoTime, LeaseFrom, HeldItem
  <1>3. CASE ~ (retryable /\ item.attempt < item.maxAttempts)
    BY <1>3
    DEF ItemInv, TransitionToFailed, WorkItem, ItemStatus, OptionalTime, NoTime, LeaseFrom, HeldItem
  <1>4. QED
    BY <1>2, <1>3

\* An expired lease gives the item back, or abandons it at its last attempt.
LEMMA ReleaseKeepsItemInv ==
    ASSUME NEW item, ItemInv(item), NEW t \in Nat
    PROVE  ItemInv(ReleaseIfExpired(item, t))
  BY DEF ItemInv, ReleaseIfExpired, LeaseExpired, WorkItem, ItemStatus, OptionalTime, NoTime,
         LeaseFrom, HeldItem

\* A requeued item starts over with no attempt used.
LEMMA RequeueKeepsItemInv ==
    ASSUME NEW item, ItemInv(item)
    PROVE  ItemInv(TransitionToRequeued(item))
  <1>1. TransitionToRequeued(item) \in WorkItem
    BY DEF ItemInv, TransitionToRequeued, WorkItem, ItemStatus, OptionalTime
  <1>2. QED
    BY <1>1 DEF ItemInv, TransitionToRequeued, WorkItem, LeaseFrom, HeldItem

-----------------------------------------------------------------------------
(* The invariant.                                                          *)

\* In the initial state no item exists.
LEMMA ItemsInit == Init => ItemsInv
  <1>1. ItemInv(AbsentItem)
    <2>1. AbsentItem \in WorkItem
      BY DEF AbsentItem, WorkItem, ItemStatus, OptionalTime
    <2>2. QED
      BY <2>1 DEF ItemInv, AbsentItem, LeaseFrom, HeldItem
  <1>2. QED
    BY <1>1 DEF Init, ItemsInv

\* Every step of the store keeps every item within its invariant.
LEMMA ItemsNext == ItemsInv /\ [Next]_vars => ItemsInv'
  <1> SUFFICES ASSUME ItemsInv, [Next]_vars
               PROVE  ItemsInv'
    OBVIOUS
  <1> USE DEF ItemsInv
  <1>0. \A i \in ItemId : ItemInv(Released[i])
    BY ReleaseKeepsItemInv DEF Released
  <1>1. ASSUME NEW job \in Jobs, NEW accts \in SUBSET AccountIds, NEW max \in MaxAttemptsIn,
               CreateWorkItems(job, accts, max)
        PROVE  ItemsInv'
    <2>1. max \in Int
      BY WorkItemQueueAssumption
    <2>2. QED
      BY <1>1, <2>1, CreateKeepsItemInv DEF CreateWorkItems
  <1>2. ASSUME NEW w \in WorkerIds, NEW scope \in ClaimScopes, ClaimNext(w, scope)
        PROVE  ItemsInv'
    <2>1. CASE items' = Released /\ UNCHANGED now
      BY <2>1, <1>0 DEF Released
    <2>2. ASSUME NEW i \in Oldest(Due(scope)),
                 items' = [Released EXCEPT ![i] = TransitionToLeased(Released[i], w, now)],
                 UNCHANGED now
          PROVE  ItemsInv'
      <3>1. i \in ItemId /\ Released[i].status \in LeaseFrom
        BY DEF Oldest, Due, IsClaimable
      <3>2. ItemInv(TransitionToLeased(Released[i], w, now))
        BY <3>1, <1>0, LeaseKeepsItemInv
      <3>3. QED
        BY <1>0, <2>2, <3>1, <3>2 DEF Released
    <2>3. QED
      BY <1>2, <2>1, <2>2 DEF ClaimNext
  <1>3. ASSUME NEW i \in ItemId, NEW w \in WorkerIds, MarkRunning(i, w)
        PROVE  ItemsInv'
    BY <1>3, RunKeepsItemInv DEF MarkRunning
  <1>4. ASSUME NEW i \in ItemId, MarkSucceeded(i)
        PROVE  ItemsInv'
    BY <1>4, DoneKeepsItemInv DEF MarkSucceeded
  <1>5. ASSUME NEW i \in ItemId, MarkSkipped(i)
        PROVE  ItemsInv'
    BY <1>5, DoneKeepsItemInv DEF MarkSkipped
  <1>6. ASSUME NEW i \in ItemId, NEW retryable \in BOOLEAN, MarkFailed(i, retryable)
        PROVE  ItemsInv'
    BY <1>6, FailKeepsItemInv DEF MarkFailed
  <1>7. ASSUME NEW i \in ItemId, MarkCancelled(i)
        PROVE  ItemsInv'
    BY <1>7, DoneKeepsItemInv DEF MarkCancelled
  <1>8. ASSUME NEW job \in Jobs, NEW accts \in SUBSET AccountIds, RequeueFailed(job, accts)
        PROVE  ItemsInv'
    BY <1>8, RequeueKeepsItemInv DEF RequeueFailed
  <1>9. CASE ReleaseExpiredLeases
    BY <1>9, <1>0 DEF ReleaseExpiredLeases, Released
  <1>10. CASE Tick
    BY <1>10 DEF Tick
  <1>11. CASE UNCHANGED vars
    BY <1>11 DEF vars
  <1>12. QED
    BY <1>1, <1>2, <1>3, <1>4, <1>5, <1>6, <1>7, <1>8, <1>9, <1>10, <1>11 DEF Next

\* The inductive invariant holds in every reachable state.
THEOREM ItemsInvariance == Spec => []ItemsInv
  BY ItemsInit, ItemsNext, PTL DEF Spec

\* Every value of the store has its type.
THEOREM ItemsTyped == Spec => []TypeOK
  <1>1. ItemsInv => TypeOK
    BY DEF ItemsInv, ItemInv, TypeOK
  <1>2. QED
    BY <1>1, ItemsInvariance, PTL

\* No item is attempted more often than its maximum.
THEOREM BoundedAttempts == Spec => []AttemptsBounded
  <1>1. ItemsInv => AttemptsBounded
    BY DEF ItemsInv, ItemInv, AttemptsBounded
  <1>2. QED
    BY <1>1, ItemsInvariance, PTL

\* An item waiting to be claimed has an attempt left.
THEOREM ClaimableItems == Spec => []ClaimableHasAttempt
  <1>1. ItemsInv => ClaimableHasAttempt
    BY DEF ItemsInv, ItemInv, ClaimableHasAttempt
  <1>2. QED
    BY <1>1, ItemsInvariance, PTL

\* Worker and lease are on record exactly for the items being worked on.
THEOREM LeasesOnRecord == Spec => []LeaseOnRecord
  <1>1. ItemsInv => LeaseOnRecord
    BY DEF ItemsInv, ItemInv, LeaseOnRecord
  <1>2. QED
    BY <1>1, ItemsInvariance, PTL

-----------------------------------------------------------------------------
(* The action properties.                                                  *)

\* What releasing an expired lease does to the attempts and the lease of an item.
LEMMA ReleasedItem ==
    ASSUME NEW item, ItemInv(item), NEW t \in Nat
    PROVE  LET r == ReleaseIfExpired(item, t)
           IN  /\ r.attempt = item.attempt
               /\ r.nextAttemptAt = item.nextAttemptAt
               /\ r.status \in LeaseFrom => item.leaseExpiresAt <= t
               /\ item.status \in TerminalItem => r = item
  BY DEF ItemInv, ReleaseIfExpired, LeaseExpired, WorkItem, OptionalTime, NoTime,
         LeaseFrom, HeldItem, TerminalItem

\* One item, before and after a step: an attempt is used only when the item is free.
UsesFreeItem(old, new, t) ==
    new.attempt > old.attempt => old.leaseExpiresAt <= t /\ old.nextAttemptAt <= t

\* A claim never takes an item that is leased or whose retry delay runs.
THEOREM ClaimsAreFree == Spec => ClaimsOnlyFreeItems
  <1>1. ASSUME ItemsInv, [Next]_vars
        PROVE  \A i \in ItemId : UsesFreeItem(items[i], items'[i], now)
    <2> SUFFICES ASSUME NEW i \in ItemId
                 PROVE  UsesFreeItem(items[i], items'[i], now)
      OBVIOUS
    <2>0. ItemInv(items[i]) /\ items[i].attempt \in Nat /\ now \in Nat
      BY <1>1 DEF ItemsInv, ItemInv, WorkItem
    <2>1. Released[i] = ReleaseIfExpired(items[i], now)
      BY DEF Released
    <2>2. Released[i].attempt = items[i].attempt
      BY <2>0, <2>1, ReleasedItem
    <2>3. ASSUME NEW w \in WorkerIds, NEW scope \in ClaimScopes, ClaimNext(w, scope)
          PROVE  UsesFreeItem(items[i], items'[i], now)
      <3>1. CASE items'[i] = Released[i]
        BY <3>1, <2>0, <2>2 DEF UsesFreeItem
      <3>2. CASE IsClaimable(Released[i], now)
        <4>1. Released[i].nextAttemptAt = items[i].nextAttemptAt
              /\ items[i].leaseExpiresAt <= now
          BY <3>2, <2>0, <2>1, ReleasedItem DEF IsClaimable
        <4>2. QED
          BY <4>1, <3>2, <2>0 DEF IsClaimable, NoTime, UsesFreeItem
      <3>3. QED
        BY <2>3, <3>1, <3>2 DEF ClaimNext, Oldest, Due, Released
    <2>4. ASSUME items'[i].attempt <= items[i].attempt \/ items'[i] = items[i]
          PROVE  UsesFreeItem(items[i], items'[i], now)
      <3>1. CASE items'[i] = items[i]
        BY <3>1, <2>0 DEF UsesFreeItem
      <3>2. CASE items'[i].attempt <= items[i].attempt /\ items'[i] # items[i]
        <4>1. items'[i].attempt \in Nat
          BY <1>1, ItemsNext DEF ItemsInv, ItemInv, WorkItem
        <4>2. QED
          BY <4>1, <3>2, <2>0 DEF UsesFreeItem
      <3>3. QED
        BY <2>4, <3>1, <3>2
    <2>5. ASSUME NEW job \in Jobs, NEW accts \in SUBSET AccountIds, NEW max \in MaxAttemptsIn,
                 CreateWorkItems(job, accts, max)
          PROVE  UsesFreeItem(items[i], items'[i], now)
      BY <2>5, <2>0, <2>4 DEF CreateWorkItems, CreateWorkItem, AbsentItem
    <2>6. ASSUME NEW j \in ItemId, NEW w \in WorkerIds, MarkRunning(j, w)
          PROVE  UsesFreeItem(items[i], items'[i], now)
      <3>1. TransitionToRunning(items[j], w).attempt = items[j].attempt
        BY <1>1 DEF TransitionToRunning, ItemsInv, ItemInv, WorkItem
      <3>2. QED
        BY <2>6, <2>0, <2>4, <3>1, <1>1 DEF MarkRunning, ItemsInv
    <2>7. ASSUME NEW j \in ItemId, MarkSucceeded(j) \/ MarkSkipped(j) \/ MarkCancelled(j)
          PROVE  UsesFreeItem(items[i], items'[i], now)
      <3>1. \A s \in {"succeeded", "skipped", "cancelled"} :
               TransitionToDone(items[j], s).attempt = items[j].attempt
        BY <1>1 DEF TransitionToDone, ItemsInv, ItemInv, WorkItem
      <3>2. QED
        BY <2>7, <2>0, <2>4, <3>1, <1>1 DEF MarkSucceeded, MarkSkipped, MarkCancelled, ItemsInv
    <2>8. ASSUME NEW j \in ItemId, NEW retryable \in BOOLEAN, MarkFailed(j, retryable)
          PROVE  UsesFreeItem(items[i], items'[i], now)
      <3>1. TransitionToFailed(items[j], retryable, now).attempt = items[j].attempt
        BY <1>1 DEF TransitionToFailed, ItemsInv, ItemInv, WorkItem
      <3>2. QED
        BY <2>8, <2>0, <2>4, <3>1, <1>1 DEF MarkFailed, ItemsInv
    <2>9. ASSUME NEW job \in Jobs, NEW accts \in SUBSET AccountIds, RequeueFailed(job, accts)
          PROVE  UsesFreeItem(items[i], items'[i], now)
      <3>1. TransitionToRequeued(items[i]).attempt = 0
        BY <1>1 DEF TransitionToRequeued, ItemsInv, ItemInv, WorkItem
      <3>2. QED
        BY <2>9, <2>0, <2>4, <3>1 DEF RequeueFailed
    <2>10. CASE ReleaseExpiredLeases
      BY <2>10, <2>0, <2>2, <2>4 DEF ReleaseExpiredLeases
    <2>11. CASE Tick \/ UNCHANGED vars
      BY <2>11, <2>4 DEF Tick, vars
    <2>12. QED
      BY <1>1, <2>3, <2>5, <2>6, <2>7, <2>8, <2>9, <2>10, <2>11 DEF Next
  <1>2. ItemsInv /\ [Next]_vars =>
           [\A i \in ItemId :
               items'[i].attempt > items[i].attempt =>
                  /\ items[i].leaseExpiresAt <= now
                  /\ items[i].nextAttemptAt <= now]_vars
    BY <1>1 DEF UsesFreeItem
  <1>3. QED
    BY <1>2, ItemsInvariance, PTL DEF Spec, ClaimsOnlyFreeItems

\* One item, before and after a step: finished work is left alone or requeued.
KeepsFinished(old, new) ==
    old.status \in TerminalItem =>
       \/ new = old
       \/ old.status \in RequeueFrom /\ new.status = "new" /\ new.attempt = 0

\* Finished work is not done again without a requeue.
THEOREM FinishedIsFinal == Spec => FinishedStaysFinished
  <1>1. ASSUME ItemsInv, [Next]_vars
        PROVE  \A i \in ItemId : KeepsFinished(items[i], items'[i])
    <2> SUFFICES ASSUME NEW i \in ItemId, items[i].status \in TerminalItem
                 PROVE  \/ items'[i] = items[i]
                        \/ /\ items[i].status \in RequeueFrom
                           /\ items'[i].status = "new"
                           /\ items'[i].attempt = 0
      BY DEF KeepsFinished
    <2>0. Released[i] = items[i]
      BY <1>1, ReleasedItem DEF ItemsInv, Released
    <2>1. ASSUME NEW job \in Jobs, NEW accts \in SUBSET AccountIds, NEW max \in MaxAttemptsIn,
                 CreateWorkItems(job, accts, max)
          PROVE  items'[i] = items[i]
      BY <2>1 DEF CreateWorkItems, TerminalItem
    <2>2. ASSUME NEW w \in WorkerIds, NEW scope \in ClaimScopes, ClaimNext(w, scope)
          PROVE  items'[i] = items[i]
      <3>1. ~ IsClaimable(Released[i], now)
        BY <2>0 DEF IsClaimable, LeaseFrom, TerminalItem
      <3>2. QED
        BY <2>2, <2>0, <3>1 DEF ClaimNext, Oldest, Due, Released
    <2>3. ASSUME NEW j \in ItemId, NEW w \in WorkerIds, MarkRunning(j, w)
          PROVE  items'[i] = items[i]
      BY <2>3, <1>1 DEF MarkRunning, RunFrom, TerminalItem, ItemsInv
    <2>4. ASSUME NEW j \in ItemId, MarkSucceeded(j) \/ MarkSkipped(j) \/ MarkCancelled(j)
          PROVE  items'[i] = items[i]
      BY <2>4, <1>1
      DEF MarkSucceeded, MarkSkipped, MarkCancelled, FinishFrom, CancelFrom, TerminalItem, ItemsInv
    <2>5. ASSUME NEW j \in ItemId, NEW retryable \in BOOLEAN, MarkFailed(j, retryable)
          PROVE  items'[i] = items[i]
      BY <2>5, <1>1 DEF MarkFailed, FinishFrom, TerminalItem, ItemsInv
    <2>6. ASSUME NEW job \in Jobs, NEW accts \in SUBSET AccountIds, RequeueFailed(job, accts)
          PROVE  \/ items'[i] = items[i]
                 \/ /\ items[i].status \in RequeueFrom
                    /\ items'[i].status = "new"
                    /\ items'[i].attempt = 0
      <3>1. TransitionToRequeued(items[i]).status = "new"
            /\ TransitionToRequeued(items[i]).attempt = 0
        BY <1>1 DEF TransitionToRequeued, ItemsInv, ItemInv, WorkItem
      <3>2. QED
        BY <2>6, <3>1 DEF RequeueFailed
    <2>7. CASE ReleaseExpiredLeases
      BY <2>7, <2>0 DEF ReleaseExpiredLeases
    <2>8. CASE Tick \/ UNCHANGED vars
      BY <2>8 DEF Tick, vars
    <2>9. QED
      BY <1>1, <2>1, <2>2, <2>3, <2>4, <2>5, <2>6, <2>7, <2>8 DEF Next
  <1>2. ItemsInv /\ [Next]_vars =>
           [\A i \in ItemId :
               items[i].status \in TerminalItem =>
                  \/ items'[i] = items[i]
                  \/ /\ items[i].status \in RequeueFrom
                     /\ items'[i].status = "new"
                     /\ items'[i].attempt = 0]_vars
    BY <1>1 DEF KeepsFinished
  <1>3. QED
    BY <1>2, ItemsInvariance, PTL DEF Spec, FinishedStaysFinished

-----------------------------------------------------------------------------
(* Jobs.                                                                    *)

\* Every cached job has a file, with the same content.
Cached(c, d) == \A id \in DOMAIN c : id \in JobIds /\ d[id] # NoJob /\ c[id] = d[id]

CacheInv ==
    /\ disk \in [JobIds -> Job \cup {NoJob}]
    /\ Cached(cache, disk)
    /\ CacheBounded

\* Cutting a cache leaves entries of it, and no more than the limit.
LEMMA EvictKeepsEntries ==
    ASSUME NEW c, NEW e \in EvictOldest(c)
    PROVE  /\ DOMAIN e \subseteq DOMAIN c
           /\ \A id \in DOMAIN e : e[id] = c[id]
           /\ Cardinality(DOMAIN c) \in Nat => Cardinality(DOMAIN e) <= MaxCacheSize
  BY FileJobStoreAssumption DEF EvictOldest, Restrict

\* A cache with entries for some jobs has a cardinality.
LEMMA CacheCardinality ==
    ASSUME NEW c, DOMAIN c \subseteq JobIds
    PROVE  Cardinality(DOMAIN c) \in Nat
  BY FileJobStoreAssumption, FS_Subset, FS_CardinalityType

\* Caching a job together with its file, and then cutting the cache, keeps the
\* cache true to the disk.
LEMMA EvictKeepsCached ==
    ASSUME NEW c, NEW d, NEW id \in JobIds, d[id] # NoJob,
           \A i \in DOMAIN c \ {id} : i \in JobIds /\ d[i] # NoJob /\ c[i] = d[i],
           NEW e \in EvictOldest(CacheSet(c, id, d[id]))
    PROVE  Cached(e, d) /\ Cardinality(DOMAIN e) <= MaxCacheSize
  <1> DEFINE s == CacheSet(c, id, d[id])
  <1>1. DOMAIN s = DOMAIN c \cup {id}
    BY DEF CacheSet
  <1>2. \A i \in DOMAIN s : i \in JobIds /\ d[i] # NoJob /\ s[i] = d[i]
    BY <1>1 DEF CacheSet
  <1>3. Cardinality(DOMAIN s) \in Nat
    BY <1>2, CacheCardinality
  <1> HIDE DEF s
  <1>4. e \in EvictOldest(s)
    BY DEF s
  <1> QED
    BY <1>2, <1>3, <1>4, EvictKeepsEntries DEF Cached

\* A look-up finds what the disk has, and leaves a cache true to it.
LEMMA LookupFindsDisk ==
    ASSUME CacheInv, NEW id \in JobIds
    PROVE  /\ Missing(id) <=> disk[id] = NoJob
           /\ Found(id) = disk[id]
           /\ disk[id] # NoJob => \A c \in AfterLookup(id) :
                 Cached(c, disk) /\ Cardinality(DOMAIN c) <= MaxCacheSize
  <1>1. (Missing(id) <=> disk[id] = NoJob) /\ Found(id) = disk[id]
    BY DEF CacheInv, Cached, Missing, Found
  <1>2. ASSUME disk[id] # NoJob, NEW c \in AfterLookup(id)
        PROVE  Cached(c, disk) /\ Cardinality(DOMAIN c) <= MaxCacheSize
    <2>1. CASE id \in DOMAIN cache
      BY <1>2, <2>1 DEF AfterLookup, CacheInv, CacheBounded
    <2>2. CASE id \notin DOMAIN cache
      <3>1. c \in EvictOldest(CacheSet(cache, id, disk[id]))
        BY <1>2, <2>2 DEF AfterLookup
      <3> QED
        BY <1>2, <3>1, EvictKeepsCached DEF CacheInv, Cached
    <2> QED
      BY <2>1, <2>2
  <1> QED
    BY <1>1, <1>2

\* The helpers the two stores share make jobs of jobs.
LEMMA JobsFromJobs ==
    /\ \A accts : \A t \in Times : Abstract!CreatedJob(accts, t) \in Job
    /\ \A job \in Job, s \in JobStatus : Abstract!JobMarked(job, s) \in Job
    /\ \A job \in Job, a \in Accounts, s \in AccountStatus : Abstract!AccountMarked(job, a, s) \in Job
    /\ NoJob \notin Job
  <1>1. \A accts : \A t \in Times : Abstract!CreatedJob(accts, t) \in Job
    BY FileJobStoreAssumption DEF Job, Abstract!Job, Abstract!CreatedJob
  <1>2. \A job \in Job, s \in JobStatus : Abstract!JobMarked(job, s) \in Job
    BY DEF Job, Abstract!Job, Abstract!JobMarked
  <1>3. \A job \in Job, a \in Accounts, s \in AccountStatus : Abstract!AccountMarked(job, a, s) \in Job
    BY DEF Job, Abstract!Job, Abstract!AccountMarked
  <1> QED
    BY <1>1, <1>2, <1>3, FileJobStoreAssumption

-----------------------------------------------------------------------------
(* The operations.                                                         *)

\* Writing a job and changing the object the look-up found keeps the invariant
\* and changes the disk as JobStore changes its map.
LEMMA MutateIsAbstract ==
    ASSUME CacheInv, NEW id \in JobIds, NEW job \in Job, Mutate(id, job)
    PROVE  /\ CacheInv'
           /\ disk[id] # NoJob
           /\ Abstract!Mutate(id, job)
  <1>1. disk[id] # NoJob
    BY LookupFindsDisk DEF Mutate
  <1>2. PICK c \in AfterLookup(id) : cache' = UpdateInPlace(c, id, job)
    BY DEF Mutate
  <1>3. Cached(c, disk) /\ Cardinality(DOMAIN c) <= MaxCacheSize
    BY <1>1, LookupFindsDisk
  <1>4. /\ disk' = [disk EXCEPT ![id] = job]
        /\ reply' = Abstract!Answer(<< <<id, job>> >>)
    BY DEF Mutate, Persist
  <1>5. DOMAIN cache' = DOMAIN c
    BY <1>2 DEF UpdateInPlace, CacheSet
  <1>6. Cached(cache', disk')
    BY <1>2, <1>3, <1>4, JobsFromJobs DEF CacheInv, Cached, UpdateInPlace, CacheSet
  <1>7. disk' \in [JobIds -> Job \cup {NoJob}]
    BY <1>4 DEF CacheInv
  <1> QED
    BY <1>1, <1>3, <1>4, <1>5, <1>6, <1>7 DEF CacheInv, CacheBounded, Abstract!Mutate

\* A step of the file store keeps the invariant, and is a step of JobStore on the
\* contents of the disk or leaves both the disk and the reply alone.
LEMMA StepIsAbstract ==
    CacheInv /\ [FileNext]_fileVars => CacheInv' /\ [Abstract!Next]_<<disk, reply>>
  <1> SUFFICES ASSUME CacheInv, [FileNext]_fileVars
               PROVE  CacheInv' /\ [Abstract!Next]_<<disk, reply>>
    OBVIOUS
  <1>1. CASE ListJobs
    <2>1. DOMAIN cache \cup OnDisk = {i \in JobIds : disk[i] # NoJob}
      BY DEF CacheInv, Cached, OnDisk
    <2>2. \A id \in OnDisk : Found(id) = disk[id]
      BY LookupFindsDisk DEF OnDisk
    <2>3. Abstract!ListJobs
      <3>1. {<<id, Found(id)>> : id \in DOMAIN cache \cup OnDisk}
              = {<<id, disk[id]>> : id \in {i \in JobIds : disk[i] # NoJob}}
        BY <2>1, <2>2 DEF OnDisk
      <3> QED
        BY <1>1, <3>1 DEF ListJobs, Abstract!ListJobs
    <2> QED
      BY <1>1, <2>3 DEF ListJobs, CacheInv, CacheBounded, Abstract!Next
  <1>2. ASSUME NEW id \in JobIds, NEW accts \in SUBSET Accounts, NEW t \in Times,
               CreateJob(id, accts, t)
        PROVE  CacheInv' /\ [Abstract!Next]_<<disk, reply>>
    <2> DEFINE job == Abstract!CreatedJob(accts, t)
    <2>1. job \in Job /\ job # NoJob
      BY JobsFromJobs
    <2> HIDE DEF job
    <2>2. /\ disk[id] = NoJob
          /\ disk' = [disk EXCEPT ![id] = job]
          /\ reply' = Abstract!Answer(<< <<id, job>> >>)
          /\ cache' \in EvictOldest(CacheSet(cache, id, job))
      BY <1>2, LookupFindsDisk DEF CreateJob, Persist, job
    <2>3. disk' \in [JobIds -> Job \cup {NoJob}] /\ disk'[id] = job
      BY <2>1, <2>2 DEF CacheInv
    <2>4. \A i \in DOMAIN cache \ {id} : i \in JobIds /\ disk'[i] # NoJob /\ cache[i] = disk'[i]
      BY <2>2 DEF CacheInv, Cached
    <2>5. Cached(cache', disk') /\ Cardinality(DOMAIN cache') <= MaxCacheSize
      <3> DEFINE d == disk'
                 e == cache'
      <3>1. d[id] # NoJob /\ e \in EvictOldest(CacheSet(cache, id, d[id]))
        BY <2>1, <2>2, <2>3
      <3>2. \A i \in DOMAIN cache \ {id} : i \in JobIds /\ d[i] # NoJob /\ cache[i] = d[i]
        BY <2>4
      <3> HIDE DEF d, e
      <3>3. Cached(e, d) /\ Cardinality(DOMAIN e) <= MaxCacheSize
        BY <3>1, <3>2, EvictKeepsCached
      <3> QED
        BY <3>3 DEF d, e
    <2>6. Abstract!CreateJob(id, accts, t)
      BY <2>2 DEF Abstract!CreateJob, job
    <2> QED
      BY <2>3, <2>5, <2>6 DEF CacheInv, CacheBounded, Abstract!Next
  <1>3. ASSUME NEW id \in JobIds, GetJob(id)
        PROVE  CacheInv' /\ [Abstract!Next]_<<disk, reply>>
    <2>1. disk' = disk /\ reply' = Abstract!Answer(IF disk[id] = NoJob THEN <<>> ELSE << <<id, disk[id]>> >>)
      BY <1>3, LookupFindsDisk DEF GetJob
    <2>2. Cached(cache', disk') /\ Cardinality(DOMAIN cache') <= MaxCacheSize
      BY <1>3, <2>1, LookupFindsDisk DEF GetJob, CacheInv, CacheBounded
    <2>3. Abstract!GetJob(id)
      BY <2>1 DEF Abstract!GetJob
    <2> QED
      BY <2>1, <2>2, <2>3 DEF CacheInv, CacheBounded, Abstract!Next
  <1>4. ASSUME NEW id \in JobIds, MutateMissing(id)
        PROVE  CacheInv' /\ [Abstract!Next]_<<disk, reply>>
    <2>1. Abstract!MutateMissing(id)
      BY <1>4, LookupFindsDisk DEF MutateMissing, Abstract!MutateMissing
    <2> QED
      BY <1>4, <2>1 DEF MutateMissing, CacheInv, CacheBounded, Abstract!Next
  <1>5. ASSUME NEW id \in JobIds, NEW s \in JobStatus, MarkJob(id, s)
        PROVE  CacheInv' /\ [Abstract!Next]_<<disk, reply>>
    <2>1. disk[id] \in Job /\ Found(id) = disk[id]
      BY <1>5, LookupFindsDisk DEF MarkJob, Mutate, CacheInv
    <2>2. Abstract!JobMarked(disk[id], s) \in Job /\ Mutate(id, Abstract!JobMarked(disk[id], s))
      BY <1>5, <2>1, JobsFromJobs DEF MarkJob
    <2>3. CacheInv' /\ Abstract!MarkJob(id, s)
      BY <2>2, MutateIsAbstract DEF Abstract!MarkJob
    <2> QED
      BY <2>3 DEF Abstract!Next
  <1>6. ASSUME NEW id \in JobIds, NEW a \in Accounts, NEW s \in AccountStatus, MarkAccount(id, a, s)
        PROVE  CacheInv' /\ [Abstract!Next]_<<disk, reply>>
    <2>1. disk[id] \in Job /\ Found(id) = disk[id]
      BY <1>6, LookupFindsDisk DEF MarkAccount, CacheInv
    <2>2. /\ Abstract!AccountMarked(disk[id], a, s) \in Job
          /\ Abstract!AccountInJob(disk[id], a)
          /\ Mutate(id, Abstract!AccountMarked(disk[id], a, s))
      BY <1>6, <2>1, JobsFromJobs DEF MarkAccount
    <2>3. CacheInv' /\ Abstract!MarkAccount(id, a, s)
      BY <2>2, MutateIsAbstract DEF Abstract!MarkAccount
    <2> QED
      BY <2>3 DEF Abstract!Next
  <1>7. ASSUME NEW id \in JobIds, NEW a \in Accounts, LogAccountStep(id, a)
        PROVE  CacheInv' /\ [Abstract!Next]_<<disk, reply>>
    <2>1. disk[id] \in Job /\ Found(id) = disk[id]
      BY <1>7, LookupFindsDisk DEF LogAccountStep, CacheInv
    <2>2. Abstract!AccountInJob(disk[id], a) /\ Mutate(id, disk[id])
      BY <1>7, <2>1 DEF LogAccountStep
    <2>3. CacheInv' /\ Abstract!LogAccountStep(id, a)
      BY <2>1, <2>2, MutateIsAbstract DEF Abstract!LogAccountStep
    <2> QED
      BY <2>3 DEF Abstract!Next
  <1>8. ASSUME NEW id \in JobIds, NEW a \in Accounts, MutateStranger(id, a)
        PROVE  CacheInv' /\ [Abstract!Next]_<<disk, reply>>
    <2>1. disk[id] # NoJob /\ Found(id) = disk[id]
      BY <1>8, LookupFindsDisk DEF MutateStranger
    <2>2. Cached(cache', disk') /\ Cardinality(DOMAIN cache') <= MaxCacheSize
      BY <1>8, <2>1, LookupFindsDisk DEF MutateStranger
    <2>3. Abstract!MutateStranger(id, a)
      BY <1>8, <2>1 DEF MutateStranger, Abstract!MutateStranger
    <2> QED
      BY <1>8, <2>2, <2>3 DEF MutateStranger, CacheInv, CacheBounded, Abstract!Next
  <1>9. CASE Restart
    <2>1. PICK keep \in SUBSET OnDisk :
             /\ Cardinality(keep) = MaxCacheSize \/ Cardinality(keep) < MaxCacheSize
             /\ cache' = Restrict(disk, keep)
      BY <1>9 DEF Restart
    <2>2. DOMAIN cache' = keep /\ Cached(cache', disk)
      BY <2>1 DEF Restrict, OnDisk, Cached
    <2>3. Cardinality(keep) <= MaxCacheSize
      BY <2>1, <2>2, CacheCardinality, FileJobStoreAssumption DEF Cached
    <2> QED
      BY <1>9, <2>2, <2>3 DEF Restart, CacheInv, CacheBounded
  <1>10. CASE UNCHANGED fileVars
    BY <1>10 DEF fileVars, CacheInv, CacheBounded
  <1> QED
    BY <1>1, <1>2, <1>3, <1>4, <1>5, <1>6, <1>7, <1>8, <1>9, <1>10 DEF FileNext

\* The invariant holds at first, and the stores start alike.
LEMMA InitIsAbstract == FileInit => CacheInv /\ Abstract!Init
  <1> SUFFICES ASSUME FileInit PROVE CacheInv /\ Abstract!Init
    OBVIOUS
  <1>1. DOMAIN cache = {} /\ Cardinality(DOMAIN cache) = 0
    BY FS_EmptySet DEF FileInit
  <1>2. disk = [id \in JobIds |-> NoJob]
    BY DEF FileInit, Abstract!Init
  <1> QED
    BY <1>1, <1>2, FileJobStoreAssumption DEF FileInit, CacheInv, Cached, CacheBounded

\* The cache agrees with the disk and keeps to its limit in every reachable state.
THEOREM CacheInvariance == FileSpec => []CacheInv
  BY InitIsAbstract, StepIsAbstract, PTL DEF FileSpec

\* While no write fails, the cache never differs from the disk (WriteThrough).
THEOREM CacheIsTrue == FileSpec => []WriteThrough
  <1>1. CacheInv => WriteThrough
    BY DEF CacheInv, Cached, WriteThrough
  <1> QED
    BY <1>1, CacheInvariance, PTL

\* While no write fails, the cache keeps to its limit (CacheBounded).
THEOREM CacheIsBounded == FileSpec => []CacheBounded
  <1>1. CacheInv => CacheBounded
    BY DEF CacheInv
  <1> QED
    BY <1>1, CacheInvariance, PTL

\* The file job store implements the job store (ImplementsJobStore).
THEOREM Refinement == FileSpec => ImplementsJobStore
  <1>1. CacheInv /\ [FileNext]_fileVars => [Abstract!Next]_Abstract!storeVars
    BY StepIsAbstract DEF Abstract!storeVars
  <1> QED
    BY InitIsAbstract, <1>1, CacheInvariance, PTL DEF FileSpec, ImplementsJobStore, Abstract!Spec
=============================================================================
