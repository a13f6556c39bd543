---------------------------- MODULE WorkItemQueue ----------------------------
(***************************************************************************)
(* One instance of the file work item store (fileWorkItemStore.ts), as the *)
(* worker lease service, the job runner and the cancel route drive it.     *)
(* Every store operation is synchronous, so an operation is one step.      *)
(* The store writes every item through to its file in the same step, so    *)
(* the map and the directory are one variable here; WorkerFleet separates  *)
(* them.                                                                   *)
(*                                                                         *)
(* The store and the lease service check the status of the item and        *)
(* nothing else: any worker may report any item at any time, a worker      *)
(* whose lease ran out included.  The model leaves the callers that free.  *)
(***************************************************************************)
EXTENDS WorkItems

CONSTANTS
    Jobs, AccountIds,
    MaxAttemptsIn,  \* the maxAttempts a job may ask for
    MaxTime         \* bound of the clock

ASSUME WorkItemQueueAssumption ==
    /\ MaxAttemptsIn \subseteq Int
    /\ MaxTime \in Nat

VARIABLES
    items,          \* the store: an item (or AbsentItem) per job and account
    now             \* the wall clock the callers pass as `now`

vars == <<items, now>>

ItemId == Jobs \X AccountIds

TypeOK ==
    /\ items \in [ItemId -> WorkItem]
    /\ now \in Nat

Init ==
    /\ items = [i \in ItemId |-> AbsentItem]
    /\ now = 0

-----------------------------------------------------------------------------
(* Operations of the store.                                                *)

\* The accounts of a job that have an item already are left as they are.
CreateWorkItems(job, accts, max) ==
    /\ items' = [i \in ItemId |->
                    IF i[1] = job /\ i[2] \in accts /\ items[i].status = "absent"
                    THEN CreateWorkItem(max, now)
                    ELSE items[i]]
    /\ UNCHANGED now

\* The items after releaseExpiredLeases.
Released == [i \in ItemId |-> ReleaseIfExpired(items[i], now)]

ReleaseExpiredLeases ==
    /\ items' = Released
    /\ UNCHANGED now

\* claimNext is asked for one job, or for any.
ClaimScopes == {Jobs} \cup {{j} : j \in Jobs}

Due(scope) == {i \in ItemId : i[1] \in scope /\ IsClaimable(Released[i], now)}

\* The item claimNext leases: a first one in the order of ClaimKey.  Equal keys
\* keep the order of the map, which after a restart is that of the random ids.
Oldest(due) == {i \in due : \A k \in due : ClaimKey(Released[i]) <= ClaimKey(Released[k])}

ClaimNext(w, scope) ==
    /\ \/ /\ Due(scope) = {}
          /\ items' = Released
       \/ \E i \in Oldest(Due(scope)) :
             items' = [Released EXCEPT ![i] = TransitionToLeased(Released[i], w, now)]
    /\ UNCHANGED now

MarkRunning(i, w) ==
    /\ items[i].status \in RunFrom
    /\ items' = [items EXCEPT ![i] = TransitionToRunning(items[i], w)]
    /\ UNCHANGED now

MarkSucceeded(i) ==
    /\ items[i].status \in FinishFrom
    /\ items' = [items EXCEPT ![i] = TransitionToDone(items[i], "succeeded")]
    /\ UNCHANGED now

MarkSkipped(i) ==
    /\ items[i].status \in FinishFrom
    /\ items' = [items EXCEPT ![i] = TransitionToDone(items[i], "skipped")]
    /\ UNCHANGED now

MarkFailed(i, retryable) ==
    /\ items[i].status \in FinishFrom
    /\ items' = [items EXCEPT ![i] = TransitionToFailed(items[i], retryable, now)]
    /\ UNCHANGED now

MarkCancelled(i) ==
    /\ items[i].status \in CancelFrom
    /\ items' = [items EXCEPT ![i] = TransitionToDone(items[i], "cancelled")]
    /\ UNCHANGED now

RequeueFailed(job, accts) ==
    /\ items' = [i \in ItemId |->
                    IF i[1] = job /\ i[2] \in accts /\ items[i].status \in RequeueFrom
                    THEN TransitionToRequeued(items[i])
                    ELSE items[i]]
    /\ UNCHANGED now

Tick ==
    /\ now < MaxTime
    /\ now' = now + 1
    /\ UNCHANGED items

-----------------------------------------------------------------------------
Next ==
    \/ \E job \in Jobs, accts \in SUBSET AccountIds, max \in MaxAttemptsIn :
          CreateWorkItems(job, accts, max)
    \/ \E w \in WorkerIds, scope \in ClaimScopes : ClaimNext(w, scope)
    \/ \E i \in ItemId, w \in WorkerIds : MarkRunning(i, w)
    \/ \E i \in ItemId : MarkSucceeded(i)
    \/ \E i \in ItemId : MarkSkipped(i)
    \/ \E i \in ItemId, retryable \in BOOLEAN : MarkFailed(i, retryable)
    \/ \E i \in ItemId : MarkCancelled(i)
    \/ \E job \in Jobs, accts \in SUBSET AccountIds : RequeueFailed(job, accts)
    \/ ReleaseExpiredLeases
    \/ Tick

Spec == Init /\ [][Next]_vars

\* Time passes, and some worker keeps polling for work of any job: a worker
\* process claims on a setInterval timer.
FairSpec ==
    /\ Spec
    /\ WF_vars(Tick)
    /\ WF_vars(\E w \in WorkerIds : ClaimNext(w, Jobs))

-----------------------------------------------------------------------------
(* Properties.                                                             *)

\* No item is attempted more often than its maximum, whichever way its attempts
\* end: reported failures, lost leases, runs by the local runner and requeues.
AttemptsBounded == \A i \in ItemId : items[i].attempt <= items[i].maxAttempts

\* An item waiting to be claimed still has an attempt left; this is what makes
\* AttemptsBounded inductive.
ClaimableHasAttempt ==
    \A i \in ItemId : items[i].status \in LeaseFrom => items[i].attempt < items[i].maxAttempts

\* A worker and a lease are on record only for an item being worked on, and a
\* leased item always has both: otherwise no expiry could ever free it.
LeaseOnRecord ==
    \A i \in ItemId :
       /\ items[i].workerId # NoWorker <=> items[i].status \in HeldItem
       /\ items[i].leaseExpiresAt # NoTime => items[i].status \in HeldItem
       /\ items[i].status = "leased" => items[i].leaseExpiresAt # NoTime

\* A claim (the only step that uses up an attempt) never takes an item whose
\* lease is still running, nor one whose retry delay has not passed.
ClaimsOnlyFreeItems ==
    [][\A i \in ItemId :
          items'[i].attempt > items[i].attempt =>
             /\ items[i].leaseExpiresAt <= now
             /\ items[i].nextAttemptAt <= now]_vars

\* Finished work is not done again: a succeeded or skipped item never changes,
\* and an item that failed, was abandoned or cancelled only comes back through
\* a requeue, with all its attempts.
FinishedStaysFinished ==
    [][\A i \in ItemId :
          items[i].status \in TerminalItem =>
             \/ items'[i] = items[i]
             \/ /\ items[i].status \in RequeueFrom
                /\ items'[i].status = "new"
                /\ items'[i].attempt = 0]_vars

\* A lease whose holder never reports is taken away once it runs out (within
\* the horizon of the clock), so that the item can be claimed again or abandoned.
LeaseReclaimed ==
    \A i \in ItemId, t \in 0..MaxTime :
       items[i].leaseExpiresAt = t ~> items[i].leaseExpiresAt # t
=============================================================================
