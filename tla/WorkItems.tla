------------------------------ MODULE WorkItems ------------------------------
(***************************************************************************)
(* The work item record and its transitions, as workItemStateMachine.ts    *)
(* defines them.  Each transition of the code throws when the item's       *)
(* status is not one it accepts; WorkItemStatus has the sets of accepted   *)
(* statuses, and a transition here is the record it returns.               *)
(*                                                                         *)
(* An item has one row per (job, account).  Timestamps are natural         *)
(* numbers, a missing optional timestamp is NoTime and a missing worker is *)
(* NoWorker.  Messages, artifacts, history and the failure category are    *)
(* left out: no decision of the code reads them back.                      *)
(***************************************************************************)
EXTENDS Integers, WorkItemStatus

CONSTANTS
    WorkerIds,      \* the ids workers register under, "local-runner" among them
    NoWorker,       \* item.workerId = undefined
    LeaseMs,        \* claim option leaseMs, in clock ticks
    RetryDelayMs    \* retryDelayMs of a reported failure, in clock ticks

ASSUME WorkItemsAssumption ==
    /\ NoWorker \notin WorkerIds
    /\ LeaseMs \in Nat \ {0}
    /\ RetryDelayMs \in Nat

NoTime == -1

OptionalTime == Nat \cup {NoTime}

WorkItem ==
    [status: ItemStatus,
     attempt: Nat,
     maxAttempts: Nat \ {0},
     createdAt: Nat,
     nextAttemptAt: OptionalTime,
     workerId: WorkerIds \cup {NoWorker},
     leaseExpiresAt: OptionalTime]

-----------------------------------------------------------------------------
(* The transitions.                                                        *)

AbsentItem ==
    [status |-> "absent", attempt |-> 0, maxAttempts |-> 1, createdAt |-> 0,
     nextAttemptAt |-> NoTime, workerId |-> NoWorker, leaseExpiresAt |-> NoTime]

CreateWorkItem(max, now) ==
    [AbsentItem EXCEPT !.status = "new",
                       !.maxAttempts = IF max > 1 THEN max ELSE 1,
                       !.createdAt = now]

TransitionToLeased(item, w, now) ==
    [item EXCEPT !.status = "leased",
                 !.attempt = item.attempt + 1,
                 !.workerId = w,
                 !.leaseExpiresAt = now + LeaseMs,
                 !.nextAttemptAt = NoTime]

TransitionToRunning(item, w) ==
    [item EXCEPT !.status = "running", !.workerId = w]

\* Succeeded, skipped and cancelled differ in nothing but the status.
TransitionToDone(item, status) ==
    [item EXCEPT !.status = status,
                 !.leaseExpiresAt = NoTime,
                 !.workerId = NoWorker]

TransitionToFailed(item, retryable, now) ==
    LET shouldRetry == retryable /\ item.attempt < item.maxAttempts
    IN  [item EXCEPT !.status = IF shouldRetry THEN "retrying" ELSE "failed",
                     !.nextAttemptAt = IF shouldRetry THEN now + RetryDelayMs ELSE NoTime,
                     !.leaseExpiresAt = NoTime,
                     !.workerId = NoWorker]

\* Mutation: only a running item can lose its lease.
LeaseExpiredRunning(item, now) ==
    /\ item.status = "running"
    /\ item.leaseExpiresAt # NoTime
    /\ item.leaseExpiresAt <= now

LeaseExpired(item, now) ==
    /\ item.status \in HeldItem
    /\ item.leaseExpiresAt # NoTime
    /\ item.leaseExpiresAt <= now

\* Mutation: an expired lease is retried without end.
ReleaseIfExpiredAlways(item, now) ==
    IF LeaseExpired(item, now)
    THEN [item EXCEPT !.status = "retrying", !.workerId = NoWorker, !.leaseExpiresAt = NoTime]
    ELSE item

\* transitionExpiredLease, and the item itself where that returns undefined.
ReleaseIfExpired(item, now) ==
    IF LeaseExpired(item, now)
    THEN [item EXCEPT !.status = IF item.attempt < item.maxAttempts
                                 THEN "retrying" ELSE "abandoned",
                      !.workerId = NoWorker,
                      !.leaseExpiresAt = NoTime]
    ELSE item

TransitionToRequeued(item) ==
    [item EXCEPT !.status = "new",
                 !.attempt = 0,
                 !.nextAttemptAt = NoTime,
                 !.workerId = NoWorker,
                 !.leaseExpiresAt = NoTime]

-----------------------------------------------------------------------------
(* Selection, from fileWorkItemStore.ts.                                   *)

\* Mutation: the retry delay is not waited for.
IsClaimableEarly(item, now) == item.status \in LeaseFrom

IsClaimable(item, now) ==
    /\ item.status \in LeaseFrom
    /\ item.nextAttemptAt = NoTime \/ item.nextAttemptAt <= now

\* claimNext sorts by nextAttemptAt ?? createdAt.
ClaimKey(item) ==
    IF item.nextAttemptAt = NoTime THEN item.createdAt ELSE item.nextAttemptAt
=============================================================================
