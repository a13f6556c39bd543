----------------------------- MODULE WorkerFleet -----------------------------
(***************************************************************************)
(* The server and the worker processes (worker/index.ts) over the files    *)
(* they share: one file per work item, and the worker registry.  Every     *)
(* process reads the files once, when it starts, and from then on knows    *)
(* what it has read and what it has done itself; it writes whole records,  *)
(* and the whole registry.                                                 *)
(*                                                                         *)
(* The claims are those of the lease service (workerLeaseService.ts).  A   *)
(* worker process never reports on an item, so the reports here are those  *)
(* of the job runner in the server.                                        *)
(*                                                                         *)
(* All of it is synchronous code; a step of one process is one step.  The  *)
(* order in which two processes touch the files of different items within  *)
(* their steps is left out, and so are the temporary files.                *)
(***************************************************************************)
EXTENDS WorkItems

CONSTANTS
    LocalRunner,    \* the id under which the server runs items
    ItemIds,
    NoItem,         \* currentWorkItemId = undefined
    Unregistered,   \* the registry has no record of a worker
    MaxAttempts,    \* maxAttempts of the items
    StaleAfterMs,   \* staleAfterMs of the heartbeat service, in clock ticks
    MaxTime,        \* bound of the clock
    MaxStarts       \* bound of the starts of worker processes

Workers == WorkerIds \ {LocalRunner}

Record == [status: {"online", "offline"}, lastHeartbeatAt: Nat, item: ItemIds \cup {NoItem}]
Registry == [Workers -> Record \cup {Unregistered}]

ASSUME WorkerFleetAssumption ==
    /\ LocalRunner \in WorkerIds
    /\ NoItem \notin ItemIds
    /\ Unregistered \notin Record
    /\ MaxAttempts \in Nat \ {0}
    /\ StaleAfterMs \in Nat
    /\ MaxTime \in Nat
    /\ MaxStarts \in Nat

VARIABLES
    now,            \* the wall clock
    up,             \* the processes that run, by worker id
    disk,           \* the item files, AbsentItem where there is none
    copy,           \* the item map of each process
    regFile,        \* the registry file
    reg,            \* the registry map of each worker process
    starts,         \* worker processes started (bound)
    overlapped,     \* two processes have run at a time (history)
    claims          \* claims of each item, by any process (history)

itemVars == <<disk, copy, claims>>
regVars  == <<regFile, reg>>
procVars == <<up, starts, overlapped>>
vars == <<now, itemVars, regVars, procVars>>

TypeOK ==
    /\ now \in Nat
    /\ up \subseteq WorkerIds
    /\ disk \in [ItemIds -> WorkItem]
    /\ copy \in [WorkerIds -> [ItemIds -> WorkItem]]
    /\ regFile \in Registry
    /\ reg \in [Workers -> Registry]
    /\ starts \in Nat
    /\ overlapped \in BOOLEAN
    /\ claims \in [ItemIds -> Nat]

NoItems == [i \in ItemIds |-> AbsentItem]
EmptyRegistry == [w \in Workers |-> Unregistered]

Init ==
    /\ now = 0
    /\ up = {}
    /\ disk = NoItems
    /\ copy = [p \in WorkerIds |-> NoItems]
    /\ regFile = EmptyRegistry
    /\ reg = [w \in Workers |-> EmptyRegistry]
    /\ starts = 0
    /\ overlapped = FALSE
    /\ claims = [i \in ItemIds |-> 0]

-----------------------------------------------------------------------------
(* The registry of one process.                                            *)

Registered(r, w) ==
    [r EXCEPT ![w] = [status |-> "online", lastHeartbeatAt |-> now,
                      item |-> IF r[w] = Unregistered THEN NoItem ELSE r[w].item]]

\* Mutation: the time of the heartbeat is not recorded.
HeartbeatTimeless(r, w) == [r EXCEPT ![w].status = "online"]

\* A worker that was marked offline is online again.
Heartbeat(r, w) == [r EXCEPT ![w].status = "online", ![w].lastHeartbeatAt = now]

MarkBusy(r, w, i) ==
    [r EXCEPT ![w] = [status |-> "online", lastHeartbeatAt |-> now, item |-> i]]

Stale(r, w) ==
    /\ r[w] # Unregistered /\ r[w].status = "online"
    /\ now - r[w].lastHeartbeatAt > StaleAfterMs

MarkStaleOffline(r) ==
    [w \in Workers |-> IF Stale(r, w)
                       THEN [r[w] EXCEPT !.status = "offline", !.item = NoItem] ELSE r[w]]

\* The map of a process and the file it writes all of it to.
PersistRegistry(w, r) ==
    /\ reg' = [reg EXCEPT ![w] = r]
    /\ regFile' = r

-----------------------------------------------------------------------------
(* The items of one process.                                               *)

\* The items that changed in the map of a process are in their files.
WriteChanged(p, items) ==
    disk' = [i \in ItemIds |-> IF items[i] # copy[p][i] THEN items[i] ELSE disk[i]]

Persist(p, items) ==
    /\ copy' = [copy EXCEPT ![p] = items]
    /\ WriteChanged(p, items)

\* claimNext, on the map of the process.
Released(p) == [i \in ItemIds |-> ReleaseIfExpired(copy[p][i], now)]

Due(p) == {i \in ItemIds : IsClaimable(Released(p)[i], now)}

Oldest(p) ==
    {i \in Due(p) : \A k \in Due(p) : ClaimKey(Released(p)[i]) <= ClaimKey(Released(p)[k])}

Leased(p, i) == [Released(p) EXCEPT ![i] = TransitionToLeased(Released(p)[i], p, now)]

-----------------------------------------------------------------------------
(* The processes.                                                          *)

\* Mutation: a process starts without loading the items.
StartedBlank(p) ==
    /\ p \notin up
    /\ up' = up \cup {p}
    /\ overlapped' = (overlapped \/ up # {})
    /\ UNCHANGED <<now, itemVars>>

\* A new process p.
Started(p) ==
    /\ p \notin up
    /\ up' = up \cup {p}
    /\ overlapped' = (overlapped \/ up # {})
    /\ copy' = [copy EXCEPT ![p] = disk]
    /\ UNCHANGED <<now, disk, claims>>

StartServer ==
    /\ Started(LocalRunner)
    /\ UNCHANGED <<regVars, starts>>

\* Both files are loaded, the worker registers, and the heartbeat begins.
StartWorker(w) ==
    /\ starts < MaxStarts
    /\ starts' = starts + 1
    /\ Started(w)
    /\ PersistRegistry(w, MarkStaleOffline(Heartbeat(Registered(regFile, w), w)))

\* What a process had in memory is gone.
Gone(p) ==
    /\ p \in up
    /\ up' = up \ {p}
    /\ copy' = [copy EXCEPT ![p] = NoItems]
    /\ UNCHANGED <<now, starts, overlapped>>

\* The process ends, by a signal or a crash.
StopServer ==
    /\ Gone(LocalRunner)
    /\ UNCHANGED <<disk, claims, regVars>>

StopWorker(w) ==
    /\ Gone(w)
    /\ reg' = [reg EXCEPT ![w] = EmptyRegistry]
    /\ UNCHANGED <<disk, claims, regFile>>

\* The interval timer of the heartbeat service.
HeartbeatTick(w) ==
    /\ w \in up
    /\ PersistRegistry(w, MarkStaleOffline(Heartbeat(reg[w], w)))
    /\ UNCHANGED <<now, itemVars, procVars>>

\* For a worker that finds itself offline claimNext throws, which would end the
\* process.
Available(w) == w \in up /\ reg[w][w].status # "offline"

ClaimNothing(w) ==
    /\ Available(w) /\ Due(w) = {}
    /\ PersistRegistry(w, Heartbeat(reg[w], w))
    /\ Persist(w, Released(w))
    /\ UNCHANGED <<now, claims, procVars>>

ClaimItem(w) ==
    /\ Available(w)
    /\ \E i \in Oldest(w) :
          /\ PersistRegistry(w, MarkBusy(reg[w], w, i))
          /\ Persist(w, Leased(w, i))
          /\ claims' = [claims EXCEPT ![i] = claims[i] + 1]
    /\ UNCHANGED <<now, procVars>>

\* The worker dies in the middle of a claim: with some of the expired items
\* released, or with the item leased and the registry none the wiser.
DiesReleasing(w) ==
    /\ Available(w) /\ Gone(w)
    /\ \E done \in SUBSET ItemIds :
          WriteChanged(w, [i \in ItemIds |-> IF i \in done THEN Released(w)[i] ELSE copy[w][i]])
    /\ regFile' = Heartbeat(reg[w], w)
    /\ reg' = [reg EXCEPT ![w] = EmptyRegistry]
    /\ UNCHANGED claims

DiesClaiming(w) ==
    /\ Available(w) /\ Gone(w)
    /\ \E i \in Oldest(w) :
          /\ WriteChanged(w, Leased(w, i))
          /\ claims' = [claims EXCEPT ![i] = claims[i] + 1]
    /\ regFile' = Heartbeat(reg[w], w)
    /\ reg' = [reg EXCEPT ![w] = EmptyRegistry]

-----------------------------------------------------------------------------
(* The job runner and the routes of the server.                            *)

ServerWrites(items) ==
    /\ LocalRunner \in up
    /\ Persist(LocalRunner, items)
    /\ UNCHANGED <<now, claims, regVars, procVars>>

ServerItem(i) == copy[LocalRunner][i]

CreateWorkItems(ids) ==
    /\ \A i \in ids : ServerItem(i).status = "absent"
    /\ ServerWrites([i \in ItemIds |-> IF i \in ids THEN CreateWorkItem(MaxAttempts, now)
                                                    ELSE ServerItem(i)])

ServerRuns(i) ==
    /\ ServerItem(i).status \in RunFrom
    /\ ServerWrites([copy[LocalRunner] EXCEPT
                        ![i] = TransitionToRunning(ServerItem(i), LocalRunner)])

ServerReports(i) ==
    /\ ServerItem(i).status \in FinishFrom
    /\ \E status \in {"succeeded", "skipped", "failed"} :
          ServerWrites([copy[LocalRunner] EXCEPT ![i] =
             IF status = "failed" THEN TransitionToFailed(ServerItem(i), FALSE, now)
             ELSE TransitionToDone(ServerItem(i), status)])

ServerCancels(i) ==
    /\ ServerItem(i).status \in CancelFrom
    /\ ServerWrites([copy[LocalRunner] EXCEPT
                        ![i] = TransitionToDone(ServerItem(i), "cancelled")])

Tick ==
    /\ now < MaxTime
    /\ now' = now + 1
    /\ UNCHANGED <<itemVars, regVars, procVars>>

-----------------------------------------------------------------------------
WorkerStep(w) ==
    \/ StartWorker(w) \/ StopWorker(w) \/ HeartbeatTick(w)
    \/ ClaimNothing(w) \/ ClaimItem(w) \/ DiesReleasing(w) \/ DiesClaiming(w)

ServerStep ==
    \/ StartServer \/ StopServer
    \/ \E ids \in SUBSET ItemIds \ {{}} : CreateWorkItems(ids)
    \/ \E i \in ItemIds : ServerRuns(i) \/ ServerReports(i) \/ ServerCancels(i)

Next ==
    \/ \E w \in Workers : WorkerStep(w)
    \/ ServerStep
    \/ Tick

Spec == Init /\ [][Next]_vars

-----------------------------------------------------------------------------
(* One item and its file, seen as the queue of WorkItemQueue.              *)

Life(i) == INSTANCE WorkItemQueue
    WITH Jobs <- {i}, AccountIds <- {i}, MaxAttemptsIn <- {MaxAttempts},
         items <- [q \in {i} \X {i} |-> disk[i]]

-----------------------------------------------------------------------------
(* Properties.                                                             *)

\* Processes that run one after the other hand everything over through the
\* files: what the one that runs has in memory is what the next would load,
\* wherever the ones before it died.
AloneIsTrue ==
    \A p \in up : ~overlapped =>
       /\ copy[p] = disk
       /\ p \in Workers => reg[p] = regFile

\* Processes that do not overlap are one queue to every item: what a step leaves
\* in the file of an item, a process that dies in its middle included, is what
\* one operation of a single store would have made of it.
ItemsAreQueued ==
    [][\A i \in ItemIds : ~overlapped' => Life(i)!Next \/ UNCHANGED Life(i)!vars]_vars

\* The attempts on file count every claim, and none is made beyond the maximum,
\* as long as processes do not overlap; overlapping ones may each use up all
\* the attempts of an item.
ClaimsCounted ==
    \A i \in ItemIds :
       /\ claims[i] <= MaxAttempts * (IF overlapped THEN starts ELSE 1)
       /\ ~overlapped => disk[i].attempt = claims[i]

\* A running worker never takes itself for dead, whatever other processes have
\* written about it: its claims are not refused.
OwnRecordOnline == \A w \in Workers \cap up : Available(w)
=============================================================================
