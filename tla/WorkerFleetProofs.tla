-------------------------- MODULE WorkerFleetProofs --------------------------
(***************************************************************************)
(* Safety of WorkerFleet for any workers, items, attempts, delays and      *)
(* bounds.                                                                 *)
(*                                                                         *)
(* Types and the worker's own registry record depend on each other: a      *)
(* heartbeat yields a record only where there is one.  The hand-over       *)
(* between processes that do not overlap is invariant by itself, and with  *)
(* it every step is one of the queue of WorkItemQueue to each item.        *)
(***************************************************************************)
EXTENDS WorkerFleet, FiniteSetTheorems, TLAPS

ItemMap == [ItemIds -> WorkItem]

-----------------------------------------------------------------------------
(* Items.                                                                  *)

\* An absent item is a work item.
LEMMA AbsentType == AbsentItem \in WorkItem
  BY DEF AbsentItem, WorkItem, ItemStatus, OptionalTime

\* A created item is a work item.
LEMMA CreateType ==
    ASSUME NEW t \in Nat
    PROVE  CreateWorkItem(MaxAttempts, t) \in WorkItem
  <1>1. (IF MaxAttempts > 1 THEN MaxAttempts ELSE 1) \in Nat \ {0}
    BY WorkerFleetAssumption
  <1>2. QED
    BY <1>1 DEF CreateWorkItem, AbsentItem, WorkItem, ItemStatus, OptionalTime

\* The transitions of the state machine yield work items.
LEMMA TransitionTypes ==
    ASSUME NEW item \in WorkItem, NEW w \in WorkerIds, NEW t \in Nat
    PROVE  /\ ReleaseIfExpired(item, t) \in WorkItem
           /\ TransitionToLeased(item, w, t) \in WorkItem
           /\ TransitionToRunning(item, w) \in WorkItem
           /\ \A s \in ItemStatus : TransitionToDone(item, s) \in WorkItem
           /\ TransitionToFailed(item, FALSE, t) \in WorkItem
  <1>1. ReleaseIfExpired(item, t) \in WorkItem
    BY DEF ReleaseIfExpired, WorkItem, ItemStatus, OptionalTime
  <1>2. t + LeaseMs \in Nat /\ item.attempt + 1 \in Nat
    BY WorkItemsAssumption DEF WorkItem
  <1>3. TransitionToLeased(item, w, t) \in WorkItem
    BY <1>2 DEF TransitionToLeased, WorkItem, ItemStatus, OptionalTime
  <1>4. TransitionToRunning(item, w) \in WorkItem
    BY DEF TransitionToRunning, WorkItem, ItemStatus
  <1>5. \A s \in ItemStatus : TransitionToDone(item, s) \in WorkItem
    BY DEF TransitionToDone, WorkItem, OptionalTime
  <1>6. TransitionToFailed(item, FALSE, t) \in WorkItem
    BY DEF TransitionToFailed, WorkItem, ItemStatus, OptionalTime
  <1>7. QED
    BY <1>1, <1>3, <1>4, <1>5, <1>6

\* What claimNext makes of the map of a process is a map of items.
LEMMA ClaimTypes ==
    ASSUME TypeOK, NEW w \in WorkerIds
    PROVE  /\ Released(w) \in ItemMap
           /\ \A i \in Oldest(w) : i \in ItemIds /\ Leased(w, i) \in ItemMap
  <1>1. copy[w] \in ItemMap /\ now \in Nat
    BY DEF TypeOK, ItemMap
  <1>2. Released(w) \in ItemMap
    BY <1>1, TransitionTypes DEF Released, ItemMap
  <1>3. ASSUME NEW i \in Oldest(w)
        PROVE  i \in ItemIds /\ Leased(w, i) \in ItemMap
    <2>1. i \in ItemIds
      BY DEF Oldest, Due
    <2>2. TransitionToLeased(Released(w)[i], w, now) \in WorkItem
      BY <1>1, <1>2, <2>1, TransitionTypes DEF ItemMap
    <2>3. QED
      BY <1>2, <2>1, <2>2 DEF Leased, ItemMap
  <1>4. QED
    BY <1>2, <1>3

\* Writing the items that changed leaves a map of items in the files.
LEMMA WriteType ==
    ASSUME TypeOK, NEW p \in WorkerIds, NEW its \in ItemMap, WriteChanged(p, its)
    PROVE  disk' \in ItemMap
  BY DEF WriteChanged, TypeOK, ItemMap

\* A process that had the files in memory still has them after it persisted.
LEMMA PersistEffect ==
    ASSUME TypeOK, NEW p \in WorkerIds, NEW its \in ItemMap, Persist(p, its)
    PROVE  /\ disk' \in ItemMap
           /\ copy' \in [WorkerIds -> ItemMap]
           /\ copy'[p] = its
           /\ copy[p] = disk => copy'[p] = disk'
  <1>1. disk' \in ItemMap
    BY WriteType DEF Persist
  <1>2. copy' \in [WorkerIds -> ItemMap] /\ copy'[p] = its
    BY DEF Persist, TypeOK, ItemMap
  <1>3. ASSUME copy[p] = disk
        PROVE  its = disk'
    <2>1. \A i \in ItemIds : disk'[i] = its[i]
      BY <1>3 DEF Persist, WriteChanged
    <2>2. QED
      BY <1>1, <2>1 DEF ItemMap
  <1>4. QED
    BY <1>1, <1>2, <1>3

-----------------------------------------------------------------------------
(* The registry.                                                           *)

\* The registry of a worker has its own record, and says that it is online.
OnlineIn(r, w) == r \in Registry /\ r[w] \in Record /\ r[w].status = "online"

\* Marking stale workers offline spares a worker that has just sent a heartbeat.
LEMMA MarkStaleSpares ==
    ASSUME NEW r, NEW w \in Workers, OnlineIn(r, w), r[w].lastHeartbeatAt = now, now \in Nat
    PROVE  OnlineIn(MarkStaleOffline(r), w)
  <1>1. MarkStaleOffline(r) \in Registry
    <2>1. ASSUME NEW v \in Workers
          PROVE  (IF Stale(r, v) THEN [r[v] EXCEPT !.status = "offline", !.item = NoItem]
                  ELSE r[v]) \in Record \cup {Unregistered}
      BY DEF OnlineIn, Registry, Record, Stale
    <2>2. QED
      BY <2>1 DEF MarkStaleOffline, Registry
  <1>2. ~Stale(r, w)
    <2>1. ~(now - r[w].lastHeartbeatAt > StaleAfterMs)
      BY WorkerFleetAssumption
    <2>2. QED
      BY <2>1 DEF Stale
  <1>3. QED
    BY <1>1, <1>2 DEF MarkStaleOffline, OnlineIn

\* A heartbeat leaves the worker online, as of now.
LEMMA HeartbeatOnline ==
    ASSUME NEW r \in Registry, NEW w \in Workers, r[w] \in Record, now \in Nat
    PROVE  OnlineIn(Heartbeat(r, w), w) /\ Heartbeat(r, w)[w].lastHeartbeatAt = now
  <1> DEFINE rec == [r[w] EXCEPT !.status = "online", !.lastHeartbeatAt = now]
  <1>1. rec \in Record /\ rec.status = "online" /\ rec.lastHeartbeatAt = now
    BY DEF Record
  <1>2. Heartbeat(r, w) = [r EXCEPT ![w] = rec]
    BY DEF Heartbeat, Registry
  <1>3. QED
    BY <1>1, <1>2 DEF OnlineIn, Registry

\* A registered worker has a record.
LEMMA RegisteredRecord ==
    ASSUME NEW r \in Registry, NEW w \in Workers, now \in Nat
    PROVE  Registered(r, w) \in Registry /\ Registered(r, w)[w] \in Record
  BY DEF Registered, Registry, Record

\* A worker that has claimed an item is online.
LEMMA BusyOnline ==
    ASSUME NEW r \in Registry, NEW w \in Workers, NEW i \in ItemIds, now \in Nat
    PROVE  OnlineIn(MarkBusy(r, w, i), w)
  BY DEF MarkBusy, OnlineIn, Registry, Record

-----------------------------------------------------------------------------
(* The types, and the worker's own record.                                 *)

RecordInv == \A w \in Workers \cap up : OnlineIn(reg[w], w)

TypeInv == TypeOK /\ RecordInv

\* Nothing runs and nothing is on file at first.
LEMMA TypeInit == Init => TypeInv
  <1> SUFFICES ASSUME Init
               PROVE  TypeInv
    OBVIOUS
  <1>1. NoItems \in ItemMap /\ EmptyRegistry \in Registry
    BY AbsentType DEF NoItems, ItemMap, EmptyRegistry, Registry
  <1>2. TypeOK
    BY <1>1 DEF Init, TypeOK, ItemMap
  <1>3. RecordInv
    BY DEF Init, RecordInv
  <1>4. QED
    BY <1>2, <1>3 DEF TypeInv

\* Persisting the registry of one worker keeps the records of all.
LEMMA PersistRegistryType ==
    ASSUME TypeInv, NEW w \in Workers, NEW r, OnlineIn(r, w), PersistRegistry(w, r)
    PROVE  /\ regFile' \in Registry /\ reg' \in [Workers -> Registry]
           /\ \A v \in Workers : v \in up \/ v = w => OnlineIn(reg'[v], v)
  BY DEF TypeInv, TypeOK, RecordInv, PersistRegistry, OnlineIn

\* The end of a worker leaves the records of the others.
LEMMA GoneType ==
    ASSUME TypeInv, NEW w \in Workers, Gone(w), reg' = [reg EXCEPT ![w] = EmptyRegistry]
    PROVE  /\ up' \subseteq WorkerIds /\ copy' \in [WorkerIds -> ItemMap]
           /\ reg' \in [Workers -> Registry] /\ RecordInv'
           /\ now' \in Nat /\ starts' \in Nat /\ overlapped' \in BOOLEAN
  <1>1. EmptyRegistry \in Registry /\ NoItems \in ItemMap
    BY AbsentType DEF EmptyRegistry, Registry, NoItems, ItemMap
  <1>2. up' = up \ {w}
    BY DEF Gone
  <1>3. copy' \in [WorkerIds -> ItemMap]
    BY <1>1 DEF Gone, TypeInv, TypeOK, ItemMap
  <1>4. RecordInv'
    BY <1>2 DEF TypeInv, TypeOK, RecordInv
  <1>5. QED
    BY <1>1, <1>2, <1>3, <1>4 DEF Gone, TypeInv, TypeOK

\* Writing items of the server keeps the types.
LEMMA ServerWritesType ==
    ASSUME TypeInv, NEW its \in ItemMap, ServerWrites(its)
    PROVE  TypeInv'
  <1>1. disk' \in ItemMap /\ copy' \in [WorkerIds -> ItemMap]
    BY PersistEffect, WorkerFleetAssumption DEF ServerWrites, TypeInv
  <1>2. UNCHANGED <<now, claims, regFile, reg, up, starts, overlapped>>
    BY DEF ServerWrites, regVars, procVars
  <1>3. QED
    BY <1>1, <1>2 DEF TypeInv, TypeOK, RecordInv, ItemMap

\* What the steps of the server write are maps of items.
LEMMA ServerEffect ==
    ASSUME TypeInv,
           \/ \E ids \in SUBSET ItemIds \ {{}} : CreateWorkItems(ids)
           \/ \E i \in ItemIds : ServerRuns(i) \/ ServerReports(i) \/ ServerCancels(i)
    PROVE  \E its \in ItemMap : ServerWrites(its)
  <1> DEFINE mine == copy[LocalRunner]
  <1>1. mine \in ItemMap /\ now \in Nat
    BY WorkerFleetAssumption DEF TypeInv, TypeOK, ItemMap
  <1>2. ASSUME NEW ids \in SUBSET ItemIds, CreateWorkItems(ids)
        PROVE  \E its \in ItemMap : ServerWrites(its)
    <2> DEFINE new == [i \in ItemIds |-> IF i \in ids THEN CreateWorkItem(MaxAttempts, now)
                                         ELSE ServerItem(i)]
    <2>1. new \in ItemMap
      BY <1>1, CreateType DEF ServerItem, ItemMap
    <2>2. ServerWrites(new)
      BY <1>2 DEF CreateWorkItems
    <2>3. QED
      BY <2>1, <2>2
  <1>3. ASSUME NEW i \in ItemIds, NEW item \in WorkItem, ServerWrites([mine EXCEPT ![i] = item])
        PROVE  \E its \in ItemMap : ServerWrites(its)
    <2>1. [mine EXCEPT ![i] = item] \in ItemMap
      BY <1>1 DEF ItemMap
    <2>2. QED
      BY <1>3, <2>1
  <1>4. ASSUME NEW i \in ItemIds, ServerRuns(i) \/ ServerReports(i) \/ ServerCancels(i)
        PROVE  \E its \in ItemMap : ServerWrites(its)
    <2> DEFINE item == ServerItem(i)
    <2>1. item \in WorkItem /\ LocalRunner \in WorkerIds
      BY <1>1, WorkerFleetAssumption DEF ServerItem, ItemMap
    <2>2. {"succeeded", "skipped", "failed", "cancelled"} \subseteq ItemStatus
      BY DEF ItemStatus
    <2>3. CASE ServerRuns(i)
      <3>1. TransitionToRunning(item, LocalRunner) \in WorkItem
        BY <1>1, <2>1, TransitionTypes
      <3>2. QED
        BY <1>3, <2>3, <3>1 DEF ServerRuns
    <2>4. CASE ServerReports(i)
      <3>1. PICK status \in {"succeeded", "skipped", "failed"} :
               ServerWrites([mine EXCEPT ![i] =
                  IF status = "failed" THEN TransitionToFailed(item, FALSE, now)
                  ELSE TransitionToDone(item, status)])
        BY <2>4 DEF ServerReports
      <3>2. (IF status = "failed" THEN TransitionToFailed(item, FALSE, now)
             ELSE TransitionToDone(item, status)) \in WorkItem
        BY <1>1, <2>1, <2>2, TransitionTypes
      <3>3. QED
        BY <1>3, <3>1, <3>2
    <2>5. CASE ServerCancels(i)
      <3>1. TransitionToDone(item, "cancelled") \in WorkItem
        BY <1>1, <2>1, <2>2, TransitionTypes
      <3>2. QED
        BY <1>3, <2>5, <3>1 DEF ServerCancels
    <2>6. QED
      BY <1>4, <2>3, <2>4, <2>5
  <1>5. QED
    BY <1>2, <1>4

\* Every step of a process keeps the types and the running workers' own records.
LEMMA TypeNext == TypeInv /\ [Next]_vars => TypeInv'
  <1> SUFFICES ASSUME TypeInv, [Next]_vars
               PROVE  TypeInv'
    OBVIOUS
  <1>1. TypeOK /\ RecordInv
    BY DEF TypeInv
  <1>2. \A w \in Workers : w \in WorkerIds /\ w # LocalRunner
    BY DEF Workers
  <1>3. \A w \in Workers : Available(w) => w \in up /\ OnlineIn(reg[w], w) /\ reg[w] \in Registry
    BY <1>1 DEF Available, RecordInv, OnlineIn
  <1>4. \A i \in ItemIds : claims[i] + 1 \in Nat
    BY <1>1 DEF TypeOK
  <1>5. now \in Nat
    BY <1>1 DEF TypeOK
  <1>6. \A w \in Workers : Available(w) => OnlineIn(Heartbeat(reg[w], w), w)
    BY <1>3, <1>5, HeartbeatOnline DEF OnlineIn
  <1>7. ASSUME NEW w \in Workers, StartWorker(w)
        PROVE  TypeInv'
    <2> DEFINE r == Registered(regFile, w)
    <2>1. r \in Registry /\ r[w] \in Record
      BY <1>1, <1>5, RegisteredRecord DEF TypeOK
    <2>2. OnlineIn(MarkStaleOffline(Heartbeat(r, w)), w)
      BY <1>5, <2>1, HeartbeatOnline, MarkStaleSpares
    <2>3. PersistRegistry(w, MarkStaleOffline(Heartbeat(r, w)))
      BY <1>7 DEF StartWorker
    <2>4. /\ regFile' \in Registry /\ reg' \in [Workers -> Registry]
          /\ \A v \in Workers : v \in up \/ v = w => OnlineIn(reg'[v], v)
      BY <2>2, <2>3, PersistRegistryType
    <2>5. up' = up \cup {w} /\ copy' = [copy EXCEPT ![w] = disk] /\ starts' = starts + 1
          /\ overlapped' = (overlapped \/ up # {}) /\ UNCHANGED <<now, disk, claims>>
      BY <1>7 DEF StartWorker, Started
    <2>6. RecordInv'
      BY <2>4, <2>5 DEF RecordInv
    <2>7. TypeOK'
      BY <1>1, <1>2, <2>4, <2>5 DEF TypeOK
    <2>8. QED
      BY <2>6, <2>7 DEF TypeInv
  <1>8. ASSUME NEW w \in Workers, StopWorker(w)
        PROVE  TypeInv'
    <2>1. Gone(w) /\ reg' = [reg EXCEPT ![w] = EmptyRegistry] /\ UNCHANGED <<disk, claims, regFile>>
      BY <1>8 DEF StopWorker
    <2>2. QED
      BY <1>1, <2>1, GoneType DEF TypeInv, TypeOK, ItemMap
  <1>9. ASSUME NEW w \in Workers, HeartbeatTick(w)
        PROVE  TypeInv'
    <2>1. reg[w] \in Registry /\ reg[w][w] \in Record
      BY <1>1, <1>9 DEF HeartbeatTick, RecordInv, OnlineIn
    <2>2. OnlineIn(MarkStaleOffline(Heartbeat(reg[w], w)), w)
      BY <1>5, <2>1, HeartbeatOnline, MarkStaleSpares
    <2>3. /\ regFile' \in Registry /\ reg' \in [Workers -> Registry]
          /\ \A v \in Workers : v \in up \/ v = w => OnlineIn(reg'[v], v)
      BY <1>9, <2>2, PersistRegistryType DEF HeartbeatTick
    <2>4. UNCHANGED <<now, disk, copy, claims, up, starts, overlapped>>
      BY <1>9 DEF HeartbeatTick, itemVars, procVars
    <2>5. QED
      BY <1>1, <2>3, <2>4 DEF TypeInv, TypeOK, RecordInv
  <1>10. ASSUME NEW w \in Workers, ClaimNothing(w)
         PROVE  TypeInv'
    <2>1. Released(w) \in ItemMap
      BY <1>1, <1>2, ClaimTypes
    <2>2. disk' \in ItemMap /\ copy' \in [WorkerIds -> ItemMap]
      BY <1>1, <1>2, <1>10, <2>1, PersistEffect DEF ClaimNothing
    <2>3. /\ regFile' \in Registry /\ reg' \in [Workers -> Registry]
          /\ \A v \in Workers : v \in up \/ v = w => OnlineIn(reg'[v], v)
      BY <1>6, <1>10, PersistRegistryType DEF ClaimNothing
    <2>4. UNCHANGED <<now, claims, up, starts, overlapped>>
      BY <1>10 DEF ClaimNothing, procVars
    <2>5. QED
      BY <1>1, <2>2, <2>3, <2>4 DEF TypeInv, TypeOK, RecordInv, ItemMap
  <1>11. ASSUME NEW w \in Workers, ClaimItem(w)
         PROVE  TypeInv'
    <2>1. PICK i \in Oldest(w) :
             /\ PersistRegistry(w, MarkBusy(reg[w], w, i))
             /\ Persist(w, Leased(w, i))
             /\ claims' = [claims EXCEPT ![i] = claims[i] + 1]
      BY <1>11 DEF ClaimItem
    <2>2. i \in ItemIds /\ Leased(w, i) \in ItemMap
      BY <1>1, <1>2, ClaimTypes
    <2>3. disk' \in ItemMap /\ copy' \in [WorkerIds -> ItemMap]
      BY <1>1, <1>2, <2>1, <2>2, PersistEffect
    <2>4. OnlineIn(MarkBusy(reg[w], w, i), w)
      BY <1>3, <1>5, <1>11, <2>2, BusyOnline DEF ClaimItem
    <2>5. /\ regFile' \in Registry /\ reg' \in [Workers -> Registry]
          /\ \A v \in Workers : v \in up \/ v = w => OnlineIn(reg'[v], v)
      BY <2>1, <2>4, PersistRegistryType
    <2>6. UNCHANGED <<now, up, starts, overlapped>>
      BY <1>11 DEF ClaimItem, procVars
    <2>7. claims' \in [ItemIds -> Nat]
      BY <1>1, <1>4, <2>1, <2>2 DEF TypeOK
    <2>8. QED
      BY <1>1, <2>3, <2>5, <2>6, <2>7 DEF TypeInv, TypeOK, RecordInv, ItemMap
  <1>12. ASSUME NEW w \in Workers, DiesReleasing(w)
         PROVE  TypeInv'
    <2>1. PICK done \in SUBSET ItemIds :
             WriteChanged(w, [i \in ItemIds |-> IF i \in done THEN Released(w)[i] ELSE copy[w][i]])
      BY <1>12 DEF DiesReleasing
    <2>2. [i \in ItemIds |-> IF i \in done THEN Released(w)[i] ELSE copy[w][i]] \in ItemMap
      BY <1>1, <1>2, ClaimTypes DEF TypeOK, ItemMap
    <2>3. disk' \in ItemMap
      BY <1>1, <1>2, <2>1, <2>2, WriteType
    <2>4. regFile' \in Registry
      BY <1>6, <1>12 DEF DiesReleasing, OnlineIn
    <2>5. Gone(w) /\ reg' = [reg EXCEPT ![w] = EmptyRegistry] /\ UNCHANGED claims
      BY <1>12 DEF DiesReleasing
    <2>6. QED
      BY <1>1, <2>3, <2>4, <2>5, GoneType DEF TypeInv, TypeOK, ItemMap
  <1>13. ASSUME NEW w \in Workers, DiesClaiming(w)
         PROVE  TypeInv'
    <2>1. PICK i \in Oldest(w) :
             /\ WriteChanged(w, Leased(w, i))
             /\ claims' = [claims EXCEPT ![i] = claims[i] + 1]
      BY <1>13 DEF DiesClaiming
    <2>2. i \in ItemIds /\ Leased(w, i) \in ItemMap
      BY <1>1, <1>2, ClaimTypes
    <2>3. disk' \in ItemMap
      BY <1>1, <1>2, <2>1, <2>2, WriteType
    <2>4. claims' \in [ItemIds -> Nat]
      BY <1>1, <1>4, <2>1, <2>2 DEF TypeOK
    <2>5. regFile' \in Registry
      BY <1>6, <1>13 DEF DiesClaiming, OnlineIn
    <2>6. Gone(w) /\ reg' = [reg EXCEPT ![w] = EmptyRegistry]
      BY <1>13 DEF DiesClaiming
    <2>7. QED
      BY <1>1, <2>3, <2>4, <2>5, <2>6, GoneType DEF TypeInv, TypeOK, ItemMap
  <1>14. CASE StartServer
    <2>1. up' = up \cup {LocalRunner} /\ copy' = [copy EXCEPT ![LocalRunner] = disk]
          /\ overlapped' = (overlapped \/ up # {})
          /\ UNCHANGED <<now, disk, claims, regFile, reg, starts>>
      BY <1>14 DEF StartServer, Started, regVars
    <2>2. TypeOK'
      BY <1>1, <2>1, WorkerFleetAssumption DEF TypeOK
    <2>3. RecordInv'
      BY <1>1, <1>2, <2>1 DEF RecordInv
    <2>4. QED
      BY <2>2, <2>3 DEF TypeInv
  <1>15. CASE StopServer
    <2>1. up' = up \ {LocalRunner} /\ copy' = [copy EXCEPT ![LocalRunner] = NoItems]
          /\ UNCHANGED <<now, disk, claims, regFile, reg, starts, overlapped>>
      BY <1>15 DEF StopServer, Gone, regVars
    <2>2. NoItems \in ItemMap
      BY AbsentType DEF NoItems, ItemMap
    <2>3. QED
      BY <1>1, <2>1, <2>2 DEF TypeInv, TypeOK, RecordInv, ItemMap
  <1>16. CASE \/ \E ids \in SUBSET ItemIds \ {{}} : CreateWorkItems(ids)
              \/ \E i \in ItemIds : ServerRuns(i) \/ ServerReports(i) \/ ServerCancels(i)
    BY <1>16, ServerEffect, ServerWritesType
  <1>17. CASE Tick
    BY <1>1, <1>17 DEF Tick, itemVars, regVars, procVars, TypeInv, TypeOK, RecordInv
  <1>18. CASE UNCHANGED vars
    BY <1>1, <1>18 DEF vars, itemVars, regVars, procVars, TypeInv, TypeOK, RecordInv
  <1>19. QED
    BY <1>7, <1>8, <1>9, <1>10, <1>11, <1>12, <1>13, <1>14, <1>15, <1>16, <1>17, <1>18
    DEF Next, WorkerStep, ServerStep

\* Types and records hold in every reachable state.
THEOREM Invariance == Spec => []TypeInv
  BY TypeInit, TypeNext, PTL DEF Spec

\* Every variable of the fleet keeps its type.
THEOREM TypeCorrect == Spec => []TypeOK
  <1>1. TypeInv => TypeOK
    BY DEF TypeInv
  <1>2. QED
    BY <1>1, Invariance, PTL

\* A running worker never finds itself offline: its claims are not refused.
THEOREM NeverRefused == Spec => []OwnRecordOnline
  <1>1. TypeInv => OwnRecordOnline
    BY DEF TypeInv, RecordInv, OnlineIn, OwnRecordOnline, Available
  <1>2. QED
    BY <1>1, Invariance, PTL

-----------------------------------------------------------------------------
(* The hand-over between processes that do not overlap.                    *)

AloneInv ==
    ~overlapped => \A p \in up :
                      /\ up = {p}
                      /\ copy[p] = disk
                      /\ p \in Workers => reg[p] = regFile

\* When a process ends, no other one is left that could have missed anything.
LEMMA GoneAlone ==
    ASSUME AloneInv, NEW p, Gone(p)
    PROVE  AloneInv'
  <1>1. up' = up \ {p} /\ p \in up /\ overlapped' = overlapped
    BY DEF Gone
  <1>2. QED
    BY <1>1 DEF AloneInv

\* A process that alone persists items and registry has what the files have.
LEMMA PersistAlone ==
    ASSUME TypeOK, AloneInv, NEW w \in Workers \cap up,
           NEW its \in ItemMap, NEW r,
           Persist(w, its), PersistRegistry(w, r), UNCHANGED <<up, overlapped>>
    PROVE  AloneInv'
  <1>1. w \in WorkerIds
    BY DEF Workers
  <1>2. copy[w] = disk => copy'[w] = disk'
    BY <1>1, PersistEffect
  <1>3. reg'[w] = regFile'
    BY DEF PersistRegistry, TypeOK
  <1>4. QED
    BY <1>2, <1>3 DEF AloneInv

\* A new process is alone only if nothing else runs, and has read the files.
LEMMA StartAlone ==
    ASSUME TypeOK, AloneInv, NEW p \in WorkerIds, Started(p), p \in Workers => reg'[p] = regFile'
    PROVE  AloneInv'
  <1>1. up' = up \cup {p} /\ overlapped' = (overlapped \/ up # {})
    BY DEF Started
  <1>2. copy'[p] = disk'
    BY DEF Started, TypeOK
  <1>3. QED
    BY <1>1, <1>2 DEF AloneInv

\* Every step keeps the hand-over.
LEMMA AloneNext == TypeInv /\ AloneInv /\ [Next]_vars => AloneInv'
  <1> SUFFICES ASSUME TypeInv, AloneInv, [Next]_vars
               PROVE  AloneInv'
    OBVIOUS
  <1>1. TypeOK /\ LocalRunner \notin Workers /\ LocalRunner \in WorkerIds
    BY WorkerFleetAssumption DEF TypeInv, Workers
  <1>2. \A w \in Workers : w \in WorkerIds
    BY DEF Workers
  <1>3. ASSUME NEW w \in Workers, StartWorker(w)
        PROVE  AloneInv'
    <2>1. reg'[w] = regFile'
      BY <1>1, <1>3 DEF StartWorker, PersistRegistry, TypeOK
    <2>2. QED
      BY <1>1, <1>2, <1>3, <2>1, StartAlone DEF StartWorker
  <1>4. ASSUME NEW w \in Workers,
               StopWorker(w) \/ DiesReleasing(w) \/ DiesClaiming(w)
        PROVE  AloneInv'
    BY <1>4, GoneAlone DEF StopWorker, DiesReleasing, DiesClaiming
  <1>5. ASSUME NEW w \in Workers, HeartbeatTick(w)
        PROVE  AloneInv'
    <2>1. reg'[w] = regFile'
      BY <1>1, <1>5 DEF HeartbeatTick, PersistRegistry, TypeOK
    <2>2. w \in up /\ UNCHANGED <<disk, copy, up, overlapped>>
      BY <1>5 DEF HeartbeatTick, itemVars, procVars
    <2>3. QED
      BY <2>1, <2>2 DEF AloneInv
  <1>6. ASSUME NEW w \in Workers, ClaimNothing(w)
        PROVE  AloneInv'
    <2>1. w \in up /\ Released(w) \in ItemMap /\ UNCHANGED <<up, overlapped>>
      BY <1>1, <1>2, <1>6, ClaimTypes DEF ClaimNothing, Available, procVars
    <2>2. QED
      BY <1>1, <1>6, <2>1, PersistAlone DEF ClaimNothing
  <1>7. ASSUME NEW w \in Workers, ClaimItem(w)
        PROVE  AloneInv'
    <2>1. PICK i \in Oldest(w) :
             PersistRegistry(w, MarkBusy(reg[w], w, i)) /\ Persist(w, Leased(w, i))
      BY <1>7 DEF ClaimItem
    <2>2. w \in up /\ Leased(w, i) \in ItemMap /\ UNCHANGED <<up, overlapped>>
      BY <1>1, <1>2, <1>7, ClaimTypes DEF ClaimItem, Available, procVars
    <2>3. QED
      BY <1>1, <2>1, <2>2, PersistAlone
  <1>8. CASE StartServer
    BY <1>1, <1>8, StartAlone DEF StartServer
  <1>9. CASE StopServer
    BY <1>9, GoneAlone DEF StopServer
  <1>10. CASE \/ \E ids \in SUBSET ItemIds \ {{}} : CreateWorkItems(ids)
              \/ \E i \in ItemIds : ServerRuns(i) \/ ServerReports(i) \/ ServerCancels(i)
    <2>1. PICK its \in ItemMap : ServerWrites(its)
      BY <1>10, ServerEffect
    <2>2. copy[LocalRunner] = disk => copy'[LocalRunner] = disk'
      BY <1>1, <2>1, PersistEffect DEF ServerWrites
    <2>3. LocalRunner \in up /\ UNCHANGED <<up, overlapped>>
      BY <2>1 DEF ServerWrites, procVars
    <2>4. QED
      BY <1>1, <2>2, <2>3 DEF AloneInv
  <1>11. CASE Tick
    BY <1>11 DEF Tick, itemVars, regVars, procVars, AloneInv
  <1>12. CASE UNCHANGED vars
    BY <1>12 DEF vars, itemVars, regVars, procVars, AloneInv
  <1>13. QED
    BY <1>3, <1>4, <1>5, <1>6, <1>7, <1>8, <1>9, <1>10, <1>11, <1>12
    DEF Next, WorkerStep, ServerStep

\* Processes that do not overlap hand everything over through the files.
THEOREM HandedOver == Spec => []AloneIsTrue
  <1>1. Init => AloneInv
    BY DEF Init, AloneInv
  <1>2. AloneInv => AloneIsTrue
    BY DEF AloneInv, AloneIsTrue
  <1>3. QED
    BY <1>1, <1>2, AloneNext, Invariance, PTL DEF Spec

-----------------------------------------------------------------------------
(* The attempts.  An item that can be claimed has an attempt left, in the  *)
(* memory of every process; so a worker makes no more claims of an item    *)
(* than there are attempts between the count it has in memory and the      *)
(* maximum, and what it reads when it starts gives it MaxAttempts at most. *)

Paced(item) ==
    /\ item.status = "absent" => item.attempt = 0
    /\ item.status \in LeaseFrom => item.attempt < item.maxAttempts
    /\ item.attempt <= item.maxAttempts
    /\ item.maxAttempts <= MaxAttempts

AllPaced(items) == \A i \in ItemIds : Paced(items[i])

PacedInv == AllPaced(disk) /\ \A p \in WorkerIds : AllPaced(copy[p])

\* The attempts of an item that a running worker may still make.
Spare(w, i) == {k \in 1 .. MaxAttempts : copy[w][i].attempt < k}

Spares(i) == {c \in (Workers \cap up) \X (1 .. MaxAttempts) : c[2] \in Spare(c[1], i)}

FiledInv == \A i \in ItemIds : ~overlapped => disk[i].attempt = claims[i]

SpareInv ==
    \A i \in ItemIds : /\ IsFiniteSet(Spares(i))
                       /\ claims[i] + Cardinality(Spares(i)) <= MaxAttempts * starts

ClaimsInv == PacedInv /\ FiledInv /\ SpareInv

\* An absent item and a new one have made no attempt.
LEMMA NewPaced ==
    /\ Paced(AbsentItem) /\ AllPaced(NoItems)
    /\ \A t \in Nat : Paced(CreateWorkItem(MaxAttempts, t))
                      /\ CreateWorkItem(MaxAttempts, t).attempt = 0
  <1>1. Paced(AbsentItem)
    BY WorkerFleetAssumption DEF Paced, AbsentItem, LeaseFrom
  <1>2. AllPaced(NoItems)
    BY <1>1 DEF AllPaced, NoItems
  <1>3. ASSUME NEW t \in Nat
        PROVE  Paced(CreateWorkItem(MaxAttempts, t))
               /\ CreateWorkItem(MaxAttempts, t).attempt = 0
    BY WorkerFleetAssumption DEF Paced, CreateWorkItem, AbsentItem, LeaseFrom
  <1>4. QED
    BY <1>1, <1>2, <1>3

\* Every transition keeps the attempts within the maximum; only a claim makes one.
LEMMA TransitionsPaced ==
    ASSUME NEW item \in WorkItem, Paced(item), NEW w \in WorkerIds, NEW t \in Nat
    PROVE  /\ Paced(ReleaseIfExpired(item, t))
           /\ ReleaseIfExpired(item, t).attempt = item.attempt
           /\ item.status \in LeaseFrom => Paced(TransitionToLeased(item, w, t))
           /\ TransitionToLeased(item, w, t).attempt = item.attempt + 1
           /\ Paced(TransitionToRunning(item, w))
           /\ TransitionToRunning(item, w).attempt = item.attempt
           /\ \A s \in TerminalItem : /\ Paced(TransitionToDone(item, s))
                                      /\ TransitionToDone(item, s).attempt = item.attempt
           /\ Paced(TransitionToFailed(item, FALSE, t))
           /\ TransitionToFailed(item, FALSE, t).attempt = item.attempt
  <1>1. /\ Paced(ReleaseIfExpired(item, t))
        /\ ReleaseIfExpired(item, t).attempt = item.attempt
    BY WorkerFleetAssumption DEF ReleaseIfExpired, Paced, WorkItem, LeaseFrom
  <1>2. /\ item.status \in LeaseFrom => Paced(TransitionToLeased(item, w, t))
        /\ TransitionToLeased(item, w, t).attempt = item.attempt + 1
    BY WorkerFleetAssumption DEF TransitionToLeased, Paced, WorkItem, LeaseFrom
  <1>3. /\ Paced(TransitionToRunning(item, w))
        /\ TransitionToRunning(item, w).attempt = item.attempt
    BY DEF TransitionToRunning, Paced, WorkItem, LeaseFrom
  <1>4. \A s \in TerminalItem : /\ Paced(TransitionToDone(item, s))
                                /\ TransitionToDone(item, s).attempt = item.attempt
    BY DEF TransitionToDone, Paced, WorkItem, LeaseFrom, TerminalItem
  <1>5. /\ Paced(TransitionToFailed(item, FALSE, t))
        /\ TransitionToFailed(item, FALSE, t).attempt = item.attempt
    BY DEF TransitionToFailed, Paced, WorkItem, LeaseFrom
  <1>6. QED
    BY <1>1, <1>2, <1>3, <1>4, <1>5

\* A map of items with the attempts the process has in memory.
Kept(p, items) ==
    items \in ItemMap /\ AllPaced(items)
    /\ \A i \in ItemIds : items[i].attempt = copy[p][i].attempt

\* One with one attempt more for item i, which had it to spare.
Spent(p, items, i) ==
    items \in ItemMap /\ AllPaced(items)
    /\ \A k \in ItemIds :
          items[k].attempt = IF k = i THEN copy[p][i].attempt + 1 ELSE copy[p][k].attempt

\* What claimNext makes of the map of a process.
LEMMA ClaimPaced ==
    ASSUME TypeOK, PacedInv, NEW w \in WorkerIds
    PROVE  /\ Kept(w, Released(w))
           /\ \A done \in SUBSET ItemIds :
                 Kept(w, [i \in ItemIds |-> IF i \in done THEN Released(w)[i] ELSE copy[w][i]])
           /\ \A i \in Oldest(w) : i \in ItemIds /\ Spent(w, Leased(w, i), i)
  <1>1. copy[w] \in ItemMap /\ AllPaced(copy[w]) /\ now \in Nat
    BY DEF TypeOK, ItemMap, PacedInv
  <1>2. Released(w) \in ItemMap
    BY ClaimTypes
  <1>3. \A i \in ItemIds : /\ Paced(Released(w)[i])
                           /\ Released(w)[i].attempt = copy[w][i].attempt
    <2>1. ASSUME NEW i \in ItemIds
          PROVE  /\ Paced(Released(w)[i])
                 /\ Released(w)[i].attempt = copy[w][i].attempt
      <3> DEFINE item == copy[w][i]
      <3>1. item \in WorkItem /\ Paced(item)
        BY <1>1 DEF ItemMap, AllPaced
      <3>2. Released(w)[i] = ReleaseIfExpired(item, now)
        BY DEF Released
      <3> HIDE DEF item
      <3>3. Paced(ReleaseIfExpired(item, now)) /\ ReleaseIfExpired(item, now).attempt = item.attempt
        BY <1>1, <3>1, TransitionsPaced
      <3>4. QED
        BY <3>2, <3>3 DEF item
    <2>2. QED
      BY <2>1
  <1>4. Kept(w, Released(w))
    BY <1>2, <1>3 DEF Kept, AllPaced
  <1>5. ASSUME NEW done \in SUBSET ItemIds
        PROVE  Kept(w, [i \in ItemIds |-> IF i \in done THEN Released(w)[i] ELSE copy[w][i]])
    <2> DEFINE its == [i \in ItemIds |-> IF i \in done THEN Released(w)[i] ELSE copy[w][i]]
    <2>1. its \in ItemMap
      BY <1>1, <1>2 DEF ItemMap
    <2>2. \A i \in ItemIds : its[i] = Released(w)[i] \/ its[i] = copy[w][i]
      OBVIOUS
    <2> HIDE DEF its
    <2>3. AllPaced(its) /\ \A i \in ItemIds : its[i].attempt = copy[w][i].attempt
      BY <1>1, <1>3, <2>2 DEF AllPaced
    <2>4. Kept(w, its)
      BY <2>1, <2>3 DEF Kept
    <2>5. QED
      BY <2>4 DEF its
  <1>6. ASSUME NEW i \in Oldest(w)
        PROVE  i \in ItemIds /\ Spent(w, Leased(w, i), i)
    <2>1. i \in ItemIds /\ Leased(w, i) \in ItemMap
      BY ClaimTypes
    <2>2. Released(w)[i].status \in LeaseFrom
      BY DEF Oldest, Due, IsClaimable
    <2> DEFINE item == TransitionToLeased(Released(w)[i], w, now)
    <2>3. Released(w)[i] \in WorkItem /\ Paced(Released(w)[i])
      BY <1>2, <1>3, <2>1 DEF ItemMap
    <2>4. Paced(item) /\ item.attempt = Released(w)[i].attempt + 1
      BY <1>1, <2>2, <2>3, TransitionsPaced
    <2> HIDE DEF item
    <2>5. \A k \in ItemIds : Leased(w, i)[k] = IF k = i THEN item ELSE Released(w)[k]
      BY <1>2, <2>1 DEF Leased, ItemMap, item
    <2>6. AllPaced(Leased(w, i))
      BY <1>3, <2>4, <2>5 DEF AllPaced
    <2>7. \A k \in ItemIds :
             Leased(w, i)[k].attempt = IF k = i THEN copy[w][i].attempt + 1
                                       ELSE copy[w][k].attempt
      BY <1>3, <2>4, <2>5
    <2>8. QED
      BY <2>1, <2>6, <2>7 DEF Spent
  <1>7. QED
    BY <1>4, <1>5, <1>6

\* What the server writes keeps the attempts.
LEMMA ServerPaced ==
    ASSUME TypeInv, PacedInv,
           \/ \E ids \in SUBSET ItemIds \ {{}} : CreateWorkItems(ids)
           \/ \E i \in ItemIds : ServerRuns(i) \/ ServerReports(i) \/ ServerCancels(i)
    PROVE  \E its : Kept(LocalRunner, its) /\ ServerWrites(its)
  <1> DEFINE mine == copy[LocalRunner]
  <1>1. mine \in ItemMap /\ AllPaced(mine) /\ now \in Nat /\ LocalRunner \in WorkerIds
    BY WorkerFleetAssumption DEF TypeInv, TypeOK, ItemMap, PacedInv
  <1>2. ASSUME NEW ids \in SUBSET ItemIds, CreateWorkItems(ids)
        PROVE  \E its : Kept(LocalRunner, its) /\ ServerWrites(its)
    <2> DEFINE fresh == CreateWorkItem(MaxAttempts, now)
               new == [i \in ItemIds |-> IF i \in ids THEN fresh ELSE ServerItem(i)]
    <2>1. fresh \in WorkItem /\ Paced(fresh) /\ fresh.attempt = 0
      BY <1>1, CreateType, NewPaced
    <2> HIDE DEF fresh
    <2>2. new \in ItemMap
      BY <1>1, <2>1 DEF ServerItem, ItemMap
    <2>3. AllPaced(new)
      BY <1>1, <2>1 DEF AllPaced, ServerItem
    <2>4. \A i \in ids : mine[i].attempt = 0
      BY <1>1, <1>2 DEF CreateWorkItems, ServerItem, AllPaced, Paced
    <2>5. Kept(LocalRunner, new)
      BY <2>1, <2>2, <2>3, <2>4 DEF Kept, ServerItem
    <2>6. ServerWrites(new)
      BY <1>2 DEF CreateWorkItems, fresh
    <2>7. QED
      BY <2>5, <2>6
  <1>3. ASSUME NEW i \in ItemIds, NEW item \in WorkItem, Paced(item),
               item.attempt = mine[i].attempt, ServerWrites([mine EXCEPT ![i] = item])
        PROVE  \E its : Kept(LocalRunner, its) /\ ServerWrites(its)
    <2> DEFINE new == [mine EXCEPT ![i] = item]
    <2>1. new \in ItemMap /\ \A k \in ItemIds : new[k] = IF k = i THEN item ELSE mine[k]
      BY <1>1 DEF ItemMap
    <2> HIDE DEF new
    <2>2. AllPaced(new) /\ \A k \in ItemIds : new[k].attempt = mine[k].attempt
      BY <1>1, <1>3, <2>1 DEF AllPaced
    <2>3. Kept(LocalRunner, new)
      BY <2>1, <2>2 DEF Kept
    <2>4. QED
      BY <1>3, <2>3 DEF new
  <1>4. ASSUME NEW i \in ItemIds, ServerRuns(i) \/ ServerReports(i) \/ ServerCancels(i)
        PROVE  \E its : Kept(LocalRunner, its) /\ ServerWrites(its)
    <2> DEFINE item == ServerItem(i)
    <2>1. item \in WorkItem /\ Paced(item) /\ item = mine[i]
      BY <1>1 DEF ServerItem, ItemMap, AllPaced
    <2>2. /\ TransitionToRunning(item, LocalRunner) \in WorkItem
          /\ \A s \in TerminalItem : TransitionToDone(item, s) \in WorkItem
          /\ TransitionToFailed(item, FALSE, now) \in WorkItem
      BY <1>1, <2>1, TransitionTypes DEF TerminalItem, ItemStatus
    <2> HIDE DEF item, mine
    <2>3. CASE ServerRuns(i)
      <3>1. /\ Paced(TransitionToRunning(item, LocalRunner))
            /\ TransitionToRunning(item, LocalRunner).attempt = item.attempt
        BY <1>1, <2>1, TransitionsPaced
      <3>2. ServerWrites([mine EXCEPT ![i] = TransitionToRunning(item, LocalRunner)])
        BY <2>3 DEF ServerRuns, mine, item
      <3>3. QED
        BY <1>3, <2>1, <2>2, <3>1, <3>2
    <2>4. CASE ServerReports(i)
      <3>1. PICK status \in {"succeeded", "skipped", "failed"} :
               ServerWrites([mine EXCEPT ![i] =
                  IF status = "failed" THEN TransitionToFailed(item, FALSE, now)
                  ELSE TransitionToDone(item, status)])
        BY <2>4 DEF ServerReports, mine, item
      <3> DEFINE next == IF status = "failed" THEN TransitionToFailed(item, FALSE, now)
                         ELSE TransitionToDone(item, status)
      <3>2. next \in WorkItem /\ Paced(next) /\ next.attempt = item.attempt
        BY <1>1, <2>1, <2>2, TransitionsPaced DEF TerminalItem
      <3>3. ServerWrites([mine EXCEPT ![i] = next])
        BY <3>1
      <3> HIDE DEF next
      <3>4. QED
        BY <1>3, <2>1, <3>2, <3>3
    <2>5. CASE ServerCancels(i)
      <3>1. /\ Paced(TransitionToDone(item, "cancelled"))
            /\ TransitionToDone(item, "cancelled").attempt = item.attempt
            /\ TransitionToDone(item, "cancelled") \in WorkItem
        BY <1>1, <2>1, <2>2, TransitionsPaced DEF TerminalItem
      <3>2. ServerWrites([mine EXCEPT ![i] = TransitionToDone(item, "cancelled")])
        BY <2>5 DEF ServerCancels, mine, item
      <3>3. QED
        BY <1>3, <2>1, <3>1, <3>2
    <2>6. QED
      BY <1>4, <2>3, <2>4, <2>5
  <1>5. QED
    BY <1>2, <1>4

\* What a process writes is in the files as it has it in memory.
LEMMA WrittenPaced ==
    ASSUME TypeOK, PacedInv, NEW p \in WorkerIds, NEW its, Kept(p, its), WriteChanged(p, its)
    PROVE  /\ AllPaced(disk')
           /\ copy[p] = disk => \A i \in ItemIds : disk'[i].attempt = disk[i].attempt
  <1>1. \A i \in ItemIds : disk'[i] = IF its[i] # copy[p][i] THEN its[i] ELSE disk[i]
    BY DEF WriteChanged
  <1>2. QED
    BY <1>1 DEF PacedInv, AllPaced, Kept

\* So is an item that it claimed.
LEMMA WrittenSpent ==
    ASSUME TypeOK, PacedInv, NEW p \in WorkerIds, NEW its, NEW i \in ItemIds,
           Spent(p, its, i), WriteChanged(p, its)
    PROVE  /\ AllPaced(disk')
           /\ copy[p] = disk => \A k \in ItemIds :
                 disk'[k].attempt = IF k = i THEN disk[i].attempt + 1 ELSE disk[k].attempt
  <1>1. \A k \in ItemIds : disk'[k] = IF its[k] # copy[p][k] THEN its[k] ELSE disk[k]
    BY DEF WriteChanged
  <1>2. AllPaced(disk')
    BY <1>1 DEF PacedInv, AllPaced, Spent
  <1>3. copy[p] = disk => \A k \in ItemIds : disk'[k] = its[k]
    BY <1>1
  <1>4. QED
    BY <1>2, <1>3 DEF Spent

\* A claim counted for an item.
Counted(i) == claims' = [claims EXCEPT ![i] = claims[i] + 1]

\* The attempts on file after a step in which no process claims.
LEMMA FiledKept ==
    ASSUME TypeInv, AloneInv, ClaimsInv, NEW p \in up, NEW its, Kept(p, its),
           WriteChanged(p, its), UNCHANGED claims, overlapped' = overlapped
    PROVE  AllPaced(disk') /\ FiledInv'
  <1>1. p \in WorkerIds /\ (~overlapped => copy[p] = disk)
    BY DEF AloneInv, TypeInv, TypeOK
  <1>2. AllPaced(disk')
    BY <1>1, WrittenPaced DEF TypeInv, ClaimsInv
  <1>3. ~overlapped => \A i \in ItemIds : disk'[i].attempt = disk[i].attempt
    BY <1>1, WrittenPaced DEF TypeInv, ClaimsInv
  <1>4. QED
    BY <1>2, <1>3 DEF FiledInv, ClaimsInv

\* And after a claim.
LEMMA FiledCounted ==
    ASSUME TypeInv, AloneInv, ClaimsInv, NEW p \in up, NEW its, NEW i \in ItemIds,
           Spent(p, its, i), WriteChanged(p, its), Counted(i), overlapped' = overlapped
    PROVE  AllPaced(disk') /\ FiledInv'
  <1>1. p \in WorkerIds /\ (~overlapped => copy[p] = disk)
    BY DEF AloneInv, TypeInv, TypeOK
  <1>2. AllPaced(disk')
    BY <1>1, WrittenSpent DEF TypeInv, ClaimsInv
  <1>3. ~overlapped => \A k \in ItemIds :
           disk'[k].attempt = IF k = i THEN disk[i].attempt + 1 ELSE disk[k].attempt
    BY <1>1, WrittenSpent DEF TypeInv, ClaimsInv
  <1>4. \A k \in ItemIds : claims'[k] = IF k = i THEN claims[i] + 1 ELSE claims[k]
    BY DEF Counted, TypeInv, TypeOK
  <1>5. QED
    BY <1>2, <1>3, <1>4 DEF FiledInv, ClaimsInv

\* Nobody has an attempt to spare that it did not have before.
Saved ==
    /\ UNCHANGED <<claims, starts>>
    /\ \A w \in Workers \cap up' :
          w \in up /\ \A i \in ItemIds : copy'[w][i].attempt = copy[w][i].attempt

LEMMA SparesSaved ==
    ASSUME TypeOK, TypeOK', SpareInv, Saved
    PROVE  SpareInv'
  <1>1. SUFFICES ASSUME NEW i \in ItemIds
                 PROVE  /\ IsFiniteSet(Spares(i)')
                        /\ claims'[i] + Cardinality(Spares(i)') <= MaxAttempts * starts'
    BY DEF SpareInv
  <1>2. Spares(i)' \subseteq Spares(i)
    BY DEF Spares, Spare, Saved
  <1>3. IsFiniteSet(Spares(i)) /\ claims[i] + Cardinality(Spares(i)) <= MaxAttempts * starts
    BY DEF SpareInv
  <1>4. IsFiniteSet(Spares(i)') /\ Cardinality(Spares(i)') <= Cardinality(Spares(i))
    BY <1>2, <1>3, FS_Subset
  <1>5. Cardinality(Spares(i)) \in Nat /\ Cardinality(Spares(i)') \in Nat
    BY <1>3, <1>4, FS_CardinalityType
  <1>6. claims[i] \in Nat /\ starts \in Nat /\ MaxAttempts * starts \in Nat
    BY WorkerFleetAssumption DEF TypeOK
  <1>7. claims'[i] = claims[i] /\ MaxAttempts * starts' = MaxAttempts * starts
    BY DEF Saved
  <1>8. QED
    BY <1>3, <1>4, <1>5, <1>6, <1>7

\* A claim takes one of the attempts that the worker had to spare.
LEMMA SparesSpent ==
    ASSUME TypeOK, TypeOK', PacedInv, SpareInv,
           NEW w \in Workers \cap up, NEW its, NEW i \in ItemIds, Spent(w, its, i),
           Counted(i), UNCHANGED starts,
           \A v \in Workers \cap up' :
              v \in up /\ copy'[v] = IF v = w THEN its ELSE copy[v]
    PROVE  SpareInv'
  <1> DEFINE taken == <<w, copy[w][i].attempt + 1>>
  <1>1. taken \in Spares(i)
    <2>1. w \in WorkerIds /\ its \in ItemMap /\ copy[w] \in ItemMap
      BY DEF Workers, Spent, TypeOK, ItemMap
    <2>2. its[i].attempt = copy[w][i].attempt + 1 /\ its[i].attempt <= MaxAttempts
      <3>1. Paced(its[i]) /\ its[i] \in WorkItem
        BY <2>1 DEF Spent, AllPaced, ItemMap
      <3>2. QED
        BY <3>1, WorkerFleetAssumption DEF Spent, Paced, WorkItem
    <2>3. copy[w][i].attempt \in Nat
      BY <2>1 DEF ItemMap, WorkItem
    <2>4. copy[w][i].attempt + 1 \in Spare(w, i)
      BY <2>2, <2>3, WorkerFleetAssumption DEF Spare
    <2>5. QED
      BY <2>4 DEF Spares, Spare
  <1>2. Spares(i)' \subseteq Spares(i) \ {taken}
    <2>1. its[i].attempt = copy[w][i].attempt + 1 /\ copy[w][i].attempt \in Nat
      BY DEF Spent, TypeOK, WorkItem, Workers
    <2>2. ASSUME NEW c \in Spares(i)'
          PROVE  c \in Spares(i) /\ c # taken
      <3>1. /\ c \in (Workers \cap up') \X (1 .. MaxAttempts)
            /\ copy'[c[1]][i].attempt < c[2]
        BY <2>2 DEF Spares, Spare
      <3>2. c[1] \in up /\ copy'[c[1]] = IF c[1] = w THEN its ELSE copy[c[1]]
        BY <3>1
      <3>3. CASE c[1] = w
        <4>1. copy[w][i].attempt < c[2] /\ c[2] # copy[w][i].attempt + 1
          BY <2>1, <3>1, <3>2, <3>3
        <4>2. QED
          BY <3>1, <3>2, <3>3, <4>1 DEF Spares, Spare
      <3>4. CASE c[1] # w
        BY <3>1, <3>2, <3>4 DEF Spares, Spare
      <3>5. QED
        BY <3>3, <3>4
    <2>3. QED
      BY <2>2
  <1> HIDE DEF taken
  <1>3. \A k \in ItemIds \ {i} : Spares(k)' = Spares(k) \cap ((Workers \cap up') \X (1 .. MaxAttempts))
    <2>1. ASSUME NEW k \in ItemIds \ {i}
          PROVE  \A v \in Workers \cap up' :
                    v \in up /\ copy'[v][k].attempt = copy[v][k].attempt
      BY DEF Spent
    <2>2. QED
      BY <2>1 DEF Spares, Spare
  <1>4. SUFFICES ASSUME NEW k \in ItemIds
                 PROVE  /\ IsFiniteSet(Spares(k)')
                        /\ claims'[k] + Cardinality(Spares(k)') <= MaxAttempts * starts'
    BY DEF SpareInv
  <1>5. /\ IsFiniteSet(Spares(k)) /\ claims[k] + Cardinality(Spares(k)) <= MaxAttempts * starts
        /\ claims[k] \in Nat /\ starts \in Nat /\ MaxAttempts * starts \in Nat
    BY WorkerFleetAssumption DEF SpareInv, TypeOK
  <1>6. Cardinality(Spares(k)) \in Nat
    BY <1>5, FS_CardinalityType
  <1>7. claims'[k] = IF k = i THEN claims[i] + 1 ELSE claims[k]
    BY DEF Counted, TypeOK
  <1>8. CASE k = i
    <2>1. IsFiniteSet(Spares(i) \ {taken})
          /\ Cardinality(Spares(i) \ {taken}) = Cardinality(Spares(i)) - 1
      BY <1>1, <1>5, <1>8, FS_RemoveElement
    <2>2. IsFiniteSet(Spares(i)')
          /\ Cardinality(Spares(i)') <= Cardinality(Spares(i)) - 1
      BY <1>2, <2>1, FS_Subset
    <2>3. Cardinality(Spares(i)') \in Nat
      BY <2>2, FS_CardinalityType
    <2>4. QED
      BY <1>5, <1>6, <1>7, <1>8, <2>2, <2>3
  <1>9. CASE k # i
    <2>1. IsFiniteSet(Spares(k)') /\ Cardinality(Spares(k)') <= Cardinality(Spares(k))
      BY <1>3, <1>5, <1>9, FS_Subset
    <2>2. Cardinality(Spares(k)') \in Nat
      BY <2>1, FS_CardinalityType
    <2>3. QED
      BY <1>5, <1>6, <1>7, <1>9, <2>1, <2>2
  <1>10. QED
    BY <1>8, <1>9

\* A worker that starts has MaxAttempts attempts of an item to spare at most.
LEMMA SparesStarted ==
    ASSUME TypeOK, TypeOK', SpareInv, NEW w \in Workers,
           UNCHANGED claims, starts' = starts + 1, up' = up \cup {w},
           \A v \in Workers \cap up : v # w => copy'[v] = copy[v]
    PROVE  SpareInv'
  <1>1. SUFFICES ASSUME NEW i \in ItemIds
                 PROVE  /\ IsFiniteSet(Spares(i)')
                        /\ claims'[i] + Cardinality(Spares(i)') <= MaxAttempts * starts'
    BY DEF SpareInv
  <1> DEFINE own == {w} \X (1 .. MaxAttempts)
  <1>2. Spares(i)' \subseteq Spares(i) \cup own
    <2>1. ASSUME NEW c \in Spares(i)'
          PROVE  c \in Spares(i) \cup own
      <3>1. /\ c \in (Workers \cap up') \X (1 .. MaxAttempts)
            /\ copy'[c[1]][i].attempt < c[2]
        BY <2>1 DEF Spares, Spare
      <3>2. CASE c[1] = w
        BY <3>1, <3>2
      <3>3. CASE c[1] # w
        BY <3>1, <3>3 DEF Spares, Spare
      <3>4. QED
        BY <3>2, <3>3
    <2>2. QED
      BY <2>1
  <1>3. IsFiniteSet(own) /\ Cardinality(own) = MaxAttempts
    <2>1. MaxAttempts \in Nat \ {0}
      BY WorkerFleetAssumption
    <2>2. IsFiniteSet(1 .. MaxAttempts) /\ Cardinality(1 .. MaxAttempts) = MaxAttempts
      BY <2>1, FS_Interval
    <2>3. IsFiniteSet({w}) /\ Cardinality({w}) = 1
      BY FS_Singleton
    <2> DEFINE single == {w}
               attempts == 1 .. MaxAttempts
    <2> HIDE DEF single, attempts
    <2>4. /\ IsFiniteSet(single) /\ Cardinality(single) = 1
          /\ IsFiniteSet(attempts) /\ Cardinality(attempts) = MaxAttempts
      BY <2>2, <2>3 DEF single, attempts
    <2>5. IsFiniteSet(single \X attempts)
          /\ Cardinality(single \X attempts) = Cardinality(single) * Cardinality(attempts)
      BY <2>4, FS_Product
    <2>6. QED
      BY <2>1, <2>4, <2>5 DEF single, attempts
  <1>4. /\ IsFiniteSet(Spares(i)) /\ claims[i] + Cardinality(Spares(i)) <= MaxAttempts * starts
        /\ claims[i] \in Nat /\ starts \in Nat
    BY DEF SpareInv, TypeOK
  <1> HIDE DEF own
  <1>5. IsFiniteSet(Spares(i) \cup own)
        /\ Cardinality(Spares(i) \cup own)
              = Cardinality(Spares(i)) + Cardinality(own) - Cardinality(Spares(i) \cap own)
    BY <1>3, <1>4, FS_Union
  <1>6. Cardinality(Spares(i)) \in Nat /\ Cardinality(Spares(i) \cap own) \in Nat
    <2>1. IsFiniteSet(Spares(i) \cap own)
      BY <1>4, FS_Subset
    <2>2. QED
      BY <1>4, <2>1, FS_CardinalityType
  <1>7. IsFiniteSet(Spares(i)') /\ Cardinality(Spares(i)') <= Cardinality(Spares(i) \cup own)
    BY <1>2, <1>5, FS_Subset
  <1>8. Cardinality(Spares(i)') \in Nat
    BY <1>7, FS_CardinalityType
  <1>9. MaxAttempts * starts' = MaxAttempts * starts + MaxAttempts /\ MaxAttempts * starts \in Nat
    BY <1>4, WorkerFleetAssumption
  <1>10. MaxAttempts \in Nat /\ claims'[i] = claims[i]
    BY WorkerFleetAssumption
  <1>11. QED
    BY <1>3, <1>4, <1>5, <1>6, <1>7, <1>8, <1>9, <1>10

\* Every step keeps the attempts counted.
LEMMA ClaimsNext == TypeInv /\ TypeInv' /\ AloneInv /\ ClaimsInv /\ [Next]_vars => ClaimsInv'
  <1> SUFFICES ASSUME TypeInv, TypeInv', AloneInv, ClaimsInv, [Next]_vars
               PROVE  ClaimsInv'
    OBVIOUS
  <1>1. TypeOK /\ TypeOK' /\ PacedInv /\ FiledInv /\ SpareInv
        /\ LocalRunner \in WorkerIds /\ LocalRunner \notin Workers
    BY WorkerFleetAssumption DEF TypeInv, ClaimsInv, Workers
  <1>2. \A w \in Workers : w \in WorkerIds
    BY DEF Workers
  <1>3. copy \in [WorkerIds -> ItemMap] /\ AllPaced(disk) /\ AllPaced(NoItems)
    BY <1>1, NewPaced DEF TypeOK, ItemMap, PacedInv
  <1>4. ASSUME NEW p \in WorkerIds, NEW its, AllPaced(its), copy' = [copy EXCEPT ![p] = its]
        PROVE  \A q \in WorkerIds : AllPaced(copy'[q])
    BY <1>1, <1>3, <1>4 DEF PacedInv
  <1>5. ASSUME NEW w \in Workers, StartWorker(w)
        PROVE  ClaimsInv'
    <2>1. /\ up' = up \cup {w} /\ copy' = [copy EXCEPT ![w] = disk]
          /\ starts' = starts + 1 /\ overlapped' = (overlapped \/ up # {})
          /\ UNCHANGED <<disk, claims>>
      BY <1>5 DEF StartWorker, Started
    <2>2. PacedInv'
      BY <1>2, <1>3, <1>4, <2>1 DEF PacedInv
    <2>3. FiledInv'
      BY <1>1, <2>1 DEF FiledInv
    <2>4. \A v \in Workers \cap up : v # w => copy'[v] = copy[v]
      BY <1>2, <1>3, <2>1
    <2>5. SpareInv'
      BY <1>1, <2>1, <2>4, SparesStarted
    <2>6. QED
      BY <2>2, <2>3, <2>5 DEF ClaimsInv
  <1>6. ASSUME NEW p \in WorkerIds, Gone(p), UNCHANGED claims,
               AllPaced(disk') /\ FiledInv'
        PROVE  ClaimsInv'
    <2>1. up' = up \ {p} /\ copy' = [copy EXCEPT ![p] = NoItems] /\ UNCHANGED starts
      BY <1>6 DEF Gone
    <2>2. PacedInv'
      BY <1>3, <1>4, <1>6, <2>1 DEF PacedInv
    <2>3. \A w \in Workers \cap up' : w \in up /\ copy'[w] = copy[w]
      BY <1>2, <1>3, <2>1
    <2>4. SpareInv'
      BY <1>1, <1>6, <2>1, <2>3, SparesSaved DEF Saved
    <2>5. QED
      BY <1>6, <2>2, <2>4 DEF ClaimsInv
  <1>7. ASSUME NEW w \in Workers, StopWorker(w)
        PROVE  ClaimsInv'
    <2>1. Gone(w) /\ UNCHANGED <<disk, claims, overlapped>>
      BY <1>7 DEF StopWorker, Gone
    <2>2. QED
      BY <1>1, <1>2, <1>3, <1>6, <2>1 DEF FiledInv
  <1>8. ASSUME NEW w \in Workers, HeartbeatTick(w)
        PROVE  ClaimsInv'
    <2>1. UNCHANGED <<disk, copy, claims, up, starts, overlapped>>
      BY <1>8 DEF HeartbeatTick, itemVars, procVars
    <2>2. QED
      BY <1>1, <2>1, SparesSaved DEF Saved, ClaimsInv, PacedInv, FiledInv, AllPaced
  <1>9. ASSUME NEW p \in up, NEW its, Kept(p, its), Persist(p, its),
               UNCHANGED <<claims, up, starts, overlapped>>
        PROVE  ClaimsInv'
    <2>1. p \in WorkerIds /\ copy' = [copy EXCEPT ![p] = its] /\ WriteChanged(p, its)
      BY <1>1, <1>9 DEF TypeOK, Persist
    <2>2. AllPaced(disk') /\ FiledInv'
      BY <1>9, <2>1, FiledKept
    <2>3. PacedInv'
      BY <1>4, <1>9, <2>1, <2>2 DEF PacedInv, Kept
    <2>4. \A w \in Workers \cap up' :
             w \in up /\ \A i \in ItemIds : copy'[w][i].attempt = copy[w][i].attempt
      BY <1>2, <1>3, <1>9, <2>1 DEF Kept
    <2>5. SpareInv'
      BY <1>1, <1>9, <2>4, SparesSaved DEF Saved
    <2>6. QED
      BY <2>2, <2>3, <2>5 DEF ClaimsInv
  <1>10. ASSUME NEW w \in Workers, ClaimNothing(w)
         PROVE  ClaimsInv'
    <2>1. w \in up /\ Persist(w, Released(w)) /\ UNCHANGED <<claims, up, starts, overlapped>>
      BY <1>10 DEF ClaimNothing, Available, procVars
    <2>2. Kept(w, Released(w))
      BY <1>1, <1>2, ClaimPaced
    <2>3. QED
      BY <1>9, <2>1, <2>2
  <1>11. ASSUME NEW w \in Workers, ClaimItem(w)
         PROVE  ClaimsInv'
    <2>1. PICK i \in Oldest(w) :
             Persist(w, Leased(w, i)) /\ claims' = [claims EXCEPT ![i] = claims[i] + 1]
      BY <1>11 DEF ClaimItem
    <2> DEFINE its == Leased(w, i)
    <2>2. i \in ItemIds /\ Spent(w, its, i)
      BY <1>1, <1>2, ClaimPaced
    <2>3. w \in up /\ UNCHANGED <<up, starts, overlapped>>
      BY <1>11 DEF ClaimItem, Available, procVars
    <2>4. copy' = [copy EXCEPT ![w] = its] /\ WriteChanged(w, its) /\ Counted(i)
      BY <2>1 DEF Persist, Counted
    <2> HIDE DEF its
    <2>5. AllPaced(disk') /\ FiledInv'
      BY <2>2, <2>3, <2>4, FiledCounted
    <2>6. PacedInv'
      BY <1>2, <1>4, <2>2, <2>4, <2>5 DEF PacedInv, Spent
    <2>7. \A v \in Workers \cap up' : v \in up /\ copy'[v] = IF v = w THEN its ELSE copy[v]
      BY <1>2, <1>3, <2>3, <2>4
    <2>8. SpareInv'
      BY <1>1, <2>2, <2>3, <2>4, <2>7, SparesSpent
    <2>9. QED
      BY <2>5, <2>6, <2>8 DEF ClaimsInv
  <1>12. ASSUME NEW w \in Workers, DiesReleasing(w)
         PROVE  ClaimsInv'
    <2>1. PICK done \in SUBSET ItemIds :
             WriteChanged(w, [i \in ItemIds |-> IF i \in done THEN Released(w)[i] ELSE copy[w][i]])
      BY <1>12 DEF DiesReleasing
    <2> DEFINE its == [i \in ItemIds |-> IF i \in done THEN Released(w)[i] ELSE copy[w][i]]
    <2>2. Kept(w, its) /\ WriteChanged(w, its)
      BY <1>1, <1>2, <2>1, ClaimPaced
    <2> HIDE DEF its
    <2>3. w \in up /\ Gone(w) /\ UNCHANGED <<claims, overlapped>>
      BY <1>12 DEF DiesReleasing, Gone
    <2>4. AllPaced(disk') /\ FiledInv'
      BY <2>2, <2>3, FiledKept
    <2>5. QED
      BY <1>2, <1>6, <2>3, <2>4
  <1>13. ASSUME NEW w \in Workers, DiesClaiming(w)
         PROVE  ClaimsInv'
    <2>1. PICK i \in Oldest(w) :
             WriteChanged(w, Leased(w, i)) /\ claims' = [claims EXCEPT ![i] = claims[i] + 1]
      BY <1>13 DEF DiesClaiming
    <2> DEFINE its == Leased(w, i)
    <2>2. i \in ItemIds /\ Spent(w, its, i) /\ WriteChanged(w, its) /\ Counted(i)
      BY <1>1, <1>2, <2>1, ClaimPaced DEF Counted
    <2> HIDE DEF its
    <2>3. /\ w \in up /\ up' = up \ {w} /\ copy' = [copy EXCEPT ![w] = NoItems]
          /\ UNCHANGED <<starts, overlapped>>
      BY <1>13 DEF DiesClaiming, Gone
    <2>4. AllPaced(disk') /\ FiledInv'
      BY <2>2, <2>3, FiledCounted
    <2>5. PacedInv'
      BY <1>2, <1>3, <1>4, <2>3, <2>4 DEF PacedInv
    <2>6. \A v \in Workers \cap up' : v \in up /\ copy'[v] = IF v = w THEN its ELSE copy[v]
      BY <1>2, <1>3, <2>3
    <2>7. SpareInv'
      BY <1>1, <2>2, <2>3, <2>6, SparesSpent
    <2>8. QED
      BY <2>4, <2>5, <2>7 DEF ClaimsInv
  <1>14. CASE StartServer
    <2>1. /\ up' = up \cup {LocalRunner} /\ copy' = [copy EXCEPT ![LocalRunner] = disk]
          /\ overlapped' = (overlapped \/ up # {}) /\ UNCHANGED <<disk, claims, starts>>
      BY <1>14 DEF StartServer, Started
    <2>2. PacedInv'
      BY <1>1, <1>3, <1>4, <2>1 DEF PacedInv
    <2>3. FiledInv'
      BY <1>1, <2>1 DEF FiledInv
    <2>4. \A v \in Workers \cap up' : v \in up /\ copy'[v] = copy[v]
      BY <1>1, <1>2, <1>3, <2>1
    <2>5. SpareInv'
      BY <1>1, <2>1, <2>4, SparesSaved DEF Saved
    <2>6. QED
      BY <2>2, <2>3, <2>5 DEF ClaimsInv
  <1>15. CASE StopServer
    <2>1. Gone(LocalRunner) /\ UNCHANGED <<disk, claims, overlapped>>
      BY <1>15 DEF StopServer, Gone
    <2>2. QED
      BY <1>1, <1>3, <1>6, <2>1 DEF FiledInv
  <1>16. CASE \/ \E ids \in SUBSET ItemIds \ {{}} : CreateWorkItems(ids)
              \/ \E i \in ItemIds : ServerRuns(i) \/ ServerReports(i) \/ ServerCancels(i)
    <2>1. PICK its : Kept(LocalRunner, its) /\ ServerWrites(its)
      BY <1>1, <1>16, ServerPaced
    <2>2. LocalRunner \in up /\ Persist(LocalRunner, its)
          /\ UNCHANGED <<claims, up, starts, overlapped>>
      BY <2>1 DEF ServerWrites, procVars
    <2>3. QED
      BY <1>9, <2>1, <2>2
  <1>17. CASE Tick \/ UNCHANGED vars
    <2>1. UNCHANGED <<disk, copy, claims, up, starts, overlapped>>
      BY <1>17 DEF Tick, vars, itemVars, procVars
    <2>2. QED
      BY <1>1, <2>1, SparesSaved DEF Saved, ClaimsInv, PacedInv, FiledInv, AllPaced
  <1>18. QED
    BY <1>5, <1>7, <1>8, <1>10, <1>11, <1>12, <1>13, <1>14, <1>15, <1>16, <1>17
    DEF Next, WorkerStep, ServerStep

\* The attempts are counted at first.
LEMMA ClaimsInit == Init => ClaimsInv
  <1> SUFFICES ASSUME Init
               PROVE  ClaimsInv
    OBVIOUS
  <1>1. PacedInv
    BY NewPaced DEF Init, PacedInv
  <1>2. FiledInv
    BY DEF Init, FiledInv, NoItems, AbsentItem
  <1>3. \A i \in ItemIds : Spares(i) = {} /\ claims[i] = 0 /\ starts = 0
    BY DEF Init, Spares
  <1>4. SpareInv
    BY <1>3, FS_EmptySet, WorkerFleetAssumption DEF SpareInv
  <1>5. QED
    BY <1>1, <1>2, <1>4 DEF ClaimsInv

\* The attempts on file count every claim, and the maximum is kept, as long as
\* processes do not overlap; if they do, each start of a worker can cost an
\* item all its attempts once more, and nothing else can.
THEOREM EveryClaimCounts == Spec => []ClaimsCounted
  <1>1. Init => AloneInv
    BY DEF Init, AloneInv
  <1>2. TypeInv /\ ClaimsInv => ClaimsCounted
    <2> SUFFICES ASSUME TypeInv, ClaimsInv, NEW i \in ItemIds
                 PROVE  /\ claims[i] <= MaxAttempts * (IF overlapped THEN starts ELSE 1)
                        /\ ~overlapped => disk[i].attempt = claims[i]
      BY DEF ClaimsCounted
    <2>1. ~overlapped => disk[i].attempt = claims[i]
      BY DEF ClaimsInv, FiledInv
    <2>2. /\ claims[i] \in Nat /\ starts \in Nat /\ MaxAttempts \in Nat
          /\ MaxAttempts * starts \in Nat /\ disk[i] \in WorkItem /\ Paced(disk[i])
      BY WorkerFleetAssumption DEF TypeInv, TypeOK, ClaimsInv, PacedInv, AllPaced
    <2>3. disk[i].attempt <= MaxAttempts
      BY <2>2 DEF Paced, WorkItem
    <2>4. Cardinality(Spares(i)) \in Nat
      BY FS_CardinalityType DEF ClaimsInv, SpareInv
    <2>5. claims[i] <= MaxAttempts * starts
      BY <2>2, <2>4 DEF ClaimsInv, SpareInv
    <2>6. MaxAttempts * 1 = MaxAttempts
      BY <2>2
    <2>7. QED
      BY <2>1, <2>2, <2>3, <2>5, <2>6
  <1>3. QED
    BY <1>1, <1>2, AloneNext, ClaimsInit, ClaimsNext, Invariance, PTL DEF Spec

-----------------------------------------------------------------------------
(* One item and its file as a queue.                                       *)

\* The queue of an item has its own definitions of statuses and of the absent
\* item, which are the same.
LEMMA SameConstants ==
    ASSUME NEW i
    PROVE  /\ Life(i)!NoTime = NoTime /\ Life(i)!AbsentItem = AbsentItem
           /\ Life(i)!HeldItem = HeldItem /\ Life(i)!LeaseFrom = LeaseFrom
           /\ Life(i)!RunFrom = RunFrom /\ Life(i)!FinishFrom = FinishFrom
           /\ Life(i)!CancelFrom = CancelFrom
  BY DEF Life!NoTime, NoTime, Life!AbsentItem, AbsentItem, Life!HeldItem, HeldItem,
         Life!LeaseFrom, LeaseFrom, Life!RunFrom, RunFrom, Life!FinishFrom, FinishFrom,
         Life!CancelFrom, CancelFrom, Life!ItemStatus, ItemStatus,
         Life!TerminalItem, TerminalItem

\* The queue of one item has the item's file as its only row.
Row(i) == <<i, i>>

FileOf(i) == [q \in {i} \X {i} |-> disk[i]]

\* What a step makes of the file of an item is what it makes of the queue.
LEMMA RowOf ==
    ASSUME NEW i \in ItemIds
    PROVE  /\ Life(i)!ItemId = {Row(i)}
           /\ FileOf(i) = [q \in {Row(i)} |-> disk[i]]
           /\ FileOf(i)' = [q \in {Row(i)} |-> disk'[i]]
           /\ FileOf(i)[Row(i)] = disk[i]
  <1>1. {i} \X {i} = {Row(i)}
    BY DEF Row
  <1>2. QED
    BY <1>1 DEF FileOf, Life!ItemId

\* The queue releases the item where the store does.
LEMMA ReleasedRow ==
    ASSUME NEW i \in ItemIds
    PROVE  Life(i)!Released = [q \in {Row(i)} |-> ReleaseIfExpired(disk[i], now)]
  <1>1. Life(i)!ItemId = {Row(i)} /\ FileOf(i)[Row(i)] = disk[i]
    BY RowOf
  <1>2. Life(i)!ReleaseIfExpired(disk[i], now) = ReleaseIfExpired(disk[i], now)
    <2>1. Life(i)!LeaseExpired(disk[i], now) <=> LeaseExpired(disk[i], now)
      BY SameConstants DEF Life!LeaseExpired, LeaseExpired
    <2>2. QED
      BY <2>1, SameConstants DEF Life!ReleaseIfExpired, ReleaseIfExpired
  <1>3. Life(i)!Released = [q \in Life(i)!ItemId |-> Life(i)!ReleaseIfExpired(FileOf(i)[q], now)]
    BY DEF Life!Released, FileOf
  <1>4. QED
    BY <1>1, <1>2, <1>3

\* Releasing an expired lease is an operation of the queue.
LEMMA ReleaseQueued ==
    ASSUME NEW i \in ItemIds, UNCHANGED now, disk'[i] = ReleaseIfExpired(disk[i], now)
    PROVE  Life(i)!Next
  <1>1. Life(i)!Released = [q \in {Row(i)} |-> ReleaseIfExpired(disk[i], now)]
    BY ReleasedRow
  <1>2. FileOf(i)' = [q \in {Row(i)} |-> disk'[i]]
    BY RowOf
  <1>3. Life(i)!ReleaseExpiredLeases
    BY <1>1, <1>2 DEF Life!ReleaseExpiredLeases, FileOf
  <1>4. QED
    BY <1>3 DEF Life!Next

\* So is claiming the item.
LEMMA ClaimQueued ==
    ASSUME TypeOK, NEW i \in ItemIds, NEW w \in WorkerIds, UNCHANGED now,
           IsClaimable(ReleaseIfExpired(disk[i], now), now),
           disk'[i] = TransitionToLeased(ReleaseIfExpired(disk[i], now), w, now)
    PROVE  Life(i)!Next
  <1> DEFINE item == ReleaseIfExpired(disk[i], now)
  <1>1. Life(i)!Released = [q \in {Row(i)} |-> item]
    BY ReleasedRow
  <1>2. Life(i)!Due({i}) = {Row(i)}
    <2>1. Row(i)[1] \in {i} /\ Life(i)!Released[Row(i)] = item
      BY <1>1 DEF Row
    <2>2. Life(i)!IsClaimable(item, now)
      BY SameConstants DEF Life!IsClaimable, IsClaimable
    <2>3. Life(i)!ItemId = {Row(i)}
      BY RowOf
    <2>4. QED
      BY <2>1, <2>2, <2>3 DEF Life!Due
  <1>3. Row(i) \in Life(i)!Oldest(Life(i)!Due({i}))
    <2>1. Life(i)!Released[Row(i)] = item /\ item \in WorkItem
      BY <1>1, TransitionTypes DEF TypeOK
    <2>2. Life(i)!ClaimKey(item) \in Int
      BY <2>1 DEF Life!ClaimKey, WorkItem, OptionalTime, NoTime
    <2>3. QED
      BY <1>2, <2>1, <2>2 DEF Life!Oldest
  <1>4. FileOf(i)' = [Life(i)!Released EXCEPT
                        ![Row(i)] = Life(i)!TransitionToLeased(Life(i)!Released[Row(i)], w, now)]
    <2>1. disk'[i] = TransitionToLeased(item, w, now)
      OBVIOUS
    <2> HIDE DEF item
    <2>2. Life(i)!TransitionToLeased(item, w, now) = TransitionToLeased(item, w, now)
      BY SameConstants DEF Life!TransitionToLeased, TransitionToLeased
    <2>3. FileOf(i)' = [q \in {Row(i)} |-> disk'[i]]
      BY RowOf
    <2>4. Life(i)!Released[Row(i)] = item
      BY <1>1
    <2>5. QED
      BY <1>1, <2>1, <2>2, <2>3, <2>4
  <1>5. {i} \in Life(i)!ClaimScopes
    BY DEF Life!ClaimScopes
  <1>6. Life(i)!ClaimNext(w, {i})
    BY <1>3, <1>4 DEF Life!ClaimNext, FileOf
  <1>7. QED
    BY <1>5, <1>6 DEF Life!Next

\* So is creating it, and whatever else the server makes of it.
LEMMA CreateQueued ==
    ASSUME NEW i \in ItemIds, UNCHANGED now, disk[i].status = "absent",
           disk'[i] = CreateWorkItem(MaxAttempts, now)
    PROVE  Life(i)!Next
  <1>1. FileOf(i)[Row(i)].status = "absent" /\ Row(i)[1] = i /\ Row(i)[2] = i
    BY RowOf DEF Row
  <1>2. FileOf(i)' = [q \in {Row(i)} |-> CreateWorkItem(MaxAttempts, now)]
    BY RowOf
  <1>3. Life(i)!CreateWorkItem(MaxAttempts, now) = CreateWorkItem(MaxAttempts, now)
    BY SameConstants DEF Life!CreateWorkItem, CreateWorkItem
  <1>4. FileOf(i)' = [q \in Life(i)!ItemId |->
                        IF q[1] = i /\ q[2] \in {i} /\ FileOf(i)[q].status = "absent"
                        THEN Life(i)!CreateWorkItem(MaxAttempts, now) ELSE FileOf(i)[q]]
    <2>1. Life(i)!ItemId = {Row(i)}
      BY RowOf
    <2>2. QED
      BY <1>1, <1>2, <1>3, <2>1
  <1>5. Life(i)!CreateWorkItems(i, {i}, MaxAttempts)
    BY <1>4 DEF Life!CreateWorkItems, FileOf
  <1>6. QED
    BY <1>5 DEF Life!Next

LEMMA ReportQueued ==
    ASSUME NEW i \in ItemIds, NEW w \in WorkerIds, UNCHANGED now,
           \/ disk[i].status \in RunFrom /\ disk'[i] = TransitionToRunning(disk[i], w)
           \/ /\ disk[i].status \in FinishFrom
              /\ \/ disk'[i] = TransitionToDone(disk[i], "succeeded")
                 \/ disk'[i] = TransitionToDone(disk[i], "skipped")
                 \/ disk'[i] = TransitionToFailed(disk[i], FALSE, now)
           \/ disk[i].status \in CancelFrom /\ disk'[i] = TransitionToDone(disk[i], "cancelled")
    PROVE  Life(i)!Next
  <1>1. /\ Row(i) \in Life(i)!ItemId /\ FileOf(i)[Row(i)] = disk[i]
        /\ FileOf(i)' = [FileOf(i) EXCEPT ![Row(i)] = disk'[i]]
    BY RowOf
  <1>7. Life(i)!RunFrom = RunFrom /\ Life(i)!FinishFrom = FinishFrom
        /\ Life(i)!CancelFrom = CancelFrom
    BY SameConstants
  <1>2. CASE disk[i].status \in RunFrom /\ disk'[i] = TransitionToRunning(disk[i], w)
    <2>1. Life(i)!TransitionToRunning(disk[i], w) = TransitionToRunning(disk[i], w)
      BY SameConstants DEF Life!TransitionToRunning, TransitionToRunning
    <2>2. Life(i)!MarkRunning(Row(i), w)
      BY <1>1, <1>2, <1>7, <2>1 DEF Life!MarkRunning, FileOf
    <2>3. QED
      BY <1>1, <2>2 DEF Life!Next
  <1>3. CASE disk[i].status \in FinishFrom /\ disk'[i] = TransitionToDone(disk[i], "succeeded")
    <2>1. Life(i)!TransitionToDone(disk[i], "succeeded") = TransitionToDone(disk[i], "succeeded")
      BY SameConstants DEF Life!TransitionToDone, TransitionToDone
    <2>2. Life(i)!MarkSucceeded(Row(i))
      BY <1>1, <1>3, <1>7, <2>1 DEF Life!MarkSucceeded, FileOf
    <2>3. QED
      BY <1>1, <2>2 DEF Life!Next
  <1>4. CASE disk[i].status \in FinishFrom /\ disk'[i] = TransitionToDone(disk[i], "skipped")
    <2>1. Life(i)!TransitionToDone(disk[i], "skipped") = TransitionToDone(disk[i], "skipped")
      BY SameConstants DEF Life!TransitionToDone, TransitionToDone
    <2>2. Life(i)!MarkSkipped(Row(i))
      BY <1>1, <1>4, <1>7, <2>1 DEF Life!MarkSkipped, FileOf
    <2>3. QED
      BY <1>1, <2>2 DEF Life!Next
  <1>5. CASE disk[i].status \in FinishFrom /\ disk'[i] = TransitionToFailed(disk[i], FALSE, now)
    <2>1. Life(i)!TransitionToFailed(disk[i], FALSE, now) = TransitionToFailed(disk[i], FALSE, now)
      BY SameConstants DEF Life!TransitionToFailed, TransitionToFailed
    <2>2. Life(i)!MarkFailed(Row(i), FALSE)
      BY <1>1, <1>5, <1>7, <2>1 DEF Life!MarkFailed, FileOf
    <2>3. QED
      BY <1>1, <2>2 DEF Life!Next
  <1>6. CASE disk[i].status \in CancelFrom /\ disk'[i] = TransitionToDone(disk[i], "cancelled")
    <2>1. Life(i)!TransitionToDone(disk[i], "cancelled") = TransitionToDone(disk[i], "cancelled")
      BY SameConstants DEF Life!TransitionToDone, TransitionToDone
    <2>2. Life(i)!MarkCancelled(Row(i))
      BY <1>1, <1>6, <1>7, <2>1 DEF Life!MarkCancelled, FileOf
    <2>3. QED
      BY <1>1, <2>2 DEF Life!Next
  <1>8. QED
    BY <1>2, <1>3, <1>4, <1>5, <1>6

\* A file that nobody writes is a queue at rest.
LEMMA AtRest ==
    ASSUME NEW i \in ItemIds, UNCHANGED now, disk'[i] = disk[i]
    PROVE  UNCHANGED Life(i)!vars
  <1>1. FileOf(i)' = FileOf(i)
    BY RowOf
  <1>2. QED
    BY <1>1 DEF Life!vars, FileOf

\* A process that is alone writes its map over what it has read from the files.
LEMMA AloneWrites ==
    ASSUME AloneInv, ~overlapped, NEW p \in up, NEW its, WriteChanged(p, its), NEW i \in ItemIds
    PROVE  disk'[i] = its[i] /\ copy[p] = disk
  BY DEF AloneInv, WriteChanged

\* A claim releases every item that is due and leases one of them, in its map
\* and in the files.
LEMMA ClaimRow ==
    ASSUME TypeOK, AloneInv, ~overlapped, NEW w \in Workers \cap up, UNCHANGED now,
           NEW k \in Oldest(w), WriteChanged(w, Leased(w, k)), NEW i \in ItemIds
    PROVE  Life(i)!Next
  <1>1. disk'[i] = Leased(w, k)[i] /\ copy[w] = disk /\ w \in WorkerIds
    BY AloneWrites DEF Workers
  <1>2. /\ k \in ItemIds /\ IsClaimable(Released(w)[k], now)
        /\ Released(w)[i] = ReleaseIfExpired(disk[i], now)
    BY <1>1 DEF Oldest, Due, Released
  <1>3. Leased(w, k)[i] = IF i = k THEN TransitionToLeased(Released(w)[i], w, now)
                          ELSE Released(w)[i]
    BY <1>2 DEF Leased, Released
  <1>4. CASE i = k
    BY <1>1, <1>2, <1>3, <1>4, ClaimQueued
  <1>5. CASE i # k
    BY <1>1, <1>2, <1>3, <1>5, ReleaseQueued
  <1>6. QED
    BY <1>4, <1>5

\* As long as processes do not overlap, every step is one operation of the queue
\* of an item, or leaves it at rest.
LEMMA StepQueued ==
    ASSUME TypeInv, AloneInv, [Next]_vars, ~overlapped', NEW i \in ItemIds
    PROVE  Life(i)!Next \/ UNCHANGED Life(i)!vars
  <1>1. TypeOK /\ LocalRunner \in WorkerIds /\ \A w \in Workers : w \in WorkerIds
    BY WorkerFleetAssumption DEF TypeInv, Workers
  <1>2. ASSUME \/ StartServer \/ StopServer \/ UNCHANGED vars
               \/ \E w \in Workers : StartWorker(w) \/ StopWorker(w) \/ HeartbeatTick(w)
        PROVE  UNCHANGED Life(i)!vars
    <2>1. UNCHANGED <<now, disk>>
      BY <1>2 DEF StartServer, StopServer, StartWorker, StopWorker, HeartbeatTick,
                  Started, Gone, vars, itemVars
    <2>2. QED
      BY <2>1, AtRest
  <1>3. ASSUME NEW w \in Workers, ClaimNothing(w)
        PROVE  Life(i)!Next
    <2>1. w \in up /\ ~overlapped /\ UNCHANGED now /\ WriteChanged(w, Released(w))
      BY <1>3 DEF ClaimNothing, Available, Persist, procVars
    <2>2. disk'[i] = Released(w)[i] /\ copy[w] = disk
      BY <2>1, AloneWrites
    <2>3. QED
      BY <2>1, <2>2, ReleaseQueued DEF Released
  <1>4. ASSUME NEW w \in Workers, ClaimItem(w) \/ DiesClaiming(w)
        PROVE  Life(i)!Next
    <2>1. w \in up /\ ~overlapped /\ UNCHANGED now
      BY <1>4 DEF ClaimItem, DiesClaiming, Available, Gone, procVars
    <2>2. PICK k \in Oldest(w) : WriteChanged(w, Leased(w, k))
      BY <1>4 DEF ClaimItem, DiesClaiming, Persist
    <2>3. QED
      BY <1>1, <2>1, <2>2, ClaimRow
  <1>5. ASSUME NEW w \in Workers, DiesReleasing(w)
        PROVE  Life(i)!Next \/ UNCHANGED Life(i)!vars
    <2> DEFINE its(done) == [k \in ItemIds |-> IF k \in done THEN Released(w)[k] ELSE copy[w][k]]
    <2>1. w \in up /\ ~overlapped /\ UNCHANGED now
      BY <1>5 DEF DiesReleasing, Gone
    <2>2. PICK done \in SUBSET ItemIds : WriteChanged(w, its(done))
      BY <1>5 DEF DiesReleasing
    <2>3. disk'[i] = its(done)[i] /\ copy[w] = disk
      BY <2>1, <2>2, AloneWrites
    <2>4. CASE i \in done
      BY <2>1, <2>3, <2>4, ReleaseQueued DEF Released
    <2>5. CASE i \notin done
      BY <2>1, <2>3, <2>5, AtRest
    <2>6. QED
      BY <2>4, <2>5
  <1>6. ASSUME NEW its, ServerWrites(its)
        PROVE  disk'[i] = its[i] /\ copy[LocalRunner] = disk /\ UNCHANGED now
    <2>1. LocalRunner \in up /\ ~overlapped /\ UNCHANGED now /\ WriteChanged(LocalRunner, its)
      BY <1>6 DEF ServerWrites, Persist, procVars
    <2>2. QED
      BY <2>1, AloneWrites
  <1>7. ASSUME NEW ids \in SUBSET ItemIds, CreateWorkItems(ids)
        PROVE  Life(i)!Next \/ UNCHANGED Life(i)!vars
    <2> DEFINE its == [k \in ItemIds |-> IF k \in ids THEN CreateWorkItem(MaxAttempts, now)
                                         ELSE ServerItem(k)]
    <2>1. ServerWrites(its) /\ \A k \in ids : ServerItem(k).status = "absent"
      BY <1>7 DEF CreateWorkItems
    <2>2. disk'[i] = its[i] /\ ServerItem(i) = disk[i] /\ UNCHANGED now
      BY <1>6, <2>1 DEF ServerItem
    <2>3. CASE i \in ids
      BY <2>1, <2>2, <2>3, CreateQueued
    <2>4. CASE i \notin ids
      BY <2>2, <2>4, AtRest
    <2>5. QED
      BY <2>3, <2>4
  <1>8. ASSUME NEW k \in ItemIds, NEW item, ServerWrites([copy[LocalRunner] EXCEPT ![k] = item])
        PROVE  /\ UNCHANGED now /\ ServerItem(k) = disk[k]
               /\ i # k => disk'[i] = disk[i]
               /\ i = k => disk'[i] = item
    <2>1. copy[LocalRunner] \in ItemMap
      BY <1>1 DEF TypeOK, ItemMap
    <2>2. /\ disk'[i] = [copy[LocalRunner] EXCEPT ![k] = item][i]
          /\ copy[LocalRunner] = disk /\ UNCHANGED now
      BY <1>6, <1>8
    <2>3. QED
      BY <2>1, <2>2 DEF ServerItem, ItemMap
  <1>9. ASSUME NEW k \in ItemIds, ServerRuns(k)
        PROVE  Life(i)!Next \/ UNCHANGED Life(i)!vars
    <2> DEFINE item == TransitionToRunning(ServerItem(k), LocalRunner)
    <2>1. ServerItem(k).status \in RunFrom /\ ServerWrites([copy[LocalRunner] EXCEPT ![k] = item])
      BY <1>9 DEF ServerRuns
    <2>2. /\ UNCHANGED now /\ ServerItem(k) = disk[k]
          /\ (i # k => disk'[i] = disk[i]) /\ (i = k => disk'[i] = item)
      BY <1>8, <2>1
    <2>3. QED
      BY <1>1, <2>1, <2>2, AtRest, ReportQueued
  <1>10. ASSUME NEW k \in ItemIds, ServerReports(k)
         PROVE  Life(i)!Next \/ UNCHANGED Life(i)!vars
    <2> DEFINE item(status) == IF status = "failed" THEN TransitionToFailed(ServerItem(k), FALSE, now)
                               ELSE TransitionToDone(ServerItem(k), status)
    <2>1. ServerItem(k).status \in FinishFrom
      BY <1>10 DEF ServerReports
    <2>2. PICK status \in {"succeeded", "skipped", "failed"} :
             ServerWrites([copy[LocalRunner] EXCEPT ![k] = item(status)])
      BY <1>10 DEF ServerReports
    <2>3. /\ UNCHANGED now /\ ServerItem(k) = disk[k]
          /\ (i # k => disk'[i] = disk[i]) /\ (i = k => disk'[i] = item(status))
      BY <1>8, <2>2
    <2>4. QED
      BY <1>1, <2>1, <2>3, AtRest, ReportQueued
  <1>11. ASSUME NEW k \in ItemIds, ServerCancels(k)
         PROVE  Life(i)!Next \/ UNCHANGED Life(i)!vars
    <2> DEFINE item == TransitionToDone(ServerItem(k), "cancelled")
    <2>1. ServerItem(k).status \in CancelFrom
          /\ ServerWrites([copy[LocalRunner] EXCEPT ![k] = item])
      BY <1>11 DEF ServerCancels
    <2>2. /\ UNCHANGED now /\ ServerItem(k) = disk[k]
          /\ (i # k => disk'[i] = disk[i]) /\ (i = k => disk'[i] = item)
      BY <1>8, <2>1
    <2>3. QED
      BY <1>1, <2>1, <2>2, AtRest, ReportQueued
  <1>12. CASE Tick
    <2>1. now < MaxTime /\ now' = now + 1 /\ disk' = disk
      BY <1>12 DEF Tick, itemVars
    <2>2. FileOf(i)' = FileOf(i)
      BY <2>1 DEF FileOf
    <2>3. Life(i)!Tick
      BY <2>1, <2>2 DEF Life!Tick, FileOf
    <2>4. QED
      BY <2>3 DEF Life!Next
  <1>13. QED
    BY <1>2, <1>3, <1>4, <1>5, <1>7, <1>9, <1>10, <1>11, <1>12
    DEF Next, WorkerStep, ServerStep

\* Without overlap, the file of every item goes through the operations of one
\* queue, wherever a process dies.
THEOREM FilesAreQueues == Spec => ItemsAreQueued
  <1>1. Init => AloneInv
    BY DEF Init, AloneInv
  <1>2. TypeInv /\ AloneInv /\ [Next]_vars =>
           [\A i \in ItemIds : ~overlapped' => Life(i)!Next \/ UNCHANGED Life(i)!vars]_vars
    BY StepQueued
  <1>3. QED
    BY <1>1, <1>2, AloneNext, Invariance, PTL DEF Spec, ItemsAreQueued

\* An item that has no file is an empty queue.
LEMMA InitQueued ==
    ASSUME Init, NEW i \in ItemIds
    PROVE  Life(i)!Init
  <1>1. /\ Life(i)!ItemId = {Row(i)} /\ FileOf(i) = [q \in {Row(i)} |-> disk[i]]
        /\ disk[i] = Life(i)!AbsentItem /\ now = 0
    BY RowOf, SameConstants DEF Init, NoItems
  <1>2. QED
    BY <1>1 DEF Life!Init, FileOf

\* Processes that never overlap implement the queue of every item, the file being
\* the store; so what StoreProofs proves of a queue holds of the file.
THEOREM ImplementsQueues ==
    ASSUME NEW i \in ItemIds
    PROVE  Spec /\ []~overlapped => Life(i)!Spec
  <1>1. Init => Life(i)!Init
    BY InitQueued
  <1>2. TypeInv /\ AloneInv /\ [Next]_vars /\ ~overlapped' => [Life(i)!Next]_(Life(i)!vars)
    BY StepQueued
  <1>3. Init => AloneInv
    BY DEF Init, AloneInv
  <1>4. QED
    BY <1>1, <1>2, <1>3, AloneNext, Invariance, PTL DEF Spec, Life!Spec
=============================================================================
