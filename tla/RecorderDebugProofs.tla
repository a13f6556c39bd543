-------------------------- MODULE RecorderDebugProofs --------------------------
(***************************************************************************)
(* Proofs about RecorderDebug, for any number of commands, of polls of the *)
(* extension, of inputs and of restarts.                                   *)
(***************************************************************************)
EXTENDS RecorderDebug, SequenceTheorems, WellFoundedInduction, TLAPS

-----------------------------------------------------------------------------
(* The commands.                                                           *)
PollType == [pc : {"idle", "checking", "fetching", "begin", "run", "reloading"},
             cmd : Nat, kind : Kinds \union {"none"}]
CommandStatus == {"pending", "leased", "done"}

BridgeTyped == /\ polls \in [Polls -> PollType] /\ commands \in Seq(CommandStatus)
               /\ runs \in [1 .. MaxCommands -> Nat] /\ Len(commands) <= MaxCommands

(* A poll that is about to carry a command out has its lease and is the    *)
(* only one that will.                                                     *)
PollOwns == \A p \in Polls :
    /\ polls[p].pc = "begin" => /\ polls[p].cmd \in DOMAIN commands
                                /\ commands[polls[p].cmd] = "leased"
                                /\ runs[polls[p].cmd] = 0
    /\ polls[p].pc = "run" => /\ polls[p].cmd \in DOMAIN commands
                              /\ commands[polls[p].cmd] # "pending"
                              /\ runs[polls[p].cmd] = 1
PollsApart == \A p, q \in Polls :
    p # q /\ polls[p].pc = "begin" /\ polls[q].pc = "begin" => polls[p].cmd # polls[q].cmd
RunAfterLease == \A c \in 1 .. MaxCommands :
    /\ runs[c] <= 1
    /\ c \notin DOMAIN commands => runs[c] = 0
    /\ c \in DOMAIN commands /\ commands[c] = "pending" => runs[c] = 0
    /\ c \in DOMAIN commands /\ commands[c] = "done" => runs[c] = 1

BridgeInv == BridgeTyped /\ PollOwns /\ PollsApart /\ RunAfterLease

LEMMA PollTyped ==
    ASSUME NEW pc \in {"idle", "checking", "fetching", "begin", "run", "reloading"},
           NEW cmd \in Nat, NEW kind \in Kinds \union {"none"}
    PROVE  /\ Poll(pc, cmd, kind) \in PollType /\ Poll(pc, cmd, kind).pc = pc
           /\ Poll(pc, cmd, kind).cmd = cmd /\ Poll(pc, cmd, kind).kind = kind
BY DEF Poll, PollType

LEMMA CommandsDomain ==
    ASSUME BridgeTyped
    PROVE  /\ DOMAIN commands = 1 .. Len(commands) /\ Len(commands) \in Nat
           /\ DOMAIN commands \subseteq 1 .. MaxCommands
           /\ \A c \in DOMAIN commands : c \in Nat /\ commands[c] \in CommandStatus
BY DebugAssumption DEF BridgeTyped

(* A poll that goes to a place in which it holds no command.               *)
LEMMA PollLetsGo ==
    ASSUME BridgeInv, NEW p \in Polls, NEW r \in PollType, r.pc \notin {"begin", "run"},
           polls' = [polls EXCEPT ![p] = r], UNCHANGED <<commands, runs>>
    PROVE  BridgeInv'
<1>1. polls' \in [Polls -> PollType] /\ polls'[p] = r
      /\ \A q \in Polls \ {p} : polls'[q] = polls[q]
  BY DEF BridgeInv, BridgeTyped
<1> QED
  BY <1>1 DEF BridgeInv, BridgeTyped, PollOwns, PollsApart, RunAfterLease

(* The lease of a pending command, with or without a poll that gets it.    *)
LEMMA LeaseEffect ==
    ASSUME BridgeInv, NEW c \in DOMAIN commands, Lease(c)
    PROVE  /\ commands' \in Seq(CommandStatus) /\ Len(commands') = Len(commands)
           /\ DOMAIN commands' = DOMAIN commands /\ commands'[c] = "leased"
           /\ \A d \in DOMAIN commands \ {c} : commands'[d] = commands[d]
<1>1. commands' = [commands EXCEPT ![c] = "leased"]
  BY DEF Lease
<1>2. commands \in Seq(CommandStatus) /\ "leased" \in CommandStatus
  BY DEF BridgeInv, BridgeTyped, CommandStatus
<1> QED
  BY <1>1, <1>2, ExceptSeq, LenProperties

LEMMA FetchedKeeps ==
    ASSUME BridgeInv, NEW p \in Polls, NEW c \in DOMAIN commands, Oldest(c), Lease(c),
           NEW r \in PollType, r.pc \in {"idle", "begin"}, r.pc = "begin" => r.cmd = c,
           polls' = [polls EXCEPT ![p] = r], UNCHANGED runs
    PROVE  BridgeInv'
<1>1. commands[c] = "pending" /\ runs[c] = 0 /\ c \in 1 .. MaxCommands
  BY CommandsDomain DEF Oldest, Pending, BridgeInv, RunAfterLease
<1>2. polls' \in [Polls -> PollType] /\ polls'[p] = r
      /\ \A q \in Polls \ {p} : polls'[q] = polls[q]
  BY DEF BridgeInv, BridgeTyped
<1>3. BridgeTyped'
  BY <1>2, LeaseEffect DEF BridgeInv, BridgeTyped
<1>4. \A q \in Polls : polls[q].pc \in {"begin", "run"} => polls[q].cmd # c
  BY <1>1 DEF BridgeInv, PollOwns
<1>5. PollOwns'
  BY <1>1, <1>2, <1>4, LeaseEffect DEF BridgeInv, PollOwns
<1>6. PollsApart'
  BY <1>2, <1>4 DEF BridgeInv, PollsApart
<1>7. RunAfterLease'
  BY <1>1, LeaseEffect DEF BridgeInv, RunAfterLease
<1> QED
  BY <1>3, <1>5, <1>6, <1>7 DEF BridgeInv

LEMMA CommandBeginsKeeps ==
    ASSUME BridgeInv, NEW p \in Polls, CommandBegins(p)
    PROVE  BridgeInv'
<1> DEFINE c == polls[p].cmd
           r == Poll("run", polls[p].cmd, polls[p].kind)
<1>1. /\ polls[p] \in PollType /\ polls[p].pc = "begin" /\ polls' = [polls EXCEPT ![p] = r]
      /\ runs' = [runs EXCEPT ![c] = runs[c] + 1] /\ commands' = commands
  BY DEF CommandBegins, BridgeInv, BridgeTyped
<1>2. c \in DOMAIN commands /\ c \in 1 .. MaxCommands /\ commands[c] = "leased" /\ runs[c] = 0
  BY <1>1, CommandsDomain DEF BridgeInv, PollOwns
<1>3. r \in PollType /\ r.pc = "run" /\ r.cmd = c
  BY <1>1, PollTyped DEF PollType
<1> HIDE DEF c, r
<1>4. polls' \in [Polls -> PollType] /\ polls'[p] = r
      /\ \A q \in Polls \ {p} : polls'[q] = polls[q]
  BY <1>1, <1>3 DEF BridgeInv, BridgeTyped
<1>5. /\ runs' \in [1 .. MaxCommands -> Nat] /\ runs'[c] = 1
      /\ \A d \in (1 .. MaxCommands) \ {c} : runs'[d] = runs[d]
  BY <1>1, <1>2 DEF BridgeInv, BridgeTyped
<1>6. BridgeTyped'
  BY <1>1, <1>4, <1>5 DEF BridgeInv, BridgeTyped
<1>7. \A q \in Polls \ {p} : polls[q].pc \in {"begin", "run"} => polls[q].cmd # c
  BY <1>1, <1>2 DEF BridgeInv, PollOwns, PollsApart, c
<1>8. PollOwns'
  <2>1. ASSUME NEW q \in Polls \ {p}, polls[q].pc \in {"begin", "run"}
        PROVE  runs'[polls[q].cmd] = runs[polls[q].cmd]
    <3>1. polls[q].cmd \in DOMAIN commands
      BY <2>1 DEF BridgeInv, PollOwns
    <3> QED
      BY <1>5, <1>7, <2>1, <3>1, CommandsDomain DEF BridgeInv
  <2> QED
    BY <1>1, <1>2, <1>3, <1>4, <1>5, <2>1 DEF BridgeInv, PollOwns
<1>9. PollsApart'
  BY <1>3, <1>4 DEF BridgeInv, PollsApart
<1>10. RunAfterLease'
  BY <1>1, <1>2, <1>5 DEF BridgeInv, RunAfterLease
<1> QED
  BY <1>6, <1>8, <1>9, <1>10 DEF BridgeInv

LEMMA CommandEndsKeeps ==
    ASSUME BridgeInv, NEW p \in Polls, CommandEnds(p)
    PROVE  BridgeInv'
<1> DEFINE c == polls[p].cmd
           over == IF polls[p].kind = "reload" THEN Poll("reloading", 0, "none") ELSE Idle
<1>0. over \in PollType /\ over.pc \in {"idle", "reloading"}
      /\ polls' = [polls EXCEPT ![p] = over]
  BY PollTyped DEF CommandEnds, Idle
<1> HIDE DEF over
<1>1. CASE UNCHANGED commands
  BY <1>0, <1>1, PollLetsGo DEF CommandEnds
<1>2. CASE commands' = [commands EXCEPT ![c] = "done"]
  <2>1. /\ c \in DOMAIN commands /\ runs[c] = 1 /\ UNCHANGED runs
        /\ commands \in Seq(CommandStatus) /\ "done" \in CommandStatus
    BY DEF CommandEnds, BridgeInv, BridgeTyped, PollOwns, CommandStatus
  <2> HIDE DEF c
  <2>2. /\ commands' \in Seq(CommandStatus) /\ Len(commands') = Len(commands)
        /\ DOMAIN commands' = DOMAIN commands /\ commands'[c] = "done"
        /\ \A d \in DOMAIN commands \ {c} : commands'[d] = commands[d]
    BY <1>2, <2>1, ExceptSeq, LenProperties
  <2>3. polls' \in [Polls -> PollType] /\ polls'[p] = over
        /\ \A q \in Polls \ {p} : polls'[q] = polls[q]
    BY <1>0 DEF BridgeInv, BridgeTyped
  <2>4. BridgeTyped'
    BY <2>1, <2>2, <2>3 DEF BridgeInv, BridgeTyped
  <2>5. PollOwns'
    BY <1>0, <2>1, <2>2, <2>3 DEF BridgeInv, PollOwns
  <2>6. PollsApart'
    BY <1>0, <2>3 DEF BridgeInv, PollsApart
  <2>7. RunAfterLease'
    BY <2>1, <2>2 DEF BridgeInv, RunAfterLease
  <2> QED
    BY <2>4, <2>5, <2>6, <2>7 DEF BridgeInv
<1> QED
  BY <1>1, <1>2 DEF CommandEnds

LEMMA CreateKeeps ==
    ASSUME BridgeInv, CreateCommand
    PROVE  BridgeInv'
<1> DEFINE n == Len(commands) + 1
<1>1. /\ commands' = Append(commands, "pending") /\ Len(commands) < MaxCommands
      /\ UNCHANGED <<polls, runs>>
  BY DEF CreateCommand
<1>2. commands \in Seq(CommandStatus) /\ "pending" \in CommandStatus
  BY DEF BridgeInv, BridgeTyped, CommandStatus
<1>3. /\ commands' \in Seq(CommandStatus) /\ Len(commands') = n /\ commands'[n] = "pending"
      /\ \A c \in 1 .. Len(commands) : commands'[c] = commands[c]
  BY <1>1, <1>2, AppendProperties
<1>4. DOMAIN commands' = 1 .. n /\ DOMAIN commands = 1 .. Len(commands) /\ Len(commands) \in Nat
  BY <1>2, <1>3, LenProperties
<1>5. /\ \A c \in DOMAIN commands : c \in DOMAIN commands' /\ commands'[c] = commands[c]
      /\ \A c \in DOMAIN commands' \ DOMAIN commands : commands'[c] = "pending"
  BY <1>3, <1>4
<1>6. n <= MaxCommands
  BY <1>1, <1>4, DebugAssumption
<1> HIDE DEF n
<1>7. BridgeTyped'
  BY <1>1, <1>3, <1>6 DEF BridgeInv, BridgeTyped
<1>8. PollOwns' /\ PollsApart'
  BY <1>1, <1>5 DEF BridgeInv, PollOwns, PollsApart
<1>9. RunAfterLease'
  BY <1>1, <1>5 DEF BridgeInv, RunAfterLease
<1> QED
  BY <1>7, <1>8, <1>9 DEF BridgeInv

LEMMA BridgeInvInit == DebugInit => BridgeInv
<1> SUFFICES ASSUME DebugInit PROVE BridgeInv
  OBVIOUS
<1>1. Idle \in PollType /\ Idle.pc = "idle"
  BY PollTyped DEF Idle
<1>2. commands = <<>> /\ polls = [p \in Polls |-> Idle] /\ runs = [c \in 1 .. MaxCommands |-> 0]
  BY DEF DebugInit
<1>3. commands \in Seq(CommandStatus) /\ Len(commands) = 0 /\ DOMAIN commands = {}
  BY <1>2, EmptySeq
<1> QED
  BY <1>1, <1>2, <1>3, DebugAssumption
     DEF BridgeInv, BridgeTyped, PollOwns, PollsApart, RunAfterLease

LEMMA BridgeInvStep == BridgeInv /\ [DebugNext]_<<vars, bridge>> => BridgeInv'
<1> SUFFICES ASSUME BridgeInv, [DebugNext]_<<vars, bridge>> PROVE BridgeInv'
  OBVIOUS
<1>0. \A pc \in {"checking", "fetching"} :
        Poll(pc, 0, "none") \in PollType /\ Poll(pc, 0, "none").pc = pc
  BY PollTyped
<1>a. Idle \in PollType /\ Idle.pc = "idle"
  BY PollTyped DEF Idle
<1>1. CASE UNCHANGED bridge
  BY <1>1 DEF bridge, BridgeInv, BridgeTyped, PollOwns, PollsApart, RunAfterLease
<1>2. CASE PollsGone
  BY <1>2, <1>a DEF PollsGone, BridgeInv, BridgeTyped, PollOwns, PollsApart, RunAfterLease
<1>3. ASSUME NEW p \in Polls, PollTick(p) \/ PollChecked(p)
      PROVE  BridgeInv'
  <2>1. \E pc \in {"checking", "fetching"} : polls' = [polls EXCEPT ![p] = Poll(pc, 0, "none")]
        \/ polls' = [polls EXCEPT ![p] = Idle]
    BY <1>3 DEF PollTick, PollChecked
  <2>2. UNCHANGED <<commands, runs>>
    BY <1>3 DEF PollTick, PollChecked
  <2> QED
    BY <1>0, <1>a, <2>1, <2>2, PollLetsGo
<1>4. ASSUME NEW p \in Polls, PollFetched(p)
      PROVE  BridgeInv'
  <2>1. PICK c \in DOMAIN commands, kind \in Kinds :
          Oldest(c) /\ Lease(c) /\ polls' = [polls EXCEPT ![p] = Poll("begin", c, kind)]
    BY <1>4 DEF PollFetched
  <2>2. c \in Nat
    BY CommandsDomain DEF BridgeInv
  <2>3. Poll("begin", c, kind) \in PollType /\ Poll("begin", c, kind).pc = "begin"
        /\ Poll("begin", c, kind).cmd = c
    BY <2>2, PollTyped
  <2> QED
    BY <1>4, <2>1, <2>3, FetchedKeeps DEF PollFetched
<1>5. ASSUME NEW p \in Polls, PollFetchesNothing(p)
      PROVE  BridgeInv'
  <2>1. polls' = [polls EXCEPT ![p] = Idle] /\ UNCHANGED runs
    BY <1>5 DEF PollFetchesNothing, PollEnds
  <2>2. UNCHANGED commands \/ \E c \in DOMAIN commands : Oldest(c) /\ Lease(c)
    BY <1>5 DEF PollFetchesNothing
  <2> QED
    BY <1>a, <2>1, <2>2, PollLetsGo, FetchedKeeps
<1> QED
  BY <1>1, <1>2, <1>3, <1>4, <1>5, CreateKeeps, CommandBeginsKeeps, CommandEndsKeeps
     DEF DebugNext, WorkerRestarts, ExtensionReloads

(* No command of the debug bridge is carried out twice, and one that is    *)
(* answered was carried out (recorderDebugStore.ts:107-163;                *)
(* RecorderDebug.tla, CommandOnce).                                        *)
THEOREM CommandsCarriedOutOnce == DebugSpec => []CommandOnce
<1>1. BridgeInv => CommandOnce
  BY DEF BridgeInv, RunAfterLease, CommandOnce
<1> QED
  BY <1>1, BridgeInvInit, BridgeInvStep, PTL DEF DebugSpec

-----------------------------------------------------------------------------
(* The flags.                                                              *)
TestOwned == loops \in Nat /\ (running => loops > 0)
PollOwned == polling => \E p \in Polls : polls[p].pc \in {"fetching", "begin", "run"}

(* What a step does to the runner of tests.                                *)
RunnerMoves == \/ UNCHANGED runner
               \/ running' = TRUE /\ loops' = loops + 1
               \/ running' = FALSE /\ loops' = loops
               \/ running' = FALSE /\ loops' = loops - 1 /\ loops > 0
               \/ running' = FALSE /\ loops' = 0

LEMMA PageRunner == Page => UNCHANGED runner
BY DEF Page, HandleInput, FlushFill, HandleClick, HandleNavigation, SendsBoth, LeavePage,
       SyncContentRecorder, IdleTests

LEMMA AsksRunner == ASSUME NEW op, Asks(op) PROVE UNCHANGED runner
BY DEF Asks, IdleTests

LEMMA PanelRunner == PanelMessage \/ AddAction => UNCHANGED runner
<1>1. PauseBegins("pause") \/ PauseBegins("resume") \/ StopBegins \/ ClearBegins \/ ImportBegins
        => UNCHANGED runner
  BY AsksRunner DEF PauseBegins, StopBegins, ClearBegins, ImportBegins
<1>2. StartBegins \/ RestoreBegins \/ TestBegins \/ Enable \/ DisableBegins \/ AddAction
        => UNCHANGED runner
  BY DEF StartBegins, RestoreBegins, TestBegins, Enable, DisableBegins, AddAction,
         IdleTests, runner
<1>3. ASSUME NEW a \in steps, DeleteAction(a) PROVE UNCHANGED runner
  BY <1>3 DEF DeleteAction, IdleTests
<1> QED
  BY <1>1, <1>2, <1>3 DEF PanelMessage

LEMMA WorkerRunner == Worker => RunnerMoves
<1>1. \A op : (PauseDelivered(op) \/ PauseSaved(op)) => UNCHANGED runner
  BY DEF PauseDelivered, Reaches, PauseSaved, IdleTests
<1>2. StartDelivered \/ StartSaved \/ StartFails \/ StopDelivered \/ StopBuilds \/ StopClears
        => UNCHANGED runner
  BY DEF StartDelivered, StartSaved, StartFails, StopDelivered, StopBuilds, StopClears,
         Reaches, IdleTests
<1>3. ClearDelivered \/ ClearForgets \/ ClearEnds \/ ImportDelivered \/ ImportReplaces
        \/ ImportSaved \/ DisableDelivered => UNCHANGED runner
  BY DEF ClearDelivered, ClearForgets, ClearEnds, ImportDelivered, ImportReplaces,
         ImportSaved, DisableDelivered, Reaches, IdleTests
<1>4. ActionDropped \/ ActionRead \/ ActionCaptured \/ NavigationRecorded \/ RestoreEnds
        => UNCHANGED runner
  BY DEF ActionDropped, ActionRead, ActionCaptured, NavigationRecorded, RestoreEnds, IdleTests
<1>5. DisableEnds \/ TestRuns \/ TestEnds => RunnerMoves
  BY DEF DisableEnds, TestRuns, TestEnds, RunnerMoves, runner
<1> QED
  BY <1>1, <1>2, <1>3, <1>4, <1>5 DEF Worker, RunnerMoves

LEMMA TestOwnedStep == TestOwned /\ [DebugNext]_<<vars, bridge>> => TestOwned'
<1> SUFFICES ASSUME TestOwned, [DebugNext]_<<vars, bridge>> PROVE TestOwned'
  OBVIOUS
<1>1. UNCHANGED vars => RunnerMoves
  BY DEF vars, RunnerMoves
<1>2. Page \/ Panel \/ Worker => RunnerMoves
  BY PageRunner, PanelRunner, WorkerRunner DEF Panel, RunnerMoves
<1>3. \A kind : Operation(kind) => RunnerMoves
  <2>1. StopBegins \/ ClearBegins \/ ImportBegins => UNCHANGED runner
    BY AsksRunner DEF StopBegins, ClearBegins, ImportBegins
  <2>2. StartBegins \/ RestoreBegins \/ TestBegins \/ Build => UNCHANGED runner
    BY DEF StartBegins, RestoreBegins, TestBegins, Build, IdleTests, runner
  <2> SUFFICES ASSUME NEW kind, Operation(kind) PROVE RunnerMoves
    OBVIOUS
  <2>3. \/ StopBegins \/ ClearBegins \/ ImportBegins
        \/ StartBegins \/ RestoreBegins \/ TestBegins \/ Build \/ UNCHANGED vars
    BY DEF Operation
  <2> QED
    BY <1>1, <2>1, <2>2, <2>3 DEF RunnerMoves
<1>4. WorkerRestarts \/ (\E p \in Polls : ExtensionReloads(p)) => RunnerMoves
  BY DEF WorkerRestarts, ExtensionReloads, Restart, Reload, StartsWith, RunnerMoves
<1>5. CreateCommand => RunnerMoves
  BY DEF CreateCommand, RunnerMoves
<1>6. \A p \in Polls : PollTick(p) \/ PollChecked(p) \/ PollFetched(p)
                       \/ PollFetchesNothing(p) \/ CommandEnds(p) => UNCHANGED vars
  BY DEF PollTick, PollChecked, PollFetched, PollFetchesNothing, CommandEnds
<1>7. RunnerMoves
  BY <1>1, <1>2, <1>3, <1>4, <1>5, <1>6 DEF DebugNext, CommandBegins
<1> QED
  BY <1>7 DEF TestOwned, RunnerMoves, runner

LEMMA PollOwnedStep == BridgeInv /\ PollOwned /\ [DebugNext]_<<vars, bridge>> => PollOwned'
<1> SUFFICES ASSUME BridgeInv, PollOwned, [DebugNext]_<<vars, bridge>> PROVE PollOwned'
  OBVIOUS
<1>0. polls \in [Polls -> PollType]
  BY DEF BridgeInv, BridgeTyped
<1>1. CASE UNCHANGED <<polls, polling>>
  BY <1>1 DEF PollOwned
<1>2. CASE polling' = FALSE
  BY <1>2 DEF PollOwned
<1>3. ASSUME NEW p \in Polls, NEW r \in PollType, r.pc \in {"fetching", "begin", "run"},
             polls' = [polls EXCEPT ![p] = r]
      PROVE  PollOwned'
  BY <1>0, <1>3 DEF PollOwned
<1>4. ASSUME NEW p \in Polls, PollTick(p)
      PROVE  PollOwned'
  BY <1>4 DEF PollTick, PollOwned
<1>5. ASSUME NEW p \in Polls, PollChecked(p)
      PROVE  PollOwned'
  <2>1. CASE enabled
    <3>1. Poll("fetching", 0, "none") \in PollType /\ Poll("fetching", 0, "none").pc = "fetching"
      BY PollTyped
    <3>2. polls' = [polls EXCEPT ![p] = Poll("fetching", 0, "none")]
      BY <1>5, <2>1 DEF PollChecked
    <3> QED
      BY <1>3, <3>1, <3>2
  <2>2. CASE ~enabled
    <3>1. (polling' => polling) /\ polls[p].pc = "checking" /\ polls' = [polls EXCEPT ![p] = Idle]
      BY <1>5, <2>2 DEF PollChecked, PollOwned
    <3>2. \A q \in Polls : polls[q].pc \in {"fetching", "begin", "run"} => polls'[q] = polls[q]
      BY <1>0, <3>1
    <3> QED
      BY <3>1, <3>2 DEF PollOwned
  <2> QED
    BY <2>1, <2>2
<1>6. ASSUME NEW p \in Polls, PollFetched(p)
      PROVE  PollOwned'
  <2>1. PICK c \in DOMAIN commands, kind \in Kinds :
          polls' = [polls EXCEPT ![p] = Poll("begin", c, kind)]
    BY <1>6 DEF PollFetched
  <2>2. c \in Nat
    BY CommandsDomain DEF BridgeInv
  <2>3. Poll("begin", c, kind) \in PollType /\ Poll("begin", c, kind).pc = "begin"
    BY <2>2, PollTyped
  <2> QED
    BY <1>3, <2>1, <2>3
<1>7. ASSUME NEW p \in Polls, CommandBegins(p)
      PROVE  PollOwned'
  <2>1. Poll("run", polls[p].cmd, polls[p].kind) \in PollType
        /\ Poll("run", polls[p].cmd, polls[p].kind).pc = "run"
    BY <1>0, PollTyped DEF PollType
  <2> QED
    BY <1>3, <1>7, <2>1 DEF CommandBegins
<1>8. ASSUME NEW p \in Polls, PollFetchesNothing(p) \/ CommandEnds(p)
      PROVE  PollOwned'
  BY <1>2, <1>8 DEF PollFetchesNothing, CommandEnds, PollEnds
<1> QED
  BY <1>1, <1>2, <1>4, <1>5, <1>6, <1>7, <1>8
     DEF DebugNext, bridge, WorkerRestarts, ExtensionReloads, PollsGone, CreateCommand

(* The flags that keep out another test and another poll have an owner     *)
(* (workflowTestRunner.ts:21-35, service-worker.ts:443-468;                *)
(* RecorderDebug.tla, FlagsHaveOwners).                                    *)
THEOREM FlagsAreOwned == DebugSpec => []FlagsHaveOwners
<1>1. DebugInit => TestOwned /\ PollOwned
  BY DEF DebugInit, Init, TestOwned, PollOwned
<1>2. TestOwned /\ PollOwned => FlagsHaveOwners
  BY DEF TestOwned, PollOwned, FlagsHaveOwners
<1> QED
  BY <1>1, <1>2, BridgeInvInit, BridgeInvStep, TestOwnedStep, PollOwnedStep, PTL DEF DebugSpec

-----------------------------------------------------------------------------
(* The types of the session.                                               *)
Pcs == {"sent", "answered", "storing"}

LEMMA TaskTyped ==
    ASSUME NEW op \in Ops, NEW pc \in Pcs, NEW act \in 0 .. MaxInputs, NEW base \in Numbers,
           op = "capture" => act # 0
    PROVE  /\ Task(op, pc, act, base) \in TaskType
           /\ Task(op, pc, act, base).op = op /\ Task(op, pc, act, base).pc = pc
           /\ Task(op, pc, act, base).act = act /\ Task(op, pc, act, base).base = base
BY DEF Task, TaskType, Pcs

LEMMA AtTyped ==
    ASSUME NEW op \in Ops \ {"capture"}, NEW pc \in Pcs
    PROVE  At(op, pc) \in TaskType /\ At(op, pc).op = op /\ At(op, pc).pc = pc
<1>1. 0 \in 0 .. MaxInputs /\ {} \in Numbers
  BY SessionAssumption DEF Numbers
<1> QED
  BY <1>1, TaskTyped DEF At

LEMMA StepsTyped ==
    ASSUME NEW s \in Numbers, NEW a \in 1 .. MaxInputs
    PROVE  /\ Insert(s, a) \in Numbers /\ s \subseteq Insert(s, a)
           /\ Insert(s, a) \subseteq s \union {a}
           /\ a \in Insert(s, a) \/ IsDuplicate(Insert(s, a), a)
BY DEF Insert, Numbers

LEMMA PreparedTyped ==
    ASSUME NEW s \in Numbers, NEW kept \in Prepared(s)
    PROVE  kept \in Numbers /\ kept \subseteq s
BY DEF Prepared, Numbers

LEMMA PersistedTyped ==
    ASSUME NEW rec \in BOOLEAN, NEW pau \in BOOLEAN, NEW st \in Numbers, NEW tb \in BOOLEAN
    PROVE  Persisted(rec, pau, st, tb) \in {NoDraft} \union DraftType
BY DEF Persisted, DraftType

LEMMA RecordingPersisted ==
    ASSUME NEW pau \in BOOLEAN, NEW st \in Numbers, NEW tb \in BOOLEAN
    PROVE  /\ Persisted(TRUE, pau, st, tb) # NoDraft
           /\ Persisted(TRUE, pau, st, tb).recording
           /\ Persisted(TRUE, pau, st, tb).paused = pau
           /\ Persisted(TRUE, pau, st, tb).steps = st
<1> DEFINE r == [recording |-> TRUE, paused |-> pau, steps |-> st, tab |-> tb]
<1>1. r \in DraftType /\ r.recording /\ r.paused = pau /\ r.steps = st
  BY DEF DraftType
<1>2. r # NoDraft
  BY <1>1, SessionAssumption DEF DraftType, Numbers
<1>3. Persisted(TRUE, pau, st, tb) = r
  BY DEF Persisted
<1> QED
  BY <1>1, <1>2, <1>3

LEMMA RecordActionTyped ==
    ASSUME NEW p \in PageType, NEW a \in 1 .. MaxInputs
    PROVE  RecordAction(p, a) \in PageType
<1> DEFINE q == Insert(p.queue, a) \intersect {twins[1] : twins \in Near}
<1>1. p.queue \in Numbers
  BY DEF PageType
<1>2. q \in Numbers
  BY <1>1, StepsTyped DEF Numbers
<1>3. RecordAction(p, a) = [p EXCEPT !.queue = q]
  BY DEF RecordAction
<1> QED
  BY <1>2, <1>3 DEF PageType

LEMMA FlushedTyped ==
    ASSUME NEW p \in PageType
    PROVE  Flushed(p) \in PageType
<1>1. p.pending \in 0 .. MaxInputs /\ 0 \in 0 .. MaxInputs
  BY SessionAssumption DEF PageType
<1>2. CASE p.pending = 0
  BY <1>2 DEF Flushed
<1>3. CASE p.pending # 0
  <2>1. RecordAction(p, p.pending) \in PageType
    BY <1>1, <1>3, RecordActionTyped
  <2> QED
    BY <1>1, <1>3, <2>1 DEF Flushed, PageType
<1> QED
  BY <1>2, <1>3

LEMMA SendsTyped ==
    ASSUME NEW p \in PageType, NEW a \in 0 .. MaxInputs, NEW shot \in BOOLEAN
    PROVE  Sends(p, a, shot) \in MailType
<1>1. CASE a = 0 \/ IsDuplicate(p.queue, a)
  BY <1>1 DEF Sends, MailType
<1>2. CASE ~(a = 0 \/ IsDuplicate(p.queue, a))
  <2>1. [act |-> a, shot |-> shot] \in [act : 1 .. MaxInputs, shot : BOOLEAN]
    BY <1>2
  <2> QED
    BY <1>2, <2>1 DEF Sends, MailType
<1> QED
  BY <1>1, <1>2

LEMMA FlushSendsTyped ==
    ASSUME NEW p \in PageType
    PROVE  FlushSends(p) \in MailType
BY SendsTyped DEF FlushSends, PageType

LEMMA MailTyped ==
    ASSUME NEW m \in MailType, NEW n \in MailType
    PROVE  /\ m \o n \in MailType
           /\ m # <<>> => /\ Tail(m) \in MailType /\ Head(m).act \in 1 .. MaxInputs
                          /\ Head(m).shot \in BOOLEAN
<1> DEFINE R == [act : 1 .. MaxInputs, shot : BOOLEAN]
<1>1. m \o n \in Seq(R)
  BY ConcatProperties DEF MailType
<1>2. m # <<>> => Tail(m) \in Seq(R) /\ Head(m) \in R
  BY HeadTailProperties DEF MailType
<1> QED
  BY <1>1, <1>2 DEF MailType

LEMMA StartedTyped ==
    ASSUME NEW p \in PageType
    PROVE  Started(p) \in PageType /\ Halted(p) \in PageType
<1>1. {} \in Numbers
  BY DEF Numbers
<1>2. Started(p) \in PageType
  BY <1>1 DEF Started, PageType
<1>3. Halted(p) \in PageType
  BY FlushedTyped DEF Halted, PageType
<1> QED
  BY <1>2, <1>3

(* What a message to the page leaves it with.                              *)
PageTyped == page' \in PageType /\ mail' \in MailType /\ inputs' \in 0 .. MaxInputs

LEMMA InputTyped ==
    ASSUME TypeOK, NewInput
    PROVE  inputs' \in 1 .. MaxInputs
BY SessionAssumption DEF TypeOK, NewInput

LEMMA PageStartsTyped ==
    ASSUME TypeOK, NEW halt \in BOOLEAN, PageStarts(halt)
    PROVE  PageTyped
<1>1. page \in PageType /\ mail \in MailType /\ inputs \in 0 .. MaxInputs
  BY DEF TypeOK
<1>2. Started(page) \in PageType /\ Halted(Started(page)) \in PageType
  BY <1>1, StartedTyped
<1>3. mail \o FlushSends(page) \in MailType
  BY <1>1, FlushSendsTyped, MailTyped
<1>4. CASE /\ page' = IF halt THEN Halted(Started(page)) ELSE Started(page)
           /\ mail' = IF halt THEN mail \o FlushSends(page) ELSE mail
           /\ UNCHANGED inputs
  BY <1>1, <1>2, <1>3, <1>4 DEF PageTyped
<1>5. CASE /\ NewInput
           /\ page' = [RecordAction(Started(page), inputs') EXCEPT !.paused = halt]
           /\ mail' = mail \o Sends(Started(page), inputs', FALSE)
  <2>1. inputs' \in 1 .. MaxInputs /\ inputs' \in 0 .. MaxInputs
    BY <1>5, InputTyped
  <2>2. RecordAction(Started(page), inputs') \in PageType
    BY <1>2, <2>1, RecordActionTyped
  <2>3. page' \in PageType
    BY <1>5, <2>2 DEF PageType
  <2>4. mail' \in MailType
    BY <1>1, <1>2, <1>5, <2>1, SendsTyped, MailTyped
  <2> QED
    BY <2>1, <2>3, <2>4 DEF PageTyped
<1> QED
  BY <1>4, <1>5 DEF PageStarts

LEMMA PageStopsTyped ==
    ASSUME TypeOK, PageStops \/ (\E on \in BOOLEAN : PagePauses(on)) \/ NotReached
    PROVE  page' \in PageType /\ mail' \in MailType
<1>1. page \in PageType /\ mail \in MailType
  BY DEF TypeOK
<1>2. Flushed(page) \in PageType /\ Halted(page) \in PageType
  BY <1>1, FlushedTyped, StartedTyped
<1>3. mail \o FlushSends(page) \in MailType
  BY <1>1, FlushSendsTyped, MailTyped
<1>4. CASE PageStops
  BY <1>2, <1>3, <1>4 DEF PageStops, PageType
<1>5. ASSUME NEW on \in BOOLEAN, PagePauses(on) PROVE page' \in PageType /\ mail' \in MailType
  BY <1>1, <1>2, <1>3, <1>5 DEF PagePauses, PageType
<1> QED
  BY <1>1, <1>4, <1>5 DEF NotReached

LEMMA SaveTyped ==
    ASSUME TypeOK, Save, recording' \in BOOLEAN, paused' \in BOOLEAN, steps' \in Numbers,
           tab' \in BOOLEAN
    PROVE  draft' \in {NoDraft} \union DraftType
BY PersistedTyped DEF Save

LEMMA PageKeepsType == TypeOK /\ Page => TypeOK'
<1> SUFFICES ASSUME TypeOK, Page PROVE TypeOK'
  OBVIOUS
<1>0. page \in PageType /\ mail \in MailType
  BY DEF TypeOK
<1>1. /\ Flushed(page) \in PageType /\ FlushSends(page) \in MailType
      /\ mail \o FlushSends(page) \in MailType
  BY <1>0, FlushedTyped, FlushSendsTyped, MailTyped
<1>2. CASE HandleInput
  <2>1. inputs' \in 1 .. MaxInputs
    BY <1>2, InputTyped DEF HandleInput
  <2>2. page' \in PageType
    BY <1>1, <1>2, <2>1 DEF HandleInput, PageType
  <2> QED
    BY <1>1, <1>2, <2>1, <2>2 DEF HandleInput, TypeOK, memory, runner, history
<1>3. CASE FlushFill
  BY <1>1, <1>3 DEF FlushFill, TypeOK, memory, runner, history, counters
<1>4. ASSUME NEW shot \in BOOLEAN, SendsBoth(shot)
      PROVE  TypeOK'
  <2>1. inputs' \in 1 .. MaxInputs /\ inputs' \in 0 .. MaxInputs
    BY <1>4, InputTyped DEF SendsBoth
  <2>2. page' \in PageType /\ mail' \in MailType
    BY <1>1, <1>4, <2>1, RecordActionTyped, SendsTyped, MailTyped DEF SendsBoth
  <2> QED
    BY <1>4, <2>1, <2>2 DEF SendsBoth, TypeOK, memory, runner, history
<1>5. CASE LeavePage
  <2>1. 0 \in 0 .. MaxInputs /\ {} \in Numbers
    BY SessionAssumption DEF Numbers
  <2>2. page' \in PageType
    BY <1>0, <1>5, <2>1 DEF LeavePage, PageType
  <2>3. restarts' \in 0 .. MaxRestarts
    BY <1>5, SessionAssumption DEF LeavePage, Lost, TypeOK
  <2> QED
    BY <1>5, <2>2, <2>3 DEF LeavePage, TypeOK, memory, runner, history
<1>6. CASE SyncContentRecorder
  <2>1. PageTyped
    BY <1>6, PageStartsTyped DEF SyncContentRecorder, TypeOK
  <2> QED
    BY <1>6, <2>1 DEF PageTyped, SyncContentRecorder, TypeOK, memory, IdleTests, runner, history
<1> QED
  BY <1>2, <1>3, <1>4, <1>5, <1>6 DEF Page, HandleClick, HandleNavigation

(* What a handler that was asked for leaves typed.                         *)
AskTyped == /\ recording' \in BOOLEAN /\ paused' \in BOOLEAN /\ tab' \in BOOLEAN
            /\ steps' \in Numbers /\ lastSteps' \in Numbers /\ accepted' \in Numbers
            /\ tasks' \subseteq TaskType /\ running' \in BOOLEAN /\ loops' \in Nat
            /\ draft' \in {NoDraft} \union DraftType /\ enabled' \in BOOLEAN
            /\ page' \in PageType /\ mail' \in MailType
            /\ mixed' \in BOOLEAN /\ overtaken' \in BOOLEAN

LEMMA AsksTyped ==
    ASSUME TypeOK, NEW op \in Ops \ {"capture"}, Asks(op), UNCHANGED <<recording, steps, enabled, mixed>>,
           paused' \in BOOLEAN, tab' \in BOOLEAN
    PROVE  AskTyped
<1>1. At(op, "sent") \in TaskType
  BY AtTyped DEF Pcs
<1> QED
  BY <1>1 DEF Asks, IdlePage, IdleTests, runner, AskTyped, TypeOK

LEMMA MessageKeepsType ==
    ASSUME TypeOK, PanelMessage \/ (\E kind : Operation(kind) /\ UNCHANGED counters /\ ~UNCHANGED vars)
    PROVE  AskTyped
<1>1. StartBegins => AskTyped
  <2>1. At("start", "sent") \in TaskType /\ {} \in Numbers
    BY AtTyped DEF Ops, Pcs, Numbers
  <2> QED
    BY <2>1 DEF StartBegins, IdlePage, IdleTests, runner, AskTyped, TypeOK
<1>2. StopBegins \/ ClearBegins \/ ImportBegins => AskTyped
  BY AsksTyped DEF StopBegins, ClearBegins, ImportBegins, memory, TypeOK, Ops
<1>3. ASSUME NEW op \in {"pause", "resume"}, PauseBegins(op) PROVE AskTyped
  BY <1>3, AsksTyped DEF PauseBegins, Pausing, TypeOK, Ops
<1>4. Enable => AskTyped
  BY DEF Enable, IdlePage, IdleTests, runner, memory, history, AskTyped, TypeOK
<1>5. DisableBegins => AskTyped
  <2>1. At("disable", "sent") \in TaskType
    BY AtTyped DEF Ops, Pcs
  <2> QED
    BY <2>1 DEF DisableBegins, IdlePage, IdleTests, runner, memory, history, AskTyped, TypeOK
<1>6. RestoreBegins \/ TestBegins => AskTyped
  <2>1. At("test", "sent") \in TaskType /\ Task("restore", "sent", 0, lastSteps) \in TaskType
    <3>1. 0 \in 0 .. MaxInputs /\ lastSteps \in Numbers
      BY SessionAssumption DEF TypeOK
    <3> QED
      BY <3>1, AtTyped, TaskTyped DEF Ops, Pcs
  <2> QED
    BY <2>1 DEF RestoreBegins, TestBegins, IdlePage, IdleTests, runner, memory, history,
               AskTyped, TypeOK
<1>7. ASSUME NEW a \in steps, DeleteAction(a) PROVE AskTyped
  <2>1. steps' \in Numbers /\ accepted' \in Numbers
    BY <1>7 DEF DeleteAction, Forget, TypeOK, Numbers
  <2>2. draft' \in {NoDraft} \union DraftType
    BY <1>7, <2>1, SaveTyped DEF DeleteAction, TypeOK
  <2> QED
    BY <1>7, <2>1, <2>2 DEF DeleteAction, Forget, Touch, IdlePage, IdleTests, runner,
                            AskTyped, TypeOK
<1>8. Build => AskTyped
  BY PreparedTyped DEF Build, Touch, Same, IdlePage, IdleTests, runner, AskTyped, TypeOK
<1> QED
  BY <1>1, <1>2, <1>3, <1>4, <1>5, <1>6, <1>7, <1>8 DEF PanelMessage, Operation

LEMMA MovesTyped ==
    ASSUME TypeOK, NEW op \in Ops \ {"capture"}, NEW from, NEW to \in Pcs, Moves(op, from, to) \/ Ends(op, from)
    PROVE  tasks' \subseteq TaskType
BY AtTyped DEF Moves, Ends, TypeOK

LEMMA WorkerKeepsType == TypeOK /\ Worker => TypeOK'
<1> SUFFICES ASSUME TypeOK, Worker PROVE TypeOK'
  OBVIOUS
<1>0. {} \in Numbers
  BY DEF Numbers
<1>1. CASE StartDelivered
  <2>1. PageTyped
    BY <1>1, PageStartsTyped DEF StartDelivered
  <2>2. tasks' \subseteq TaskType
    BY <1>1, MovesTyped DEF StartDelivered, Ops, Pcs
  <2> QED
    BY <1>1, <2>1, <2>2 DEF PageTyped, StartDelivered, memory, IdleTests, runner, history, TypeOK
<1>2. CASE StartFails \/ StopClears \/ ClearEnds
  <2>1. tasks' \subseteq TaskType
    BY <1>2, MovesTyped DEF StartFails, StopClears, ClearEnds, Ops, Pcs
  <2> QED
    BY <1>2, <2>1 DEF StartFails, StopClears, ClearEnds, IdlePage, IdleUser, counters, IdleTests,
                      runner, memory, history, TypeOK
<1>3. ASSUME NEW op \in Ops \ {"capture"}, PageStops \/ (\E on \in BOOLEAN : PagePauses(on)) \/ NotReached,
             Moves(op, "sent", "answered"), IdleUser, IdleTests,
             UNCHANGED <<memory, draft, lastSteps, enabled, history>>
      PROVE  TypeOK'
  <2>1. page' \in PageType /\ mail' \in MailType
    BY <1>3, PageStopsTyped
  <2>2. tasks' \subseteq TaskType
    BY <1>3, MovesTyped DEF Pcs
  <2> QED
    BY <1>3, <2>1, <2>2 DEF IdleUser, counters, IdleTests, runner, memory, history, TypeOK
<1>4. CASE StopDelivered \/ ClearDelivered \/ ImportDelivered \/ DisableDelivered
  BY <1>3, <1>4 DEF StopDelivered, ClearDelivered, ImportDelivered, DisableDelivered, Reaches, Ops
<1>5. ASSUME NEW op \in {"pause", "resume"}, PauseDelivered(op) PROVE TypeOK'
  <2>1. op \in Ops \ {"capture"} /\ Pausing(op) \in BOOLEAN
    BY DEF Ops, Pausing
  <2> QED
    BY <1>3, <1>5, <2>1 DEF PauseDelivered, Reaches
<1>6. ASSUME NEW op \in Ops \ {"capture"}, NEW pc \in Pcs, Ends(op, pc), UNCHANGED memory, Save,
             IdlePage, IdleUser, IdleTests, UNCHANGED <<lastSteps, enabled, history>>
      PROVE  TypeOK'
  <2>1. tasks' \subseteq TaskType /\ draft' \in {NoDraft} \union DraftType
    BY <1>6, MovesTyped, SaveTyped DEF memory, TypeOK
  <2> QED
    BY <1>6, <2>1 DEF memory, IdlePage, IdleUser, counters, IdleTests, runner, history, TypeOK
<1>7. CASE StartSaved \/ ImportSaved \/ \E op \in {"pause", "resume"} : PauseSaved(op)
  BY <1>6, <1>7 DEF StartSaved, ImportSaved, PauseSaved, Ops, Pcs
<1>8. CASE StopBuilds \/ ClearForgets
  <2>1. tasks' \subseteq TaskType
    BY <1>8, MovesTyped DEF StopBuilds, ClearForgets, Ops, Pcs
  <2> QED
    BY <1>0, <1>8, <2>1, PreparedTyped
       DEF StopBuilds, ClearForgets, Off, Touch, Same, Forget, IdlePage, IdleUser, counters,
           IdleTests, runner, TypeOK
<1>9. CASE ImportReplaces
  <2>1. tasks' \subseteq TaskType
    BY <1>9, MovesTyped DEF ImportReplaces, Ops, Pcs
  <2>2. inputs' \in 1 .. MaxInputs /\ inputs' \in 0 .. MaxInputs
    BY <1>9, InputTyped DEF ImportReplaces
  <2>3. steps' \in Numbers /\ accepted' \in Numbers /\ mixed' \in BOOLEAN
    BY <1>9, <2>2 DEF ImportReplaces, Numbers, Forget, Touch, TypeOK
  <2> QED
    BY <1>9, <2>1, <2>2, <2>3
       DEF ImportReplaces, Off, Forget, IdlePage, IdleTests, runner, TypeOK
<1>10. CASE DisableEnds
  <2>1. tasks' \subseteq TaskType
    BY <1>10, MovesTyped DEF DisableEnds, Ops, Pcs
  <2>2. draft' \in {NoDraft} \union DraftType
    BY <1>10, SaveTyped DEF DisableEnds, Off, TypeOK
  <2> QED
    BY <1>10, <2>1, <2>2 DEF DisableEnds, Off, IdlePage, IdleUser, counters, history, TypeOK
<1>11. CASE ActionDropped
  <2>1. mail' \in MailType
    BY <1>11, MailTyped DEF ActionDropped, TypeOK
  <2> QED
    BY <1>11, <2>1 DEF ActionDropped, IdleUser, counters, IdleTests, runner, memory, history, TypeOK
<1>12. CASE ActionRead
  <2>1. mail' \in MailType /\ Head(mail).act \in 1 .. MaxInputs
    BY <1>12, MailTyped DEF ActionRead, TypeOK
  <2>2. Head(mail).act \in 0 .. MaxInputs /\ Head(mail).act # 0 /\ "capture" \in Ops /\ "sent" \in Pcs
    BY <2>1 DEF Ops, Pcs
  <2>3. Task("capture", "sent", Head(mail).act, steps) \in TaskType
    BY <2>2, TaskTyped DEF TypeOK
  <2>4. accepted' \in Numbers
    BY <1>12, <2>1 DEF ActionRead, Forget, TypeOK, Numbers
  <2> QED
    BY <1>12, <2>1, <2>3, <2>4
       DEF ActionRead, Forget, IdleUser, counters, IdleTests, runner, memory, TypeOK
<1>13. CASE NavigationRecorded
  <2>1. mail' \in MailType /\ Head(mail).act \in 1 .. MaxInputs
    BY <1>13, MailTyped DEF NavigationRecorded, TypeOK
  <2>2. steps' \in Numbers /\ accepted' \in Numbers
    <3>1. steps' \in Numbers
      BY <1>13, <2>1, StepsTyped DEF NavigationRecorded, TypeOK
    <3>2. accepted' \in Numbers
      BY <1>13, <2>1 DEF NavigationRecorded, Forget, TypeOK, Numbers
    <3> QED
      BY <3>1, <3>2
  <2>3. draft' \in {NoDraft} \union DraftType
    BY <1>13, <2>2, SaveTyped DEF NavigationRecorded, TypeOK
  <2> QED
    BY <1>13, <2>1, <2>2, <2>3
       DEF NavigationRecorded, Touch, Forget, IdleUser, counters, IdleTests, runner, TypeOK
<1>14. CASE ActionCaptured
  <2>1. PICK t \in tasks : /\ t.op = "capture" /\ tasks' = tasks \ {t}
                           /\ steps' = Insert(t.base, t.act)
    BY <1>14 DEF ActionCaptured
  <2>2. t.base \in Numbers /\ t.act \in 1 .. MaxInputs
    BY <2>1 DEF TypeOK, TaskType
  <2>3. steps' \in Numbers
    BY <2>1, <2>2, StepsTyped
  <2>4. draft' \in {NoDraft} \union DraftType
    BY <1>14, <2>3, SaveTyped DEF ActionCaptured, TypeOK
  <2> QED
    BY <1>14, <2>1, <2>3, <2>4 DEF ActionCaptured, Touch, Same, IdlePage, IdleUser, counters,
                                   IdleTests, runner, TypeOK
<1>16. CASE RestoreEnds
  <2>1. steps' \in Numbers /\ tasks' \subseteq TaskType
    BY <1>16 DEF RestoreEnds, TypeOK, TaskType
  <2> QED
    BY <1>16, <2>1 DEF RestoreEnds, Touch, Same, IdlePage, IdleUser, counters, IdleTests, runner,
                       TypeOK
<1>15. CASE TestRuns \/ TestEnds
  <2>1. tasks' \subseteq TaskType
    BY <1>15, MovesTyped DEF TestRuns, TestEnds, Ops, Pcs, TypeOK
  <2>2. running' \in BOOLEAN /\ loops' \in Nat
    <3>1. running \in BOOLEAN /\ loops \in Nat
      BY DEF TypeOK
    <3>2. running' = TRUE \/ running' = FALSE \/ running' = running
      BY <1>15 DEF TestRuns, TestEnds
    <3>3. loops' = loops + 1 \/ loops' = loops \/ (loops > 0 /\ loops' = loops - 1)
      BY <1>15 DEF TestRuns, TestEnds
    <3>4. running' \in BOOLEAN
      BY <3>1, <3>2
    <3>5. loops' \in Nat
      BY <3>1, <3>3
    <3> QED
      BY <3>4, <3>5
  <2> QED
    BY <1>15, <2>1, <2>2 DEF TestRuns, TestEnds, IdlePage, IdleUser, counters, memory, history, TypeOK
<1> QED
  BY <1>1, <1>2, <1>4, <1>5, <1>7, <1>8, <1>9, <1>10, <1>11, <1>12, <1>13, <1>14, <1>15, <1>16
     DEF Worker

LEMMA RestartKeepsType == TypeOK /\ (Restart \/ Reload) => TypeOK'
<1> SUFFICES ASSUME TypeOK PROVE Restart \/ Reload => TypeOK'
  OBVIOUS
<1>1. Hydrated \in DraftType /\ Empty \in DraftType
  BY DEF Hydrated, Empty, DraftType, TypeOK, Numbers
<1>2. ASSUME NEW st \in DraftType, StartsWith(st)
      PROVE  /\ recording' \in BOOLEAN /\ paused' \in BOOLEAN /\ tab' \in BOOLEAN
             /\ steps' \in Numbers /\ tasks' \subseteq TaskType /\ running' \in BOOLEAN
             /\ loops' \in Nat /\ mixed' \in BOOLEAN /\ overtaken' \in BOOLEAN
  BY <1>2 DEF StartsWith, DraftType
<1>3. ASSUME Restart PROVE TypeOK'
  <2>1. accepted' \in Numbers
    BY <1>1, <1>3 DEF Restart, TypeOK, Numbers, DraftType
  <2>2. restarts' \in 0 .. MaxRestarts
    BY <1>3, SessionAssumption DEF Restart, Lost, TypeOK
  <2>3. StartsWith(Hydrated) /\ UNCHANGED <<page, mail, draft, lastSteps, enabled, inputs, presses>>
    BY <1>3 DEF Restart, IdlePage
  <2> QED
    BY <1>1, <1>2, <2>1, <2>2, <2>3 DEF TypeOK
<1>4. ASSUME Reload PROVE TypeOK'
  <2>1. {} \in Numbers /\ 0 \in 0 .. MaxInputs /\ <<>> \in MailType
    BY SessionAssumption DEF Numbers, MailType
  <2>2. NoRecorder \in PageType
    BY <2>1 DEF NoRecorder, PageType
  <2>3. StartsWith(Empty) /\ draft' = NoDraft /\ accepted' = {} /\ page' = NoRecorder
        /\ mail' = <<>> /\ UNCHANGED <<lastSteps, enabled, inputs, restarts, presses>>
    BY <1>4 DEF Reload, counters
  <2> QED
    BY <1>1, <1>2, <2>1, <2>2, <2>3 DEF TypeOK
<1> QED
  BY <1>3, <1>4

LEMMA PressTyped ==
    ASSUME TypeOK, Within
    PROVE  presses + 1 \in 0 .. MaxEvents
BY SessionAssumption DEF TypeOK, Within

LEMMA PanelKeepsType == TypeOK /\ Panel => TypeOK'
<1> SUFFICES ASSUME TypeOK, Panel PROVE TypeOK'
  OBVIOUS
<1>1. presses' \in 0 .. MaxEvents /\ restarts' \in 0 .. MaxRestarts
  BY PressTyped DEF Panel, TypeOK
<1>2. CASE PanelMessage /\ UNCHANGED inputs
  BY <1>1, <1>2, MessageKeepsType DEF AskTyped, TypeOK
<1>3. CASE AddAction
  <2>1. inputs' \in 1 .. MaxInputs /\ inputs' \in 0 .. MaxInputs
    BY <1>3, InputTyped DEF AddAction
  <2>2. steps' \in Numbers /\ accepted' \in Numbers /\ mixed' \in BOOLEAN
    BY <1>3, <2>1 DEF AddAction, Forget, Touch, TypeOK, Numbers
  <2>3. draft' \in {NoDraft} \union DraftType
    BY <1>3, <2>2, SaveTyped DEF AddAction, TypeOK
  <2> QED
    BY <1>1, <1>3, <2>1, <2>2, <2>3 DEF AddAction, Forget, IdlePage, IdleTests, runner, TypeOK
<1> QED
  BY <1>2, <1>3 DEF Panel

LEMMA SameKeepsType == TypeOK /\ UNCHANGED vars => TypeOK'
BY DEF vars, memory, runner, counters, history, TypeOK

LEMMA TypeStep == TypeOK /\ [DebugNext]_<<vars, bridge>> => TypeOK'
<1> SUFFICES ASSUME TypeOK, [DebugNext]_<<vars, bridge>> PROVE TypeOK'
  OBVIOUS
<1>1. CASE CreateCommand
  <2>1. presses' \in 0 .. MaxEvents
    BY <1>1, PressTyped DEF CreateCommand
  <2> QED
    BY <1>1, <2>1 DEF CreateCommand, memory, runner, history, TypeOK
<1>2. ASSUME NEW p \in Polls, CommandBegins(p) PROVE TypeOK'
  <2>1. UNCHANGED vars \/ (AskTyped /\ UNCHANGED counters)
    BY <1>2, MessageKeepsType DEF CommandBegins, Operation
  <2> QED
    BY <2>1, SameKeepsType DEF AskTyped, counters, TypeOK
<1> QED
  BY <1>1, <1>2, PageKeepsType, PanelKeepsType, WorkerKeepsType, RestartKeepsType, SameKeepsType
     DEF DebugNext, WorkerRestarts, ExtensionReloads, PollTick, PollChecked, PollFetched,
         PollFetchesNothing, CommandEnds

LEMMA TypeInit == DebugInit => TypeOK
<1> SUFFICES ASSUME DebugInit PROVE TypeOK
  OBVIOUS
<1>1. {} \in Numbers /\ 0 \in 0 .. MaxInputs /\ 0 \in 0 .. MaxRestarts /\ 0 \in 0 .. MaxEvents
  BY SessionAssumption DEF Numbers
<1>2. <<>> \in MailType
  BY DEF MailType
<1> QED
  BY <1>1, <1>2 DEF DebugInit, Init, NoRecorder, TypeOK, PageType

(* The variables of the session keep their types, for any number of        *)
(* inputs, restarts, commands and polls (RecorderSession.tla, TypeOK).     *)
THEOREM TypeCorrect == DebugSpec => []TypeOK
BY TypeInit, TypeStep, PTL DEF DebugSpec

-----------------------------------------------------------------------------
(* The recording and its draft.                                            *)
Storing(t) == t.op \in {"stop", "clear"} /\ t.pc = "storing"
Starting == \E t \in tasks : t.op = "start"
Pressing == \E t \in tasks : t.op \in {"start", "pause", "resume"}
Awaited(a) == \E t \in tasks : t.op = "capture" /\ t.act = a

(* Unless steps were mixed, a handler in progress has the list as it is:   *)
(* a capture the steps, a restore the stored list, for a session without.  *)
StaleInv == ~mixed => \A t \in tasks : /\ t.op = "capture" => t.base = steps
                                       /\ t.op = "restore" => steps = {}
RestoreInv == recording /\ ~mixed => \A t \in tasks : t.op = "restore" => t.base = lastSteps

(* Nobody is about to remove the draft of a recording, and it is the state *)
(* of the recording but for handlers that will save it.                    *)
DraftInv == recording /\ ~overtaken =>
    /\ \A t \in tasks : ~Storing(t)
    /\ ~Starting => draft # NoDraft /\ draft.recording
    /\ ~Pressing => /\ draft.paused = paused
                    /\ draft.steps = steps \/ steps = lastSteps \/ mixed

(* An input taken has a step that stands for it, in the list and in the    *)
(* draft, or awaits its picture.                                           *)
KeptInv == recording /\ ~mixed => \A a \in accepted : Stands(steps, a) \/ Awaited(a)
StoredInv == recording /\ ~mixed /\ draft # NoDraft =>
    \A a \in accepted : Stands(draft.steps, a) \/ Awaited(a)

KeepInv == StaleInv /\ RestoreInv /\ DraftInv /\ KeptInv /\ StoredInv

(* A step that concerns neither the recording nor its lists.               *)
QuietTasks ==
    /\ \A t \in tasks' \ tasks : t.op \notin {"capture", "restore"} /\ ~Storing(t)
    /\ \A t \in tasks \ tasks' : /\ t.op \notin {"capture", "restore"}
                                 /\ t.op \in {"start", "pause", "resume"} =>
                                      \E u \in tasks' : u.op = t.op
Quiet == QuietTasks /\ UNCHANGED <<recording, paused, steps, draft, lastSteps, history>>

LEMMA AlikeSame == ASSUME NEW a \in 1 .. MaxInputs PROVE <<a, a>> \in Alike
BY DEF Alike

LEMMA AlikeTwins ==
    ASSUME NEW a \in 1 .. MaxInputs, NEW b \in 1 .. MaxInputs, <<a, b>> \in Twins
    PROVE  <<a, b>> \in Alike
BY DEF Alike

LEMMA AlikeChain ==
    ASSUME NEW a \in 1 .. MaxInputs, NEW b \in 1 .. MaxInputs, NEW c \in 1 .. MaxInputs,
           <<a, b>> \in Alike, <<b, c>> \in Alike
    PROVE  <<a, c>> \in Alike
BY DEF Alike

LEMMA StandsGrows ==
    ASSUME NEW s, NEW t, s \subseteq t, NEW a, Stands(s, a)
    PROVE  Stands(t, a)
BY DEF Stands

(* An input that is inserted, or found to be there.                        *)
LEMMA InsertStands ==
    ASSUME NEW s \in Numbers, NEW a \in 1 .. MaxInputs
    PROVE  Stands(Insert(s, a), a)
<1>1. CASE IsDuplicate(s, a)
  <2>1. PICK b \in s : <<b, a>> \in Near
    BY <1>1 DEF IsDuplicate
  <2>2. b \in 1 .. MaxInputs /\ <<b, a>> \in Twins
    BY <2>1, SessionAssumption DEF Numbers
  <2> QED
    BY <1>1, <2>1, <2>2, AlikeTwins DEF Insert, Stands
<1>2. CASE ~IsDuplicate(s, a)
  BY <1>2, AlikeSame DEF Insert, Stands
<1> QED
  BY <1>1, <1>2

LEMMA QuietKeeps == KeepInv /\ Quiet => KeepInv'
<1> SUFFICES ASSUME KeepInv, Quiet PROVE KeepInv'
  OBVIOUS
<1>1. /\ recording' = recording /\ paused' = paused /\ steps' = steps /\ draft' = draft
      /\ lastSteps' = lastSteps /\ accepted' = accepted /\ mixed' = mixed
      /\ overtaken' = overtaken
  BY DEF Quiet, history
<1>2. /\ \A t \in tasks' : t.op \in {"capture", "restore"} => t \in tasks
      /\ \A t \in tasks : t.op \in {"capture", "restore"} => t \in tasks'
      /\ \A t \in tasks' : Storing(t) => t \in tasks
      /\ Starting => Starting'
      /\ Pressing => Pressing'
  BY DEF Quiet, QuietTasks, Starting, Pressing
<1>3. \A a : Awaited(a) => Awaited(a)'
  BY <1>2 DEF Awaited
<1>4. StaleInv' /\ RestoreInv'
  BY <1>1, <1>2 DEF KeepInv, StaleInv, RestoreInv
<1>5. DraftInv'
  <2> SUFFICES ASSUME recording', ~overtaken' PROVE DraftInv'
    BY DEF DraftInv
  <2>1. \A t \in tasks' : ~Storing(t)
    BY <1>1, <1>2 DEF KeepInv, DraftInv
  <2>0. recording /\ ~overtaken /\ DraftInv
    BY <1>1 DEF KeepInv
  <2>2. ~Starting' => draft' # NoDraft /\ draft'.recording
    <3>1. ~Starting' => draft # NoDraft /\ draft.recording
      BY <1>2, <2>0 DEF DraftInv
    <3> QED
      BY <1>1, <3>1
  <2>3. ~Pressing' => /\ draft'.paused = paused'
                      /\ draft'.steps = steps' \/ steps' = lastSteps' \/ mixed'
    <3>1. ~Pressing' => /\ draft.paused = paused
                        /\ draft.steps = steps \/ steps = lastSteps \/ mixed
      BY <1>2, <2>0 DEF DraftInv
    <3> QED
      BY <1>1, <3>1
  <2> QED
    BY <2>1, <2>2, <2>3 DEF DraftInv, Storing
<1>6. KeptInv' /\ StoredInv'
  BY <1>1, <1>3 DEF KeepInv, KeptInv, StoredInv
<1> QED
  BY <1>4, <1>5, <1>6 DEF KeepInv

LEMMA TouchMixed ==
    ASSUME Touch
    PROVE  ~mixed' => ~mixed /\ (steps' = steps \/ tasks' \intersect Rewriting = {})
BY DEF Touch

LEMMA TouchStale ==
    ASSUME KeepInv, Touch, \A t \in tasks' \ tasks : t.op \notin {"capture", "restore"}
    PROVE  StaleInv'
<1> SUFFICES ASSUME ~mixed', NEW t \in tasks', t.op \in {"capture", "restore"}
             PROVE  /\ t.op = "capture" => t.base = steps'
                    /\ t.op = "restore" => steps' = {}
  BY DEF StaleInv
<1>1. t \in tasks' \intersect Rewriting
  BY DEF Rewriting
<1>2. steps' = steps /\ ~mixed
  BY <1>1, TouchMixed
<1> QED
  BY <1>2 DEF KeepInv, StaleInv

(* A step that ends the recording.                                         *)
LEMMA OffKeeps ==
    ASSUME KeepInv, recording' = FALSE, Touch,
           \A t \in tasks' \ tasks : t.op \notin {"capture", "restore"}
    PROVE  KeepInv'
BY TouchStale DEF KeepInv, RestoreInv, DraftInv, KeptInv, StoredInv

(* A step that saves the recording.                                        *)
LEMMA SavedKeeps ==
    ASSUME TypeOK, TypeOK', KeepInv, UNCHANGED <<recording, paused, lastSteps, overtaken>>, Save,
           Touch, tasks' \subseteq tasks, KeptInv'
    PROVE  KeepInv'
<1>1. StaleInv'
  BY TouchStale
<1>2. RestoreInv'
  BY TouchMixed DEF KeepInv, RestoreInv
<1>3. recording' => /\ draft' # NoDraft /\ draft'.recording /\ draft'.paused = paused'
                    /\ draft'.steps = steps'
  <2>1. recording' \in BOOLEAN /\ paused' \in BOOLEAN /\ steps' \in Numbers /\ tab' \in BOOLEAN
    BY DEF TypeOK
  <2>2. draft' = Persisted(recording', paused', steps', tab')
    BY DEF Save
  <2>3. recording' => draft' = Persisted(TRUE, paused', steps', tab')
    <3>1. recording' => recording' = TRUE
      BY <2>1
    <3> QED
      BY <2>2, <3>1
  <2> DEFINE d == Persisted(TRUE, paused', steps', tab')
  <2>4. d # NoDraft /\ d.recording /\ d.paused = paused' /\ d.steps = steps'
    BY <2>1, RecordingPersisted
  <2> HIDE DEF d
  <2>5. recording' => draft' = d
    BY <2>3 DEF d
  <2> QED
    BY <2>4, <2>5
<1>4. DraftInv'
  BY <1>3 DEF KeepInv, DraftInv, Storing
<1>5. StoredInv'
  BY <1>3 DEF StoredInv, KeptInv, Stands
<1> QED
  BY <1>1, <1>2, <1>4, <1>5 DEF KeepInv

(* A step that saves the recording and leaves its steps alone.             *)
LEMMA SaveAgainKeeps ==
    ASSUME TypeOK, TypeOK', KeepInv, UNCHANGED <<recording, paused, steps, lastSteps, history>>,
           Save, tasks' \subseteq tasks, \A t \in tasks \ tasks' : t.op # "capture"
    PROVE  KeepInv'
<1>1. mixed' = mixed /\ accepted' = accepted /\ overtaken' = overtaken /\ steps' = steps
  BY DEF history
<1>2. Touch
  BY <1>1 DEF Touch, TypeOK
<1>3. \A a : Awaited(a) => Awaited(a)'
  BY DEF Awaited
<1>4. KeptInv'
  BY <1>1, <1>3 DEF KeepInv, KeptInv
<1> QED
  BY <1>1, <1>2, <1>4, SavedKeeps

(* A step that removes the draft.                                          *)
LEMMA RemovedKeeps ==
    ASSUME KeepInv, draft' = NoDraft, UNCHANGED <<recording, paused, steps, lastSteps, history>>,
           tasks' \subseteq tasks, \A t \in tasks \ tasks' : t.op # "capture",
           \E t \in tasks : Storing(t)
    PROVE  KeepInv'
<1>1. mixed' = mixed /\ accepted' = accepted /\ overtaken' = overtaken
  BY DEF history
<1>2. ~recording \/ overtaken
  BY DEF KeepInv, DraftInv
<1>3. \A a : Awaited(a) => Awaited(a)'
  BY DEF Awaited
<1>4. StaleInv' /\ RestoreInv' /\ DraftInv' /\ StoredInv'
  BY <1>1, <1>2 DEF KeepInv, StaleInv, RestoreInv, DraftInv, StoredInv
<1>5. KeptInv'
  BY <1>1, <1>3 DEF KeepInv, KeptInv
<1> QED
  BY <1>4, <1>5 DEF KeepInv

-----------------------------------------------------------------------------
(* Each step of the session keeps these facts.                             *)
LEMMA AddedQuiet ==
    ASSUME NEW op \in Ops \ {"capture", "restore"},
           tasks' = tasks \union {At(op, "sent")}
    PROVE  QuietTasks
<1>1. At(op, "sent").op = op /\ At(op, "sent").pc = "sent"
  BY AtTyped DEF Pcs
<1> QED
  BY <1>1 DEF QuietTasks, Storing

LEMMA AnsweredQuiet ==
    ASSUME NEW op \in Ops \ {"capture", "restore"}, Moves(op, "sent", "answered")
    PROVE  QuietTasks
<1>1. /\ At(op, "sent").op = op /\ At(op, "answered").op = op
      /\ At(op, "answered").pc = "answered"
  BY AtTyped DEF Pcs
<1>2. tasks' = (tasks \ {At(op, "sent")}) \union {At(op, "answered")}
  BY DEF Moves
<1> QED
  BY <1>1, <1>2 DEF QuietTasks, Storing

LEMMA EndsTask ==
    ASSUME NEW op \in Ops \ {"capture", "restore"}, NEW pc \in Pcs, Ends(op, pc)
    PROVE  /\ tasks' \subseteq tasks /\ \A t \in tasks \ tasks' : t.op = op
           /\ \E t \in tasks : t.op = op /\ t.pc = pc
<1>1. At(op, pc).op = op /\ At(op, pc).pc = pc
  BY AtTyped
<1> QED
  BY <1>1 DEF Ends

LEMMA MovesTask ==
    ASSUME NEW op \in Ops \ {"capture", "restore"}, NEW from, NEW to \in Pcs, Moves(op, from, to)
    PROVE  \A t \in tasks' \ tasks : t.op \notin {"capture", "restore"}
<1>1. At(op, to).op = op
  BY AtTyped
<1> QED
  BY <1>1 DEF Moves

LEMMA SameTasksQuiet == UNCHANGED tasks => QuietTasks
BY DEF QuietTasks

LEMMA PageIsQuiet == Page => Quiet
<1>1. Page => UNCHANGED tasks /\ UNCHANGED <<memory, draft, lastSteps, history>>
  BY DEF Page, HandleInput, FlushFill, HandleClick, HandleNavigation, SendsBoth, LeavePage,
         SyncContentRecorder
<1> QED
  BY <1>1, SameTasksQuiet DEF Quiet, memory

LEMMA DeliveriesAreQuiet ==
    ASSUME \/ StartDelivered \/ StopDelivered \/ ClearDelivered \/ ImportDelivered
           \/ DisableDelivered \/ \E op \in {"pause", "resume"} : PauseDelivered(op)
    PROVE  Quiet
<1>1. PICK op \in Ops \ {"capture", "restore"} : Moves(op, "sent", "answered")
  BY DEF StartDelivered, StopDelivered, ClearDelivered, ImportDelivered, DisableDelivered,
         PauseDelivered, Reaches, Ops
<1>2. UNCHANGED <<memory, draft, lastSteps, history>>
  BY DEF StartDelivered, StopDelivered, ClearDelivered, ImportDelivered, DisableDelivered,
         PauseDelivered, Reaches
<1> QED
  BY <1>1, <1>2, AnsweredQuiet DEF Quiet, memory

LEMMA OthersAreQuiet == ActionDropped \/ TestRuns \/ TestEnds \/ Enable => Quiet
<1>1. ActionDropped \/ TestEnds \/ Enable => Quiet
  BY SameTasksQuiet DEF ActionDropped, TestEnds, Enable, Quiet, memory
<1>2. ASSUME TestRuns PROVE Quiet
  <2>1. tasks' \subseteq tasks /\ \A t \in tasks \ tasks' : t.op = "test"
    BY <1>2, EndsTask DEF TestRuns, Ops, Pcs
  <2>2. QuietTasks
    BY <2>1 DEF QuietTasks
  <2> QED
    BY <1>2, <2>2 DEF TestRuns, Quiet, memory
<1> QED
  BY <1>1, <1>2

LEMMA RequestsAreQuiet == StopBegins \/ ClearBegins \/ ImportBegins \/ DisableBegins => Quiet
<1> SUFFICES ASSUME StopBegins \/ ClearBegins \/ ImportBegins \/ DisableBegins PROVE Quiet
  OBVIOUS
<1>1. PICK op \in Ops \ {"capture", "restore"} : tasks' = tasks \union {At(op, "sent")}
  BY DEF StopBegins, ClearBegins, ImportBegins, DisableBegins, Asks, Ops
<1>2. UNCHANGED <<memory, draft, lastSteps, history>>
  BY DEF StopBegins, ClearBegins, ImportBegins, DisableBegins, Asks, history
<1> QED
  BY <1>1, <1>2, AddedQuiet DEF Quiet, memory

LEMMA StartKeeps == KeepInv /\ StartBegins => KeepInv'
<1> SUFFICES ASSUME KeepInv, StartBegins PROVE KeepInv'
  OBVIOUS
<1>1. /\ tasks' = tasks \union {At("start", "sent")} /\ accepted' = {}
      /\ mixed' = (Rewriting # {})
      /\ overtaken' = \E t \in tasks : t.op \in {"stop", "clear"} /\ t.pc = "storing"
  BY DEF StartBegins
<1>2. At("start", "sent").op = "start"
  BY AtTyped DEF Ops, Pcs
<1>3. ~mixed' => \A t \in tasks' : t.op \notin {"capture", "restore"}
  BY <1>1, <1>2 DEF Rewriting
<1>4. StaleInv' /\ RestoreInv'
  BY <1>3 DEF StaleInv, RestoreInv
<1>5. Starting' /\ Pressing'
  BY <1>1, <1>2 DEF Starting, Pressing
<1>6. ~overtaken' => \A t \in tasks' : ~Storing(t)
  BY <1>1, <1>2 DEF Storing
<1>7. DraftInv'
  BY <1>5, <1>6 DEF DraftInv, Storing
<1>8. KeptInv' /\ StoredInv'
  BY <1>1 DEF KeptInv, StoredInv
<1> QED
  BY <1>4, <1>7, <1>8 DEF KeepInv

LEMMA PauseKeeps ==
    ASSUME KeepInv, NEW op \in {"pause", "resume"}, PauseBegins(op)
    PROVE  KeepInv'
<1>1. /\ tasks' = tasks \union {At(op, "sent")} /\ recording' = recording /\ steps' = steps
      /\ draft' = draft /\ lastSteps' = lastSteps /\ accepted' = accepted
      /\ overtaken' = overtaken /\ mixed' = mixed
  BY DEF PauseBegins, Asks
<1>2. At(op, "sent").op = op /\ At(op, "sent").pc = "sent"
  BY AtTyped DEF Ops, Pcs
<1>3. /\ \A t \in tasks' : t.op \in {"capture", "restore"} => t \in tasks
      /\ \A t \in tasks' : Storing(t) => t \in tasks
      /\ Starting => Starting'
      /\ Pressing'
  BY <1>1, <1>2 DEF Storing, Starting, Pressing
<1>4. \A a : Awaited(a) => Awaited(a)'
  BY <1>1 DEF Awaited
<1>5. StaleInv' /\ RestoreInv'
  BY <1>1, <1>3 DEF KeepInv, StaleInv, RestoreInv
<1>6. DraftInv'
  BY <1>1, <1>3 DEF KeepInv, DraftInv, Storing
<1>7. KeptInv' /\ StoredInv'
  BY <1>1, <1>4 DEF KeepInv, KeptInv, StoredInv
<1> QED
  BY <1>5, <1>6, <1>7 DEF KeepInv

(* A restore that begins, with or without a test.                          *)
LEMMA RestoreAdds ==
    ASSUME KeepInv, tasks \subseteq tasks', UNCHANGED <<recording, paused, steps, draft, lastSteps, history>>,
           \A t \in tasks' \ tasks : \/ t.op = "test"
                                     \/ t.op = "restore" /\ t.base = lastSteps /\ steps = {}
    PROVE  KeepInv'
<1>1. mixed' = mixed /\ accepted' = accepted /\ overtaken' = overtaken
  BY DEF history
<1>2. StaleInv' /\ RestoreInv'
  BY <1>1 DEF KeepInv, StaleInv, RestoreInv
<1>3. /\ \A t \in tasks' : Storing(t) => t \in tasks
      /\ Starting => Starting'
      /\ Pressing => Pressing'
  BY DEF Storing, Starting, Pressing
<1>4. \A a : Awaited(a) => Awaited(a)'
  BY DEF Awaited
<1>5. DraftInv'
  BY <1>1, <1>3 DEF KeepInv, DraftInv, Storing
<1>6. KeptInv' /\ StoredInv'
  BY <1>1, <1>4 DEF KeepInv, KeptInv, StoredInv
<1> QED
  BY <1>2, <1>5, <1>6 DEF KeepInv

LEMMA RestoreBeginsKeeps == TypeOK /\ KeepInv /\ (RestoreBegins \/ TestBegins) => KeepInv'
<1> SUFFICES ASSUME TypeOK, KeepInv, RestoreBegins \/ TestBegins PROVE KeepInv'
  OBVIOUS
<1> DEFINE r == Task("restore", "sent", 0, lastSteps)
<1>1. r.op = "restore" /\ r.base = lastSteps
  BY DEF Task
<1>2. At("test", "sent").op = "test"
  BY AtTyped DEF Ops, Pcs
<1>3. /\ tasks \subseteq tasks' /\ tasks' \subseteq tasks \union {r, At("test", "sent")}
      /\ r \in tasks' => steps = {} \/ r \in tasks
      /\ UNCHANGED <<memory, draft, lastSteps, history>>
  BY <1>1, <1>2 DEF RestoreBegins, TestBegins
<1> HIDE DEF r
<1>4. \A t \in tasks' \ tasks : \/ t.op = "test"
                                \/ t.op = "restore" /\ t.base = lastSteps /\ steps = {}
  BY <1>1, <1>2, <1>3
<1> QED
  BY <1>3, <1>4, RestoreAdds DEF memory

LEMMA ActionReadKeeps == TypeOK /\ KeepInv /\ ActionRead => KeepInv'
<1> SUFFICES ASSUME TypeOK, KeepInv, ActionRead PROVE KeepInv'
  OBVIOUS
<1> DEFINE a == Head(mail).act
           t == Task("capture", "sent", a, steps)
<1>1. t.op = "capture" /\ t.act = a /\ t.base = steps
  BY DEF Task
<1>2. /\ tasks' = tasks \union {t} /\ accepted' = accepted \union {a} /\ mixed' = mixed
      /\ UNCHANGED <<recording, paused, steps, draft, lastSteps, overtaken>>
  BY DEF ActionRead, Forget, memory
<1> HIDE DEF a, t
<1>4. /\ \A u \in tasks' : Storing(u) => u \in tasks
      /\ Starting => Starting'
      /\ Pressing => Pressing'
  BY <1>1, <1>2 DEF Storing, Starting, Pressing
<1>5. \A b : Awaited(b) \/ b = a => Awaited(b)'
  BY <1>1, <1>2 DEF Awaited
<1>6. StaleInv' /\ RestoreInv'
  BY <1>1, <1>2 DEF KeepInv, StaleInv, RestoreInv
<1>7. DraftInv'
  BY <1>2, <1>4 DEF KeepInv, DraftInv, Storing
<1>8. KeptInv' /\ StoredInv'
  BY <1>2, <1>5 DEF KeepInv, KeptInv, StoredInv
<1> QED
  BY <1>6, <1>7, <1>8 DEF KeepInv

(* Steps that only grow keep what they stand for.                          *)
LEMMA GrowthKeeps ==
    ASSUME KeptInv, recording, ~mixed, steps \subseteq steps',
           \A a \in accepted' \ accepted : Stands(steps', a),
           \A a : Awaited(a) => Awaited(a)' \/ Stands(steps', a)
    PROVE  \A a \in accepted' : Stands(steps', a) \/ Awaited(a)'
BY StandsGrows DEF KeptInv

LEMMA NavigationKeeps == TypeOK /\ TypeOK' /\ KeepInv /\ NavigationRecorded => KeepInv'
<1> SUFFICES ASSUME TypeOK, TypeOK', KeepInv, NavigationRecorded PROVE KeepInv'
  OBVIOUS
<1> DEFINE a == Head(mail).act
<1>1. /\ steps' = Insert(steps, a) /\ accepted' = accepted \union {a} /\ tasks' = tasks
      /\ UNCHANGED <<recording, paused, lastSteps, overtaken>> /\ Save /\ Touch
  BY DEF NavigationRecorded, Forget
<1>2. a \in 1 .. MaxInputs /\ steps \in Numbers /\ accepted \in Numbers
  BY MailTyped DEF NavigationRecorded, TypeOK
<1> HIDE DEF a
<1>3. steps \subseteq steps' /\ Stands(steps', a)
  BY <1>1, <1>2, StepsTyped, InsertStands
<1>4. \A b : Awaited(b) => Awaited(b)'
  BY <1>1 DEF Awaited
<1>5. KeptInv'
  <2> SUFFICES ASSUME recording', ~mixed'
               PROVE  \A b \in accepted' : Stands(steps', b) \/ Awaited(b)'
    BY DEF KeptInv
  <2>1. recording /\ ~mixed
    BY <1>1, TouchMixed
  <2>2. \A b \in accepted' \ accepted : Stands(steps', b)
    BY <1>1, <1>3
  <2>3. \A b : Awaited(b) => Awaited(b)' \/ Stands(steps', b)
    BY <1>4
  <2> QED
    BY <1>3, <2>1, <2>2, <2>3, GrowthKeeps DEF KeepInv
<1> QED
  BY <1>1, <1>5, SavedKeeps

LEMMA CapturedKeeps == TypeOK /\ TypeOK' /\ KeepInv /\ ActionCaptured => KeepInv'
<1> SUFFICES ASSUME TypeOK, TypeOK', KeepInv, ActionCaptured PROVE KeepInv'
  OBVIOUS
<1>1. PICK t \in tasks : /\ t.op = "capture" /\ tasks' = tasks \ {t}
                         /\ steps' = Insert(t.base, t.act)
  BY DEF ActionCaptured
<1>2. /\ UNCHANGED <<recording, paused, lastSteps, overtaken, accepted>> /\ Save /\ Touch
  BY DEF ActionCaptured, Same
<1>3. t.act \in 1 .. MaxInputs /\ t.base \in Numbers
  BY <1>1 DEF TypeOK, TaskType
<1>4. t.base \subseteq steps' /\ Stands(steps', t.act)
  BY <1>1, <1>3, StepsTyped, InsertStands
<1>5. \A b : Awaited(b) => Awaited(b)' \/ b = t.act
  BY <1>1 DEF Awaited
<1>6. KeptInv'
  <2> SUFFICES ASSUME recording', ~mixed'
               PROVE  \A b \in accepted' : Stands(steps', b) \/ Awaited(b)'
    BY DEF KeptInv
  <2>1. recording /\ ~mixed
    BY <1>2, TouchMixed
  <2>2. t.base = steps
    BY <1>1, <2>1 DEF KeepInv, StaleInv
  <2>3. accepted' \ accepted = {} /\ steps \subseteq steps'
    BY <1>2, <1>4, <2>2
  <2>4. \A b : Awaited(b) => Awaited(b)' \/ Stands(steps', b)
    BY <1>4, <1>5
  <2> QED
    BY <2>1, <2>3, <2>4, GrowthKeeps DEF KeepInv
<1> QED
  BY <1>1, <1>2, <1>6, SavedKeeps

LEMMA DeleteKeeps ==
    ASSUME TypeOK, TypeOK', KeepInv, NEW a \in steps, DeleteAction(a)
    PROVE  KeepInv'
<1>1. /\ steps' = steps \ {a} /\ accepted' = accepted \ ({a} \union StandsFor(a))
      /\ tasks' = tasks /\ UNCHANGED <<recording, paused, lastSteps, overtaken>> /\ Save /\ Touch
  BY DEF DeleteAction, Forget
<1>2. KeptInv'
  <2> SUFFICES ASSUME recording', ~mixed', NEW b \in accepted'
               PROVE  Stands(steps', b) \/ Awaited(b)'
    BY DEF KeptInv
  <2>1. recording /\ ~mixed
    BY <1>1, TouchMixed
  <2>2. b \in accepted /\ b # a /\ b \notin StandsFor(a) /\ b \in 1 .. MaxInputs
    BY <1>1 DEF TypeOK, Numbers
  <2>3. Stands(steps, b) \/ Awaited(b)
    BY <2>1, <2>2 DEF KeepInv, KeptInv
  <2>4. CASE b \in steps
    BY <1>1, <2>2, <2>4, AlikeSame DEF Stands
  <2>5. CASE b \notin steps /\ Stands(steps, b)
    BY <1>1, <2>2, <2>5 DEF Stands, StandsFor
  <2>6. Awaited(b) => Awaited(b)'
    BY <1>1 DEF Awaited
  <2> QED
    BY <2>3, <2>4, <2>5, <2>6
<1> QED
  BY <1>1, <1>2, SavedKeeps

LEMMA AddKeeps == TypeOK /\ TypeOK' /\ KeepInv /\ AddAction => KeepInv'
<1> SUFFICES ASSUME TypeOK, TypeOK', KeepInv, AddAction PROVE KeepInv'
  OBVIOUS
<1>1. /\ steps' = steps \union {inputs'} /\ accepted' = accepted \union {inputs'} /\ tasks' = tasks
      /\ UNCHANGED <<recording, paused, lastSteps, overtaken>> /\ Save /\ Touch
  BY DEF AddAction, Forget
<1>2. \A b : Awaited(b) => Awaited(b)'
  BY <1>1 DEF Awaited
<1>3. KeptInv'
  <2> SUFFICES ASSUME recording', ~mixed'
               PROVE  \A b \in accepted' : Stands(steps', b) \/ Awaited(b)'
    BY DEF KeptInv
  <2>1. recording /\ ~mixed
    BY <1>1, TouchMixed
  <2>2. \A b \in accepted' \ accepted : Stands(steps', b)
    BY <1>1, AlikeSame DEF TypeOK, Numbers, Stands
  <2> QED
    BY <1>1, <1>2, <2>1, <2>2, GrowthKeeps DEF KeepInv
<1> QED
  BY <1>1, <1>3, SavedKeeps

LEMMA RestoreEndsKeeps == KeepInv /\ RestoreEnds => KeepInv'
<1> SUFFICES ASSUME KeepInv, RestoreEnds PROVE KeepInv'
  OBVIOUS
<1>1. PICK t \in tasks : /\ t.op = "restore" /\ tasks' = tasks \ {t}
                         /\ steps' = IF t.base = {} THEN steps ELSE t.base
  BY DEF RestoreEnds
<1>2. UNCHANGED <<recording, paused, draft, lastSteps, overtaken, accepted>> /\ Touch
  BY DEF RestoreEnds, Same
<1>3. ~mixed' => ~mixed
  BY <1>2, TouchMixed
<1>4. recording /\ ~mixed => t.base = lastSteps /\ steps = {}
  BY <1>1 DEF KeepInv, RestoreInv, StaleInv
<1>5. StaleInv'
  BY <1>1, <1>2, TouchStale
<1>6. RestoreInv'
  BY <1>1, <1>2, <1>3 DEF KeepInv, RestoreInv
<1>7. /\ \A b : Awaited(b) => Awaited(b)'
      /\ Starting => Starting'
      /\ Pressing => Pressing'
  BY <1>1 DEF Awaited, Starting, Pressing
<1>8. DraftInv'
  <2> SUFFICES ASSUME recording', ~overtaken' PROVE DraftInv'
    BY DEF DraftInv
  <2>1. recording /\ ~overtaken /\ DraftInv
    BY <1>2 DEF KeepInv
  <2>2. \A u \in tasks' : ~Storing(u)
    BY <1>1, <2>1 DEF DraftInv
  <2>3. ~Starting' => draft # NoDraft /\ draft.recording
    BY <1>7, <2>1 DEF DraftInv
  <2>4. ~Pressing' => /\ draft.paused = paused
                      /\ draft.steps = steps' \/ steps' = lastSteps \/ mixed'
    BY <1>1, <1>3, <1>4, <1>7, <2>1 DEF DraftInv
  <2> QED
    BY <1>2, <2>2, <2>3, <2>4 DEF DraftInv, Storing
<1>9. KeptInv' /\ StoredInv'
  <2>1. recording' /\ ~mixed' => recording /\ ~mixed /\ steps \subseteq steps'
    BY <1>1, <1>2, <1>3, <1>4
  <2>3. KeptInv'
    BY <1>2, <1>7, <2>1, StandsGrows DEF KeepInv, KeptInv
  <2>4. StoredInv'
    BY <1>2, <1>7, <2>1 DEF KeepInv, StoredInv
  <2> QED
    BY <2>3, <2>4
<1> QED
  BY <1>5, <1>6, <1>8, <1>9 DEF KeepInv

(* What goes from a tidied list has a twin there.                          *)
LEMMA PreparedCovers ==
    ASSUME NEW s \in Numbers, NEW kept \in Prepared(s), NEW a \in 1 .. MaxInputs, Stands(s, a)
    PROVE  Stands(kept, a)
<1>1. PICK b \in s : <<b, a>> \in Alike
  BY DEF Stands
<1>2. b \in 1 .. MaxInputs /\ kept \subseteq 1 .. MaxInputs
  BY PreparedTyped DEF Numbers
<1>3. CASE b \in kept
  BY <1>1, <1>3 DEF Stands
<1>4. CASE b \notin kept
  <2>1. PICK c \in kept : <<c, b>> \in Twins
    BY <1>4 DEF Prepared
  <2>2. <<c, b>> \in Alike
    BY <1>2, <2>1, AlikeTwins
  <2>3. <<c, a>> \in Alike
    BY <1>1, <1>2, <2>2, AlikeChain
  <2> QED
    BY <2>3 DEF Stands
<1> QED
  BY <1>3, <1>4

LEMMA BuildKeeps == TypeOK /\ KeepInv /\ Build => KeepInv'
<1> SUFFICES ASSUME TypeOK, KeepInv, Build PROVE KeepInv'
  OBVIOUS
<1>1. /\ steps # {} /\ steps' \in Prepared(steps) /\ lastSteps' = steps' /\ tasks' = tasks /\ Touch
      /\ UNCHANGED <<recording, paused, draft, accepted, overtaken>>
  BY DEF Build, Same
<1>2. steps \in Numbers /\ steps' \subseteq steps
  BY <1>1, PreparedTyped DEF TypeOK
<1>3. ~mixed' => ~mixed
  BY <1>1, TouchMixed
<1>4. StaleInv'
  BY <1>1, TouchStale
<1>5. RestoreInv'
  BY <1>1, <1>3 DEF KeepInv, StaleInv, RestoreInv
<1>6. DraftInv'
  BY <1>1 DEF KeepInv, DraftInv, Storing, Starting, Pressing
<1>7. \A b : Awaited(b) => Awaited(b)'
  BY <1>1 DEF Awaited
<1>8. KeptInv'
  <2> SUFFICES ASSUME recording', ~mixed', NEW b \in accepted'
               PROVE  Stands(steps', b) \/ Awaited(b)'
    BY DEF KeptInv
  <2>1. b \in 1 .. MaxInputs /\ (Stands(steps, b) \/ Awaited(b))
    BY <1>1, <1>3 DEF KeepInv, KeptInv, TypeOK, Numbers
  <2> QED
    BY <1>1, <1>2, <1>7, <2>1, PreparedCovers
<1>9. StoredInv'
  BY <1>1, <1>3, <1>7 DEF KeepInv, StoredInv
<1> QED
  BY <1>4, <1>5, <1>6, <1>8, <1>9 DEF KeepInv

LEMMA RestartKeeps == TypeOK /\ KeepInv /\ Restart => KeepInv'
<1> SUFFICES ASSUME TypeOK, KeepInv, Restart PROVE KeepInv'
  OBVIOUS
<1>1. /\ tasks' = {} /\ recording' = Hydrated.recording /\ paused' = Hydrated.paused
      /\ steps' = Hydrated.steps /\ draft' = draft
      /\ accepted' = (IF recording /\ ~mixed THEN accepted \ {t.act : t \in tasks}
                      ELSE Hydrated.steps)
  BY DEF Restart, StartsWith
<1>2. recording' => draft # NoDraft /\ Hydrated = draft
  BY <1>1 DEF Hydrated, Empty
<1>3. StaleInv' /\ RestoreInv'
  BY <1>1 DEF StaleInv, RestoreInv
<1>4. DraftInv'
  BY <1>1, <1>2 DEF DraftInv
<1>5. recording' => \A a \in accepted' : Stands(steps', a)
  <2> SUFFICES ASSUME recording', NEW a \in accepted' PROVE Stands(steps', a)
    OBVIOUS
  <2>1. CASE recording /\ ~mixed
    <3>1. a \in accepted /\ a \notin {t.act : t \in tasks}
      BY <1>1, <2>1
    <3>2. ~Awaited(a)
      BY <3>1 DEF Awaited
    <3> QED
      BY <1>1, <1>2, <2>1, <3>1, <3>2 DEF KeepInv, StoredInv
  <2>2. CASE ~(recording /\ ~mixed)
    <3>1. a \in steps' /\ a \in 1 .. MaxInputs
      BY <1>1, <1>2, <2>2 DEF TypeOK, DraftType, Numbers
    <3> QED
      BY <3>1, AlikeSame DEF Stands
  <2> QED
    BY <2>1, <2>2
<1>6. KeptInv' /\ StoredInv'
  BY <1>1, <1>2, <1>5 DEF KeptInv, StoredInv
<1> QED
  BY <1>3, <1>4, <1>6 DEF KeepInv

(* A reload leaves no recording to speak of.                               *)
LEMMA ReloadKeeps == Reload => KeepInv'
BY DEF Reload, StartsWith, Empty, KeepInv, StaleInv, RestoreInv, DraftInv, KeptInv, StoredInv

LEMMA OffsKeep ==
    ASSUME TypeOK, KeepInv,
           StartFails \/ StopBuilds \/ ClearForgets \/ ImportReplaces \/ DisableEnds
    PROVE  KeepInv'
<1>1. \A t \in tasks' \ tasks : t.op \notin {"capture", "restore"}
  BY EndsTask, MovesTask DEF StartFails, StopBuilds, ClearForgets, ImportReplaces, DisableEnds,
                             Ops, Pcs
<1>2. recording' = FALSE
  BY DEF StartFails, StopBuilds, ClearForgets, ImportReplaces, DisableEnds, Off
<1>3. CASE StopBuilds \/ ClearForgets \/ ImportReplaces
  BY <1>1, <1>2, <1>3, OffKeeps DEF StopBuilds, ClearForgets, ImportReplaces
<1>4. CASE StartFails \/ DisableEnds
  <2>1. steps' = steps /\ mixed' = mixed
    BY <1>4 DEF StartFails, DisableEnds, history
  <2>2. Touch
    BY <2>1 DEF Touch, TypeOK
  <2> QED
    BY <1>1, <1>2, <2>2, OffKeeps
<1> QED
  BY <1>3, <1>4

LEMMA SavesKeep ==
    ASSUME TypeOK, TypeOK', KeepInv,
           StartSaved \/ ImportSaved \/ \E op \in {"pause", "resume"} : PauseSaved(op)
    PROVE  KeepInv'
<1>1. PICK op \in Ops \ {"capture", "restore"}, pc \in Pcs : Ends(op, pc)
  BY DEF StartSaved, ImportSaved, PauseSaved, Ops, Pcs
<1>2. UNCHANGED memory /\ Save /\ UNCHANGED <<lastSteps, history>>
  BY DEF StartSaved, ImportSaved, PauseSaved
<1> QED
  BY <1>1, <1>2, EndsTask, SaveAgainKeeps DEF memory

LEMMA RemovalsKeep == KeepInv /\ (StopClears \/ ClearEnds) => KeepInv'
<1> SUFFICES ASSUME KeepInv, StopClears \/ ClearEnds PROVE KeepInv'
  OBVIOUS
<1>1. PICK op \in {"stop", "clear"} : Ends(op, "storing")
  BY DEF StopClears, ClearEnds
<1>2. draft' = NoDraft /\ UNCHANGED <<memory, lastSteps, history>>
  BY DEF StopClears, ClearEnds
<1>3. /\ tasks' \subseteq tasks /\ \A t \in tasks \ tasks' : t.op = op
      /\ \E t \in tasks : t.op = op /\ t.pc = "storing"
  BY <1>1, EndsTask DEF Ops, Pcs
<1>4. \E t \in tasks : Storing(t)
  BY <1>3 DEF Storing
<1> QED
  BY <1>2, <1>3, <1>4, RemovedKeeps DEF memory

LEMMA KeepStep == TypeOK /\ TypeOK' /\ KeepInv /\ [DebugNext]_<<vars, bridge>> => KeepInv'
<1> SUFFICES ASSUME TypeOK, TypeOK', KeepInv, [DebugNext]_<<vars, bridge>> PROVE KeepInv'
  OBVIOUS
<1>1. UNCHANGED vars \/ CreateCommand => Quiet
  BY SameTasksQuiet DEF vars, CreateCommand, memory, Quiet
<1>2. PanelMessage \/ AddAction => KeepInv'
  BY QuietKeeps, RequestsAreQuiet, OthersAreQuiet, StartKeeps, PauseKeeps, RestoreBeginsKeeps,
     DeleteKeeps, AddKeeps DEF PanelMessage
<1>3. Worker => KeepInv'
  BY QuietKeeps, DeliveriesAreQuiet, OthersAreQuiet, OffsKeep, SavesKeep, RemovalsKeep,
     ActionReadKeeps, NavigationKeeps, CapturedKeeps, RestoreEndsKeeps DEF Worker
<1>4. ASSUME NEW p \in Polls, CommandBegins(p) PROVE KeepInv'
  BY <1>1, <1>4, QuietKeeps, RequestsAreQuiet, StartKeeps, RestoreBeginsKeeps, BuildKeeps
     DEF CommandBegins, Operation
<1>5. ASSUME NEW p \in Polls,
             PollTick(p) \/ PollChecked(p) \/ PollFetched(p) \/ PollFetchesNothing(p) \/ CommandEnds(p)
      PROVE  KeepInv'
  BY <1>1, <1>5, QuietKeeps
     DEF PollTick, PollChecked, PollFetched, PollFetchesNothing, CommandEnds
<1> QED
  BY <1>1, <1>2, <1>3, <1>4, <1>5, QuietKeeps, PageIsQuiet, RestartKeeps, ReloadKeeps
     DEF DebugNext, Panel, WorkerRestarts, ExtensionReloads

LEMMA KeepInit == DebugInit => KeepInv
BY DEF DebugInit, Init, KeepInv, StaleInv, RestoreInv, DraftInv, KeptInv, StoredInv

LEMMA Keeping == DebugSpec => [](TypeOK /\ KeepInv)
BY TypeInit, TypeStep, KeepInit, KeepStep, PTL DEF DebugSpec

(* A service worker that is terminated and starts again finds the          *)
(* recording as it was, but for the three escapes stated with the property *)
(* (recordingStorage.ts:18-45, service-worker.ts:397-437;                  *)
(* RecorderSession.tla, RecordingSurvives).  A reload of the extension is  *)
(* among the steps: it ends the recording.                                 *)
THEOREM RecordingsSurvive == DebugSpec => []RecordingSurvives
<1>1. KeepInv => RecordingSurvives
  BY DEF KeepInv, DraftInv, RecordingSurvives, Starting, Pressing
<1> QED
  BY <1>1, Keeping, PTL

(* Inputs the worker took into a recording are not lost, through           *)
(* deletions, restored and tidied lists, pauses and restarts, unless a     *)
(* handler assigned a list it had read before another changed it; whatever *)
(* inputs are twins, and whichever of them are near (service-worker.ts:    *)
(* 92-129, 369-437, recordedActionPolicy.ts:6-61; RecorderSession.tla,     *)
(* SpacedInputsKept).                                                      *)
THEOREM InputsAreKept == DebugSpec => []SpacedInputsKept
<1>1. KeepInv => SpacedInputsKept
  BY DEF KeepInv, KeptInv, SpacedInputsKept, Rewriting, Awaited
<1> QED
  BY <1>1, Keeping, PTL
=============================================================================
