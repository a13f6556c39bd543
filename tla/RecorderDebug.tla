---------------------------- MODULE RecorderDebug ----------------------------
(***************************************************************************)
(* The debug bridge: commands left on the server by the command line       *)
(* (src/recorderDebug/cli.ts), kept there one file each                    *)
(* (src/server/services/recorderDebugStore.ts), fetched by polls of the    *)
(* extension, and carried out in the session of RecorderSession, together  *)
(* with what the user does there.                                          *)
(***************************************************************************)
EXTENDS RecorderSession

CONSTANTS MaxCommands,  \* bound: commands left
          Kinds,        \* what they ask for: the names of Operation, or other
          Polls         \* bound: polls of the extension in progress

ASSUME DebugAssumption == MaxCommands \in Nat

VARIABLES commands,   \* their status in the store, by order of their creation
          polls,      \* polls in progress: [pc, cmd, kind]
          polling,    \* debugCommandPollRunning
          runs        \* history: how often a command was carried out

bridge == <<commands, polls, polling, runs>>
Poll(pc, cmd, kind) == [pc |-> pc, cmd |-> cmd, kind |-> kind]
Idle == Poll("idle", 0, "none")

DebugInit == /\ Init /\ commands = <<>> /\ polling = FALSE
             /\ polls = [p \in Polls |-> Idle]
             /\ runs = [c \in 1 .. MaxCommands |-> 0]

(* POST /commands; the command line then looks for an answer, and gives up *)
(* after five minutes without telling anyone.                              *)
CreateCommand ==
    /\ Within /\ presses' = presses + 1 /\ Len(commands) < MaxCommands
    /\ commands' = Append(commands, "pending")
    /\ UNCHANGED <<memory, tasks, runner, draft, lastSteps, enabled, page, mail,
                   inputs, restarts, history, polls, polling, runs>>

(* GET /commands/next leases the oldest pending command.                   *)
Pending(c) == c \in DOMAIN commands /\ commands[c] = "pending"
Oldest(c) == Pending(c) /\ \A d \in DOMAIN commands : Pending(d) => c <= d

(* The timer: the flag is looked at, and the setting awaited.  Bound: a    *)
(* poll begins when there is a command; another would change nothing.      *)
PollTick(p) ==
    /\ ~polling /\ polls[p] = Idle /\ (\E c \in DOMAIN commands : Pending(c))
    /\ polls' = [polls EXCEPT ![p] = Poll("checking", 0, "none")]
    /\ UNCHANGED <<vars, commands, polling, runs>>
PollCheckedEarly(p) ==
    /\ polls[p].pc = "checking" /\ polling' = TRUE
    /\ polls' = [polls EXCEPT ![p] = IF enabled THEN Poll("fetching", 0, "none")
                                     ELSE Idle]
    /\ UNCHANGED <<vars, commands, runs>>
PollChecked(p) ==
    /\ polls[p].pc = "checking"
    /\ polling' = (polling \/ enabled)
    /\ polls' = [polls EXCEPT ![p] = IF enabled THEN Poll("fetching", 0, "none")
                                     ELSE Idle]
    /\ UNCHANGED <<vars, commands, runs>>

PollEnds(p) == polls' = [polls EXCEPT ![p] = Idle] /\ polling' = FALSE

LeaseAtResult(c) == UNCHANGED commands
Lease(c) == commands' = [commands EXCEPT ![c] = "leased"]
PollFetched(p) ==
    /\ polls[p].pc = "fetching"
    /\ \E c \in DOMAIN commands :
          /\ Oldest(c) /\ Lease(c)
          /\ \E kind \in Kinds :
                polls' = [polls EXCEPT ![p] = Poll("begin", c, kind)]
    /\ UNCHANGED <<vars, polling, runs>>
(* Nothing to do, no server, or an answer that is lost with its lease.     *)
PollFetchesNothing(p) ==
    /\ polls[p].pc = "fetching" /\ PollEnds(p)
    /\ UNCHANGED commands \/ \E c \in DOMAIN commands : Oldest(c) /\ Lease(c)
    /\ UNCHANGED <<vars, runs>>

(* executeRecorderDebugCommand: the operation begins, or is refused.       *)
(* BUILD_WORKFLOW tidies the list and stores it without saving the draft.  *)
Build == /\ steps # {} /\ steps' \in Prepared(steps) /\ lastSteps' = steps'
         /\ UNCHANGED <<recording, paused, tab, tasks, draft, enabled>>
         /\ Touch /\ Same /\ IdlePage /\ IdleTests
Operation(kind) ==
    \/ /\ UNCHANGED counters
       /\ \/ kind = "start" /\ StartBegins
          \/ kind = "stop" /\ StopBegins
          \/ kind = "clear" /\ ClearBegins
          \/ kind = "import" /\ ImportBegins
          \/ kind = "restore" /\ RestoreBegins
          \/ kind = "test" /\ TestBegins
          \/ kind = "build" /\ Build
    \/ UNCHANGED vars
CommandBegins(p) ==
    /\ polls[p].pc = "begin" /\ Operation(polls[p].kind)
    /\ polls' = [polls EXCEPT ![p] = Poll("run", polls[p].cmd, polls[p].kind)]
    /\ runs' = [runs EXCEPT ![polls[p].cmd] = runs[polls[p].cmd] + 1]
    /\ UNCHANGED <<commands, polling>>
Over(kind) == (\A t \in tasks : t.op # kind) /\ (kind = "test" => ~running)
(* The result is posted; a post that fails is swallowed.  RELOAD_EXTENSION *)
(* leaves a timer behind, of 250 ms.                                       *)
CommandEnds(p) ==
    /\ polls[p].pc = "run" /\ Over(polls[p].kind)
    /\ \/ commands' = [commands EXCEPT ![polls[p].cmd] = "done"]
       \/ UNCHANGED commands
    /\ polls' = [polls EXCEPT ![p] = IF polls[p].kind = "reload"
                                     THEN Poll("reloading", 0, "none") ELSE Idle]
    /\ polling' = FALSE
    /\ UNCHANGED <<vars, runs>>

(* With the worker go polls, flag and timers.                              *)
PollsGone == /\ polls' = [p \in Polls |-> Idle] /\ polling' = FALSE
             /\ UNCHANGED <<commands, runs>>
WorkerRestarts == Restart /\ PollsGone
ExtensionReloads(p) == polls[p].pc = "reloading" /\ Reload /\ PollsGone

DebugNext ==
    \/ (Page \/ Panel \/ Worker) /\ UNCHANGED bridge
    \/ WorkerRestarts \/ CreateCommand
    \/ \E p \in Polls : \/ PollTick(p) \/ PollChecked(p) \/ PollFetched(p)
                       \/ PollFetchesNothing(p) \/ CommandBegins(p) \/ CommandEnds(p)
                       \/ ExtensionReloads(p)
DebugSpec == DebugInit /\ [][DebugNext]_<<vars, bridge>>

-----------------------------------------------------------------------------
(* No command is carried out twice, with any number of polls at a time and *)
(* whatever is lost or restarted, and an answer belongs to a command that  *)
(* was carried out.                                                        *)
CommandOnce ==
    \A c \in 1 .. MaxCommands :
        /\ runs[c] <= 1
        /\ c \in DOMAIN commands /\ commands[c] = "done" => runs[c] = 1

(* A flag that keeps others out has an owner who will take it back: a test *)
(* on record as running a loop, the polls' flag a poll.                    *)
FlagsHaveOwners ==
    /\ running => loops > 0
    /\ polling => \E p \in Polls : polls[p].pc \in {"fetching", "begin", "run"}
=============================================================================
