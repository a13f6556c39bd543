---------------------------- MODULE ProgressFile ----------------------------
(***************************************************************************)
(* The command line program and its progress file: the AutomationRunner    *)
(* (runner.ts) over the accounts, started by main.ts, with the             *)
(* ProgressStore (progressStore.ts) as its progress adapter, and the runs  *)
(* that follow an interrupted or killed one.                               *)
(*                                                                         *)
(* Every method of the store reads the whole file, and the ones that       *)
(* record something write all of it to one temporary file, which they then *)
(* rename.  Nothing keeps two loops from doing so at the same time, so     *)
(* every file operation is a step here.  A file that is renamed while      *)
(* another loop has it open goes on being written under its new name.      *)
(*                                                                         *)
(* Retries, session refreshes and delays (JobRun has them) leave the file  *)
(* alone, and are part of the flow or of the time before the next account. *)
(***************************************************************************)
EXTENDS Integers, FiniteSets

CONSTANTS
    NAccounts,      \* accounts of a run, in the order they are processed
    MaxConcurrency, \* bound of CONCURRENCY
    MaxRuns,        \* how often the program is run over the same file
    NoFile,         \* the file does not exist
    Empty,          \* the file was truncated
    Garbled         \* the file is no JSON: two snapshots over each other

Accounts == 1..NAccounts
Loops == 1..MaxConcurrency

Outcome == {"completed", "skipped", "failed"}
Mark == Outcome \cup {"running"}

\* The accounts of a snapshot; "absent" where it has no entry.
Snapshot == [Accounts -> Mark \cup {"absent"}]

Content == Snapshot \cup {NoFile, Empty, Garbled}

ASSUME ProgressFileAssumption ==
    /\ NAccounts \in Nat \ {0}
    /\ MaxConcurrency \in Nat \ {0}
    /\ MaxRuns \in Nat \ {0}
    /\ NoFile \notin Snapshot \cup {Empty, Garbled}
    /\ Empty \notin Snapshot \cup {Garbled}
    /\ Garbled \notin Snapshot

VARIABLES
    concurrency,    \* the loops of every run
    file, tmp,      \* progress.json and progress.json.tmp
    loop,           \* the loops of the runner
    next,           \* the account index the loops share
    cancelled,      \* a shutdown signal was received
    killed,         \* the process was killed
    runs,           \* runs begun
    kills,          \* runs killed (history)
    done,           \* flows that ended well, per account (history)
    recorded        \* accounts whose good end was recorded (history)

fileVars == <<file, tmp>>
runVars  == <<concurrency, cancelled, killed, runs, kills>>
vars == <<runVars, fileVars, loop, next, done, recorded>>

Stage == {"idle", "pick", "skip", "flow", "peek", "load", "open", "write", "rename"}

NoSnapshot == [a \in Accounts |-> "absent"]

IdleLoop == [pc |-> "idle", acct |-> 1, mark |-> "running", snap |-> NoSnapshot, fd |-> "tmp"]

TypeOK ==
    /\ concurrency \in Loops
    /\ file \in Content /\ tmp \in Content
    /\ loop \in [Loops -> [pc: Stage, acct: Accounts, mark: Mark, snap: Snapshot,
                           fd: {"tmp", "file", "gone"}]]
    /\ next \in 1..(NAccounts + 1)
    /\ cancelled \in BOOLEAN /\ killed \in BOOLEAN
    /\ runs \in 1..MaxRuns /\ kills \in Nat
    /\ done \in [Accounts -> Nat]
    /\ recorded \subseteq Accounts

Started == [l \in Loops |-> [IdleLoop EXCEPT !.pc = IF l <= concurrency THEN "pick" ELSE "idle"]]

Init ==
    /\ concurrency \in Loops
    /\ file = NoFile /\ tmp = NoFile
    /\ loop = Started
    /\ next = 1
    /\ cancelled = FALSE /\ killed = FALSE
    /\ runs = 1 /\ kills = 0
    /\ done = [a \in Accounts |-> 0]
    /\ recorded = {}

-----------------------------------------------------------------------------
(* Reading the file.                                                       *)

Unreadable == file \in {Empty, Garbled}

\* load(): whatever is running was interrupted, whoever is running it.
Loaded ==
    IF file = NoFile
    THEN NoSnapshot
    ELSE [a \in Accounts |-> IF file[a] = "running" THEN "failed" ELSE file[a]]

\* Mutations: more, or fewer, accounts count as done.
SkipFailed == Outcome
SkipCompleted == {"completed"}

\* shouldSkip.
Skippable == {"completed", "skipped"}

-----------------------------------------------------------------------------
(* The loops of the runner.                                                *)

Goto(l, stage) == loop' = [loop EXCEPT ![l].pc = stage]

NoMoreByOne == next >= NAccounts        \* mutation: off by one
NoMore == next > NAccounts

Stops(l) ==
    /\ loop[l].pc = "pick"
    /\ cancelled \/ NoMore
    /\ loop' = [loop EXCEPT ![l] = IdleLoop]
    /\ UNCHANGED <<runVars, fileVars, next, done, recorded>>

Pick(l) ==
    /\ loop[l].pc = "pick" /\ ~cancelled /\ ~NoMore
    /\ next' = next + 1
    /\ loop' = [loop EXCEPT ![l].pc = "skip", ![l].acct = next]
    /\ UNCHANGED <<runVars, fileVars, done, recorded>>

\* An unreadable file rejects here: the runner fails, its other loops go on.
CheckFails(l) ==
    /\ loop[l].pc = "skip" /\ Unreadable
    /\ loop' = [loop EXCEPT ![l] = IdleLoop]
    /\ UNCHANGED <<runVars, fileVars, next, done, recorded>>

Skip(l) ==
    /\ loop[l].pc = "skip" /\ ~Unreadable
    /\ Loaded[loop[l].acct] \in Skippable
    /\ Goto(l, "pick")
    /\ UNCHANGED <<runVars, fileVars, next, done, recorded>>

\* markRunning.
Begin(l) ==
    /\ loop[l].pc = "skip" /\ ~Unreadable
    /\ Loaded[loop[l].acct] \notin Skippable
    /\ loop' = [loop EXCEPT ![l].pc = "load", ![l].mark = "running"]
    /\ UNCHANGED <<runVars, fileVars, next, done, recorded>>

\* The flow completes, finds nothing to do, or fails; markCompleted, markSkipped
\* or markFailed is called.
FlowEnds(l) ==
    /\ loop[l].pc = "flow"
    /\ \E o \in Outcome :
          /\ loop' = [loop EXCEPT ![l].pc = "peek", ![l].mark = o]
          /\ done' = IF o = "failed" THEN done
                     ELSE [done EXCEPT ![loop[l].acct] = done[loop[l].acct] + 1]
    /\ UNCHANGED <<runVars, fileVars, next, recorded>>

-----------------------------------------------------------------------------
(* Recording a mark.                                                       *)

\* Mutation: recording a failure is tried for ever.
RetryMark(l) == loop' = [loop EXCEPT ![l] = [IdleLoop EXCEPT !.pc = "peek", !.mark = "failed",
                                                             !.acct = loop[l].acct]]

\* The call rejects.  The runner takes that for a failure of the account, and a
\* failure that cannot be recorded for its own.
MarkRejects(l) ==
    loop' = [loop EXCEPT ![l] =
                IF loop[l].mark = "failed" THEN IdleLoop
                ELSE [IdleLoop EXCEPT !.pc = "peek", !.mark = "failed", !.acct = loop[l].acct]]

\* Every outcome is recorded with the start time the file has: a first load().
Peek(l) ==
    /\ loop[l].pc = "peek"
    /\ IF Unreadable THEN MarkRejects(l) ELSE Goto(l, "load")
    /\ UNCHANGED <<runVars, fileVars, next, done, recorded>>

\* Mutation: the snapshot starts from nothing.
PatchedAlone(l) == [NoSnapshot EXCEPT ![loop[l].acct] = loop[l].mark]

Patched(l) == [Loaded EXCEPT ![loop[l].acct] = loop[l].mark]

Load(l) ==
    /\ loop[l].pc = "load"
    /\ IF Unreadable
       THEN MarkRejects(l)
       ELSE loop' = [loop EXCEPT ![l].pc = "open", ![l].snap = Patched(l)]
    /\ UNCHANGED <<runVars, fileVars, next, done, recorded>>

\* Mutation: the progress file itself is rewritten.
OpenInPlace(l) ==
    /\ loop[l].pc = "open"
    /\ file' = Empty
    /\ loop' = [loop EXCEPT ![l].pc = "write", ![l].fd = "file"]
    /\ UNCHANGED <<runVars, tmp, next, done, recorded>>

\* writeFile creates or truncates the temporary file.
Open(l) ==
    /\ loop[l].pc = "open"
    /\ tmp' = Empty
    /\ loop' = [loop EXCEPT ![l].pc = "write", ![l].fd = "tmp"]
    /\ UNCHANGED <<runVars, file, next, done, recorded>>

\* A snapshot written over a longer one leaves the tail of that.
Written(old, snap) == IF old = Empty THEN {snap} ELSE {snap, Garbled}

Write(l) ==
    /\ loop[l].pc = "write"
    /\ IF loop[l].fd = "tmp" THEN tmp' \in Written(tmp, loop[l].snap) ELSE UNCHANGED tmp
    /\ IF loop[l].fd = "file" THEN file' \in Written(file, loop[l].snap) ELSE UNCHANGED file
    /\ loop' = [loop EXCEPT ![l].pc = "rename", ![l].snap = NoSnapshot, ![l].fd = "tmp"]
    /\ UNCHANGED <<runVars, next, done, recorded>>

\* What the open files of the other loops are after a rename.
Moved(k) ==
    IF loop[k].pc # "write" \/ loop[k].fd = "gone" THEN loop[k]
    ELSE [loop[k] EXCEPT !.fd = IF loop[k].fd = "tmp" THEN "file" ELSE "gone"]

Rename(l) ==
    /\ loop[l].pc = "rename" /\ tmp # NoFile
    /\ file' = tmp /\ tmp' = NoFile
    /\ loop' = [k \in Loops |->
                   IF k = l
                   THEN [loop[l] EXCEPT !.pc = IF loop[l].mark = "running" THEN "flow" ELSE "pick"]
                   ELSE Moved(k)]
    /\ recorded' = IF loop[l].mark \in {"completed", "skipped"}
                   THEN recorded \cup {loop[l].acct} ELSE recorded
    /\ UNCHANGED <<runVars, next, done>>

\* Another loop has renamed the temporary file already.
RenameFails(l) ==
    /\ loop[l].pc = "rename" /\ tmp = NoFile
    /\ MarkRejects(l)
    /\ UNCHANGED <<runVars, fileVars, next, done, recorded>>

-----------------------------------------------------------------------------
(* The process.                                                            *)

AllIdle == \A l \in Loops : loop[l].pc = "idle"

\* SIGINT or SIGTERM: the loops end after their current accounts.
Shutdown ==
    /\ ~AllIdle /\ ~cancelled
    /\ cancelled' = TRUE
    /\ UNCHANGED <<concurrency, killed, runs, kills, fileVars, loop, next, done, recorded>>

Kill ==
    /\ ~AllIdle
    /\ loop' = [l \in Loops |-> IdleLoop]
    /\ killed' = TRUE
    /\ kills' = kills + 1
    /\ UNCHANGED <<concurrency, cancelled, runs, fileVars, next, done, recorded>>

\* The program is started again over the same accounts.
Rerun ==
    /\ AllIdle /\ runs < MaxRuns
    /\ runs' = runs + 1
    /\ loop' = Started
    /\ next' = 1
    /\ cancelled' = FALSE /\ killed' = FALSE
    /\ UNCHANGED <<concurrency, kills, fileVars, done, recorded>>

-----------------------------------------------------------------------------
LoopStep(l) ==
    \/ Stops(l) \/ Pick(l) \/ CheckFails(l) \/ Skip(l) \/ Begin(l) \/ FlowEnds(l)
    \/ Peek(l) \/ Load(l) \/ Open(l) \/ Write(l) \/ Rename(l) \/ RenameFails(l)

Next ==
    \/ \E l \in Loops : LoopStep(l)
    \/ Shutdown \/ Kill \/ Rerun

Spec == Init /\ [][Next]_vars

\* File operations complete, and every flow ends by its own timeouts.
FairSpec == Spec /\ \A l \in Loops : WF_vars(LoopStep(l))

-----------------------------------------------------------------------------
(* Properties.  Several hold for sequential runs only, where .env.example  *)
(* has CONCURRENCY=1.                                                      *)

Sequential == concurrency = 1

\* Whatever the loops do to each other's writes, an account is skipped only if a
\* flow has ended well for it.
SkippedOnlyIfDone ==
    [][\A l \in Loops :
          loop[l].pc = "skip" /\ loop'[l].pc = "pick" => done[loop[l].acct] > 0]_vars

\* A sequential run never leaves a file that a later run cannot read, wherever
\* it is killed.
FileReadable == Sequential => ~Unreadable

\* In sequential runs, what was recorded stays on file ...
RecordKept == Sequential => \A a \in recorded : file # NoFile /\ file[a] \in {"completed", "skipped"}

\* The flows that have ended well, numbered for each account.
FlowsDone == UNION {{a} \X (1 .. done[a]) : a \in Accounts}

\* ... so that work is done twice only if a kill came between doing and
\* recording it: each kill costs at most one account.
RedoneOnlyAfterKill == Sequential => Cardinality(FlowsDone) <= NAccounts + kills

\* A sequential run that was left alone has an outcome on file for every account.
OutcomeOnFile ==
    Sequential /\ AllIdle /\ ~cancelled /\ ~killed => \A a \in Accounts : file[a] \in Outcome

\* Every run ends, however its loops break each other's writes.
RunEnds == ~AllIdle ~> AllIdle

\* README.md on later runs: "Completed accounts are skipped on later runs."
CompletedAreSkipped ==
    \A l \in Loops : loop[l].pc = "flow" => loop[l].acct \notin recorded
=============================================================================
