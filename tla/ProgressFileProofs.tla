------------------------- MODULE ProgressFileProofs -------------------------
(***************************************************************************)
(* Proofs about ProgressFile, for any number of accounts, loops and runs.  *)
(***************************************************************************)
EXTENDS ProgressFile, FiniteSetTheorems, TLAPS

USE ProgressFileAssumption

-----------------------------------------------------------------------------
(* Type correctness.                                                       *)

\* The values of one loop.
LoopRecord ==
    [pc: Stage, acct: Accounts, mark: Mark, snap: Snapshot, fd: {"tmp", "file", "gone"}]

\* There is an empty snapshot, an idle loop and a first account.
LEMMA Constants ==
    /\ NoSnapshot \in Snapshot /\ 1 \in Accounts /\ 1 \in Loops
    /\ IdleLoop \in LoopRecord /\ Started \in [Loops -> LoopRecord]
<1>1. NoSnapshot \in Snapshot
  BY DEF NoSnapshot, Snapshot
<1>2. 1 \in Accounts /\ 1 \in Loops
  BY DEF Accounts, Loops
<1>3. IdleLoop \in LoopRecord
  BY <1>1, <1>2 DEF IdleLoop, LoopRecord, Stage, Mark
<1>4. Started \in [Loops -> LoopRecord]
  BY <1>3 DEF Started, LoopRecord, Stage
<1> QED
  BY <1>1, <1>2, <1>3, <1>4

\* A file that can be read gives a snapshot, patched or not.
LEMMA LoadedType ==
    ASSUME TypeOK, ~Unreadable
    PROVE  /\ Loaded \in Snapshot
           /\ \A l \in Loops : Patched(l) \in Snapshot
<1>1. file \in Snapshot \cup {NoFile}
  BY DEF TypeOK, Unreadable, Content
<1>2. Loaded \in Snapshot
  BY <1>1, Constants DEF Loaded, Snapshot, Mark, Outcome
<1>3. ASSUME NEW l \in Loops PROVE Patched(l) \in Snapshot
  BY <1>2 DEF Patched, Snapshot, TypeOK
<1> QED
  BY <1>2, <1>3

\* A rejected mark leaves loops.
LEMMA MarkRejectsType ==
    ASSUME TypeOK, NEW l \in Loops, MarkRejects(l)
    PROVE  loop' \in [Loops -> LoopRecord]
<1>1. loop \in [Loops -> LoopRecord]
  BY DEF TypeOK, LoopRecord
<1>2. [IdleLoop EXCEPT !.pc = "peek", !.mark = "failed", !.acct = loop[l].acct] \in LoopRecord
  BY <1>1, Constants DEF LoopRecord, Stage, Mark, Outcome
<1> QED
  BY <1>1, <1>2, Constants DEF MarkRejects

\* What is written is a file content.
LEMMA WrittenType ==
    ASSUME NEW old, NEW snap \in Snapshot
    PROVE  Written(old, snap) \subseteq Content
BY DEF Written, Content

\* The types hold at first.
LEMMA TypeInit == Init => TypeOK
<1> SUFFICES ASSUME Init PROVE TypeOK
  OBVIOUS
<1>1. loop \in [Loops -> LoopRecord]
  BY Constants DEF Init
<1>2. next \in 1..(NAccounts + 1) /\ runs \in 1..MaxRuns
  BY DEF Init
<1> QED
  BY <1>1, <1>2 DEF Init, TypeOK, LoopRecord, Content

\* Every step keeps the types; one step of the proof per action.
LEMMA TypeNext == TypeOK /\ [Next]_vars => TypeOK'
<1> SUFFICES ASSUME TypeOK, [Next]_vars PROVE TypeOK'
  OBVIOUS
<1> USE DEF runVars, fileVars
<1>0. loop \in [Loops -> LoopRecord]
  BY DEF TypeOK, LoopRecord
<1>1. ASSUME NEW l \in Loops, LoopStep(l) PROVE TypeOK'
  <2>1. CASE Stops(l) \/ CheckFails(l)
    <3>1. loop' \in [Loops -> LoopRecord]
      BY <1>0, <2>1, Constants DEF Stops, CheckFails
    <3> QED
      BY <2>1, <3>1 DEF Stops, CheckFails, TypeOK, LoopRecord
  <2>2. CASE Pick(l)
    <3>1. next \in Accounts /\ next' \in 1..(NAccounts + 1)
      BY <2>2 DEF Pick, NoMore, TypeOK, Accounts
    <3>2. [loop[l] EXCEPT !.pc = "skip", !.acct = next] \in LoopRecord
      BY <1>0, <3>1 DEF LoopRecord, Stage
    <3>3. loop' = [loop EXCEPT ![l] = [loop[l] EXCEPT !.pc = "skip", !.acct = next]]
      BY <1>0, <2>2 DEF Pick
    <3>4. loop' \in [Loops -> LoopRecord]
      BY <1>0, <3>2, <3>3
    <3> QED
      BY <2>2, <3>1, <3>4 DEF Pick, TypeOK, LoopRecord
  <2>3. CASE Skip(l) \/ Begin(l)
    <3>1. loop' \in [Loops -> LoopRecord]
      BY <1>0, <2>3 DEF Skip, Begin, Goto, LoopRecord, Stage, Mark
    <3> QED
      BY <2>3, <3>1 DEF Skip, Begin, TypeOK, LoopRecord
  <2>4. CASE FlowEnds(l)
    <3>1. loop' \in [Loops -> LoopRecord]
      <4>1. PICK o \in Outcome : loop' = [loop EXCEPT ![l].pc = "peek", ![l].mark = o]
        BY <2>4 DEF FlowEnds
      <4>2. [loop[l] EXCEPT !.pc = "peek", !.mark = o] \in LoopRecord
        BY <1>0 DEF LoopRecord, Stage, Mark
      <4>3. loop' = [loop EXCEPT ![l] = [loop[l] EXCEPT !.pc = "peek", !.mark = o]]
        BY <1>0, <4>1
      <4> QED
        BY <1>0, <4>2, <4>3
    <3>2. done' \in [Accounts -> Nat]
      BY <2>4 DEF FlowEnds, TypeOK
    <3> QED
      BY <2>4, <3>1, <3>2 DEF FlowEnds, TypeOK, LoopRecord
  <2>5. CASE Peek(l)
    <3>1. loop' \in [Loops -> LoopRecord]
      BY <1>0, <2>5, MarkRejectsType DEF Peek, Goto, LoopRecord, Stage
    <3> QED
      BY <2>5, <3>1 DEF Peek, TypeOK, LoopRecord
  <2>6. CASE Load(l)
    <3>1. CASE Unreadable
      <4>1. loop' \in [Loops -> LoopRecord]
        BY <2>6, <3>1, MarkRejectsType DEF Load
      <4> QED
        BY <2>6, <4>1 DEF Load, TypeOK, LoopRecord
    <3>2. CASE ~Unreadable
      <4>1. Patched(l) \in Snapshot
        BY <3>2, LoadedType
      <4>2. loop' \in [Loops -> LoopRecord]
        BY <1>0, <2>6, <3>2, <4>1 DEF Load, LoopRecord, Stage
      <4> QED
        BY <2>6, <4>2 DEF Load, TypeOK, LoopRecord
    <3> QED
      BY <3>1, <3>2
  <2>7. CASE Open(l)
    <3>1. loop' \in [Loops -> LoopRecord]
      BY <1>0, <2>7 DEF Open, LoopRecord, Stage
    <3> QED
      BY <2>7, <3>1 DEF Open, TypeOK, LoopRecord, Content
  <2>8. CASE Write(l)
    <3>0. NoSnapshot \in Snapshot
      BY Constants
    <3> DEFINE r == [loop[l] EXCEPT !.pc = "rename", !.snap = NoSnapshot, !.fd = "tmp"]
    <3>4. r \in LoopRecord
      BY <1>0, <3>0 DEF LoopRecord, Stage
    <3>5. loop' = [loop EXCEPT ![l] = r]
      BY <1>0, <2>8 DEF Write
    <3>1. loop' \in [Loops -> LoopRecord]
      BY <1>0, <3>4, <3>5
    <3>2. loop[l].snap \in Snapshot
      BY DEF TypeOK
    <3>3. file' \in Content /\ tmp' \in Content
      BY <2>8, <3>2, WrittenType DEF Write, TypeOK
    <3> QED
      BY <2>8, <3>1, <3>3 DEF Write, TypeOK, LoopRecord
  <2>9. CASE Rename(l)
    <3>1. ASSUME NEW k \in Loops PROVE Moved(k) \in LoopRecord
      BY <1>0 DEF Moved, LoopRecord
    <3>2. loop' \in [Loops -> LoopRecord]
      BY <1>0, <2>9, <3>1 DEF Rename, LoopRecord, Stage
    <3>3. recorded' \subseteq Accounts
      BY <2>9 DEF Rename, TypeOK
    <3> QED
      BY <2>9, <3>2, <3>3 DEF Rename, TypeOK, LoopRecord, Content
  <2>10. CASE RenameFails(l)
    <3>1. loop' \in [Loops -> LoopRecord]
      BY <2>10, MarkRejectsType DEF RenameFails
    <3> QED
      BY <2>10, <3>1 DEF RenameFails, TypeOK, LoopRecord
  <2> QED
    BY <1>1, <2>1, <2>2, <2>3, <2>4, <2>5, <2>6, <2>7, <2>8, <2>9, <2>10 DEF LoopStep
<1>2. CASE Shutdown
  BY <1>2 DEF Shutdown, TypeOK
<1>3. CASE Kill
  <2>1. loop' \in [Loops -> LoopRecord]
    BY <1>3, Constants DEF Kill
  <2> QED
    BY <1>3, <2>1 DEF Kill, TypeOK, LoopRecord
<1>4. CASE Rerun
  <2>1. loop' \in [Loops -> LoopRecord]
    BY <1>4, Constants DEF Rerun
  <2>2. next' \in 1..(NAccounts + 1) /\ runs' \in 1..MaxRuns
    BY <1>4 DEF Rerun, TypeOK
  <2> QED
    BY <1>4, <2>1, <2>2 DEF Rerun, TypeOK, LoopRecord
<1>5. CASE UNCHANGED vars
  BY <1>5 DEF vars, TypeOK
<1> QED
  BY <1>1, <1>2, <1>3, <1>4, <1>5 DEF Next

\* The variables keep their types (TypeOK).
THEOREM TypeCorrect == Spec => []TypeOK
  BY TypeInit, TypeNext, PTL DEF Spec

-----------------------------------------------------------------------------
(* Nothing claims that an account is done before a flow has ended well for *)
(* it: no file, no snapshot in memory, and no mark about to be recorded.   *)

\* A snapshot, or any other content, claims nothing wrong.
HonestFor(c, d) == c \in Snapshot => \A a \in Accounts : c[a] \in Skippable => d[a] > 0
Honest(c) == HonestFor(c, done)

\* A loop in these stages has an account and a mark to record.
Marking == {"peek", "load", "open", "write", "rename"}

HonestInv ==
    /\ Honest(file) /\ Honest(tmp)
    /\ \A l \in Loops :
          /\ Honest(loop[l].snap)
          /\ loop[l].pc \in Marking /\ loop[l].mark \in Skippable => done[loop[l].acct] > 0

\* What the steps of a loop do to the loops, as far as claims are concerned: a
\* snapshot is kept, dropped or loaded, and a mark is kept or comes of a flow.
LEMMA ClaimEffect ==
    ASSUME TypeOK, NEW l \in Loops, LoopStep(l), NEW k \in Loops
    PROVE  /\ \/ loop'[k].snap \in {loop[k].snap, NoSnapshot}
              \/ Load(l) /\ ~Unreadable /\ k = l /\ loop'[k].snap = Patched(l)
           /\ loop'[k].pc \in Marking /\ loop'[k].mark \in Skippable =>
                 \/ /\ loop[k].pc \in Marking /\ loop'[k].mark = loop[k].mark
                    /\ loop'[k].acct = loop[k].acct
                 \/ /\ FlowEnds(l) /\ k = l /\ loop'[k].acct = loop[k].acct
                    /\ done' = [done EXCEPT ![loop[l].acct] = done[loop[l].acct] + 1]
<1>0. loop \in [Loops -> LoopRecord]
  BY DEF TypeOK, LoopRecord
<1>1. CASE Stops(l) \/ CheckFails(l)
  BY <1>0, <1>1 DEF Stops, CheckFails, IdleLoop, Marking
<1>2. CASE Pick(l)
  BY <1>0, <1>2 DEF Pick, LoopRecord, Marking
<1>3. CASE Skip(l) \/ Begin(l)
  BY <1>0, <1>3 DEF Skip, Begin, Goto, LoopRecord, Marking, Skippable
<1>4. CASE FlowEnds(l)
  <2>1. PICK o \in Outcome :
           /\ loop' = [loop EXCEPT ![l].pc = "peek", ![l].mark = o]
           /\ done' = IF o = "failed" THEN done
                      ELSE [done EXCEPT ![loop[l].acct] = done[loop[l].acct] + 1]
    BY <1>4 DEF FlowEnds
  <2> QED
    BY <1>0, <1>4, <2>1 DEF LoopRecord, Skippable
<1>5. ASSUME MarkRejects(l)
      PROVE  /\ loop'[k].snap \in {loop[k].snap, NoSnapshot}
             /\ loop'[k].pc \in Marking /\ loop'[k].mark \in Skippable =>
                   loop'[k] = loop[k]
  BY <1>0, <1>5 DEF MarkRejects, IdleLoop, Marking, Skippable
<1>6. CASE Peek(l)
  BY <1>0, <1>5, <1>6 DEF Peek, Goto, LoopRecord, Marking
<1>7. CASE Load(l)
  <2>1. CASE Unreadable
    BY <1>5, <1>7, <2>1 DEF Load
  <2>2. CASE ~Unreadable
    BY <1>0, <1>7, <2>2 DEF Load, LoopRecord, Marking
  <2> QED
    BY <2>1, <2>2
<1>8. CASE Open(l) \/ Write(l)
  BY <1>0, <1>8 DEF Open, Write, LoopRecord, Marking
<1>9. CASE Rename(l)
  BY <1>0, <1>9 DEF Rename, Moved, LoopRecord, Marking
<1>10. CASE RenameFails(l)
  BY <1>5, <1>10 DEF RenameFails
<1> QED
  BY <1>1, <1>2, <1>3, <1>4, <1>6, <1>7, <1>8, <1>9, <1>10 DEF LoopStep

\* No step takes back that a flow has ended well.
LEMMA DoneGrows ==
    ASSUME TypeOK, [Next]_vars
    PROVE  \A a \in Accounts : done[a] > 0 => done'[a] > 0
<1>1. ASSUME NEW l \in Loops, LoopStep(l)
      PROVE  \A a \in Accounts : done[a] > 0 => done'[a] > 0
  <2>1. CASE FlowEnds(l)
    BY <2>1 DEF FlowEnds, TypeOK
  <2>2. CASE ~FlowEnds(l)
    BY <1>1, <2>2 DEF LoopStep, Stops, Pick, CheckFails, Skip, Begin, Peek, Load, Open, Write,
       Rename, RenameFails
  <2> QED
    BY <2>1, <2>2
<1>2. CASE Shutdown \/ Kill \/ Rerun \/ UNCHANGED vars
  BY <1>2 DEF Shutdown, Kill, Rerun, vars
<1> QED
  BY <1>1, <1>2 DEF Next

\* What is written over a content is the snapshot or no snapshot at all.
LEMMA WrittenHonest ==
    ASSUME NEW old, NEW snap, NEW d, HonestFor(snap, d), NEW c \in Written(old, snap)
    PROVE  HonestFor(c, d)
BY DEF Written, HonestFor

\* Nothing is claimed at first.
LEMMA HonestInit == Init => HonestInv
<1>1. HonestFor(NoSnapshot, done) /\ HonestFor(NoFile, done)
  BY DEF HonestFor, NoSnapshot, Skippable
<1> QED
  BY <1>1 DEF Init, HonestInv, Honest, Started, IdleLoop, Marking

\* Every step leaves the claims honest.
LEMMA HonestNext == TypeOK /\ HonestInv /\ [Next]_vars => HonestInv'
<1> SUFFICES ASSUME TypeOK, HonestInv, [Next]_vars PROVE HonestInv'
  OBVIOUS
<1> USE DEF runVars, fileVars
<1>1. \A a \in Accounts : done[a] > 0 => done'[a] > 0
  BY DoneGrows
<1>2. ASSUME NEW c, HonestFor(c, done) PROVE HonestFor(c, done')
  BY <1>1, <1>2 DEF HonestFor
<1>3. HonestFor(NoSnapshot, done') /\ HonestFor(NoFile, done') /\ HonestFor(Empty, done')
  BY DEF HonestFor, NoSnapshot, Skippable
<1>4. HonestFor(file, done') /\ HonestFor(tmp, done')
  BY <1>2 DEF HonestInv, Honest
<1>5. ASSUME NEW l \in Loops, LoopStep(l)
      PROVE  HonestInv'
  <2>1. HonestFor(file', done') /\ HonestFor(tmp', done')
    <3>1. CASE Write(l)
      <4>1. HonestFor(loop[l].snap, done')
        BY <1>2 DEF HonestInv, Honest
      <4> QED
        BY <1>4, <3>1, <4>1, WrittenHonest DEF Write
    <3>2. CASE Rename(l) \/ Open(l)
      BY <1>3, <1>4, <3>2 DEF Rename, Open
    <3>3. CASE ~Write(l) /\ ~Rename(l) /\ ~Open(l)
      BY <1>4, <1>5, <3>3 DEF LoopStep, Stops, Pick, CheckFails, Skip, Begin, FlowEnds, Peek,
         Load, RenameFails
    <3> QED
      BY <3>1, <3>2, <3>3
  <2>2. ASSUME NEW k \in Loops
        PROVE  /\ HonestFor(loop'[k].snap, done')
               /\ loop'[k].pc \in Marking /\ loop'[k].mark \in Skippable =>
                     done'[loop'[k].acct] > 0
    <3>1. HonestFor(loop'[k].snap, done')
      <4>1. CASE loop'[k].snap \in {loop[k].snap, NoSnapshot}
        BY <1>2, <1>3, <4>1 DEF HonestInv, Honest
      <4>2. CASE Load(l) /\ ~Unreadable /\ k = l /\ loop'[k].snap = Patched(l)
        <5>1. Loaded \in Snapshot /\ file \in Snapshot \cup {NoFile}
          BY <4>2, LoadedType DEF TypeOK, Content, Unreadable
        <5>2. \A a \in Accounts : Loaded[a] \in Skippable => done[a] > 0
          BY <5>1 DEF Loaded, NoSnapshot, Skippable, HonestInv, Honest, HonestFor
        <5>3. loop[l].mark \in Skippable => done[loop[l].acct] > 0
          BY <4>2 DEF Load, HonestInv, Marking
        <5>4. HonestFor(Patched(l), done)
          BY <5>1, <5>2, <5>3 DEF Patched, HonestFor, Snapshot
        <5> QED
          BY <1>2, <4>2, <5>4
      <4> QED
        BY <1>5, <4>1, <4>2, ClaimEffect
    <3>2. ASSUME loop'[k].pc \in Marking, loop'[k].mark \in Skippable
          PROVE  done'[loop'[k].acct] > 0
      <4>1. loop[k].acct \in Accounts /\ done \in [Accounts -> Nat]
        BY DEF TypeOK
      <4> QED
        BY <1>1, <1>5, <3>2, <4>1, ClaimEffect DEF HonestInv
    <3> QED
      BY <3>1, <3>2
  <2> QED
    BY <2>1, <2>2 DEF HonestInv, Honest
<1>6. CASE Shutdown
  BY <1>6 DEF Shutdown, HonestInv, Honest
<1>7. CASE Kill
  BY <1>3, <1>4, <1>7 DEF Kill, HonestInv, Honest, IdleLoop, Marking
<1>8. CASE Rerun
  BY <1>3, <1>4, <1>8 DEF Rerun, Started, HonestInv, Honest, IdleLoop, Marking
<1>9. CASE UNCHANGED vars
  BY <1>9 DEF vars, HonestInv, Honest
<1> QED
  BY <1>5, <1>6, <1>7, <1>8, <1>9 DEF Next

\* An account is skipped only if a flow has ended well for it
\* (SkippedOnlyIfDone).
THEOREM SkipsAreEarned == Spec => SkippedOnlyIfDone
<1>1. ASSUME TypeOK, HonestInv, [Next]_vars, NEW l \in Loops,
             loop[l].pc = "skip", loop'[l].pc = "pick"
      PROVE  done[loop[l].acct] > 0
  <2>0. loop \in [Loops -> LoopRecord]
    BY <1>1 DEF TypeOK, LoopRecord
  <2>1. ASSUME Skip(l) PROVE done[loop[l].acct] > 0
    <3>1. file \in Snapshot \cup {NoFile} /\ Loaded[loop[l].acct] \in Skippable
      BY <1>1, <2>1 DEF Skip, TypeOK, Content, Unreadable
    <3>2. loop[l].acct \in Accounts
      BY <2>0 DEF LoopRecord
    <3> QED
      BY <1>1, <3>1, <3>2 DEF Loaded, NoSnapshot, Skippable, HonestInv, Honest, HonestFor
  <2>2. ASSUME NEW k \in Loops, LoopStep(k) PROVE Skip(l)
    <3>1. ASSUME MarkRejects(k), loop[k].pc # "skip" PROVE loop'[l].pc = "skip" \/ k = l
      BY <1>1, <2>0, <3>1 DEF MarkRejects
    <3>2. CASE k # l
      BY <1>1, <2>0, <2>2, <3>1, <3>2 DEF LoopStep, Stops, Pick, CheckFails, Skip, Begin,
         FlowEnds, Peek, Load, Open, Write, Rename, RenameFails, Goto, Moved, LoopRecord
    <3>3. CASE k = l
      BY <1>1, <2>0, <2>2, <3>3 DEF LoopStep, Stops, Pick, CheckFails, Skip, Begin, FlowEnds,
         Peek, Load, Open, Write, Rename, RenameFails, IdleLoop, LoopRecord
    <3> QED
      BY <3>2, <3>3
  <2>3. ~Shutdown /\ ~Kill /\ ~Rerun /\ ~UNCHANGED vars
    BY <1>1, <2>0 DEF Shutdown, Kill, Rerun, AllIdle, vars, IdleLoop
  <2> QED
    BY <1>1, <2>1, <2>2, <2>3 DEF Next
<1>2. TypeOK /\ HonestInv /\ [Next]_vars =>
         [\A l \in Loops :
             loop[l].pc = "skip" /\ loop'[l].pc = "pick" => done[loop[l].acct] > 0]_vars
  BY <1>1
<1> QED
  BY TypeInit, TypeNext, HonestInit, HonestNext, <1>2, PTL DEF Spec, SkippedOnlyIfDone

-----------------------------------------------------------------------------
(* Sequential runs: only the first loop runs, and what it is about to      *)
(* write is what the file has but for its own account.                     *)

Current == loop[1]

\* What was recorded is on record in a content.
Keeps(c) == \A a \in recorded : c # NoFile /\ c[a] \in Skippable

\* The accounts that are through with have an outcome in a content.
Through(c) ==
    ~killed => \A a \in Accounts :
       a < next /\ (Current.pc \in {"idle", "pick"} \/ a # Current.acct) =>
          c # NoFile /\ c[a] \in Outcome

SeqInv ==
    /\ \A l \in Loops : l # 1 => loop[l].pc = "idle"
    /\ file \in Snapshot \cup {NoFile}
    /\ Keeps(file) /\ Through(file)
    /\ Current.pc \in {"open", "write"} =>
          /\ Current.snap[Current.acct] = Current.mark
          /\ Keeps(Current.snap) /\ Through(Current.snap)
    /\ Current.pc = "write" => tmp = Empty /\ Current.fd = "tmp"
    /\ Current.pc = "rename" =>
          /\ tmp \in Snapshot /\ tmp[Current.acct] = Current.mark
          /\ Keeps(tmp) /\ Through(tmp)
    /\ Current.pc \notin {"idle", "pick", "skip"} => Current.acct \notin recorded
    /\ Current.pc # "idle" => ~killed
    /\ Current.pc = "peek" => Current.mark # "running"
    /\ Current.pc = "idle" /\ ~cancelled /\ ~killed => next > NAccounts

SequentialInv == Sequential => SeqInv

\* A sequential run starts without a claim to anything.
LEMMA SeqInit == Init => SequentialInv
<1> SUFFICES ASSUME Init, Sequential PROVE SeqInv
  BY DEF SequentialInv
<1>1. 1 \in Loops /\ \A l \in Loops : l # 1 => ~(l <= 1)
  BY Constants DEF Loops
<1>2. Current.pc = "pick" /\ \A l \in Loops : l # 1 => loop[l].pc = "idle"
  BY <1>1 DEF Init, Sequential, Started, IdleLoop, Current
<1>3. \A a \in Accounts : ~(a < 1)
  BY DEF Accounts
<1> QED
  BY <1>2, <1>3 DEF Init, SeqInv, Keeps, Through

\* In a sequential run the file can always be read.
LEMMA SeqReadable ==
    ASSUME TypeOK, SeqInv
    PROVE  /\ ~Unreadable /\ Loaded \in Snapshot
           /\ \A a \in Accounts :
                 /\ Loaded[a] \in Skippable <=> file # NoFile /\ file[a] \in Skippable
                 /\ file # NoFile /\ file[a] \in Outcome => Loaded[a] = file[a]
<1>1. file \in Snapshot \cup {NoFile}
  BY DEF SeqInv
<1>2. ~Unreadable
  BY <1>1 DEF Unreadable
<1> QED
  BY <1>1, <1>2, LoadedType DEF Loaded, NoSnapshot, Skippable, Outcome

\* Every step of a sequential run keeps to that; one step of the proof per action.
LEMMA SeqNext == TypeOK /\ SequentialInv /\ [Next]_vars => SequentialInv'
<1>0. ASSUME [Next]_vars PROVE concurrency' = concurrency
  BY <1>0 DEF Next, vars, runVars, LoopStep, Stops, Pick, CheckFails, Skip, Begin, FlowEnds,
     Peek, Load, Open, Write, Rename, RenameFails, Shutdown, Kill, Rerun
<1> SUFFICES ASSUME TypeOK, Sequential, SeqInv, [Next]_vars PROVE SeqInv'
  BY <1>0 DEF SequentialInv, Sequential
<1> USE DEF runVars, fileVars, Current
<1>1. loop \in [Loops -> LoopRecord] /\ 1 \in Loops /\ next \in 1..(NAccounts + 1)
  BY Constants DEF TypeOK, LoopRecord
<1>2. /\ ~Unreadable /\ Loaded \in Snapshot /\ file \in Snapshot \cup {NoFile}
      /\ \A a \in Accounts :
            /\ Loaded[a] \in Skippable <=> file # NoFile /\ file[a] \in Skippable
            /\ file # NoFile /\ file[a] \in Outcome => Loaded[a] = file[a]
  BY SeqReadable DEF SeqInv
<1>3. Skippable \subseteq Outcome /\ "running" \notin Outcome
  BY DEF Skippable, Outcome
<1>4. recorded \subseteq Accounts
  BY DEF TypeOK
<1>5. ASSUME NEW l \in Loops, LoopStep(l) PROVE l = 1
  BY <1>5 DEF SeqInv, LoopStep, Stops, Pick, CheckFails, Skip, Begin, FlowEnds, Peek, Load,
     Open, Write, Rename, RenameFails
<1>6. CASE Stops(1)
  <2>1. loop'[1] = IdleLoop /\ \A l \in Loops : l # 1 => loop'[l] = loop[l]
    BY <1>1, <1>6 DEF Stops
  <2> QED
    BY <1>1, <1>6, <2>1 DEF Stops, NoMore, SeqInv, Keeps, Through, IdleLoop
<1>7. CASE Pick(1)
  <2>1. /\ loop'[1].pc = "skip" /\ loop'[1].acct = next /\ next' = next + 1
        /\ \A l \in Loops : l # 1 => loop'[l] = loop[l]
    BY <1>1, <1>7 DEF Pick, LoopRecord
  <2>2. \A a \in Accounts : a < next' /\ a # next => a < next
    BY <1>1, <2>1 DEF Accounts
  <2>3. Through(file)'
    BY <1>7, <2>1, <2>2 DEF Pick, SeqInv, Through
  <2>4. Keeps(file)' /\ ~killed'
    BY <1>7 DEF Pick, SeqInv, Keeps
  <2> QED
    BY <1>7, <2>1, <2>3, <2>4 DEF Pick, SeqInv
<1>8. CASE CheckFails(1)
  BY <1>2, <1>8 DEF CheckFails
<1>9. CASE Skip(1)
  <2>1. /\ loop'[1].pc = "pick" /\ loop'[1].acct = loop[1].acct
        /\ \A l \in Loops : l # 1 => loop'[l] = loop[l]
    BY <1>1, <1>9 DEF Skip, Goto, LoopRecord
  <2>2. loop[1].acct \in Accounts
    BY <1>1 DEF LoopRecord
  <2>3. Through(file)'
    BY <1>2, <1>3, <1>9, <2>1, <2>2 DEF Skip, SeqInv, Through
  <2> QED
    BY <1>9, <2>1, <2>3 DEF Skip, SeqInv, Keeps
<1>10. CASE Begin(1)
  <2>1. /\ loop'[1].pc = "load" /\ loop'[1].acct = loop[1].acct /\ loop[1].acct \in Accounts
        /\ \A l \in Loops : l # 1 => loop'[l] = loop[l]
    BY <1>1, <1>10 DEF Begin, LoopRecord
  <2>2. loop[1].acct \notin recorded
    BY <1>2, <1>10, <2>1 DEF Begin, SeqInv, Keeps
  <2>3. Keeps(file)' /\ Through(file)'
    BY <1>10, <2>1 DEF Begin, SeqInv, Keeps, Through
  <2>4. UNCHANGED <<fileVars, next, cancelled, killed, recorded>> /\ loop[1].pc = "skip"
    BY <1>10 DEF Begin
  <2> QED
    BY <2>1, <2>2, <2>3, <2>4 DEF SeqInv
<1>11. CASE FlowEnds(1)
  <2>1. PICK o \in Outcome : loop' = [loop EXCEPT ![1].pc = "peek", ![1].mark = o]
    BY <1>11 DEF FlowEnds
  <2>2. /\ loop'[1].pc = "peek" /\ loop'[1].mark = o /\ loop'[1].acct = loop[1].acct
        /\ \A l \in Loops : l # 1 => loop'[l] = loop[l]
    BY <1>1, <2>1 DEF LoopRecord
  <2> QED
    BY <1>3, <1>11, <2>2 DEF FlowEnds, SeqInv, Keeps, Through
<1>12. CASE Peek(1)
  <2>1. /\ loop'[1].pc = "load" /\ loop'[1].acct = loop[1].acct
        /\ \A l \in Loops : l # 1 => loop'[l] = loop[l]
    BY <1>1, <1>2, <1>12 DEF Peek, Goto, LoopRecord
  <2> QED
    BY <1>12, <2>1 DEF Peek, SeqInv, Keeps, Through
<1>13. CASE Load(1)
  <2>1. /\ loop'[1].pc = "open" /\ loop'[1].acct = loop[1].acct /\ loop'[1].mark = loop[1].mark
        /\ loop'[1].snap = Patched(1) /\ loop[1].acct \in Accounts /\ loop[1].mark \in Mark
        /\ \A l \in Loops : l # 1 => loop'[l] = loop[l]
    BY <1>1, <1>2, <1>13 DEF Load, LoopRecord
  <2>2. /\ Patched(1) \in Snapshot /\ Patched(1)[loop[1].acct] = loop[1].mark
        /\ \A a \in Accounts : a # loop[1].acct => Patched(1)[a] = Loaded[a]
    BY <1>2, <2>1 DEF Patched, Snapshot
  <2>3. Patched(1) # NoFile
    BY <2>2
  <2>4. Keeps(Patched(1)) /\ Through(Patched(1))
    BY <1>2, <1>3, <1>4, <1>13, <2>2, <2>3 DEF Load, SeqInv, Keeps, Through
  <2>5. UNCHANGED <<recorded, next, killed, cancelled, file, tmp>>
    BY <1>13 DEF Load
  <2> HIDE DEF Patched
  <2>6. Keeps(Current.snap)' /\ Through(Current.snap)'
    BY <1>13, <2>1, <2>4, <2>5 DEF Load, Keeps, Through
  <2>7. Keeps(file)' /\ Through(file)'
    BY <1>13, <2>1, <2>5 DEF Load, SeqInv, Keeps, Through
  <2> QED
    BY <1>13, <2>1, <2>2, <2>5, <2>6, <2>7 DEF Load, SeqInv
<1>14. CASE Open(1)
  <2>1. /\ loop'[1].pc = "write" /\ loop'[1].acct = loop[1].acct /\ loop'[1].mark = loop[1].mark
        /\ loop'[1].snap = loop[1].snap /\ loop'[1].fd = "tmp"
        /\ \A l \in Loops : l # 1 => loop'[l] = loop[l]
    BY <1>1, <1>14 DEF Open, LoopRecord
  <2>2. Keeps(Current.snap)' /\ Through(Current.snap)'
    BY <1>14, <2>1 DEF Open, SeqInv, Keeps, Through
  <2>3. Keeps(file)' /\ Through(file)'
    BY <1>14, <2>1 DEF Open, SeqInv, Keeps, Through
  <2>4. /\ UNCHANGED <<file, next, cancelled, killed, recorded>> /\ tmp' = Empty
        /\ loop[1].pc = "open"
    BY <1>14 DEF Open
  <2> QED
    BY <2>1, <2>2, <2>3, <2>4 DEF SeqInv
<1>15. CASE Write(1)
  <2>1. /\ loop'[1].pc = "rename" /\ loop'[1].acct = loop[1].acct
        /\ loop'[1].mark = loop[1].mark /\ loop[1].snap \in Snapshot
        /\ \A l \in Loops : l # 1 => loop'[l] = loop[l]
    BY <1>1, <1>15 DEF Write, LoopRecord
  <2>2. tmp' = loop[1].snap /\ file' = file
    BY <1>15 DEF Write, Written, SeqInv
  <2>3. Keeps(tmp)' /\ Through(tmp)'
    BY <1>15, <2>1, <2>2 DEF Write, SeqInv, Keeps, Through
  <2>4. Keeps(file)' /\ Through(file)'
    BY <1>15, <2>1, <2>2 DEF Write, SeqInv, Keeps, Through
  <2>5. UNCHANGED <<next, cancelled, killed, recorded>> /\ loop[1].pc = "write"
    BY <1>15 DEF Write
  <2> QED
    BY <2>1, <2>2, <2>3, <2>4, <2>5 DEF SeqInv
<1>16. CASE Rename(1)
  <2>1. /\ loop'[1].pc = (IF loop[1].mark = "running" THEN "flow" ELSE "pick")
        /\ loop'[1].acct = loop[1].acct /\ loop[1].acct \in Accounts /\ loop[1].mark \in Mark
        /\ \A l \in Loops : l # 1 => loop'[l].pc = loop[l].pc
    BY <1>1, <1>16 DEF Rename, Moved, LoopRecord
  <2>2. /\ tmp \in Snapshot /\ tmp[loop[1].acct] = loop[1].mark /\ file' = tmp
        /\ Keeps(tmp) /\ Through(tmp) /\ tmp # NoFile
        /\ loop[1].acct \notin recorded /\ ~killed
    BY <1>16 DEF Rename, SeqInv
  <2>3. Keeps(file)'
    BY <1>16, <2>1, <2>2 DEF Rename, Keeps, Skippable
  <2>4. Through(file)'
    BY <1>3, <1>16, <2>1, <2>2 DEF Rename, Through, Mark
  <2>5. loop[1].mark = "running" => recorded' = recorded
    BY <1>16 DEF Rename
  <2> QED
    BY <1>16, <2>1, <2>2, <2>3, <2>4, <2>5 DEF Rename, SeqInv
<1>17. CASE RenameFails(1)
  BY <1>17 DEF RenameFails, SeqInv
<1>18. CASE Shutdown
  BY <1>18 DEF Shutdown, SeqInv, Keeps, Through
<1>19. CASE Kill
  BY <1>1, <1>19 DEF Kill, SeqInv, Keeps, Through, IdleLoop
<1>20. CASE Rerun
  <2>1. \A l \in Loops : l # 1 => ~(l <= 1)
    BY DEF Loops
  <2>2. loop'[1].pc = "pick" /\ \A l \in Loops : l # 1 => loop'[l].pc = "idle"
    BY <1>1, <1>20, <2>1 DEF Rerun, Started, IdleLoop, Sequential
  <2>3. \A a \in Accounts : ~(a < 1)
    BY DEF Accounts
  <2> QED
    BY <1>20, <2>2, <2>3 DEF Rerun, SeqInv, Keeps, Through
<1>21. CASE UNCHANGED vars
  BY <1>21 DEF vars, SeqInv, Keeps, Through
<1> QED
  BY <1>5, <1>6, <1>7, <1>8, <1>9, <1>10, <1>11, <1>12, <1>13, <1>14, <1>15, <1>16, <1>17,
     <1>18, <1>19, <1>20, <1>21 DEF Next, LoopStep

\* The invariant of sequential runs holds in every reachable state.
THEOREM Invariance == Spec => [](TypeOK /\ SequentialInv)
  BY TypeInit, TypeNext, SeqInit, SeqNext, PTL DEF Spec

\* No kill of a sequential run leaves a file that cannot be read (FileReadable).
THEOREM FileStaysReadable == Spec => []FileReadable
<1>1. SequentialInv => FileReadable
  BY DEF SequentialInv, SeqInv, FileReadable, Unreadable
<1> QED
  BY <1>1, Invariance, PTL

\* What a sequential run has recorded stays on file (RecordKept).
THEOREM RecordsStay == Spec => []RecordKept
<1>1. SequentialInv => RecordKept
  BY DEF SequentialInv, SeqInv, Keeps, RecordKept, Skippable
<1> QED
  BY <1>1, Invariance, PTL

\* A sequential run left alone has an outcome on file for every account
\* (OutcomeOnFile).
THEOREM OutcomesOnFile == Spec => []OutcomeOnFile
<1>1. TypeOK /\ SequentialInv => OutcomeOnFile
  BY Constants DEF SequentialInv, SeqInv, Through, Current, OutcomeOnFile, AllIdle, Accounts, TypeOK
<1> QED
  BY <1>1, Invariance, PTL

-----------------------------------------------------------------------------
(* Work done twice.  Every flow that ended well has been recorded, or is   *)
(* about to be, for an account that was not on record, or a kill has come  *)
(* between.                                                                *)

\* A flow has ended well and waits for its record.
Pending == Current.pc \in Marking /\ Current.mark \in Skippable

RedoneInv ==
    Sequential =>
       /\ IsFiniteSet(FlowsDone) /\ IsFiniteSet(recorded)
       /\ Cardinality(FlowsDone) <= Cardinality(recorded) + kills + (IF Pending THEN 1 ELSE 0)

\* Sets of accounts are finite.
LEMMA AccountsFinite ==
    ASSUME NEW S \in SUBSET Accounts
    PROVE  IsFiniteSet(S) /\ Cardinality(S) <= NAccounts
<1>1. IsFiniteSet(1 .. NAccounts) /\ Cardinality(1 .. NAccounts) = NAccounts
  BY FS_Interval
<1>2. S \in SUBSET (1 .. NAccounts)
  BY DEF Accounts
<1>3. IsFiniteSet(S) /\ Cardinality(S) <= Cardinality(1 .. NAccounts)
  BY <1>1, <1>2, FS_Subset
<1> QED
  BY <1>1, <1>3

\* One flow more that ended well is one pair more.
LEMMA OneFlowMore ==
    ASSUME TypeOK, NEW a \in Accounts, done' = [done EXCEPT ![a] = done[a] + 1]
    PROVE  FlowsDone' = FlowsDone \cup {<<a, done[a] + 1>>}
<1>1. done \in [Accounts -> Nat]
  BY DEF TypeOK
<1>2. \A b \in Accounts : {b} \X (1 .. done'[b]) =
         IF b = a THEN ({b} \X (1 .. done[b])) \cup {<<a, done[a] + 1>>}
         ELSE {b} \X (1 .. done[b])
  <2>1. 1 .. (done[a] + 1) = (1 .. done[a]) \cup {done[a] + 1}
    BY <1>1
  <2> QED
    BY <1>1, <2>1
<1> QED
  BY <1>2 DEF FlowsDone

\* What the steps of a sequential run do to the flows done and to the record.
LEMMA RedoneEffect ==
    ASSUME TypeOK, Sequential, SeqInv, [Next]_vars
    PROVE  \/ UNCHANGED <<done, recorded, kills>> /\ (Pending' => Pending) /\ (Pending => Pending')
           \/ \E a \in Accounts :
                 /\ done' = [done EXCEPT ![a] = done[a] + 1] /\ UNCHANGED <<recorded, kills>>
                 /\ ~Pending /\ Pending'
           \/ \E a \in Accounts \ recorded :
                 /\ recorded' = recorded \cup {a} /\ UNCHANGED <<done, kills>>
                 /\ Pending /\ ~Pending'
           \/ kills' = kills + 1 /\ UNCHANGED <<done, recorded>> /\ ~Pending'
<1> USE DEF runVars, fileVars, Current, Pending
<1>1. loop \in [Loops -> LoopRecord] /\ 1 \in Loops /\ ~Unreadable
  BY Constants, SeqReadable DEF TypeOK, LoopRecord
<1>2. loop[1].acct \in Accounts /\ loop[1].mark \in Mark
  BY <1>1 DEF LoopRecord
<1>3. ASSUME NEW l \in Loops, LoopStep(l) PROVE l = 1
  BY <1>3 DEF SeqInv, LoopStep, Stops, Pick, CheckFails, Skip, Begin, FlowEnds, Peek, Load,
     Open, Write, Rename, RenameFails
<1>4. CASE Stops(1) \/ CheckFails(1) \/ Pick(1) \/ Skip(1) \/ Begin(1)
  <2>1. ~Pending
    BY <1>4 DEF Stops, CheckFails, Pick, Skip, Begin, Marking
  <2>2. ~Pending'
    BY <1>1, <1>4 DEF Stops, CheckFails, Pick, Skip, Begin, Goto, IdleLoop, LoopRecord, Marking,
       Skippable
  <2>3. UNCHANGED <<done, recorded, kills>>
    BY <1>4 DEF Stops, CheckFails, Pick, Skip, Begin
  <2> QED
    BY <2>1, <2>2, <2>3
<1>5. CASE FlowEnds(1)
  <2>1. PICK o \in Outcome :
           /\ loop' = [loop EXCEPT ![1].pc = "peek", ![1].mark = o]
           /\ done' = IF o = "failed" THEN done
                      ELSE [done EXCEPT ![loop[1].acct] = done[loop[1].acct] + 1]
    BY <1>5 DEF FlowEnds
  <2>2. /\ loop'[1].pc = "peek" /\ loop'[1].mark = o /\ loop[1].pc = "flow"
        /\ UNCHANGED <<recorded, kills>>
    BY <1>1, <1>5, <2>1 DEF FlowEnds, LoopRecord
  <2>3. ~Pending /\ (Pending' <=> o # "failed")
    BY <2>2 DEF Marking, Skippable, Outcome
  <2> QED
    BY <1>2, <2>1, <2>2, <2>3
<1>6. CASE Peek(1) \/ Load(1) \/ Open(1) \/ Write(1)
  <2>1. /\ loop[1].pc \in Marking /\ loop'[1].pc \in Marking /\ loop'[1].mark = loop[1].mark
        /\ UNCHANGED <<done, recorded, kills>>
    BY <1>1, <1>6 DEF Peek, Load, Open, Write, Goto, LoopRecord, Marking
  <2> QED
    BY <2>1
<1>7. CASE Rename(1)
  <2>1. /\ loop[1].pc = "rename" /\ loop'[1].pc \in {"flow", "pick"}
        /\ UNCHANGED <<done, kills>>
        /\ recorded' = IF loop[1].mark \in Skippable THEN recorded \cup {loop[1].acct}
                       ELSE recorded
    BY <1>1, <1>7 DEF Rename, LoopRecord, Skippable
  <2>2. loop[1].acct \notin recorded
    BY <2>1 DEF SeqInv
  <2>3. ~Pending' /\ (Pending <=> loop[1].mark \in Skippable)
    BY <2>1 DEF Marking
  <2> QED
    BY <1>2, <2>1, <2>2, <2>3
<1>8. CASE RenameFails(1)
  BY <1>8 DEF RenameFails, SeqInv
<1>9. CASE Kill
  BY <1>1, <1>9 DEF Kill, IdleLoop, Marking
<1>10. CASE Rerun
  BY <1>1, <1>10 DEF Rerun, AllIdle, Started, IdleLoop, Marking
<1>11. CASE Shutdown \/ UNCHANGED vars
  BY <1>11 DEF Shutdown, vars
<1> QED
  BY <1>3, <1>4, <1>5, <1>6, <1>7, <1>8, <1>9, <1>10, <1>11 DEF Next, LoopStep

\* Every step keeps the account of the flows done.
LEMMA RedoneNext == TypeOK /\ SequentialInv /\ RedoneInv /\ [Next]_vars => RedoneInv'
<1>1. ASSUME [Next]_vars PROVE concurrency' = concurrency
  BY <1>1 DEF Next, vars, runVars, LoopStep, Stops, Pick, CheckFails, Skip, Begin, FlowEnds,
     Peek, Load, Open, Write, Rename, RenameFails, Shutdown, Kill, Rerun
<1> SUFFICES ASSUME TypeOK, Sequential, SeqInv, RedoneInv, [Next]_vars
             PROVE  /\ IsFiniteSet(FlowsDone') /\ IsFiniteSet(recorded')
                    /\ Cardinality(FlowsDone')
                          <= Cardinality(recorded') + kills' + (IF Pending' THEN 1 ELSE 0)
  BY <1>1 DEF SequentialInv, RedoneInv, Sequential
<1>2. /\ IsFiniteSet(FlowsDone) /\ IsFiniteSet(recorded)
      /\ Cardinality(FlowsDone) <= Cardinality(recorded) + kills + (IF Pending THEN 1 ELSE 0)
  BY DEF RedoneInv
<1>3. Cardinality(FlowsDone) \in Nat /\ Cardinality(recorded) \in Nat /\ kills \in Nat
  BY <1>2, FS_CardinalityType DEF TypeOK
<1>4. done' = done => FlowsDone' = FlowsDone
  BY DEF FlowsDone
<1>5. CASE UNCHANGED <<done, recorded, kills>> /\ (Pending' => Pending) /\ (Pending => Pending')
  BY <1>2, <1>4, <1>5
<1>6. CASE \E a \in Accounts :
              /\ done' = [done EXCEPT ![a] = done[a] + 1] /\ UNCHANGED <<recorded, kills>>
              /\ ~Pending /\ Pending'
  <2>1. PICK a \in Accounts : done' = [done EXCEPT ![a] = done[a] + 1]
    BY <1>6
  <2>2. FlowsDone' = FlowsDone \cup {<<a, done[a] + 1>>}
    BY <2>1, OneFlowMore
  <2> DEFINE flow == <<a, done[a] + 1>>
  <2> HIDE DEF flow
  <2>3. IsFiniteSet(FlowsDone \cup {flow})
        /\ Cardinality(FlowsDone \cup {flow})
              = IF flow \in FlowsDone THEN Cardinality(FlowsDone) ELSE Cardinality(FlowsDone) + 1
    BY <1>2, FS_AddElement
  <2>4. FlowsDone' = FlowsDone \cup {flow}
    BY <2>2 DEF flow
  <2>5. Cardinality(FlowsDone') \in Nat
    BY <2>3, <2>4, FS_CardinalityType
  <2>6. Cardinality(FlowsDone') <= Cardinality(recorded) + kills + 1
    BY <1>2, <1>3, <1>6, <2>3, <2>4, <2>5
  <2> QED
    BY <1>2, <1>6, <2>3, <2>4, <2>6
<1>7. CASE \E a \in Accounts \ recorded :
              /\ recorded' = recorded \cup {a} /\ UNCHANGED <<done, kills>>
              /\ Pending /\ ~Pending'
  <2>1. PICK a \in Accounts \ recorded : recorded' = recorded \cup {a}
    BY <1>7
  <2>2. IsFiniteSet(recorded') /\ Cardinality(recorded') = Cardinality(recorded) + 1
    BY <1>2, <2>1, FS_AddElement
  <2>3. Cardinality(FlowsDone) <= Cardinality(recorded) + kills + 1
    BY <1>2, <1>7
  <2>4. Cardinality(FlowsDone) <= Cardinality(recorded') + kills + 0
    BY <1>3, <2>2, <2>3
  <2> QED
    BY <1>2, <1>4, <1>7, <2>2, <2>4
<1>8. CASE kills' = kills + 1 /\ UNCHANGED <<done, recorded>> /\ ~Pending'
  <2>1. Cardinality(FlowsDone) <= Cardinality(recorded) + kills + 1
    BY <1>2, <1>3
  <2>2. Cardinality(FlowsDone) <= Cardinality(recorded) + (kills + 1) + 0
    BY <1>3, <2>1
  <2> QED
    BY <1>2, <1>4, <1>8, <2>2
<1> QED
  BY <1>5, <1>6, <1>7, <1>8, RedoneEffect

\* In sequential runs each kill costs at most one account done over
\* (RedoneOnlyAfterKill).
THEOREM KillsCostOneEach == Spec => []RedoneOnlyAfterKill
<1>1. Init => RedoneInv
  <2> SUFFICES ASSUME Init PROVE RedoneInv
    OBVIOUS
  <2>1. FlowsDone = {} /\ recorded = {} /\ kills = 0
    BY DEF Init, FlowsDone
  <2> QED
    BY <2>1, FS_EmptySet DEF RedoneInv
<1>2. TypeOK /\ SequentialInv /\ RedoneInv => RedoneOnlyAfterKill
  <2> SUFFICES ASSUME TypeOK, SeqInv, RedoneInv, Sequential
               PROVE  Cardinality(FlowsDone) <= NAccounts + kills
    BY DEF SequentialInv, RedoneOnlyAfterKill
  <2>1. /\ IsFiniteSet(FlowsDone) /\ IsFiniteSet(recorded) /\ recorded \subseteq Accounts
        /\ Cardinality(FlowsDone) <= Cardinality(recorded) + kills + (IF Pending THEN 1 ELSE 0)
    BY DEF RedoneInv, TypeOK
  <2>2. Cardinality(FlowsDone) \in Nat /\ Cardinality(recorded) \in Nat /\ kills \in Nat
    BY <2>1, FS_CardinalityType DEF TypeOK
  <2>3. CASE Pending
    <3>1. Current.acct \in Accounts \ recorded
      BY <2>3, Constants DEF Pending, Marking, SeqInv, Current, TypeOK
    <3>2. /\ IsFiniteSet(recorded \cup {Current.acct})
          /\ Cardinality(recorded \cup {Current.acct}) = Cardinality(recorded) + 1
      BY <2>1, <3>1, FS_AddElement
    <3>3. Cardinality(recorded \cup {Current.acct}) <= NAccounts
      BY <2>1, <3>1, AccountsFinite
    <3> QED
      BY <2>1, <2>2, <2>3, <3>2, <3>3
  <2>4. CASE ~Pending
    <3>1. Cardinality(recorded) <= NAccounts
      BY <2>1, AccountsFinite
    <3> QED
      BY <2>1, <2>2, <2>4, <3>1
  <2> QED
    BY <2>3, <2>4
<1> QED
  BY <1>1, <1>2, RedoneNext, Invariance, TypeInit, TypeNext, SeqInit, SeqNext, PTL DEF Spec
=============================================================================
