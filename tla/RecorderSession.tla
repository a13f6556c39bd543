--------------------------- MODULE RecorderSession ---------------------------
(***************************************************************************)
(* A recording session of the browser extension: the recorder in the page  *)
(* (extension/content/recorder.ts), the service worker that keeps the      *)
(* recorded steps (extension/background/service-worker.ts) and what it     *)
(* stores, and the runner of browser tests.                                *)
(*                                                                         *)
(* Handlers of the service worker interleave at every await.  A handler in *)
(* progress is a task [op, pc, act, base]: pc is the await it is in, act   *)
(* the action it records, base the list of steps it read before the await. *)
(* A recorded action is the number of the user's input; the numbers are    *)
(* the timestamps, and as the list is sorted by them, a set stands for it. *)
(***************************************************************************)
EXTENDS Naturals, Sequences, FiniteSets

CONSTANTS MaxInputs,    \* bound: inputs made by the user
          MaxRestarts,  \* bound: restarts of the service worker and of the page
          MaxEvents,    \* bound: inputs, restarts and commands together
          NoDraft,      \* the value of an absent draft
          Commands,     \* bound: the commands and navigations that are used
          Twins,        \* pairs of inputs that do the same: one destination, or one
                        \* value for fields that share a selector or a description
          Near          \* those of them that are close enough in time to be taken
                        \* for one (1.5 s for navigations, 5 s for fills)

ASSUME SessionAssumption ==
    /\ MaxInputs \in Nat /\ MaxRestarts \in Nat
    /\ MaxEvents \in Nat
    /\ Near \subseteq Twins /\ Twins \subseteq Nat \X Nat
    /\ NoDraft \notin [recording : BOOLEAN, paused : BOOLEAN,
                       steps : SUBSET (1 .. MaxInputs), tab : BOOLEAN]

VARIABLES
    recording, paused, steps, tab,  \* memory of the service worker
    tasks,                          \* its handlers in progress
    running, loops,                 \* test runner: flag, loops alive
    draft, lastSteps, enabled,      \* chrome.storage
    page,                           \* the recorder in the page
    mail,                           \* actions sent by the page, not handled
    inputs, restarts, presses,      \* counters
    accepted, mixed, overtaken      \* history, see below

memory == <<recording, paused, steps, tab>>
runner == <<running, loops>>
counters == <<inputs, restarts, presses>>
history == <<accepted, mixed, overtaken>>
vars == <<memory, tasks, runner, draft, lastSteps, enabled, page, mail,
          counters, history>>

Ops == {"start", "stop", "pause", "resume", "clear", "import", "disable",
        "capture", "restore", "test"}
Task(op, pc, act, base) == [op |-> op, pc |-> pc, act |-> act, base |-> base]
At(op, pc) == Task(op, pc, 0, {})
(* Bound: of each kind of handler, captures excepted, one is in progress.  *)
Free(op) == op \in Commands /\ \A t \in tasks : t.op # op
Moves(op, from, to) == At(op, from) \in tasks
                       /\ tasks' = (tasks \ {At(op, from)}) \union {At(op, to)}
Ends(op, pc) == At(op, pc) \in tasks /\ tasks' = tasks \ {At(op, pc)}
(* Handlers that will assign the steps they computed before an await.      *)
Rewriting == {t \in tasks : t.op \in {"capture", "restore"}}

Persisted(rec, pau, st, tb) ==
    IF ~rec /\ st = {} THEN NoDraft
    ELSE [recording |-> rec, paused |-> pau, steps |-> st, tab |-> tb]
SaveUnpaused == draft' = Persisted(recording', FALSE, steps', tab')
Save == draft' = Persisted(recording', paused', steps', tab')

IsDuplicateByTime(existing, a) == existing # {}
IsDuplicate(existing, a) == \E b \in existing : <<b, a>> \in Near
Insert(existing, a) == IF IsDuplicate(existing, a) THEN existing
                       ELSE existing \union {a}
(* prepareRecordedActionsForWorkflow: an action goes when it is a twin of  *)
(* the last one kept before it, however long ago that was.  (There is one  *)
(* such list.)                                                             *)
LastKept(kept, a, b) == b \in kept /\ b < a /\ \A c \in kept : c < a => c <= b
Prepared(existing) ==
    {kept \in SUBSET existing : \A a \in existing :
        a \in kept <=> ~\E b \in kept : LastKept(kept, a, b) /\ <<b, a>> \in Twins}

NoRecorder == [recording |-> FALSE, paused |-> FALSE, pending |-> 0, queue |-> {}]
Init == /\ recording = FALSE /\ paused = FALSE /\ steps = {} /\ tab = FALSE
        /\ tasks = {} /\ running = FALSE /\ loops = 0
        /\ draft = NoDraft /\ lastSteps = {} /\ enabled = TRUE
        /\ page = NoRecorder
        /\ mail = <<>> /\ inputs = 0 /\ restarts = 0 /\ presses = 0
        /\ accepted = {} /\ mixed = FALSE /\ overtaken = FALSE

-----------------------------------------------------------------------------
(* The page.  An action is sent unless the page's own queue has it already.*)

(* The queue is kept as far as Near can ask for it.                        *)
RecordAction(p, a) ==
    [p EXCEPT !.queue = Insert(p.queue, a) \intersect {twins[1] : twins \in Near}]
(* shot: the worker takes a picture of the page with it, as for all        *)
(* actions on an element.                                                  *)
Sends(p, a, shot) == IF a = 0 \/ IsDuplicate(p.queue, a) THEN <<>>
                     ELSE <<[act |-> a, shot |-> shot]>>
Flushed(p) == IF p.pending = 0 THEN p
              ELSE [RecordAction(p, p.pending) EXCEPT !.pending = 0]
FlushSends(p) == Sends(p, p.pending, TRUE)
Within == inputs + restarts + presses < MaxEvents
Lost == Within /\ restarts < MaxRestarts /\ restarts' = restarts + 1
Listening == page.recording /\ ~page.paused
NewInput == Within /\ inputs < MaxInputs /\ inputs' = inputs + 1

(* A field is typed into: its fill waits, the fill of another is sent.     *)
HandleInput ==
    /\ Listening /\ NewInput
    /\ page' = [Flushed(page) EXCEPT !.pending = inputs']
    /\ mail' = mail \o FlushSends(page)
    /\ UNCHANGED <<memory, tasks, runner, draft, lastSteps, enabled, restarts,
                   presses, history>>

(* The 800 ms of the debouncer are over, or the field reports a change.    *)
FlushFill ==
    /\ page.pending # 0
    /\ page' = Flushed(page)
    /\ mail' = mail \o FlushSends(page)
    /\ UNCHANGED <<memory, tasks, runner, draft, lastSteps, enabled, counters,
                   history>>

(* The waiting fill is sent and, in the same turn, the action: a click or  *)
(* a key on an element, a navigation within the page.                      *)
SendsBoth(shot) ==
    /\ Listening /\ NewInput
    /\ page' = RecordAction(Flushed(page), inputs')
    /\ mail' = mail \o FlushSends(page) \o Sends(Flushed(page), inputs', shot)
    /\ UNCHANGED <<memory, tasks, runner, draft, lastSteps, enabled, restarts,
                   presses, history>>
HandleClick == SendsBoth(TRUE)
HandleNavigation == "navigate" \in Commands /\ SendsBoth(FALSE)

(* The page is left: its recorder goes with the fill that waits.           *)
LeavePage ==
    /\ page.recording /\ Lost
    /\ page' = [page EXCEPT !.recording = FALSE, !.paused = FALSE, !.pending = 0,
                            !.queue = {}]
    /\ UNCHANGED <<memory, tasks, runner, draft, lastSteps, enabled, mail,
                   inputs, presses, history>>

(* A START message in the page: a recording one goes on and its pause ends *)
(* (a pause may follow at once); a fresh one records where it is, unless   *)
(* that is no page to record.                                              *)
Started(p) == IF p.recording THEN [p EXCEPT !.paused = FALSE]
              ELSE [p EXCEPT !.recording = TRUE, !.paused = FALSE, !.queue = {}]
Halted(p) == [Flushed(p) EXCEPT !.paused = TRUE]
PageStarts(halt) ==
    \/ /\ page' = IF halt THEN Halted(Started(page)) ELSE Started(page)
       /\ mail' = IF halt THEN mail \o FlushSends(page) ELSE mail
       /\ UNCHANGED inputs
    \/ /\ ~page.recording /\ NewInput
       /\ page' = [RecordAction(Started(page), inputs') EXCEPT !.paused = halt]
       /\ mail' = mail \o Sends(Started(page), inputs', FALSE)
PageStops ==
    /\ page' = [Flushed(page) EXCEPT !.recording = FALSE, !.paused = FALSE]
    /\ mail' = mail \o FlushSends(page)
PagePauses(on) ==
    /\ page' = IF on THEN Halted(page) ELSE [page EXCEPT !.paused = FALSE]
    /\ mail' = IF on THEN mail \o FlushSends(page) ELSE mail
(* The tab may have no recorder that answers.                              *)
NotReached == UNCHANGED <<page, mail>>

-----------------------------------------------------------------------------
(* History: accepted, the inputs taken into this recording and not deleted *)
(* since; mixed, whether steps changed while a handler held an older copy; *)
(* overtaken, whether the recording began while the removal of a draft was *)
(* on its way.                                                             *)
Touch == mixed' = (mixed \/ (steps' # steps /\ tasks' \intersect Rewriting # {}))
Forget(acc) == accepted' = acc /\ UNCHANGED overtaken
Same == UNCHANGED <<accepted, overtaken>>
IdlePage == UNCHANGED <<page, mail>>
IdleUser == UNCHANGED <<counters>>
IdleTests == UNCHANGED runner

StartBegins ==
    /\ Free("start")
    /\ recording' = TRUE /\ paused' = FALSE /\ steps' = {} /\ tab' = TRUE
    /\ tasks' = tasks \union {At("start", "sent")}
    /\ accepted' = {} /\ mixed' = (Rewriting # {})
    /\ overtaken' = (\E t \in tasks : t.op \in {"stop", "clear"} /\ t.pc = "storing")
    /\ IdlePage /\ IdleTests /\ UNCHANGED <<draft, lastSteps, enabled>>

(* The page has answered; the draft is written.                            *)
StartDelivered ==
    /\ Moves("start", "sent", "answered") /\ PageStarts(FALSE)
    /\ IdleTests
    /\ UNCHANGED <<memory, draft, lastSteps, enabled, restarts, presses, history>>
StartSaved ==
    /\ Ends("start", "answered") /\ UNCHANGED memory /\ Save
    /\ IdlePage /\ IdleUser /\ IdleTests /\ UNCHANGED <<lastSteps, enabled, history>>
StartFails ==
    /\ Ends("start", "sent")
    /\ recording' = FALSE /\ paused' = FALSE /\ tab' = FALSE /\ UNCHANGED steps
    /\ draft' = NoDraft
    /\ IdlePage /\ IdleUser /\ IdleTests /\ UNCHANGED <<lastSteps, enabled, history>>

(* A handler that first tells the page: it is sent, it reaches the page of *)
(* the recording or not, and the worker goes on.  Stop, pause and resume   *)
(* ask the active tab, the others the recording one.                       *)
Asks(op) == /\ Free(op) /\ tasks' = tasks \union {At(op, "sent")}
            /\ IdlePage /\ IdleTests
            /\ UNCHANGED <<draft, lastSteps, accepted, overtaken>>
Reaches(op, Effect) ==
    /\ Moves(op, "sent", "answered") /\ (Effect \/ NotReached)
    /\ IdleUser /\ IdleTests
    /\ UNCHANGED <<memory, draft, lastSteps, enabled, history>>
Off == recording' = FALSE /\ paused' = FALSE /\ tab' = FALSE

StopBegins == Asks("stop") /\ UNCHANGED <<memory, enabled, mixed>>
StopDelivered == Reaches("stop", PageStops)
StopBuilds ==
    /\ Moves("stop", "answered", "storing") /\ Off
    /\ steps' \in Prepared(steps) /\ lastSteps' = steps'
    /\ Touch /\ Same
    /\ IdlePage /\ IdleUser /\ IdleTests /\ UNCHANGED <<draft, enabled>>
StopClears ==
    /\ Ends("stop", "storing") /\ draft' = NoDraft
    /\ IdlePage /\ IdleUser /\ IdleTests
    /\ UNCHANGED <<memory, lastSteps, enabled, history>>

Pausing(op) == op = "pause"
PauseBegins(op) ==
    /\ recording /\ Asks(op)
    /\ paused' = Pausing(op) /\ tab' = TRUE
    /\ UNCHANGED <<recording, steps, enabled, mixed>>
PauseDelivered(op) == Reaches(op, PagePauses(Pausing(op)))
PauseSaved(op) ==
    /\ Ends(op, "answered") /\ UNCHANGED memory /\ Save
    /\ IdlePage /\ IdleUser /\ IdleTests /\ UNCHANGED <<lastSteps, enabled, history>>

ClearBegins == Asks("clear") /\ UNCHANGED <<memory, enabled, mixed>>
ClearDelivered == Reaches("clear", tab /\ PageStops)
ClearForgets ==
    /\ Moves("clear", "answered", "storing") /\ Off
    /\ steps' = {} /\ lastSteps' = {} /\ Touch /\ Forget({})
    /\ IdlePage /\ IdleUser /\ IdleTests /\ UNCHANGED <<draft, enabled>>
ClearEnds ==
    /\ Ends("clear", "storing") /\ draft' = NoDraft
    /\ IdlePage /\ IdleUser /\ IdleTests
    /\ UNCHANGED <<memory, lastSteps, enabled, history>>

(* The imported workflow has one step, the next input number.              *)
ImportBegins == Asks("import") /\ UNCHANGED <<memory, enabled, mixed>>
ImportDelivered == Reaches("import", tab /\ PageStops)
ImportReplaces ==
    /\ Moves("import", "answered", "storing") /\ NewInput /\ Off
    /\ steps' = {inputs'} /\ lastSteps' = steps' /\ Touch /\ Forget(steps')
    /\ IdlePage /\ IdleTests /\ UNCHANGED <<draft, enabled, restarts, presses>>
ImportSaved ==
    /\ Ends("import", "storing") /\ UNCHANGED memory /\ Save
    /\ IdlePage /\ IdleUser /\ IdleTests /\ UNCHANGED <<lastSteps, enabled, history>>

Enable == /\ ~enabled /\ "disable" \in Commands /\ enabled' = TRUE
          /\ IdlePage /\ IdleTests
          /\ UNCHANGED <<memory, tasks, draft, lastSteps, history>>
DisableBegins ==
    /\ enabled /\ Free("disable") /\ enabled' = FALSE
    /\ tasks' = tasks \union {At("disable", "sent")}
    /\ IdlePage /\ IdleTests
    /\ UNCHANGED <<memory, draft, lastSteps, history>>
DisableDelivered == Reaches("disable", tab /\ PageStops)
DisableEnds ==
    /\ Ends("disable", "answered") /\ Off /\ running' = FALSE
    /\ UNCHANGED steps /\ Save
    /\ IdlePage /\ IdleUser /\ UNCHANGED <<loops, lastSteps, enabled, history>>

(* ACTION_RECORDED, after the awaits that precede the switch.  Taken is    *)
(* the guard; the list is read before the thumbnail is awaited.            *)
Taken == enabled /\ recording /\ ~paused
ActionDropped ==
    /\ mail # <<>> /\ ~Taken /\ mail' = Tail(mail)
    /\ IdleUser /\ IdleTests
    /\ UNCHANGED <<memory, tasks, draft, lastSteps, enabled, page, history>>
ActionRead ==
    /\ mail # <<>> /\ Taken /\ Head(mail).shot /\ mail' = Tail(mail)
    /\ tasks' = tasks \union {Task("capture", "sent", Head(mail).act, steps)}
    /\ Forget(accepted \union {Head(mail).act})
    /\ IdleUser /\ IdleTests
    /\ UNCHANGED <<memory, draft, lastSteps, enabled, page, mixed>>
NavigationRecorded ==
    /\ mail # <<>> /\ Taken /\ ~Head(mail).shot /\ mail' = Tail(mail)
    /\ steps' = Insert(steps, Head(mail).act) /\ tab' = TRUE
    /\ UNCHANGED <<recording, paused, tasks>> /\ Save /\ Touch
    /\ Forget(accepted \union {Head(mail).act})
    /\ IdleUser /\ IdleTests /\ UNCHANGED <<lastSteps, enabled, page>>
ActionCaptured ==
    \E t \in tasks :
        /\ t.op = "capture" /\ tasks' = tasks \ {t}
        /\ steps' = Insert(t.base, t.act) /\ tab' = TRUE
        /\ UNCHANGED <<recording, paused>> /\ Save /\ Touch /\ Same
        /\ IdlePage /\ IdleUser /\ IdleTests /\ UNCHANGED <<lastSteps, enabled>>

(* Inputs are alike when they are twins, or twins of inputs that are.      *)
Alike ==
    LET pairs == (1 .. MaxInputs) \X (1 .. MaxInputs) IN
    {t \in pairs : \A R \in SUBSET pairs :
        (/\ Twins \intersect pairs \subseteq R
         /\ \A a \in 1 .. MaxInputs : <<a, a>> \in R
         /\ \A a, b, c \in 1 .. MaxInputs :
               <<a, b>> \in R /\ <<b, c>> \in R => <<a, c>> \in R) => t \in R}
Stands(list, a) == \E b \in list : <<b, a>> \in Alike

(* DELETE_ACTION and, with the panel's own step, the ADD actions.  With a  *)
(* step go the inputs it stands for, of which it is the one that was kept. *)
StandsFor(a) == {b \in accepted \ steps : <<a, b>> \in Alike}
DeleteAction(a) ==
    /\ "delete" \in Commands /\ a \in steps
    /\ steps' = steps \ {a} /\ UNCHANGED <<recording, paused, tab, tasks>>
    /\ Save /\ Touch /\ Forget(accepted \ ({a} \union StandsFor(a)))
    /\ IdlePage /\ IdleTests /\ UNCHANGED <<lastSteps, enabled>>
AddAction ==
    /\ "add" \in Commands /\ NewInput
    /\ steps' = steps \union {inputs'} /\ UNCHANGED <<recording, paused, tab, tasks>>
    /\ Save /\ Touch /\ Forget(accepted \union {inputs'})
    /\ IdlePage /\ IdleTests /\ UNCHANGED <<lastSteps, enabled>>

(* GET_ACTIONS and BUILD_WORKFLOW: an empty list is filled from storage.   *)
RestoreBegins ==
    /\ Free("restore") /\ steps = {}
    /\ tasks' = tasks \union {Task("restore", "sent", 0, lastSteps)}
    /\ IdlePage /\ IdleTests
    /\ UNCHANGED <<memory, draft, lastSteps, enabled, history>>
RestoreEnds ==
    \E t \in tasks :
        /\ t.op = "restore" /\ tasks' = tasks \ {t}
        /\ steps' = IF t.base = {} THEN steps ELSE t.base
        /\ UNCHANGED <<recording, paused, tab>> /\ Touch /\ Same
        /\ IdlePage /\ IdleUser /\ IdleTests /\ UNCHANGED <<draft, lastSteps, enabled>>

(* RUN_TEST_WORKFLOW, RUN_TEST_ACTION: checked, then the active tab is     *)
(* awaited, then the test runs.                                            *)
TestBegins ==
    /\ Free("test") /\ ~running /\ ~recording
    /\ tasks' = tasks \union {At("test", "sent")}
                      \union {Task("restore", "sent", 0, lastSteps) : x \in {{}} \intersect {steps}}
    /\ IdlePage
    /\ UNCHANGED <<memory, running, loops, draft, lastSteps, enabled, history>>
TestRuns ==
    /\ Ends("test", "sent") /\ \A t \in tasks : t.op # "restore"
    /\ \/ running' = TRUE /\ loops' = loops + 1
       \/ UNCHANGED <<running, loops>>
    /\ IdlePage /\ IdleUser
    /\ UNCHANGED <<memory, draft, lastSteps, enabled, history>>
TestEnds ==
    /\ loops > 0 /\ loops' = loops - 1 /\ running' = FALSE
    /\ IdlePage /\ IdleUser
    /\ UNCHANGED <<memory, tasks, draft, lastSteps, enabled, history>>

(* The page has loaded again: the worker restarts its recorder.            *)
SyncContentRecorder ==
    /\ recording /\ tab /\ PageStarts(paused)
    /\ IdleTests
    /\ UNCHANGED <<memory, tasks, draft, lastSteps, enabled, restarts, presses, history>>

(* The worker is terminated and starts again from the draft.  Inputs whose *)
(* picture is awaited go with it, and what had been mixed before is past.  *)
Empty == [recording |-> FALSE, paused |-> FALSE, steps |-> {}, tab |-> FALSE]
HydratedEmpty == [recording |-> draft # NoDraft, paused |-> FALSE, steps |-> {},
                  tab |-> draft # NoDraft]
Hydrated == IF draft = NoDraft THEN Empty ELSE draft
StartsWith(state) ==
    /\ recording' = state.recording /\ paused' = state.paused
    /\ steps' = state.steps /\ tab' = state.tab
    /\ tasks' = {} /\ running' = FALSE /\ loops' = 0
    /\ mixed' = FALSE /\ overtaken' = FALSE
Restart ==
    /\ Lost /\ StartsWith(Hydrated)
    /\ accepted' = (IF recording /\ ~mixed THEN accepted \ {t.act : t \in tasks}
                    ELSE Hydrated.steps)
    /\ IdlePage /\ UNCHANGED <<draft, lastSteps, enabled, inputs, presses>>

(* The extension is reloaded: the draft, in the session's storage, is gone *)
(* with the worker, and the recorder in the page is cut off; what is in    *)
(* local storage stays.                                                    *)
Reload ==
    /\ StartsWith(Empty) /\ draft' = NoDraft /\ accepted' = {}
    /\ page' = NoRecorder /\ mail' = <<>>
    /\ UNCHANGED <<lastSteps, enabled, counters>>

-----------------------------------------------------------------------------
Page == HandleInput \/ FlushFill \/ HandleClick \/ HandleNavigation \/ LeavePage
        \/ SyncContentRecorder
(* messagePolicy.ts: what the disabled extension refuses.  (Of the tests,  *)
(* RUN_TEST_WORKFLOW_FROM is missing there, so a test may start.)          *)
PanelMessage ==
    \/ enabled /\ (StartBegins \/ \E op \in {"pause", "resume"} : PauseBegins(op))
    \/ StopBegins \/ ClearBegins \/ ImportBegins \/ RestoreBegins \/ TestBegins
    \/ Enable \/ DisableBegins \/ \E a \in steps : DeleteAction(a)
Panel == /\ Within /\ presses' = presses + 1 /\ UNCHANGED restarts
         /\ ((PanelMessage /\ UNCHANGED inputs) \/ AddAction)
Worker == \/ StartDelivered \/ StartSaved \/ StartFails
          \/ StopDelivered \/ StopBuilds \/ StopClears
          \/ \E op \in {"pause", "resume"} : PauseDelivered(op) \/ PauseSaved(op)
          \/ ClearDelivered \/ ClearForgets \/ ClearEnds
          \/ ImportDelivered \/ ImportReplaces \/ ImportSaved
          \/ DisableDelivered \/ DisableEnds
          \/ ActionDropped \/ ActionRead \/ ActionCaptured \/ NavigationRecorded
          \/ RestoreEnds \/ TestRuns \/ TestEnds
Next == Page \/ Panel \/ Worker \/ Restart
Spec == Init /\ [][Next]_vars

-----------------------------------------------------------------------------
Numbers == SUBSET (1 .. MaxInputs)
TaskType == {t \in [op : Ops, pc : {"sent", "answered", "storing"},
                    act : 0 .. MaxInputs, base : Numbers] :
                t.op = "capture" => t.act # 0}
DraftType == [recording : BOOLEAN, paused : BOOLEAN, steps : Numbers, tab : BOOLEAN]
PageType == [recording : BOOLEAN, paused : BOOLEAN, pending : 0 .. MaxInputs,
             queue : Numbers]
MailType == Seq([act : 1 .. MaxInputs, shot : BOOLEAN])
TypeOK ==
    /\ recording \in BOOLEAN /\ paused \in BOOLEAN /\ tab \in BOOLEAN
    /\ steps \in Numbers /\ lastSteps \in Numbers /\ accepted \in Numbers
    /\ tasks \subseteq TaskType
    /\ running \in BOOLEAN /\ loops \in Nat
    /\ draft \in {NoDraft} \union DraftType /\ enabled \in BOOLEAN
    /\ page \in PageType /\ mail \in MailType
    /\ inputs \in 0 .. MaxInputs /\ restarts \in 0 .. MaxRestarts
    /\ presses \in 0 .. MaxEvents
    /\ mixed \in BOOLEAN /\ overtaken \in BOOLEAN

(* A worker that is terminated while it records, with no start, pause or   *)
(* resume on its way, finds the recording as it was, whatever was pressed, *)
(* recorded, switched or restarted before.  Three things escape it: a      *)
(* recording begun while the end of the one before removes its draft; the  *)
(* steps just after they were tidied or taken back from the last list      *)
(* built, which is stored but not saved as the draft (they are that list   *)
(* then); and a list that one handler assigned over another's.             *)
RecordingSurvives ==
    recording /\ ~overtaken
              /\ (\A t \in tasks : t.op \notin {"start", "pause", "resume"})
    => /\ draft # NoDraft
       /\ draft.recording /\ draft.paused = paused
       /\ draft.steps = steps \/ steps = lastSteps \/ mixed

(* What the worker took into a recording is recorded, through edits,       *)
(* restored and tidied lists, pauses and restarts of the worker, as long   *)
(* as no handler assigned a list it had read before another changed it.    *)
(* Of inputs that are alike, one is enough.  (Not taken is what reaches    *)
(* the worker when it is paused: among it the fill that waited in the page *)
(* when the pause began, which the page sends only then.)                  *)
SpacedInputsKept ==
    recording /\ ~mixed /\ Rewriting = {} => \A a \in accepted : Stands(steps, a)
=============================================================================
