---------------------------- MODULE RecordedStep ----------------------------
(***************************************************************************)
(* One recorded step on a page that is redrawn meanwhile: a click, an act  *)
(* on an element (fill, hover, press, upload, download, screenshot), the   *)
(* choice of an option, or the ticking of the first rows that are free.    *)
(* It is carried out by a runner: the helpers of one of the generated      *)
(* flows, the code the compiler writes today, or the replay of the         *)
(* extension (Runners).                                                    *)
(*                                                                         *)
(* A locator is looked up again each time it is used.  What a step found   *)
(* shown is not what its click reaches if the page changed in between; a   *)
(* click may also reach the page and be reported as failed.                *)
(***************************************************************************)
EXTENDS ElementSearch

CONSTANTS Runners,      \* the ways to carry out a step, records of Runners.tla
          Scenes,       \* steps, each with a page it may meet, as first drawn, and runners
          Items         \* of a page

Runner == [search : {"once", "fields", "passes", "ranked", "queries", "points"},
           ordinals : {"step", "own"}, clicks : Nat \ {0}, aria : BOOLEAN,
           match : {"substring", "prefix", "exactFirst", "words", "exactOrWords"},
           recalls : {"no", "first", "last"}, verified : BOOLEAN,
           form : BOOLEAN, rows : {"no", "clicked", "ensured", "held"}, looks : BOOLEAN,
           address : {"text", "either", "both"}, entity : {"unknown", "match", "skips"},
           visible : {"looks", "clicks"}, again : {"step", "whole"}, guards : BOOLEAN]
Replays(r) == r.search \in {"queries", "points"}

(* Only the extension clicks to find out whether something is visible, and *)
(* holds the rows it has read; it looks at no ARIA state, and for options  *)
(* by their text.                                                          *)
ASSUME RunnersAssumption ==
    /\ Runners \subseteq Runner
    /\ \A r \in Runners : IF Replays(r) THEN ~r.aria /\ r.recalls = "no" ELSE r.visible = "looks" /\ r.rows # "held"

ASSUME ItemsAssumption == Items \subseteq Nat \ {0} /\ IsFiniteSet(Items)

(* Recorder and hardener give the candidates of a step the anchor of the   *)
(* step; the built-in flow knows no anchors.                               *)
Recording(l) ==
    /\ l.anchor \in BOOLEAN /\ l.nth \in Nat
    /\ l.candidates \in Seq([kind : Kinds, anchor : {l.anchor}, nth : Nat])
    /\ l.seen \in [DOMAIN l.candidates -> Diagnostics]
PageOf(p) == /\ p.box \in [Items -> Nat] /\ p.on \in [Items -> BOOLEAN]
             /\ p.options \subseteq Items /\ p.native \in BOOLEAN /\ p.changes \in Nat
ASSUME ScenesAssumption ==
    \A s \in Scenes : /\ Recording(s.step.find) /\ PageOf(s.page) /\ s.drawn \in [Items -> Drawn]
                      /\ s.step.kind \in {"click", "act", "select", "rows"} /\ s.step.retries \in Nat
                      /\ s.step.choices \in Seq(Kinds) /\ (s.step.form # "no" => s.step.choices = <<>>)
                      /\ s.runners \subseteq Runners
                      /\ \A r \in s.runners : r.search = "fields" => ~s.step.find.anchor

VARIABLES runner, step, page,      \* what runs, and where
          search,                  \* the stages of its search for the element
          drawn, on, value,        \* of the items: drawn, checked; the option chosen
          redraws,
          pc, tries, stage, k,     \* the place in the step, its attempt, the place in its search
          clicks,                  \* tries of this attempt to click
          told, row,               \* selectedValues; the row whose value was read
          spot,                    \* the item whose place a trusted click aims at
          moved,                   \* the page changed since that was read
          acted,                   \* items clicked
          steady,                  \* what the first choice of this search meant and means still
          sure                     \* nothing slipped between a look and its click, which was heeded

scene == <<runner, step, page, search>>
world == <<drawn, on, value, redraws>>
place == <<pc, tries, stage, k, clicks>>
rows == <<told, row>>
aim == <<spot, moved>>
ghosts == <<acted, steady, sure>>
vars == <<scene, world, place, rows, aim, ghosts>>

Over == {"done", "skipped", "account", "continued", "failed"}

(* The stages of a search: what is tried in which order, whether again and *)
(* again until the time is up, whether by resolveSelector.                 *)
Stage(ways, again, ranked) == [ways |-> ways, again |-> again, ranked |-> ranked]
BoxFirst(l) == IF l.checkbox /\ l.anchor THEN <<Stage(<<Way("checkbox", TRUE, 0)>>, TRUE, FALSE)>>
               ELSE <<>>

Stages(r, l) ==
    CASE r.search = "once" -> <<Stage(PlainWays(l), FALSE, FALSE)>>
      [] r.search = "fields" -> <<Stage(FieldWays(l), FALSE, FALSE)>>
      [] r.search = "passes" -> BoxFirst(l) \o <<Stage(PlainWays(l), TRUE, FALSE)>>
      [] r.search = "ranked" -> BoxFirst(l) \o <<Stage(Plan(l), FALSE, TRUE),
                                                 Stage(HealingWays(l, r.ordinals), TRUE, FALSE)>>
      [] OTHER -> <<Stage(ReplayWays(l), TRUE, FALSE)>>

(* A select of a form that goes by the label of its row (Sydney).          *)
FormWay == Way("control", TRUE, 0)
Search(r, s) == IF s.form # "no" THEN <<Stage(<<FormWay>>, TRUE, FALSE)>> ELSE Stages(r, s.find)

Found(d, w) == IF Replays(runner) THEN Queried(page, d, w) ELSE Located(page, d, w)
S == search[stage]
W == S.ways[k]
InSight == k \in DOMAIN S.ways /\ Shown(drawn, Found(drawn, W))
FirstChoice(d) == IF 1 \in DOMAIN search[1].ways /\ Shown(d, Found(d, search[1].ways[1]))
                  THEN Found(d, search[1].ways[1]) ELSE 0

Init == \E s \in Scenes : \E r \in s.runners :
    /\ runner = r /\ step = s.step /\ page = s.page /\ search = Search(r, s.step)
    /\ s.step.kind = "rows" => r.rows # "no"
    /\ s.step.form # "no" => r.form
    /\ drawn = s.drawn /\ on = s.page.on /\ value = 0 /\ redraws = 0
    /\ pc = "guard" /\ tries = 0 /\ stage = 1 /\ k = 1 /\ clicks = 1
    /\ told = {} /\ row = 0 /\ spot = 0 /\ moved = FALSE
    /\ acted = {} /\ steady = 0 /\ sure = TRUE

To(p) == pc' = p /\ UNCHANGED <<tries, stage, k, clicks>>

(* The step begins, or looks again.                                        *)
Begin(n) ==
    /\ stage' = 1 /\ k' = 1 /\ clicks' = n /\ row' = 0 /\ spot' = 0 /\ moved' = FALSE
    /\ pc' = IF step.kind = "rows" THEN "rows" ELSE "search"
    /\ steady' = IF step.kind = "rows" THEN 0 ELSE FirstChoice(drawn)

ToGuard == /\ pc' = "guard" /\ stage' = 1 /\ k' = 1 /\ clicks' = 1
           /\ row' = 0 /\ spot' = 0 /\ moved' = FALSE /\ steady' = 0

(* An attempt failed.  A flow repeats what is inside executeRecordedStep,  *)
(* the extension the whole step with its condition.                        *)
AttemptFails ==
    /\ told' = {}
    /\ IF tries < step.retries
       THEN tries' = tries + 1 /\ IF runner.again = "whole" THEN ToGuard ELSE Begin(1)
       ELSE /\ pc' = (IF step.continues THEN "continued" ELSE "failed")
            /\ UNCHANGED <<tries, stage, k, clicks, row, aim, steady>>
-----------------------------------------------------------------------------
(* The condition of a step, read once before it is carried out.            *)
Passes(p) == To(p) /\ UNCHANGED <<scene, world, rows, aim, ghosts>>

AddressTold == CASE runner.address = "text" -> page.says
                 [] runner.address = "either" -> page.says \/ page.knows
                 [] runner.address = "both" -> page.says /\ page.knows

LookedFor == CASE Replays(runner) -> ReplayWays(step.find)
               [] runner.search = "ranked" -> Ways(FlowOrder, step.find, step.find.anchor, step.find.nth)
               [] OTHER -> PlainWays(step.find)
LooksVisible == \E n \in DOMAIN LookedFor : Shown(drawn, Found(drawn, LookedFor[n]))

(* The predicate of a guard, over url, texts and fields.                   *)
Predicate == page.says

(* An entity is on the page or not, and the step says what follows: it is  *)
(* passed over, or the account is, or nothing.                             *)
EntityVerdict == CASE runner.entity = "skips" -> "skipped"
                   [] runner.entity = "match" -> IF page.says THEN step.matched ELSE step.missing
                   [] OTHER -> "ahead"

SkipStep ==
    \/ step.cond = "textExistsSkip" /\ page.says
    \/ step.cond = "guard" /\ runner.guards /\ ~Predicate /\ step.otherwise = "skipped"
    \/ step.cond = "entityStateGuard" /\ EntityVerdict = "skipped"
    \/ step.cond = "elementVisibleClick" /\ runner.visible = "looks" /\ ~LooksVisible
    \/ step.cond = "fieldEmptyFill" /\ IF Replays(runner) THEN LooksVisible /\ page.filled
                                                          ELSE LooksVisible => page.filled
    \/ step.cond = "addressAlreadyExistsSkipAccount" /\ Replays(runner) /\ AddressTold

SkipAccount ==
    \/ step.cond = "addressAlreadyExistsSkipAccount" /\ ~Replays(runner) /\ AddressTold
    \/ step.cond = "guard" /\ runner.guards /\ ~Predicate /\ step.otherwise = "account"
    \/ step.cond = "entityStateGuard" /\ EntityVerdict = "account"

(* A trusted test looks at the condition of a rows step only.              *)
Looks == runner.looks \/ step.kind = "rows"

PassOver == /\ pc = "guard" /\ Looks
            /\ \/ SkipStep /\ Passes("skipped")
               \/ SkipAccount /\ Passes("account")

GuardClicks == /\ Looks /\ step.cond = "elementVisibleClick" /\ runner.visible = "clicks"
               /\ "css" \in step.find.kinds
               /\ Shown(drawn, Located(page, drawn, Way("css", FALSE, 0)))

GoAhead == /\ pc = "guard"
           /\ ~(Looks /\ (SkipStep \/ SkipAccount))
           /\ Begin(1) /\ told' = {} /\ UNCHANGED <<scene, drawn, value, redraws, tries, sure>>
           /\ IF GuardClicks
              THEN LET i == Located(page, drawn, Way("css", FALSE, 0))
                   IN  on' = [on EXCEPT ![i] = ~on[i]] /\ acted' = acted \cup {i}
              ELSE UNCHANGED <<on, acted>>
-----------------------------------------------------------------------------
(* The search of a flow: one way after the other, each for a while.        *)
Find == /\ pc = "search" /\ ~Replays(runner)
        /\ InSight /\ ~(S.ranked /\ W.nth > 0)
        /\ To("found") /\ UNCHANGED <<scene, world, rows, aim, ghosts>>

(* resolveSelector applies the number of a match twice: to a locator that  *)
(* stands for one element already.                                         *)
TryNext ==
    /\ pc = "search" /\ ~Replays(runner)
    /\ \/ ~InSight /\ k < Len(S.ways) /\ k' = k + 1 /\ stage' = stage
       \/ ~InSight /\ k >= Len(S.ways) /\ S.again /\ k' = 1 /\ stage' = stage
       \/ /\ IF InSight THEN S.ranked /\ W.nth > 0 ELSE k >= Len(S.ways)
          /\ stage < Len(search) /\ stage' = stage + 1 /\ k' = 1
    /\ UNCHANGED <<scene, world, pc, tries, clicks, rows, aim, ghosts>>

GiveUp == /\ pc = "search"
          /\ IF Replays(runner) THEN \A n \in DOMAIN S.ways : Found(drawn, S.ways[n]) = 0
             ELSE k >= Len(S.ways) /\ stage = Len(search) /\ ~InSight
          /\ AttemptFails /\ UNCHANGED <<scene, world, acted, sure>>

(* The replay finds and clicks in one go; a trusted test is told a place,  *)
(* and clicks what is there by then.                                       *)
HitAny(n) == n \in DOMAIN S.ways /\ Found(drawn, S.ways[n]) # 0
Hit(n) == /\ Found(drawn, S.ways[n]) # 0
          /\ \A j \in 1..(n - 1) : Found(drawn, S.ways[j]) = 0
ReplayFinds == \E n \in DOMAIN S.ways :
    /\ pc = "search" /\ Replays(runner) /\ Hit(n)
    /\ To("found") /\ spot' = Found(drawn, S.ways[n]) /\ moved' = FALSE
    /\ UNCHANGED <<scene, world, rows, ghosts>>
-----------------------------------------------------------------------------
(* What a click meant for what the step found may reach, 0 for nothing.    *)
Reached == CASE ~Replays(runner) -> {IF Shown(drawn, Found(drawn, W)) THEN Found(drawn, W) ELSE 0}
             [] runner.search = "queries" -> {spot}
             [] OTHER -> IF moved THEN {0} \cup In(drawn, {"shown"}) ELSE {spot}

(* The ARIA state that was recorded is there already: no click.            *)
AsRecordedAtFirst(i) == clicks = 1 /\ page.exposed /\ i # 0 /\ on[i] = (step.aria = "on")
AsRecorded(i) == page.exposed /\ i # 0 /\ on[i] = (step.aria = "on")

LookAria ==
    /\ pc = "found" /\ step.kind = "click" /\ step.aria # "no" /\ runner.aria
    /\ To(IF AsRecorded(Found(drawn, W)) THEN "done" ELSE "click")
    /\ UNCHANGED <<scene, world, rows, aim, ghosts>>

(* A fill, hover, press, upload, download or screenshot.                   *)
ActsDirectly == pc = "found" /\ step.kind = "act"

ToClick == \/ pc = "click"
           \/ pc = "found" /\ step.kind = "click" /\ (step.aria = "no" \/ ~runner.aria)
           \/ ActsDirectly

Toggle(i) == /\ on' = IF i = 0 \/ step.kind = "act" THEN on ELSE [on EXCEPT ![i] = ~on[i]]
             /\ acted' = acted \cup ({i} \ {0})

Click ==
    /\ ToClick
    /\ \E i \in Reached : (i # 0 \/ runner.search = "points") /\ Toggle(i)
    /\ To("done") /\ UNCHANGED <<scene, drawn, value, redraws, rows, aim, steady, sure>>

(* Nothing to click, a click that something else caught, or one that       *)
(* reached its element and tells of a timeout.  Three tries in all where   *)
(* the helper has that loop.                                               *)
ClickFails ==
    /\ ToClick /\ ~Replays(runner) /\ \E i \in Reached \cup {0} : Toggle(i)
    /\ IF step.kind = "click" /\ clicks < runner.clicks THEN Begin(clicks + 1) /\ UNCHANGED <<told, tries>>
       ELSE AttemptFails
    /\ UNCHANGED <<scene, drawn, value, redraws, sure>>
-----------------------------------------------------------------------------
(* The popup of a select shows some of its options, and draws the rest.    *)
Holding == {"exact", "longer"}
Matching == {"exact", "longer", "words"}
Offered(relations) == {i \in page.options : drawn[i] = "shown" /\ page.reads[i] \in relations}
Exact(d) == Nth({i \in page.options : d[i] = "shown" /\ page.reads[i] = "exact"}, 0)

(* A native select needs no popup: an option by its label, or by its value,*)
(* and nothing is looked at afterwards.                                    *)
Native == page.native /\ runner.search \in {"ranked", "queries"} /\ step.form = "no"
FirstOffered(relations) == Nth(Offered(relations), 0)
NativeOption ==
    IF Replays(runner)
    THEN IF Offered({"exact", "coded"}) # {} THEN FirstOffered({"exact", "coded"}) ELSE FirstOffered(Holding)
    ELSE IF Exact(drawn) # 0 THEN Exact(drawn) ELSE FirstOffered({"coded"})

SelectNative ==
    /\ pc = "found" /\ step.kind = "select" /\ Native /\ Reached # {0} /\ NativeOption # 0
    /\ value' = NativeOption /\ steady' = Exact(drawn)
    /\ To("done") /\ UNCHANGED <<scene, drawn, on, redraws, rows, aim, acted, sure>>

Open ==
    /\ pc = "found" /\ step.kind = "select" /\ ~Native
    /\ \E i \in Reached :
          /\ i # 0 \/ runner.search = "points"
          /\ acted' = acted \cup ({i} \ {0})
          /\ drawn' = [j \in Items |-> IF j \in page.offers /\ i \notin {0} \cup page.options
                                        THEN "shown" ELSE drawn[j]]
    /\ steady' = Exact(drawn')
    /\ pc' = "choose" /\ k' = 1 /\ UNCHANGED <<tries, stage, clicks>>
    /\ UNCHANGED <<scene, on, value, redraws, rows, aim, sure>>

OpenFails == /\ pc = "found" /\ step.kind = "select"
             /\ Replays(runner) => Native /\ NativeOption = 0
             /\ AttemptFails /\ UNCHANGED <<scene, world, acted, sure>>

(* The option for the text that is wanted, a text of more than one word.   *)
FirstHolding ==
    LET i == Nth({j \in page.options : drawn[j] # "gone" /\ page.reads[j] \in Holding}, 0)
    IN  IF Shown(drawn, i) THEN i ELSE 0
ExactElse(relations) == IF Exact(drawn) # 0 THEN Exact(drawn) ELSE Nth(Offered(relations), 0)
OptionByText == CASE runner.match = "substring" -> FirstHolding
                  [] runner.match = "prefix" -> Nth(Offered(Holding), 0)
                  [] runner.match = "exactFirst" -> ExactElse({"longer"})
                  [] runner.match = "words" -> Nth(Offered(Matching), 0)
                  [] runner.match = "exactOrWords" -> ExactElse(Matching)

(* The candidates recorded of the option, in the order of their search:    *)
(* before the text, or after it.  Each stands for the first option in the  *)
(* popup that answers, whatever it reads.                                  *)
Recalled == CASE runner.recalls = "first" -> k
              [] runner.recalls = "last" -> k - 1
              [] runner.recalls = "no" -> 0
ByCandidate == Recalled \in DOMAIN step.choices
OptionRecalled ==
    LET kind == step.choices[Recalled]
        i == Nth({j \in page.options : /\ drawn[j] \in IF kind = "role" THEN {"shown"} ELSE {"hidden", "shown"}
                                       /\ kind \in page.recalled[j]}, 0)
    IN  IF Shown(drawn, i) THEN i ELSE 0

OptionAsListed == IF runner.match = "substring" THEN FirstHolding ELSE Nth(Offered(Matching), 0)
Option == IF ByCandidate THEN OptionRecalled ELSE OptionByText

(* One candidate after the other, again and again for a while.             *)
FirstRecalled == IF runner.recalls = "last" THEN 2 ELSE 1
NextRecalled ==
    /\ pc = "choose" /\ runner.recalls # "no" /\ k <= Len(step.choices) /\ Option = 0
    /\ k' \in {k + 1, FirstRecalled}
    /\ UNCHANGED <<scene, world, pc, tries, stage, clicks, rows, aim, ghosts>>

(* Where options are counted or a place is clicked, the option is one step *)
(* ahead of its click.                                                     *)
Aims == runner.match = "words" \/ runner.search = "points"
Aim == /\ pc = "choose" /\ Aims /\ Option # 0
       /\ spot' = Option /\ moved' = FALSE /\ To("aimed")
       /\ UNCHANGED <<scene, world, rows, ghosts>>

(* The page may take no notice of a click.                                 *)
Choose ==
    /\ \/ pc = "choose" /\ ~Aims /\ Option # 0 /\ value' \in {Option, value}
       \/ pc = "aimed" /\ value' \in {value} \cup (IF moved THEN In(drawn, {"shown"}) \cap page.options
                                                   ELSE {spot})
    /\ sure' = (sure /\ value' = Option)
    /\ To(IF step.form = "guessed" THEN "done" ELSE "verify")
    /\ UNCHANGED <<scene, drawn, on, redraws, rows, aim, acted, steady>>

(* Without a match, the form of the Sydney flow takes what the keys give.  *)
Guess == /\ pc = "choose" /\ step.form # "no" /\ Option = 0
         /\ value' \in {value} \cup Offered({"exact", "longer", "words", "other"})
         /\ To(IF step.form = "guessed" THEN "done" ELSE "verify")
         /\ UNCHANGED <<scene, drawn, on, redraws, rows, aim, ghosts>>

(* The built-in flow types what it did not find, or could not click, and   *)
(* looks once more.                                                        *)
Retype == /\ pc = "choose" /\ runner.match = "prefix" /\ clicks = 1 /\ clicks' = 2
          /\ UNCHANGED <<scene, world, pc, tries, stage, k, rows, aim, ghosts>>

NoOption == /\ pc = "choose" /\ step.form = "no" /\ Option = 0 /\ (runner.match = "prefix" => clicks = 2)
            /\ runner.recalls # "no" => k > Len(step.choices)
            /\ AttemptFails /\ UNCHANGED <<scene, world, acted, sure>>

Applied == value # 0 /\ page.reads[value] \in Matching
SelectDone == /\ pc = "verify" /\ (runner.verified => Applied)
              /\ To("done") /\ UNCHANGED <<scene, world, rows, aim, ghosts>>

(* The form is tried three times, a select once per attempt.               *)
NotApplied ==
    /\ pc = "verify" /\ runner.verified /\ ~Applied
    /\ IF step.form # "no" /\ clicks < 3
       THEN /\ pc' = "choose" /\ clicks' = clicks + 1
            /\ UNCHANGED <<tries, stage, k, rows, aim, steady>>
       ELSE AttemptFails
    /\ UNCHANGED <<scene, world, acted, sure>>
-----------------------------------------------------------------------------
(* selectRows: the rows in their order, pass after pass.                   *)
RowAt(n) == Nth(In(drawn, {"hidden", "shown"}), n - 1)
Free(i) == drawn[i] = "shown" /\ i \notin page.taken /\ i \notin told
Full == Cardinality(told) = step.count

RowPassed == /\ pc = "rows" /\ ~Full /\ RowAt(k) # 0 /\ ~Free(RowAt(k)) /\ k' = k + 1
             /\ UNCHANGED <<scene, world, pc, tries, stage, clicks, rows, aim, ghosts>>

RowRead == /\ pc = "rows" /\ ~Full /\ RowAt(k) # 0 /\ Free(RowAt(k))
           /\ row' = RowAt(k) /\ To("tick") /\ UNCHANGED <<scene, world, told, aim, ghosts>>

(* The box that is ticked is the one in the row of that number by then;    *)
(* the replay holds the element itself.                                    *)
Ticked == IF runner.rows = "held" THEN row ELSE RowAt(k)
TellsAnyhow(ticked) == ticked \in BOOLEAN
Tells(ticked) == ticked \/ runner.rows = "clicked"

Tick == \E ticked \in BOOLEAN :
    /\ pc = "tick" /\ Ticked # 0 /\ (on[Ticked] => ticked) /\ (Ticked \in page.taken => ticked = on[Ticked])
    /\ on' = [on EXCEPT ![Ticked] = ticked]
    /\ told' = IF Tells(ticked) THEN told \cup {row} ELSE told
    /\ sure' = (sure /\ (runner.rows = "clicked" => ticked))
    /\ pc' = "rows" /\ k' = k + 1 /\ row' = 0
    /\ UNCHANGED <<scene, drawn, value, redraws, tries, stage, clicks, aim, acted, steady>>

TickFails == /\ pc = "tick" /\ runner.rows # "held"
             /\ AttemptFails /\ UNCHANGED <<scene, world, acted, sure>>

PassEnds == /\ pc = "rows" /\ ~Full /\ RowAt(k) = 0 /\ k' = 1
            /\ UNCHANGED <<scene, world, pc, tries, stage, clicks, rows, aim, ghosts>>

RowsEnd == /\ pc = "rows" /\ (Full \/ RowAt(k) = 0)
           /\ IF Cardinality(told) >= step.atLeast
              THEN To("done") /\ UNCHANGED <<rows, aim, steady>>
              ELSE AttemptFails
           /\ UNCHANGED <<scene, world, acted, sure>>
-----------------------------------------------------------------------------
(* The page draws, hides or removes something.  The replay of the          *)
(* extension holds the page from its look to its click.                    *)
Means(d) == IF pc \in {"choose", "aimed", "verify"} THEN Exact(d) ELSE FirstChoice(d)

Redraw == \E i \in Items, state \in Drawn :
    /\ pc \notin Over \cup {"guard"} /\ redraws < page.changes /\ state # drawn[i]
    /\ ~(runner.search = "queries" /\ pc = "found")
    /\ i \in page.options => pc \in {"choose", "aimed", "verify"}
    /\ drawn' = [drawn EXCEPT ![i] = state] /\ redraws' = redraws + 1 /\ moved' = TRUE
    /\ steady' = IF steady # 0 /\ Means(drawn') = steady THEN steady ELSE 0
    /\ sure' = (sure /\ (pc \in {"click", "tick"} => runner.rows = "held"))
    /\ UNCHANGED <<scene, on, value, place, rows, spot, acted>>

Rest == pc \in Over /\ UNCHANGED vars

Next == \/ PassOver \/ GoAhead \/ Find \/ TryNext \/ GiveUp \/ ReplayFinds
        \/ LookAria \/ Click \/ ClickFails
        \/ SelectNative \/ Open \/ OpenFails \/ NextRecalled \/ Aim \/ Choose \/ Guess \/ Retype \/ NoOption \/ SelectDone \/ NotApplied
        \/ RowPassed \/ RowRead \/ Tick \/ TickFails \/ PassEnds \/ RowsEnd
        \/ Redraw \/ Rest

Spec == Init /\ [][Next]_vars
-----------------------------------------------------------------------------
(* Properties.                                                             *)

Item == Items \cup {0}

\* Every variable keeps its type: what a step looks at, chooses and acts on are
\* items of the page, and a search is in one of its stages.
TypeOK ==
    /\ runner \in Runners
    /\ drawn \in [Items -> Drawn] /\ on \in [Items -> BOOLEAN] /\ value \in Item /\ redraws \in Nat
    /\ pc \in {"guard", "search", "found", "click", "choose", "aimed", "verify", "rows", "tick"} \cup Over
    /\ tries \in Nat /\ stage \in 1..Len(search) /\ k \in Nat \ {0} /\ clicks \in Nat \ {0}
    /\ told \subseteq Items /\ row \in Item
    /\ spot \in Item /\ moved \in BOOLEAN
    /\ acted \subseteq Items /\ steady \in Item /\ sure \in BOOLEAN

\* A flow that looks in the row of its anchor never acts on anything outside of
\* a row with the anchor's text, whatever is drawn or gone meanwhile and however
\* often it repeats (findAnchoredCheckbox, resolveAnchorScope).  The replay of the
\* extension falls back to the whole page.
ActsOnTheAnchored ==
    ~Replays(runner) /\ step.find.anchor => \A i \in acted : page.box[i] \in page.named

\* As long as the first choice of a search stays the same element, shown, a flow
\* neither acts on another one nor gives its search up, through all candidates,
\* stages and rounds.  Not so when resolveSelector comes first and its first
\* choice is a match by number, which it applies twice, nor for a place on the
\* page that is clicked.
FirstChoiceWins ==
    [][/\ steady # 0 /\ step.kind \in {"click", "act"} /\ runner.search # "points"
       /\ ~(search[1].ranked /\ search[1].ways[1].nth > 0)
       => /\ acted' \subseteq acted \cup {steady}
          /\ ~(pc = "search" /\ pc' \in {"failed", "continued"})]_vars

\* A toggle that tells its state is left as it was recorded, also when a click that
\* was reported as failed had come through, and the step looked again.
ToggleAsRecorded ==
    /\ pc = "done" /\ step.kind = "click" /\ step.aria # "no" /\ runner.aria
    /\ page.exposed /\ sure
    => \A i \in acted : on[i] = (step.aria = "on")

\* A runner that looks for the exact text of an option before others takes that
\* option, although a longer one or one with the same words is listed before it,
\* when it stays on the list.  Not so where a recorded candidate answers to another
\* option: the flows take what it stands for, whatever it reads; and the replay
\* takes an option of a native select by its value just as well.
NoOtherRecalled ==
    runner.recalls # "no" =>
        \A i \in page.options, n \in DOMAIN step.choices : step.choices[n] \in page.recalled[i] => i = steady
ExactOptionWins ==
    /\ pc = "done" /\ step.kind = "select" /\ steady # 0 /\ sure
    /\ runner.match \in {"exactFirst", "exactOrWords"}
    /\ NoOtherRecalled /\ ~(Native /\ Replays(runner))
    => value = steady

\* The rows a step tells of are ticked, and no others are that were not before,
\* unless an attempt failed after it had ticked some, or the step's condition was
\* one that clicks.
RowsTold ==
    /\ pc = "done" /\ step.kind = "rows" /\ sure
    => /\ \A i \in told : on[i]
       /\ tries = 0 => \A i \in Items : on[i] => i \in told \cup acted \/ page.on[i]
=============================================================================
