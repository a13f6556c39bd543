---------------------------- MODULE ElementSearch ---------------------------
(***************************************************************************)
(* How the element of a recorded step is found on a page: by Playwright    *)
(* locators in the flows, by queries of the document in the replay of the  *)
(* extension.  A page is read at one moment; RecordedStep says in which    *)
(* order a search reads it, and what may change in between.                *)
(*                                                                         *)
(* The items of a page are numbered in the order of the document.  A page  *)
(* has                                                                     *)
(*   box      the row or form row an item stands in, 0 for none,           *)
(*   named    the boxes whose text holds the text of the step's anchor,    *)
(*   answers  the kinds of selector of the step an item answers to,        *)
(*   outer    those that begin outside of the item's box;                  *)
(* a drawing d says of each item whether it is gone, hidden or shown.  A   *)
(* box is in the document when one of its items is.                        *)
(***************************************************************************)
EXTENDS Integers, Sequences, FiniteSets

Kinds == {"role", "label", "text", "testId", "css", "xpath"}
Drawn == {"gone", "hidden", "shown"}

(* A way to look for the element: a kind of selector, inside the anchor's  *)
(* box or not, and which of the matches is meant (0: the first).           *)
Way(kind, anchor, nth) == [kind |-> kind, anchor |-> anchor, nth |-> nth]

Nth(S, n) == IF Cardinality(S) <= n THEN 0
             ELSE CHOOSE i \in S : Cardinality({j \in S : j < i}) = n

In(d, states) == {i \in DOMAIN d : d[i] \in states}
Shown(d, i) == i # 0 /\ d[i] = "shown"

(* The items of the first box in the document that has the anchor's text.  *)
Inside(p, d, states) ==
    LET first == Nth({p.box[i] : i \in In(d, states)} \cap p.named, 0)
    IN  {i \in DOMAIN d : first # 0 /\ p.box[i] = first}

(* A box that is not there is no reason to look on the whole page.         *)
ScopeOrPage(p, d, w) ==
    IF w.anchor /\ Inside(p, d, {"hidden", "shown"}) # {}
    THEN Inside(p, d, {"hidden", "shown"}) ELSE DOMAIN d

Scope(p, d, w) == IF w.anchor THEN Inside(p, d, {"hidden", "shown"}) ELSE DOMAIN d

(* A locator stands for a match in the document, shown or not; a role, or  *)
(* the checkbox of a row, has what is shown; a path finds nothing in a box *)
(* it does not begin in.                                                   *)
Located(p, d, w) ==
    IF w.anchor /\ w.kind \in p.outer THEN 0
    ELSE Nth({i \in Scope(p, d, w) : /\ d[i] \in IF w.kind \in {"role", "checkbox"} THEN {"shown"} ELSE {"hidden", "shown"}
                                     /\ w.kind \in p.answers[i]}, w.nth)

(* A query of the replay looks in the first such box that is shown.  It    *)
(* takes what can be clicked: the only match, or the one of the recorded   *)
(* number.                                                                 *)
QueryScope(p, d, w) == IF w.anchor THEN Inside(p, d, {"shown"}) ELSE DOMAIN d
Queried(p, d, w) ==
    LET found == {i \in QueryScope(p, d, w) : d[i] = "shown" /\ w.kind \in p.answers[i]}
    IN  IF Cardinality(found) = 1 THEN Nth(found, 0) ELSE Nth(found, w.nth)

(* What was recorded: the step's own selectors with anchor and number, the *)
(* candidates found when it was recorded, what each was seen to find then, *)
(* whether it is a checkbox, has no name, a name that is exact or an ARIA  *)
(* state, and which selectors are brittle.                                 *)
Ways(order, l, anchor, nth) ==
    LET has == {n \in DOMAIN order : order[n] \in l.kinds}
    IN  [n \in 1..Cardinality(has) |-> Way(order[Nth(has, n - 1)], anchor, nth)]

FlowOrder == <<"role", "label", "text", "testId", "css", "xpath">>
PlainOrder == <<"role", "label", "text", "testId", "css">>
CandidateOrder == <<"role", "label", "testId", "text", "css", "xpath">>
ReplayBoxOrder == <<"testId", "css", "role", "text">>
ReplayOrder == <<"testId", "label", "role", "css", "text">>

PlainWays(l) == Ways(PlainOrder, l, l.anchor, l.nth)

(* A field of a form that the built-in flow fills, or a button it clicks.  *)
FieldWays(l) == Ways(<<"label", "placeholder", "role">>, l, FALSE, 0)

(* The candidates, then the selectors of the step: in the step's scope,    *)
(* each with its own number or all with the step's.                        *)
HealingWays(l, ordinals) ==
    [n \in DOMAIN l.candidates |->
        Way(l.candidates[n].kind, l.anchor,
            IF ordinals = "own" THEN l.candidates[n].nth ELSE l.nth)]
    \o Ways(FlowOrder, l, l.anchor, l.nth)

ReplayWays(l) ==
    (IF l.anchor THEN Ways(ReplayBoxOrder, l, TRUE, 0) ELSE <<>>)
    \o [n \in DOMAIN Ways(ReplayOrder, l, FALSE, l.nth) |->
           LET w == Ways(ReplayOrder, l, FALSE, l.nth)[n]
           IN  IF w.kind = "label" THEN [w EXCEPT !.nth = 0] ELSE w]

(* What a search for a candidate gave when it was recorded: how many       *)
(* matches, and shown; whether that was the element alone; and whether the *)
(* anchor left fewer matches, or none too many.                            *)
Diagnostics == [live : BOOLEAN, matched : Nat, visible : Nat, target : BOOLEAN, reduced : BOOLEAN,
                mode : {"none", "primary", "fallback", "diagnostic"}]
NotSeen == [live |-> FALSE, matched |-> 0, visible |-> 0, target |-> FALSE,
            reduced |-> FALSE, mode |-> "none"]

BaseKindScore == [testId |-> 72, role |-> 66, label |-> 60, text |-> 48, css |-> 34, xpath |-> 30]

(* One match, shown, is as good as the element itself.                     *)
LiveScore(seen) ==
    CASE ~seen.live -> 0
      [] seen.live /\ (seen.target \/ (seen.matched = 1 /\ seen.visible = 1)) -> 22
      [] OTHER -> IF seen.visible = 1 THEN 12
                  ELSE IF seen.visible > 1 THEN -(IF seen.visible > 5 THEN 30 ELSE 6 * seen.visible)
                  ELSE -35

ContextScore(seen) ==
    CASE seen.mode = "primary" -> IF seen.visible = 1 THEN 18 ELSE 10
      [] seen.mode = "fallback" -> 4
      [] OTHER -> 0

Score(l, w, seen) ==
    LET sum == BaseKindScore[w.kind] - (IF w.kind = "role" /\ l.bare THEN 28 ELSE 0)
               + (IF w.kind = "role" /\ l.exact THEN 8 ELSE 0) + (IF w.kind = "role" /\ l.stated THEN 8 ELSE 0)
               + (IF w.anchor THEN IF seen.reduced THEN 18 ELSE 10 ELSE 0)
               + ContextScore(seen) - (IF w.nth > 0 THEN 22 ELSE 0) + LiveScore(seen)
               - (IF w.kind \in l.brittle THEN IF w.kind = "css" THEN 18 ELSE 20 ELSE 0)
    IN  IF sum < 0 THEN 0 ELSE IF sum > 100 THEN 100 ELSE sum

(* The places of a list of candidates by score, each once, and as they     *)
(* came where scores are equal.                                            *)
Ranked(l, ways, seen) ==
    LET once == {n \in DOMAIN ways : \A j \in 1..(n - 1) : ways[j] # ways[n]}
        scored == {<<Score(l, ways[n], seen[n]), n>> : n \in once}
        before(b, a) == b[1] > a[1] \/ (b[1] = a[1] /\ b[2] < a[2])
    IN  [r \in 1..Cardinality(once) |->
            (CHOOSE a \in scored : Cardinality({b \in scored : before(b, a)}) = r - 1)[2]]

(* The plan of resolveSelector: candidates and selectors of the step.      *)
Plan(l) ==
    LET own == Ways(CandidateOrder, l, l.anchor, l.nth)
        all == l.candidates \o own
        order == Ranked(l, all, l.seen \o [n \in DOMAIN own |-> NotSeen])
    IN  [r \in DOMAIN order |-> all[order[r]]]
=============================================================================
