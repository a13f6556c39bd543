--------------------------- MODULE SelectorCapture --------------------------
(***************************************************************************)
(* How the recorder describes an element of a page (src/extension/shared/  *)
(* selectors.ts, selectorCandidates.ts, selectorRuntime.ts): selectors of  *)
(* several kinds, the anchor and the number of the match, and candidates,  *)
(* each with what a search for it gave when it was recorded.               *)
(*                                                                         *)
(* Texts are sets of words; one holds another that is a subset of it.  A   *)
(* document has elements in their order, in boxes (rows, dialogs, form     *)
(* rows, sections).  Of an element it tells                                *)
(*   tag, id, testId   the last two may be "none",                         *)
(*   box, inside       where it stands, and in which elements, the nearest *)
(*                     first,                                              *)
(* what the recorder reads of it:                                          *)
(*   role, name, label, text   of its own,                                 *)
(*   semantic          whether it stands for what is in it,                *)
(*   widget, caption   a Zoom select, option or checkbox around it,        *)
(*   tagged            the roles in which its count includes it,           *)
(* what the recorder's search in the document reads:                       *)
(*   listed, said      the roles in whose lists it is, and its name,       *)
(*   marked, spoken    its <label> and its aria-label,                     *)
(* and what the browser reads that the flow runs in:                       *)
(*   aria, called, labelled   its role, name and label,                    *)
(*   hooked            whether its test id is in data-testid;              *)
(* and of a box its kind and tells, the text that stands for it.  Between  *)
(* a box and its controls are wraps more elements.                         *)
(***************************************************************************)
EXTENDS ElementSearch

Els(doc) == DOMAIN doc.els
Around(doc, e) == <<e>> \o doc.els[e].inside
Holds(doc, i, j) == \E n \in DOMAIN doc.els[j].inside : doc.els[j].inside[n] = i
SameControl(doc, e) == {i \in Els(doc) : i = e \/ Holds(doc, e, i) \/ Holds(doc, i, e)}

(* The first of some elements, of the element and those around it.         *)
Nearest(doc, e, steps, some) ==
    LET n == Nth({m \in DOMAIN Around(doc, e) : m <= steps /\ Around(doc, e)[m] \in some}, 0)
    IN  IF n = 0 THEN e ELSE Around(doc, e)[n]

(* What the element says itself, or else the control it is part of, if it  *)
(* has no role or no name.                                                 *)
Control(doc, e) ==
    IF doc.els[e].role # "none" /\ doc.els[e].name # {} THEN e
    ELSE Nearest(doc, e, 6, {i \in Els(doc) : doc.els[i].semantic})
Own(mine, others, none) == IF mine # none THEN mine ELSE others

Caption(o, kinds) == IF o.widget \in kinds THEN o.caption ELSE {}   \* of a widget around it

Role(o, c) == IF o.widget # "none" THEN o.widget ELSE Own(o.role, c.role, "none")
Name(o, c) == Own(Caption(o, {"combobox", "option", "checkbox"}), Own(o.name, c.name, {}), {})
Label(o, c) == Own(Caption(o, {"combobox", "checkbox"}), Own(o.label, c.label, {}), {})
Text(o, c) == Own(Caption(o, {"option", "checkbox"}), Own(o.text, c.text, {}), {})
TestId(doc, e) == doc.els[Nearest(doc, e, 4, {i \in Els(doc) : doc.els[i].testId # "none"})].testId

Extracted(doc, e) ==
    LET o == doc.els[e]  c == doc.els[Control(doc, e)]
    IN  [role |-> Role(o, c), name |-> Name(o, c), label |-> Label(o, c), text |-> Text(o, c),
         testId |-> TestId(doc, e)]

KindsOf(x) == {"css"} \cup (IF x.role # "none" THEN {"role"} ELSE {})
                      \cup (IF x.label # {} THEN {"label"} ELSE {})
                      \cup (IF x.text # {} THEN {"text"} ELSE {})
                      \cup (IF x.testId # "none" THEN {"testId"} ELSE {})

(* A path of at most four steps: a CSS selector begins at an id and numbers*)
(* an element among the siblings of its tag, where :nth-child counts them  *)
(* all; an XPath counts by tag, and takes the id of the element alone.     *)
Siblings(doc, e) == {i \in Els(doc) : doc.els[i].box = doc.els[e].box /\ doc.els[i].inside = doc.els[e].inside}
Place(S, e) == Cardinality({i \in S : i <= e})
Index(doc, e) ==
    LET same == {i \in Siblings(doc, e) : doc.els[i].tag = doc.els[e].tag}
    IN  IF Cardinality(same) > 1 THEN Place(same, e) ELSE 0

Short(doc, e) == doc.wraps + Len(doc.els[e].inside) > 2   \* of its box
SameBox(doc, e, i) == doc.els[i].box = doc.els[e].box \/ Short(doc, e)
CssStep(doc, e, i) == /\ doc.els[i].tag = doc.els[e].tag
                      /\ Index(doc, e) = 0 \/ Place(Siblings(doc, i), i) = Index(doc, e)
CssMeans(doc, e, i) ==
    LET p == Around(doc, e)  q == Around(doc, i)
        id == Nth({n \in DOMAIN p : n <= 4 /\ doc.els[p[n]].id # "none"}, 0)
    IN  IF id # 0 THEN Len(q) >= id /\ q[id] = p[id] /\ \A n \in 1..(id - 1) : CssStep(doc, p[n], q[n])
        ELSE SameBox(doc, e, i) /\ Len(q) = Len(p) /\ \A n \in DOMAIN p : CssStep(doc, p[n], q[n])

XPathMeans(doc, e, i) ==
    LET p == Around(doc, e)  q == Around(doc, i)
    IN  \/ i = e
        \/ /\ doc.els[e].id = "none" /\ Short(doc, e) /\ Len(q) = Len(p)
           /\ \A n \in DOMAIN p : doc.els[q[n]].tag = doc.els[p[n]].tag /\ Index(doc, q[n]) = Index(doc, p[n])

(* What the recorder's own search takes for an answer to a selector.       *)
Matched(doc, e, x, kind) == {i \in Els(doc) : LET o == doc.els[i] IN
    CASE kind = "role" -> x.role \in o.listed /\ x.name \subseteq o.said
      [] kind = "label" -> x.label \subseteq o.marked \/ x.label \subseteq o.spoken
      [] kind = "text" -> x.text \subseteq o.text
      [] kind = "testId" -> o.testId = x.testId
      [] kind = "css" -> CssMeans(doc, e, i)
      [] kind = "xpath" -> XPathMeans(doc, e, i)}

(* What answers to the locators of a flow: by what the browser reads, a    *)
(* test id by the one attribute it looks at, a text by the innermost.      *)
Answers(doc, e, x, kind) == {i \in Els(doc) : LET o == doc.els[i] IN
    CASE kind = "role" -> o.aria = x.role /\ x.name \subseteq o.called
      [] kind = "label" -> x.label \subseteq o.labelled
      [] kind = "text" -> /\ x.text \subseteq o.text
                          /\ \A j \in Els(doc) : Holds(doc, i, j) => ~(x.text \subseteq doc.els[j].text)
      [] kind = "testId" -> o.hooked /\ o.testId = x.testId
      [] kind = "css" -> CssMeans(doc, e, i)
      [] kind = "xpath" -> XPathMeans(doc, e, i)}
-----------------------------------------------------------------------------
(* The anchor: the label of a form row, the title of a dialog or section,  *)
(* what tells a row from its siblings.                                     *)
RowBoxes(doc) == {b \in DOMAIN doc.boxes : doc.boxes[b].kind = "row"}
AnchorOf(doc, e) ==
    LET b == doc.els[e].box
    IN  IF b = 0 \/ (b \in RowBoxes(doc) /\ Cardinality(RowBoxes(doc)) < 2) THEN {} ELSE doc.boxes[b].tells
TextOf(doc, b) == doc.boxes[b].tells \cup UNION {doc.els[i].text : i \in {j \in Els(doc) : doc.els[j].box = b}}
Holders(doc, e) == {b \in DOMAIN doc.boxes : /\ doc.boxes[b].kind = doc.boxes[doc.els[e].box].kind
                                             /\ AnchorOf(doc, e) \subseteq TextOf(doc, b)}

(* computeNth counts in the whole document, shown or not.                  *)
Texted(o) == o.tag \in {"button", "a", "td", "li", "span"} \/ o.role \in {"button", "option"}
Counted(doc, e, x) ==
    LET roles == {i \in Els(doc) : LET o == doc.els[i]
                                   IN  x.role \in o.tagged /\ x.name \subseteq o.text \cup o.spoken}
    IN  IF roles # {} THEN roles
        ELSE IF x.text # {} THEN {i \in Matched(doc, e, x, "text") : Texted(doc.els[i])}
        ELSE Matched(doc, e, x, "css")
Ordinal(doc, e, x) ==
    LET same == Counted(doc, e, x) \cap SameControl(doc, e)
    IN  IF same = {} THEN 0 ELSE Cardinality({i \in Counted(doc, e, x) : \A j \in same : i < j})
-----------------------------------------------------------------------------
(* A candidate is tried on the page it is recorded on.                     *)
BoxesOf(doc, e) == [box |-> [i \in Els(doc) |-> doc.els[i].box],
                    named |-> IF AnchorOf(doc, e) = {} THEN {} ELSE Holders(doc, e)]

(* resolveSelectorCandidate: no box of that text is the whole document; a  *)
(* label stands for its first match, a <label> before any aria-label; a    *)
(* text is held by what wraps it too, outside of a box by html and body;   *)
(* an XPath begins at the document.                                        *)
Matches(doc, e, x, d, kind, anchored) ==
    LET inside == Inside(BoxesOf(doc, e), d, {"hidden", "shown"})
        scope == IF anchored /\ inside # {} /\ kind # "xpath" THEN inside ELSE Els(doc)
        all == {i \in scope : d[i] # "gone" /\ i \in Matched(doc, e, x, kind)}
        marked == {i \in all : x.label \subseteq doc.els[i].marked}
    IN  IF kind = "label" THEN {Nth(IF marked # {} THEN marked ELSE all, 0)} \ {0} ELSE all
Wrappers(doc, kind, anchored) ==
    IF kind # "text" THEN 0 ELSE doc.wraps + (IF anchored THEN 0 ELSE 2)

Mode(direct, within) ==
    CASE direct > within /\ within > 0 -> "primary"
      [] direct = 1 /\ within = 1 -> "fallback"
      [] OTHER -> "diagnostic"

UniqueAnyhow(same, visible) == visible = 1
Unique(same, visible) == same /\ visible = 1

Tested(doc, e, d, kind, found, everywhere) ==
    LET anchored == AnchorOf(doc, e) # {}
        visible(S, a) == Cardinality({i \in S : d[i] = "shown"}) + Wrappers(doc, kind, a)
        within == visible(found, anchored)
        direct == visible(everywhere, FALSE)
        same == \E i \in found : d[i] = "shown" /\ i \in SameControl(doc, e)
    IN  [live |-> TRUE, matched |-> Cardinality(found) + Wrappers(doc, kind, anchored),
         visible |-> within, target |-> Unique(same, within),
         reduced |-> anchored /\ direct > within /\ within > 0,
         mode |-> IF anchored THEN Mode(direct, within) ELSE "none"]
Seen(doc, e, x, d, kind) ==
    Tested(doc, e, d, kind, Matches(doc, e, x, d, kind, AnchorOf(doc, e) # {}),
           Matches(doc, e, x, d, kind, FALSE))

(* The step: its selectors have anchor and number, its candidates have the *)
(* anchor and are ordered by their score.                                  *)
Capture(doc, e, d) ==
    LET x == Extracted(doc, e)
        anchored == AnchorOf(doc, e) # {}
        found == Ways(CandidateOrder, [kinds |-> KindsOf(x) \cup {"xpath"}], anchored, 0)
        step == [kinds |-> KindsOf(x), anchor |-> anchored, nth |-> Ordinal(doc, e, x),
                 checkbox |-> x.role = "checkbox", bare |-> x.name = {}, exact |-> FALSE, stated |-> FALSE,
                 brittle |-> (IF doc.els[e].id = "none" THEN {"css"} ELSE {})
                             \cup (IF doc.els[e].id = "none" /\ Index(doc, e) # 0 THEN {"xpath"} ELSE {}),
                 candidates |-> found,
                 seen |-> [n \in DOMAIN found |-> Seen(doc, e, x, d, found[n].kind)]]
        order == Ranked(step, found, step.seen)
    IN  [step EXCEPT !.candidates = [n \in DOMAIN order |-> found[order[n]]],
                     !.seen = [n \in DOMAIN order |-> step.seen[order[n]]]]
=============================================================================
