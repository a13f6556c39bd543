---------------------------- MODULE RecordedPage ----------------------------
(***************************************************************************)
(* Steps carried out on the page they were recorded on, as it was then:    *)
(* what SelectorCapture wrote down of an element of a document, and        *)
(* RecordedStep looks for.  Such a scene names the document it was         *)
(* recorded from, and the element.                                         *)
(***************************************************************************)
EXTENDS RecordedStep, SelectorCapture

Document(doc) == /\ DOMAIN doc.els = Items /\ doc.wraps \in Nat
                 /\ \A i \in Items : /\ doc.els[i].box \in Nat \cap ({0} \cup DOMAIN doc.boxes)
                                     /\ doc.els[i].inside \in Seq(Items)
                 /\ 0 \notin DOMAIN doc.boxes

(* What such a page has that a search may look for.  A row's checkbox is   *)
(* looked for in rows only (findAnchoredCheckbox).                         *)
Answered(doc, e, i) ==
    LET x == Extracted(doc, e)
    IN  {kind \in Kinds : i \in Answers(doc, e, x, kind)}
        \cup IF (doc.els[i].aria = "checkbox" \/ "checkbox" \in doc.els[i].listed) /\ doc.els[i].box \in RowBoxes(doc)
             THEN {"checkbox"} ELSE {}

(* An XPath begins outside of the box, unless an id or its length keeps    *)
(* it from that.                                                           *)
Beyond(doc, e) == IF doc.els[e].id = "none" /\ ~Short(doc, e) THEN {"xpath"} ELSE {}

RecordedFrom(s, doc, e) ==
    /\ Document(doc) /\ e \in Items /\ s.drawn[e] = "shown"
    /\ s.step.find = Capture(doc, e, s.drawn) /\ s.step.meant = SameControl(doc, e)
    /\ s.step.alike = Matched(doc, e, Extracted(doc, e), s.step.find.candidates[1].kind)
    /\ s.step.kind \in {"click", "act"} /\ s.step.form = "no" /\ \A r \in s.runners : ~Replays(r)
    /\ s.page.box = BoxesOf(doc, e).box /\ s.page.named = BoxesOf(doc, e).named
    /\ s.page.answers = [i \in Items |-> Answered(doc, e, i)]
    /\ s.page.outer = Beyond(doc, e) /\ s.page.changes = 0
ASSUME RecordingsAssumption ==
    \A s \in Scenes : s.step.meant # {} => RecordedFrom(s, s.of.doc, s.of.element)

\* What the recorder vouched for when a step was recorded, that its best selector
\* finds the element and nothing else, the flow compiled today keeps: on that page
\* it acts on that and nothing else and does not give its search up, whatever number
\* and anchor the step carries (testSelectorCandidatesInDocument, resolveSelector).
\* The recorder takes what is in the element, and what contains it, for the element:
\* a container whose test id was recorded is clicked instead (findTestId,
\* isSameTarget).  Nothing else means nothing hidden either, of which the flow would
\* take the first, but for a role; and a checkbox in a row is looked for by its row
\* alone.
Vouched == LET l == step.find
           IN  /\ l.seen # <<>> /\ l.seen[1].target /\ l.candidates[1].kind # "xpath"
               /\ l.seen[1].matched = 1 \/ l.candidates[1].kind = "role"
               /\ ~(l.checkbox /\ l.anchor)

\* This takes that the browser of the flow reads the selector as the recorder did.
\* It does not for a test id in data-test-id, a role that the recorder's lists go by
\* a class for, or have without the elements that have it by their tag, and a label
\* of several elements, of which the recorder takes one by its <label> first.
Agreed == LET best == step.find.candidates[1]
          IN  /\ \A i \in Items : best.kind \in page.answers[i] <=> i \in step.alike
              /\ best.kind = "label" =>
                    \A i, j \in step.alike : i = j \/ (best.anchor /\ page.box[i] # page.box[j])
RecordedIsReached ==
    [][runner.search = "ranked" /\ runner.ordinals = "own" /\ step.meant # {} /\ Vouched /\ Agreed
       => acted' \subseteq step.meant /\ ~(pc = "search" /\ pc' \in {"failed", "continued"})]_vars
=============================================================================
