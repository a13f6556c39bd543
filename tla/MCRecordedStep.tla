--------------------------- MODULE MCRecordedStep ---------------------------
(***************************************************************************)
(* Every runner of the repository on steps of every kind, each on the      *)
(* pages where it is easily misled, with up to three changes; and steps as *)
(* they are recorded today, replayed on the page they are recorded on.     *)
(***************************************************************************)
EXTENDS RecordedPage, Runners

MCItems == 1..3
MaxRedraws == 3   \* bound: changes of the page while a step runs
AnyStep == [kind |-> "click", cond |-> "none", aria |-> "no", form |-> "no", retries |-> 0,
            continues |-> FALSE, count |-> 2, atLeast |-> 1, meant |-> {}, alike |-> {}, choices |-> <<>>,
            matched |-> "account", missing |-> "ahead", otherwise |-> "skipped",
            find |-> [kinds |-> {"role", "css"}, candidates |-> <<>>, seen |-> <<>>, bare |-> FALSE, exact |-> FALSE,
                      stated |-> FALSE, brittle |-> {}, anchor |-> FALSE, nth |-> 0, checkbox |-> FALSE]]
AnyPage == [box |-> <<1, 2, 0>>, named |-> {2}, answers |-> [i \in MCItems |-> {"role", "css"}],
            on |-> [i \in MCItems |-> FALSE], says |-> FALSE, knows |-> FALSE, filled |-> FALSE,
            exposed |-> TRUE, options |-> {}, offers |-> {}, reads |-> [i \in MCItems |-> "other"],
            native |-> FALSE, recalled |-> [i \in MCItems |-> {}], taken |-> {}, outer |-> {}, changes |-> MaxRedraws]
AllShown == [i \in MCItems |-> "shown"]
Scene(s, p, d) == [step |-> s, page |-> p, drawn |-> d, runners |-> RecordedRunners]
Drawings == {AllShown, [AllShown EXCEPT ![2] = "gone"], [AllShown EXCEPT ![1] = "hidden"]}

(* A checkbox in the row of a name that two rows hold, and a click on it.  *)
InRow == [AnyStep.find EXCEPT !.anchor = TRUE, !.checkbox = TRUE,
          !.candidates = <<Way("css", TRUE, 0), Way("role", TRUE, 0)>>, !.seen = <<NotSeen, NotSeen>>]
RowPage == [AnyPage EXCEPT !.named = {1, 2}, !.box = <<1, 2, 2>>,
            !.answers = <<{"role", "css"}, {"css", "checkbox"}, {"role", "checkbox"}>>]
ClickInRow == [AnyStep EXCEPT !.find = InRow]
Anchored == {Scene([ClickInRow EXCEPT !.retries = 1], RowPage, d) : d \in Drawings}
            \cup {Scene([ClickInRow EXCEPT !.kind = "act"], [RowPage EXCEPT !.named = {2}], d) : d \in Drawings}

(* A toggle, recorded with its state, that may be in that state already.   *)
Toggles == {Scene([AnyStep EXCEPT !.aria = "on", !.retries = 1, !.find = f],
                  [AnyPage EXCEPT !.on = [i \in MCItems |-> b], !.exposed = e], AllShown) :
            b \in BOOLEAN, e \in BOOLEAN, f \in {AnyStep.find, InRow}}

(* Several ways to find the element, and the number of a match.            *)
Many == [AnyStep.find EXCEPT !.kinds = {"role", "text", "css"},
         !.candidates = <<Way("css", FALSE, 0), Way("testId", FALSE, 0)>>,
         !.seen = <<NotSeen, NotSeen>>]
Numbered == [AnyStep.find EXCEPT !.nth = 1, !.candidates = <<Way("role", FALSE, 1)>>, !.seen = <<NotSeen>>]
ManyPage == [AnyPage EXCEPT !.answers = <<{"text", "css"}, {"role", "css"}, {"testId", "role"}>>]
PathOnly == [AnyStep.find EXCEPT !.kinds = {"xpath"}]   \* most flows cannot look for it
Finds == {Scene([AnyStep EXCEPT !.find = f], ManyPage, d) : f \in {Many, Numbered, PathOnly}, d \in Drawings}

(* Conditions.                                                             *)
Conditions == {"textExistsSkip", "addressAlreadyExistsSkipAccount", "entityStateGuard",
               "elementVisibleClick", "fieldEmptyFill", "guard"}
Conditional == {Scene([AnyStep EXCEPT !.cond = c, !.continues = TRUE],
                      [AnyPage EXCEPT !.says = b, !.knows = n, !.filled = b], d) :
                c \in Conditions, b \in BOOLEAN, n \in BOOLEAN, d \in Drawings}
               \cup {Scene([AnyStep EXCEPT !.cond = c, !.matched = "skipped", !.missing = "account", !.otherwise = "account"],
                           [AnyPage EXCEPT !.says = b], AllShown) : c \in {"entityStateGuard", "guard"}, b \in BOOLEAN}

(* A select whose popup lists a longer option before the one that is meant.*)
Choice == [AnyStep EXCEPT !.kind = "select", !.retries = 1]
PopupPage(reads, offers) ==
    [AnyPage EXCEPT !.options = {2, 3}, !.reads = reads, !.offers = offers,
                    !.answers = <<{"role", "css", "control"}, {}, {}>>, !.box = <<2, 0, 0>>]
Closed == [i \in MCItems |-> IF i = 1 THEN "shown" ELSE "gone"]
Reads == {<<"other", "longer", "exact">>, <<"other", "words", "exact">>, <<"other", "other", "longer">>}
Recalls == {<<{}, {}, {"testId"}>>, <<{}, {"css"}, {"testId", "css"}>>}   \* the last meant, or the first by its place
Selects == {Scene([Choice EXCEPT !.form = f], PopupPage(r, o), Closed) :
            f \in {"no", "verified", "guessed"}, r \in Reads, o \in {{2, 3}, {2}, {3}}}
           \cup {Scene([Choice EXCEPT !.choices = <<"testId", "css">>],
                       [PopupPage(r, {2, 3}) EXCEPT !.recalled = c], Closed) : r \in Reads, c \in Recalls}
           \cup {Scene(Choice, [PopupPage(r, {}) EXCEPT !.native = TRUE], AllShown) :
                 r \in Reads \cup {<<"other", "coded", "exact">>, <<"other", "coded", "other">>}}

(* The first rows that are free.                                           *)
Rows == {Scene([AnyStep EXCEPT !.kind = "rows", !.retries = r, !.count = c],
               [AnyPage EXCEPT !.on = <<b, FALSE, FALSE>>, !.taken = t], d) :
         r \in {0, 1}, c \in {1, 2}, b \in BOOLEAN, t \in {{}, {2}}, d \in Drawings}
        \cup {Scene([AnyStep EXCEPT !.kind = "rows", !.cond = "elementVisibleClick"], AnyPage, d) :
              d \in Drawings}

(* What the built-in flow does on a form.                                  *)
Field == [AnyStep EXCEPT !.kind = "act", !.find = [@ EXCEPT !.kinds = {"label", "placeholder", "role"}]]
FieldPage == [AnyPage EXCEPT !.answers = <<{"placeholder"}, {"label", "role"}, {"role"}>>]
Built == {[s EXCEPT !.runners = {BuiltIn}] :
          s \in {Scene([Field EXCEPT !.continues = b], FieldPage, d) : b \in BOOLEAN, d \in Drawings}
               \cup {Scene(AnyStep, ManyPage, d) : d \in Drawings}
               \cup {Scene([Choice EXCEPT !.retries = 0], PopupPage(r, o), Closed) :
                     r \in Reads, o \in {{2, 3}, {2}, {3}}}}

(* Documents: alike controls on a page, in a section or in rows, beside or  *)
(* in other things, with or without what tells them apart, and read alike  *)
(* by the recorder and the browser or not.                                 *)
Plain == [tag |-> "span", id |-> "none", testId |-> "none", box |-> 0, inside |-> <<>>,
          role |-> "none", name |-> {}, label |-> {}, text |-> {}, semantic |-> FALSE, widget |-> "none", caption |-> {},
          tagged |-> {}, listed |-> {}, said |-> {}, marked |-> {}, spoken |-> {},
          aria |-> "none", called |-> {}, labelled |-> {}, hooked |-> TRUE]
Container == [Plain EXCEPT !.testId = "x"]
OddContainer == [Container EXCEPT !.hooked = FALSE, !.text = {"edit"}]   \* data-test-id
Button(words) ==
    [Plain EXCEPT !.tag = "button", !.role = "button", !.semantic = TRUE, !.name = words, !.text = words, !.said = words,
                  !.tagged = {"button"}, !.listed = {"button"}, !.aria = "button", !.called = words]
Link == [Plain EXCEPT !.tag = "a", !.role = "link", !.semantic = TRUE, !.text = {"edit"}, !.said = {"edit"},
                      !.aria = "link", !.called = {"edit"}]
Labelled == [Plain EXCEPT !.tag = "input", !.role = "textbox", !.semantic = TRUE, !.label = {"city"},
                          !.tagged = {"textbox"}, !.listed = {"textbox"}, !.marked = {"city"},
                          !.aria = "textbox", !.called = {"city"}, !.labelled = {"city"}]
Spoken == [Labelled EXCEPT !.marked = {}, !.spoken = {"city"}, !.name = {"city"}, !.said = {"city"}]
Checkbox == [Plain EXCEPT !.widget = "checkbox", !.caption = {"all"}, !.text = {"all"}, !.said = {"all"}, !.semantic = TRUE,
                          !.tagged = {"checkbox"}, !.listed = {"checkbox"}]   \* by its class
NativeCheckbox ==
    [Checkbox EXCEPT !.tag = "input", !.role = "checkbox", !.name = {"all"}, !.label = {"all"}, !.text = {},
                     !.spoken = {"all"}, !.aria = "checkbox", !.called = {"all"}, !.labelled = {"all"}]
Icon == [Plain EXCEPT !.tag = "i"]
Elements == {Container, OddContainer, Button({"edit"}), Button({"edit", "all"}), Link, Labelled, Spoken,
             Checkbox, NativeCheckbox, Icon, [Button({"edit"}) EXCEPT !.id = "edit", !.testId = "edit"]}

Nestings == {<<<<>>, <<>>, <<>>>>, <<<<>>, <<1>>, <<>>>>, <<<<>>, <<1>>, <<2, 1>>>>}
Fits(t, n) ==   \* icons in buttons, buttons and the like in containers
    /\ \A i \in MCItems : /\ t[i] = Icon => n[i] # <<>> /\ t[n[i][1]].role = "button"
                          /\ t[i] # Icon => \A m \in DOMAIN n[i] : t[n[i][m]] \in {Container, OddContainer}
                          /\ \A j \in MCItems : t[i].id = t[j].id => i = j \/ t[i].id = "none"
    /\ n[3] = <<>> => \E i, j \in MCItems : i # j /\ t[i] = t[j]
Boxes(kind, tells) == [b \in DOMAIN tells |-> [kind |-> kind, tells |-> tells[b]]]
Places == {[in |-> <<0, 0, 0>>, boxes |-> <<>>], [in |-> <<1, 1, 1>>, boxes |-> Boxes("section", <<{"list"}>>)],
           [in |-> <<1, 2, 2>>, boxes |-> Boxes("row", <<{"ann"}, {"bob"}>>)],
           [in |-> <<1, 2, 2>>, boxes |-> Boxes("row", <<{"new"}, {"new"}>>)]}
Reading(t, n, i) == t[i].text \cup UNION {t[j].text : j \in {m \in MCItems : \E a \in DOMAIN n[m] : n[m][a] = i}}
DocumentOf(t, n, p, wraps) ==
    [els |-> [i \in MCItems |-> [t[i] EXCEPT !.box = p.in[IF n[i] = <<>> THEN i ELSE 1], !.inside = n[i],
                                            !.text = Reading(t, n, i)]],
     boxes |-> p.boxes, wraps |-> wraps]
Documents == {DocumentOf(t[1], t[2], p, wraps) :
              t \in {u \in [MCItems -> Elements] \X Nestings : Fits(u[1], u[2])},
              p \in Places, wraps \in {0, 2}}
RecordedAs(l, doc, e, d) ==
    [step |-> [AnyStep EXCEPT !.find = l, !.meant = SameControl(doc, e),
                              !.alike = Matched(doc, e, Extracted(doc, e), l.candidates[1].kind)],
     page |-> [AnyPage EXCEPT !.box = BoxesOf(doc, e).box, !.named = BoxesOf(doc, e).named, !.changes = 0,
                  !.outer = Beyond(doc, e), !.answers = [i \in MCItems |-> Answered(doc, e, i)]],
     drawn |-> d, runners |-> {Compiled}, of |-> [doc |-> doc, element |-> e]]
Recorded(doc, e, d) == RecordedAs(Capture(doc, e, d), doc, e, d)
Recordings == {Recorded(t[1], t[2], t[3]) :
               t \in {u \in Documents \X MCItems \X {AllShown, [AllShown EXCEPT ![1] = "hidden"]} :
                         u[3][u[2]] = "shown"}}

MCScenes == Anchored \cup Toggles \cup Finds \cup Conditional \cup Selects \cup Rows \cup Built \cup Recordings
=============================================================================
