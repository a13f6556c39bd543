------------------------------- MODULE Runners ------------------------------
(***************************************************************************)
(* The ways the repository carries out a recorded step.  Every flow.ts     *)
(* holds its own copy of the helpers, from the compiler of its day; the    *)
(* compiler of today writes yet another, and the extension replays a step  *)
(* in the page or by trusted input.                                        *)
(*                                                                         *)
(* Of each: how it searches and clicks (..Find), what it does with what it *)
(* found (..Acts), whether it heeds the guard of a step and what it does   *)
(* again after a failure (..Repeats), and how it reads conditions          *)
(* (..Policy).                                                             *)
(***************************************************************************)
EXTENDS TLC

(* One search through the selectors of the step, one click, the first      *)
(* option that holds the text, and nothing looked at afterwards.           *)
PlainFind == [search |-> "once", ordinals |-> "step", clicks |-> 1, aria |-> TRUE]
PlainActs == [match |-> "substring", recalls |-> "no", verified |-> FALSE, form |-> FALSE, rows |-> "no"]
PlainRepeats == [guards |-> TRUE, again |-> "step"]
PlainPolicy == [looks |-> TRUE, address |-> "either", entity |-> "unknown", visible |-> "looks"]

CcmFind == PlainFind
CcmActs == PlainActs
CcmRepeats == PlainRepeats
CcmPolicy == PlainPolicy
UntitledFind == PlainFind
UntitledActs == PlainActs
UntitledRepeats == PlainRepeats
UntitledPolicy == PlainPolicy
BusinessAddressFind == PlainFind
BusinessAddressActs == PlainActs
BusinessAddressRepeats == PlainRepeats
BusinessAddressPolicy == PlainPolicy

(* The second version searches until its time is up, and for a checkbox in *)
(* its row first.                                                          *)
AdminV2Find == [PlainFind EXCEPT !.search = "passes"]
AdminV2Acts == PlainActs
AdminV2Repeats == PlainRepeats
AdminV2Policy == PlainPolicy

(* resolveSelector first, options by what was recorded of them, then by    *)
(* their exact text, an address by text and fields.                        *)
AuAddressFind == [PlainFind EXCEPT !.search = "ranked"]
AuAddressActs == [PlainActs EXCEPT !.match = "exactFirst", !.recalls = "first"]
AuAddressRepeats == PlainRepeats
AuAddressPolicy == [PlainPolicy EXCEPT !.address = "both"]

(* Three tries to click; selects by the words of an option, or else what   *)
(* was recorded of it, verified; the fields of a form by the labels of     *)
(* their rows; rows, ticked and checked.                                   *)
SydneyFind == [search |-> "ranked", ordinals |-> "own", clicks |-> 3, aria |-> TRUE]
SydneyActs == [match |-> "words", recalls |-> "last", verified |-> TRUE, form |-> TRUE, rows |-> "ensured"]
SydneyRepeats == PlainRepeats
SydneyPolicy == [AuAddressPolicy EXCEPT !.entity = "match"]

(* The built-in flow for a business address (src/zoom): fields by label,   *)
(* placeholder or role, buttons by role, the first option that begins with *)
(* the text.                                                               *)
BuiltInFind == [PlainFind EXCEPT !.search = "fields", !.aria = FALSE]
BuiltInActs == [PlainActs EXCEPT !.match = "prefix"]
BuiltInRepeats == [PlainRepeats EXCEPT !.guards = FALSE]
BuiltInPolicy == [PlainPolicy EXCEPT !.looks = FALSE]

(* What generateHealingCode and compileWorkflow write.                     *)
CompiledFind == SydneyFind
CompiledActs == [AuAddressActs EXCEPT !.rows = "clicked"]
CompiledRepeats == PlainRepeats
CompiledPolicy == SydneyPolicy

(* The content script of the extension, and the trusted input session.     *)
ReplayFind == [search |-> "queries", ordinals |-> "step", clicks |-> 1, aria |-> FALSE]
ReplayActs == [match |-> "exactOrWords", recalls |-> "no", verified |-> TRUE, form |-> FALSE, rows |-> "held"]
ReplayRepeats == [guards |-> FALSE, again |-> "whole"]
ReplayPolicy == [looks |-> TRUE, address |-> "text", entity |-> "skips", visible |-> "clicks"]
TrustedFind == [ReplayFind EXCEPT !.search = "points"]
TrustedActs == ReplayActs
TrustedRepeats == ReplayRepeats
TrustedPolicy == [ReplayPolicy EXCEPT !.looks = FALSE]

AddZcxAdminMichaelChen ==
    PlainFind @@ PlainActs @@ PlainRepeats @@ PlainPolicy
CcmAddAdmin == CcmFind @@ CcmActs @@ CcmRepeats @@ CcmPolicy
UntitledWorkflow == UntitledFind @@ UntitledActs @@ UntitledRepeats @@ UntitledPolicy
ZoomCxBusinessAddressAustralia ==
    BusinessAddressFind @@ BusinessAddressActs @@ BusinessAddressRepeats @@ BusinessAddressPolicy
AddZcxAdminMichaelChenV2 == AdminV2Find @@ AdminV2Acts @@ AdminV2Repeats @@ AdminV2Policy
AddAuContactCenterBusinessAddress ==
    AuAddressFind @@ AuAddressActs @@ AuAddressRepeats @@ AuAddressPolicy
AddZoomPhoneSydneyNumbers == SydneyFind @@ SydneyActs @@ SydneyRepeats @@ SydneyPolicy
BuiltIn == BuiltInFind @@ BuiltInActs @@ BuiltInRepeats @@ BuiltInPolicy
Compiled == CompiledFind @@ CompiledActs @@ CompiledRepeats @@ CompiledPolicy
Replayed == ReplayFind @@ ReplayActs @@ ReplayRepeats @@ ReplayPolicy
Trusted == TrustedFind @@ TrustedActs @@ TrustedRepeats @@ TrustedPolicy

(* Copies that are the same are one runner.                                *)
RecordedRunners == {AddZcxAdminMichaelChen, CcmAddAdmin, UntitledWorkflow,
                    ZoomCxBusinessAddressAustralia, AddZcxAdminMichaelChenV2,
                    AddAuContactCenterBusinessAddress, AddZoomPhoneSydneyNumbers,
                    Compiled, Replayed, Trusted}
AllRunners == RecordedRunners \cup {BuiltIn}
=============================================================================
