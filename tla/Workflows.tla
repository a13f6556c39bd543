------------------------------ MODULE Workflows ------------------------------
(***************************************************************************)
(* The flows of the repository as tables of steps: what holds each step    *)
(* back in a dry run, what is asserted after it and where, what it looks   *)
(* for first and how often it is tried again.  The tables follow the       *)
(* generated flow.ts files, which come from three generations of the       *)
(* compiler, and not what the compiler of today would make of them.        *)
(***************************************************************************)
EXTENDS Sequences, Naturals

Plain == [orders |-> FALSE, dry |-> "runs", asserts |-> "no", check |-> "no", retries |-> 0]
Order == [Plain EXCEPT !.orders = TRUE]
Held(s) == [s EXCEPT !.dry = "held"]
Asserted(s, where) == [s EXCEPT !.asserts = where]
Checked(s, how) == [s EXCEPT !.check = how]
Retried(s) == [s EXCEPT !.retries = 1]
Repeat(n) == [i \in 1..n |-> Plain]

(* The list of addresses, "Add Address" unless the address is there; the   *)
(* form; "Save".                                                           *)
OpenAddresses == <<Asserted(Plain, "inside"), Checked(Plain, "find")>>
FillAddress == Repeat(9)
SaveAddress == <<Held(Asserted(Order, "inside"))>>
AddAuContactCenterBusinessAddress == OpenAddresses \o FillAddress \o SaveAddress

(* The users, "Add user" of the page and of the menu; search, tick, "Add"; *)
(* choose a package, "Save".                                               *)
OpenUsers == <<Asserted(Plain, "outside"), Plain, Held(Asserted(Plain, "outside")), Plain,
               Held(Asserted(Plain, "outside"))>>
FindUser == <<Retried(Plain), Plain, Plain, Asserted(Plain, "outside")>>
AssignPackage == Repeat(3) \o <<Held(Asserted(Order, "outside"))>>
AddZcxAdminMichaelChen == OpenUsers \o FindUser \o AssignPackage

AddZcxAdminMichaelChenV2 == AddZcxAdminMichaelChen

(* The same with a search that is not tried again, and a look at the list. *)
CcmAddAdmin ==
    [AddZcxAdminMichaelChen EXCEPT ![6] = Plain] \o <<Asserted(Plain, "outside")>>

UntitledWorkflow ==
    <<Asserted(Plain, "outside"), Held(Asserted(Plain, "outside")), Plain, Plain,
      Asserted(Plain, "outside"), Plain, Plain, Held(Asserted(Order, "outside"))>>

ZoomCxBusinessAddressAustralia == <<Asserted(Plain, "outside")>>

(* Open the list of numbers, count them, go through the wizard, select as  *)
(* many rows as are needed, "Continue", the address, "Done", which is not  *)
(* held back in a dry run.                                                 *)
CountNumbers == <<Asserted(Plain, "inside"), Checked(Plain, "count")>>
ChooseNumbers == Repeat(8)
BuyNumbers == Repeat(2) \o <<Asserted(Order, "target")>>
AddZoomPhoneSydneyNumbers == CountNumbers \o ChooseNumbers \o BuyNumbers

(* The built-in flow: open and look, fill the form, which ends a dry run,  *)
(* attach the documents, "Save", the documents Zoom asks for after it, and *)
(* the list again.                                                         *)
AddBusinessAddress ==
    <<Plain, Checked(Plain, "find"), [Plain EXCEPT !.dry = "ends"], [Order EXCEPT !.dry = "ends"],
      Asserted(Plain, "outside")>>

CheckBusinessAddressStatus == <<Plain>>

Workflows == [ AddAuContactCenterBusinessAddress |-> AddAuContactCenterBusinessAddress,
               AddZcxAdminMichaelChen |-> AddZcxAdminMichaelChen,
               AddZcxAdminMichaelChenV2 |-> AddZcxAdminMichaelChenV2,
               CcmAddAdmin |-> CcmAddAdmin,
               UntitledWorkflow |-> UntitledWorkflow,
               ZoomCxBusinessAddressAustralia |-> ZoomCxBusinessAddressAustralia,
               AddZoomPhoneSydneyNumbers |-> AddZoomPhoneSydneyNumbers,
               AddBusinessAddress |-> AddBusinessAddress,
               CheckBusinessAddressStatus |-> CheckBusinessAddressStatus ]

Targets == [f \in DOMAIN Workflows |-> IF f = "AddZoomPhoneSydneyNumbers" THEN 4 ELSE 1]
=============================================================================
