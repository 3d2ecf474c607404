---------------------------- MODULE ShoppingRows ----------------------------
(***************************************************************************)
(* One row of session_products and what the code does to it: the row a     *)
(* first sighting inserts, the merge of a later sighting, the reset-and-   *)
(* apply of a review, and the column-wise UPDATE with which the ORM writes *)
(* a changed object back.                                                  *)
(*                                                                         *)
(* Times, ratios and durations are naturals on any scale: the code only    *)
(* compares them.                                                          *)
(***************************************************************************)
EXTENDS Naturals, Columns

CONSTANTS
    Trigger,     \* why the glasses sent a frame (TriggerType)
    NoRow        \* no row for this session and product

PurchaseState == {"UNSET", "PURCHASED"}

\* What a recognise request says about the frame it carries.
Observation ==
    [at : Nat, occupancy : Nat, dwell : Nat, trigger : Trigger]

Row ==
    [first : Nat, last : Nat, occupancy : Nat, dwell : Nat,
     trigger : Trigger, count : Nat \ {0},
     purchase : PurchaseState, interested : BOOLEAN]

ASSUME NoRowAssumption == NoRow \notin Row

MaybeRow == Row \cup {NoRow}

Least(a, b) == IF b < a THEN b ELSE a

Greatest(a, b) == IF b > a THEN b ELSE a

-----------------------------------------------------------------------------

\* A plausible bug: the observation that creates the row is not counted.
FirstSightingUncounted(o) ==
    [first |-> o.at, last |-> o.at, occupancy |-> o.occupancy,
     dwell |-> o.dwell, trigger |-> o.trigger, count |-> 0,
     purchase |-> "UNSET", interested |-> FALSE]

FirstSighting(o) ==
    [first |-> o.at, last |-> o.at, occupancy |-> o.occupancy,
     dwell |-> o.dwell, trigger |-> o.trigger, count |-> 1,
     purchase |-> "UNSET", interested |-> FALSE]

\* A plausible bug: dwell times add up, and the ratio is forgotten.
LaterSightingDwellSummed(row, o) ==
    [row EXCEPT !.first = Least(@, o.at), !.last = Greatest(@, o.at),
                !.dwell = @ + o.dwell, !.trigger = o.trigger, !.count = @ + 1]

LaterSighting(row, o) ==
    [row EXCEPT !.first     = Least(@, o.at),
                !.last      = Greatest(@, o.at),
                !.occupancy = Greatest(@, o.occupancy),
                !.dwell     = Greatest(@, o.dwell),
                !.trigger   = o.trigger,
                !.count     = @ + 1]

\* The marks of a row after a review that lists the product, or does not,
\* as purchased and as interested: purchased wins.
Reviewed(row, isPurchased, isInterested) ==
    [row EXCEPT !.purchase   = IF isPurchased THEN "PURCHASED" ELSE "UNSET",
                !.interested = isInterested /\ ~isPurchased]

\* A plausible bug: every column of the loaded row is written back.
PatchLoaded(stored, before, new) == new

\* The UPDATE of a changed row.
Patch(stored, before, new) ==
    [first      |-> Column(stored.first, before.first, new.first),
     last       |-> Column(stored.last, before.last, new.last),
     occupancy  |-> Column(stored.occupancy, before.occupancy, new.occupancy),
     dwell      |-> Column(stored.dwell, before.dwell, new.dwell),
     trigger    |-> Column(stored.trigger, before.trigger, new.trigger),
     count      |-> Column(stored.count, before.count, new.count),
     purchase   |-> Column(stored.purchase, before.purchase, new.purchase),
     interested |-> Column(stored.interested, before.interested,
                           new.interested)]
=============================================================================
