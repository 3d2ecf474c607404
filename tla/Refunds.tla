------------------------------ MODULE Refunds ------------------------------
(***************************************************************************)
(* What the refund checklist decides from the purchases of a trip, a       *)
(* function P from purchase ids to receipt rows, from the products marked  *)
(* as purchased in shopping sessions and from the departure.               *)
(***************************************************************************)
EXTENDS Dates, FiniteSetsExt

CONSTANTS
    Null,                 \* a column that is null
    TransactionLimit,     \* KRW: an immediate refund is below it
    CumulativeLimit       \* KRW: all immediate refunds are at most it

ASSUME LimitAssumption == TransactionLimit \in Nat /\ CumulativeLimit \in Nat

RefundMethod == {"UNKNOWN", "IMMEDIATE", "DOWNTOWN", "AIRPORT"}

\* A plausible bug: marks of sessions are left out.
MethodsOfReceipts(P, marks) == {P[q].method : q \in DOMAIN P}

\* A mark has no receipt, so its method is not known.
Methods(P, marks) ==
    {P[q].method : q \in DOMAIN P}
      \cup (IF marks = {} THEN {} ELSE {"UNKNOWN"})

Warned(P, departs) ==
    \E q \in DOMAIN P : /\ P[q].purchased # Null /\ departs # Null
                        /\ ExceedsExportDeadline(P[q].purchased, departs)

Papers == {"prepare-refund-documents", "prepare-purchased-goods",
           "customs-export-confirmation"}

\* A plausible bug: one immediate refund makes all of them immediate.
StatusOptimistic(P, marks) ==
    IF Methods(P, marks) = {} THEN "NO_ELIGIBLE_PURCHASES"
    ELSE IF "IMMEDIATE" \in Methods(P, marks) THEN "IMMEDIATE_REFUND_ONLY"
    ELSE "ACTION_REQUIRED"

Status(P, marks) ==
    IF Methods(P, marks) = {} THEN "NO_ELIGIBLE_PURCHASES"
    ELSE IF Methods(P, marks) = {"IMMEDIATE"} THEN "IMMEDIATE_REFUND_ONLY"
    ELSE "ACTION_REQUIRED"

\* The code lists them in a fixed order.
Items(P, marks, departs) ==
    (IF Status(P, marks) = "ACTION_REQUIRED" THEN Papers ELSE {})
      \cup (IF Methods(P, marks) \cap {"AIRPORT", "UNKNOWN"} = {} THEN {}
            ELSE {"receive-refund"})
      \cup (IF Warned(P, departs) THEN {"export-deadline-warning"} ELSE {})

-----------------------------------------------------------------------------
(* Whether the amounts would allow an immediate refund: TRUE, FALSE, or    *)
(* Null for a total that is not known in KRW.                              *)

KnownTotal(row) == row.amount # Null /\ row.currency = "KRW"

KnownImmediateTotal(P) ==
    LET AmountOf(q) == P[q].amount
    IN  MapThenSumSet(AmountOf, {q \in DOMAIN P :
            P[q].method = "IMMEDIATE" /\ KnownTotal(P[q])})

\* A plausible bug: a purchase is added to a total it is part of.
ProjectedTwice(P, q) == KnownImmediateTotal(P) + P[q].amount

\* The immediate refunds of the trip with purchase q among them.
Projected(P, q) ==
    KnownImmediateTotal(P)
      + (IF P[q].method = "IMMEDIATE" THEN 0 ELSE P[q].amount)

Eligible(P, q) ==
    IF KnownTotal(P[q])
    THEN /\ P[q].amount < TransactionLimit
         /\ Projected(P, q) <= CumulativeLimit
    ELSE Null
=============================================================================
