---------------------------- MODULE MCPurchases ----------------------------
(***************************************************************************)
(* Small instances of Purchases. The dates are at the end of November and  *)
(* of February, where months have different lengths.                       *)
(***************************************************************************)
EXTENDS Purchases

CONSTANTS t1, t2, p1, p2, n1, n2, r1, r2, r3, r4, r5, r6

Nov29 == [year |-> 2025, month |-> 11, day |-> 29, time |-> 2]
Nov30 == [year |-> 2025, month |-> 11, day |-> 30, time |-> 1]
Feb28 == [year |-> 2026, month |-> 2, day |-> 28, time |-> 2]
Mar1  == [year |-> 2026, month |-> 3, day |-> 1, time |-> 1]

Dated == {Nov29, Nov30, Feb28, Mar1}

\* Two products share the name n2.
Names == [n \in ItemName |-> IF n = n1 THEN {p1} ELSE {p1, p2}]

ReceiptRead(when, amount, names) ==
    [kind |-> "receipt", purchased |-> when, amount |-> amount,
     currency |-> IF amount = Null THEN Null ELSE "KRW", names |-> names]
FlightRead(departs) == [kind |-> "flight", departs |-> departs, lands |-> Null]

Analysed ==
    {ReceiptRead(Nov29, 2, {n1}), ReceiptRead(Nov30, 3, {n2}),
     ReceiptRead(Null, Null, {n2}), FlightRead(Feb28), FlightRead(Mar1)}

ReceiptOf(T) == [op : {"receipt"}, trip : T]
FlightOf(T)  == [op : {"flight"}, trip : T]
Recorded(q, M) == [op : {"refund"}, purchase : {q}, method : M]
Departs(q, C) == [op : {"departure"}, flight : {q}, changes : C]
Marks(M) == [op : {"review"}, purchased : M]
Checklist(T) == [op : {"checklist"}, trip : T]
SetDeparts(x) == [f \in {"departs"} |-> x]
SetLands(x)   == [f \in {"lands"} |-> x]

-----------------------------------------------------------------------------
(* A receipt or a flight (r1) is followed by its refund method, by edits   *)
(* of the flight or by more receipts and flights, of this trip and of      *)
(* another one. One checklist follows the first calls and one follows the  *)
(* edits; both overlap the rest.                                           *)

Follows ==
    [r \in Req |-> CASE r \in {r2, r3} -> {r1}
                     [] r = r5 -> {r1, r4}
                     [] r = r6 -> {r1, r2, r3}
                     [] OTHER -> {}]

Calls ==
    [r \in Req |->
        CASE r = r1 -> ReceiptOf({t1}) \cup FlightOf({t1})
          [] r = r2 -> Recorded(r1, {"IMMEDIATE", "DOWNTOWN", "AIRPORT"})
                         \cup Departs(r1, {SetDeparts(Null), SetLands(Mar1)})
                         \cup ReceiptOf({t1})
          [] r = r3 -> ReceiptOf({t2}) \cup FlightOf({t1, NoTrip})
                         \cup Recorded(r1, {"IMMEDIATE"})
                         \cup Departs(r1, {SetDeparts(Feb28)})
          [] r = r4 -> Marks({{p1}}) \cup ReceiptOf({t1, NoTrip})
                         \cup Departs(r1, {SetLands(Null)})
          [] r = r5 -> Checklist({t1}) \cup Marks({{}})
          [] r = r6 -> Checklist({t1, NoTrip}) \cup Recorded(r4, {"IMMEDIATE"})]
=============================================================================
