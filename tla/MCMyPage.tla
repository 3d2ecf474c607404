------------------------------ MODULE MCMyPage ------------------------------
(***************************************************************************)
(* A small instance of MyPage. Rates are hundredths of a cent.             *)
(***************************************************************************)
EXTENDS MyPage

CONSTANTS p1, p2, s1, s2, r1, r2, r3, r4, r5, r6

Row(price, refund) == [price |-> price, refund |-> refund]
Seeded == [p \in Product |-> IF p = p1 THEN Row(50, 4) ELSE Row(100, 0)]

ReceiptOf(P, X) == [op : {"receipt"}, item : [product : P, price : X]]
Reviewed(S, M) == [op : {"review"}, session : S, purchased : M]
SeededRows(X) ==
    [op : {"seed"}, product : {p1}, row : {p \in ProductRow : p.price \in X}]
Published(R) == [op : {"publish"}, rate : R]
Page == [op : {"page"}]

\* Receipts, reviews and rows of every price and refund before and while the
\* page is read. No rate is cached at first; one or two may be by the time the
\* page is asked for and another while it is read. With these amounts they
\* give fractions of a cent below, at and above a half.
Follows ==
    [r \in Req |-> IF r = r6 THEN {r1, r2, r3} ELSE IF r = r3 THEN {r2} ELSE {}]

Calls ==
    [r \in Req |->
        CASE r = r1 -> ReceiptOf({p1, Null}, {50}) \cup ReceiptOf({p2}, {Null})
                         \cup ReceiptOf({Null}, Amount \ {0}) \cup SeededRows(Amount)
          [] r = r2 -> Reviewed({s1}, {{p1}, {p1, p2}}) \cup Published({1})
          [] r = r3 -> Reviewed({s1, s2}, {{}, {p1}, {p2}}) \cup Published({7, 33})
          [] r = r4 -> ReceiptOf({p1, Null}, {0, 100}) \cup Reviewed({s2}, {{p1}})
          [] r = r5 -> Published(Rate) \cup SeededRows({100})
          [] r = r6 -> Page]
=============================================================================
