------------------------------- MODULE MyPage -------------------------------
(***************************************************************************)
(* GET /me: the purchases of the user, from items of receipts and from     *)
(* products marked in shopping sessions, each quoted with the cached rate. *)
(* It runs on a thread, each SELECT a step: the receipts with their        *)
(* products, the rate anew for every quote, the marks with theirs.         *)
(***************************************************************************)
EXTENDS Requests, Pricing, FiniteSets

CONSTANTS
    Product, Session,
    Amount,           \* prices and refunds in KRW
    Rate,             \* cached rates, times Scale
    InitCatalogue,    \* the seeded products
    InitRate,         \* the rate that is cached already, or Null
    None

ProductRow == {p \in [price : Amount, refund : Amount] : p.refund <= p.price}

Item ==
    [product : Product \cup {Null}, price : Amount \cup {Null}]

Call ==
    [op : {"receipt"}, item : Item]
      \cup [op : {"review"}, session : Session, purchased : SUBSET Product]
      \cup [op : {"seed"}, product : Product, row : ProductRow]
      \cup [op : {"publish"}, rate : Rate]
      \cup [op : {"page"}]

ASSUME MyPageAssumption ==
    /\ Amount \subseteq Nat /\ Rate \subseteq Nat /\ InitRate \in Rate \cup {Null}
    /\ InitCatalogue \in [Product -> ProductRow]
    /\ Null \notin Nat /\ None \notin Item \cup ProductRow
    /\ CallsOf \in [Req -> SUBSET Call]
    /\ Before \in [Req -> SUBSET Req]

VARIABLES
    catalogue,   \* products
    items,       \* receipt_items by the request that inserted them
    marks,       \* session and product of session_products marked PURCHASED
    rate,        \* the cached rate to the currency of the page
    waiting,     \* lines of a page that have no quote yet
    listed       \* lines of a page that are complete

database == <<catalogue, items, marks, rate>>
vars     == <<database, pc, call, answer, waiting, listed>>

\* A line is from the receipt of a request or from a session. The row is the
\* product as the page has read it.
Line ==
    [from : Req \cup Session, product : Product \cup {Null},
     price : Amount \cup {Null}, row : ProductRow \cup {None}]

TypeOK ==
    /\ catalogue \in [Product -> ProductRow]
    /\ items \in [Req -> Item \cup {None}]
    /\ marks \subseteq Session \X Product
    /\ rate \in Rate \cup {Null}
    /\ pc \in [Req -> {"idle", "receipts", "marks", "done"}]
    /\ waiting \in [Req -> SUBSET Line]
    /\ \A r \in Req : \A l \in listed[r] :
          /\ l.line \in Line
          /\ l.quote = None \/ l.quote.rest \in Nat

Init ==
    /\ catalogue = InitCatalogue
    /\ items = [r \in Req |-> None]
    /\ marks = {}
    /\ rate = InitRate
    /\ RequestInit
    /\ waiting = [r \in Req |-> {}]
    /\ listed = [r \in Req |-> {}]

Asked(r, op) == \E c \in CallsOf[r] : c.op = op /\ Send(r, c)

-----------------------------------------------------------------------------
(* The calls that change what the page reads, each at its commit.          *)

StoreReceipt(r) ==
    /\ Asked(r, "receipt") /\ Reply(r, "201")
    /\ items' = [items EXCEPT ![r] = call'[r].item]
    /\ UNCHANGED <<catalogue, marks, rate, waiting, listed>>

Review(r) ==
    /\ Asked(r, "review") /\ Reply(r, "200")
    /\ marks' = {m \in marks : m[1] # call'[r].session}
                  \cup ({call'[r].session} \X call'[r].purchased)
    /\ UNCHANGED <<catalogue, items, rate, waiting, listed>>

SeedProduct(r) ==
    /\ Asked(r, "seed") /\ Reply(r, "200")
    /\ catalogue' = [catalogue EXCEPT ![call'[r].product] = call'[r].row]
    /\ UNCHANGED <<items, marks, rate, waiting, listed>>

\* Another process starts and refreshes the cache.
PublishRate(r) ==
    /\ Asked(r, "publish") /\ Reply(r, "200")
    /\ rate' = call'[r].rate
    /\ UNCHANGED <<catalogue, items, marks, waiting, listed>>

-----------------------------------------------------------------------------
(* The page.                                                               *)

RowOf(p) == IF p = Null THEN None ELSE catalogue[p]

PageReceipts(r) ==
    /\ Asked(r, "page") /\ Goto(r, "receipts")
    /\ waiting' = [waiting EXCEPT ![r] =
          {[from |-> q, product |-> items[q].product, price |-> items[q].price,
            row |-> RowOf(items[q].product)] :
              q \in {q \in Req : items[q] # None}}]
    /\ UNCHANGED <<database, listed>>

\* A receipt without a price has no quote. With a product of the catalogue
\* its price is quoted, not that of the receipt.
QuoteOfLine(l) ==
    IF l.from \in Req /\ l.price \in {Null, 0} THEN None
    ELSE IF l.row # None THEN Quote(l.row, rate) ELSE QuotePrice(l.price, rate)

QuoteLine(r) ==
    /\ \E l \in waiting[r] :
          /\ waiting' = [waiting EXCEPT ![r] = @ \ {l}]
          /\ listed' = [listed EXCEPT ![r] = @ \cup {[line |-> l, quote |-> QuoteOfLine(l)]}]
    /\ UNCHANGED <<database, pc, call, answer>>

\* A plausible bug: a product marked in two sessions is listed for both.
NewlyMarkedAnywhere(listedProducts) ==
    {{m \in marks : m[2] \notin listedProducts}}

\* A plausible bug: a session is skipped as soon as one product is listed.
NewlyMarkedBesides(listedProducts) ==
    {M \in SUBSET marks :
        /\ {m[2] : m \in M} =
              {n[2] : n \in {k \in marks :
                  \A p \in listedProducts : <<k[1], p>> \notin marks}}
        /\ \A m, n \in M : m[2] = n[2] => m = n}

\* One session for each marked product that is not listed yet.
NewlyMarked(listedProducts) ==
    {M \in SUBSET marks :
        /\ {m[2] : m \in M} = {m[2] : m \in marks} \ listedProducts
        /\ \A m, n \in M : m[2] = n[2] => m = n}

PageMarks(r) ==
    /\ pc[r] = "receipts" /\ waiting[r] = {}
    /\ \E M \in NewlyMarked({l.line.product : l \in listed[r]}) :
          waiting' = [waiting EXCEPT ![r] =
             {[from |-> m[1], product |-> m[2], price |-> catalogue[m[2]].price,
               row |-> catalogue[m[2]]] : m \in M}]
    /\ Goto(r, "marks")
    /\ UNCHANGED <<database, call, listed>>

PageDone(r) ==
    /\ pc[r] = "marks" /\ waiting[r] = {}
    /\ Reply(r, "200")
    /\ UNCHANGED <<database, call, waiting, listed>>

Next ==
    \/ \E r \in Req :
          \/ StoreReceipt(r) \/ Review(r) \/ SeedProduct(r) \/ PublishRate(r)
          \/ PageReceipts(r) \/ QuoteLine(r) \/ PageMarks(r) \/ PageDone(r)
    \/ AllAnswered /\ UNCHANGED vars

Spec == Init /\ [][Next]_vars

-----------------------------------------------------------------------------
(* Correctness.                                                            *)

\* A finished page shows every receipt stored before it was asked for, and
\* every product marked before unless a later review took the mark away; and
\* what a receipt or a session has listed is not listed again for a session
\* (the dedup of my_page).
PurchasesListedOnce ==
    \A r \in Req : call[r].op = "page" /\ pc[r] = "done" =>
        /\ \A k, l \in listed[r] :
              k # l /\ k.line.product = l.line.product =>
                  {k.line.from, l.line.from} \subseteq Req
        /\ \A q \in Before[r] :
              /\ call[q].op = "receipt" => \E l \in listed[r] : l.line.from = q
              /\ call[q].op = "review" =>
                    \A p \in call[q].purchased :
                        \/ \E l \in listed[r] : l.line.product = p
                        \/ \E u \in Req \ {q} : /\ call[u].op = "review"
                                                /\ call[u].session = call[q].session
                                                /\ p \notin call[u].purchased

\* The rates that may have been cached at some time while the page of r was
\* read: the first one or none, until one is published before the page, and
\* those published that are not replaced before it.
MayBeCached(r) ==
    LET published == {q \in Req : call[q].op = "publish"}
    IN  {x \in {InitRate} : published \cap Before[r] = {}}
          \cup {call[q].rate : q \in {o \in published :
                    /\ r \notin Before[o]
                    /\ \A u \in published \cap Before[r] : o \notin Before[u]}}

\* amount is the cents nearest to krw at the rate x, and the higher ones if
\* two are as near; without a rate there is no amount.
IsConversion(amount, krw, x) ==
    IF x = Null THEN amount = Null
    ELSE /\ amount # Null
         /\ 2 * (Scale * amount - 100 * krw * x) \in (1 - Scale) .. Scale

\* The refund and the price after it make up the price in KRW. All three are
\* converted at one rate that was cached while the page was read, or none is
\* converted and there was a time without a rate; and the rounded parts make
\* up the rounded price to a cent, which neither exceeds.
QuotesAddUp ==
    \A r \in Req : \A l \in listed[r] : l.quote # None =>
        LET q == l.quote
        IN  /\ q.refund \in 0 .. q.price /\ q.refund + q.rest = q.price
            /\ \E x \in MayBeCached(r) : /\ IsConversion(q.inPrice, q.price, x)
                                         /\ IsConversion(q.inRefund, q.refund, x)
                                         /\ IsConversion(q.inRest, q.rest, x)
            /\ q.inPrice # Null =>
                  /\ q.inRefund + q.inRest - q.inPrice \in -1 .. 1
                  /\ q.inRest <= q.inPrice /\ q.inRefund <= q.inPrice
=============================================================================
