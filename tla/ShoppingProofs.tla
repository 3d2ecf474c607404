--------------------------- MODULE ShoppingProofs ---------------------------
(***************************************************************************)
(* Proofs about Shopping, for every set of requests, calls, workers,       *)
(* sessions and products, and every database the sessions start from:      *)
(* types and what observations and reviews keep, then the order of calls   *)
(* of a session, wishes, and the refinement of SessionLedger.              *)
(***************************************************************************)
EXTENDS Shopping, FiniteSetTheorems, TLAPS

-----------------------------------------------------------------------------
(* Rows. *)

\* What an observation inserts is a row.
LEMMA FirstSightingType ==
    ASSUME NEW o \in Observation
    PROVE  FirstSighting(o) \in Row
  BY DEF Observation, Row, FirstSighting, PurchaseState

\* Merging an observation into a row gives a row.
LEMMA LaterSightingType ==
    ASSUME NEW row \in Row, NEW o \in Observation
    PROVE  LaterSighting(row, o) \in Row
<1>1. /\ Least(row.first, o.at) \in Nat
      /\ Greatest(row.last, o.at) \in Nat
      /\ Greatest(row.occupancy, o.occupancy) \in Nat
      /\ Greatest(row.dwell, o.dwell) \in Nat
  BY DEF Row, Observation, Least, Greatest
<1>2. o.trigger \in Trigger /\ row.count + 1 \in Nat \ {0}
  BY DEF Row, Observation
<1> QED
  BY <1>1, <1>2 DEF Row, LaterSighting

\* The column-wise UPDATE of a row with the columns of two others is a row.
LEMMA PatchType ==
    ASSUME NEW stored \in Row, NEW before \in Row, NEW new \in Row
    PROVE  Patch(stored, before, new) \in Row
  BY DEF Row, Patch, Column

\* The fields of a call, by its operation.
LEMMA CallFields ==
    ASSUME NEW c \in Call
    PROVE  /\ c.op \in {"complete", "recognize", "review"} =>
                c.session \in Session
           /\ c.op = "recognize" => c.seen \in Observation
           /\ c.op = "review" => /\ c.purchased \subseteq Product
                                 /\ c.interested \subseteq Product
           /\ c.op \in {"wish", "unwish"} =>
                c.product \in Product \cup {NoProduct}
  BY DEF Call

-----------------------------------------------------------------------------
(* Type correctness. A handler's step tells which call it serves and that  *)
(* nothing has been answered yet.                                          *)

Matches(r) ==
    /\ pc[r] = "complete" => call[r].op = "complete"
    /\ pc[r] \in {"await", "upsert"} => call[r].op = "recognize"
    /\ pc[r] \in {"wish", "insert", "mark"} => call[r].op = "review"
    /\ pc[r] = "add" => call[r].op = "wish"
    /\ pc[r] = "delete" => call[r].op = "unwish"
    /\ pc[r] = "idle" => call[r].op = "none"
    /\ pc[r] \in {"upsert", "insert"} => target[r] \in Product
    /\ pc[r] # "done" => answer[r] = ""

StepMatchesCall == \A r \in Req : Matches(r)

\* The rows a handler has loaded and will write back are still stored: no
\* handler deletes a row.
WritesBack(r, p) ==
    \/ pc[r] = "upsert" /\ p = target[r]
    \/ pc[r] \in {"wish", "insert", "mark"}

RowsStayStored ==
    \A r \in Req, p \in Product :
        WritesBack(r, p) /\ loaded[r][p] # NoRow =>
            rows[call[r].session][p] # NoRow

TypeInv == TypeOK /\ StepMatchesCall /\ RowsStayStored

\* A step that deletes no row.
KeepsRows ==
    \A s \in Session, p \in Product :
        rows[s][p] # NoRow => rows'[s][p] # NoRow

\* What was stored before has its types, and no handler has started.
LEMMA InitTypeInv == Init => TypeInv
<1> SUFFICES ASSUME Init PROVE TypeInv
  OBVIOUS
<1> USE DEF Init, RequestInit
<1>1. status \in [Session -> Status] /\ completedBy \in [Session -> Writer]
  BY InitAssumption DEF Writer
<1>2. rows \in [Session -> [Product -> MaybeRow]]
  BY InitAssumption
<1>3. wishlist \in [Product -> Writer]
  BY InitAssumption DEF Writer
<1>4. call \in [Req -> Call] /\ \A r \in Req : call[r].op = "none"
  BY DEF Call, NoCall
<1>5. pc \in [Req -> Step] /\ answer \in [Req -> Answer]
  BY DEF Step, Answer
<1>6. loaded \in [Req -> [Product -> MaybeRow]]
  BY DEF MaybeRow
<1>7. /\ item \in [Req -> Writer]
      /\ target \in [Req -> Product \cup {NoProduct}]
      /\ todo \in [Req -> SUBSET Product]
      /\ pending \in [Req -> SUBSET Product]
      /\ marked \in [Req -> BOOLEAN]
  BY DEF Writer
<1>8. StepMatchesCall
  BY <1>4 DEF StepMatchesCall, Matches
<1>9. RowsStayStored
  BY DEF RowsStayStored
<1> QED
  BY <1>1, <1>2, <1>3, <1>4, <1>5, <1>6, <1>7, <1>8, <1>9 DEF TypeInv, TypeOK

\* What a request sends is one of its calls.
LEMMA SendType ==
    ASSUME TypeInv, NEW r \in Req, NEW c \in CallsOf[r], Send(r, c)
    PROVE  /\ c \in Call /\ pc[r] = "idle"
           /\ call' \in [Req -> Call]
           /\ call'[r] = c
           /\ \A q \in Req \ {r} : call'[q] = call[q]
  BY RequestAssumption DEF TypeInv, TypeOK, Send

\* A request that stays is matched by its call as before; one that moves
\* keeps the types of its program counter and its answer.
LEMMA GotoType ==
    ASSUME TypeInv, NEW r \in Req, NEW step \in Step, Goto(r, step)
    PROVE  /\ pc' \in [Req -> Step] /\ answer' \in [Req -> Answer]
           /\ pc'[r] = step /\ answer'[r] = answer[r]
           /\ \A q \in Req \ {r} : pc'[q] = pc[q] /\ answer'[q] = answer[q]
  BY DEF TypeInv, TypeOK, Goto

\* A request that answers is done.
LEMMA ReplyType ==
    ASSUME TypeInv, NEW r \in Req, NEW code \in Answer, Reply(r, code)
    PROVE  /\ pc' \in [Req -> Step] /\ answer' \in [Req -> Answer]
           /\ pc'[r] = "done" /\ answer'[r] = code
           /\ \A q \in Req \ {r} : pc'[q] = pc[q] /\ answer'[q] = answer[q]
  BY DEF TypeInv, TypeOK, Reply, Step

\* What holds of the other requests still holds after a step of r.
LEMMA StepFrame ==
    ASSUME TypeInv, NEW r \in Req, Matches(r)', KeepsRows,
           \A p \in Product : WritesBack(r, p)' /\ loaded'[r][p] # NoRow =>
                                rows'[call'[r].session][p] # NoRow,
           \A q \in Req \ {r} : /\ pc'[q] = pc[q] /\ call'[q] = call[q]
                                /\ target'[q] = target[q]
                                /\ answer'[q] = answer[q]
                                /\ loaded'[q] = loaded[q]
    PROVE  StepMatchesCall' /\ RowsStayStored'
<1>1. StepMatchesCall'
  BY DEF TypeInv, StepMatchesCall, Matches
<1>2. ASSUME NEW q \in Req \ {r}, NEW p \in Product,
             WritesBack(q, p)', loaded'[q][p] # NoRow
      PROVE  rows'[call'[q].session][p] # NoRow
  <2>1. WritesBack(q, p) /\ loaded[q][p] # NoRow
    BY <1>2 DEF WritesBack
  <2>2. rows[call[q].session][p] # NoRow
    BY <2>1 DEF TypeInv, RowsStayStored
  <2>3. call[q].session \in Session
    BY <2>1, CallFields
    DEF TypeInv, TypeOK, StepMatchesCall, Matches, WritesBack
  <2> QED
    BY <2>2, <2>3 DEF KeepsRows
<1>3. RowsStayStored'
  BY <1>2 DEF RowsStayStored
<1> QED
  BY <1>1, <1>3

\* Where the handler of a call is after its first step, if it does not answer.
Entry(c) ==
    CASE c.op = "complete"  -> "complete"
      [] c.op = "recognize" -> "await"
      [] c.op = "review"    -> "wish"
      [] c.op = "wish"      -> "add"
      [] c.op = "unwish"    -> "delete"
      [] OTHER              -> "done"

\* The first step of a handler answers, or enters the handler of its call;
\* it changes no row and no wish, and tells nobody of a new product.
ArriveShape(r) ==
    /\ \E c \in CallsOf[r] :
          /\ Send(r, c)
          /\ \/ /\ \E code \in Answer \ {"", "NEW", "AGAIN"} : Reply(r, code)
                /\ UNCHANGED loaded
             \/ /\ Entry(c) # "done" /\ Goto(r, Entry(c))
                /\ loaded' = IF c.op = "review"
                             THEN [loaded EXCEPT ![r] = rows[c.session]]
                             ELSE loaded
    /\ UNCHANGED <<completedBy, rows, wishlist, target, pending, marked>>
    /\ status' \in [Session -> Status]
    /\ loaded' \in [Req -> [Product -> MaybeRow]]
    /\ item' \in [Req -> Writer]
    /\ todo' \in [Req -> SUBSET Product]

\* Each of the six handlers begins like this.
LEMMA ArriveHasShape ==
    ASSUME TypeInv, NEW r \in Req, Arrive(r)
    PROVE  ArriveShape(r)
<1> USE DEF ArriveShape, Entry, Answer, scratch, database, TypeInv, TypeOK
<1>1. CASE CreateSession(r)
  BY <1>1 DEF CreateSession, Status
<1>2. CASE CompleteRead(r)
  BY <1>2 DEF CompleteRead
<1>3. CASE RecognizeStart(r)
  BY <1>3 DEF RecognizeStart
<1>4. CASE ReviewRead(r)
  <2>1. PICK c \in CallsOf[r] :
           /\ c.op = "review" /\ Send(r, c)
           /\ \/ /\ Reply(r, "404") \/ Reply(r, "422")
                 /\ UNCHANGED scratch
              \/ /\ status[c.session] # NoSession
                 /\ loaded' = [loaded EXCEPT ![r] = rows[c.session]]
                 /\ todo' = [todo EXCEPT ![r] = Wanted(c)]
                 /\ Goto(r, "wish")
                 /\ UNCHANGED <<target, item, pending, marked>>
    BY <1>4 DEF ReviewRead
  <2>2. c.session \in Session /\ Wanted(c) \subseteq Product
    BY <2>1, SendType, CallFields DEF Wanted
  <2>5. rows[c.session] \in [Product -> MaybeRow]
    BY <2>2
  <2>6. /\ loaded \in [Req -> [Product -> MaybeRow]]
        /\ todo \in [Req -> SUBSET Product]
    OBVIOUS
  <2>3. UNCHANGED database
    BY <1>4 DEF ReviewRead
  <2>4. loaded' \in [Req -> [Product -> MaybeRow]]
    BY <2>1, <2>5, <2>6, Zenon
  <2>7. todo' \in [Req -> SUBSET Product]
    BY <2>1, <2>2, <2>6, Zenon
  <2>8. UNCHANGED <<target, item, pending, marked>>
    BY <2>1
  <2> QED
    BY <2>1, <2>3, <2>4, <2>7, <2>8
<1>5. CASE WishRead(r)
  BY <1>5 DEF WishRead
<1>6. CASE UnwishRead(r)
  <2>1. PICK c \in CallsOf[r] :
           /\ c.op = "unwish" /\ Send(r, c)
           /\ \/ Reply(r, "204") \/ Goto(r, "delete")
           /\ \/ UNCHANGED item
              \/ /\ c.product # NoProduct
                 /\ item' = [item EXCEPT ![r] = wishlist[c.product]]
    BY <1>6 DEF UnwishRead
  <2>2. c.product # NoProduct => wishlist[c.product] \in Writer
    BY <2>1, SendType, CallFields
  <2>3. item' \in [Req -> Writer]
    BY <2>1, <2>2
  <2> QED
    BY <1>6, <2>1, <2>3 DEF UnwishRead
<1> QED
  BY <1>1, <1>2, <1>3, <1>4, <1>5, <1>6 DEF Arrive

\* So the first step of a handler keeps the invariant.
LEMMA ArriveTypeInv ==
    ASSUME TypeInv, NEW r \in Req, ArriveShape(r)
    PROVE  TypeInv'
<1>1. PICK c \in CallsOf[r] :
         /\ Send(r, c)
         /\ \/ /\ \E code \in Answer \ {"", "NEW", "AGAIN"} : Reply(r, code)
               /\ UNCHANGED loaded
            \/ /\ Entry(c) # "done" /\ Goto(r, Entry(c))
               /\ loaded' = IF c.op = "review"
                            THEN [loaded EXCEPT ![r] = rows[c.session]]
                            ELSE loaded
  BY DEF ArriveShape
<1>2. Entry(c) \in Step
  BY DEF Entry, Step
<1>3. answer[r] = ""
  BY <1>1, SendType DEF TypeInv, StepMatchesCall, Matches
<1>4. /\ pc' \in [Req -> Step] /\ answer' \in [Req -> Answer]
      /\ \/ pc'[r] = "done"
         \/ /\ Entry(c) # "done" /\ pc'[r] = Entry(c) /\ answer'[r] = ""
            /\ c.op = "review" => loaded'[r] = rows[c.session]
      /\ \A q \in Req \ {r} : /\ pc'[q] = pc[q] /\ answer'[q] = answer[q]
                              /\ loaded'[q] = loaded[q]
  BY <1>1, <1>2, <1>3, GotoType, ReplyType DEF TypeInv, TypeOK
<1>5. TypeOK'
  BY <1>1, <1>4, SendType DEF ArriveShape, TypeInv, TypeOK
<1>6. call'[r] = c
  BY <1>1, SendType
<1>7. Matches(r)'
  BY <1>4, <1>6 DEF Matches, Entry
<1>8. \A q \in Req \ {r} : call'[q] = call[q] /\ target'[q] = target[q]
  BY <1>1, SendType DEF ArriveShape
<1>9. \A p \in Product : WritesBack(r, p)' /\ loaded'[r][p] # NoRow =>
                           rows'[call'[r].session][p] # NoRow
  BY <1>4, <1>6 DEF WritesBack, Entry, ArriveShape
<1>10. KeepsRows
  BY DEF KeepsRows, ArriveShape
<1> QED
  BY <1>4, <1>5, <1>7, <1>8, <1>9, <1>10, StepFrame DEF TypeInv

\* A started handler goes on: the facts that keep the invariant.
LEMMA GotoTypeInv ==
    ASSUME TypeInv, NEW r \in Req, NEW step \in Step, Goto(r, step),
           UNCHANGED <<database, call>>,
           \A q \in Req \ {r} : target'[q] = target[q] /\ loaded'[q] = loaded[q],
           Matches(r)',
           \A p \in Product : WritesBack(r, p)' /\ loaded'[r][p] # NoRow =>
                                rows'[call'[r].session][p] # NoRow,
           loaded' \in [Req -> [Product -> MaybeRow]],
           target' \in [Req -> Product \cup {NoProduct}],
           item' \in [Req -> Writer],
           todo' \in [Req -> SUBSET Product],
           pending' \in [Req -> SUBSET Product],
           marked' \in [Req -> BOOLEAN]
    PROVE  TypeInv'
<1>1. TypeOK'
  BY GotoType DEF TypeInv, TypeOK, database
<1>2. KeepsRows
  BY DEF KeepsRows, database
<1> QED
  BY <1>1, <1>2, GotoType, StepFrame DEF TypeInv

\* A started handler answers: the facts that keep the invariant.
LEMMA ReplyTypeInv ==
    ASSUME TypeInv, NEW r \in Req, NEW code \in Answer, Reply(r, code),
           UNCHANGED <<call, loaded, target, item, todo, marked>>,
           status' \in [Session -> Status],
           completedBy' \in [Session -> Writer],
           rows' \in [Session -> [Product -> MaybeRow]],
           KeepsRows,
           wishlist' \in [Product -> Writer],
           pending' \in [Req -> SUBSET Product]
    PROVE  TypeInv'
<1>1. TypeOK'
  BY ReplyType DEF TypeInv, TypeOK
<1>2. Matches(r)' /\ \A p \in Product : ~WritesBack(r, p)'
  BY ReplyType DEF Matches, WritesBack
<1> QED
  BY <1>1, <1>2, ReplyType, StepFrame DEF TypeInv

\* What a merge works on.
LEMMA UpsertArgs ==
    ASSUME TypeInv, NEW r \in Req, pc[r] = "upsert"
    PROVE  /\ call[r].op = "recognize"
           /\ call[r].session \in Session
           /\ call[r].seen \in Observation
           /\ target[r] \in Product
           /\ loaded[r][target[r]] \in MaybeRow
           /\ rows[call[r].session][target[r]] \in MaybeRow
           /\ loaded[r][target[r]] # NoRow =>
                rows[call[r].session][target[r]] # NoRow
<1>1. call[r].op = "recognize" /\ target[r] \in Product
  BY DEF TypeInv, StepMatchesCall, Matches
<1>2. call[r] \in Call
  BY DEF TypeInv, TypeOK
<1>3. call[r].session \in Session /\ call[r].seen \in Observation
  BY <1>1, <1>2, CallFields
<1> QED
  BY <1>1, <1>3 DEF TypeInv, TypeOK, RowsStayStored, WritesBack

\* The three outcomes of a merge.
LEMMA UpsertCases ==
    ASSUME TypeInv, NEW r \in Req, Upsert(r)
    PROVE  LET s == call[r].session
               p == target[r]
               o == call[r].seen
           IN  \/ Reply(r, "500") /\ UNCHANGED rows
               \/ /\ rows[s][p] = NoRow /\ o.dwell <= MaxDwell
                  /\ rows' = [rows EXCEPT ![s][p] = FirstSighting(o)]
                  /\ Reply(r, "NEW")
               \/ /\ rows[s][p] \in Row /\ loaded[r][p] \in Row
                  /\ o.dwell <= MaxDwell
                  /\ rows' = [rows EXCEPT ![s][p] =
                        Patch(rows[s][p], loaded[r][p],
                              LaterSighting(loaded[r][p], o))]
                  /\ Reply(r, "AGAIN")
  BY UpsertArgs DEF Upsert, DuplicateRow, MaybeRow

\* A merge leaves rows, and deletes none.
LEMMA UpsertRows ==
    ASSUME TypeInv, NEW r \in Req, Upsert(r)
    PROVE  rows' \in [Session -> [Product -> MaybeRow]] /\ KeepsRows
<1> DEFINE s == call[r].session
           p == target[r]
           o == call[r].seen
<1>1. s \in Session /\ p \in Product /\ o \in Observation
  BY UpsertArgs DEF Upsert
<1>2. CASE UNCHANGED rows
  BY <1>2 DEF TypeInv, TypeOK, KeepsRows
<1>3. ASSUME NEW new \in Row, rows' = [rows EXCEPT ![s][p] = new]
      PROVE  rows' \in [Session -> [Product -> MaybeRow]] /\ KeepsRows
  BY <1>1, <1>3, NoRowAssumption DEF TypeInv, TypeOK, KeepsRows, MaybeRow
<1>4. FirstSighting(o) \in Row
  BY <1>1, FirstSightingType
<1>5. loaded[r][p] \in Row /\ rows[s][p] \in Row =>
        Patch(rows[s][p], loaded[r][p], LaterSighting(loaded[r][p], o)) \in Row
  BY <1>1, PatchType, LaterSightingType
<1> QED
  BY <1>2, <1>3, <1>4, <1>5, UpsertCases

\* What a review works on.
LEMMA ReviewArgs ==
    ASSUME TypeInv, NEW r \in Req, pc[r] \in {"wish", "insert", "mark"}
    PROVE  /\ call[r].op = "review"
           /\ call[r].session \in Session
           /\ \A p \in Product :
                /\ loaded[r][p] \in MaybeRow
                /\ loaded[r][p] # NoRow => rows[call[r].session][p] \in Row
                /\ Changes(r, p) => /\ loaded[r][p] \in Row
                                    /\ ReviewedRow(r, p) \in Row
<1>1. call[r].op = "review"
  BY DEF TypeInv, StepMatchesCall, Matches
<1>2. call[r] \in Call
  BY DEF TypeInv, TypeOK
<1>3. call[r].session \in Session
  BY <1>1, <1>2, CallFields
<1>4. ASSUME NEW p \in Product
      PROVE  /\ loaded[r][p] \in MaybeRow
             /\ loaded[r][p] # NoRow => rows[call[r].session][p] \in Row
             /\ Changes(r, p) => /\ loaded[r][p] \in Row
                                 /\ ReviewedRow(r, p) \in Row
  <2>1. loaded[r][p] \in MaybeRow /\ rows[call[r].session][p] \in MaybeRow
    BY <1>3 DEF TypeInv, TypeOK
  <2>2. loaded[r][p] # NoRow => rows[call[r].session][p] # NoRow
    BY DEF TypeInv, RowsStayStored, WritesBack
  <2>3. loaded[r][p] \in Row => ReviewedRow(r, p) \in Row
    BY DEF ReviewedRow, Reviewed, Row, PurchaseState
  <2> QED
    BY <2>1, <2>2, <2>3 DEF Changes, MaybeRow
<1> QED
  BY <1>1, <1>3, <1>4

\* A review goes on.
LEMMA ReviewStepTypeInv ==
    ASSUME TypeInv, NEW r \in Req, NEW step \in Step, Goto(r, step),
           pc[r] \in {"wish", "insert", "mark"},
           step \in {"wish", "insert", "mark"},
           UNCHANGED <<database, call, loaded, item>>,
           step = "insert" => target'[r] \in Product,
           \A q \in Req \ {r} : target'[q] = target[q],
           target' \in [Req -> Product \cup {NoProduct}],
           todo' \in [Req -> SUBSET Product],
           pending' \in [Req -> SUBSET Product],
           marked' \in [Req -> BOOLEAN]
    PROVE  TypeInv'
<1>1. pc'[r] = step /\ answer'[r] = answer[r]
  BY GotoType
<1>2. answer[r] = "" /\ call[r].op = "review"
  BY DEF TypeInv, StepMatchesCall, Matches
<1>3. Matches(r)'
  BY <1>1, <1>2 DEF Matches
<1>4. \A p \in Product : WritesBack(r, p)' /\ loaded'[r][p] # NoRow =>
                           rows'[call'[r].session][p] # NoRow
  BY <1>1 DEF TypeInv, RowsStayStored, WritesBack, database
<1>5. loaded \in [Req -> [Product -> MaybeRow]] /\ item \in [Req -> Writer]
  BY DEF TypeInv, TypeOK
<1> QED
  BY <1>3, <1>4, <1>5, GotoTypeInv

\* The UPDATEs of a review leave rows, and delete none.
LEMMA ReviewCommitRows ==
    ASSUME TypeInv, NEW r \in Req, ReviewCommit(r)
    PROVE  rows' \in [Session -> [Product -> MaybeRow]] /\ KeepsRows
<1> DEFINE s == call[r].session
           new == [p \in Product |->
                     IF Changes(r, p)
                     THEN Patch(rows[s][p], loaded[r][p], ReviewedRow(r, p))
                     ELSE rows[s][p]]
<1>1. s \in Session /\ rows' = [rows EXCEPT ![s] = new]
  BY ReviewArgs DEF ReviewCommit
<1>2. ASSUME NEW p \in Product
      PROVE  /\ new[p] \in MaybeRow
             /\ rows[s][p] # NoRow => new[p] # NoRow
  <2>1. CASE Changes(r, p)
    <3>1. /\ loaded[r][p] \in Row /\ ReviewedRow(r, p) \in Row
          /\ rows[s][p] \in Row
      BY <2>1, ReviewArgs DEF ReviewCommit, Changes
    <3>2. new[p] \in Row
      BY <2>1, <3>1, PatchType
    <3> QED
      BY <3>2, NoRowAssumption DEF MaybeRow
  <2>2. CASE ~Changes(r, p)
    BY <1>1, <2>2 DEF TypeInv, TypeOK
  <2> QED
    BY <2>1, <2>2
<1>3. new \in [Product -> MaybeRow]
  BY <1>2
<1> HIDE DEF new
<1>4. rows' \in [Session -> [Product -> MaybeRow]]
  BY <1>1, <1>3 DEF TypeInv, TypeOK
<1>5. KeepsRows
  BY <1>1, <1>2 DEF KeepsRows, TypeInv, TypeOK
<1> QED
  BY <1>4, <1>5

\* A later step of a handler keeps the invariant, handler by handler.
LEMMA ProceedTypeInv ==
    ASSUME TypeInv, NEW r \in Req, Proceed(r)
    PROVE  TypeInv'
<1> USE DEF scratch, database
<1>0. /\ status \in [Session -> Status]
      /\ completedBy \in [Session -> Writer]
      /\ rows \in [Session -> [Product -> MaybeRow]]
      /\ wishlist \in [Product -> Writer]
      /\ loaded \in [Req -> [Product -> MaybeRow]]
      /\ target \in [Req -> Product \cup {NoProduct}]
      /\ item \in [Req -> Writer]
      /\ todo \in [Req -> SUBSET Product]
      /\ pending \in [Req -> SUBSET Product]
      /\ marked \in [Req -> BOOLEAN]
  BY DEF TypeInv, TypeOK
<1>1. CASE CompleteCommit(r)
  <2>1. status' \in [Session -> Status] /\ completedBy' \in [Session -> Writer]
    BY <1>0, <1>1 DEF CompleteCommit, Status, Writer
  <2>2. KeepsRows
    BY <1>1 DEF CompleteCommit, KeepsRows
  <2> QED
    BY <1>0, <1>1, <2>1, <2>2, ReplyTypeInv DEF CompleteCommit, Answer
<1>2. CASE RecognizeNoMatch(r)
  <2>1. PICK code \in Answer : Reply(r, code)
    BY <1>2 DEF RecognizeNoMatch, Answer
  <2>2. KeepsRows
    BY <1>2 DEF RecognizeNoMatch, KeepsRows
  <2> QED
    BY <1>0, <1>2, <2>1, <2>2, ReplyTypeInv DEF RecognizeNoMatch
<1>3. CASE RecognizeMatch(r)
  <2>1. PICK p \in Product :
          /\ target' = [target EXCEPT ![r] = p]
          /\ loaded' = [loaded EXCEPT ![r][p] = rows[call[r].session][p]]
    BY <1>3, CatalogueAssumption DEF RecognizeMatch
  <2>2. call[r].op = "recognize" /\ call[r].session \in Session
    BY <1>3, CallFields
    DEF RecognizeMatch, TypeInv, TypeOK, StepMatchesCall, Matches
  <2>3. rows[call[r].session][p] \in MaybeRow
    BY <1>0, <2>2
  <2>4. /\ loaded' \in [Req -> [Product -> MaybeRow]]
        /\ target' \in [Req -> Product \cup {NoProduct}]
        /\ target'[r] = p /\ loaded'[r][p] = rows[call[r].session][p]
        /\ \A q \in Req \ {r} : target'[q] = target[q] /\ loaded'[q] = loaded[q]
    BY <1>0, <2>1, <2>3
  <2>5. Goto(r, "upsert") /\ UNCHANGED <<database, call, item, todo, pending, marked>>
    BY <1>3 DEF RecognizeMatch
  <2>6. "upsert" \in Step /\ pc'[r] = "upsert" /\ answer'[r] = answer[r]
    BY <2>5, GotoType DEF Step
  <2>7. answer[r] = ""
    BY <1>3 DEF RecognizeMatch, TypeInv, StepMatchesCall, Matches
  <2>8. Matches(r)'
    BY <2>2, <2>4, <2>5, <2>6, <2>7 DEF Matches
  <2>9. \A x \in Product : WritesBack(r, x)' /\ loaded'[r][x] # NoRow =>
                             rows'[call'[r].session][x] # NoRow
    BY <2>4, <2>5, <2>6 DEF WritesBack
  <2> QED
    BY <1>0, <2>4, <2>5, <2>6, <2>8, <2>9, GotoTypeInv
<1>4. CASE Upsert(r)
  <2>1. PICK code \in Answer : Reply(r, code)
    BY <1>4, UpsertCases DEF Answer
  <2> QED
    BY <1>0, <1>4, <2>1, UpsertRows, ReplyTypeInv DEF Upsert
<1>5. CASE ReviewLook(r)
  <2>1. PICK p \in todo[r], step \in {"wish", "insert"} :
          /\ Goto(r, step)
          /\ todo' = [todo EXCEPT ![r] = @ \ {p}]
          /\ \/ step = "wish" /\ UNCHANGED target
             \/ target' = [target EXCEPT ![r] = p]
    BY <1>5 DEF ReviewLook
  <2>2. p \in Product /\ step \in Step
    BY <1>0 DEF Step
  <2>3. /\ todo' \in [Req -> SUBSET Product]
        /\ target' \in [Req -> Product \cup {NoProduct}]
        /\ step = "insert" => target'[r] \in Product
        /\ \A q \in Req \ {r} : target'[q] = target[q]
    BY <1>0, <2>1, <2>2
  <2>4. UNCHANGED <<database, call, loaded, item, pending, marked>>
    BY <1>5 DEF ReviewLook
  <2> QED
    BY <1>0, <1>5, <2>1, <2>2, <2>3, <2>4, ReviewStepTypeInv DEF ReviewLook
<1>6. CASE ReviewInsert(r)
  <2>1. target[r] \in Product
    BY <1>6 DEF ReviewInsert, TypeInv, StepMatchesCall, Matches
  <2>2. CASE FailOnDuplicate(r)
    <3>1. pending' \in [Req -> SUBSET Product]
      BY <1>0, <2>2 DEF FailOnDuplicate
    <3>2. KeepsRows
      BY <1>6 DEF ReviewInsert, KeepsRows
    <3> QED
      BY <1>0, <1>6, <2>2, <3>1, <3>2, ReplyTypeInv
      DEF ReviewInsert, FailOnDuplicate, Answer
  <2>3. CASE /\ pending' = [pending EXCEPT ![r] = @ \cup {target[r]}]
             /\ Goto(r, IF marked[r] THEN "wish" ELSE "mark")
    <3>1. PICK step \in Step : step \in {"wish", "mark"} /\ Goto(r, step)
      BY <2>3 DEF Step
    <3>2. pending' \in [Req -> SUBSET Product]
      BY <1>0, <2>1, <2>3
    <3> QED
      BY <1>0, <1>6, <3>1, <3>2, ReviewStepTypeInv DEF ReviewInsert
  <2> QED
    BY <1>6, <2>2, <2>3 DEF ReviewInsert
<1>7. CASE ReviewMark(r)
  <2>1. pc[r] \in {"wish", "mark"}
    BY <1>7 DEF ReviewMark, Marking
  <2>2. marked' \in [Req -> BOOLEAN] /\ "wish" \in Step
    BY <1>0, <1>7 DEF ReviewMark, Step
  <2> QED
    BY <1>0, <1>7, <2>1, <2>2, ReviewStepTypeInv DEF ReviewMark
<1>8. CASE ReviewCommit(r)
  <2>1. wishlist' \in [Product -> Writer] /\ pending' \in [Req -> SUBSET Product]
    BY <1>0, <1>8 DEF ReviewCommit, Writer
  <2> QED
    BY <1>0, <1>8, <2>1, ReviewCommitRows, ReplyTypeInv DEF ReviewCommit, Answer
<1>9. CASE WishAdd(r)
  <2>1. wishlist' \in [Product -> Writer]
    BY <1>0, <1>9 DEF WishAdd, Writer
  <2>2. PICK code \in Answer : Reply(r, code)
    BY <1>9 DEF WishAdd, Answer
  <2>3. KeepsRows
    BY <1>9 DEF WishAdd, KeepsRows
  <2> QED
    BY <1>0, <1>9, <2>1, <2>2, <2>3, ReplyTypeInv DEF WishAdd
<1>10. CASE UnwishDelete(r)
  <2>1. wishlist' \in [Product -> Writer]
    BY <1>0, <1>10 DEF UnwishDelete, Writer
  <2>2. KeepsRows
    BY <1>10 DEF UnwishDelete, KeepsRows
  <2> QED
    BY <1>0, <1>10, <2>1, <2>2, ReplyTypeInv DEF UnwishDelete, Answer
<1>11. CASE DeadlockAbort(r)
  <2>1. KeepsRows
    BY <1>11 DEF DeadlockAbort, KeepsRows
  <2> QED
    BY <1>0, <1>11, <2>1, ReplyTypeInv DEF DeadlockAbort, Answer
<1> QED
  BY <1>1, <1>2, <1>3, <1>4, <1>5, <1>6, <1>7, <1>8, <1>9, <1>10, <1>11
  DEF Proceed

\* And so does every step.
LEMMA StepTypeInv == TypeInv /\ [Next]_vars => TypeInv'
<1> SUFFICES ASSUME TypeInv, [Next]_vars PROVE TypeInv'
  OBVIOUS
<1>1. CASE \E r \in Req : Arrive(r)
  BY <1>1, ArriveHasShape, ArriveTypeInv
<1>2. CASE \E r \in Req : Proceed(r)
  BY <1>2, ProceedTypeInv
<1>3. CASE UNCHANGED vars
  BY <1>3 DEF vars, database, scratch, TypeInv, TypeOK, StepMatchesCall, Matches,
     RowsStayStored, WritesBack
<1> QED
  BY <1>1, <1>2, <1>3 DEF Next, Quiet, AllAnswered

\* Hence it always holds.
LEMMA TypeInvariance == Spec => []TypeInv
  BY InitTypeInv, StepTypeInv, PTL DEF Spec

\* Every variable keeps its type: in particular a stored row keeps a count of
\* at least one and a trigger, whatever UPDATEs are applied to it.
THEOREM TypeCorrect == Spec => []TypeOK
  BY TypeInvariance, PTL DEF TypeInv

-----------------------------------------------------------------------------
(* Only a merge acknowledges an observation.                               *)

\* What a step of r, not a merge, leaves alone.
LEMMA QuietStep ==
    ASSUME TypeInv, NEW r \in Req,
           Arrive(r) \/ (Proceed(r) /\ ~Upsert(r))
    PROVE  /\ pc[r] # "done" /\ answer'[r] \notin {"NEW", "AGAIN"}
           /\ \A q \in Req \ {r} : /\ call'[q] = call[q]
                                   /\ target'[q] = target[q]
                                   /\ answer'[q] = answer[q]
                                   /\ loaded'[q] = loaded[q]
                                   /\ pc'[q] = pc[q]
<1>1. CASE Arrive(r)
  <2>1. PICK c \in CallsOf[r] :
         /\ Send(r, c)
         /\ \/ \E code \in Answer \ {"", "NEW", "AGAIN"} : Reply(r, code)
            \/ Entry(c) # "done" /\ Goto(r, Entry(c))
         /\ \/ UNCHANGED loaded
            \/ loaded' = [loaded EXCEPT ![r] = rows[c.session]]
    BY <1>1, ArriveHasShape DEF ArriveShape
  <2>2. answer[r] = ""
    BY <2>1, SendType DEF TypeInv, StepMatchesCall, Matches
  <2>3. Entry(c) \in Step
    BY DEF Entry, Step
  <2>4. /\ answer'[r] \notin {"NEW", "AGAIN"}
        /\ \A q \in Req \ {r} : answer'[q] = answer[q] /\ pc'[q] = pc[q]
    BY <2>1, <2>2, <2>3, GotoType, ReplyType
  <2>5. \A q \in Req \ {r} : target'[q] = target[q] /\ loaded'[q] = loaded[q]
    BY <1>1, <2>1, ArriveHasShape DEF ArriveShape, TypeInv, TypeOK
  <2> QED
    BY <2>1, <2>4, <2>5, SendType
<1>2. CASE Proceed(r) /\ ~Upsert(r)
  <2>1. /\ pc[r] # "done"
        /\ UNCHANGED call
        /\ \A q \in Req \ {r} : target'[q] = target[q] /\ loaded'[q] = loaded[q]
    BY <1>2 DEF Proceed, CompleteCommit, RecognizeNoMatch, RecognizeMatch,
       ReviewLook, ReviewInsert, ReviewMark, Marking, ReviewCommit, WishAdd,
       UnwishDelete, DeadlockAbort, InDeadlock, Deadlocked, WaitsFor, scratch,
       database, TypeInv, TypeOK
  <2>2. \/ \E code \in Answer \ {"NEW", "AGAIN"} : Reply(r, code)
        \/ \E step \in Step : Goto(r, step)
    BY <1>2 DEF Proceed, CompleteCommit, RecognizeNoMatch, RecognizeMatch,
       ReviewLook, ReviewInsert, FailOnDuplicate, ReviewMark, ReviewCommit,
       WishAdd, UnwishDelete, DeadlockAbort, Step, Answer
  <2>3. answer[r] = ""
    BY <2>1 DEF TypeInv, StepMatchesCall, Matches
  <2> QED
    BY <2>1, <2>2, <2>3, GotoType, ReplyType
<1> QED
  BY <1>1, <1>2

\* A step that merges nothing acknowledges no observation.
LEMMA QuietSightings ==
    ASSUME TypeInv, NEW r \in Req,
           Arrive(r) \/ (Proceed(r) /\ ~Upsert(r)),
           NEW s \in Session, NEW p \in Product
    PROVE  /\ Sightings(s, p)' = Sightings(s, p)
           /\ \A q \in Sightings(s, p) : answer'[q] = answer[q] /\ call'[q] = call[q]
<1>1. answer[r] = ""
  BY QuietStep DEF TypeInv, StepMatchesCall, Matches
<1> QED
  BY <1>1, QuietStep DEF Sightings

\* A merge acknowledges its own observation, or none.
LEMMA UpsertSightings ==
    ASSUME TypeInv, NEW r \in Req, Upsert(r),
           NEW s \in Session, NEW p \in Product
    PROVE  /\ Sightings(s, p)' =
                IF /\ s = call[r].session /\ p = target[r]
                   /\ answer'[r] \in {"NEW", "AGAIN"}
                THEN Sightings(s, p) \cup {r} ELSE Sightings(s, p)
           /\ r \notin Sightings(s, p)
           /\ \A q \in Req \ {r} : answer'[q] = answer[q] /\ pc'[q] = pc[q]
           /\ UNCHANGED <<call, target, loaded>>
<1>1. answer[r] = "" /\ call[r].op = "recognize"
  BY DEF Upsert, TypeInv, StepMatchesCall, Matches
<1>2. UNCHANGED <<call, target, loaded>>
  BY DEF Upsert, scratch
<1>3. \A q \in Req \ {r} : answer'[q] = answer[q] /\ pc'[q] = pc[q]
  BY UpsertCases, ReplyType DEF Answer
<1> QED
  BY <1>1, <1>2, <1>3 DEF Sightings

\* An acknowledged observation leaves a row.
LEMMA UpsertStores ==
    ASSUME TypeInv, NEW r \in Req, Upsert(r), answer'[r] \in {"NEW", "AGAIN"}
    PROVE  rows'[call[r].session][target[r]] \in Row
<1> DEFINE s == call[r].session
           p == target[r]
           o == call[r].seen
<1>1. s \in Session /\ p \in Product /\ o \in Observation
  BY UpsertArgs DEF Upsert
<1>2. \/ rows' = [rows EXCEPT ![s][p] = FirstSighting(o)]
      \/ /\ rows[s][p] \in Row /\ loaded[r][p] \in Row
         /\ rows' = [rows EXCEPT ![s][p] =
               Patch(rows[s][p], loaded[r][p], LaterSighting(loaded[r][p], o))]
  BY UpsertCases, ReplyType DEF Answer
<1>3. ASSUME NEW new \in Row, rows' = [rows EXCEPT ![s][p] = new]
      PROVE  rows'[s][p] \in Row
  BY <1>1, <1>3 DEF TypeInv, TypeOK
<1> QED
  BY <1>1, <1>2, <1>3, FirstSightingType, PatchType, LaterSightingType

\* A step that merges nothing neither inserts nor deletes a row.
LEMMA QuietRows ==
    ASSUME TypeInv, NEW r \in Req,
           Arrive(r) \/ (Proceed(r) /\ ~Upsert(r)),
           NEW s \in Session, NEW p \in Product
    PROVE  rows'[s][p] = NoRow <=> rows[s][p] = NoRow
<1>1. CASE ReviewCommit(r)
  <2>1. KeepsRows
    BY <1>1, ReviewCommitRows
  <2>2. rows[s][p] = NoRow => rows'[s][p] = NoRow
    BY <1>1, ReviewArgs, NoRowAssumption
    DEF ReviewCommit, Changes, TypeInv, TypeOK
  <2> QED
    BY <2>1, <2>2 DEF KeepsRows
<1>2. CASE ~ReviewCommit(r)
  <2>1. UNCHANGED rows
    BY <1>2, ArriveHasShape DEF ArriveShape, Proceed, CompleteCommit,
       RecognizeNoMatch, RecognizeMatch, ReviewLook, ReviewInsert, ReviewMark,
       WishAdd, UnwishDelete, DeadlockAbort, database
  <2> QED
    BY <2>1
<1> QED
  BY <1>1, <1>2

-----------------------------------------------------------------------------
(* isNew. *)

NewInv ==
    /\ OneNewPerProduct
    /\ \A s \in Session, p \in Product :
          rows[s][p] = NoRow => InitRows[s][p] = NoRow /\ Sightings(s, p) = {}

\* A merge told that its product is new has found no row.
LEMMA NewInvariance == TypeInv /\ NewInv /\ [Next]_vars => NewInv'
<1> SUFFICES ASSUME TypeInv, NewInv, [Next]_vars PROVE NewInv'
  OBVIOUS
<1>1. ASSUME NEW r \in Req, Arrive(r) \/ (Proceed(r) /\ ~Upsert(r))
      PROVE  NewInv'
  <2>1. OneNewPerProduct'
    BY <1>1, QuietSightings DEF NewInv, OneNewPerProduct
  <2>2. ASSUME NEW s \in Session, NEW p \in Product, rows'[s][p] = NoRow
        PROVE  InitRows[s][p] = NoRow /\ Sightings(s, p)' = {}
    BY <1>1, <2>2, QuietSightings, QuietRows DEF NewInv
  <2> QED
    BY <2>1, <2>2 DEF NewInv
<1>2. ASSUME NEW r \in Req, Upsert(r)
      PROVE  NewInv'
  <2> DEFINE s == call[r].session
             p == target[r]
  <2>1. s \in Session /\ p \in Product
    BY <1>2, UpsertArgs DEF Upsert
  <2>2. answer'[r] = "NEW" => rows[s][p] = NoRow
    BY <1>2, <2>1, UpsertCases, ReplyType DEF Answer
  <2>3. OneNewPerProduct'
    <3>1. SUFFICES ASSUME NEW x \in Session, NEW y \in Product,
                          NEW q1 \in Sightings(x, y)', NEW q2 \in Sightings(x, y)',
                          answer'[q2] = "NEW"
                   PROVE  /\ InitRows[x][y] = NoRow
                          /\ answer'[q1] = "NEW" => q1 = q2
      BY DEF OneNewPerProduct
    <3>2. CASE q2 = r
      <4>1. x = s /\ y = p /\ rows[x][y] = NoRow
        BY <1>2, <2>2, <3>1, <3>2, UpsertSightings
      <4>2. Sightings(x, y) = {} /\ InitRows[x][y] = NoRow
        BY <4>1 DEF NewInv
      <4> QED
        BY <1>2, <3>2, <4>2, UpsertSightings
    <3>3. CASE q2 # r
      <4>1. q2 \in Sightings(x, y) /\ answer[q2] = "NEW"
        BY <1>2, <3>1, <3>3, UpsertSightings DEF Sightings
      <4>2. q1 = r => answer'[r] # "NEW"
        BY <1>2, <2>2, <3>1, <4>1, UpsertSightings DEF NewInv
      <4>3. q1 # r => q1 \in Sightings(x, y) /\ answer'[q1] = answer[q1]
        BY <1>2, <3>1, UpsertSightings DEF Sightings
      <4> QED
        BY <3>1, <4>1, <4>2, <4>3 DEF NewInv, OneNewPerProduct
    <3> QED
      BY <3>2, <3>3
  <2>4. ASSUME NEW x \in Session, NEW y \in Product, rows'[x][y] = NoRow
        PROVE  InitRows[x][y] = NoRow /\ Sightings(x, y)' = {}
    <3>1. rows[x][y] = NoRow
      BY <1>2, <2>4, UpsertRows DEF KeepsRows
    <3>2. ~(x = s /\ y = p /\ answer'[r] \in {"NEW", "AGAIN"})
      BY <1>2, <2>4, UpsertStores, NoRowAssumption
    <3> QED
      BY <1>2, <3>1, <3>2, UpsertSightings DEF NewInv
  <2> QED
    BY <2>3, <2>4 DEF NewInv
<1>3. CASE UNCHANGED vars
  BY <1>3 DEF vars, database, scratch, NewInv, OneNewPerProduct, Sightings
<1> QED
  BY <1>1, <1>2, <1>3 DEF Next, Quiet, AllAnswered, Proceed

\* At first nobody has been told anything.
LEMMA InitNewInv == Init => NewInv
  BY DEF Init, RequestInit, NewInv, OneNewPerProduct, Sightings, NoCall

\* isNew is told at most once for a product of a session, by any number of
\* concurrent requests on any number of workers: the UNIQUE constraint and
\* the failure of the second INSERT see to it.
THEOREM OneNew == Spec => []OneNewPerProduct
<1>1. TypeInv /\ NewInv /\ [Next]_vars => NewInv'
  BY NewInvariance
<1> QED
  BY <1>1, InitNewInv, TypeInvariance, PTL DEF Spec, NewInv

-----------------------------------------------------------------------------
(* Two halves of a row: what was observed, and how it was reviewed. The    *)
(* column-wise UPDATE keeps a merge and a review apart.                    *)

SameObservation(a, b) ==
    /\ a.first = b.first /\ a.last = b.last
    /\ a.occupancy = b.occupancy /\ a.dwell = b.dwell
    /\ a.trigger = b.trigger /\ a.count = b.count

SameMarks(a, b) == a.purchase = b.purchase /\ a.interested = b.interested

\* Writing a review back leaves the observation, and writes the review's
\* marks when the marks stored are the marks loaded.
LEMMA ReviewWrites ==
    ASSUME NEW stored \in Row, NEW before \in Row, NEW b, NEW i
    PROVE  LET new == Reviewed(before, b, i)
           IN  /\ SameObservation(Patch(stored, before, new), stored)
               /\ SameMarks(stored, before) =>
                    SameMarks(Patch(stored, before, new), new)
<1> DEFINE new == Reviewed(before, b, i)
<1>1. SameObservation(new, before)
  BY DEF Row, Reviewed, SameObservation
<1> HIDE DEF new
<1>2. SameObservation(Patch(stored, before, new), stored)
  BY <1>1 DEF SameObservation, Patch, Column
<1>3. SameMarks(stored, before) => SameMarks(Patch(stored, before, new), new)
  BY DEF SameMarks, Patch, Column
<1> QED
  BY <1>2, <1>3 DEF new

\* Writing a merge back leaves the marks, and when the observation stored is
\* the one loaded it adds exactly the new observation.
LEMMA MergeWrites ==
    ASSUME NEW stored \in Row, NEW before \in Row, NEW o \in Observation
    PROVE  LET row == Patch(stored, before, LaterSighting(before, o))
           IN  /\ SameMarks(row, stored)
               /\ SameObservation(before, stored) =>
                    /\ row.first = Least(stored.first, o.at)
                    /\ row.last = Greatest(stored.last, o.at)
                    /\ row.occupancy = Greatest(stored.occupancy, o.occupancy)
                    /\ row.dwell = Greatest(stored.dwell, o.dwell)
                    /\ row.count = stored.count + 1
<1> DEFINE new == LaterSighting(before, o)
<1>1. /\ SameMarks(new, before)
      /\ new.first = Least(before.first, o.at)
      /\ new.last = Greatest(before.last, o.at)
      /\ new.occupancy = Greatest(before.occupancy, o.occupancy)
      /\ new.dwell = Greatest(before.dwell, o.dwell)
      /\ new.count = before.count + 1
  BY DEF Row, LaterSighting, SameMarks
<1> HIDE DEF new
<1>2. SameMarks(Patch(stored, before, new), stored)
  BY <1>1 DEF SameMarks, Patch, Column
<1>3. SameObservation(before, stored) =>
        LET row == Patch(stored, before, new)
        IN  /\ row.first = Least(stored.first, o.at)
            /\ row.last = Greatest(stored.last, o.at)
            /\ row.occupancy = Greatest(stored.occupancy, o.occupancy)
            /\ row.dwell = Greatest(stored.dwell, o.dwell)
            /\ row.count = stored.count + 1
  BY <1>1 DEF SameObservation, Patch, Column
<1> QED
  BY <1>2, <1>3 DEF new

\* A step that merges nothing leaves every observation as it is.
LEMMA QuietObservation ==
    ASSUME TypeInv, NEW r \in Req,
           Arrive(r) \/ (Proceed(r) /\ ~Upsert(r)),
           NEW s \in Session, NEW p \in Product, rows[s][p] # NoRow
    PROVE  SameObservation(rows'[s][p], rows[s][p])
<1>1. CASE ReviewCommit(r)
  <2>1. CASE s = call[r].session /\ Changes(r, p)
    <3>1. /\ loaded[r][p] \in Row /\ rows[s][p] \in Row
      BY <1>1, <2>1, ReviewArgs DEF ReviewCommit, Changes
    <3>2. rows'[s][p] = Patch(rows[s][p], loaded[r][p], ReviewedRow(r, p))
      BY <1>1, <2>1 DEF ReviewCommit, TypeInv, TypeOK
    <3> QED
      BY <3>1, <3>2, ReviewWrites DEF ReviewedRow
  <2>2. CASE ~(s = call[r].session /\ Changes(r, p))
    <3>1. rows'[s][p] = rows[s][p]
      BY <1>1, <2>2 DEF ReviewCommit, TypeInv, TypeOK
    <3> QED
      BY <3>1 DEF SameObservation
  <2> QED
    BY <2>1, <2>2
<1>2. CASE ~ReviewCommit(r)
  <2>1. UNCHANGED rows
    BY <1>2, ArriveHasShape DEF ArriveShape, Proceed, CompleteCommit,
       RecognizeNoMatch, RecognizeMatch, ReviewLook, ReviewInsert, ReviewMark,
       WishAdd, UnwishDelete, DeadlockAbort, database
  <2> QED
    BY <2>1 DEF SameObservation
<1> QED
  BY <1>1, <1>2

-----------------------------------------------------------------------------
(* One worker. Its event loop lets no other recognition in between the     *)
(* SELECT and the commit of a merge, so that the row a merge has loaded is *)
(* the row that is stored, but for the marks.                              *)

OneWorkerOnly == \A q, r \in Req : WorkerOf[q] = WorkerOf[r]

Fresh(r) ==
    LET before == loaded[r][target[r]]
        row    == rows[call[r].session][target[r]]
    IN  /\ before = NoRow <=> row = NoRow
        /\ before # NoRow => SameObservation(before, row)

FreshInv ==
    /\ \A q, r \in Req : pc[q] = "upsert" /\ pc[r] = "upsert" => q = r
    /\ \A r \in Req : pc[r] = "upsert" => Fresh(r)

\* Only a match enters the merge, and no other recognition of the worker may
\* be in it.
LEMMA EntersMerge ==
    ASSUME TypeInv, NEW r \in Req,
           Arrive(r) \/ (Proceed(r) /\ ~Upsert(r)), pc'[r] = "upsert"
    PROVE  RecognizeMatch(r)
<1>1. ASSUME Arrive(r) PROVE FALSE
  <2>1. PICK c \in CallsOf[r] :
         \/ \E code \in Answer \ {"", "NEW", "AGAIN"} : Reply(r, code)
         \/ Entry(c) # "done" /\ Goto(r, Entry(c))
    BY <1>1, ArriveHasShape DEF ArriveShape
  <2>2. Entry(c) \in Step \ {"upsert"}
    BY DEF Entry, Step
  <2> QED
    BY <2>1, <2>2, GotoType, ReplyType
<1>2. ASSUME Proceed(r), ~Upsert(r), ~RecognizeMatch(r) PROVE FALSE
  <2>1. \/ \E code \in Answer : Reply(r, code)
        \/ \E step \in Step \ {"upsert"} : Goto(r, step)
    BY <1>2 DEF Proceed, CompleteCommit, RecognizeNoMatch,
       ReviewLook, ReviewInsert, FailOnDuplicate, ReviewMark, ReviewCommit,
       WishAdd, UnwishDelete, DeadlockAbort, Step, Answer
  <2> QED
    BY <2>1, GotoType, ReplyType
<1> QED
  BY <1>1, <1>2

\* Only a merge makes a loaded row stale.
LEMMA QuietFresh ==
    ASSUME TypeInv, FreshInv, OneWorkerOnly, NEW r \in Req,
           Arrive(r) \/ (Proceed(r) /\ ~Upsert(r))
    PROVE  FreshInv'
<1>1. ASSUME NEW q \in Req, pc'[q] = "upsert", q # r
      PROVE  pc[q] = "upsert" /\ Fresh(q)'
  <2>1. pc[q] = "upsert" /\ Fresh(q)
    BY <1>1, QuietStep DEF FreshInv
  <2>2. call'[q] = call[q] /\ target'[q] = target[q] /\ loaded'[q] = loaded[q]
    BY <1>1, QuietStep
  <2>3. call[q].session \in Session /\ target[q] \in Product
    BY <2>1, UpsertArgs
  <2> QED
    BY <2>1, <2>2, <2>3, QuietRows, QuietObservation DEF Fresh, SameObservation
<1>2. ASSUME pc'[r] = "upsert"
      PROVE  Fresh(r)' /\ \A q \in Req \ {r} : pc'[q] # "upsert"
  <2>1. RecognizeMatch(r)
    BY <1>2, EntersMerge
  <2>2. \A q \in Req \ {r} : pc'[q] # "upsert"
    BY <2>1, QuietStep DEF RecognizeMatch, LoopFree, OneWorkerOnly
  <2>3. PICK p \in Product :
          /\ target' = [target EXCEPT ![r] = p]
          /\ loaded' = [loaded EXCEPT ![r][p] = rows[call[r].session][p]]
    BY <2>1, CatalogueAssumption DEF RecognizeMatch
  <2>4. target'[r] = p /\ loaded'[r][p] = rows[call[r].session][p]
    BY <2>3 DEF TypeInv, TypeOK
  <2>5. UNCHANGED <<call, rows>>
    BY <2>1 DEF RecognizeMatch, database
  <2> QED
    BY <2>2, <2>4, <2>5 DEF Fresh, SameObservation
<1> QED
  BY <1>1, <1>2 DEF FreshInv

\* And no other merge is under way to hold one.
LEMMA UpsertFresh ==
    ASSUME TypeInv, FreshInv, NEW r \in Req, Upsert(r)
    PROVE  FreshInv'
<1>1. \A q \in Req \ {r} : pc'[q] # "upsert"
  BY UpsertCases, ReplyType DEF FreshInv, Upsert, Answer
<1>2. pc'[r] = "done"
  BY UpsertCases, ReplyType DEF Answer
<1> QED
  BY <1>1, <1>2 DEF FreshInv

\* Session by session and product by product.
Remembered(s, p) ==
    LET row == rows[s][p]
    IN  IF row = NoRow THEN Sightings(s, p) = {}
        ELSE /\ row.count = InitCount(s, p) + Cardinality(Sightings(s, p))
             /\ \A r \in Sightings(s, p) :
                   LET o == call[r].seen
                   IN  /\ row.first <= o.at /\ o.at <= row.last
                       /\ o.occupancy <= row.occupancy
                       /\ o.dwell <= row.dwell

AccountInv ==
    /\ NothingForgotten
    /\ \A s \in Session, p \in Product : rows[s][p] = NoRow => InitRows[s][p] = NoRow

\* Each row accounts for the observations of its own.
LEMMA NothingForgottenPointwise ==
    NothingForgotten <=>
      \A s \in Session, p \in Product : Remembered(s, p)
  BY DEF NothingForgotten, Remembered

\* There are as many observations as there are requests at most.
LEMMA SightingsFinite ==
    ASSUME NEW s, NEW p
    PROVE  IsFiniteSet(Sightings(s, p)) /\ Cardinality(Sightings(s, p)) \in Nat
<1>1. IsFiniteSet(Sightings(s, p))
  BY RequestAssumption, FS_Subset DEF Sightings
<1> QED
  BY <1>1, FS_CardinalityType

\* A step that merges nothing leaves every account.
LEMMA QuietAccount ==
    ASSUME TypeInv, AccountInv, NEW r \in Req,
           Arrive(r) \/ (Proceed(r) /\ ~Upsert(r))
    PROVE  AccountInv'
<1>1. ASSUME NEW s \in Session, NEW p \in Product
      PROVE  Remembered(s, p)'
  <2>1. Sightings(s, p)' = Sightings(s, p)
    BY QuietSightings
  <2>2. \A q \in Sightings(s, p) : call'[q] = call[q]
    BY QuietSightings
  <2>3. Remembered(s, p)
    BY NothingForgottenPointwise DEF AccountInv
  <2>4. rows'[s][p] = NoRow <=> rows[s][p] = NoRow
    BY QuietRows
  <2>5. rows[s][p] # NoRow => SameObservation(rows'[s][p], rows[s][p])
    BY QuietObservation
  <2> QED
    BY <2>1, <2>2, <2>3, <2>4, <2>5 DEF Remembered, SameObservation
<1>2. \A s \in Session, p \in Product : rows'[s][p] = NoRow => InitRows[s][p] = NoRow
  BY QuietRows DEF AccountInv
<1> QED
  BY <1>1, <1>2, NothingForgottenPointwise DEF AccountInv, NothingForgotten, Remembered

\* A merge enters its observation in the account of its row.
LEMMA UpsertAccount ==
    ASSUME TypeInv, FreshInv, AccountInv, NEW r \in Req, Upsert(r)
    PROVE  AccountInv'
<1>1. PICK s \in Session, p \in Product, o \in Observation :
         s = call[r].session /\ p = target[r] /\ o = call[r].seen
  BY UpsertArgs DEF Upsert
<1>2. UNCHANGED call
  BY DEF Upsert
<1>3. ASSUME NEW x \in Session, NEW y \in Product, ~(x = s /\ y = p)
      PROVE  rows'[x][y] = rows[x][y] /\ Sightings(x, y)' = Sightings(x, y)
  <2>1. \/ UNCHANGED rows
        \/ \E new : rows' = [rows EXCEPT ![s][p] = new]
    BY <1>1, UpsertCases
  <2>2. rows'[x][y] = rows[x][y]
    <3>1. ASSUME NEW new, rows' = [rows EXCEPT ![s][p] = new]
          PROVE  rows'[x][y] = rows[x][y]
      <4>1. rows \in [Session -> [Product -> MaybeRow]]
        BY DEF TypeInv, TypeOK
      <4>2. rows' = [rows EXCEPT ![s] = [rows[s] EXCEPT ![p] = new]]
        BY <3>1
      <4>3. CASE x = s
        <5>1. rows'[s] = [rows[s] EXCEPT ![p] = new]
          BY <1>1, <4>1, <4>2
        <5>2. rows[s] \in [Product -> MaybeRow] /\ y # p
          BY <1>1, <1>3, <4>1, <4>3
        <5> QED
          BY <1>3, <4>3, <5>1, <5>2
      <4>4. CASE x # s
        <5>1. rows'[x] = rows[x]
          BY <1>1, <1>3, <4>1, <4>2, <4>4
        <5> QED
          BY <5>1
      <4> QED
        BY <4>3, <4>4
    <3> QED
      BY <2>1, <3>1
  <2> QED
    BY <1>1, <1>3, <2>2, UpsertSightings
<1>4. Remembered(s, p)
  BY <1>1, NothingForgottenPointwise DEF AccountInv
<1>5. ASSUME Reply(r, "500"), UNCHANGED rows
      PROVE  Remembered(s, p)'
  <2>1. answer'[r] = "500"
    BY <1>5, ReplyType DEF Answer
  <2>2. Sightings(s, p)' = Sightings(s, p)
    BY <1>1, <2>1, UpsertSightings
  <2> QED
    BY <1>2, <1>4, <1>5, <2>2 DEF Remembered
<1>6. ASSUME answer'[r] \in {"NEW", "AGAIN"}
      PROVE  Remembered(s, p)'
  <2>1. /\ Sightings(s, p)' = Sightings(s, p) \cup {r}
        /\ r \notin Sightings(s, p)
    BY <1>1, <1>6, UpsertSightings
  <2>2. Cardinality(Sightings(s, p)') = Cardinality(Sightings(s, p)) + 1
    BY <2>1, SightingsFinite, FS_AddElement
  <2>3. CASE /\ rows[s][p] = NoRow
             /\ rows' = [rows EXCEPT ![s][p] = FirstSighting(o)]
    <3>1. /\ rows'[s][p] = FirstSighting(o)
          /\ rows'[s][p] # NoRow
      BY <1>1, <2>3, FirstSightingType, NoRowAssumption DEF TypeInv, TypeOK
    <3>2. Sightings(s, p) = {} /\ InitCount(s, p) = 0
      BY <1>1, <1>4, <2>3 DEF Remembered, AccountInv, InitCount
    <3>3. Cardinality(Sightings(s, p)') = 1
      BY <2>2, <3>2, FS_EmptySet
    <3>4. rows'[s][p].count = InitCount(s, p) + Cardinality(Sightings(s, p)')
      BY <3>1, <3>2, <3>3 DEF FirstSighting
    <3>5. \A q \in Sightings(s, p)' : call'[q].seen = o
      BY <1>1, <1>2, <2>1, <3>2
    <3> QED
      BY <1>1, <3>1, <3>4, <3>5 DEF Remembered, FirstSighting, Observation
  <2>4. CASE /\ rows[s][p] \in Row /\ loaded[r][p] \in Row
             /\ rows' = [rows EXCEPT ![s][p] =
                   Patch(rows[s][p], loaded[r][p],
                         LaterSighting(loaded[r][p], o))]
    <3> DEFINE row == rows[s][p]
               new == rows'[s][p]
    <3>1. /\ new = Patch(row, loaded[r][p], LaterSighting(loaded[r][p], o))
          /\ new # NoRow /\ row # NoRow
      BY <1>1, <1>6, <2>4, UpsertStores, NoRowAssumption DEF TypeInv, TypeOK
    <3>2. SameObservation(loaded[r][p], row)
      BY <1>1, <2>4, NoRowAssumption DEF FreshInv, Fresh, Upsert
    <3>3. /\ new.first = Least(row.first, o.at)
          /\ new.last = Greatest(row.last, o.at)
          /\ new.occupancy = Greatest(row.occupancy, o.occupancy)
          /\ new.dwell = Greatest(row.dwell, o.dwell)
          /\ new.count = row.count + 1
      BY <1>1, <2>4, <3>1, <3>2, MergeWrites
    <3>4. InitCount(s, p) \in Nat
      BY <1>1, InitAssumption DEF InitCount, MaybeRow, Row
    <3>5. new.count = InitCount(s, p) + Cardinality(Sightings(s, p)')
      BY <1>4, <2>2, <3>1, <3>3, <3>4, SightingsFinite DEF Remembered
    <3>6. ASSUME NEW q \in Sightings(s, p)'
          PROVE  LET seen == call'[q].seen
                 IN  /\ new.first <= seen.at /\ seen.at <= new.last
                     /\ seen.occupancy <= new.occupancy
                     /\ seen.dwell <= new.dwell
      <4>1. /\ row.first \in Nat /\ row.last \in Nat
            /\ row.occupancy \in Nat /\ row.dwell \in Nat
            /\ o.at \in Nat /\ o.occupancy \in Nat /\ o.dwell \in Nat
        BY <1>1, <2>4 DEF Row, Observation
      <4>2. CASE q = r
        BY <1>1, <1>2, <3>3, <4>1, <4>2 DEF Least, Greatest
      <4>3. CASE q \in Sightings(s, p)
        <5>1. LET seen == call[q].seen
              IN  /\ row.first <= seen.at /\ seen.at <= row.last
                  /\ seen.occupancy <= row.occupancy
                  /\ seen.dwell <= row.dwell
          BY <1>4, <3>1, <4>3 DEF Remembered
        <5>2. call[q].seen \in Observation
          BY <4>3, CallFields DEF Sightings, TypeInv, TypeOK
        <5>3. /\ call[q].seen.at \in Nat /\ call[q].seen.occupancy \in Nat
              /\ call[q].seen.dwell \in Nat
          BY <5>2 DEF Observation
        <5> QED
          BY <1>2, <3>3, <4>1, <5>1, <5>3 DEF Least, Greatest
      <4> QED
        BY <2>1, <4>2, <4>3
    <3> QED
      BY <3>1, <3>5, <3>6 DEF Remembered
  <2> QED
    BY <1>1, <1>6, <2>3, <2>4, UpsertCases, ReplyType DEF Answer
<1>7. Remembered(s, p)'
  BY <1>1, <1>5, <1>6, UpsertCases, ReplyType DEF Answer
<1>8. \A x \in Session, y \in Product : Remembered(x, y)'
  <2>1. ASSUME NEW x \in Session, NEW y \in Product, ~(x = s /\ y = p)
        PROVE  Remembered(x, y)'
    <3>1. Remembered(x, y)
      BY NothingForgottenPointwise DEF AccountInv
    <3>2. rows'[x][y] = rows[x][y] /\ Sightings(x, y)' = Sightings(x, y)
      BY <1>3, <2>1
    <3> QED
      BY <1>2, <3>1, <3>2 DEF Remembered
  <2> QED
    BY <1>7, <2>1
<1>9. \A x \in Session, y \in Product : rows'[x][y] = NoRow => InitRows[x][y] = NoRow
  BY UpsertRows DEF KeepsRows, AccountInv
<1> QED
  BY <1>8, <1>9 DEF AccountInv, NothingForgotten, Remembered

\* At first the account is what was stored before.
LEMMA InitAccount == Init => AccountInv /\ FreshInv
<1> SUFFICES ASSUME Init PROVE AccountInv /\ FreshInv
  OBVIOUS
<1>1. \A s \in Session, p \in Product : Sightings(s, p) = {}
  BY DEF Init, RequestInit, Sightings, NoCall
<1>2. ASSUME NEW s \in Session, NEW p \in Product
      PROVE  Remembered(s, p)
  <2>1. rows[s][p] # NoRow => rows[s][p].count \in Nat
    BY InitAssumption DEF Init, MaybeRow, Row
  <2>2. Sightings(s, p) = {} /\ Cardinality(Sightings(s, p)) = 0
    BY <1>1, FS_EmptySet
  <2>3. rows[s][p] # NoRow => rows[s][p].count = InitCount(s, p)
    BY DEF Init, InitCount
  <2> QED
    BY <2>1, <2>2, <2>3 DEF Remembered
<1>3. NothingForgotten
  BY <1>2, NothingForgottenPointwise
<1>4. \A s \in Session, p \in Product : rows[s][p] = NoRow => InitRows[s][p] = NoRow
  BY DEF Init
<1> QED
  BY <1>3, <1>4 DEF AccountInv, FreshInv, Init, RequestInit

\* With one worker no acknowledged observation is lost: each is counted once
\* and lies within the row's window and maxima, however recognitions,
\* reviews and completions overlap.
THEOREM OneWorkerForgetsNothing ==
    ASSUME OneWorkerOnly
    PROVE  Spec => []NothingForgotten
<1>1. TypeInv /\ FreshInv /\ AccountInv /\ [Next]_vars => FreshInv' /\ AccountInv'
  <2> SUFFICES ASSUME TypeInv, FreshInv, AccountInv, [Next]_vars
               PROVE  FreshInv' /\ AccountInv'
    OBVIOUS
  <2>1. ASSUME NEW r \in Req, Arrive(r) \/ (Proceed(r) /\ ~Upsert(r))
        PROVE  FreshInv' /\ AccountInv'
    BY <2>1, QuietFresh, QuietAccount
  <2>2. ASSUME NEW r \in Req, Upsert(r)
        PROVE  FreshInv' /\ AccountInv'
    BY <2>2, UpsertFresh, UpsertAccount
  <2>3. CASE UNCHANGED vars
    <3>1. UNCHANGED <<rows, pc, call, loaded, target, answer>>
      BY <2>3 DEF vars, database, scratch
    <3>2. \A s, p : Sightings(s, p)' = Sightings(s, p)
      BY <3>1 DEF Sightings
    <3> QED
      BY <3>1, <3>2 DEF FreshInv, Fresh, AccountInv, NothingForgotten
  <2> QED
    BY <2>1, <2>2, <2>3 DEF Next, Quiet, AllAnswered, Proceed
<1> QED
  BY <1>1, InitAccount, TypeInvariance, PTL DEF Spec, AccountInv

-----------------------------------------------------------------------------
(* Who was answered before. *)

\* A request is sent once those that come before it are answered.
SentInTurn == \A r \in Req : pc[r] # "idle" => \A q \in Before[r] : pc[q] = "done"

\* A handler at work on a session: which session is there for good.
AtSession(r) == pc[r] \in {"complete", "await", "upsert", "wish", "insert", "mark"}

SessionsStay ==
    /\ \A r \in Req : AtSession(r) => status[call[r].session] # NoSession
    /\ \A r \in Req : call[r].op = "complete" /\ answer[r] = "200" =>
                        status[call[r].session] = "COMPLETED"

SequenceInv == SentInTurn /\ SessionsStay /\ CompletedSessionRefusesFrames

\* What the steps of r leave alone.
LEMMA OneMoves ==
    ASSUME TypeInv, NEW r \in Req, Arrive(r) \/ Proceed(r)
    PROVE  /\ pc[r] # "done" /\ answer[r] = ""
           /\ Arrive(r) => pc[r] = "idle"
           /\ Proceed(r) => pc[r] # "idle" /\ UNCHANGED call
           /\ \A q \in Req \ {r} : /\ call'[q] = call[q]
                                   /\ target'[q] = target[q]
                                   /\ answer'[q] = answer[q]
                                   /\ loaded'[q] = loaded[q]
                                   /\ pc'[q] = pc[q]
<1>1. CASE Upsert(r)
  <2>1. pc[r] = "upsert"
    BY <1>1 DEF Upsert
  <2>2. /\ UNCHANGED <<call, target, loaded>>
        /\ \A q \in Req \ {r} : answer'[q] = answer[q] /\ pc'[q] = pc[q]
    BY <1>1, UpsertArgs, UpsertSightings DEF Upsert
  <2>3. ~Arrive(r)
    BY <2>1 DEF Arrive, CreateSession, CompleteRead, RecognizeStart, ReviewRead,
       WishRead, UnwishRead, Send
  <2> QED
    BY <2>1, <2>2, <2>3 DEF TypeInv, StepMatchesCall, Matches
<1>2. CASE Arrive(r)
  <2>1. pc[r] = "idle"
    BY <1>2 DEF Arrive, CreateSession, CompleteRead, RecognizeStart, ReviewRead,
       WishRead, UnwishRead, Send
  <2>2. ~Proceed(r)
    BY <2>1 DEF Proceed, CompleteCommit, RecognizeNoMatch, RecognizeMatch,
       Upsert, ReviewLook, ReviewInsert, ReviewMark, Marking, ReviewCommit,
       WishAdd, UnwishDelete, DeadlockAbort, InDeadlock, Deadlocked, WaitsFor
  <2> QED
    BY <1>2, <2>1, <2>2, QuietStep DEF TypeInv, StepMatchesCall, Matches
<1>3. CASE Proceed(r) /\ ~Upsert(r)
  <2>1. pc[r] # "idle" /\ UNCHANGED call
    BY <1>3 DEF Proceed, CompleteCommit, RecognizeNoMatch, RecognizeMatch,
       ReviewLook, ReviewInsert, ReviewMark, Marking, ReviewCommit,
       WishAdd, UnwishDelete, DeadlockAbort, InDeadlock, Deadlocked, WaitsFor
  <2>2. ~Arrive(r)
    BY <2>1 DEF Arrive, CreateSession, CompleteRead, RecognizeStart, ReviewRead,
       WishRead, UnwishRead, Send
  <2> QED
    BY <1>3, <2>1, <2>2, QuietStep DEF TypeInv, StepMatchesCall, Matches
<1> QED
  BY <1>1, <1>2, <1>3

\* A call that was made is kept, and a request that is done stays as it is.
LEMMA CallsAreKept ==
    ASSUME TypeInv, NEW r \in Req, Arrive(r) \/ Proceed(r), NEW q \in Req
    PROVE  /\ call[q].op # "none" => call'[q] = call[q]
           /\ pc[q] = "done" => /\ q # r /\ pc'[q] = "done"
                                /\ call'[q] = call[q] /\ answer'[q] = answer[q]
                                /\ loaded'[q] = loaded[q]
<1>1. pc[q] = "idle" => call[q].op = "none"
  BY DEF TypeInv, StepMatchesCall, Matches
<1> QED
  BY <1>1, OneMoves

\* A session that is there stays, and a completed one stays completed.
LEMMA StatusMoves ==
    ASSUME TypeInv, NEW r \in Req, Arrive(r) \/ Proceed(r), NEW s \in Session
    PROVE  /\ status[s] # NoSession => status'[s] # NoSession
           /\ status[s] = "COMPLETED" => status'[s] = "COMPLETED"
<1>1. CASE CreateSession(r) \/ CompleteCommit(r)
  BY <1>1 DEF CreateSession, CompleteCommit, NoSession, TypeInv, TypeOK
<1>2. CASE ~CreateSession(r) /\ ~CompleteCommit(r)
  <2>1. UNCHANGED status
    BY <1>2 DEF Arrive, CompleteRead, RecognizeStart, ReviewRead, WishRead,
       UnwishRead, Proceed, RecognizeNoMatch, RecognizeMatch, Upsert,
       ReviewLook, ReviewInsert, ReviewMark, ReviewCommit, WishAdd,
       UnwishDelete, DeadlockAbort, database
  <2> QED
    BY <2>1
<1> QED
  BY <1>1, <1>2

\* A request goes on with the handler of its call.
LEMMA ProceedsByCall ==
    ASSUME TypeInv, NEW r \in Req, Proceed(r)
    PROVE  /\ call[r].op = "complete" => CompleteCommit(r)
           /\ call[r].op = "recognize" =>
                 \/ RecognizeNoMatch(r) \/ RecognizeMatch(r) \/ Upsert(r)
                 \/ DeadlockAbort(r)
           /\ call[r].op = "review" =>
                 \/ ReviewLook(r) \/ ReviewInsert(r) \/ ReviewMark(r)
                 \/ ReviewCommit(r) \/ DeadlockAbort(r)
           /\ call[r].op \in {"complete", "recognize", "review", "wish", "unwish"}
<1>1. Matches(r)
  BY DEF TypeInv, StepMatchesCall
<1>2. DeadlockAbort(r) => pc[r] \in {"insert", "add", "upsert", "mark", "wish"}
  BY DEF DeadlockAbort, InDeadlock, Deadlocked, WaitsFor, Marking
<1>3. /\ CompleteCommit(r) => call[r].op = "complete"
      /\ RecognizeNoMatch(r) \/ RecognizeMatch(r) \/ Upsert(r)
           => call[r].op = "recognize"
      /\ ReviewLook(r) \/ ReviewInsert(r) \/ ReviewMark(r) \/ ReviewCommit(r)
           => call[r].op = "review"
      /\ WishAdd(r) => call[r].op = "wish"
      /\ UnwishDelete(r) => call[r].op = "unwish"
      /\ DeadlockAbort(r) => call[r].op \in {"recognize", "review", "wish"}
  BY <1>1, <1>2 DEF Matches, CompleteCommit, RecognizeNoMatch, RecognizeMatch,
     Upsert, ReviewLook, ReviewInsert, ReviewMark, Marking, ReviewCommit,
     WishAdd, UnwishDelete
<1> QED
  BY <1>3 DEF Proceed

\* A request that is answered stays answered.
LEMMA SentInTurnKept ==
    ASSUME TypeInv, SentInTurn, NEW r \in Req, Arrive(r) \/ Proceed(r)
    PROVE  SentInTurn'
<1> SUFFICES ASSUME NEW x \in Req, pc'[x] # "idle", NEW q \in Before[x]
             PROVE  pc'[q] = "done"
  BY DEF SentInTurn
<1>1. q \in Req
  BY RequestAssumption
<1>2. pc[q] = "done"
  <2>1. CASE x = r /\ Arrive(r)
    BY <2>1 DEF Arrive, CreateSession, CompleteRead, RecognizeStart, ReviewRead,
       WishRead, UnwishRead, Send
  <2>2. CASE ~(x = r /\ Arrive(r))
    BY <2>2, OneMoves DEF SentInTurn
  <2> QED
    BY <2>1, <2>2
<1> QED
  BY <1>1, <1>2, CallsAreKept

\* The session of a handler at work, and a completion that was acknowledged,
\* outlast every step.
LEMMA SessionsStayKept ==
    ASSUME TypeInv, SessionsStay, NEW r \in Req, Arrive(r) \/ Proceed(r)
    PROVE  SessionsStay'
<1>1. ASSUME NEW x \in Req, AtSession(x)'
      PROVE  status'[call'[x].session] # NoSession
  <2>1. CASE x = r /\ Arrive(r)
    <3>1. PICK c \in CallsOf[r] :
             Send(r, c) /\ (Goto(r, Entry(c)) \/ \E code \in Answer : Reply(r, code))
      BY <2>1, ArriveHasShape DEF ArriveShape
    <3>2. Entry(c) \in Step /\ call'[r] = c
      BY <3>1, SendType DEF Entry, Step
    <3>3. pc'[r] = Entry(c)
      BY <1>1, <2>1, <3>1, <3>2, GotoType, ReplyType DEF AtSession
    <3>4. c.op \in {"complete", "recognize", "review"} /\ c.session \in Session
      BY <1>1, <2>1, <3>1, <3>3, SendType, CallFields DEF AtSession, Entry
    <3>5. CompleteRead(r) \/ RecognizeStart(r) \/ ReviewRead(r)
      BY <2>1, <3>2, <3>4, SendType DEF Arrive, CreateSession, WishRead, UnwishRead
    <3>6. pc'[r] # "done" => status[call'[r].session] # NoSession
      <4>1. \A code : Reply(r, code) => pc'[r] = "done"
        BY DEF Reply, TypeInv, TypeOK
      <4>2. \A d \in CallsOf[r] : Send(r, d) => d = call'[r]
        BY SendType
      <4> QED
        BY <3>5, <4>1, <4>2 DEF CompleteRead, RecognizeStart, ReviewRead
    <3> QED
      BY <1>1, <2>1, <3>2, <3>4, <3>6, StatusMoves DEF AtSession
  <2>2. CASE ~(x = r /\ Arrive(r))
    <3>1. AtSession(x) /\ call'[x] = call[x]
      <4>1. CASE x # r
        BY <1>1, <4>1, OneMoves DEF AtSession
      <4>2. CASE x = r
        <5>1. Proceed(r) /\ call'[x] = call[x] /\ pc[r] \notin {"idle", "done"}
          BY <2>2, <4>2, OneMoves
        <5>2. pc[r] \in {"add", "delete"} => pc'[r] = "done"
          BY <5>1 DEF Proceed, CompleteCommit, RecognizeNoMatch, RecognizeMatch,
             Upsert, ReviewLook, ReviewInsert, ReviewMark, Marking,
             ReviewCommit, WishAdd, UnwishDelete, DeadlockAbort, Reply,
             TypeInv, TypeOK
        <5>3. pc[r] \in Step
          BY DEF TypeInv, TypeOK
        <5> QED
          BY <1>1, <4>2, <5>1, <5>2, <5>3 DEF AtSession, Step
      <4> QED
        BY <4>1, <4>2
    <3>2. call[x].session \in Session
      BY <3>1, CallFields
         DEF AtSession, TypeInv, TypeOK, StepMatchesCall, Matches
    <3> QED
      BY <3>1, <3>2, StatusMoves DEF SessionsStay
  <2> QED
    BY <2>1, <2>2
<1>2. ASSUME NEW x \in Req, call'[x].op = "complete", answer'[x] = "200"
      PROVE  status'[call'[x].session] = "COMPLETED"
  <2>1. call'[x] \in Call
    BY StepTypeInv DEF Next, TypeInv, TypeOK
  <2>2. call'[x].session \in Session
    BY <1>2, <2>1, CallFields
  <2>3. CASE x # r
    <3>1. call'[x] = call[x] /\ answer'[x] = answer[x]
      BY <2>3, OneMoves
    <3>2. status[call[x].session] = "COMPLETED"
      BY <1>2, <3>1 DEF SessionsStay
    <3> QED
      BY <2>2, <3>1, <3>2, StatusMoves
  <2>4. CASE x = r /\ Proceed(r)
    <3>1. CompleteCommit(r) /\ call'[r] = call[r]
      BY <1>2, <2>4, OneMoves, ProceedsByCall
    <3> QED
      BY <2>2, <2>4, <3>1 DEF CompleteCommit, TypeInv, TypeOK
  <2>5. CASE x = r /\ Arrive(r)
    <3>1. CompleteRead(r)
      BY <1>2, <2>5, SendType DEF Arrive, CreateSession, RecognizeStart,
         ReviewRead, WishRead, UnwishRead
    <3>2. PICK c \in CallsOf[r] :
             /\ Send(r, c)
             /\ IF status[c.session] = NoSession THEN Reply(r, "404")
                ELSE IF IsActive(c.session) THEN Goto(r, "complete")
                ELSE Reply(r, "200")
      BY <3>1 DEF CompleteRead
    <3>3. c = call'[r] /\ UNCHANGED status
      BY <3>1, <3>2, SendType DEF CompleteRead, database
    <3>4. Reply(r, "404") => answer'[r] = "404"
      BY ReplyType DEF Answer
    <3>5. Goto(r, "complete") => answer'[r] = ""
      BY GotoType, OneMoves DEF Step
    <3>6. status[c.session] \in Status \ {NoSession, "ACTIVE"}
      BY <1>2, <2>2, <2>5, <3>2, <3>3, <3>4, <3>5
         DEF IsActive, TypeInv, TypeOK
    <3> QED
      BY <2>5, <3>3, <3>6 DEF Status
  <2> QED
    BY <2>3, <2>4, <2>5
<1> QED
  BY <1>1, <1>2 DEF SessionsStay

\* A frame that arrives finds the status its client was told.
LEMMA RefusesFramesKept ==
    ASSUME TypeInv, SequenceInv, NEW r \in Req, Arrive(r) \/ Proceed(r)
    PROVE  CompletedSessionRefusesFrames'
<1> SUFFICES ASSUME NEW x \in Req, call'[x].op = "recognize",
                    NEW q \in Before[x], call'[q].op = "complete",
                    call'[q].session = call'[x].session, answer'[q] = "200"
             PROVE  answer'[x] = "409"
  BY DEF CompletedSessionRefusesFrames
<1>1. q \in Req /\ (pc[x] # "idle" \/ (x = r /\ Arrive(r)))
  <2>1. pc[x] = "idle" => call[x].op = "none"
    BY DEF TypeInv, StepMatchesCall, Matches
  <2> QED
    BY <2>1, OneMoves, RequestAssumption
<1>2. pc[q] = "done"
  <2>1. CASE x = r /\ Arrive(r)
    BY <2>1 DEF Arrive, CreateSession, CompleteRead, RecognizeStart, ReviewRead,
       WishRead, UnwishRead, Send
  <2>2. CASE pc[x] # "idle"
    BY <2>2 DEF SequenceInv, SentInTurn
  <2> QED
    BY <1>1, <2>1, <2>2
<1>3. call'[q] = call[q] /\ answer'[q] = answer[q]
  BY <1>1, <1>2, CallsAreKept
<1>4. CASE ~(x = r /\ Arrive(r))
  <2>1. call'[x] = call[x] /\ answer[x] = "409"
    BY <1>3, <1>4, OneMoves DEF SequenceInv, CompletedSessionRefusesFrames
  <2> QED
    BY <1>4, <2>1, OneMoves
<1>5. CASE x = r /\ Arrive(r)
  <2>1. RecognizeStart(r)
    BY <1>5, SendType DEF Arrive, CreateSession, CompleteRead,
       ReviewRead, WishRead, UnwishRead
  <2>2. status[call'[x].session] = "COMPLETED"
    BY <1>1, <1>3 DEF SequenceInv, SessionsStay
  <2>3. Reply(r, "409")
    BY <1>5, <2>1, <2>2, SendType DEF RecognizeStart, IsActive, NoSession
  <2> QED
    BY <1>5, <2>3, ReplyType DEF Answer
<1> QED
  BY <1>4, <1>5

\* No frame sent after the client was told that the session is completed is
\* taken: the look at the status is the first thing recognise does, and no
\* session is ever opened again (RecognitionService.recognize,
\* ShoppingSessionService.complete_session).
THEOREM CompletedMeansRefused == Spec => []CompletedSessionRefusesFrames
<1>1. ASSUME Init PROVE SequenceInv
  <2>1. \A r \in Req : pc[r] = "idle" /\ call[r].op = "none"
    BY <1>1 DEF Init, RequestInit, NoCall
  <2> QED
    BY <2>1 DEF SequenceInv, SentInTurn, SessionsStay, AtSession,
       CompletedSessionRefusesFrames
<1>2. TypeInv /\ SequenceInv /\ [Next]_vars => SequenceInv'
  <2> SUFFICES ASSUME TypeInv, SequenceInv, [Next]_vars PROVE SequenceInv'
    OBVIOUS
  <2>1. ASSUME NEW r \in Req, Arrive(r) \/ Proceed(r) PROVE SequenceInv'
    BY <2>1, SentInTurnKept, SessionsStayKept, RefusesFramesKept DEF SequenceInv
  <2>2. CASE UNCHANGED vars
    BY <2>2 DEF vars, database, scratch, SequenceInv, SentInTurn, SessionsStay,
       AtSession, CompletedSessionRefusesFrames
  <2> QED
    BY <2>1, <2>2 DEF Next, Quiet
<1> QED
  BY <1>1, <1>2, TypeInvariance, PTL DEF Spec, SequenceInv

-----------------------------------------------------------------------------
(* Wishes. *)

Unwished(p) == \E r \in Req : call[r].op = "unwish" /\ call[r].product = p

Wished(p) == wishlist[p] # NoReq \/ Unwished(p)

\* A review has looked at every product it wants but those it has yet to do.
LookedAt(r) ==
    pc[r] \in {"wish", "insert", "mark"} =>
       \A p \in Wanted(call[r]) :
          \/ p \in todo[r] \cup pending[r]
          \/ pc[r] = "insert" /\ p = target[r]
          \/ Wished(p)

WishInv ==
    /\ OnlyADeleteUnwishes
    /\ \A r \in Req : LookedAt(r)

\* A merge changes one row.
LEMMA UpsertLeavesOthers ==
    ASSUME TypeInv, NEW r \in Req, Upsert(r), NEW x \in Session, NEW y \in Product,
           ~(x = call[r].session /\ y = target[r])
    PROVE  rows'[x][y] = rows[x][y]
<1> DEFINE s == call[r].session
           p == target[r]
<1>1. rows \in [Session -> [Product -> MaybeRow]] /\ s \in Session /\ p \in Product
  BY UpsertArgs DEF Upsert, TypeInv, TypeOK
<1>2. UNCHANGED rows \/ \E new : rows' = [rows EXCEPT ![s][p] = new]
  BY UpsertCases
<1>3. ASSUME NEW new, rows' = [rows EXCEPT ![s][p] = new]
      PROVE  rows'[x][y] = rows[x][y]
  <2>1. rows' = [rows EXCEPT ![s] = [rows[s] EXCEPT ![p] = new]]
    BY <1>3
  <2> HIDE DEF s, p
  <2>2. CASE x = s
    <3>1. rows'[s] = [rows[s] EXCEPT ![p] = new]
      BY <1>1, <2>1
    <3>2. rows[s] \in [Product -> MaybeRow] /\ y # p
      BY <1>1, <2>2 DEF s, p
    <3> QED
      BY <2>2, <3>1, <3>2
  <2>3. CASE x # s
    BY <1>1, <2>1, <2>3
  <2> QED
    BY <2>2, <2>3
<1> QED
  BY <1>2, <1>3

\* What a review has yet to do and has inserted is its own.
LEMMA OthersKeepScratch ==
    ASSUME TypeInv, NEW r \in Req, Arrive(r) \/ Proceed(r), NEW q \in Req \ {r}
    PROVE  todo'[q] = todo[q] /\ pending'[q] = pending[q]
<1>1. CASE Arrive(r)
  BY <1>1 DEF Arrive, CreateSession, CompleteRead, RecognizeStart, ReviewRead,
     WishRead, UnwishRead, scratch, TypeInv, TypeOK
<1>2. CASE Proceed(r)
  BY <1>2 DEF Proceed, CompleteCommit, RecognizeNoMatch, RecognizeMatch, Upsert,
     ReviewLook, ReviewInsert, FailOnDuplicate, ReviewMark, ReviewCommit,
     WishAdd, UnwishDelete, DeadlockAbort, scratch, TypeInv, TypeOK
<1> QED
  BY <1>1, <1>2

\* What a step does to a wish: it adds it and is answered, or it was asked to
\* take it off.
LEMMA WishMoves ==
    ASSUME TypeInv, NEW r \in Req, Arrive(r) \/ Proceed(r), NEW p \in Product
    PROVE  \/ wishlist'[p] = wishlist[p]
           \/ wishlist'[p] = r /\ answer'[r] = "200"
           \/ /\ wishlist'[p] = NoReq
              /\ call[r].op = "unwish" /\ call[r].product = p
<1>1. CASE ReviewCommit(r)
  <2>1. Reply(r, "200") /\ wishlist'[p] = IF p \in pending[r] THEN r ELSE wishlist[p]
    BY <1>1 DEF ReviewCommit
  <2> QED
    BY <2>1, ReplyType DEF Answer
<1>2. CASE WishAdd(r)
  <2>1. \/ UNCHANGED wishlist
        \/ /\ wishlist' = [wishlist EXCEPT ![call[r].product] = r]
           /\ Reply(r, "200")
    BY <1>2 DEF WishAdd
  <2> QED
    BY <2>1, ReplyType DEF Answer, TypeInv, TypeOK
<1>3. CASE UnwishDelete(r)
  <2>1. call[r].op = "unwish"
    BY <1>3 DEF UnwishDelete, TypeInv, StepMatchesCall, Matches
  <2> QED
    BY <1>3, <2>1 DEF UnwishDelete, TypeInv, TypeOK
<1>4. CASE ~ReviewCommit(r) /\ ~WishAdd(r) /\ ~UnwishDelete(r)
  BY <1>4, ArriveHasShape DEF ArriveShape, Proceed, CompleteCommit,
     RecognizeNoMatch, RecognizeMatch, Upsert, ReviewLook, ReviewInsert,
     ReviewMark, DeadlockAbort, database
<1> QED
  BY <1>1, <1>2, <1>3, <1>4

\* A wish stays, or somebody has asked to take it off.
LEMMA WishedStays ==
    ASSUME TypeInv, NEW r \in Req, Arrive(r) \/ Proceed(r), NEW p \in Product
    PROVE  /\ Unwished(p) => Unwished(p)'
           /\ Wished(p) => Wished(p)'
<1>1. Unwished(p) => Unwished(p)'
  BY CallsAreKept DEF Unwished
<1>2. ASSUME wishlist[p] # NoReq, ~Unwished(p)' PROVE wishlist'[p] # NoReq
  <2>1. ~(call[r].op = "unwish" /\ call[r].product = p)
    BY <1>1, <1>2 DEF Unwished
  <2> QED
    BY <1>2, <2>1, WishMoves, RequestAssumption
<1> QED
  BY <1>1, <1>2 DEF Wished

\* Every wishlist row was put there by a request that was answered 200: what
\* a review has inserted is stored by its commit or not at all
\* (PurchaseService.review_session, WishlistService.add).
THEOREM WishesHaveAnswers == Spec => []WishesAreAcknowledged
<1>1. ASSUME Init PROVE WishesAreAcknowledged
  <2>1. \A p \in Product : wishlist[p] \in {Stored, NoReq}
    BY <1>1, InitAssumption DEF Init
  <2> QED
    BY <2>1, RequestAssumption DEF WishesAreAcknowledged
<1>2. TypeInv /\ WishesAreAcknowledged /\ [Next]_vars => WishesAreAcknowledged'
  <2> SUFFICES ASSUME TypeInv, WishesAreAcknowledged, [Next]_vars,
                      NEW p \in Product, wishlist'[p] \in Req
               PROVE  answer'[wishlist'[p]] = "200"
    BY DEF WishesAreAcknowledged
  <2>1. ASSUME NEW r \in Req, Arrive(r) \/ Proceed(r)
        PROVE  answer'[wishlist'[p]] = "200"
    <3>1. CASE wishlist'[p] = wishlist[p]
      <4>1. wishlist[p] \in Req /\ answer[wishlist[p]] = "200"
        BY <3>1 DEF WishesAreAcknowledged
      <4>2. answer[r] = "" /\ \A q \in Req \ {r} : answer'[q] = answer[q]
        BY <2>1, OneMoves
      <4> QED
        BY <3>1, <4>1, <4>2
    <3>2. CASE wishlist'[p] = r /\ answer'[r] = "200"
      BY <3>2
    <3> QED
      BY <2>1, <3>1, <3>2, WishMoves, RequestAssumption
  <2>2. CASE UNCHANGED vars
    BY <2>2 DEF vars, database, WishesAreAcknowledged
  <2> QED
    BY <2>1, <2>2 DEF Next, Quiet
<1> QED
  BY <1>1, <1>2, TypeInvariance, PTL DEF Spec

\* A row in which a product is interested holds what was stored before, or
\* what a review of it says.
LEMMA InterestedRows ==
    ASSUME TypeInv, NEW r \in Req, Arrive(r) \/ Proceed(r),
           NEW s \in Session, NEW p \in Product,
           rows'[s][p] # NoRow, rows'[s][p].interested
    PROVE  \/ rows[s][p] # NoRow /\ rows[s][p].interested
           \/ ReviewCommit(r) /\ p \in Wanted(call[r])
<1>1. CASE Upsert(r)
  <2>1. CASE s = call[r].session /\ p = target[r]
    <3>1. call[r].seen \in Observation
      BY <1>1, UpsertArgs DEF Upsert
    <3>2. CASE rows' = [rows EXCEPT ![s][p] = FirstSighting(call[r].seen)]
      BY <3>2 DEF FirstSighting, TypeInv, TypeOK
    <3>3. CASE /\ rows[s][p] \in Row /\ loaded[r][p] \in Row
               /\ rows' = [rows EXCEPT ![s][p] =
                     Patch(rows[s][p], loaded[r][p],
                           LaterSighting(loaded[r][p], call[r].seen))]
      <4>1. rows'[s][p] = Patch(rows[s][p], loaded[r][p],
                                LaterSighting(loaded[r][p], call[r].seen))
        BY <3>3 DEF TypeInv, TypeOK
      <4> QED
        BY <3>1, <3>3, <4>1, MergeWrites, NoRowAssumption DEF SameMarks
    <3> QED
      BY <1>1, <2>1, <3>2, <3>3, UpsertCases
  <2>2. CASE ~(s = call[r].session /\ p = target[r])
    <3>1. rows'[s][p] = rows[s][p]
      BY <1>1, <2>2, UpsertLeavesOthers
    <3> QED
      BY <3>1
  <2> QED
    BY <2>1, <2>2
<1>2. CASE ReviewCommit(r)
  <2>1. CASE s = call[r].session /\ Changes(r, p)
    <3>1. /\ loaded[r][p] \in Row /\ rows[s][p] \in Row
      BY <1>2, <2>1, ReviewArgs DEF ReviewCommit, Changes
    <3>2. rows'[s][p] = Patch(rows[s][p], loaded[r][p], ReviewedRow(r, p))
      BY <1>2, <2>1 DEF ReviewCommit, TypeInv, TypeOK
    <3>3. rows[s][p].interested \/ ReviewedRow(r, p).interested
      BY <3>2 DEF Patch, Column
    <3>4. ReviewedRow(r, p).interested => p \in Wanted(call[r])
      BY <3>1 DEF ReviewedRow, Reviewed, Wanted, Row
    <3> QED
      BY <1>2, <3>1, <3>3, <3>4, NoRowAssumption
  <2>2. CASE ~(s = call[r].session /\ Changes(r, p))
    <3>1. rows'[s][p] = rows[s][p]
      BY <1>2, <2>2 DEF ReviewCommit, TypeInv, TypeOK
    <3> QED
      BY <3>1
  <2> QED
    BY <2>1, <2>2
<1>3. CASE ~ReviewCommit(r) /\ ~Upsert(r)
  <2>1. UNCHANGED rows
    BY <1>3, ArriveHasShape DEF ArriveShape, Proceed, CompleteCommit,
       RecognizeNoMatch, RecognizeMatch, ReviewLook, ReviewInsert, ReviewMark,
       WishAdd, UnwishDelete, DeadlockAbort, database
  <2> QED
    BY <2>1
<1> QED
  BY <1>1, <1>2, <1>3

\* The products a review wants stay those it has yet to look at, those it has
\* inserted and those it has found on the wishlist.
LEMMA LookedAtKept ==
    ASSUME TypeInv, WishInv, NEW r \in Req, Arrive(r) \/ Proceed(r),
           NEW x \in Req
    PROVE  LookedAt(x)'
<1> SUFFICES ASSUME pc'[x] \in {"wish", "insert", "mark"},
                    NEW p \in Wanted(call'[x])
             PROVE  \/ p \in todo'[x] \cup pending'[x]
                    \/ pc'[x] = "insert" /\ p = target'[x]
                    \/ Wished(p)'
  BY DEF LookedAt
<1>1. p \in Product
  <2>1. call'[x] \in Call /\ call'[x].op = "review"
    BY StepTypeInv DEF Next, TypeInv, TypeOK, StepMatchesCall, Matches
  <2> QED
    BY <2>1, CallFields DEF Wanted
<1>2. CASE x # r
  <2>1. /\ pc'[x] = pc[x] /\ call'[x] = call[x] /\ target'[x] = target[x]
        /\ todo'[x] = todo[x] /\ pending'[x] = pending[x]
    BY <1>2, OneMoves, OthersKeepScratch
  <2>2. \/ p \in todo[x] \cup pending[x]
        \/ pc[x] = "insert" /\ p = target[x]
        \/ Wished(p)
    BY <2>1 DEF WishInv, LookedAt
  <2> QED
    BY <1>1, <2>1, <2>2, WishedStays
<1>3. CASE x = r /\ Arrive(r)
  <2>1. ReviewRead(r) /\ pc'[r] # "done"
    <3>1. PICK c \in CallsOf[r] :
             Send(r, c) /\ (Goto(r, Entry(c)) \/ \E code \in Answer : Reply(r, code))
      BY <1>3, ArriveHasShape DEF ArriveShape
    <3>2. Entry(c) \in Step /\ call'[r] = c
      BY <3>1, SendType DEF Entry, Step
    <3>3. pc'[r] = Entry(c)
      BY <1>3, <3>1, <3>2, GotoType, ReplyType
    <3>4. c.op = "review"
      BY <1>3, <3>3 DEF Entry
    <3> QED
      BY <1>3, <3>2, <3>4, SendType DEF Arrive, CreateSession, CompleteRead,
         RecognizeStart, WishRead, UnwishRead
  <2>2. PICK c \in CallsOf[r] :
           Send(r, c) /\ todo' = [todo EXCEPT ![r] = Wanted(c)]
    BY <2>1 DEF ReviewRead, Reply, TypeInv, TypeOK
  <2> QED
    BY <1>3, <2>2, SendType DEF TypeInv, TypeOK
<1>4. CASE x = r /\ Proceed(r)
  <2>1. /\ call'[r] = call[r] /\ pc'[r] # "done"
        /\ call[r].op = "review"
    <3>1. call'[r].op = "review"
      BY <1>4, StepTypeInv DEF Next, TypeInv, StepMatchesCall, Matches
    <3> QED
      BY <1>4, <3>1, OneMoves
  <2>2. /\ pc[r] \in {"wish", "insert", "mark"}
        /\ \/ p \in todo[r] \cup pending[r]
           \/ pc[r] = "insert" /\ p = target[r]
           \/ Wished(p)
    BY <1>4, <2>1, ProceedsByCall DEF ReviewLook, ReviewInsert, ReviewMark,
       Marking, ReviewCommit, DeadlockAbort, Reply, TypeInv, TypeOK, WishInv,
       LookedAt
  <2>3. ReviewLook(r) \/ ReviewInsert(r) \/ ReviewMark(r)
    BY <1>4, <2>1, ProceedsByCall DEF ReviewCommit, DeadlockAbort, Reply,
       TypeInv, TypeOK
  <2>4. UNCHANGED wishlist
    BY <2>3 DEF ReviewLook, ReviewInsert, ReviewMark, database
  <2>5. Wished(p) => Wished(p)'
    BY <1>1, WishedStays
  <2>6. CASE ReviewLook(r)
    <3>1. PICK y \in todo[r] :
             /\ todo' = [todo EXCEPT ![r] = @ \ {y}]
             /\ \/ wishlist[y] # NoReq
                \/ Goto(r, "insert") /\ target' = [target EXCEPT ![r] = y]
      BY <2>6 DEF ReviewLook
    <3>2. UNCHANGED pending /\ pc[r] = "wish"
      BY <2>6 DEF ReviewLook
    <3>3. CASE p = y /\ wishlist[y] # NoReq
      BY <2>5, <3>3 DEF Wished
    <3>4. CASE p = y /\ Goto(r, "insert") /\ target' = [target EXCEPT ![r] = y]
      BY <1>4, <3>4, GotoType DEF TypeInv, TypeOK, Step
    <3>5. CASE p # y
      BY <1>4, <2>2, <2>5, <3>1, <3>2, <3>5 DEF TypeInv, TypeOK
    <3> QED
      BY <3>1, <3>3, <3>4, <3>5
  <2>7. CASE ReviewInsert(r)
    <3>1. /\ pending' = [pending EXCEPT ![r] = @ \cup {target[r]}]
          /\ UNCHANGED <<todo, target>>
      BY <2>1, <2>7 DEF ReviewInsert, FailOnDuplicate, Reply, TypeInv, TypeOK
    <3>2. pending'[r] = pending[r] \cup {target[r]}
      BY <3>1 DEF TypeInv, TypeOK
    <3> QED
      BY <1>4, <2>2, <2>5, <3>1, <3>2
  <2>8. CASE ReviewMark(r)
    <3>1. UNCHANGED <<todo, target, pending>> /\ pc[r] # "insert"
      BY <2>8 DEF ReviewMark, Marking
    <3> QED
      BY <1>4, <2>2, <2>5, <3>1
  <2> QED
    BY <2>3, <2>6, <2>7, <2>8
<1> QED
  BY <1>2, <1>3, <1>4

\* A product marked interested is on the wishlist, unless somebody has asked
\* to take it off: what a review has seen on the wishlist, between its look
\* and its commit, only a delete takes away (review_session).
THEOREM InterestedIsWished == Spec => []OnlyADeleteUnwishes
<1>1. ASSUME Init PROVE WishInv
  <2>1. \A r \in Req : pc[r] = "idle"
    BY <1>1 DEF Init, RequestInit
  <2>2. OnlyADeleteUnwishes
    BY <1>1, InitAssumption DEF Init, OnlyADeleteUnwishes
  <2> QED
    BY <2>1, <2>2 DEF WishInv, LookedAt
<1>2. TypeInv /\ WishInv /\ [Next]_vars => WishInv'
  <2> SUFFICES ASSUME TypeInv, WishInv, [Next]_vars PROVE WishInv'
    OBVIOUS
  <2>1. ASSUME NEW r \in Req, Arrive(r) \/ Proceed(r) PROVE WishInv'
    <3>1. \A x \in Req : LookedAt(x)'
      BY <2>1, LookedAtKept
    <3>2. ASSUME NEW s \in Session, NEW p \in Product,
                 rows'[s][p] # NoRow, rows'[s][p].interested
          PROVE  Wished(p)'
      <4>1. CASE rows[s][p] # NoRow /\ rows[s][p].interested
        <5>1. Wished(p)
          BY <4>1 DEF WishInv, OnlyADeleteUnwishes, Wished, Unwished
        <5> QED
          BY <2>1, <5>1, WishedStays
      <4>2. CASE ReviewCommit(r) /\ p \in Wanted(call[r])
        <5>1. p \in pending[r] \/ Wished(p)
          BY <4>2 DEF ReviewCommit, WishInv, LookedAt
        <5>2. p \in pending[r] => wishlist'[p] # NoReq
          BY <4>2, RequestAssumption DEF ReviewCommit
        <5> QED
          BY <2>1, <5>1, <5>2, WishedStays DEF Wished
      <4> QED
        BY <2>1, <3>2, <4>1, <4>2, InterestedRows
    <3> QED
      BY <3>1, <3>2 DEF WishInv, OnlyADeleteUnwishes, Wished, Unwished
  <2>2. CASE UNCHANGED vars
    BY <2>2 DEF vars, database, scratch, WishInv, OnlyADeleteUnwishes, LookedAt,
       Wished, Unwished
  <2> QED
    BY <2>1, <2>2 DEF Next, Quiet
<1> QED
  BY <1>1, <1>2, TypeInvariance, PTL DEF Spec, WishInv

-----------------------------------------------------------------------------
(* Rows in play: the stored one and those that merges have loaded. Each is *)
(* made of what was seen. With several workers a merge may write back a    *)
(* count, or a bound of the window, that is behind; but all windows of a   *)
(* row ever in play overlap, so that it is never left empty.               *)

InPlay(s, p) ==
    ({rows[s][p]} \cup
     {loaded[r][p] : r \in {q \in Req : /\ pc[q] = "upsert"
                                        /\ call[q].session = s
                                        /\ target[q] = p}}) \ {NoRow}

Seen(s, p) == {call[r].seen : r \in Sightings(s, p)}

Old(s, p) == {InitRows[s][p]} \ {NoRow}

Most(s, p) == InitCount(s, p) + Cardinality(Sightings(s, p))

BackedBy(row, seen, old, most) ==
    /\ row.first \in {o.at : o \in seen} \cup {i.first : i \in old}
    /\ row.last \in {o.at : o \in seen} \cup {i.last : i \in old}
    /\ row.occupancy \in {x.occupancy : x \in seen \cup old}
    /\ row.dwell \in {x.dwell : x \in seen \cup old}
    /\ row.trigger \in {x.trigger : x \in seen \cup old}
    /\ row.dwell <= MaxDwell
    /\ row.count <= most

PlayInv ==
    \A s \in Session, p \in Product :
       \A row \in InPlay(s, p) :
          /\ BackedBy(row, Seen(s, p), Old(s, p), Most(s, p))
          /\ \A other \in InPlay(s, p) : row.first <= other.last

\* More that was seen backs a row all the same.
LEMMA BackedByMore ==
    ASSUME NEW row \in Row, NEW same, SameObservation(same, row),
           NEW seen, NEW more, seen \subseteq more, NEW old,
           NEW most \in Nat, NEW bound \in Nat, most <= bound,
           BackedBy(row, seen, old, most)
    PROVE  BackedBy(same, more, old, bound)
BY DEF BackedBy, SameObservation, Row

\* What a merge writes, column by column: what is stored, if the sighting
\* does not exceed what was loaded, or else what the sighting says.
LEMMA MergeColumns ==
    ASSUME NEW stored \in Row, NEW before \in Row, NEW o \in Observation
    PROVE  LET new == Patch(stored, before, LaterSighting(before, o))
           IN  /\ \/ new.first = stored.first
                  \/ new.first = o.at /\ o.at < before.first
               /\ \/ new.last = stored.last
                  \/ new.last = o.at /\ before.last < o.at
               /\ new.occupancy \in {stored.occupancy, o.occupancy}
               /\ new.dwell \in {stored.dwell, o.dwell}
               /\ new.trigger \in {stored.trigger, o.trigger}
               /\ new.count = before.count + 1
<1> DEFINE later == LaterSighting(before, o)
<1>1. /\ later.first = Least(before.first, o.at)
      /\ later.last = Greatest(before.last, o.at)
      /\ later.occupancy = Greatest(before.occupancy, o.occupancy)
      /\ later.dwell = Greatest(before.dwell, o.dwell)
      /\ later.trigger = o.trigger
      /\ later.count = before.count + 1
  BY DEF Row, LaterSighting
<1>2. /\ before.first \in Nat /\ before.last \in Nat /\ o.at \in Nat
      /\ before.count \in Nat
  BY DEF Row, Observation
<1> HIDE DEF later
<1>3. /\ \/ later.first = before.first /\ before.first <= o.at
         \/ later.first = o.at /\ o.at < before.first
      /\ \/ later.last = before.last /\ o.at <= before.last
         \/ later.last = o.at /\ before.last < o.at
      /\ later.occupancy \in {before.occupancy, o.occupancy}
      /\ later.dwell \in {before.dwell, o.dwell}
      /\ later.count # before.count
  BY <1>1, <1>2 DEF Least, Greatest
<1> QED
  BY <1>1, <1>3 DEF Patch, Column, later

\* The window a merge writes overlaps every window that overlaps the stored
\* and the loaded one.
LEMMA MergeOverlaps ==
    ASSUME NEW stored \in Row, NEW before \in Row, NEW o \in Observation,
           NEW other \in Row,
           stored.first <= other.last, other.first <= stored.last,
           before.first <= other.last, other.first <= before.last
    PROVE  LET new == Patch(stored, before, LaterSighting(before, o))
           IN  new.first <= other.last /\ other.first <= new.last
<1>1. /\ stored.first \in Nat /\ stored.last \in Nat /\ before.first \in Nat
      /\ before.last \in Nat /\ other.first \in Nat /\ other.last \in Nat
      /\ o.at \in Nat
  BY DEF Row, Observation
<1> QED
  BY <1>1, MergeColumns

\* The window a merge writes is not empty.
LEMMA MergeLeavesWindow ==
    ASSUME NEW stored \in Row, NEW before \in Row, NEW o \in Observation,
           stored.first <= stored.last, before.first <= before.last,
           stored.first <= before.last, before.first <= stored.last
    PROVE  LET new == Patch(stored, before, LaterSighting(before, o))
           IN  new.first <= new.last
<1>1. /\ stored.first \in Nat /\ stored.last \in Nat /\ before.first \in Nat
      /\ before.last \in Nat /\ o.at \in Nat
  BY DEF Row, Observation
<1> QED
  BY <1>1, MergeColumns

\* What a merge writes is backed by what backs the stored and the loaded row,
\* and by the sighting.
LEMMA MergeIsBacked ==
    ASSUME NEW stored \in Row, NEW before \in Row, NEW o \in Observation,
           o.dwell <= MaxDwell, NEW seen, NEW old, NEW most \in Nat,
           BackedBy(stored, seen, old, most), BackedBy(before, seen, old, most)
    PROVE  BackedBy(Patch(stored, before, LaterSighting(before, o)),
                    seen \cup {o}, old, most + 1)
<1> DEFINE new == Patch(stored, before, LaterSighting(before, o))
<1>1. /\ new.first \in {stored.first, o.at} /\ new.last \in {stored.last, o.at}
      /\ new.occupancy \in {stored.occupancy, o.occupancy}
      /\ new.dwell \in {stored.dwell, o.dwell}
      /\ new.trigger \in {stored.trigger, o.trigger}
      /\ new.count = before.count + 1
  BY MergeColumns
<1>2. before.count \in Nat
  BY DEF Row
<1> HIDE DEF new
<1>3. new.count <= most + 1
  BY <1>1, <1>2 DEF BackedBy
<1>4. BackedBy(new, seen \cup {o}, old, most + 1)
  BY <1>1, <1>3 DEF BackedBy
<1> QED
  BY <1>4 DEF new

\* What is in play are rows.
LEMMA InPlayType ==
    ASSUME TypeInv, NEW s \in Session, NEW p \in Product
    PROVE  /\ InPlay(s, p) \subseteq Row
           /\ Most(s, p) \in Nat
<1>1. \A r \in Req : loaded[r][p] \in MaybeRow
  BY DEF TypeInv, TypeOK
<1>2. rows[s][p] \in MaybeRow
  BY DEF TypeInv, TypeOK
<1>3. InitCount(s, p) \in Nat
  BY InitAssumption DEF InitCount, MaybeRow, Row
<1> QED
  BY <1>1, <1>2, <1>3, SightingsFinite DEF InPlay, MaybeRow, Most

\* A step that merges nothing brings no observation into play.
LEMMA QuietPlay ==
    ASSUME TypeInv, PlayInv, NEW r \in Req,
           Arrive(r) \/ (Proceed(r) /\ ~Upsert(r)),
           NEW s \in Session, NEW p \in Product, NEW row \in InPlay(s, p)'
    PROVE  \E was \in InPlay(s, p) : SameObservation(row, was)
<1>1. CASE row = rows'[s][p]
  <2>1. rows'[s][p] # NoRow
    BY <1>1 DEF InPlay
  <2>2. rows[s][p] # NoRow /\ SameObservation(row, rows[s][p])
    BY <1>1, <2>1, QuietRows, QuietObservation
  <2> QED
    BY <2>2 DEF InPlay
<1>2. CASE row # rows'[s][p]
  <2>1. PICK q \in Req : /\ pc'[q] = "upsert" /\ call'[q].session = s
                         /\ target'[q] = p /\ row = loaded'[q][p]
    BY <1>2 DEF InPlay
  <2>2. row # NoRow
    BY DEF InPlay
  <2>3. CASE q # r
    <3>1. row \in InPlay(s, p)
      BY <2>1, <2>2, <2>3, QuietStep DEF InPlay
    <3> QED
      BY <3>1 DEF SameObservation
  <2>4. CASE q = r
    <3>1. RecognizeMatch(r)
      BY <2>1, <2>4, EntersMerge
    <3>2. PICK y \in Product :
            /\ target' = [target EXCEPT ![r] = y]
            /\ loaded' = [loaded EXCEPT ![r][y] = rows[call[r].session][y]]
      BY <3>1, CatalogueAssumption DEF RecognizeMatch
    <3>3. target'[r] = y /\ loaded'[r][y] = rows[call[r].session][y]
      BY <3>2 DEF TypeInv, TypeOK
    <3>4. UNCHANGED <<call, rows>>
      BY <3>1 DEF RecognizeMatch, database
    <3> QED
      BY <1>2, <2>1, <2>4, <3>3, <3>4
  <2> QED
    BY <2>3, <2>4
<1> QED
  BY <1>1, <1>2

\* So a step that merges nothing leaves what is in play backed.
LEMMA QuietPlayInv ==
    ASSUME TypeInv, PlayInv, NEW r \in Req,
           Arrive(r) \/ (Proceed(r) /\ ~Upsert(r))
    PROVE  PlayInv'
<1> SUFFICES ASSUME NEW s \in Session, NEW p \in Product, NEW row \in InPlay(s, p)'
             PROVE  /\ BackedBy(row, Seen(s, p)', Old(s, p), Most(s, p)')
                    /\ \A other \in InPlay(s, p)' : row.first <= other.last
  BY DEF PlayInv, Old
<1>1. Seen(s, p)' = Seen(s, p) /\ Most(s, p)' = Most(s, p)
  BY QuietSightings DEF Seen, Most
<1>2. PICK was \in InPlay(s, p) : SameObservation(row, was)
  BY QuietPlay
<1>3. BackedBy(was, Seen(s, p), Old(s, p), Most(s, p))
  BY DEF PlayInv
<1>4. was \in Row /\ Most(s, p) \in Nat
  BY InPlayType
<1>5. BackedBy(row, Seen(s, p)', Old(s, p), Most(s, p)')
  BY <1>1, <1>2, <1>3, <1>4, BackedByMore
<1>6. ASSUME NEW other \in InPlay(s, p)'
      PROVE  row.first <= other.last
  <2>1. PICK had \in InPlay(s, p) : SameObservation(other, had)
    BY QuietPlay
  <2> QED
    BY <1>2, <2>1 DEF PlayInv, SameObservation
<1> QED
  BY <1>5, <1>6

\* What a merge leaves in play: the row it writes and those others loaded.
LEMMA UpsertPlay ==
    ASSUME TypeInv, NEW r \in Req, Upsert(r),
           NEW s \in Session, NEW p \in Product, NEW row \in InPlay(s, p)'
    PROVE  \/ row \in InPlay(s, p)
           \/ /\ s = call[r].session /\ p = target[r] /\ row = rows'[s][p]
              /\ answer'[r] \in {"NEW", "AGAIN"}
<1>1. UNCHANGED <<call, target, loaded>> /\ pc'[r] = "done"
  BY UpsertCases, UpsertSightings, UpsertArgs, ReplyType DEF Upsert, Answer
<1>2. CASE row # rows'[s][p]
  BY <1>1, <1>2, UpsertSightings DEF InPlay
<1>3. CASE row = rows'[s][p]
  <2>1. CASE rows'[s][p] = rows[s][p]
    BY <1>3, <2>1 DEF InPlay
  <2>2. CASE rows'[s][p] # rows[s][p]
    <3>1. s = call[r].session /\ p = target[r] /\ ~UNCHANGED rows
      BY <2>2, UpsertLeavesOthers
    <3>2. answer'[r] \in {"NEW", "AGAIN"}
      BY <3>1, UpsertCases, ReplyType DEF Answer
    <3> QED
      BY <1>3, <3>1, <3>2
  <2> QED
    BY <2>1, <2>2
<1> QED
  BY <1>2, <1>3

\* A merge leaves what is in play backed, and its windows overlapping.
LEMMA UpsertPlayInv ==
    ASSUME TypeInv, PlayInv, NEW r \in Req, Upsert(r)
    PROVE  PlayInv'
<1> SUFFICES ASSUME NEW s \in Session, NEW p \in Product
             PROVE  \A row \in InPlay(s, p)' :
                       /\ BackedBy(row, Seen(s, p)', Old(s, p), Most(s, p)')
                       /\ \A other \in InPlay(s, p)' : row.first <= other.last
  BY DEF PlayInv, Old
<1>1. /\ Seen(s, p) \subseteq Seen(s, p)'
      /\ Most(s, p) <= Most(s, p)' /\ Most(s, p) \in Nat /\ Most(s, p)' \in Nat
      /\ InPlay(s, p) \subseteq Row
      /\ s = call[r].session /\ p = target[r] /\ answer'[r] \in {"NEW", "AGAIN"}
           => /\ Seen(s, p)' = Seen(s, p) \cup {call[r].seen}
              /\ Most(s, p)' = Most(s, p) + 1
  <2>1. /\ UNCHANGED call /\ r \notin Sightings(s, p)
        /\ Sightings(s, p)' =
             IF /\ s = call[r].session /\ p = target[r]
                /\ answer'[r] \in {"NEW", "AGAIN"}
             THEN Sightings(s, p) \cup {r} ELSE Sightings(s, p)
    BY UpsertSightings
  <2>2. Cardinality(Sightings(s, p) \cup {r}) = Cardinality(Sightings(s, p)) + 1
    BY <2>1, SightingsFinite, FS_AddElement
  <2>3. /\ Cardinality(Sightings(s, p)) \in Nat /\ InitCount(s, p) \in Nat
        /\ Most(s, p) \in Nat /\ InPlay(s, p) \subseteq Row
    <3>1. InitCount(s, p) \in Nat
      BY InitAssumption DEF InitCount, MaybeRow, Row
    <3> QED
      BY <3>1, SightingsFinite, InPlayType
  <2> QED
    BY <2>1, <2>2, <2>3 DEF Seen, Most
<1>2. ASSUME NEW row \in InPlay(s, p)
      PROVE  /\ row \in Row
             /\ BackedBy(row, Seen(s, p)', Old(s, p), Most(s, p)')
             /\ \A other \in InPlay(s, p) : row.first <= other.last
  <2>1. /\ row \in Row /\ BackedBy(row, Seen(s, p), Old(s, p), Most(s, p))
        /\ \A other \in InPlay(s, p) : row.first <= other.last
    BY <1>1 DEF PlayInv
  <2> QED
    BY <1>1, <2>1, BackedByMore DEF SameObservation
<1>3. CASE \A row \in InPlay(s, p)' : row \in InPlay(s, p)
  BY <1>2, <1>3
<1>4. CASE /\ s = call[r].session /\ p = target[r]
           /\ answer'[r] \in {"NEW", "AGAIN"}
  <2> DEFINE o == call[r].seen
             new == rows'[s][p]
  <2>1. /\ o \in Observation /\ o.dwell <= MaxDwell /\ new \in Row
        /\ \A row \in InPlay(s, p)' : row \in InPlay(s, p) \/ row = new
    <3>1. pc[r] = "upsert"
      BY DEF Upsert
    <3>2. o \in Observation
      BY <3>1, UpsertArgs
    <3>3. o.dwell <= MaxDwell
      BY <1>4, UpsertCases, ReplyType DEF Answer
    <3>4. new \in Row
      BY <1>4, UpsertStores
    <3>5. \A row \in InPlay(s, p)' : row \in InPlay(s, p) \/ row = new
      BY UpsertPlay
    <3> QED
      BY <3>2, <3>3, <3>4, <3>5
  <2>2. CASE /\ rows[s][p] = NoRow
             /\ rows' = [rows EXCEPT ![s][p] = FirstSighting(o)]
    <3>1. new = FirstSighting(o)
      BY <2>2 DEF TypeInv, TypeOK
    <3>2. InPlay(s, p) = {}
      BY <2>2 DEF InPlay, TypeInv, RowsStayStored, WritesBack
    <3>3. new.first <= new.last /\ 1 <= Most(s, p)'
      BY <1>1, <1>4, <2>1, <3>1 DEF FirstSighting, Observation
    <3>4. BackedBy(new, Seen(s, p)', Old(s, p), Most(s, p)')
      BY <1>1, <1>4, <2>1, <3>1, <3>3 DEF BackedBy, FirstSighting
    <3> QED
      BY <2>1, <3>2, <3>3, <3>4
  <2>3. CASE /\ rows[s][p] \in Row /\ loaded[r][p] \in Row
             /\ rows' = [rows EXCEPT ![s][p] =
                   Patch(rows[s][p], loaded[r][p], LaterSighting(loaded[r][p], o))]
    <3> DEFINE stored == rows[s][p]
               before == loaded[r][p]
    <3>1. new = Patch(stored, before, LaterSighting(before, o))
      BY <2>3 DEF TypeInv, TypeOK
    <3>2. stored \in InPlay(s, p) /\ before \in InPlay(s, p)
      BY <1>4, <2>3, NoRowAssumption DEF InPlay, Upsert
    <3>3. BackedBy(new, Seen(s, p)', Old(s, p), Most(s, p)')
      BY <1>1, <1>4, <2>1, <2>3, <3>1, <3>2, MergeIsBacked DEF PlayInv
    <3>4. new.first <= new.last
      BY <2>1, <2>3, <3>1, <3>2, MergeLeavesWindow DEF PlayInv
    <3>5. ASSUME NEW other \in InPlay(s, p)
          PROVE  new.first <= other.last /\ other.first <= new.last
      BY <1>1, <2>1, <2>3, <3>1, <3>2, MergeOverlaps DEF PlayInv
    <3> QED
      BY <1>2, <2>1, <3>3, <3>4, <3>5
  <2> QED
    BY <1>4, <2>2, <2>3, UpsertCases, ReplyType DEF Answer
<1> QED
  BY <1>3, <1>4, UpsertPlay

\* Whatever the number of workers, a row says nothing that no acknowledged
\* observation and no earlier row said, its window is never empty and its
\* count never too high: a column-wise UPDATE of a row that was overtaken can
\* lose a sighting, but not make one up (upsert_observation).
THEOREM RowsAreBacked == Spec => []NothingInvented
<1>1. ASSUME Init PROVE PlayInv
  <2> SUFFICES ASSUME NEW s \in Session, NEW p \in Product, NEW row \in InPlay(s, p)
               PROVE  /\ BackedBy(row, Seen(s, p), Old(s, p), Most(s, p))
                      /\ \A other \in InPlay(s, p) : row.first <= other.last
    BY DEF PlayInv
  <2>1. InPlay(s, p) = {InitRows[s][p]} \ {NoRow}
    BY <1>1 DEF Init, RequestInit, InPlay
  <2>2. InitRows[s][p] # NoRow => /\ InitRows[s][p].first <= InitRows[s][p].last
                                  /\ InitRows[s][p].dwell <= MaxDwell
    BY InitAssumption
  <2>3. Most(s, p) = InitCount(s, p) + Cardinality(Sightings(s, p))
    BY DEF Most
  <2>4. row = InitRows[s][p] /\ row # NoRow /\ row \in Row
    BY <2>1, InitAssumption DEF MaybeRow
  <2>5. row.count <= Most(s, p)
    BY <2>3, <2>4, SightingsFinite DEF InitCount, Row
  <2> QED
    BY <2>1, <2>2, <2>4, <2>5 DEF BackedBy, Old
<1>2. TypeInv /\ PlayInv /\ [Next]_vars => PlayInv'
  <2> SUFFICES ASSUME TypeInv, PlayInv, [Next]_vars PROVE PlayInv'
    OBVIOUS
  <2>1. ASSUME NEW r \in Req, Arrive(r) \/ (Proceed(r) /\ ~Upsert(r)) PROVE PlayInv'
    BY <2>1, QuietPlayInv
  <2>2. ASSUME NEW r \in Req, Upsert(r) PROVE PlayInv'
    BY <2>2, UpsertPlayInv
  <2>3. CASE UNCHANGED vars
    <3>1. UNCHANGED <<rows, loaded, pc, call, target, answer>>
      BY <2>3 DEF vars, database, scratch
    <3>2. \A s, p : Sightings(s, p)' = Sightings(s, p)
      BY <3>1 DEF Sightings
    <3>3. \A s, p : /\ InPlay(s, p)' = InPlay(s, p)
                    /\ Seen(s, p)' = Seen(s, p) /\ Most(s, p)' = Most(s, p)
      BY <3>1, <3>2 DEF InPlay, Seen, Most
    <3> QED
      BY <3>3 DEF PlayInv, Old
  <2> QED
    BY <2>1, <2>2, <2>3 DEF Next, Quiet, Proceed
<1>3. TypeInv /\ PlayInv => NothingInvented
  <2> SUFFICES ASSUME PlayInv, NEW s \in Session, NEW p \in Product,
                      rows[s][p] # NoRow
               PROVE  /\ BackedBy(rows[s][p], Seen(s, p), Old(s, p), Most(s, p))
                      /\ rows[s][p].first <= rows[s][p].last
    BY DEF NothingInvented, BackedBy, Seen, Old, Most
  <2> QED
    BY DEF PlayInv, InPlay
<1> QED
  BY <1>1, <1>2, <1>3, TypeInvariance, PTL DEF Spec

-----------------------------------------------------------------------------
(* Reviews of a session, one after the other. *)

OnlyReview(r) ==
    \A q \in Req \ {r} :
       call[q].op = "review" /\ call[q].session = call[r].session
          => q \in Before[r]

\* Between the read and the commit of a review no marks change, and rows that
\* appear are unmarked.
MarksKept(r) ==
    \A p \in Product :
       LET row == rows[call[r].session][p] IN
       /\ loaded[r][p] # NoRow => SameMarks(row, loaded[r][p])
       /\ loaded[r][p] = NoRow /\ row # NoRow =>
             row.purchase = "UNSET" /\ row.interested = FALSE

MarksStand(r) ==
    \A p \in Product :
       loaded[r][p] # NoRow =>
          LET row == rows[call[r].session][p]
          IN  row # NoRow /\ SameMarks(row, ReviewedRow(r, p))

ReviewInv ==
    \A r \in Req : call[r].op = "review" /\ OnlyReview(r) =>
       /\ pc[r] \in {"wish", "insert", "mark"} => MarksKept(r)
       /\ answer[r] = "200" => MarksStand(r)

\* The marks of a row are changed by the commit of a review and by nothing
\* else; a row that appears carries none.
LEMMA MarksMove ==
    ASSUME TypeInv, NEW x \in Req, Arrive(x) \/ Proceed(x),
           NEW s \in Session, NEW p \in Product,
           ~(ReviewCommit(x) /\ call[x].session = s)
    PROVE  /\ rows[s][p] # NoRow =>
                 rows'[s][p] # NoRow /\ SameMarks(rows'[s][p], rows[s][p])
           /\ rows[s][p] = NoRow /\ rows'[s][p] # NoRow =>
                 rows'[s][p].purchase = "UNSET" /\ rows'[s][p].interested = FALSE
<1>1. CASE Upsert(x)
  <2>1. CASE s = call[x].session /\ p = target[x]
    <3>1. call[x].seen \in Observation
      BY <1>1, UpsertArgs DEF Upsert
    <3>2. CASE /\ rows[s][p] = NoRow
               /\ rows' = [rows EXCEPT ![s][p] = FirstSighting(call[x].seen)]
      BY <3>2 DEF FirstSighting, TypeInv, TypeOK
    <3>3. CASE /\ rows[s][p] \in Row /\ loaded[x][p] \in Row
               /\ rows' = [rows EXCEPT ![s][p] =
                     Patch(rows[s][p], loaded[x][p],
                           LaterSighting(loaded[x][p], call[x].seen))]
      <4>1. rows'[s][p] = Patch(rows[s][p], loaded[x][p],
                                LaterSighting(loaded[x][p], call[x].seen))
        BY <3>3 DEF TypeInv, TypeOK
      <4>2. rows'[s][p] \in Row
        BY <3>1, <3>3, <4>1, PatchType, LaterSightingType
      <4> QED
        BY <3>1, <3>3, <4>1, <4>2, MergeWrites, NoRowAssumption
    <3> QED
      BY <1>1, <2>1, <3>2, <3>3, UpsertCases DEF SameMarks
  <2>2. CASE ~(s = call[x].session /\ p = target[x])
    <3>1. rows'[s][p] = rows[s][p]
      BY <1>1, <2>2, UpsertLeavesOthers
    <3> QED
      BY <3>1 DEF SameMarks
  <2> QED
    BY <2>1, <2>2
<1>2. CASE ReviewCommit(x)
  <2>1. rows'[s] = rows[s]
    BY <1>2 DEF ReviewCommit, TypeInv, TypeOK
  <2> QED
    BY <2>1 DEF SameMarks
<1>3. CASE ~ReviewCommit(x) /\ ~Upsert(x)
  <2>1. UNCHANGED rows
    BY <1>3, ArriveHasShape DEF ArriveShape, Proceed, CompleteCommit,
       RecognizeNoMatch, RecognizeMatch, ReviewLook, ReviewInsert, ReviewMark,
       WishAdd, UnwishDelete, DeadlockAbort, database
  <2> QED
    BY <2>1 DEF SameMarks
<1> QED
  BY <1>1, <1>2, <1>3

\* The only review of its session meets no other in the middle.
LEMMA OnlyReviewAlone ==
    ASSUME TypeInv, SentInTurn, NEW r \in Req, call[r].op = "review",
           OnlyReview(r), NEW x \in Req \ {r}, Arrive(x) \/ Proceed(x)
    PROVE  ~(ReviewCommit(x) /\ call[x].session = call[r].session)
<1> SUFFICES ASSUME ReviewCommit(x), call[x].session = call[r].session
             PROVE  FALSE
  OBVIOUS
<1>1. pc[x] = "wish" /\ call[x].op = "review"
  BY DEF ReviewCommit, TypeInv, StepMatchesCall, Matches
<1>2. x \in Before[r]
  BY <1>1 DEF OnlyReview
<1>3. pc[r] # "idle"
  BY DEF TypeInv, StepMatchesCall, Matches
<1> QED
  BY <1>1, <1>2, <1>3 DEF SentInTurn

\* The commit of a review sets the marks of the rows it loaded, if nobody has
\* changed them since.
LEMMA CommitSetsMarks ==
    ASSUME TypeInv, NEW r \in Req, ReviewCommit(r), MarksKept(r)
    PROVE  MarksStand(r)'
<1> SUFFICES ASSUME NEW p \in Product, loaded'[r][p] # NoRow
             PROVE  LET row == rows'[call'[r].session][p]
                    IN  row # NoRow /\ SameMarks(row, ReviewedRow(r, p)')
  BY DEF MarksStand
<1>1. UNCHANGED <<call, loaded>> /\ pc[r] = "wish"
  BY DEF ReviewCommit
<1>2. ReviewedRow(r, p)' = ReviewedRow(r, p)
  BY <1>1 DEF ReviewedRow
<1> DEFINE s == call[r].session
<1>3. /\ s \in Session /\ loaded[r][p] \in Row /\ rows[s][p] \in Row
      /\ SameMarks(rows[s][p], loaded[r][p])
  BY <1>1, ReviewArgs DEF MaybeRow, MarksKept
<1>4. rows'[s][p] # NoRow
  BY <1>3, ReviewCommitRows, NoRowAssumption DEF KeepsRows
<1>5. CASE Changes(r, p)
  <2>1. rows'[s][p] = Patch(rows[s][p], loaded[r][p], ReviewedRow(r, p))
    BY <1>3, <1>5 DEF ReviewCommit, TypeInv, TypeOK
  <2>2. SameMarks(rows'[s][p], ReviewedRow(r, p))
    BY <1>3, <2>1, ReviewWrites DEF ReviewedRow
  <2> QED
    BY <1>1, <1>2, <1>4, <2>2
<1>6. CASE ~Changes(r, p)
  <2>1. rows'[s][p] = rows[s][p]
    BY <1>3, <1>6 DEF ReviewCommit, TypeInv, TypeOK
  <2>2. ReviewedRow(r, p) = loaded[r][p]
    BY <1>1, <1>6 DEF Changes
  <2> QED
    BY <1>1, <1>2, <1>3, <1>4, <2>1, <2>2
<1> QED
  BY <1>5, <1>6

\* From its read to its answer a review finds the marks as it left them.
LEMMA ReviewKept ==
    ASSUME TypeInv, SentInTurn, ReviewInv, NEW x \in Req, Arrive(x) \/ Proceed(x)
    PROVE  ReviewInv'
<1> SUFFICES ASSUME NEW r \in Req, call'[r].op = "review", OnlyReview(r)'
             PROVE  /\ pc'[r] \in {"wish", "insert", "mark"} => MarksKept(r)'
                    /\ answer'[r] = "200" => MarksStand(r)'
  BY DEF ReviewInv
<1>1. CASE x = r /\ Arrive(r)
  <2>1. ReviewRead(r)
    BY <1>1, SendType DEF Arrive, CreateSession, CompleteRead, RecognizeStart,
       WishRead, UnwishRead
  <2>2. PICK c \in CallsOf[r] :
          /\ Send(r, c)
          /\ \/ Reply(r, "404") \/ Reply(r, "422")
             \/ /\ Goto(r, "wish")
                /\ loaded' = [loaded EXCEPT ![r] = rows[c.session]]
    BY <2>1 DEF ReviewRead
  <2>3. call'[r] = c /\ UNCHANGED rows
    BY <2>1, <2>2, SendType DEF ReviewRead, database
  <2>4. CASE Reply(r, "404") \/ Reply(r, "422")
    BY <2>4, ReplyType DEF Answer
  <2>5. CASE /\ Goto(r, "wish")
             /\ loaded' = [loaded EXCEPT ![r] = rows[c.session]]
    <3>1. answer'[r] = ""
      BY <1>1, <2>5, OneMoves, GotoType DEF Step
    <3>2. loaded'[r] = rows'[call'[r].session]
      BY <2>3, <2>5 DEF TypeInv, TypeOK
    <3>3. MarksKept(r)'
      BY <3>2 DEF MarksKept, SameMarks
    <3> QED
      BY <3>1, <3>3
  <2> QED
    BY <2>2, <2>4, <2>5
<1>2. CASE ~(x = r /\ Arrive(r))
  <2>1. call'[r] = call[r]
    BY <1>2, OneMoves
  <2>2. OnlyReview(r)
    BY <2>1, CallsAreKept DEF OnlyReview
  <2>3. /\ pc[r] \in {"wish", "insert", "mark"} => MarksKept(r)
        /\ answer[r] = "200" => MarksStand(r)
    BY <2>1, <2>2 DEF ReviewInv
  <2>4. call[r].session \in Session
    BY <2>1, CallFields DEF TypeInv, TypeOK
  <2>5. CASE x # r
    <3>1. pc'[r] = pc[r] /\ answer'[r] = answer[r] /\ loaded'[r] = loaded[r]
      BY <2>5, OneMoves
    <3>2. ASSUME NEW p \in Product
          PROVE  LET row == rows[call[r].session][p]
                     new == rows'[call[r].session][p]
                 IN  /\ row # NoRow => new # NoRow /\ SameMarks(new, row)
                     /\ row = NoRow /\ new # NoRow =>
                          new.purchase = "UNSET" /\ new.interested = FALSE
      BY <2>1, <2>2, <2>4, <2>5, OnlyReviewAlone, MarksMove
    <3>3. ASSUME pc[r] \in {"wish", "insert", "mark"} PROVE MarksKept(r)'
      <4>1. \A p \in Product :
               loaded[r][p] # NoRow => rows[call[r].session][p] # NoRow
        BY <3>3 DEF TypeInv, RowsStayStored, WritesBack
      <4> QED
        BY <2>1, <2>3, <3>1, <3>2, <3>3, <4>1 DEF MarksKept, SameMarks
    <3>4. ASSUME answer[r] = "200" PROVE MarksStand(r)'
      <4>1. \A p \in Product : ReviewedRow(r, p)' = ReviewedRow(r, p)
        BY <2>1, <3>1 DEF ReviewedRow
      <4> QED
        BY <2>1, <2>3, <3>1, <3>2, <3>4, <4>1 DEF MarksStand, SameMarks
    <3> QED
      BY <3>1, <3>3, <3>4
  <2>6. CASE x = r
    <3>1. Proceed(r) /\ call[r].op = "review" /\ answer[r] = ""
      BY <1>2, <2>1, <2>6, OneMoves
    <3>2. CASE ReviewCommit(r)
      <4>1. pc'[r] = "done" /\ pc[r] = "wish"
        BY <3>2, ReplyType DEF ReviewCommit, Answer
      <4> QED
        BY <2>3, <3>2, <4>1, CommitSetsMarks
    <3>3. CASE ReviewLook(r) \/ ReviewInsert(r) \/ ReviewMark(r)
      <4>1. /\ UNCHANGED <<rows, call, loaded>>
            /\ pc[r] \in {"wish", "insert", "mark"}
        BY <3>3 DEF ReviewLook, ReviewInsert, ReviewMark, Marking, database
      <4>2. \/ \E step \in Step : Goto(r, step)
            \/ Reply(r, "500")
        BY <3>3 DEF ReviewLook, ReviewInsert, ReviewMark, FailOnDuplicate, Step
      <4>3. answer'[r] # "200"
        BY <3>1, <4>2, GotoType, ReplyType DEF Answer
      <4> QED
        BY <2>3, <4>1, <4>3 DEF MarksKept
    <3>4. CASE DeadlockAbort(r)
      BY <3>4, ReplyType DEF DeadlockAbort, Answer
    <3> QED
      BY <3>1, <3>2, <3>3, <3>4, ProceedsByCall
  <2> QED
    BY <2>5, <2>6
<1> QED
  BY <1>1, <1>2

\* The marks of an acknowledged review stand on every row it saw, however
\* recognitions are merged into the rows before, during and after it, on any
\* number of workers, as long as every other review of the session was
\* answered before it was sent (PurchaseService.review_session and the
\* column-wise UPDATE of the ORM).
THEOREM ReviewsAreKept == Spec => []ReviewStands
<1>1. ASSUME Init PROVE SentInTurn /\ ReviewInv
  <2>1. \A r \in Req : pc[r] = "idle" /\ call[r].op = "none"
    BY <1>1 DEF Init, RequestInit, NoCall
  <2> QED
    BY <2>1 DEF SentInTurn, ReviewInv
<1>2. TypeInv /\ SentInTurn /\ ReviewInv /\ [Next]_vars => SentInTurn' /\ ReviewInv'
  <2> SUFFICES ASSUME TypeInv, SentInTurn, ReviewInv, [Next]_vars
               PROVE  SentInTurn' /\ ReviewInv'
    OBVIOUS
  <2>1. ASSUME NEW r \in Req, Arrive(r) \/ Proceed(r)
        PROVE  SentInTurn' /\ ReviewInv'
    BY <2>1, SentInTurnKept, ReviewKept
  <2>2. CASE UNCHANGED vars
    <3>1. UNCHANGED <<pc, call, answer, rows, loaded>>
      BY <2>2 DEF vars, database, scratch
    <3> QED
      BY <3>1 DEF SentInTurn, ReviewInv, OnlyReview, MarksKept, MarksStand,
         ReviewedRow
  <2> QED
    BY <2>1, <2>2 DEF Next, Quiet
<1>3. ReviewInv => ReviewStands
  BY DEF ReviewInv, ReviewStands, OnlyReview, MarksStand, SameMarks
<1> QED
  BY <1>1, <1>2, <1>3, TypeInvariance, PTL DEF Spec

-----------------------------------------------------------------------------
(* The ledger. The marks of a session and its completion are not meant to  *)
(* be changed from two sides at once: of two reviews of a session, or two  *)
(* completes of it, that requests may send, one comes after the other.     *)
(* Frames, wishes and calls on other sessions overlap as they like.        *)

OneAfterAnother ==
    \A q, r \in Req : \A c \in CallsOf[q], d \in CallsOf[r] :
       /\ q # r
       /\ c.op = d.op /\ c.op \in {"review", "complete"} /\ c.session = d.session
       => q \in Before[r] \/ r \in Before[q]

\* The calls a request has made are calls it may make.
CallsMade == \A r \in Req : pc[r] # "idle" => call[r] \in CallsOf[r]

LedgerInv ==
    /\ CallsMade
    /\ \A s \in Session : completedBy[s] = NoReq <=> status[s] # "COMPLETED"
    /\ \A r \in Req : pc[r] = "complete" => status[call[r].session] = "ACTIVE"
    /\ \A r \in Req : pc[r] \in {"wish", "insert", "mark"} =>
          \A p \in call[r].purchased \cup call[r].interested : loaded[r][p] # NoRow


\* Calls come one after the other where the ledger wants them to.
LEMMA LedgerKept ==
    ASSUME OneAfterAnother, TypeInv, SentInTurn, LedgerInv, NEW r \in Req,
           Arrive(r) \/ Proceed(r)
    PROVE  LedgerInv'
<1>1. CallsMade'
  <2> SUFFICES ASSUME NEW q \in Req, pc'[q] # "idle" PROVE call'[q] \in CallsOf[q]
    BY DEF CallsMade
  <2>1. CASE q = r /\ Arrive(r)
    <3>1. PICK c \in CallsOf[r] : Send(r, c)
      BY <2>1, ArriveHasShape DEF ArriveShape
    <3> QED
      BY <2>1, <3>1, SendType
  <2>2. CASE ~(q = r /\ Arrive(r))
    <3>1. pc[q] # "idle" /\ call'[q] = call[q]
      BY <2>2, OneMoves
    <3> QED
      BY <3>1 DEF LedgerInv, CallsMade
  <2> QED
    BY <2>1, <2>2
<1>2. \A s \in Session : completedBy'[s] = NoReq <=> status'[s] # "COMPLETED"
  <2>1. CASE CompleteCommit(r)
    BY <2>1, RequestAssumption DEF CompleteCommit, LedgerInv, TypeInv, TypeOK
  <2>2. CASE CreateSession(r)
    BY <2>2 DEF CreateSession, LedgerInv, NoSession, TypeInv, TypeOK
  <2>3. CASE ~CompleteCommit(r) /\ ~CreateSession(r)
    <3>1. UNCHANGED <<status, completedBy>>
      BY <2>3 DEF Arrive, CompleteRead, RecognizeStart, ReviewRead, WishRead,
         UnwishRead, Proceed, RecognizeNoMatch, RecognizeMatch, Upsert,
         ReviewLook, ReviewInsert, ReviewMark, ReviewCommit, WishAdd,
         UnwishDelete, DeadlockAbort, database
    <3> QED
      BY <3>1 DEF LedgerInv
  <2> QED
    BY <2>1, <2>2, <2>3
<1>3. ASSUME NEW q \in Req, pc'[q] = "complete"
      PROVE  status'[call'[q].session] = "ACTIVE"
  <2>1. CASE q = r
    <3>1. CompleteRead(r)
      <4>1. call'[r].op = "complete"
        BY <1>3, <2>1, StepTypeInv DEF Next, TypeInv, StepMatchesCall, Matches
      <4>2. ~Proceed(r)
        <5>1. CompleteCommit(r) => pc'[r] = "done"
          BY ReplyType DEF CompleteCommit, Answer
        <5> QED
          BY <1>3, <2>1, <4>1, <5>1, OneMoves, ProceedsByCall
      <4> QED
        BY <4>1, <4>2, SendType DEF Arrive, CreateSession, RecognizeStart,
           ReviewRead, WishRead, UnwishRead
    <3>2. PICK c \in CallsOf[r] :
             /\ Send(r, c)
             /\ IF status[c.session] = NoSession THEN Reply(r, "404")
                ELSE IF IsActive(c.session) THEN Goto(r, "complete")
                ELSE Reply(r, "200")
      BY <3>1 DEF CompleteRead
    <3>3. c = call'[r] /\ UNCHANGED status
      BY <3>1, <3>2, SendType DEF CompleteRead, database
    <3>4. pc'[r] # "done"
      BY <1>3, <2>1
    <3>5. IsActive(c.session)
      BY <3>2, <3>4, ReplyType DEF Answer
    <3> QED
      BY <2>1, <3>3, <3>5 DEF IsActive
  <2>2. CASE q # r
    <3>1. pc[q] = "complete" /\ call'[q] = call[q]
      BY <1>3, <2>2, OneMoves
    <3>2. status[call[q].session] = "ACTIVE" /\ call[q].op = "complete"
      BY <3>1 DEF LedgerInv, TypeInv, StepMatchesCall, Matches
    <3>3. call[q].session \in Session
      BY <3>2, CallFields DEF TypeInv, TypeOK
    <3>4. CASE CompleteCommit(r)
      <4>1. pc[r] = "complete" /\ call[r].op = "complete"
        BY <3>4 DEF CompleteCommit, TypeInv, StepMatchesCall, Matches
      <4>2. call[q] \in CallsOf[q] /\ call[r] \in CallsOf[r]
        BY <3>1, <4>1 DEF LedgerInv, CallsMade
      <4>3. q \notin Before[r] /\ r \notin Before[q]
        BY <3>1, <4>1 DEF SentInTurn
      <4>4. call[q].session # call[r].session
        BY <2>2, <3>2, <4>1, <4>2, <4>3 DEF OneAfterAnother
      <4> QED
        BY <3>1, <3>2, <3>3, <3>4, <4>4 DEF CompleteCommit, TypeInv, TypeOK
    <3>5. CASE CreateSession(r)
      BY <3>1, <3>2, <3>3, <3>5 DEF CreateSession, NoSession, TypeInv, TypeOK
    <3>6. CASE ~CompleteCommit(r) /\ ~CreateSession(r)
      <4>1. UNCHANGED status
        BY <3>6 DEF Arrive, CompleteRead, RecognizeStart, ReviewRead, WishRead,
           UnwishRead, Proceed, RecognizeNoMatch, RecognizeMatch, Upsert,
           ReviewLook, ReviewInsert, ReviewMark, ReviewCommit, WishAdd,
           UnwishDelete, DeadlockAbort, database
      <4> QED
        BY <3>1, <3>2, <4>1
    <3> QED
      BY <3>4, <3>5, <3>6
  <2> QED
    BY <2>1, <2>2
<1>4. ASSUME NEW q \in Req, pc'[q] \in {"wish", "insert", "mark"},
             NEW p \in call'[q].purchased \cup call'[q].interested
      PROVE  loaded'[q][p] # NoRow
  <2>1. call'[q].op = "review"
    BY <1>4, StepTypeInv DEF Next, TypeInv, StepMatchesCall, Matches
  <2>2. CASE q # r
    <3>1. pc'[q] = pc[q] /\ call'[q] = call[q] /\ loaded'[q] = loaded[q]
      BY <2>2, OneMoves
    <3> QED
      BY <1>4, <3>1 DEF LedgerInv
  <2>3. CASE q = r /\ Arrive(r)
    <3>1. ReviewRead(r)
      BY <2>1, <2>3, SendType DEF Arrive, CreateSession, CompleteRead,
         RecognizeStart, WishRead, UnwishRead
    <3>2. PICK c \in CallsOf[r] :
             /\ Send(r, c)
             /\ \/ Reply(r, "404") \/ Reply(r, "422")
                \/ /\ \A y \in c.purchased \cup c.interested :
                         rows[c.session][y] # NoRow
                   /\ loaded' = [loaded EXCEPT ![r] = rows[c.session]]
      BY <3>1 DEF ReviewRead
    <3>3. pc'[r] # "done"
      BY <1>4, <2>3
    <3>4. /\ \A y \in c.purchased \cup c.interested : rows[c.session][y] # NoRow
          /\ loaded' = [loaded EXCEPT ![r] = rows[c.session]]
      BY <3>2, <3>3, ReplyType DEF Answer
    <3>5. c = call'[r] /\ loaded'[r] = rows[c.session]
      BY <3>2, <3>4, SendType DEF TypeInv, TypeOK
    <3> QED
      BY <1>4, <2>3, <3>4, <3>5
  <2>4. CASE q = r /\ Proceed(r)
    <3>1. call'[r] = call[r] /\ call[r].op = "review"
      BY <2>1, <2>4, OneMoves
    <3>2. ReviewLook(r) \/ ReviewInsert(r) \/ ReviewMark(r)
      <4>1. ReviewCommit(r) \/ DeadlockAbort(r) => pc'[r] = "done"
        BY ReplyType DEF ReviewCommit, DeadlockAbort, Answer
      <4> QED
        BY <1>4, <2>4, <3>1, <4>1, ProceedsByCall
    <3>3. pc[r] \in {"wish", "insert", "mark"} /\ UNCHANGED loaded
      BY <3>2 DEF ReviewLook, ReviewInsert, ReviewMark, Marking
    <3> QED
      BY <1>4, <2>4, <3>1, <3>3 DEF LedgerInv
  <2> QED
    BY <2>2, <2>3, <2>4
<1> QED
  BY <1>1, <1>2, <1>3, <1>4 DEF LedgerInv

-----------------------------------------------------------------------------
(* Every step is a step of the ledger, or none. *)

\* What a handler that has come to an end leaves for the ledger to show.
LEMMA AnswerTakes ==
    ASSUME TypeInv, NEW r \in Req, answer[r] = "",
           NEW code \in Ledger!Code, Reply(r, code),
           \/ UNCHANGED call
           \/ \E c \in CallsOf[r] : Send(r, c),
           \/ Ledger!Refused(call'[r], code) \/ Ledger!WithoutEffect(call'[r], code)
           \/ Ledger!Opened(call'[r], code) \/ Ledger!Closed(r, call'[r], code)
           \/ Ledger!Seen(call'[r], code) \/ Ledger!Marked(call'[r], code)
           \/ Ledger!Unrelated(call'[r], code)
    PROVE  Ledger!Next
<1>1. answer' = [answer EXCEPT ![r] = code]
  BY DEF Reply
<1>2. Ledger!Made(r) \/ UNCHANGED call
  BY DEF Send, Ledger!Made, TypeInv, StepMatchesCall, Matches
<1>3. Ledger!Take(r)
  BY <1>1, <1>2 DEF Ledger!Take
<1> QED
  BY <1>3 DEF Ledger!Next

\* A call that is made and goes on is asked.
LEMMA GoingAsks ==
    ASSUME TypeInv, NEW r \in Req, NEW c \in CallsOf[r], Send(r, c),
           NEW step, Goto(r, step), UNCHANGED <<status, completedBy, rows>>
    PROVE  Ledger!Next
<1>1. Ledger!Made(r)
  BY DEF Send, Ledger!Made, TypeInv, StepMatchesCall, Matches
<1>2. Ledger!Ask(r)
  BY <1>1 DEF Ledger!Ask, Ledger!ledger, Goto
<1> QED
  BY <1>2 DEF Ledger!Next

\* The first step of a handler asks, or takes effect at once.
LEMMA ArrivesInLedger ==
    ASSUME TypeInv, LedgerInv, NEW r \in Req, Arrive(r)
    PROVE  Ledger!Next
<1> USE DEF Ledger!Code, database
<1>1. answer[r] = ""
  BY OneMoves
<1>2. \A c \in CallsOf[r] : Send(r, c) => c \in Call /\ call'[r] = c
  BY SendType
<1>3. CASE CreateSession(r)
  <2>1. PICK c \in CallsOf[r] :
           /\ c.op = "create" /\ Send(r, c)
           /\ \/ /\ c.store \in ActiveStores
                 /\ \E s \in Session :
                       /\ status[s] = NoSession
                       /\ status' = [status EXCEPT ![s] = "ACTIVE"]
                 /\ Reply(r, "201")
              \/ /\ c.store \notin ActiveStores
                 /\ Reply(r, "404") /\ UNCHANGED status
    BY <1>3 DEF CreateSession
  <2>2. UNCHANGED <<completedBy, rows>>
    BY <1>3 DEF CreateSession
  <2>3. CASE c.store \in ActiveStores
    <3>1. Ledger!Opened(call'[r], "201") /\ Reply(r, "201")
      BY <1>2, <2>1, <2>2, <2>3 DEF Ledger!Opened, Ledger!Exists, NoSession
    <3> QED
      BY <1>1, <2>1, <3>1, AnswerTakes
  <2>4. CASE c.store \notin ActiveStores
    <3>1. Ledger!Refused(call'[r], "404") /\ Reply(r, "404")
      BY <1>2, <2>1, <2>2, <2>4 DEF Ledger!Refused, Ledger!ledger
    <3> QED
      BY <1>1, <2>1, <3>1, AnswerTakes
  <2> QED
    BY <2>3, <2>4
<1>4. CASE CompleteRead(r)
  <2>1. PICK c \in CallsOf[r] :
           /\ c.op = "complete" /\ Send(r, c)
           /\ IF status[c.session] = NoSession THEN Reply(r, "404")
              ELSE IF IsActive(c.session) THEN Goto(r, "complete")
              ELSE Reply(r, "200")
    BY <1>4 DEF CompleteRead
  <2>2. UNCHANGED <<status, completedBy, rows>>
    BY <1>4 DEF CompleteRead
  <2>3. c.session \in Session /\ status[c.session] \in Status /\ call'[r] = c
    BY <1>2, <2>1, CallFields DEF TypeInv, TypeOK
  <2>4. CASE status[c.session] = NoSession
    <3>1. Ledger!Refused(call'[r], "404") /\ Reply(r, "404")
      BY <2>1, <2>2, <2>3, <2>4
         DEF Ledger!Refused, Ledger!ledger, Ledger!Exists, NoSession
    <3> QED
      BY <1>1, <2>1, <3>1, AnswerTakes
  <2>5. CASE status[c.session] = "ACTIVE"
    <3>1. Goto(r, "complete")
      BY <2>1, <2>5 DEF IsActive, NoSession
    <3> QED
      BY <2>1, <2>2, <3>1, GoingAsks
  <2>6. CASE status[c.session] = "COMPLETED"
    <3>1. Reply(r, "200") /\ Ledger!Exists(c.session)
      BY <2>1, <2>6 DEF IsActive, NoSession, Ledger!Exists
    <3>2. completedBy[c.session] # NoReq
      BY <2>3, <2>6 DEF LedgerInv
    <3>3. status' = [status EXCEPT ![c.session] = "COMPLETED"]
      BY <2>2, <2>3, <2>6 DEF TypeInv, TypeOK
    <3>4. completedBy' = [completedBy EXCEPT ![c.session] =
                            IF @ = NoReq THEN r ELSE @]
      BY <2>2, <2>3, <3>2 DEF TypeInv, TypeOK
    <3>5. Ledger!Closed(r, call'[r], "200")
      BY <2>1, <2>2, <2>3, <3>1, <3>3, <3>4 DEF Ledger!Closed
    <3> QED
      BY <1>1, <2>1, <3>1, <3>5, AnswerTakes
  <2> QED
    BY <2>3, <2>4, <2>5, <2>6 DEF Status
<1>5. CASE RecognizeStart(r)
  <2>1. PICK c \in CallsOf[r] :
           /\ c.op = "recognize" /\ Send(r, c)
           /\ IF status[c.session] = NoSession THEN Reply(r, "404")
              ELSE IF IsActive(c.session) THEN Goto(r, "await")
              ELSE Reply(r, "409")
    BY <1>5 DEF RecognizeStart
  <2>2. UNCHANGED <<status, completedBy, rows>>
    BY <1>5 DEF RecognizeStart
  <2>3. c.session \in Session /\ status[c.session] \in Status /\ call'[r] = c
    BY <1>2, <2>1, CallFields DEF TypeInv, TypeOK
  <2>4. CASE status[c.session] = NoSession
    <3>1. Ledger!Refused(call'[r], "404") /\ Reply(r, "404")
      BY <2>1, <2>2, <2>3, <2>4
         DEF Ledger!Refused, Ledger!ledger, Ledger!Exists, NoSession
    <3> QED
      BY <1>1, <2>1, <3>1, AnswerTakes
  <2>5. CASE status[c.session] = "ACTIVE"
    <3>1. Goto(r, "await")
      BY <2>1, <2>5 DEF IsActive, NoSession
    <3> QED
      BY <2>1, <2>2, <3>1, GoingAsks
  <2>6. CASE status[c.session] = "COMPLETED"
    <3>1. Ledger!Refused(call'[r], "409") /\ Reply(r, "409")
      BY <2>1, <2>2, <2>3, <2>6
         DEF Ledger!Refused, Ledger!ledger, IsActive, NoSession
    <3> QED
      BY <1>1, <2>1, <3>1, AnswerTakes
  <2> QED
    BY <2>3, <2>4, <2>5, <2>6 DEF Status
<1>6. CASE ReviewRead(r)
  <2>1. PICK c \in CallsOf[r] :
           /\ c.op = "review" /\ Send(r, c)
           /\ \/ status[c.session] = NoSession /\ Reply(r, "404")
              \/ /\ status[c.session] # NoSession
                 /\ \E p \in c.purchased \cup c.interested :
                       rows[c.session][p] = NoRow
                 /\ Reply(r, "422")
              \/ Goto(r, "wish")
    BY <1>6 DEF ReviewRead
  <2>2. UNCHANGED <<status, completedBy, rows>> /\ call'[r] = c
    BY <1>2, <1>6, <2>1 DEF ReviewRead
  <2>3. CASE status[c.session] = NoSession /\ Reply(r, "404")
    <3>1. Ledger!Refused(call'[r], "404")
      BY <2>1, <2>2, <2>3
         DEF Ledger!Refused, Ledger!ledger, Ledger!Exists, NoSession
    <3> QED
      BY <1>1, <2>1, <2>3, <3>1, AnswerTakes
  <2>4. CASE /\ status[c.session] # NoSession
             /\ \E p \in c.purchased \cup c.interested : rows[c.session][p] = NoRow
             /\ Reply(r, "422")
    <3>1. Ledger!Refused(call'[r], "422")
      BY <2>1, <2>2, <2>4
         DEF Ledger!Refused, Ledger!ledger, Ledger!Exists, NoSession
    <3> QED
      BY <1>1, <2>1, <2>4, <3>1, AnswerTakes
  <2>5. CASE Goto(r, "wish")
    BY <2>1, <2>2, <2>5, GoingAsks
  <2> QED
    BY <2>1, <2>3, <2>4, <2>5
<1>7. CASE WishRead(r) \/ UnwishRead(r)
  <2>1. PICK c \in CallsOf[r] :
           /\ c.op \in {"wish", "unwish"} /\ Send(r, c)
           /\ \/ \E code \in {"200", "204", "404"} : Reply(r, code)
              \/ \E step : Goto(r, step)
    BY <1>7 DEF WishRead, UnwishRead
  <2>2. UNCHANGED <<status, completedBy, rows>> /\ call'[r] = c
    BY <1>2, <1>7, <2>1 DEF WishRead, UnwishRead
  <2>3. ASSUME NEW code \in {"200", "204", "404"}, Reply(r, code)
        PROVE  Ledger!Next
    <3>1. Ledger!Unrelated(call'[r], code)
      BY <2>1, <2>2 DEF Ledger!Unrelated, Ledger!ledger
    <3> QED
      BY <1>1, <2>1, <2>3, <3>1, AnswerTakes
  <2>4. ASSUME NEW step, Goto(r, step) PROVE Ledger!Next
    BY <2>1, <2>2, <2>4, GoingAsks
  <2> QED
    BY <2>1, <2>3, <2>4
<1> QED
  BY <1>3, <1>4, <1>5, <1>6, <1>7 DEF Arrive

\* Two rows with the same columns are the same.
LEMMA SameColumns ==
    ASSUME NEW a \in Row, NEW b \in Row, SameObservation(a, b), SameMarks(a, b)
    PROVE  a = b
  BY DEF Row, SameObservation, SameMarks

\* Merging into a row whose observation has not changed since it was loaded
\* is what the ledger does in one step, marks and all.
LEMMA MergeIsLater ==
    ASSUME NEW stored \in Row, NEW before \in Row, NEW o \in Observation,
           SameObservation(before, stored)
    PROVE  Patch(stored, before, LaterSighting(before, o))
             = LaterSighting(stored, o)
<1> DEFINE new == LaterSighting(before, o)
           row == Patch(stored, before, new)
           later == LaterSighting(stored, o)
<1>1. row \in Row /\ later \in Row
  BY PatchType, LaterSightingType
<1>2. /\ later.first = Least(stored.first, o.at)
      /\ later.last = Greatest(stored.last, o.at)
      /\ later.occupancy = Greatest(stored.occupancy, o.occupancy)
      /\ later.dwell = Greatest(stored.dwell, o.dwell)
      /\ later.trigger = o.trigger
      /\ later.count = stored.count + 1
      /\ SameMarks(later, stored)
  BY DEF Row, LaterSighting, SameMarks
<1>3. row.trigger = o.trigger
  <2>1. new.trigger = o.trigger
    BY DEF Row, LaterSighting
  <2> HIDE DEF new
  <2> QED
    BY <2>1 DEF Patch, Column, SameObservation
<1>4. /\ SameMarks(row, stored)
      /\ row.first = Least(stored.first, o.at)
      /\ row.last = Greatest(stored.last, o.at)
      /\ row.occupancy = Greatest(stored.occupancy, o.occupancy)
      /\ row.dwell = Greatest(stored.dwell, o.dwell)
      /\ row.count = stored.count + 1
  BY MergeWrites
<1> HIDE DEF row, later
<1>5. SameObservation(row, later) /\ SameMarks(row, later)
  BY <1>2, <1>3, <1>4 DEF SameObservation, SameMarks
<1>6. row = later
  BY <1>1, <1>5, SameColumns
<1> QED
  BY <1>6 DEF row, later

\* Writing a review back to a row whose marks have not changed is what the
\* ledger does in one step, sightings and all.
LEMMA ReviewIsMarking ==
    ASSUME NEW stored \in Row, NEW before \in Row, SameMarks(stored, before),
           NEW p, NEW bought, NEW liked
    PROVE  /\ Patch(stored, before, Reviewed(before, p \in bought, p \in liked))
                = Reviewed(stored, p \in bought, p \in liked)
           /\ Reviewed(before, p \in bought, p \in liked) = before
                => stored = Reviewed(stored, p \in bought, p \in liked)
<1> DEFINE Rev(row) == Reviewed(row, p \in bought, p \in liked)
<1>1. ASSUME NEW row \in Row
      PROVE  /\ Rev(row) \in Row
             /\ SameObservation(Rev(row), row)
             /\ Rev(row).purchase = IF p \in bought THEN "PURCHASED" ELSE "UNSET"
             /\ Rev(row).interested = (p \in liked /\ p \notin bought)
  BY DEF Reviewed, Row, SameObservation, PurchaseState
<1> DEFINE row == Patch(stored, before, Rev(before))
<1>2. SameObservation(row, stored) /\ SameMarks(row, Rev(before))
  BY ReviewWrites
<1>3. row \in Row
  BY <1>1, PatchType
<1> HIDE DEF row, Rev
<1>4. SameObservation(row, Rev(stored))
  BY <1>1, <1>2 DEF SameObservation
<1>5. SameMarks(Rev(before), Rev(stored))
  BY <1>1 DEF SameMarks
<1>6. SameMarks(row, Rev(stored))
  BY <1>2, <1>5 DEF SameMarks
<1>7. row = Rev(stored)
  BY <1>1, <1>3, <1>4, <1>6, SameColumns
<1>8. ASSUME Rev(before) = before
      PROVE  stored = Rev(stored)
  <2>1. SameObservation(stored, Rev(stored))
    BY <1>1 DEF SameObservation
  <2>2. SameMarks(stored, Rev(stored))
    BY <1>5, <1>8 DEF SameMarks
  <2> QED
    BY <1>1, <2>1, <2>2, SameColumns
<1> QED
  BY <1>7, <1>8 DEF row, Rev

\* The rows of the ledger are those of Shopping.
LEMMA LedgerRows ==
    /\ \A o : Ledger!FirstSighting(o) = FirstSighting(o)
    /\ \A row, o : Ledger!LaterSighting(row, o) = LaterSighting(row, o)
    /\ \A row, b, i : Ledger!Reviewed(row, b, i) = Reviewed(row, b, i)
  BY DEF Ledger!FirstSighting, FirstSighting, Ledger!LaterSighting,
     LaterSighting, Ledger!Least, Least, Ledger!Greatest, Greatest,
     Ledger!Reviewed, Reviewed

\* With one worker a merge is one sighting more.
LEMMA UpsertInLedger ==
    ASSUME TypeInv, FreshInv, SessionsStay, NEW r \in Req, Upsert(r)
    PROVE  Ledger!Next
<1> DEFINE s == call[r].session
           p == target[r]
           o == call[r].seen
<1>1. /\ call[r].op = "recognize" /\ s \in Session /\ p \in Product
      /\ o \in Observation /\ answer[r] = "" /\ UNCHANGED call
      /\ status[s] # NoSession
  BY UpsertArgs DEF Upsert, TypeInv, StepMatchesCall, Matches, SessionsStay,
     AtSession
<1>2. UNCHANGED <<status, completedBy>>
  BY DEF Upsert
<1>3. Ledger!Exists(s)
  BY <1>1 DEF Ledger!Exists, NoSession
<1>4. CASE Reply(r, "500") /\ UNCHANGED rows
  <2>1. Ledger!WithoutEffect(call'[r], "500")
    BY <1>1, <1>2, <1>3, <1>4 DEF Ledger!WithoutEffect, Ledger!ledger
  <2> QED
    BY <1>1, <1>4, <2>1, AnswerTakes DEF Ledger!Code
<1>5. CASE /\ rows[s][p] = NoRow
           /\ rows' = [rows EXCEPT ![s][p] = FirstSighting(o)]
           /\ Reply(r, "NEW")
  <2>1. rows' = [rows EXCEPT ![s][p] =
                   IF rows[s][p] = NoRow THEN Ledger!FirstSighting(o)
                   ELSE Ledger!LaterSighting(rows[s][p], o)]
    BY <1>5, LedgerRows
  <2>2. Ledger!Seen(call'[r], "NEW")
    BY <1>1, <1>2, <1>3, <1>5, <2>1 DEF Ledger!Seen
  <2> QED
    BY <1>1, <1>5, <2>2, AnswerTakes DEF Ledger!Code
<1>6. CASE /\ rows[s][p] \in Row /\ loaded[r][p] \in Row
           /\ rows' = [rows EXCEPT ![s][p] =
                 Patch(rows[s][p], loaded[r][p], LaterSighting(loaded[r][p], o))]
           /\ Reply(r, "AGAIN")
  <2>1. SameObservation(loaded[r][p], rows[s][p])
    BY <1>6, NoRowAssumption DEF FreshInv, Fresh, Upsert
  <2>2. Patch(rows[s][p], loaded[r][p], LaterSighting(loaded[r][p], o))
          = LaterSighting(rows[s][p], o)
    BY <1>1, <1>6, <2>1, MergeIsLater
  <2>3. rows[s][p] # NoRow
    BY <1>6, NoRowAssumption
  <2>4. rows' = [rows EXCEPT ![s][p] =
                   IF rows[s][p] = NoRow THEN Ledger!FirstSighting(o)
                   ELSE Ledger!LaterSighting(rows[s][p], o)]
    BY <1>6, <2>2, <2>3, LedgerRows
  <2>5. Ledger!Seen(call'[r], "AGAIN")
    BY <1>1, <1>2, <1>3, <2>3, <2>4 DEF Ledger!Seen
  <2> QED
    BY <1>1, <1>6, <2>5, AnswerTakes DEF Ledger!Code
<1> QED
  BY <1>4, <1>5, <1>6, UpsertCases

\* A review in progress is the only one of its session.
LEMMA InProgressOnly ==
    ASSUME OneAfterAnother, TypeInv, SentInTurn, LedgerInv, NEW r \in Req,
           pc[r] \in {"wish", "insert", "mark"}
    PROVE  call[r].op = "review" /\ OnlyReview(r)
<1>1. call[r].op = "review" /\ call[r] \in CallsOf[r]
  BY DEF TypeInv, StepMatchesCall, Matches, LedgerInv, CallsMade
<1>2. ASSUME NEW q \in Req \ {r}, call[q].op = "review",
             call[q].session = call[r].session
      PROVE  q \in Before[r]
  <2>1. pc[q] # "idle"
    BY <1>2 DEF TypeInv, StepMatchesCall, Matches
  <2>2. call[q] \in CallsOf[q] /\ r \notin Before[q]
    BY <2>1 DEF LedgerInv, CallsMade, SentInTurn
  <2> QED
    BY <1>1, <1>2, <2>2 DEF OneAfterAnother
<1> QED
  BY <1>1, <1>2 DEF OnlyReview

\* The commit of a review sets the marks of the whole session.
LEMMA CommitInLedger ==
    ASSUME OneAfterAnother, TypeInv, SentInTurn, SessionsStay, ReviewInv, LedgerInv,
           NEW r \in Req, ReviewCommit(r)
    PROVE  Ledger!Next
<1> DEFINE s == call[r].session
           c == call[r]
<1>1. /\ pc[r] = "wish" /\ answer[r] = "" /\ Reply(r, "200")
      /\ UNCHANGED <<call, status, completedBy>>
  BY DEF ReviewCommit, TypeInv, StepMatchesCall, Matches
<1>2. c.op = "review" /\ s \in Session /\ MarksKept(r)
  BY <1>1, ReviewArgs, InProgressOnly DEF ReviewInv
<1>3. Ledger!Exists(s)
  BY <1>1 DEF SessionsStay, AtSession, Ledger!Exists, NoSession
<1>4. \A p \in c.purchased \cup c.interested : loaded[r][p] # NoRow /\ p \in Product
  BY <1>1, <1>2, CallFields DEF LedgerInv, TypeInv, TypeOK
<1>5. \A p \in c.purchased \cup c.interested : rows[s][p] # NoRow
  BY <1>1, <1>4 DEF TypeInv, RowsStayStored, WritesBack
<1>6. ASSUME NEW p \in Product
      PROVE  (IF Changes(r, p) THEN Patch(rows[s][p], loaded[r][p], ReviewedRow(r, p))
              ELSE rows[s][p])
             = (IF rows[s][p] = NoRow THEN NoRow
                ELSE Reviewed(rows[s][p], p \in c.purchased, p \in c.interested))
  <2>1. loaded[r][p] \in MaybeRow /\ rows[s][p] \in MaybeRow
    BY <1>2 DEF TypeInv, TypeOK
  <2>2. CASE loaded[r][p] # NoRow
    <3>1. loaded[r][p] \in Row /\ rows[s][p] \in Row
      BY <1>1, <2>1, <2>2, ReviewArgs DEF MaybeRow
    <3>2. SameMarks(rows[s][p], loaded[r][p])
      BY <1>2, <2>2 DEF MarksKept
    <3>3. /\ Patch(rows[s][p], loaded[r][p], ReviewedRow(r, p))
               = Reviewed(rows[s][p], p \in c.purchased, p \in c.interested)
          /\ ReviewedRow(r, p) = loaded[r][p] =>
               rows[s][p]
                 = Reviewed(rows[s][p], p \in c.purchased, p \in c.interested)
      <4>1. PICK stored \in Row, before \in Row :
               stored = rows[s][p] /\ before = loaded[r][p]
        BY <3>1
      <4>2. PICK bought, liked : bought = c.purchased /\ liked = c.interested
        OBVIOUS
      <4>3. SameMarks(stored, before)
        BY <3>2, <4>1
      <4>4. /\ Patch(stored, before, Reviewed(before, p \in bought, p \in liked))
                 = Reviewed(stored, p \in bought, p \in liked)
            /\ Reviewed(before, p \in bought, p \in liked) = before
                 => stored = Reviewed(stored, p \in bought, p \in liked)
        BY <4>3, ReviewIsMarking
      <4> QED
        BY <4>1, <4>2, <4>4 DEF ReviewedRow
    <3>4. rows[s][p] # NoRow
      BY <3>1, NoRowAssumption
    <3> QED
      BY <2>2, <3>3, <3>4 DEF Changes
  <2>3. CASE loaded[r][p] = NoRow
    <3>1. ~Changes(r, p) /\ p \notin c.purchased /\ p \notin c.interested
      BY <1>4, <2>3 DEF Changes
    <3>2. CASE rows[s][p] # NoRow
      <4>1. /\ rows[s][p] \in Row /\ rows[s][p].purchase = "UNSET"
            /\ rows[s][p].interested = FALSE
        BY <1>2, <2>1, <2>3, <3>2 DEF MarksKept, MaybeRow
      <4>2. Reviewed(rows[s][p], p \in c.purchased, p \in c.interested)
              = rows[s][p]
        BY <3>1, <4>1 DEF Reviewed, Row
      <4> QED
        BY <3>1, <3>2, <4>2
    <3> QED
      BY <3>1, <3>2
  <2> QED
    BY <2>2, <2>3
<1>7. rows' = [rows EXCEPT ![s] =
                 [p \in Product |->
                    IF rows[s][p] = NoRow THEN NoRow
                    ELSE Ledger!Reviewed(rows[s][p], p \in c.purchased,
                                         p \in c.interested)]]
  <2>1. rows' = [rows EXCEPT ![s] =
                   [p \in Product |->
                      IF Changes(r, p)
                      THEN Patch(rows[s][p], loaded[r][p], ReviewedRow(r, p))
                      ELSE rows[s][p]]]
    BY DEF ReviewCommit
  <2>2. [p \in Product |->
           IF Changes(r, p) THEN Patch(rows[s][p], loaded[r][p], ReviewedRow(r, p))
           ELSE rows[s][p]]
        = [p \in Product |->
             IF rows[s][p] = NoRow THEN NoRow
             ELSE Ledger!Reviewed(rows[s][p], p \in c.purchased, p \in c.interested)]
    BY <1>6, LedgerRows, Zenon
  <2> QED
    BY <2>1, <2>2, Zenon
<1>8. Ledger!Marked(call'[r], "200")
  BY <1>1, <1>2, <1>3, <1>5, <1>7 DEF Ledger!Marked
<1> QED
  BY <1>1, <1>8, AnswerTakes DEF Ledger!Code

\* A later step of a handler is hidden, or the instant of its call.
LEMMA ProceedsInLedger ==
    ASSUME OneAfterAnother, TypeInv, FreshInv, SentInTurn, SessionsStay,
           ReviewInv, LedgerInv, NEW r \in Req, Proceed(r)
    PROVE  Ledger!Next \/ UNCHANGED <<Ledger!ledger, call, answer>>
<1> USE DEF Ledger!Code, Ledger!ledger, database
<1>1. answer[r] = "" /\ UNCHANGED call /\ call[r] \in Call
  BY OneMoves DEF TypeInv, TypeOK
<1>2. call[r].op \in {"recognize", "review", "complete"} => call[r].session \in Session
  BY <1>1, CallFields
<1>3. AtSession(r) => Ledger!Exists(call[r].session)
  BY DEF SessionsStay, Ledger!Exists, NoSession
<1>4. Matches(r)
  BY DEF TypeInv, StepMatchesCall
<1>5. CASE CompleteCommit(r)
  <2> DEFINE s == call[r].session
  <2>1. /\ call[r].op = "complete" /\ s \in Session /\ AtSession(r)
        /\ status[s] = "ACTIVE"
    BY <1>2, <1>4, <1>5 DEF CompleteCommit, Matches, AtSession, LedgerInv
  <2>2. completedBy[s] = NoReq
    BY <2>1 DEF LedgerInv
  <2>3. completedBy' = [completedBy EXCEPT ![s] = IF @ = NoReq THEN r ELSE @]
    BY <1>5, <2>1, <2>2 DEF CompleteCommit
  <2>4. Ledger!Closed(r, call'[r], "200") /\ Reply(r, "200")
    BY <1>1, <1>3, <1>5, <2>1, <2>3 DEF CompleteCommit, Ledger!Closed
  <2> QED
    BY <1>1, <2>4, AnswerTakes
<1>6. CASE RecognizeNoMatch(r)
  <2>1. PICK code \in {"UNKNOWN", "AMBIGUOUS", "503"} : Reply(r, code)
    BY <1>6 DEF RecognizeNoMatch
  <2>2. call[r].op = "recognize" /\ AtSession(r)
    BY <1>4, <1>6 DEF RecognizeNoMatch, Matches, AtSession
  <2>3. Ledger!WithoutEffect(call'[r], code)
    BY <1>1, <1>3, <1>6, <2>2 DEF RecognizeNoMatch, Ledger!WithoutEffect
  <2> QED
    BY <1>1, <2>1, <2>3, AnswerTakes
<1>7. CASE RecognizeMatch(r) \/ ReviewLook(r) \/ ReviewMark(r)
  BY <1>7 DEF RecognizeMatch, ReviewLook, ReviewMark, Goto
<1>8. CASE Upsert(r)
  BY <1>8, UpsertInLedger
<1>9. CASE ReviewInsert(r)
  <2>1. UNCHANGED <<status, completedBy, rows>> /\ AtSession(r)
        /\ call[r].op = "review"
    BY <1>4, <1>9 DEF ReviewInsert, AtSession, Matches
  <2>2. CASE Reply(r, "500")
    <3>1. Ledger!WithoutEffect(call'[r], "500")
      BY <1>1, <1>3, <2>1 DEF Ledger!WithoutEffect
    <3> QED
      BY <1>1, <2>2, <3>1, AnswerTakes
  <2>3. CASE UNCHANGED answer
    BY <1>1, <2>1, <2>3
  <2> QED
    BY <1>9, <2>2, <2>3 DEF ReviewInsert, FailOnDuplicate, Goto
<1>10. CASE ReviewCommit(r)
  BY <1>10, CommitInLedger
<1>11. CASE WishAdd(r) \/ UnwishDelete(r)
  <2>1. PICK code \in {"200", "204", "500"} : Reply(r, code)
    BY <1>11 DEF WishAdd, UnwishDelete
  <2>2. call[r].op \in {"wish", "unwish"} /\ UNCHANGED <<status, completedBy, rows>>
    BY <1>4, <1>11 DEF WishAdd, UnwishDelete, Matches
  <2>3. Ledger!Unrelated(call'[r], code)
    BY <1>1, <2>2 DEF Ledger!Unrelated
  <2> QED
    BY <1>1, <2>1, <2>3, AnswerTakes
<1>12. CASE DeadlockAbort(r)
  <2>1. Reply(r, "500") /\ UNCHANGED <<status, completedBy, rows>>
    BY <1>12 DEF DeadlockAbort
  <2>2. pc[r] \in {"insert", "add", "upsert", "mark", "wish"}
    BY <1>12 DEF DeadlockAbort, InDeadlock, Deadlocked, WaitsFor, Marking
  <2>3. CASE pc[r] = "add"
    <3>1. Ledger!Unrelated(call'[r], "500")
      BY <1>1, <1>4, <2>1, <2>3 DEF Ledger!Unrelated, Matches
    <3> QED
      BY <1>1, <2>1, <3>1, AnswerTakes
  <2>4. CASE pc[r] # "add"
    <3>1. Ledger!WithoutEffect(call'[r], "500")
      BY <1>1, <1>3, <1>4, <2>1, <2>2, <2>4
         DEF Ledger!WithoutEffect, Matches, AtSession
    <3> QED
      BY <1>1, <2>1, <3>1, AnswerTakes
  <2> QED
    BY <2>3, <2>4
<1> QED
  BY <1>5, <1>6, <1>7, <1>8, <1>9, <1>10, <1>11, <1>12 DEF Proceed

\* With one worker, and reviews and completes of a session that follow one
\* another, a client cannot tell the handlers' reads, waits and writes from a
\* ledger in which each call takes effect at one instant, or not at all
\* (RecognitionService, PurchaseService.review_session,
\* ShoppingSessionService).
THEOREM HandlersAreAtomic ==
    ASSUME OneWorkerOnly, OneAfterAnother
    PROVE  Spec => SessionsAreAtomic
<1> DEFINE Inv == /\ FreshInv /\ SentInTurn /\ SessionsStay /\ ReviewInv
                  /\ LedgerInv
<1>1. Init => Inv /\ Ledger!Init
  <2> SUFFICES ASSUME Init PROVE Inv /\ Ledger!Init
    OBVIOUS
  <2>1. \A r \in Req : pc[r] = "idle" /\ call[r].op = "none"
    BY DEF Init, RequestInit, NoCall
  <2>2. \A s \in Session : completedBy[s] = NoReq <=> status[s] # "COMPLETED"
    BY RequestAssumption DEF Init
  <2>3. SentInTurn /\ SessionsStay /\ ReviewInv /\ LedgerInv
    BY <2>1, <2>2 DEF SentInTurn, SessionsStay, AtSession, ReviewInv, LedgerInv,
       CallsMade
  <2>4. Ledger!Init
    BY DEF Init, RequestInit, NoCall, Ledger!Init
  <2> QED
    BY <2>3, <2>4, InitAccount
<1>2. TypeInv /\ Inv /\ [Next]_vars => Inv'
  <2> SUFFICES ASSUME TypeInv, Inv, [Next]_vars PROVE Inv'
    OBVIOUS
  <2>1. ASSUME NEW r \in Req, Arrive(r) \/ Proceed(r) PROVE Inv'
    <3>1. FreshInv'
      BY <2>1, QuietFresh, UpsertFresh
    <3> QED
      BY <2>1, <3>1, SentInTurnKept, SessionsStayKept, ReviewKept, LedgerKept
  <2>2. CASE UNCHANGED vars
    <3>1. UNCHANGED <<status, completedBy, rows, pc, call, answer, loaded, target>>
      BY <2>2 DEF vars, database, scratch
    <3>2. FreshInv' /\ SentInTurn' /\ SessionsStay'
      BY <3>1 DEF FreshInv, Fresh, SentInTurn, SessionsStay, AtSession
    <3>3. ReviewInv'
      BY <3>1 DEF ReviewInv, OnlyReview, MarksKept, MarksStand, ReviewedRow
    <3>4. LedgerInv'
      BY <3>1 DEF LedgerInv, CallsMade
    <3> QED
      BY <3>2, <3>3, <3>4
  <2> QED
    BY <2>1, <2>2 DEF Next, Quiet
<1>3. TypeInv /\ Inv /\ [Next]_vars
        => [Ledger!Next]_<<Ledger!ledger, call, answer>>
  <2> SUFFICES ASSUME TypeInv, Inv, [Next]_vars
               PROVE  Ledger!Next \/ UNCHANGED <<Ledger!ledger, call, answer>>
    OBVIOUS
  <2>1. ASSUME NEW r \in Req, Arrive(r) PROVE Ledger!Next
    BY <2>1, ArrivesInLedger
  <2>2. ASSUME NEW r \in Req, Proceed(r)
        PROVE  Ledger!Next \/ UNCHANGED <<Ledger!ledger, call, answer>>
    BY <2>2, ProceedsInLedger
  <2>3. CASE UNCHANGED vars
    BY <2>3 DEF vars, database, Ledger!ledger
  <2> QED
    BY <2>1, <2>2, <2>3 DEF Next, Quiet
<1> QED
  BY <1>1, <1>2, <1>3, TypeInvariance, PTL DEF Spec, SessionsAreAtomic, Ledger!Spec
=============================================================================
