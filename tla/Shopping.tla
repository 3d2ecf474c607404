------------------------------ MODULE Shopping ------------------------------
(***************************************************************************)
(* Shopping sessions, the products recognised in them, the review of a     *)
(* session and the wishlist, as concurrent HTTP requests over one          *)
(* PostgreSQL database (READ COMMITTED).                                   *)
(*                                                                         *)
(* A request is a slot of Req that is used once and keeps its answer. Its  *)
(* handler runs as a few steps: each SELECT whose result is used later,    *)
(* each flush that can block or fail, and the commit. Synchronous handlers *)
(* run on threads and interleave at every step. The recognise handler runs *)
(* on its worker's event loop and lets other recognitions of the worker in *)
(* only while it awaits the provider.                                      *)
(***************************************************************************)
EXTENDS ShoppingRows, Requests, FiniteSets

CONSTANTS
    WorkerOf,        \* WorkerOf[r]: the worker process that serves r
    Session,         \* the UUIDs sessions may get
    Product,         \* the catalogue
    Candidates,      \* products handed to the recognition provider
    Store,           \* the stores, and those of them that are active
    ActiveStores,
    MaxDwell,        \* the largest value of an INTEGER column
    InitStatus,      \* the sessions, rows and wishlist already stored
    InitRows,
    InitWishlist,
    NoReq,           \* no request
    NoProduct,       \* no product
    Stored           \* the writer of what was stored before

NoSession == "NONE"

Call ==
    [op : {"create"}, store : Store]
      \cup [op : {"complete"}, session : Session]
      \cup [op : {"recognize"}, session : Session, seen : Observation]
      \cup [op : {"review"}, session : Session, purchased : SUBSET Product,
            interested : SUBSET Product]
      \cup [op : {"wish", "unwish"}, product : Product \cup {NoProduct}]
      \cup {[op |-> "none"]}

Status == {NoSession, "ACTIVE", "COMPLETED"}

Writer == Req \cup {Stored, NoReq}

ASSUME RequestAssumption ==
    /\ IsFiniteSet(Req)
    /\ NoReq \notin Req
    /\ Stored \notin Req
    /\ Stored # NoReq
    /\ CallsOf \in [Req -> SUBSET Call]
    /\ Before \in [Req -> SUBSET Req]
    /\ DOMAIN WorkerOf = Req

ASSUME CatalogueAssumption ==
    /\ NoProduct \notin Product
    /\ Candidates \subseteq Product
    /\ ActiveStores \subseteq Store
    /\ MaxDwell \in Nat

ASSUME InitAssumption ==
    /\ InitStatus \in [Session -> Status]
    /\ InitRows \in [Session -> [Product -> MaybeRow]]
    /\ InitWishlist \in [Product -> {Stored, NoReq}]
    /\ \A s \in Session, p \in Product :
          InitRows[s][p] # NoRow =>
            LET row == InitRows[s][p] IN
            /\ InitStatus[s] # NoSession
            /\ row.first <= row.last
            /\ row.dwell <= MaxDwell
            /\ ~(row.purchase = "PURCHASED" /\ row.interested)
            /\ row.interested => InitWishlist[p] # NoReq

VARIABLES
    \* the database
    status,       \* shopping_sessions.status, or NoSession
    completedBy,  \* whose now() completed_at holds, or NoReq while it is null
    rows,         \* session_products, by session and product
    wishlist,     \* wishlist_items by product: the request that inserted it
    \* what each handler holds
    loaded,       \* the session_products rows its ORM session holds, as read
    target,       \* the product its next statement is about
    item,         \* the wishlist item a delete has read
    todo,         \* interested products a review has not looked at yet
    pending,      \* wishlist rows inserted and not committed
    marked        \* whether a review has sent its UPDATEs of session_products

database == <<status, completedBy, rows, wishlist>>
scratch  == <<loaded, target, item, todo, pending, marked>>
vars     == <<database, pc, call, scratch, answer>>

Step == {"idle", "complete", "await", "upsert", "wish", "insert", "mark",
         "add", "delete", "done"}

Answer == {"", "200", "201", "204", "404", "409", "422", "500", "503",
           "NEW", "AGAIN", "AMBIGUOUS", "UNKNOWN"}

TypeOK ==
    /\ status \in [Session -> Status]
    /\ completedBy \in [Session -> Writer]
    /\ rows \in [Session -> [Product -> MaybeRow]]
    /\ wishlist \in [Product -> Writer]
    /\ pc \in [Req -> Step]
    /\ call \in [Req -> Call]
    /\ loaded \in [Req -> [Product -> MaybeRow]]
    /\ target \in [Req -> Product \cup {NoProduct}]
    /\ item \in [Req -> Writer]
    /\ todo \in [Req -> SUBSET Product]
    /\ pending \in [Req -> SUBSET Product]
    /\ marked \in [Req -> BOOLEAN]
    /\ answer \in [Req -> Answer]

Init ==
    /\ status = InitStatus
    /\ completedBy = [s \in Session |-> IF InitStatus[s] = "COMPLETED"
                                        THEN Stored ELSE NoReq]
    /\ rows = InitRows
    /\ wishlist = InitWishlist
    /\ RequestInit
    /\ loaded = [r \in Req |-> [p \in Product |-> NoRow]]
    /\ target = [r \in Req |-> NoProduct]
    /\ item = [r \in Req |-> NoReq]
    /\ todo = [r \in Req |-> {}]
    /\ pending = [r \in Req |-> {}]
    /\ marked = [r \in Req |-> FALSE]

-----------------------------------------------------------------------------
(* Locks. Between its first flush and its commit a review holds the        *)
(* wishlist rows it inserted and the session_products rows it updated; the *)
(* other handlers flush and commit without waiting for anything between.   *)

\* A plausible bug: the marks of a product the review does not list stay.
ReviewedRowUnreset(r, p) ==
    IF p \in call[r].purchased \cup call[r].interested
    THEN Reviewed(loaded[r][p], p \in call[r].purchased, p \in call[r].interested)
    ELSE loaded[r][p]

ReviewedRow(r, p) ==
    Reviewed(loaded[r][p], p \in call[r].purchased, p \in call[r].interested)

Changes(r, p) == loaded[r][p] # NoRow /\ ReviewedRow(r, p) # loaded[r][p]

Locks(q, s, p) ==
    /\ pc[q] \in {"wish", "insert"}
    /\ marked[q]
    /\ call[q].session = s
    /\ Changes(q, p)

\* The next statement of r is the batch of UPDATEs of its review: right after
\* the first INSERT in the same flush, or in the flush of the commit.
Marking(r) ==
    \/ pc[r] = "mark"
    \/ pc[r] = "wish" /\ todo[r] = {} /\ ~marked[r]

WaitsFor(r, q) ==
    /\ q # r
    /\ \/ pc[r] = "insert" /\ target[r] \in pending[q]
       \/ pc[r] = "add" /\ call[r].product \in pending[q]
       \/ pc[r] = "upsert" /\ Locks(q, call[r].session, target[r])
       \/ Marking(r) /\ \E p \in Product : /\ Changes(r, p)
                                           /\ Locks(q, call[r].session, p)

Blocked(r) == \E q \in Req : WaitsFor(r, q)

-----------------------------------------------------------------------------
(* POST /sessions *)

CreateSession(r) ==
    /\ \E c \in CallsOf[r] :
          /\ c.op = "create"
          /\ Send(r, c)
          /\ IF c.store \in ActiveStores
             THEN /\ \E s \in Session :
                        /\ status[s] = NoSession
                        /\ status' = [status EXCEPT ![s] = "ACTIVE"]
                  /\ Reply(r, "201")
             ELSE /\ Reply(r, "404")
                  /\ UNCHANGED status
    /\ UNCHANGED <<completedBy, rows, wishlist, scratch>>

(* The status is read once and looked at before anything else happens. *)

\* A plausible bug: the status of the session is not looked at.
AnyStatus(s) == status[s] # NoSession

IsActive(s) == status[s] = "ACTIVE"

(* POST /sessions/{sessionId}/complete: read, then update and commit. *)

CompleteRead(r) ==
    /\ \E c \in CallsOf[r] :
          /\ c.op = "complete"
          /\ Send(r, c)
          /\ IF status[c.session] = NoSession THEN Reply(r, "404")
             ELSE IF IsActive(c.session) THEN Goto(r, "complete")
             ELSE Reply(r, "200")
    /\ UNCHANGED <<database, scratch>>

CompleteCommit(r) ==
    /\ pc[r] = "complete"
    /\ status' = [status EXCEPT ![call[r].session] = "COMPLETED"]
    /\ completedBy' = [completedBy EXCEPT ![call[r].session] = r]
    /\ Reply(r, "200")
    /\ UNCHANGED <<rows, wishlist, call, scratch>>

-----------------------------------------------------------------------------
(* POST /sessions/{sessionId}/recognize *)

\* A plausible bug: recognise as a plain def, run on the thread pool.
LoopAlwaysFree(r) == TRUE

LoopFree(r) ==
    \A q \in Req \ {r} : WorkerOf[q] = WorkerOf[r] => pc[q] # "upsert"

\* Up to the await: the session must be ACTIVE now.
RecognizeStart(r) ==
    /\ LoopFree(r)
    /\ \E c \in CallsOf[r] :
          /\ c.op = "recognize"
          /\ Send(r, c)
          /\ IF status[c.session] = NoSession THEN Reply(r, "404")
             ELSE IF IsActive(c.session) THEN Goto(r, "await")
             ELSE Reply(r, "409")
    /\ UNCHANGED <<database, scratch>>

\* The provider fails, or does not settle on a candidate.
RecognizeNoMatch(r) ==
    /\ pc[r] = "await"
    /\ LoopFree(r)
    /\ \/ \E code \in {"503", "UNKNOWN"} : Reply(r, code)
       \/ \E ids \in SUBSET Product :
             Reply(r, IF Cardinality(ids \cap Candidates) < 2
                      THEN "UNKNOWN" ELSE "AMBIGUOUS")
       \/ \E p \in Product \ Candidates : Reply(r, "UNKNOWN")
    /\ UNCHANGED <<database, call, scratch>>

\* The provider settles on a candidate: the SELECT of upsert_observation.
RecognizeMatch(r) ==
    /\ pc[r] = "await"
    /\ LoopFree(r)
    /\ \E p \in Candidates :
          /\ target' = [target EXCEPT ![r] = p]
          /\ loaded' = [loaded EXCEPT ![r][p] = rows[call[r].session][p]]
    /\ Goto(r, "upsert")
    /\ UNCHANGED <<database, call, item, todo, pending, marked>>

\* A plausible bug: the table lacks its UNIQUE constraint.
NoUniqueSessionProduct(stored, before) == FALSE

\* UNIQUE (session_id, product_id) refuses an INSERT.
DuplicateRow(stored, before) == before = NoRow /\ stored # NoRow

\* The flush, the price quote (reads only) and the commit. A session product
\* inserted meanwhile, or a value no INTEGER column holds, is an uncaught
\* database error.
Upsert(r) ==
    LET s == call[r].session
        p == target[r]
        o == call[r].seen
        before == loaded[r][p]
    IN  /\ pc[r] = "upsert"
        /\ ~Blocked(r)
        /\ \/ /\ \/ o.dwell > MaxDwell
                 \/ DuplicateRow(rows[s][p], before)
              /\ Reply(r, "500")
              /\ UNCHANGED rows
           \/ /\ o.dwell <= MaxDwell
              /\ before = NoRow /\ ~DuplicateRow(rows[s][p], before)
              /\ rows' = [rows EXCEPT ![s][p] = FirstSighting(o)]
              /\ Reply(r, "NEW")
           \/ /\ o.dwell <= MaxDwell
              /\ before # NoRow
              /\ rows' = [rows EXCEPT
                            ![s][p] = Patch(@, before, LaterSighting(before, o))]
              /\ Reply(r, "AGAIN")
        /\ UNCHANGED <<status, completedBy, wishlist, call, scratch>>

-----------------------------------------------------------------------------
(* PUT /sessions/{sessionId}/review *)

\* A plausible bug: the difference is taken the wrong way round.
WantedSwapped(c) == c.purchased \ c.interested

\* The products a review puts on the wishlist.
Wanted(c) == c.interested \ c.purchased

\* The session and its rows are read and the marks set on the loaded rows.
ReviewRead(r) ==
    /\ \E c \in CallsOf[r] :
          /\ c.op = "review"
          /\ Send(r, c)
          /\ \/ /\ status[c.session] = NoSession
                /\ Reply(r, "404")
                /\ UNCHANGED scratch
             \/ /\ status[c.session] # NoSession
                /\ \E p \in c.purchased \cup c.interested :
                      rows[c.session][p] = NoRow
                /\ Reply(r, "422")
                /\ UNCHANGED scratch
             \/ /\ status[c.session] # NoSession
                /\ \A p \in c.purchased \cup c.interested :
                      rows[c.session][p] # NoRow
                /\ loaded' = [loaded EXCEPT ![r] = rows[c.session]]
                /\ todo' = [todo EXCEPT ![r] = Wanted(c)]
                /\ Goto(r, "wish")
                /\ UNCHANGED <<target, item, pending, marked>>
    /\ UNCHANGED database

\* Is this interested product on the wishlist already? The products are a
\* Python set: any order.
ReviewLook(r) ==
    /\ pc[r] = "wish"
    /\ \E p \in todo[r] :
          /\ todo' = [todo EXCEPT ![r] = @ \ {p}]
          /\ \/ /\ wishlist[p] # NoReq
                /\ Goto(r, "wish")
                /\ UNCHANGED target
             \/ /\ wishlist[p] = NoReq
                /\ Goto(r, "insert")
                /\ target' = [target EXCEPT ![r] = p]
    /\ UNCHANGED <<database, call, loaded, item, pending, marked>>

\* A plausible bug: the duplicate is caught and the INSERT tried again.
RetryDuplicate(r) == UNCHANGED <<pending, pc, answer>>

\* add_wishlist_item flushes by itself, outside the try: a violated UNIQUE
\* constraint ends the review and rolls all of it back.
FailOnDuplicate(r) ==
    /\ pending' = [pending EXCEPT ![r] = {}]
    /\ Reply(r, "500")

\* A plausible bug: the repository commits each wishlist row it adds.
ReviewInsertCommits(r) ==
    /\ pc[r] = "insert"
    /\ ~Blocked(r)
    /\ \/ /\ wishlist[target[r]] # NoReq
          /\ FailOnDuplicate(r)
          /\ UNCHANGED wishlist
       \/ /\ wishlist[target[r]] = NoReq
          /\ wishlist' = [wishlist EXCEPT ![target[r]] = r]
          /\ Goto(r, IF marked[r] THEN "wish" ELSE "mark")
          /\ UNCHANGED pending
    /\ UNCHANGED <<status, completedBy, rows, call, loaded, target, item, todo,
                   marked>>

ReviewInsert(r) ==
    /\ pc[r] = "insert"
    /\ ~Blocked(r)
    /\ \/ /\ wishlist[target[r]] # NoReq
          /\ FailOnDuplicate(r)
       \/ /\ wishlist[target[r]] = NoReq
          /\ pending' = [pending EXCEPT ![r] = @ \cup {target[r]}]
          /\ Goto(r, IF marked[r] THEN "wish" ELSE "mark")
    /\ UNCHANGED <<database, call, loaded, target, item, todo, marked>>

\* The UPDATEs of the first flush take the locks of the rows they change.
ReviewMark(r) ==
    /\ Marking(r)
    /\ ~Blocked(r)
    /\ marked' = [marked EXCEPT ![r] = TRUE]
    /\ Goto(r, "wish")
    /\ UNCHANGED <<database, call, loaded, target, item, todo, pending>>

ReviewCommit(r) ==
    LET s == call[r].session
    IN  /\ pc[r] = "wish" /\ todo[r] = {} /\ marked[r]
        /\ rows' = [rows EXCEPT ![s] =
                      [p \in Product |->
                         IF Changes(r, p)
                         THEN Patch(@[p], loaded[r][p], ReviewedRow(r, p))
                         ELSE @[p]]]
        /\ wishlist' = [p \in Product |->
                          IF p \in pending[r] THEN r ELSE wishlist[p]]
        /\ pending' = [pending EXCEPT ![r] = {}]
        /\ Reply(r, "200")
        /\ UNCHANGED <<status, completedBy, call, loaded, target, item, todo,
                       marked>>

-----------------------------------------------------------------------------
(* POST and DELETE /me/wishlist/{productId} *)

WishRead(r) ==
    /\ \E c \in CallsOf[r] :
          /\ c.op = "wish"
          /\ Send(r, c)
          /\ IF c.product = NoProduct THEN Reply(r, "404")
             ELSE IF wishlist[c.product] # NoReq THEN Reply(r, "200")
             ELSE Goto(r, "add")
    /\ UNCHANGED <<database, scratch>>

\* The flush of add_wishlist_item and the commit.
WishAdd(r) ==
    LET p == call[r].product
    IN  /\ pc[r] = "add"
        /\ ~Blocked(r)
        /\ \/ /\ wishlist[p] # NoReq
              /\ Reply(r, "500")
              /\ UNCHANGED wishlist
           \/ /\ wishlist[p] = NoReq
              /\ wishlist' = [wishlist EXCEPT ![p] = r]
              /\ Reply(r, "200")
        /\ UNCHANGED <<status, completedBy, rows, call, scratch>>

UnwishRead(r) ==
    /\ \E c \in CallsOf[r] :
          /\ c.op = "unwish"
          /\ Send(r, c)
          /\ \/ /\ c.product = NoProduct
                /\ Reply(r, "204")
                /\ UNCHANGED item
             \/ /\ c.product # NoProduct
                /\ item' = [item EXCEPT ![r] = wishlist[c.product]]
                /\ IF wishlist[c.product] = NoReq THEN Reply(r, "204")
                   ELSE Goto(r, "delete")
    /\ UNCHANGED <<database, loaded, target, todo, pending, marked>>

\* DELETE by the id that was read: a row that is gone, or was inserted anew,
\* is left alone.
UnwishDelete(r) ==
    LET p == call[r].product
    IN  /\ pc[r] = "delete"
        /\ wishlist' = [wishlist EXCEPT ![p] = IF @ = item[r] THEN NoReq ELSE @]
        /\ Reply(r, "204")
        /\ UNCHANGED <<status, completedBy, rows, call, scratch>>

-----------------------------------------------------------------------------
(* PostgreSQL's deadlock detector aborts one transaction of a cycle of     *)
(* waits, whose request then fails with an uncaught database error.        *)

Deadlocked(cycle) ==
    cycle # {} /\ \A q \in cycle : \E w \in cycle : WaitsFor(q, w)

InDeadlock(r) ==
    \E cycle \in SUBSET {q \in Req : Blocked(q)} :
        /\ r \in cycle
        /\ Deadlocked(cycle)
        /\ \A part \in SUBSET cycle : Deadlocked(part) => part = cycle

DeadlockAbort(r) ==
    /\ InDeadlock(r)
    /\ pending' = [pending EXCEPT ![r] = {}]
    /\ Reply(r, "500")
    /\ UNCHANGED <<database, call, loaded, target, item, todo, marked>>

-----------------------------------------------------------------------------

Arrive(r) ==
    \/ CreateSession(r) \/ CompleteRead(r) \/ RecognizeStart(r)
    \/ ReviewRead(r) \/ WishRead(r) \/ UnwishRead(r)

Proceed(r) ==
    \/ CompleteCommit(r)
    \/ RecognizeNoMatch(r) \/ RecognizeMatch(r) \/ Upsert(r)
    \/ ReviewLook(r) \/ ReviewInsert(r) \/ ReviewMark(r) \/ ReviewCommit(r)
    \/ WishAdd(r) \/ UnwishDelete(r)
    \/ DeadlockAbort(r)

\* Every request is answered, or cannot be sent: nothing is left to do.
Quiet ==
    /\ AllAnswered
    /\ UNCHANGED vars

Next ==
    \/ \E r \in Req : Arrive(r) \/ Proceed(r)
    \/ Quiet

Spec == Init /\ [][Next]_vars

(* A handler that has started runs on: threads and the event loop are      *)
(* scheduled, the provider answers or times out, PostgreSQL grants a free  *)
(* lock and looks for deadlocks. Whether a request is sent is up to the    *)
(* client.                                                                 *)
FairSpec == Spec /\ \A r \in Req : WF_vars(Proceed(r))

-----------------------------------------------------------------------------
(* Correctness. *)

\* The acknowledged observations of a product in a session.
Sightings(s, p) ==
    {r \in Req : /\ call[r].op = "recognize" /\ call[r].session = s
                 /\ target[r] = p
                 /\ answer[r] \in {"NEW", "AGAIN"}}

InitCount(s, p) == IF InitRows[s][p] = NoRow THEN 0 ELSE InitRows[s][p].count

\* Every acknowledged observation is in the row: its time lies in the row's
\* window, its ratio and dwell are within the maxima, and it is counted once.
\* The merge is a read-modify-write of a row read in another statement, so
\* this rests on the event loop of the one worker (upsert_observation).
NothingForgotten ==
    \A s \in Session, p \in Product :
        LET row == rows[s][p]
        IN  IF row = NoRow THEN Sightings(s, p) = {}
            ELSE /\ row.count = InitCount(s, p) + Cardinality(Sightings(s, p))
                 /\ \A r \in Sightings(s, p) :
                       LET o == call[r].seen
                       IN  /\ row.first <= o.at /\ o.at <= row.last
                           /\ o.occupancy <= row.occupancy
                           /\ o.dwell <= row.dwell

\* Whatever the number of workers, a row says nothing that no acknowledged
\* observation and no earlier row said: each column has the value of one of
\* them, the window is not empty, the count is no higher than their number,
\* and no column overflows. A request that failed leaves no trace
\* (upsert_observation, and the column-wise UPDATE of the ORM).
NothingInvented ==
    \A s \in Session, p \in Product :
        LET row  == rows[s][p]
            old  == {InitRows[s][p]} \ {NoRow}
            seen == {call[r].seen : r \in Sightings(s, p)}
        IN  row # NoRow =>
              /\ row.first \in {o.at : o \in seen} \cup {i.first : i \in old}
              /\ row.last \in {o.at : o \in seen} \cup {i.last : i \in old}
              /\ row.occupancy \in {x.occupancy : x \in seen \cup old}
              /\ row.dwell \in {x.dwell : x \in seen \cup old}
              /\ row.trigger \in {x.trigger : x \in seen \cup old}
              /\ row.first <= row.last
              /\ row.dwell <= MaxDwell
              /\ row.count <= InitCount(s, p) + Cardinality(Sightings(s, p))

\* isNew is told to one request at most for a product of a session, and to
\* none when the row was there before: the client adds a card each time.
OneNewPerProduct ==
    \A s \in Session, p \in Product :
        \A q, r \in Sightings(s, p) :
            answer[r] = "NEW" => /\ InitRows[s][p] = NoRow
                                 /\ answer[q] = "NEW" => q = r

\* The marks of an acknowledged review stand on every row it saw, whatever
\* recognitions were merged into the row before, during or after it, as long
\* as every other review of the session was answered before it was sent.
ReviewStands ==
    \A r \in Req :
        /\ call[r].op = "review" /\ answer[r] = "200"
        /\ \A q \in Req \ {r} :
              call[q].op = "review" /\ call[q].session = call[r].session
                  => q \in Before[r]
        => \A p \in Product :
              loaded[r][p] # NoRow =>
                LET row == rows[call[r].session][p]
                IN  /\ row.purchase = ReviewedRow(r, p).purchase
                    /\ row.interested = ReviewedRow(r, p).interested

\* Purchased wins over interested: no row carries both marks.
ExclusiveMarks ==
    \A s \in Session, p \in Product :
        rows[s][p] # NoRow =>
            ~(rows[s][p].purchase = "PURCHASED" /\ rows[s][p].interested)

\* A frame sent after the client was told the session is completed is
\* refused with 409, and never reaches a row.
CompletedSessionRefusesFrames ==
    \A r \in Req :
        call[r].op = "recognize" =>
        \A q \in Before[r] :
            call[q].op = "complete" /\ call[q].session = call[r].session
              /\ answer[q] = "200" => answer[r] = "409"

\* What a client can know of a session: the steps inside handlers and the
\* wishlist are hidden.
Ledger == INSTANCE SessionLedger WITH
              status <- status, completedBy <- completedBy, rows <- rows,
              call <- call, answer <- answer

\* Every call on a session takes effect at one instant between its being sent
\* and its being answered, and a failed one never: the client cannot tell
\* that handlers read, are overtaken and write later. It holds for one worker
\* and reviews and completes of a session that follow one another; frames
\* overlap with everything. So a merge forgets no sighting, a review's marks
\* are those of the whole session, and completed_at is not moved
\* (RecognitionService, ShoppingSessionService).
SessionsAreAtomic == Ledger!Spec

\* A product marked interested is on the wishlist unless somebody asked to
\* take it off: a review's look at the wishlist and its commit are far apart.
OnlyADeleteUnwishes ==
    \A s \in Session, p \in Product :
        rows[s][p] # NoRow /\ rows[s][p].interested /\ wishlist[p] = NoReq =>
            \E r \in Req : call[r].op = "unwish" /\ call[r].product = p

\* Every wishlist row was put there by a request that was answered 200: a
\* review that fails halfway leaves none of its inserts behind.
WishesAreAcknowledged ==
    \A p \in Product : wishlist[p] \in Req => answer[wishlist[p]] = "200"

\* Every request that was sent is answered: whichever locks reviews wait for,
\* and whatever holds the event loop.
EveryCallAnswered ==
    \A r \in Req : pc[r] # "idle" ~> pc[r] = "done"

-----------------------------------------------------------------------------
(* What the documents and comments of the repository say, and the code     *)
(* does not do.                                                            *)

\* "New recognition results are stored only in an active session."
FramesOnlyInActiveSessions ==
    [][\A s \in Session, p \in Product :
          status[s] = "COMPLETED" /\ rows'[s][p] # rows[s][p] =>
              \E r \in Req : call[r].op = "review" /\ answer'[r] # answer[r]]_vars

\* "A product already saved ... the same Product DTO with 200."
WishIsIdempotent ==
    \A r \in Req : call[r].op = "wish" => answer[r] # "500"
=============================================================================
