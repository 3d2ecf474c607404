---------------------------- MODULE SessionLedger ----------------------------
(***************************************************************************)
(* What the session API promises a client, with nothing of how it is done: *)
(* a ledger of sessions in which every call takes effect at one instant    *)
(* between its being made and its being answered, and a refused or failed  *)
(* call has no effect. Shopping, whose handlers run as several steps over  *)
(* a database, is shown to implement it.                                   *)
(*                                                                         *)
(* A frame may enter a completed session: the code refuses only the frames *)
(* that arrive after it was completed. The wishlist is not in the ledger.  *)
(***************************************************************************)
EXTENDS ShoppingRows

CONSTANTS Req, CallsOf, Session, Product, ActiveStores, InitStatus, InitRows,
          NoReq, Stored

VARIABLES status, completedBy, rows, call, answer

ledger == <<status, completedBy, rows>>

Init ==
    /\ status = InitStatus
    /\ completedBy = [s \in Session |-> IF InitStatus[s] = "COMPLETED"
                                        THEN Stored ELSE NoReq]
    /\ rows = InitRows
    /\ call = [r \in Req |-> [op |-> "none"]]
    /\ answer = [r \in Req |-> ""]

Code == {"200", "201", "204", "404", "409", "422", "500", "503",
         "NEW", "AGAIN", "AMBIGUOUS", "UNKNOWN"}

Exists(s) == status[s] # "NONE"

-----------------------------------------------------------------------------
(* What each answer means, for a call c of r. *)

\* Refused: the session is missing, closed to frames or without the products,
\* or the store is not active.
Refused(c, code) ==
    /\ UNCHANGED ledger
    /\ \/ code = "404" /\ c.op = "create" /\ c.store \notin ActiveStores
       \/ code = "404" /\ c.op \in {"complete", "recognize", "review"}
            /\ ~Exists(c.session)
       \/ code = "409" /\ c.op = "recognize" /\ status[c.session] = "COMPLETED"
       \/ code = "422" /\ c.op = "review" /\ Exists(c.session)
            /\ \E p \in c.purchased \cup c.interested :
                  rows[c.session][p] = NoRow

\* Nothing recognised, or failed: the caller may try again.
WithoutEffect(c, code) ==
    /\ UNCHANGED ledger
    /\ \/ code \in {"UNKNOWN", "AMBIGUOUS", "503"} /\ c.op = "recognize"
       \/ code = "500" /\ c.op \in {"recognize", "review"}
    /\ Exists(c.session)

Opened(c, code) ==
    /\ code = "201" /\ c.op = "create" /\ c.store \in ActiveStores
    /\ \E s \in Session :
          /\ ~Exists(s)
          /\ status' = [status EXCEPT ![s] = "ACTIVE"]
    /\ UNCHANGED <<completedBy, rows>>

\* Completed, by this call or before it: the first one is remembered.
Closed(r, c, code) ==
    /\ code = "200" /\ c.op = "complete" /\ Exists(c.session)
    /\ status' = [status EXCEPT ![c.session] = "COMPLETED"]
    /\ completedBy' = [completedBy EXCEPT
                         ![c.session] = IF @ = NoReq THEN r ELSE @]
    /\ UNCHANGED rows

\* One more sighting of a product, the first of it or a later one.
Seen(c, code) ==
    /\ code \in {"NEW", "AGAIN"} /\ c.op = "recognize" /\ Exists(c.session)
    /\ \E p \in Product :
          LET row == rows[c.session][p]
          IN  /\ code = "NEW" <=> row = NoRow
              /\ rows' = [rows EXCEPT ![c.session][p] =
                            IF row = NoRow THEN FirstSighting(c.seen)
                            ELSE LaterSighting(row, c.seen)]
    /\ UNCHANGED <<status, completedBy>>

\* The marks of the whole session, as this review says and no other.
Marked(c, code) ==
    /\ code = "200" /\ c.op = "review" /\ Exists(c.session)
    /\ \A p \in c.purchased \cup c.interested : rows[c.session][p] # NoRow
    /\ rows' = [rows EXCEPT ![c.session] =
                  [p \in Product |->
                     IF @[p] = NoRow THEN NoRow
                     ELSE Reviewed(@[p], p \in c.purchased, p \in c.interested)]]
    /\ UNCHANGED <<status, completedBy>>

Unrelated(c, code) ==
    /\ c.op \in {"wish", "unwish"}
    /\ code \in {"200", "204", "404", "500"}
    /\ UNCHANGED ledger

-----------------------------------------------------------------------------

Made(r) ==
    /\ call[r].op = "none"
    /\ \E c \in CallsOf[r] : call' = [call EXCEPT ![r] = c]

Ask(r) == Made(r) /\ UNCHANGED <<ledger, answer>>

\* The instant of a call: it may be the one at which it is made.
Take(r) ==
    /\ answer[r] = ""
    /\ Made(r) \/ UNCHANGED call
    /\ \E code \in Code :
          /\ answer' = [answer EXCEPT ![r] = code]
          /\ LET c == call'[r]
             IN  \/ Refused(c, code) \/ WithoutEffect(c, code)
                 \/ Opened(c, code) \/ Closed(r, c, code)
                 \/ Seen(c, code) \/ Marked(c, code) \/ Unrelated(c, code)

Next == \E r \in Req : Ask(r) \/ Take(r)

Spec == Init /\ [][Next]_<<ledger, call, answer>>
=============================================================================
