------------------------------ MODULE Requests ------------------------------
(***************************************************************************)
(* HTTP requests. A request is a slot of Req that is used once and keeps   *)
(* its answer; its handler runs as a few steps, and between two of them    *)
(* other requests run theirs.                                              *)
(***************************************************************************)

CONSTANTS
    Req,       \* request slots: the bound on the number of requests
    CallsOf,   \* CallsOf[r]: the calls slot r may make
    Before     \* Before[r]: requests answered before r is sent

VARIABLES
    pc,        \* where the handler is
    call,      \* what was asked
    answer     \* the HTTP answer, or "" while there is none

NoCall == [op |-> "none"]

RequestInit ==
    /\ pc = [r \in Req |-> "idle"]
    /\ call = [r \in Req |-> NoCall]
    /\ answer = [r \in Req |-> ""]

Send(r, c) ==
    /\ pc[r] = "idle"
    /\ \A q \in Before[r] : pc[q] = "done"
    /\ c \in CallsOf[r]
    /\ call' = [call EXCEPT ![r] = c]

Goto(r, step) ==
    /\ pc' = [pc EXCEPT ![r] = step]
    /\ UNCHANGED answer

\* The handler returns or raises: the ORM session closes and whatever it has
\* not committed is rolled back.
Reply(r, code) ==
    /\ pc' = [pc EXCEPT ![r] = "done"]
    /\ answer' = [answer EXCEPT ![r] = code]

AllAnswered == \A r \in Req : pc[r] = "done"

\* What may still be there when r finds it: something that was there from the
\* start or is given by a request not after r, and given again by one not
\* before any request that took it before r.
MayFind(r, initially, givers, takers) ==
    LET inTime == {o \in givers : r \notin Before[o]}
    IN  /\ initially \/ inTime # {}
        /\ \A q \in takers \cap Before[r] : \E o \in inTime : o \notin Before[q]
=============================================================================
