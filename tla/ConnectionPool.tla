---------------------------- MODULE ConnectionPool ----------------------------
(***************************************************************************)
(* What the requests share besides the rows: the pool of connections, the  *)
(* worker threads and the event loop. A handler takes a connection at its  *)
(* first query and gives it back when it commits, rolls back or closes its *)
(* session. A synchronous handler runs in a thread; an asynchronous one    *)
(* runs on the loop, waits for a connection there, and keeps it while its  *)
(* provider is asked. SQLAlchemy, AnyIO and FastAPI are external: here are *)
(* the rules this program relies on.                                       *)
(*                                                                         *)
(* A slot of Request is one client, who may ask again after an answer.     *)
(***************************************************************************)
EXTENDS Integers, FiniteSets

CONSTANTS
    Request,
    Sync,        \* the requests with a synchronous handler
    Writer,      \* those whose handler may commit
    Rival,       \* those whose INSERT may meet another one
    PoolSize,    \* connections, the overflow included
    Threads      \* worker threads

ASSUME PoolAssumption ==
    /\ IsFiniteSet(Request)
    /\ Sync \subseteq Request
    /\ Writer \subseteq Request
    /\ Rival \subseteq Sync \cap Writer
    /\ PoolSize \in Nat \ {0}
    /\ Threads \in Nat \ {0}

VARIABLES
    pc,        \* where a request is
    answer,    \* "" until the handler is over
    holding,   \* the requests that have a connection
    changed,   \* those that have committed
    retried    \* those that have rolled back once

vars == <<pc, answer, holding, changed, retried>>

Step == {"idle", "arrived", "checkout", "working", "await", "finished", "sent"}

TypeOK ==
    /\ pc \in [Request -> Step]
    /\ answer \in [Request -> {"", "ok", "error", "refused"}]
    /\ holding \subseteq Request
    /\ changed \subseteq Writer
    /\ retried \subseteq Rival

Init ==
    /\ pc = [r \in Request |-> "idle"]
    /\ answer = [r \in Request |-> ""]
    /\ holding = {}
    /\ changed = {}
    /\ retried = {}

At(r, step) == pc[r] = step
Goto(r, step) == pc' = [pc EXCEPT ![r] = step]

\* On the loop a handler waits for a connection as for anything that is not
\* awaited: nothing else runs there.
LoopFree == \A r \in Request \ Sync : pc[r] \notin {"checkout", "working"}

ThreadFree ==
    Cardinality({r \in Sync : pc[r] \in {"checkout", "working"}}) < Threads

ConnectionFree == Cardinality(holding) < PoolSize

-----------------------------------------------------------------------------

Arrive(r) ==
    /\ At(r, "idle")
    /\ Goto(r, "arrived")
    /\ UNCHANGED <<answer, holding, changed, retried>>

\* get_db_session makes a session, in a thread and without a connection; the
\* handler begins in a thread or on the loop.
Begin(r) ==
    /\ At(r, "arrived") /\ LoopFree /\ ThreadFree
    /\ Goto(r, "checkout")
    /\ UNCHANGED <<answer, holding, changed, retried>>

\* An asynchronous handler refuses a picture, or half a position, before it
\* asks the database anything.
RefuseEarly(r) ==
    /\ At(r, "arrived") /\ LoopFree /\ ThreadFree
    /\ r \notin Sync
    /\ answer' = [answer EXCEPT ![r] = "error"]
    /\ Goto(r, "finished")
    /\ UNCHANGED <<holding, changed, retried>>

CheckOut(r) ==
    /\ At(r, "checkout") /\ ConnectionFree
    /\ holding' = holding \cup {r}
    /\ Goto(r, "working")
    /\ UNCHANGED <<answer, changed, retried>>

\* A plausible bug: whoever gets no connection in time waits again.
WaitAgain(r) ==
    /\ At(r, "checkout") /\ ~ConnectionFree
    /\ UNCHANGED vars

\* No connection came back in time: the error of the pool is no AppError, and
\* the answer is a 500.
TimeOut(r) ==
    /\ At(r, "checkout") /\ ~ConnectionFree
    /\ answer' = [answer EXCEPT ![r] = "refused"]
    /\ Goto(r, "finished")
    /\ UNCHANGED <<holding, changed, retried>>

\* The handler returns what it read, or raises; the session stays open.
Over(r) ==
    /\ \E code \in {"ok", "error"} : answer' = [answer EXCEPT ![r] = code]
    /\ Goto(r, "finished")
    /\ UNCHANGED <<holding, changed>>

\* A plausible bug: with expire_on_commit the rows of the answer are read again.
CommittedAndExpired(r) ==
    /\ r \in Writer
    /\ changed' = changed \cup {r}
    /\ holding' = holding \ {r}
    /\ Goto(r, "checkout")
    /\ UNCHANGED answer

\* The commit gives the connection back, and the answer needs no other.
Committed(r) ==
    /\ r \in Writer
    /\ changed' = changed \cup {r}
    /\ holding' = holding \ {r}
    /\ answer' = [answer EXCEPT ![r] = "ok"]
    /\ Goto(r, "finished")

Work(r) ==
    /\ At(r, "working") /\ r \in Sync
    /\ Over(r) \/ Committed(r)
    /\ UNCHANGED retried

\* The INSERT of a wish met another one: the rollback gives the connection
\* back and expires what was read, so the handler asks for one again, unless
\* it was about to return. A review may do so once for each product; here once.
Rollback(r) ==
    /\ At(r, "working") /\ r \in Rival \ retried
    /\ holding' = holding \ {r}
    /\ retried' = retried \cup {r}
    /\ \/ Goto(r, "checkout") /\ UNCHANGED answer
       \/ Goto(r, "finished") /\ answer' = [answer EXCEPT ![r] = "ok"]
    /\ UNCHANGED changed

\* Refused after the first reads, or nothing to ask.
Stop(r) ==
    /\ At(r, "working") /\ r \notin Sync
    /\ Over(r)
    /\ UNCHANGED retried

Await(r) ==
    /\ At(r, "working") /\ r \notin Sync
    /\ Goto(r, "await")
    /\ UNCHANGED <<answer, holding, changed, retried>>

\* The provider has answered, failed or timed out.
Resume(r) ==
    /\ At(r, "await") /\ LoopFree
    /\ Over(r) \/ Committed(r)
    /\ UNCHANGED retried

\* What a synchronous handler returns is validated in a thread.
Respond(r) ==
    /\ At(r, "finished") /\ LoopFree
    /\ r \in Sync /\ answer[r] = "ok" => ThreadFree
    /\ Goto(r, "sent")
    /\ UNCHANGED <<answer, holding, changed, retried>>

Forget(r) ==
    /\ Goto(r, "idle")
    /\ answer' = [answer EXCEPT ![r] = ""]
    /\ changed' = changed \ {r}
    /\ retried' = retried \ {r}

\* A plausible bug: the session is closed only after an answer, not in a
\* finally.
CloseAfterSuccess(r) ==
    /\ At(r, "sent") /\ LoopFree
    /\ holding' = IF answer[r] = "ok" THEN holding \ {r} ELSE holding
    /\ Forget(r)

\* session.close(), in a thread that is always to be had, on behalf of the loop.
Close(r) ==
    /\ At(r, "sent") /\ LoopFree
    /\ holding' = holding \ {r}
    /\ Forget(r)

Proceed(r) ==
    \/ Begin(r) \/ RefuseEarly(r) \/ CheckOut(r) \/ TimeOut(r)
    \/ Work(r) \/ Rollback(r) \/ Stop(r) \/ Await(r) \/ Resume(r)
    \/ Respond(r) \/ Close(r)

Next == \E r \in Request : Arrive(r) \/ Proceed(r)

\* The loop runs its callbacks in the order they became ready, and threads are
\* given to those who wait in order: what can run again and again, does. The
\* pool answers or times out, and so does every provider.
FairSpec == Init /\ [][Next]_vars /\ \A r \in Request : SF_vars(Proceed(r))

-----------------------------------------------------------------------------
(* Correctness. *)

\* A request that is refused for want of a connection has changed nothing: the
\* client may repeat it. It is why a session does not expire on commit
\* (SessionLocal): a handler that has committed never needs a connection again.
RefusedChangedNothing ==
    \A r \in Request : answer[r] = "refused" => r \notin changed

\* A request is refused only while as many others as there are connections are
\* being served: none is lost to a request that is over, whether it ended with
\* an answer, an error or a refusal (get_db_session).
RefusedOnlyUnderLoad ==
    [][\A r \in Request :
          answer[r] # "refused" /\ answer'[r] = "refused" =>
            Cardinality({q \in Request \ {r} :
                            pc[q] \notin {"idle", "arrived"}}) >= PoolSize]_vars

\* Every request ends, though a handler on the loop that waits for a connection
\* keeps those who have one from giving it back, and so do threads that all
\* wait for one: however many requests keep coming.
EveryRequestEnds ==
    \A r \in Request : pc[r] = "arrived" ~> pc[r] = "idle"
=============================================================================
