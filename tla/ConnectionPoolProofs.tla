------------------------ MODULE ConnectionPoolProofs ------------------------
(***************************************************************************)
(* Proofs about ConnectionPool, for any requests, connections and threads. *)
(***************************************************************************)
EXTENDS ConnectionPool, FiniteSetTheorems, TLAPS

\* Who has committed is over and has succeeded.
ChangedIsOver ==
    \A r \in changed : pc[r] \in {"finished", "sent"} /\ answer[r] = "ok"

\* Who has a connection is being served.
HoldersAreServed ==
    \A r \in holding : pc[r] \in {"working", "await", "finished", "sent"}

PoolInv == TypeOK /\ ChangedIsOver /\ HoldersAreServed

\* At the beginning nobody has asked, got or changed anything.
LEMMA InitHasPoolInv == Init => PoolInv
BY PoolAssumption DEF Init, PoolInv, TypeOK, Step, ChangedIsOver, HoldersAreServed

\* A client that asks has changed nothing and holds nothing yet.
LEMMA ArriveKeepsPoolInv ==
    ASSUME NEW r \in Request, PoolInv, Arrive(r) PROVE PoolInv'
BY PoolAssumption DEF Arrive, At, Goto, PoolInv, TypeOK, Step, ChangedIsOver, HoldersAreServed

\* A request that begins is not over, so it has changed nothing.
LEMMA BeginKeepsPoolInv ==
    ASSUME NEW r \in Request, PoolInv, Begin(r) \/ RefuseEarly(r) PROVE PoolInv'
BY PoolAssumption DEF Begin, RefuseEarly, At, Goto, PoolInv, TypeOK, Step, ChangedIsOver,
       HoldersAreServed

\* A request gets a connection or is refused one.
LEMMA CheckOutKeepsPoolInv ==
    ASSUME NEW r \in Request, PoolInv, CheckOut(r) \/ TimeOut(r) PROVE PoolInv'
BY PoolAssumption DEF CheckOut, TimeOut, At, Goto, PoolInv, TypeOK, Step, ChangedIsOver,
       HoldersAreServed

\* A handler ends, keeping its connection or giving it back with its commit.
LEMMA OverKeepsPoolInv ==
    ASSUME NEW r \in Request, PoolInv, pc[r] \in {"working", "await"},
           Over(r) \/ Committed(r), UNCHANGED retried
    PROVE  PoolInv'
<1>1. CASE Over(r)
  <2>1. TypeOK'
    BY <1>1, PoolAssumption DEF Over, Goto, PoolInv, TypeOK, Step
  <2>2. ChangedIsOver' /\ HoldersAreServed'
    BY <1>1, PoolAssumption
       DEF Over, Goto, PoolInv, TypeOK, ChangedIsOver, HoldersAreServed
  <2> QED
    BY <2>1, <2>2 DEF PoolInv
<1>2. CASE Committed(r)
  <2>1. TypeOK'
    BY <1>2, PoolAssumption DEF Committed, Goto, PoolInv, TypeOK, Step
  <2>2. ASSUME NEW q \in changed'
        PROVE  pc'[q] \in {"finished", "sent"} /\ answer'[q] = "ok"
    <3>1. CASE q = r
      BY <1>2, <3>1 DEF Committed, Goto, PoolInv, TypeOK
    <3>2. CASE q # r
      <4>1. q \in changed /\ q \in Request
        BY <1>2, <2>2, <3>2, PoolAssumption DEF Committed, PoolInv, TypeOK
      <4> QED
        BY <1>2, <3>2, <4>1 DEF Committed, Goto, PoolInv, TypeOK, ChangedIsOver
    <3> QED
      BY <3>1, <3>2
  <2>3. HoldersAreServed'
    BY <1>2 DEF Committed, Goto, PoolInv, TypeOK, HoldersAreServed
  <2> QED
    BY <2>1, <2>2, <2>3 DEF PoolInv, ChangedIsOver
<1> QED
    BY <1>1, <1>2

\* A handler waits, or rolls back and goes on.
LEMMA AwaitKeepsPoolInv ==
    ASSUME NEW r \in Request, PoolInv, Rollback(r) \/ Await(r) PROVE PoolInv'
BY PoolAssumption DEF Rollback, Await, At, Goto, PoolInv, TypeOK, Step, ChangedIsOver,
       HoldersAreServed

\* A request that is over is answered, and its session closed.
LEMMA CloseKeepsPoolInv ==
    ASSUME NEW r \in Request, PoolInv, Respond(r) \/ Close(r) PROVE PoolInv'
BY PoolAssumption DEF Respond, Close, Forget, At, Goto, PoolInv, TypeOK, Step, ChangedIsOver,
       HoldersAreServed

\* Every step keeps the invariant, one lemma for each shape of actions.
LEMMA NextKeepsPoolInv == PoolInv /\ [Next]_vars => PoolInv'
<1> SUFFICES ASSUME PoolInv, [Next]_vars PROVE PoolInv'
    OBVIOUS
<1>1. CASE UNCHANGED vars
    BY <1>1 DEF vars, PoolInv, TypeOK, ChangedIsOver, HoldersAreServed
<1>2. ASSUME NEW r \in Request, Arrive(r) PROVE PoolInv'
    BY <1>2, ArriveKeepsPoolInv
<1>3. ASSUME NEW r \in Request, Proceed(r) PROVE PoolInv'
  <2>1. CASE Begin(r) \/ RefuseEarly(r)
    BY <2>1, BeginKeepsPoolInv
  <2>2. CASE CheckOut(r) \/ TimeOut(r)
    BY <2>2, CheckOutKeepsPoolInv
  <2>3. CASE Work(r) \/ Stop(r) \/ Resume(r)
    BY <2>3, OverKeepsPoolInv DEF Work, Stop, Resume, At
  <2>4. CASE Rollback(r) \/ Await(r)
    BY <2>4, AwaitKeepsPoolInv
  <2>5. CASE Respond(r) \/ Close(r)
    BY <2>5, CloseKeepsPoolInv
  <2> QED
    BY <1>3, <2>1, <2>2, <2>3, <2>4, <2>5 DEF Proceed
<1> QED
    BY <1>1, <1>2, <1>3 DEF Next

\* The invariant holds throughout (get_db_session, SessionLocal).
LEMMA PoolInvariant == FairSpec => []PoolInv
<1>1. Init /\ [][Next]_vars => []PoolInv
    BY InitHasPoolInv, NextKeepsPoolInv, PTL
<1> QED
    BY <1>1, PTL DEF FairSpec

\* A refused request has changed nothing: committing is the last thing a
\* handler does that needs a connection (SessionLocal, expire_on_commit=False).
THEOREM RefusedWithoutChange == FairSpec => []RefusedChangedNothing
<1>1. PoolInv => RefusedChangedNothing
    BY DEF PoolInv, TypeOK, ChangedIsOver, RefusedChangedNothing
<1> QED
    BY <1>1, PoolInvariant, PTL

\* Only a request that waits for a connection and finds none is refused.
LEMMA OnlyTimeOutRefuses ==
    ASSUME NEW r \in Request, PoolInv, [Next]_vars,
           answer[r] # "refused", answer'[r] = "refused"
    PROVE  At(r, "checkout") /\ ~ConnectionFree
<1>1. CASE UNCHANGED vars
    BY <1>1 DEF vars
<1>2. ASSUME NEW q \in Request, Arrive(q) PROVE FALSE
    BY <1>2 DEF Arrive
<1>3. ASSUME NEW q \in Request, Proceed(q)
      PROVE  At(r, "checkout") /\ ~ConnectionFree
  <2>1. CASE TimeOut(q)
    BY <2>1 DEF TimeOut, At, Goto, PoolInv, TypeOK
  <2>2. CASE Work(q) \/ Stop(q) \/ Resume(q)
    BY <2>2 DEF Work, Stop, Resume, Over, Committed, PoolInv, TypeOK
  <2>3. CASE Begin(q) \/ RefuseEarly(q) \/ CheckOut(q) \/ Await(q)
    BY <2>3 DEF Begin, RefuseEarly, CheckOut, Await, PoolInv, TypeOK
  <2>4. CASE Rollback(q) \/ Respond(q) \/ Close(q)
    BY <2>4 DEF Rollback, Respond, Close, Forget, PoolInv, TypeOK
  <2> QED
    BY <1>3, <2>1, <2>2, <2>3, <2>4 DEF Proceed
<1> QED
    BY <1>1, <1>2, <1>3 DEF Next

\* A request is refused only while as many others are being served as there
\* are connections: none is lost to one that is over (get_db_session).
THEOREM NoConnectionIsLost == FairSpec => RefusedOnlyUnderLoad
<1> DEFINE Served(r) == {q \in Request \ {r} : pc[q] \notin {"idle", "arrived"}}
<1>1. ASSUME PoolInv, [Next]_vars, NEW r \in Request,
             answer[r] # "refused", answer'[r] = "refused"
      PROVE  Cardinality(Served(r)) >= PoolSize
  <2>1. At(r, "checkout") /\ ~ConnectionFree
    BY <1>1, OnlyTimeOutRefuses
  <2>2. holding \subseteq Served(r)
    BY <1>1, <2>1 DEF PoolInv, TypeOK, HoldersAreServed, At
  <2>3. IsFiniteSet(Served(r))
    BY PoolAssumption, FS_Subset
  <2>4. /\ IsFiniteSet(holding)
        /\ Cardinality(holding) \in Nat
        /\ Cardinality(Served(r)) \in Nat
        /\ Cardinality(holding) <= Cardinality(Served(r))
    BY <2>2, <2>3, FS_Subset, FS_CardinalityType
  <2>5. Cardinality(holding) >= PoolSize
    BY <2>1, <2>4, PoolAssumption DEF ConnectionFree
  <2> QED
    BY <2>4, <2>5, PoolAssumption
<1>2. PoolInv /\ [Next]_vars =>
        [\A r \in Request : answer[r] # "refused" /\ answer'[r] = "refused" =>
            Cardinality(Served(r)) >= PoolSize]_vars
    BY <1>1
<1> QED
    BY <1>2, PoolInvariant, PTL DEF FairSpec, RefusedOnlyUnderLoad
=============================================================================
