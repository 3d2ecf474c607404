------------------------ MODULE ExchangeRatesProofs ------------------------
(***************************************************************************)
(* Proofs about ExchangeRates, for any number of starts of the server, any *)
(* days and publications, and any table the first start finds.             *)
(***************************************************************************)
EXTENDS ExchangeRates, TLAPS

-----------------------------------------------------------------------------
(* Whatever overlaps. What an ORM session holds has been in the table, and *)
(* no row of the table is ever deleted.                                    *)

Idle == {"off", "warmup", "up"} \cup Over

HoldsBothOrNeither(p) == (loaded[p]["USD"] = NoRate) <=> (loaded[p]["CNY"] = NoRate)

\* What a process has done by the step it is at.
StartedWell(p) ==
    /\ pc[p] \in Idle => loaded[p] = Nothing
    /\ pc[p] # "off" => checkedAt[p] \in Day
    /\ pc[p] = "off" => fetched[p] = 0
    /\ pc[p] \in {"recheck", "fetch", "saveUSD"} => HoldsBothOrNeither(p)
    /\ pc[p] = "mark" => IsComplete(loaded[p])
    /\ pc[p] \in {"saveUSD", "saveCNY", "commit"} => fetched[p] \in 1 .. news
    /\ \A c \in Currency : loaded[p][c] # NoRate => table[c] # NoRate

CacheInv ==
    /\ TypeOK
    /\ BothOrNeither
    /\ \A p \in Process : StartedWell(p)

\* An UPDATE of some columns of a row leaves a row.
LEMMA PatchRowType ==
    ASSUME NEW stored \in Rate, NEW before \in Rate, NEW new \in Rate
    PROVE  PatchRow(stored, before, new) \in Rate
BY DEF PatchRow, Column, Rate

\* An UPDATE of a row that nobody else has written leaves what is meant.
LEMMA PatchRowAlone ==
    ASSUME NEW before \in Rate, NEW new \in Rate
    PROVE  PatchRow(before, before, new) = new
BY DEF PatchRow, Column, Rate

\* An ORM session that holds no rows.
LEMMA NothingHolds ==
    /\ Nothing \in [Currency -> Rate \cup {NoRate}]
    /\ \A c \in Currency : Nothing[c] = NoRate
BY DEF Nothing

\* The cache as the first process finds it.
LEMMA InitHasCacheInv == Init => CacheInv
<1> SUFFICES ASSUME Init PROVE CacheInv
  OBVIOUS
<1>1. TypeOK
  <2>1. 1 \in Day /\ 1 \in Publication
    BY ProcessAssumption, ProviderAssumption DEF Day, Publication
  <2>2. InitTable \in [Currency -> Rate \cup {NoRate}]
    BY TableAssumption
  <2> QED
    BY <2>1, <2>2, NothingHolds DEF Init, TypeOK, Step, Checking, Over, Outcome
<1>2. BothOrNeither
  BY TableAssumption DEF Init, BothOrNeither
<1>3. \A p \in Process : StartedWell(p)
  BY NothingHolds DEF Init, StartedWell, Idle, Over, HoldsBothOrNeither
<1> QED
  BY <1>1, <1>2, <1>3 DEF CacheInv

\* What a repeated query returns has been in the table, and is complete once
\* the table is.
LEMMA RereadType ==
    ASSUME CacheInv, NEW p \in Process
    PROVE  /\ Reread(p) \in [Currency -> Rate \cup {NoRate}]
           /\ \A c \in Currency : Reread(p)[c] # NoRate <=> table[c] # NoRate
           /\ \A c \in Currency : loaded[p][c] # NoRate =>
                                     Reread(p)[c] = loaded[p][c]
BY DEF CacheInv, TypeOK, StartedWell, Reread

\* A check that only reads ends with rates of today or goes on with what it
\* has read.
LEMMA UseOrElseKeepsCacheInv ==
    ASSUME CacheInv, NEW p \in Process,
           NEW rates \in [Currency -> Rate \cup {NoRate}],
           NEW step \in {"recheck", "fetch"},
           \A c \in Currency : rates[c] # NoRate <=> table[c] # NoRate,
           UseOrElse(p, rates, step),
           checkedAt' \in [Process -> Day \cup {0}], checkedAt'[p] \in Day,
           \A q \in Process : q # p => checkedAt'[q] = checkedAt[q],
           gone' \in [Process -> SUBSET Process],
           UNCHANGED <<world, table, fetched>>
    PROVE  CacheInv'
<1>1. TypeOK' /\ BothOrNeither'
  BY NothingHolds DEF UseOrElse, EndCheck, Goto, CacheInv, TypeOK, BothOrNeither,
     Step, Checking, Over, Outcome, world
<1>2. ASSUME NEW q \in Process, q # p PROVE StartedWell(q)'
  BY <1>2 DEF UseOrElse, EndCheck, Goto, CacheInv, TypeOK, StartedWell, world,
     HoldsBothOrNeither
<1>3. StartedWell(p)'
  <2>1. CASE EndCheck(p, "cached")
    BY <2>1, NothingHolds DEF EndCheck, CacheInv, TypeOK, StartedWell, Idle, Over
  <2>2. CASE Goto(p, step) /\ loaded' = [loaded EXCEPT ![p] = rates]
    <3>1. pc'[p] = step /\ loaded'[p] = rates
      BY <2>2 DEF Goto, CacheInv, TypeOK
    <3> QED
      BY <3>1 DEF StartedWell, Idle, Over, HoldsBothOrNeither, CacheInv,
         BothOrNeither, Currency
  <2> QED
    BY <2>1, <2>2 DEF UseOrElse
<1> QED
  BY <1>1, <1>2, <1>3 DEF CacheInv

\* A process that starts trusts a table that is up to date.
LEMMA StartKeepsCacheInv ==
    ASSUME CacheInv, NEW p \in Process, Start(p) PROVE CacheInv'
<1>1. /\ checkedAt' \in [Process -> Day \cup {0}]
      /\ checkedAt'[p] \in Day
      /\ \A q \in Process : q # p => checkedAt'[q] = checkedAt[q]
      /\ gone' \in [Process -> SUBSET Process]
  BY DEF Start, CacheInv, TypeOK
<1>2. table \in [Currency -> Rate \cup {NoRate}]
  BY DEF CacheInv, TypeOK
<1> QED
  BY <1>1, <1>2, UseOrElseKeepsCacheInv DEF Start

\* A recheck looks at the clock and asks the source.
LEMMA RecheckKeepsCacheInv ==
    ASSUME CacheInv, NEW p \in Process, Recheck(p) PROVE CacheInv'
<1>1. /\ checkedAt' \in [Process -> Day \cup {0}]
      /\ checkedAt'[p] \in Day
      /\ gone' \in [Process -> SUBSET Process]
  BY DEF Recheck, CacheInv, TypeOK, StartedWell
<1> QED
  BY <1>1, RereadType, UseOrElseKeepsCacheInv DEF Recheck

\* What the source answers is one publication, or a failure.
LEMMA FetchKeepsCacheInv ==
    ASSUME CacheInv, NEW p \in Process, Fetch(p) \/ FetchFails(p)
    PROVE  CacheInv'
<1>1. TypeOK' /\ BothOrNeither'
  BY NothingHolds DEF Fetch, FetchFails, EndCheck, Goto, CacheInv, TypeOK,
     BothOrNeither, Step, Checking, Over, Outcome, world
<1>2. ASSUME NEW q \in Process, q # p PROVE StartedWell(q)'
  BY <1>2 DEF Fetch, FetchFails, EndCheck, Goto, CacheInv, TypeOK, StartedWell,
     world, HoldsBothOrNeither
<1>3. StartedWell(p)'
  <2>1. news \in 1 .. news
    BY ProviderAssumption DEF CacheInv, TypeOK, Publication
  <2> QED
    BY <2>1, NothingHolds DEF Fetch, FetchFails, EndCheck, Goto, CacheInv, TypeOK,
       StartedWell, world, HoldsBothOrNeither, Idle, Over, IsComplete
<1> QED
  BY <1>1, <1>2, <1>3 DEF CacheInv

\* A row is sent to the database, or the save ends.
LEMMA SaveKeepsCacheInv ==
    ASSUME CacheInv, NEW p \in Process, SaveUSD(p) \/ SaveCNY(p)
    PROVE  CacheInv'
<1>1. TypeOK' /\ BothOrNeither'
  <2>1. PICK c \in Currency, here \in Step, next \in Step : Save(p, c, here, next)
    BY DEF SaveUSD, SaveCNY, Currency, Step, Checking
  <2>2. loaded' \in [Process -> [Currency -> Rate \cup {NoRate}]]
    BY <2>1, RereadType DEF Save, CacheInv, TypeOK
  <2> QED
    BY <2>1, <2>2 DEF Save, Goto, CacheInv, TypeOK, BothOrNeither, world
<1>2. ASSUME NEW q \in Process, q # p PROVE StartedWell(q)'
  BY <1>2 DEF SaveUSD, SaveCNY, Save, Goto, CacheInv, TypeOK, StartedWell,
     world, HoldsBothOrNeither
<1>3. StartedWell(p)'
  <2>1. \A c \in Currency : loaded'[p][c] \in {loaded[p][c], Reread(p)[c]}
    BY DEF SaveUSD, SaveCNY, Save, CacheInv, TypeOK
  <2>2. /\ pc[p] \in {"saveUSD", "saveCNY"}
        /\ pc'[p] \in {"saveCNY", "commit"}
        /\ UNCHANGED <<table, news, checkedAt, fetched>>
    BY DEF SaveUSD, SaveCNY, Save, Goto, CacheInv, TypeOK, world
  <2> QED
    BY <2>1, <2>2, RereadType DEF StartedWell, CacheInv, Idle, Over
<1> QED
  BY <1>1, <1>2, <1>3 DEF CacheInv

\* A new rate of a publication whose rates fit their columns is a row.
LEMMA NewRateType ==
    ASSUME CacheInv, NEW p \in Process, NEW c \in Currency,
           pc[p] = "commit", ~Refused(p)
    PROVE  NewRate(p, c) \in Rate
<1>1. fetched[p] \in Publication /\ checkedAt[p] \in Nat
  BY ProviderAssumption, ProcessAssumption
     DEF CacheInv, TypeOK, StartedWell, Publication, Day
<1>2. DateOf[fetched[p]] \in Nat /\ RateOf[c][fetched[p]] \in Storable
  BY <1>1, ProviderAssumption DEF Refused
<1> QED
  BY <1>1, <1>2 DEF NewRate, Rate

\* What a commit that is not refused writes is a row.
LEMMA WrittenType ==
    ASSUME CacheInv, NEW p \in Process, NEW c \in Currency,
           pc[p] = "commit", ~Refused(p)
    PROVE  Written(p, c, NewRate(p, c)) \in Rate
<1>1. CASE loaded[p][c] = NoRate
  BY <1>1, NewRateType DEF Written
<1>2. CASE loaded[p][c] # NoRate
  <2>1. table[c] \in Rate /\ loaded[p][c] \in Rate
    BY <1>2 DEF CacheInv, TypeOK, StartedWell
  <2> QED
    BY <1>2, <2>1, NewRateType, PatchRowType DEF Written
<1> QED
  BY <1>1, <1>2

\* What marking a loaded row as checked writes is a row.
LEMMA MarkedType ==
    ASSUME CacheInv, NEW p \in Process, NEW c \in Currency, pc[p] = "mark"
    PROVE  /\ loaded[p][c] \in Rate
           /\ table[c] \in Rate
           /\ Marked(p, c) \in Rate
           /\ PatchRow(table[c], loaded[p][c], Marked(p, c)) \in Rate
<1>1. loaded[p][c] \in Rate /\ table[c] \in Rate
  BY DEF CacheInv, TypeOK, StartedWell, IsComplete
<1>2. checkedAt[p] \in Nat
  BY ProcessAssumption DEF CacheInv, TypeOK, Day
<1>3. Marked(p, c) \in Rate
  BY <1>1, <1>2 DEF Marked, Rate
<1> QED
  BY <1>1, <1>3, PatchRowType

\* A check that ends, its rows written or not.
LEMMA EndCheckKeepsCacheInv ==
    ASSUME CacheInv, NEW p \in Process, pc[p] # "off",
           NEW how \in Outcome, EndCheck(p, how),
           table' \in [Currency -> Rate \cup {NoRate}], BothOrNeither',
           \A c \in Currency : table[c] # NoRate => table'[c] # NoRate,
           UNCHANGED <<world, checkedAt, fetched, gone>>
    PROVE  CacheInv'
<1>1. TypeOK'
  BY NothingHolds DEF EndCheck, CacheInv, TypeOK, Step, world
<1>2. ASSUME NEW q \in Process, q # p PROVE StartedWell(q)'
  BY <1>2 DEF EndCheck, CacheInv, TypeOK, StartedWell, world, HoldsBothOrNeither
<1>3. StartedWell(p)'
  BY NothingHolds DEF EndCheck, CacheInv, TypeOK, StartedWell, world, Idle, Over
<1> QED
  BY <1>1, <1>2, <1>3 DEF CacheInv

\* The rows of a save are committed.
LEMMA CommitKeepsCacheInv ==
    ASSUME CacheInv, NEW p \in Process, Commit(p) PROVE CacheInv'
<1>1. CASE UNCHANGED table
  BY <1>1, EndCheckKeepsCacheInv DEF Commit, CacheInv, TypeOK, BothOrNeither,
     Outcome
<1>2. CASE /\ ~Refused(p)
           /\ table' = [c \in Currency |-> Written(p, c, NewRate(p, c))]
  <2>1. table' \in [Currency -> Rate]
    BY <1>2, WrittenType DEF Commit
  <2>2. \A c \in Currency : table'[c] # NoRate
    BY <2>1, TableAssumption
  <2>3. BothOrNeither'
    BY <2>2 DEF BothOrNeither, Currency
  <2>4. PICK how \in Outcome : EndCheck(p, how)
    BY DEF Commit, Outcome
  <2> QED
    BY <2>1, <2>2, <2>3, <2>4, EndCheckKeepsCacheInv DEF Commit
<1> QED
  BY <1>1, <1>2 DEF Commit

\* The day of the check is written to the row.
LEMMA MarkKeepsCacheInv ==
    ASSUME CacheInv, NEW p \in Process, MarkChecked(p) PROVE CacheInv'
<1>1. table' \in [Currency -> Rate]
  BY MarkedType DEF MarkChecked
<1>2. \A c \in Currency : table'[c] # NoRate
  BY <1>1, TableAssumption
<1>3. BothOrNeither'
  BY <1>2 DEF BothOrNeither, Currency
<1>4. PICK how \in Outcome : EndCheck(p, how)
  BY DEF MarkChecked, Outcome
<1> QED
  BY <1>1, <1>2, <1>3, <1>4, EndCheckKeepsCacheInv DEF MarkChecked

\* A process that stops or is killed leaves only what is committed.
LEMMA StopKeepsCacheInv ==
    ASSUME CacheInv, NEW p \in Process, Stop(p) \/ DatabaseFails(p)
    PROVE  CacheInv'
<1>1. CASE Stop(p)
  <2>1. TypeOK' /\ BothOrNeither'
    BY <1>1, NothingHolds DEF Stop, CacheInv, TypeOK, BothOrNeither, Step,
       Checking, Over, world
  <2>2. ASSUME NEW q \in Process PROVE StartedWell(q)'
    BY <1>1, NothingHolds DEF Stop, CacheInv, TypeOK, StartedWell, Idle, Over,
       world,
       HoldsBothOrNeither, IsComplete
  <2> QED
    BY <2>1, <2>2 DEF CacheInv
<1>2. CASE DatabaseFails(p)
  BY <1>2, EndCheckKeepsCacheInv DEF DatabaseFails, CacheInv, TypeOK,
     BothOrNeither, Outcome
<1> QED
  BY <1>1, <1>2

\* The model is loaded or is not, after the check and apart from the table.
LEMMA WarmUpKeepsCacheInv ==
    ASSUME CacheInv, NEW p \in Process, WarmUp(p) \/ WarmUpFails(p)
    PROVE  CacheInv'
<1>1. TypeOK' /\ BothOrNeither'
  BY DEF WarmUp, WarmUpFails, Goto, CacheInv, TypeOK, BothOrNeither, Step,
     Checking, Over, world
<1>2. ASSUME NEW q \in Process PROVE StartedWell(q)'
  BY DEF WarmUp, WarmUpFails, Goto, CacheInv, TypeOK, StartedWell, Idle, Over,
     world, HoldsBothOrNeither, IsComplete
<1> QED
  BY <1>1, <1>2 DEF CacheInv

\* Days pass and publications appear.
LEMMA WorldKeepsCacheInv ==
    ASSUME CacheInv, DayPasses \/ Publish PROVE CacheInv'
<1>1. /\ today' \in Day /\ news' \in Publication
      /\ 1 .. news \subseteq 1 .. news'
      /\ UNCHANGED <<table, pc, loaded, checkedAt, fetched, outcome, gone>>
  <2>1. today \in 1 .. MaxDay /\ news \in 1 .. MaxPublication
    BY DEF CacheInv, TypeOK, Day, Publication
  <2>2. CASE DayPasses
    BY <2>1, <2>2, ProcessAssumption DEF DayPasses, Day, Publication
  <2>3. CASE Publish
    BY <2>1, <2>3, ProviderAssumption DEF Publish, Day, Publication
  <2> QED
    BY <2>2, <2>3
<1>2. TypeOK' /\ BothOrNeither'
  BY <1>1 DEF CacheInv, TypeOK, BothOrNeither
<1>3. ASSUME NEW p \in Process PROVE StartedWell(p)'
  BY <1>1 DEF CacheInv, StartedWell, HoldsBothOrNeither, IsComplete
<1> QED
  BY <1>2, <1>3 DEF CacheInv

\* So every step keeps the invariant.
LEMMA NextKeepsCacheInv == CacheInv /\ [Next]_vars => CacheInv'
<1> SUFFICES ASSUME CacheInv, [Next]_vars PROVE CacheInv'
  OBVIOUS
<1>1. ASSUME NEW p \in Process, Start(p) PROVE CacheInv'
  BY <1>1, StartKeepsCacheInv
<1>2. ASSUME NEW p \in Process, Check(p) PROVE CacheInv'
  BY <1>2, RecheckKeepsCacheInv, FetchKeepsCacheInv, SaveKeepsCacheInv,
     CommitKeepsCacheInv, MarkKeepsCacheInv, StopKeepsCacheInv DEF Check
<1>3. ASSUME NEW p \in Process, WarmUp(p) \/ WarmUpFails(p) \/ Stop(p)
      PROVE  CacheInv'
  BY <1>3, WarmUpKeepsCacheInv, StopKeepsCacheInv
<1>4. CASE DayPasses \/ Publish
  BY <1>4, WorldKeepsCacheInv
<1>5. CASE UNCHANGED vars
  BY <1>5 DEF vars, world, CacheInv, TypeOK, BothOrNeither, StartedWell,
     HoldsBothOrNeither, IsComplete
<1> QED
  BY <1>1, <1>2, <1>3, <1>4, <1>5 DEF Next

\* Hence it always holds, whatever overlaps.
LEMMA CacheInvariance == Spec => []CacheInv
BY InitHasCacheInv, NextKeepsCacheInv, PTL DEF Spec

\* Every variable has its type, what a column-wise UPDATE leaves of a row of
\* currency_rates included (ExchangeRateRepository.save, mark_checked).
THEOREM TypeCorrect == Spec => []TypeOK
<1>1. CacheInv => TypeOK
  BY DEF CacheInv
<1> QED
  BY <1>1, CacheInvariance, PTL

\* However many processes overlap and wherever they are killed, the table
\* holds both rates or none (ExchangeRateService.ensure_current).
THEOREM BothRatesOrNone == Spec => []BothOrNeither
<1>1. CacheInv => BothOrNeither
  BY DEF CacheInv
<1> QED
  BY <1>1, CacheInvariance, PTL

-----------------------------------------------------------------------------
(* While processes do not overlap. *)

\* Who was over when another started is over.
GoneStayGone == \A p \in Process : \A q \in gone[p] : pc[q] \in Over

Running(p) == pc[p] \notin Idle

\* The table is as the process has read it, and no newer than what it knows.
ReadsTheTable(p) ==
    /\ Running(p) => \A c \in Currency :
          /\ loaded[p][c] # NoRate => loaded[p][c] = table[c]
          /\ table[c] # NoRate => table[c].checked <= checkedAt[p]
    /\ pc[p] \in {"saveUSD", "saveCNY", "commit"} =>
          \A c \in Currency :
             table[c] # NoRate => table[c].date <= DateOf[fetched[p]]
    /\ pc[p] # "off" => checkedAt[p] <= today
    /\ pc[p] = "off" => outcome[p] = ""

\* Whoever got rates has left them in the table, checked on its day or later.
LeavesRates(p) ==
    outcome[p] \in {"cached", "fresh", "stale"} =>
       \A c \in Currency : table[c] # NoRate /\ table[c].checked >= checkedAt[p]

\* No row is of the future.
NotAhead ==
    \A c \in Currency : table[c] # NoRate =>
       table[c].date <= DateOf[news] /\ table[c].checked <= today

TurnInv ==
    /\ CacheInv
    /\ GoneStayGone
    /\ OnePublication
    /\ CheckedOnceADay
    /\ InTurn => /\ NotAhead
                 /\ \A p \in Process : ReadsTheTable(p) /\ LeavesRates(p)

\* The table as it is found, before the first process.
LEMMA InitHasTurnInv == Init => TurnInv
<1> SUFFICES ASSUME Init PROVE TurnInv
  OBVIOUS
<1>1. GoneStayGone /\ CheckedOnceADay
  BY DEF Init, GoneStayGone, CheckedOnceADay
<1>2. OnePublication
  BY DEF Init, OnePublication
<1>3. NotAhead /\ \A p \in Process : ReadsTheTable(p) /\ LeavesRates(p)
  BY TableAssumption DEF Init, NotAhead, ReadsTheTable, LeavesRates, Running,
     Idle, Over
<1> QED
  BY <1>1, <1>2, <1>3, InitHasCacheInv DEF TurnInv

StepOf(p) == Start(p) \/ Check(p) \/ WarmUp(p) \/ WarmUpFails(p) \/ Stop(p)

\* A step of a process is not a step of another, and it starts only once.
LEMMA StepIsOfOne ==
    ASSUME CacheInv, NEW p \in Process, StepOf(p)
    PROVE  /\ pc[p] \notin Over /\ pc'[p] # "off"
           /\ pc[p] # "off" => UNCHANGED <<gone, checkedAt>>
           /\ \A q \in Process : q # p =>
                 /\ pc'[q] = pc[q] /\ loaded'[q] = loaded[q]
                 /\ checkedAt'[q] = checkedAt[q] /\ fetched'[q] = fetched[q]
                 /\ outcome'[q] = outcome[q] /\ gone'[q] = gone[q]
           /\ UNCHANGED world
<1>1. CASE Start(p) \/ Recheck(p)
  BY <1>1 DEF Start, Recheck, UseOrElse, EndCheck, Goto, CacheInv, TypeOK, Over
<1>2. CASE Fetch(p) \/ FetchFails(p) \/ DatabaseFails(p)
  BY <1>2 DEF Fetch, FetchFails, DatabaseFails, EndCheck, Goto, CacheInv, TypeOK,
     Over
<1>3. CASE SaveUSD(p) \/ SaveCNY(p)
  BY <1>3 DEF SaveUSD, SaveCNY, Save, Goto, CacheInv, TypeOK, Over
<1>4. CASE Commit(p) \/ MarkChecked(p)
  BY <1>4 DEF Commit, MarkChecked, EndCheck, CacheInv, TypeOK, Over
<1>5. CASE WarmUp(p) \/ WarmUpFails(p) \/ Stop(p)
  BY <1>5 DEF WarmUp, WarmUpFails, Stop, Goto, CacheInv, TypeOK, Over
<1> QED
  BY <1>1, <1>2, <1>3, <1>4, <1>5 DEF StepOf, Check

\* Processes that overlap will always have overlapped, and whoever takes a
\* step that keeps them apart is the only one there.
LEMMA AloneInTurn ==
    ASSUME TurnInv, NEW p \in Process, StepOf(p), InTurn'
    PROVE  /\ InTurn
           /\ \A q \in Process : q # p => pc[q] \in {"off"} \cup Over
<1> USE StepIsOfOne
<1>1. CASE Start(p)
  <2>1. pc[p] = "off" /\ gone'[p] = {q \in Process : pc[q] \in Over}
    BY <1>1 DEF Start, TurnInv, CacheInv, TypeOK
  <2> QED
    BY <2>1 DEF InTurn, TurnInv, GoneStayGone, CacheInv, TypeOK
<1>2. CASE ~Start(p)
  <2>1. pc[p] # "off"
    BY <1>2 DEF StepOf, Check, WarmUp, WarmUpFails, Stop, Recheck, Fetch,
       FetchFails, SaveUSD, SaveCNY, Save, Commit, MarkChecked, DatabaseFails
  <2>2. /\ UNCHANGED gone /\ pc[p] \notin Over
        /\ \A q \in Process : pc'[q] = "off" => pc[q] = "off"
    BY <2>1 DEF TurnInv
  <2>3. InTurn
    BY <2>2 DEF InTurn
  <2>4. ASSUME NEW q \in Process, q # p PROVE pc[q] \in {"off"} \cup Over
    <3>1. "off" \in {pc[p], pc[q]} \/ p \in gone[q] \/ q \in gone[p]
      BY <2>3, <2>4 DEF InTurn
    <3> QED
      BY <2>1, <2>2, <3>1 DEF TurnInv, GoneStayGone
  <2> QED
    BY <2>3, <2>4
<1> QED
  BY <1>1, <1>2

\* The clocks and counters are numbers.
LEMMA ClocksAreNumbers ==
    ASSUME CacheInv, NEW p \in Process
    PROVE  /\ today \in Nat /\ checkedAt[p] \in Nat
           /\ news \in Publication /\ news \in Nat
           /\ fetched[p] \in 1 .. news =>
                 fetched[p] \in Publication /\ DateOf[fetched[p]] <= DateOf[news]
<1>1. today \in Nat /\ checkedAt[p] \in Nat
  BY ProcessAssumption DEF CacheInv, TypeOK, Day
<1>2. news \in Publication /\ news \in Nat
  BY ProviderAssumption DEF CacheInv, TypeOK, Publication
<1>3. ASSUME fetched[p] \in 1 .. news
      PROVE  fetched[p] \in Publication /\ DateOf[fetched[p]] <= DateOf[news]
  <2>1. fetched[p] \in Publication /\ fetched[p] <= news
    BY <1>2, <1>3, ProviderAssumption DEF Publication
  <2> QED
    BY <1>2, <2>1, ProviderAssumption
<1> QED
  BY <1>1, <1>2, <1>3

\* A process that is over stays so.
LEMMA StepKeepsGone ==
    ASSUME TurnInv, NEW p \in Process, StepOf(p) PROVE GoneStayGone'
<1> SUFFICES ASSUME NEW r \in Process, NEW q \in gone'[r] PROVE pc'[q] \in Over
  BY DEF GoneStayGone
<1>1. CASE r = p /\ Start(p)
  BY <1>1, StepIsOfOne DEF Start, TurnInv, CacheInv, TypeOK
<1>2. CASE ~(r = p /\ Start(p))
  <2>1. gone'[r] = gone[r]
    BY <1>2, StepIsOfOne DEF StepOf, Check, WarmUp, WarmUpFails, Stop,
       Recheck, Fetch, FetchFails, SaveUSD, SaveCNY, Save, Commit,
       MarkChecked, DatabaseFails, TurnInv
  <2>2. q \in Process /\ pc[q] \in Over
    BY <2>1 DEF TurnInv, GoneStayGone, CacheInv, TypeOK
  <2> QED
    BY <2>2, StepIsOfOne DEF TurnInv
<1> QED
  BY <1>1, <1>2

\* What a process that is alone writes replaces whole rows.
LEMMA AloneWrites ==
    ASSUME TurnInv, InTurn, NEW p \in Process, StepOf(p)
    PROVE  \/ /\ UNCHANGED table
              /\ pc[p] \in {"commit", "mark"} =>
                    outcome'[p] \in {outcome[p], "none"}
           \/ /\ pc[p] = "commit" /\ pc'[p] \in {"warmup", "up"}
              /\ \A c \in Currency :
                    NewRate(p, c) \in Rate /\ table'[c] = NewRate(p, c)
           \/ /\ pc[p] = "mark" /\ pc'[p] \in {"warmup", "up"}
              /\ \A c \in Currency :
                    /\ table[c] \in Rate
                    /\ table'[c] = [table[c] EXCEPT !.checked = checkedAt[p]]
<1>1. CASE /\ Commit(p) /\ ~Refused(p)
           /\ table' = [c \in Currency |-> Written(p, c, NewRate(p, c))]
  <2>1. /\ pc[p] = "commit" /\ pc'[p] \in {"warmup", "up"} /\ ~Refused(p)
        /\ \A c \in Currency : table'[c] = Written(p, c, NewRate(p, c))
    BY <1>1 DEF Commit, EndCheck, TurnInv, CacheInv, TypeOK
  <2>2. ASSUME NEW c \in Currency
        PROVE  NewRate(p, c) \in Rate /\ table'[c] = NewRate(p, c)
    <3>1. NewRate(p, c) \in Rate
      BY <2>1, NewRateType DEF TurnInv
    <3>2. CASE loaded[p][c] = NoRate
      BY <2>1, <3>1, <3>2 DEF Written
    <3>3. CASE loaded[p][c] # NoRate
      <4>1. loaded[p][c] \in Rate /\ table[c] = loaded[p][c]
        BY <2>1, <3>3 DEF TurnInv, CacheInv, TypeOK, ReadsTheTable, Running,
           Idle, Over
      <4> QED
        BY <2>1, <3>1, <3>3, <4>1, PatchRowAlone DEF Written
    <3> QED
      BY <3>2, <3>3, <3>1
  <2> QED
    BY <2>1, <2>2
<1>2. CASE MarkChecked(p)
  <2>1. /\ pc[p] = "mark" /\ pc'[p] \in {"warmup", "up"}
        /\ \A c \in Currency :
              table'[c] = PatchRow(table[c], loaded[p][c], Marked(p, c))
    BY <1>2 DEF MarkChecked, EndCheck, TurnInv, CacheInv, TypeOK
  <2>2. ASSUME NEW c \in Currency
        PROVE  /\ table[c] \in Rate
               /\ table'[c] = [table[c] EXCEPT !.checked = checkedAt[p]]
    <3>1. loaded[p][c] \in Rate /\ table[c] \in Rate /\ Marked(p, c) \in Rate
      BY <2>1, MarkedType DEF TurnInv
    <3>2. table[c] = loaded[p][c]
      BY <2>1, <3>1, TableAssumption
         DEF TurnInv, ReadsTheTable, Running, Idle, Over
    <3> QED
      BY <2>1, <3>1, <3>2, PatchRowAlone DEF Marked
  <2> QED
    BY <2>1, <2>2
<1>3. CASE ~Commit(p) /\ ~MarkChecked(p)
  <2>1. UNCHANGED table
    BY <1>3 DEF StepOf, Check, Start, WarmUp, WarmUpFails, Stop, Recheck,
       Fetch, FetchFails, SaveUSD, SaveCNY, Save, DatabaseFails
  <2>2. pc[p] \in {"commit", "mark"} => DatabaseFails(p) \/ Stop(p)
    BY <1>3 DEF StepOf, Check, Start, WarmUp, WarmUpFails, Recheck, Fetch,
       FetchFails, SaveUSD, SaveCNY, Save
  <2>3. outcome \in [Process -> Outcome]
    BY DEF TurnInv, CacheInv, TypeOK
  <2> QED
    BY <2>1, <2>2, <2>3 DEF DatabaseFails, Stop, EndCheck
<1>4. CASE Commit(p) /\ UNCHANGED table /\ EndCheck(p, "none")
  <2>1. outcome \in [Process -> Outcome]
    BY DEF TurnInv, CacheInv, TypeOK
  <2> QED
    BY <1>4, <2>1 DEF EndCheck
<1> QED
  BY <1>1, <1>2, <1>3, <1>4 DEF Commit

\* What a process that is alone writes is no older than what it replaces.
LEMMA TableMovesOn ==
    ASSUME TurnInv, InTurn, NEW p \in Process, StepOf(p),
           NEW c \in Currency, table[c] # NoRate
    PROVE  /\ table'[c] # NoRate
           /\ table'[c].date >= table[c].date
           /\ table'[c].checked >= table[c].checked
<1>1. table[c] \in Rate /\ DateOf \in [Publication -> Nat]
  BY ProviderAssumption DEF TurnInv, CacheInv, TypeOK
<1>2. CASE UNCHANGED table
  BY <1>1, <1>2 DEF Rate
<1>3. CASE /\ pc[p] = "commit"
           /\ NewRate(p, c) \in Rate /\ table'[c] = NewRate(p, c)
  <2>1. /\ table[c].date <= DateOf[fetched[p]]
        /\ table[c].checked <= checkedAt[p]
    BY <1>3 DEF TurnInv, ReadsTheTable, Running, Idle, Over
  <2>2. /\ table'[c].date = DateOf[fetched[p]]
        /\ table'[c].checked = checkedAt[p]
    BY <1>3 DEF NewRate
  <2>3. table'[c] \in Rate /\ table'[c] # NoRate
    BY <1>3, TableAssumption
  <2> QED
    BY <1>1, <2>1, <2>2, <2>3 DEF Rate
<1>4. CASE /\ pc[p] = "mark"
           /\ table'[c] = [table[c] EXCEPT !.checked = checkedAt[p]]
  <2>1. table[c].checked <= checkedAt[p] /\ checkedAt[p] \in Nat
    BY <1>4, ClocksAreNumbers DEF TurnInv, ReadsTheTable, Running, Idle, Over
  <2>2. /\ table'[c] \in Rate /\ table'[c].date = table[c].date
        /\ table'[c].checked = checkedAt[p]
    BY <1>1, <1>4, <2>1 DEF Rate
  <2> QED
    BY <1>1, <2>1, <2>2, TableAssumption DEF Rate
<1> QED
  BY <1>2, <1>3, <1>4, AloneWrites

\* No step brings in a day or a publication that is still to come.
LEMMA StepIsNotAhead ==
    ASSUME TurnInv, NEW p \in Process, StepOf(p), InTurn' PROVE NotAhead'
<1> SUFFICES ASSUME NEW c \in Currency, table'[c] # NoRate
             PROVE  table'[c].date <= DateOf[news] /\ table'[c].checked <= today
  BY StepIsOfOne DEF NotAhead, TurnInv, world
<1>1. InTurn
  BY AloneInTurn
<1>2. CASE UNCHANGED table
  BY <1>1, <1>2 DEF TurnInv, NotAhead
<1>3. /\ pc[p] # "off" => checkedAt[p] <= today
      /\ news \in Publication
  BY <1>1 DEF TurnInv, ReadsTheTable, CacheInv, TypeOK
<1>4. CASE pc[p] = "commit" /\ table'[c] = NewRate(p, c)
  <2>1. fetched[p] \in Publication /\ fetched[p] <= news
    BY <1>3, <1>4, ProviderAssumption DEF TurnInv, CacheInv, StartedWell, Publication
  <2>2. DateOf[fetched[p]] <= DateOf[news]
    BY <1>3, <2>1, ProviderAssumption
  <2> QED
    BY <1>3, <1>4, <2>2 DEF NewRate
<1>5. CASE /\ pc[p] = "mark" /\ table[c] \in Rate
           /\ table'[c] = [table[c] EXCEPT !.checked = checkedAt[p]]
  <2>1. table'[c].date = table[c].date /\ table'[c].checked = checkedAt[p]
    BY <1>5 DEF Rate
  <2> QED
    BY <1>1, <1>3, <1>5, <2>1, TableAssumption DEF TurnInv, NotAhead
<1> QED
  BY <1>1, <1>2, <1>4, <1>5, AloneWrites

\* What a process alone takes for the table is the table.
LEMMA StepReadsTheTable ==
    ASSUME TurnInv, NEW p \in Process, StepOf(p), InTurn', CacheInv',
           NEW q \in Process
    PROVE  ReadsTheTable(q)'
<1>1. /\ InTurn /\ NotAhead /\ ReadsTheTable(p) /\ ReadsTheTable(q)
      /\ UNCHANGED <<today, news>>
  BY AloneInTurn, StepIsOfOne DEF TurnInv, world
<1>2. CASE q # p
  <2>1. /\ pc[q] \in {"off"} \cup Over /\ pc'[q] = pc[q]
        /\ checkedAt'[q] = checkedAt[q] /\ outcome'[q] = outcome[q]
    BY <1>2, AloneInTurn, StepIsOfOne DEF TurnInv
  <2> QED
    BY <1>1, <2>1 DEF ReadsTheTable, Running, Idle, Over
<1>3. CASE q = p
  <2>1. CASE Start(p)
    <3>1. /\ checkedAt'[p] = today /\ UNCHANGED table
          /\ \/ pc'[p] = "recheck" /\ loaded'[p] = table
             \/ pc'[p] \in {"warmup", "up"}
      BY <2>1 DEF Start, UseOrElse, EndCheck, Goto, TurnInv, CacheInv, TypeOK
    <3>2. today \in Nat
      BY ClocksAreNumbers DEF TurnInv
    <3>3. pc'[p] \in {"recheck", "warmup", "up"} /\ checkedAt'[p] <= today'
      BY <1>1, <3>1, <3>2
    <3>4. Running(p)' => \A c \in Currency :
             /\ loaded'[p][c] = table'[c]
             /\ table'[c] # NoRate => table'[c].checked <= checkedAt'[p]
      BY <1>1, <3>1 DEF NotAhead, Running, Idle, Over
    <3> QED
      BY <1>3, <3>3, <3>4 DEF ReadsTheTable
  <2>2. CASE Recheck(p)
    <3>1. /\ pc[p] = "recheck" /\ UNCHANGED <<table, checkedAt>>
          /\ \/ pc'[p] = "fetch" /\ loaded'[p] = Reread(p)
             \/ pc'[p] \in {"warmup", "up"}
      BY <2>2 DEF Recheck, UseOrElse, EndCheck, Goto, TurnInv, CacheInv, TypeOK
    <3>2. \A c \in Currency : Reread(p)[c] = table[c]
      BY <1>1, <3>1 DEF ReadsTheTable, Running, Idle, Over, Reread
    <3> QED
      BY <1>1, <1>3, <3>1, <3>2 DEF ReadsTheTable, Running, Idle, Over
  <2>3. CASE SaveUSD(p) \/ SaveCNY(p)
    <3>1. /\ pc[p] \in {"saveUSD", "saveCNY"} /\ pc'[p] \in {"saveCNY", "commit"}
          /\ \A c \in Currency : loaded'[p][c] \in {loaded[p][c], Reread(p)[c]}
          /\ UNCHANGED <<table, checkedAt, fetched>>
      BY <2>3 DEF SaveUSD, SaveCNY, Save, Goto, TurnInv, CacheInv, TypeOK
    <3>2. \A c \in Currency : Reread(p)[c] = table[c]
      BY <1>1, <3>1 DEF ReadsTheTable, Running, Idle, Over, Reread
    <3> QED
      BY <1>1, <1>3, <3>1, <3>2 DEF ReadsTheTable, Running, Idle, Over
  <2>4. CASE Fetch(p)
    <3>1. /\ pc[p] = "fetch" /\ pc'[p] = "saveUSD" /\ fetched'[p] = news
          /\ UNCHANGED <<table, loaded, checkedAt>>
      BY <2>4 DEF Fetch, Goto, TurnInv, CacheInv, TypeOK
    <3> QED
      BY <1>1, <1>3, <3>1 DEF ReadsTheTable, NotAhead, Running, Idle, Over
  <2>5. CASE FetchFails(p) /\ pc'[p] = "mark"
    <3>1. pc[p] = "fetch" /\ UNCHANGED <<table, loaded, checkedAt>>
      BY <2>5 DEF FetchFails, Goto, EndCheck, TurnInv, CacheInv, TypeOK
    <3> QED
      BY <1>1, <1>3, <2>5, <3>1 DEF ReadsTheTable, Running, Idle, Over
  <2>6. CASE pc[p] # "off" /\ pc'[p] \in {"warmup", "up"} \cup Over
    BY <1>1, <1>3, <2>6, StepIsOfOne DEF ReadsTheTable, Running, Idle, Over, TurnInv
  <2>7. CASE FetchFails(p) /\ pc'[p] # "mark"
    <3>1. pc[p] # "off" /\ pc'[p] \in {"warmup", "up"}
      BY <2>7 DEF FetchFails, Goto, EndCheck, TurnInv, CacheInv, TypeOK
    <3> QED
      BY <2>6, <3>1
  <2>8. CASE \/ Commit(p) \/ MarkChecked(p) \/ DatabaseFails(p)
             \/ WarmUp(p) \/ WarmUpFails(p) \/ Stop(p)
    <3>1. pc[p] # "off" /\ pc'[p] \in {"warmup", "up"} \cup Over
      BY <2>8 DEF Commit, MarkChecked, DatabaseFails, WarmUp, WarmUpFails, Stop,
         EndCheck, Goto, Over, TurnInv, CacheInv, TypeOK
    <3> QED
      BY <2>6, <3>1
  <2> QED
    BY <2>1, <2>2, <2>3, <2>4, <2>5, <2>7, <2>8 DEF StepOf, Check
<1> QED
  BY <1>2, <1>3

\* Who ends its check with rates leaves them in the table, and nobody takes
\* them away.
LEMMA StepLeavesRates ==
    ASSUME TurnInv, NEW p \in Process, StepOf(p), InTurn', CacheInv',
           NEW q \in Process
    PROVE  LeavesRates(q)'
<1>1. InTurn /\ LeavesRates(q) /\ ReadsTheTable(p)
  BY AloneInTurn DEF TurnInv
<1>2. /\ checkedAt[q] \in Nat /\ checkedAt'[q] \in Nat
      /\ table \in [Currency -> Rate \cup {NoRate}]
      /\ table' \in [Currency -> Rate \cup {NoRate}]
  BY ProcessAssumption DEF TurnInv, CacheInv, TypeOK, Day
<1>3. CASE outcome'[q] = outcome[q] /\ checkedAt'[q] = checkedAt[q]
  <2> SUFFICES ASSUME outcome[q] \in {"cached", "fresh", "stale"},
                      NEW c \in Currency
               PROVE  table'[c] # NoRate /\ table'[c].checked >= checkedAt[q]
    BY <1>3 DEF LeavesRates
  <2>1. table[c] # NoRate /\ table[c].checked >= checkedAt[q]
    BY <1>1 DEF LeavesRates
  <2>2. table'[c] # NoRate /\ table'[c].checked >= table[c].checked
    BY <1>1, <2>1, TableMovesOn
  <2> QED
    BY <1>2, <2>1, <2>2 DEF Rate
<1>4. CASE outcome'[q] \in {"", "none"}
  BY <1>4 DEF LeavesRates
<1>5. CASE q = p /\ outcome'[p] = "cached" /\ (Start(p) \/ Recheck(p))
  <2>1. CASE Start(p)
    <3>1. pc[p] = "off" /\ outcome[p] = "" /\ UNCHANGED table
      BY <1>1, <2>1 DEF Start, ReadsTheTable
    <3>2. IsComplete(table) /\ CheckedToday(table, checkedAt'[p])
      BY <1>5, <2>1, <3>1 DEF Start, UseOrElse, Goto
    <3>3. \A c \in Currency : /\ table'[c] # NoRate
                              /\ table'[c].checked = checkedAt'[q]
      BY <1>5, <3>1, <3>2 DEF IsComplete, CheckedToday
    <3> QED
      BY <1>2, <3>3 DEF LeavesRates
  <2>2. CASE Recheck(p)
    <3>1. \A c \in Currency : Reread(p)[c] = table[c]
      BY <1>1, <2>2 DEF Recheck, ReadsTheTable, Running, Idle, Over, Reread
    <3>2. CASE Goto(p, "fetch")
      BY <1>3, <1>5, <2>2, <3>2 DEF Goto, Recheck
    <3>3. CASE IsComplete(Reread(p)) /\ CheckedToday(Reread(p), checkedAt'[p])
      <4>1. UNCHANGED table
        BY <2>2 DEF Recheck
      <4> QED
        BY <1>2, <1>5, <3>1, <3>3, <4>1
           DEF LeavesRates, IsComplete, CheckedToday, Rate
    <3> QED
      BY <2>2, <3>2, <3>3 DEF Recheck, UseOrElse
  <2> QED
    BY <1>5, <2>1, <2>2
<1>6. CASE q = p /\ pc[p] \in {"commit", "mark"}
  <2>1. UNCHANGED checkedAt
    BY <1>6, StepIsOfOne DEF TurnInv
  <2>2. CASE /\ pc[p] = "commit"
             /\ \A c \in Currency :
                   NewRate(p, c) \in Rate /\ table'[c] = NewRate(p, c)
    <3>1. ASSUME NEW c \in Currency
          PROVE  table'[c] # NoRate /\ table'[c].checked = checkedAt[p]
      <4>1. table'[c] \in Rate /\ table'[c] = NewRate(p, c)
        BY <2>2
      <4> QED
        BY <4>1, TableAssumption DEF NewRate
    <3> QED
      BY <1>2, <1>6, <2>1, <3>1 DEF LeavesRates
  <2>3. CASE /\ pc[p] = "mark"
             /\ \A c \in Currency :
                   /\ table[c] \in Rate
                   /\ table'[c] = [table[c] EXCEPT !.checked = checkedAt[p]]
    <3>1. \A c \in Currency : /\ table'[c] \in Rate
                              /\ table'[c].checked = checkedAt[p]
      BY <1>2, <1>6, <2>3 DEF Rate
    <3> QED
      BY <1>2, <1>6, <2>1, <3>1, TableAssumption DEF LeavesRates
  <2>4. CASE outcome'[p] \in {outcome[p], "none"}
    BY <1>3, <1>4, <1>6, <2>1, <2>4
  <2> QED
    BY <1>1, <1>6, <2>2, <2>3, <2>4, AloneWrites
<1>7. CASE q = p /\ pc[p] \notin {"commit", "mark"}
  <2>1. \/ Start(p) \/ Recheck(p)
        \/ UNCHANGED checkedAt /\ outcome'[p] \in {outcome[p], "none"}
    BY <1>7 DEF StepOf, Check, Fetch, FetchFails, SaveUSD, SaveCNY, Save,
       WarmUp, WarmUpFails, Stop, Commit, MarkChecked, DatabaseFails, Goto,
       EndCheck, TurnInv, CacheInv, TypeOK
  <2>2. CASE Start(p) \/ Recheck(p)
    <3>1. outcome'[p] \in {"cached", outcome[p]}
      BY <2>2 DEF Start, Recheck, UseOrElse, EndCheck, Goto, TurnInv, CacheInv, TypeOK
    <3>2. CASE outcome'[p] = "cached"
      BY <1>5, <1>7, <2>2, <3>2
    <3>3. CASE outcome'[p] = outcome[p] /\ Start(p)
      BY <1>1, <1>4, <1>7, <3>3 DEF Start, ReadsTheTable
    <3>4. CASE outcome'[p] = outcome[p] /\ Recheck(p)
      BY <1>3, <1>7, <3>4 DEF Recheck
    <3> QED
      BY <2>2, <3>1, <3>2, <3>3, <3>4
  <2> QED
    BY <1>3, <1>4, <1>7, <2>1, <2>2
<1>8. CASE q # p
  BY <1>3, <1>8, StepIsOfOne DEF TurnInv
<1> QED
  BY <1>6, <1>7, <1>8

\* Both rates of a publication are written together, and a checked rate stays
\* the rate it was.
LEMMA StepKeepsOnePublication ==
    ASSUME TurnInv, NEW p \in Process, StepOf(p), CacheInv'
    PROVE  OnePublication'
<1> SUFFICES ASSUME IsComplete(table)', InTurn'
             PROVE  \/ \E n \in 1 .. news : \A c \in Currency :
                          /\ table'[c].rate = RateOf[c][n]
                          /\ table'[c].date = DateOf[n]
                    \/ /\ IsComplete(InitTable)
                       /\ \A c \in Currency :
                             /\ table'[c].rate = InitTable[c].rate
                             /\ table'[c].date = InitTable[c].date
  BY StepIsOfOne DEF OnePublication, TurnInv, world
<1>1. InTurn
  BY AloneInTurn
<1>2. CASE UNCHANGED table
  BY <1>1, <1>2 DEF TurnInv, OnePublication, IsComplete
<1>3. CASE /\ pc[p] = "commit"
           /\ \A c \in Currency :
                 NewRate(p, c) \in Rate /\ table'[c] = NewRate(p, c)
  <2>1. fetched[p] \in 1 .. news
    BY <1>3 DEF TurnInv, CacheInv, StartedWell
  <2>2. ASSUME NEW c \in Currency
        PROVE  /\ table'[c].rate = RateOf[c][fetched[p]]
               /\ table'[c].date = DateOf[fetched[p]]
    <3>1. table'[c] = NewRate(p, c)
      BY <1>3
    <3> QED
      BY <3>1 DEF NewRate
  <2> QED
    BY <2>1, <2>2
<1>4. CASE /\ pc[p] = "mark"
           /\ \A c \in Currency :
                 /\ table[c] \in Rate
                 /\ table'[c] = [table[c] EXCEPT !.checked = checkedAt[p]]
  <2>1. \A c \in Currency : /\ table[c] # NoRate
                            /\ table'[c].rate = table[c].rate
                            /\ table'[c].date = table[c].date
    BY <1>4, TableAssumption DEF Rate
  <2> QED
    BY <1>1, <2>1 DEF TurnInv, OnePublication, IsComplete
<1> QED
  BY <1>1, <1>2, <1>3, <1>4, AloneWrites

\* A process that starts on a day on which an earlier one got rates finds
\* them checked, and its start is all it does.
LEMMA StepKeepsCheckedOnceADay ==
    ASSUME TurnInv, NEW p \in Process, StepOf(p), CacheInv'
    PROVE  CheckedOnceADay'
<1> SUFFICES ASSUME InTurn', NEW r \in Process, NEW q \in gone'[r],
                    outcome'[q] \in {"cached", "fresh", "stale"},
                    pc'[r] # "off", checkedAt'[r] = checkedAt'[q]
             PROVE  /\ outcome'[r] \in {"", "cached"} /\ fetched'[r] = 0
                    /\ pc'[r] \in {"warmup", "up"} \cup Over
  BY DEF CheckedOnceADay
<1>1. /\ InTurn /\ NotAhead /\ q \in Process
      /\ \A x \in Process : ReadsTheTable(x) /\ LeavesRates(x)
  BY AloneInTurn DEF TurnInv, CacheInv, TypeOK
<1>2. /\ pc[p] \notin Over
      /\ pc[p] # "off" => UNCHANGED <<gone, checkedAt>>
      /\ \A x \in Process : x # p =>
            /\ pc'[x] = pc[x] /\ checkedAt'[x] = checkedAt[x]
            /\ fetched'[x] = fetched[x] /\ outcome'[x] = outcome[x]
            /\ gone'[x] = gone[x]
  BY StepIsOfOne DEF TurnInv
<1>3. CASE r # p
  <2>1. q \in gone[r] /\ pc[q] \in Over /\ q # p
    BY <1>2, <1>3 DEF TurnInv, GoneStayGone
  <2> QED
    BY <1>1, <1>2, <1>3, <2>1 DEF TurnInv, CheckedOnceADay
<1>4. CASE r = p /\ pc[p] # "off"
  <2>1. q \in gone[p] /\ pc[q] \in Over /\ q # p
    BY <1>2, <1>4 DEF TurnInv, GoneStayGone
  <2>2. /\ outcome[p] \in {"", "cached"} /\ fetched[p] = 0
        /\ pc[p] \in {"warmup", "up"}
    BY <1>1, <1>2, <1>4, <2>1 DEF TurnInv, CheckedOnceADay
  <2>3. WarmUp(p) \/ WarmUpFails(p) \/ Stop(p)
    BY <2>2 DEF StepOf, Start, Check, Recheck, Fetch, FetchFails, SaveUSD,
       SaveCNY, Save, Commit, MarkChecked, DatabaseFails
  <2> QED
    BY <1>4, <2>2, <2>3 DEF WarmUp, WarmUpFails, Stop, Goto, Over, TurnInv,
       CacheInv, TypeOK
<1>5. CASE r = p /\ pc[p] = "off"
  <2>1. Start(p)
    BY <1>5 DEF StepOf, Check, WarmUp, WarmUpFails, Stop, Recheck, Fetch,
       FetchFails, SaveUSD, SaveCNY, Save, Commit, MarkChecked, DatabaseFails
  <2>2. /\ pc[q] \in Over /\ q # p
        /\ checkedAt'[p] = today /\ checkedAt[q] = today
        /\ outcome[q] \in {"cached", "fresh", "stale"}
    BY <1>1, <1>2, <1>5, <2>1 DEF Start, TurnInv, CacheInv, TypeOK
  <2>3. ASSUME NEW c \in Currency
        PROVE  table[c] # NoRate /\ table[c].checked = today
    <3>1. /\ table[c] # NoRate /\ table[c].checked >= today
          /\ table[c].checked <= today
      BY <1>1, <2>2 DEF LeavesRates, NotAhead
    <3>2. table[c] \in Rate /\ today \in Nat
      BY <3>1, ClocksAreNumbers DEF TurnInv, CacheInv, TypeOK
    <3> QED
      BY <3>1, <3>2 DEF Rate
  <2>4. EndCheck(p, "cached") /\ UNCHANGED fetched
    BY <2>1, <2>2, <2>3 DEF Start, UseOrElse, IsComplete, CheckedToday
  <2> QED
    BY <1>5, <2>4 DEF EndCheck, TurnInv, CacheInv, TypeOK, StartedWell
<1> QED
  BY <1>3, <1>4, <1>5

\* So a step of a process keeps the invariant.
LEMMA StepKeepsTurnInv ==
    ASSUME TurnInv, NEW p \in Process, StepOf(p) PROVE TurnInv'
<1>1. CacheInv'
  BY NextKeepsCacheInv DEF Next, StepOf, TurnInv
<1>2. GoneStayGone' /\ OnePublication' /\ CheckedOnceADay'
  BY <1>1, StepKeepsGone, StepKeepsOnePublication, StepKeepsCheckedOnceADay
<1>3. ASSUME InTurn'
      PROVE  NotAhead' /\ \A q \in Process : (ReadsTheTable(q) /\ LeavesRates(q))'
  BY <1>1, <1>3, StepIsNotAhead, StepReadsTheTable, StepLeavesRates
<1> QED
  BY <1>1, <1>2, <1>3 DEF TurnInv

\* Days and publications only make what is stored older.
LEMMA WorldKeepsTurnInv ==
    ASSUME TurnInv, DayPasses \/ Publish PROVE TurnInv'
<1>1. CacheInv'
  BY WorldKeepsCacheInv DEF TurnInv
<1>2. UNCHANGED <<table, pc, loaded, checkedAt, fetched, outcome, gone>>
  BY DEF DayPasses, Publish
<1>3. /\ today \in Nat /\ today' \in Nat /\ today <= today'
      /\ news \in Publication /\ news' \in Publication /\ news <= news'
  <2>1. today \in 1 .. MaxDay /\ news \in 1 .. MaxPublication
    BY DEF TurnInv, CacheInv, TypeOK, Day, Publication
  <2>2. news' \in Publication
    BY <1>1 DEF CacheInv, TypeOK
  <2> QED
    BY <2>1, <2>2, ProcessAssumption, ProviderAssumption
       DEF DayPasses, Publish, Publication
<1>4. GoneStayGone' /\ CheckedOnceADay' /\ (InTurn' => InTurn)
  BY <1>2 DEF TurnInv, GoneStayGone, CheckedOnceADay, InTurn
<1>5. OnePublication'
  <2>1. 1 .. news \subseteq 1 .. news'
    BY <1>3, ProviderAssumption DEF Publication
  <2> QED
    BY <1>2, <1>4, <2>1 DEF TurnInv, OnePublication, IsComplete
<1>6. ASSUME InTurn
      PROVE  NotAhead' /\ \A p \in Process : (ReadsTheTable(p) /\ LeavesRates(p))'
  <2>1. ASSUME NEW c \in Currency, table[c] # NoRate
        PROVE  table[c].date <= DateOf[news'] /\ table[c].checked <= today'
    <3>1. table[c].date <= DateOf[news] /\ table[c].checked <= today
      BY <1>6, <2>1 DEF TurnInv, NotAhead
    <3>2. /\ DateOf[news] <= DateOf[news']
          /\ DateOf[news] \in Nat /\ DateOf[news'] \in Nat
      BY <1>3, ProviderAssumption
    <3>3. table[c] \in Rate
      BY <2>1 DEF TurnInv, CacheInv, TypeOK
    <3> QED
      BY <1>3, <3>1, <3>2, <3>3 DEF Rate
  <2>2. ASSUME NEW p \in Process PROVE (ReadsTheTable(p) /\ LeavesRates(p))'
    <3>1. ReadsTheTable(p) /\ LeavesRates(p) /\ checkedAt[p] \in Nat
      BY <1>6, ClocksAreNumbers DEF TurnInv
    <3>2. checkedAt[p] <= today => checkedAt[p] <= today'
      BY <1>3, <3>1
    <3> QED
      BY <1>2, <3>1, <3>2 DEF ReadsTheTable, LeavesRates, Running
  <2> QED
    BY <1>2, <2>1, <2>2 DEF NotAhead
<1> QED
  BY <1>1, <1>4, <1>5, <1>6 DEF TurnInv

\* And so does every step.
LEMMA NextKeepsTurnInv == TurnInv /\ [Next]_vars => TurnInv'
<1> SUFFICES ASSUME TurnInv, [Next]_vars PROVE TurnInv'
  OBVIOUS
<1>1. ASSUME NEW p \in Process, StepOf(p) PROVE TurnInv'
  BY <1>1, StepKeepsTurnInv
<1>2. CASE DayPasses \/ Publish
  BY <1>2, WorldKeepsTurnInv
<1>3. CASE UNCHANGED vars
  <2>1. CacheInv'
    BY <1>3, NextKeepsCacheInv DEF TurnInv
  <2> QED
    BY <1>3, <2>1 DEF vars, world, TurnInv, GoneStayGone, OnePublication,
       IsComplete, CheckedOnceADay, InTurn, NotAhead, ReadsTheTable,
       LeavesRates, Running
<1> QED
  BY <1>1, <1>2, <1>3 DEF Next, StepOf

\* Hence it always holds.
LEMMA TurnInvariance == Spec => []TurnInv
BY InitHasTurnInv, NextKeepsTurnInv, PTL DEF Spec

\* While processes do not overlap, the stored rates and their dates are those
\* of one publication, or those the first process found: no column-wise UPDATE
\* leaves half of an older pair (ExchangeRateRepository.save, mark_checked).
THEOREM RatesOfOnePublication == Spec => []OnePublication
<1>1. TurnInv => OnePublication
  BY DEF TurnInv
<1> QED
  BY <1>1, TurnInvariance, PTL

\* While processes do not overlap, a start on a day on which an earlier one
\* got rates asks the provider nothing, though the provider may have failed or
\* an answer of the database may have been lost (ensure_current).
THEOREM OneCheckADay == Spec => []CheckedOnceADay
<1>1. TurnInv => CheckedOnceADay
  BY DEF TurnInv
<1> QED
  BY <1>1, TurnInvariance, PTL

\* While processes do not overlap, no step replaces a rate by an older one or
\* forgets that it was checked, wherever the processes were killed.
THEOREM RatesOnlyGoForward == Spec => RatesDoNotGoBack
<1> DEFINE Forward ==
       \A c \in Currency : table[c] # NoRate /\ InTurn =>
          /\ table'[c] # NoRate
          /\ table'[c].date >= table[c].date
          /\ table'[c].checked >= table[c].checked
<1>1. TurnInv /\ [Next]_vars => [Forward]_table
  <2> SUFFICES ASSUME TurnInv, [Next]_vars, ~UNCHANGED table PROVE Forward
    OBVIOUS
  <2>1. PICK p \in Process : StepOf(p)
    BY DEF Next, StepOf, DayPasses, Publish, vars
  <2> QED
    BY <2>1, TableMovesOn
<1> QED
  BY <1>1, TurnInvariance, PTL DEF Spec, RatesDoNotGoBack
=============================================================================
