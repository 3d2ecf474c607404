---------------------------- MODULE ExchangeRates ----------------------------
(***************************************************************************)
(* The cache of the KRW/USD and KRW/CNY exchange rates. A process checks   *)
(* it once, when it starts: it reads the table, asks the provider unless   *)
(* both rows were checked today, and goes on whatever happened. A process  *)
(* that recognizes with OpenCLIP loads the model then, and serves requests *)
(* only if that succeeds. Processes are killed and restarted, and a new    *)
(* one may start while an old one still runs. The service's lock is local  *)
(* to a process, which makes one check, so nobody ever waits for it.       *)
(***************************************************************************)
EXTENDS Naturals, Columns

CONSTANTS
    Process,        \* starts of the server, numbered in their order
    OpenCLIP,       \* those whose recognition_provider is "openclip"
    MaxDay,         \* bound on the passing days
    MaxPublication, \* bound on the provider's publications, 1 is the first
    RateOf,         \* RateOf[c][n]: the rate of c in publication n
    DateOf,         \* DateOf[n]: the rate date of publication n
    Storable,       \* the rates NUMERIC(20, 12) holds as a positive number
    InitTable,      \* the table before the first start
    NoRate          \* no row for this currency

Currency == {"USD", "CNY"}

Day == 1 .. MaxDay

Publication == 1 .. MaxPublication

Rate == [rate : Storable, date : Nat, checked : Nat]

ASSUME ProcessAssumption ==
    /\ Process \subseteq Nat
    /\ OpenCLIP \subseteq Process
    /\ MaxDay \in Nat \ {0}

ASSUME ProviderAssumption ==
    /\ MaxPublication \in Nat \ {0}
    /\ RateOf \in [Currency -> [Publication -> Nat]]
    /\ DateOf \in [Publication -> Nat]
    /\ \A m, n \in Publication : m <= n => DateOf[m] <= DateOf[n]
    /\ Storable \subseteq Nat

ASSUME TableAssumption ==
    /\ NoRate \notin Rate
    /\ InitTable \in [Currency -> Rate \cup {NoRate}]
    /\ (InitTable["USD"] = NoRate) <=> (InitTable["CNY"] = NoRate)
    /\ \A c \in Currency : InitTable[c] # NoRate =>
          InitTable[c].date <= DateOf[1] /\ InitTable[c].checked <= 1

VARIABLES
    today,      \* the UTC date
    news,       \* the provider's latest publication
    table,      \* currency_rates, by target currency
    pc,         \* where the start of a process is
    loaded,     \* the rows its ORM session holds, as read
    checkedAt,  \* the date it took when it began its check, 0 before
    fetched,    \* the publication the provider gave it, 0 before
    outcome,    \* how its check ended, "" before
    gone        \* the processes that were over when it started

world == <<today, news>>
vars  == <<world, table, pc, loaded, checkedAt, fetched, outcome, gone>>

\* The steps of the check.
Checking == {"recheck", "fetch", "saveUSD", "saveCNY", "commit", "mark"}

\* A process that was stopped, or whose start-up raised an error.
Over == {"gone", "aborted"}

Step == {"off", "warmup", "up"} \cup Checking \cup Over

Outcome == {"", "cached", "fresh", "stale", "none"}

\* An ORM session that holds no rows.
Nothing == [c \in Currency |-> NoRate]

TypeOK ==
    /\ today \in Day
    /\ news \in Publication
    /\ table \in [Currency -> Rate \cup {NoRate}]
    /\ pc \in [Process -> Step]
    /\ loaded \in [Process -> [Currency -> Rate \cup {NoRate}]]
    /\ checkedAt \in [Process -> Day \cup {0}]
    /\ fetched \in [Process -> Publication \cup {0}]
    /\ outcome \in [Process -> Outcome]
    /\ gone \in [Process -> SUBSET Process]

Init ==
    /\ today = 1
    /\ news = 1
    /\ table = InitTable
    /\ pc = [p \in Process |-> "off"]
    /\ loaded = [p \in Process |-> Nothing]
    /\ checkedAt = [p \in Process |-> 0]
    /\ fetched = [p \in Process |-> 0]
    /\ outcome = [p \in Process |-> ""]
    /\ gone = [p \in Process |-> {}]

-----------------------------------------------------------------------------

Goto(p, step) ==
    /\ pc' = [pc EXCEPT ![p] = step]
    /\ UNCHANGED outcome

\* The check is over, with rates or with an error that is logged and
\* swallowed: its ORM session closes and the start-up goes on.
EndCheck(p, how) ==
    /\ pc' = [pc EXCEPT ![p] = IF p \in OpenCLIP THEN "warmup" ELSE "up"]
    /\ loaded' = [loaded EXCEPT ![p] = Nothing]
    /\ outcome' = [outcome EXCEPT ![p] = how]

IsComplete(rates) == \A c \in Currency : rates[c] # NoRate

CheckedToday(rates, day) == \A c \in Currency : rates[c].checked = day

\* A repeated query returns the objects the ORM session holds already as they
\* were first read, and new objects for rows that have appeared.
Reread(p) ==
    [c \in Currency |-> IF loaded[p][c] = NoRate THEN table[c]
                                                 ELSE loaded[p][c]]

UseOrElse(p, rates, step) ==
    IF IsComplete(rates) /\ CheckedToday(rates, checkedAt'[p])
    THEN EndCheck(p, "cached")
    ELSE Goto(p, step) /\ loaded' = [loaded EXCEPT ![p] = rates]

Start(p) ==
    /\ pc[p] = "off"
    /\ \A q \in Process : q < p => pc[q] # "off"
    /\ gone' = [gone EXCEPT ![p] = {q \in Process : pc[q] \in Over}]
    /\ checkedAt' = [checkedAt EXCEPT ![p] = today]
    /\ UseOrElse(p, table, "recheck")
    /\ UNCHANGED <<world, table, fetched>>

Recheck(p) ==
    /\ pc[p] = "recheck"
    /\ UNCHANGED checkedAt
    /\ UseOrElse(p, Reread(p), "fetch")
    /\ UNCHANGED <<world, table, fetched, gone>>

Fetch(p) ==
    /\ pc[p] = "fetch"
    /\ fetched' = [fetched EXCEPT ![p] = news]
    /\ Goto(p, "saveUSD")
    /\ UNCHANGED <<world, table, loaded, checkedAt, gone>>

\* A plausible bug: the check is repeated until the provider answers.
FetchRetried(p) ==
    /\ pc[p] = "fetch"
    /\ IF IsComplete(loaded[p]) THEN Goto(p, "mark") ELSE Goto(p, "recheck")
    /\ UNCHANGED <<world, table, loaded, checkedAt, fetched, gone>>

FetchFails(p) ==
    /\ pc[p] = "fetch"
    /\ IF IsComplete(loaded[p]) THEN Goto(p, "mark") /\ UNCHANGED loaded
       ELSE EndCheck(p, "none")
    /\ UNCHANGED <<world, table, checkedAt, fetched, gone>>

\* save() looks for the row of its currency; the SELECT runs only if the row
\* is not in the ORM session.
Save(p, c, here, next) ==
    /\ pc[p] = here
    /\ loaded' = [loaded EXCEPT ![p][c] = Reread(p)[c]]
    /\ Goto(p, next)
    /\ UNCHANGED <<world, table, checkedAt, fetched, gone>>

SaveUSD(p) == Save(p, "USD", "saveUSD", "saveCNY")

SaveCNY(p) == Save(p, "CNY", "saveCNY", "commit")

\* A plausible bug: a rate that did not move is not saved, date included.
NewRateUnlessMoved(p, c) ==
    IF loaded[p][c] # NoRate /\ loaded[p][c].rate = RateOf[c][fetched[p]]
    THEN [loaded[p][c] EXCEPT !.checked = checkedAt[p]]
    ELSE [rate |-> RateOf[c][fetched[p]], date |-> DateOf[fetched[p]],
          checked |-> checkedAt[p]]

NewRate(p, c) ==
    [rate |-> RateOf[c][fetched[p]], date |-> DateOf[fetched[p]],
     checked |-> checkedAt[p]]

\* A plausible bug: the date of the check is left as it was.
MarkedUnchecked(p, c) == loaded[p][c]

\* A plausible bug: the date is cleared so that the next start tries again.
MarkedCleared(p, c) == [loaded[p][c] EXCEPT !.checked = 0]

Marked(p, c) == [loaded[p][c] EXCEPT !.checked = checkedAt[p]]

Written(p, c, new) ==
    IF loaded[p][c] = NoRate THEN new ELSE PatchRow(table[c], loaded[p][c], new)

\* A plausible bug: the column takes any rate.
RefusedDuplicates(p) ==
    \E c \in Currency : loaded[p][c] = NoRate /\ table[c] # NoRate

\* The INSERT of a row another process has inserted, or a rate the column
\* does not hold.
Refused(p) ==
    \E c \in Currency : \/ loaded[p][c] = NoRate /\ table[c] # NoRate
                        \/ RateOf[c][fetched[p]] \notin Storable

\* A plausible bug: each rate is committed by itself, until one is refused.
CommitEach(p) ==
    /\ pc[p] = "commit"
    /\ table' = [c \in Currency |->
                   IF RateOf[c][fetched[p]] \in Storable
                   THEN Written(p, c, NewRate(p, c)) ELSE table[c]]
    /\ EndCheck(p, IF Refused(p) THEN "none" ELSE "fresh")
    /\ UNCHANGED <<world, checkedAt, fetched, gone>>

\* The flush and the commit of both rows. The process may not learn of
\* it: the connection can break after the commit.
Commit(p) ==
    /\ pc[p] = "commit"
    /\ \/ /\ Refused(p)
          /\ EndCheck(p, "none")
          /\ UNCHANGED table
       \/ /\ ~Refused(p)
          /\ table' = [c \in Currency |-> Written(p, c, NewRate(p, c))]
          /\ \E how \in {"fresh", "none"} : EndCheck(p, how)
    /\ UNCHANGED <<world, checkedAt, fetched, gone>>

MarkChecked(p) ==
    /\ pc[p] = "mark"
    /\ table' = [c \in Currency |-> PatchRow(table[c], loaded[p][c], Marked(p, c))]
    /\ \E how \in {"stale", "none"} : EndCheck(p, how)
    /\ UNCHANGED <<world, checkedAt, fetched, gone>>

\* Any statement may fail before it takes effect.
DatabaseFails(p) ==
    /\ pc[p] \in {"recheck", "saveUSD", "saveCNY", "commit", "mark"}
    /\ EndCheck(p, "none")
    /\ UNCHANGED <<world, table, checkedAt, fetched, gone>>

\* The model of the OpenCLIP embedder is loaded, and the server comes up.
WarmUp(p) ==
    /\ pc[p] = "warmup"
    /\ Goto(p, "up")
    /\ UNCHANGED <<world, table, loaded, checkedAt, fetched, gone>>

\* Its dependencies are not installed, or the model cannot be loaded: nothing
\* catches the error, and the server does not come up.
WarmUpFails(p) ==
    /\ pc[p] = "warmup"
    /\ Goto(p, "aborted")
    /\ UNCHANGED <<world, table, loaded, checkedAt, fetched, gone>>

\* The process is stopped or killed; what it has not committed is lost.
Stop(p) ==
    /\ pc[p] \notin {"off"} \cup Over
    /\ pc' = [pc EXCEPT ![p] = "gone"]
    /\ loaded' = [loaded EXCEPT ![p] = Nothing]
    /\ UNCHANGED <<world, table, checkedAt, fetched, outcome, gone>>

DayPasses ==
    /\ today < MaxDay
    /\ today' = today + 1
    /\ UNCHANGED <<news, table, pc, loaded, checkedAt, fetched, outcome, gone>>

Publish ==
    /\ news < MaxPublication
    /\ news' = news + 1
    /\ UNCHANGED <<today, table, pc, loaded, checkedAt, fetched, outcome, gone>>

Check(p) ==
    \/ Recheck(p) \/ Fetch(p) \/ FetchFails(p) \/ SaveUSD(p) \/ SaveCNY(p)
    \/ Commit(p) \/ MarkChecked(p) \/ DatabaseFails(p)

Next ==
    \/ \E p \in Process :
          Start(p) \/ Check(p) \/ WarmUp(p) \/ WarmUpFails(p) \/ Stop(p)
    \/ DayPasses
    \/ Publish

Spec == Init /\ [][Next]_vars

(* A check that has begun goes on: the provider answers or times out, and  *)
(* the database answers or fails. Nothing says that the model is loaded.   *)
FairSpec == Spec /\ \A p \in Process : WF_vars(Check(p))

-----------------------------------------------------------------------------
(* Correctness. *)

\* The table holds both rates or none, however processes overlap and
\* wherever they are killed: the two rows share a transaction.
BothOrNeither == (table["USD"] = NoRate) <=> (table["CNY"] = NoRate)

\* No process has started while another one ran.
InTurn ==
    \A p, q \in Process :
        p = q \/ "off" \in {pc[p], pc[q]} \/ p \in gone[q] \/ q \in gone[p]

\* While processes do not overlap, the two rates and their dates are those of
\* one publication or those of the first table: a column-wise UPDATE never
\* leaves half of an older pair.
OnePublication ==
    IsComplete(table) /\ InTurn =>
      \/ \E n \in 1 .. news :
            \A c \in Currency : /\ table[c].rate = RateOf[c][n]
                                /\ table[c].date = DateOf[n]
      \/ /\ IsComplete(InitTable)
         /\ \A c \in Currency : /\ table[c].rate = InitTable[c].rate
                                /\ table[c].date = InitTable[c].date

\* A process that starts on a day on which an earlier one got rates asks the
\* provider nothing and writes nothing, even if the provider was down, while
\* processes do not overlap.
CheckedOnceADay ==
    InTurn => \A p \in Process :
        \A q \in gone[p] :
            /\ outcome[q] \in {"cached", "fresh", "stale"}
            /\ pc[p] # "off"
            /\ checkedAt[p] = checkedAt[q]
            => outcome[p] \in {"", "cached"} /\ fetched[p] = 0
                 /\ pc[p] \in {"warmup", "up"} \cup Over

\* While processes do not overlap, a rate is never replaced by an older one.
RatesDoNotGoBack ==
    [][\A c \in Currency : table[c] # NoRate /\ InTurn =>
          /\ table'[c] # NoRate
          /\ table'[c].date >= table[c].date
          /\ table'[c].checked >= table[c].checked]_table

\* The check of the rates keeps no server down: whatever the provider and the
\* database do, a process gets past it unless it is killed. Whether it then
\* loads its model is another matter: an error there is not caught.
RatesKeepNoServerDown ==
    \A p \in Process : pc[p] \in Checking ~> pc[p] \in {"warmup", "up", "gone"}
=============================================================================
