------------------------------- MODULE Dates -------------------------------
(***************************************************************************)
(* Calendar instants in UTC and the three months within which goods have   *)
(* to leave the country.                                                   *)
(***************************************************************************)
EXTENDS Naturals

Leap(year) == (year % 4 = 0 /\ year % 100 # 0) \/ year % 400 = 0

DaysIn(year, month) ==
    IF month = 2 THEN IF Leap(year) THEN 29 ELSE 28
    ELSE IF month \in {4, 6, 9, 11} THEN 30 ELSE 31

Date == {d \in [year : Nat, month : 1 .. 12, day : 1 .. 31, time : Nat] :
            d.day <= DaysIn(d.year, d.month)}

\* a is on a later day than b.
LaterDay(a, b) ==
    \/ a.year > b.year
    \/ a.year = b.year /\ a.month > b.month
    \/ a.year = b.year /\ a.month = b.month /\ a.day > b.day

\* a is later than b.
Later(a, b) ==
    \/ LaterDay(a, b)
    \/ /\ a.year = b.year /\ a.month = b.month /\ a.day = b.day
       /\ a.time > b.time

\* A plausible bug: the day runs over into the month after, as it does when
\* a date is normalised.
AddMonthsOverflowing(d, months) ==
    LET index == d.month - 1 + months
        year  == d.year + index \div 12
        month == (index % 12) + 1
        days  == DaysIn(year, month)
    IN  IF d.day <= days
        THEN [year |-> year, month |-> month, day |-> d.day, time |-> d.time]
        ELSE [year |-> year + month \div 12, month |-> (month % 12) + 1,
              day |-> d.day - days, time |-> d.time]

\* The same day some months later, or the last day of that month.
AddMonths(d, months) ==
    LET index == d.month - 1 + months
        year  == d.year + index \div 12
        month == (index % 12) + 1
        days  == DaysIn(year, month)
    IN  [year |-> year, month |-> month,
         day |-> IF days < d.day THEN days ELSE d.day, time |-> d.time]

ExportDeadlineMonths == 3

ExceedsExportDeadline(purchased, departs) ==
    Later(departs, AddMonths(purchased, ExportDeadlineMonths))
=============================================================================
