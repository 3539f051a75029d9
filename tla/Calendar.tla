------------------------------ MODULE Calendar ------------------------------
(***************************************************************************)
(* The dates of dbgen (bm_utils.c: julian, unjulian, mk_ascdate; build.c:  *)
(* mk_time).                                                               *)
(*                                                                         *)
(* A date has three forms: a number of days counted from STARTDATE, which  *)
(* arithmetic uses and which runs past the end of a year (92001 + 400); a  *)
(* Julian date yyddd, which julian makes of it; and the date printed, here *)
(* <<year, month, day>>.                                                   *)
(***************************************************************************)
EXTENDS Integers

STARTDATE   == 92001
CURRENTDATE == 95168
TOTDATE     == 2557

LEAP(y) == IF y % 4 = 0 /\ y % 100 # 0 THEN 1 ELSE 0

\* Faulty variant: the extra day counts from March.
LEAP_ADJ_March(y, m) == IF LEAP(y) = 1 /\ m > 2 THEN 1 ELSE 0
LEAP_ADJ(y, m) == IF LEAP(y) = 1 /\ m >= 2 THEN 1 ELSE 0

\* months[m].dcnt: days up to the end of month m.
dcnt == [m \in 0..12 |->
           <<0, 31, 59, 90, 120, 151, 181, 212, 243, 273, 304, 334, 365>>[m + 1]]

StartYear == STARTDATE \div 1000

\* julian's loop: what is left of the days after n passes, each to the next year; it ends with
\* the first year that the rest is in.
julian(date) ==
  LET offset[n \in Nat] == IF n = 0 THEN date - STARTDATE
                           ELSE offset[n - 1] - (365 + LEAP(StartYear + n - 1))
      Within(n) == 1 + offset[n] <= 365 + LEAP(StartYear + n)
      passes == CHOOSE n \in 0..100 : Within(n) /\ \A k \in 0..(n - 1) : ~Within(k)
  IN  (StartYear + passes) * 1000 + 1 + offset[passes]

\* unjulian, which adds the years up: the inverse.
YearsBefore[n \in Nat] == IF n = 0 THEN 0 ELSE YearsBefore[n - 1] + 365 + LEAP(StartYear + n - 1)
unjulian(date) == YearsBefore[(date \div 1000) - StartYear] + (date % 1000) - 1

\* mk_time: the first month that ends on the day of the year or after it.
MonthOf(y, d) ==
  CHOOSE m \in 1..12 : /\ d <= dcnt[m] + LEAP_ADJ(y, m)
                       /\ \A n \in 0..(m - 1) : d > dcnt[n] + LEAP_ADJ(y, n)

\* Entry i of mk_ascdate's array is mk_time(i + 1).
mk_time(index) ==
  LET j == julian(index + STARTDATE - 1)
      y == j \div 1000
      d == j % 1000
      m == MonthOf(y, d)
  IN  <<y, m, d - dcnt[m - 1] - (IF LEAP(y) = 1 /\ m > 2 THEN 1 ELSE 0)>>

asc_date == [i \in 0..(TOTDATE - 1) |-> mk_time(i + 1)]

-----------------------------------------------------------------------------
\* The reference: the calendar that goes from one day to the next.
DaysIn(y, m) == IF m = 2 THEN 28 + LEAP(y) ELSE IF m \in {4, 6, 9, 11} THEN 30 ELSE 31

DayAfter(date) ==
  LET y == date[1]
      m == date[2]
  IN  CASE date[3] < DaysIn(y, m) -> <<y, m, date[3] + 1>>
        [] date[3] = DaysIn(y, m) /\ m < 12 -> <<y, m + 1, 1>>
        [] OTHER -> <<y + 1, 1, 1>>

Before(a, b) == \/ a[1] < b[1]
                \/ a[1] = b[1] /\ a[2] < b[2]
                \/ a[1] = b[1] /\ a[2] = b[2] /\ a[3] < b[3]
=============================================================================
