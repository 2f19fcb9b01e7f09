-------------------------------- MODULE Rfc3339 --------------------------------
(***************************************************************************)
(* The timestamps of payment challenges (chrono_lite of mpp.rs), which the *)
(* sidecar writes, reads and compares without a calendar library.          *)
(*                                                                         *)
(* TLC's integers have 32 bits: an instant of Unix time is a day and the   *)
(* second of that day.  A timestamp is the numbers its text shows; with    *)
(* four digits for the year, texts compare as these tuples do, so nothing  *)
(* here reaches the year 10000.                                            *)
(***************************************************************************)
EXTENDS Naturals, Sequences

SecondsPerDay == 86400

Unreadable == <<>>

IsLeap(year) == (year % 4 = 0 /\ year % 100 # 0) \/ year % 400 = 0

DaysInMonth(year, month) ==
  CASE month \in {1, 3, 5, 7, 8, 10, 12} -> 31
    [] month \in {4, 6, 9, 11} -> 30
    [] OTHER -> IF IsLeap(year) THEN 29 ELSE 28

YearLength(year) == IF IsLeap(year) THEN 366 ELSE 365

\* format(): the year, then the month, that the days counted from its start fall into.
YearFrom[year \in Nat, days \in Nat] ==
  IF days < YearLength(year) THEN <<year, days>>
  ELSE YearFrom[year + 1, days - YearLength(year)]

MonthFrom[year \in Nat, month \in 1..12, days \in Nat] ==
  IF days < DaysInMonth(year, month) THEN <<month, days>>
  ELSE MonthFrom[year, month + 1, days - DaysInMonth(year, month)]

Format(instant) ==
  LET y == YearFrom[1970, instant[1]]
      m == MonthFrom[y[1], 1, y[2]]
      s == instant[2]
  IN <<y[1], m[1], m[2] + 1, s \div 3600, (s % 3600) \div 60, s % 60>>

\* parse(): the days of whole years, then those of whole months.
DaysBeforeYear[year \in Nat] ==
  IF year <= 1970 THEN 0 ELSE DaysBeforeYear[year - 1] + YearLength(year - 1)

DaysBeforeMonth[year \in Nat, month \in 1..12] ==
  IF month = 1 THEN 0 ELSE DaysBeforeMonth[year, month - 1] + DaysInMonth(year, month - 1)

Dated(t) ==
  /\ t[1] \in 1970..9999 /\ t[2] \in 1..12 /\ t[3] # 0
  /\ t[3] <= DaysInMonth(t[1], t[2]) /\ t[4] <= 23 /\ t[5] <= 59 /\ t[6] <= 60

ParseWithoutLeapYears(t) ==
  IF ~Dated(t) THEN Unreadable
  ELSE <<(t[1] - 1970) * 365 + DaysBeforeMonth[t[1], t[2]] + t[3] - 1,
         t[4] * 3600 + t[5] * 60 + t[6]>>

Parse(t) ==
  IF ~Dated(t) THEN Unreadable
  ELSE <<DaysBeforeYear[t[1]] + DaysBeforeMonth[t[1], t[2]] + t[3] - 1,
         t[4] * 3600 + t[5] * 60 + t[6]>>

Exceeds(a, b) ==
  \E i \in DOMAIN a : a[i] > b[i] /\ \A j \in 1..(i - 1) : a[j] = b[j]

Later(instant, seconds) ==
  LET s == instant[2] + seconds IN <<instant[1] + s \div SecondsPerDay, s % SecondsPerDay>>

\* is_after(): what cannot be read has passed.
IsAfter(instant, t) == Parse(t) = Unreadable \/ Exceeds(instant, Parse(t))

Plus(instant, seconds) == Format(Later(instant, seconds))
===============================================================================
