------------------------------ MODULE Calendar ------------------------------
(***************************************************************************)
(* The Gregorian calendar of tzfile.h, shared by ctime.c and zic.c.  Months *)
(* and days of the week count from 0; days count from the epoch.            *)
(***************************************************************************)
EXTENDS Integers, Sequences, FiniteSetsExt

SecsPerHour == 3600
SecsPerDay == 86400
EpochYear == 1970
EpochWday == 4
YearBase == 1900

(* What a zone file may hold; an abbreviation has three letters and a NUL.  *)
MaxLeaps == 50
AbbrSize == 4

IsLeap(y) == (y % 4 = 0 /\ y % 100 # 0) \/ y % 400 = 0

MonLengths(y) ==
    [m \in 0 .. 11 |->
        CASE m \in {3, 5, 8, 10} -> 30
          [] m = 1 -> IF IsLeap(y) THEN 29 ELSE 28
          [] OTHER -> 31]

YearLength(y) == IF IsLeap(y) THEN 366 ELSE 365

\* The days from the epoch to January 1 of a year.
LeapsBefore(y) == ((y - 1) \div 4) - ((y - 1) \div 100) + ((y - 1) \div 400)
DaysToYear(y) == 365 * (y - EpochYear) + LeapsBefore(y) - LeapsBefore(EpochYear)

\* The days from January 1 to the first day of a month.
DaysToMonth(y, m) ==
    LET first[k \in 0 .. 11] == IF k = 0 THEN 0 ELSE first[k - 1] + MonLengths(y)[k - 1]
    IN  first[m]

\* The year, and the month in a year, that a day falls in; the years of a
\* 32-bit time_t are at most one off from the guess.
YearOfDay(days) ==
    LET guess == EpochYear + (days \div 366)
    IN  Max({y \in guess - 1 .. guess + 1 : DaysToYear(y) <= days})
MonthOfDay(y, yday) == Max({m \in 0 .. 11 : DaysToMonth(y, m) <= yday})

\* TLC's \div and % round towards minus infinity, as the code's correcting
\* loops do after C's division.
WdayOfDay(days) == (EpochWday + days) % 7
=============================================================================
