----------------------------- MODULE ZonesProofs ----------------------------
(***************************************************************************)
(* Proofs about local time: the calendar for every day that a 32-bit time  *)
(* reaches, the fields localtime fills in, strftime's weeks, what tzset    *)
(* keeps of the zone before, how much strftime writes, and the moment that *)
(* mktime finds in a zone with one offset.                                 *)
(***************************************************************************)
EXTENDS Zones, Numbers, SequenceTheorems

-----------------------------------------------------------------------------
(* The calendar.  Calendar counts the days before a year and finds the     *)
(* year of a day in closed form; the code adds and takes away the lengths  *)
(* of years and months, one after the other (ctime.c:1108-1127).           *)

\* The division of a number and of the one before it.
LEMMA StepOfQuotient ==
  ASSUME NEW m \in {4, 100, 400}, NEW n \in Int
  PROVE  (n \div m) = ((n - 1) \div m) + (IF n % m = 0 THEN 1 ELSE 0)
<1>1. CASE m = 4
  BY <1>1
<1>2. CASE m = 100
  BY <1>2
<1>3. CASE m = 400
  BY <1>3
<1> QED
  BY <1>1, <1>2, <1>3

LEMMA LeapsStep ==
  ASSUME NEW y \in Int
  PROVE  /\ LeapsBefore(y) \in Int
         /\ LeapsBefore(y + 1) = LeapsBefore(y) + (IF IsLeap(y) THEN 1 ELSE 0)
<1>1. /\ (y \div 4) = ((y - 1) \div 4) + (IF y % 4 = 0 THEN 1 ELSE 0)
      /\ (y \div 100) = ((y - 1) \div 100) + (IF y % 100 = 0 THEN 1 ELSE 0)
      /\ (y \div 400) = ((y - 1) \div 400) + (IF y % 400 = 0 THEN 1 ELSE 0)
  BY StepOfQuotient
<1>2. /\ y % 400 = 0 => y % 100 = 0
      /\ y % 100 = 0 => y % 4 = 0
  OBVIOUS
<1>3. PICK q4 \in Int, q100 \in Int, q400 \in Int :
          /\ q4 = ((y - 1) \div 4) /\ q100 = ((y - 1) \div 100) /\ q400 = ((y - 1) \div 400)
  OBVIOUS
<1>4. y + 1 - 1 = y
  OBVIOUS
<1> QED
  BY <1>1, <1>2, <1>3, <1>4 DEF LeapsBefore, IsLeap

(* The days before a year, counted in closed form, grow by the length of   *)
(* each year, for every year: what the code's loops over year_lengths add  *)
(* up (ctime.c:1109-1121, zic.c:1763-1774).                                *)
THEOREM YearsAddUp ==
  ASSUME NEW y \in Int
  PROVE  /\ DaysToYear(y) \in Int /\ DaysToYear(EpochYear) = 0
         /\ DaysToYear(y + 1) = DaysToYear(y) + YearLength(y)
<1>1. LeapsBefore(EpochYear) \in Int
  BY LeapsStep DEF EpochYear
<1>2. PICK l \in Int : l = LeapsBefore(EpochYear)
  BY <1>1
<1>3. PICK k \in Int : k = LeapsBefore(y)
  BY LeapsStep
<1>4. LeapsBefore(y + 1) = k + (IF IsLeap(y) THEN 1 ELSE 0)
  BY <1>3, LeapsStep
<1>5. DaysToYear(EpochYear) = 365 * (EpochYear - EpochYear) + l - l
  BY <1>2 DEF DaysToYear
<1>6. DaysToYear(y) = 365 * (y - 1970) + k - l
  BY <1>2, <1>3 DEF DaysToYear, EpochYear
<1>7. DaysToYear(y + 1) = 365 * (y + 1 - 1970) + (k + (IF IsLeap(y) THEN 1 ELSE 0)) - l
  BY <1>2, <1>4 DEF DaysToYear, EpochYear
<1> QED
  BY <1>5, <1>6, <1>7 DEF YearLength, EpochYear

\* A guess that is one year off at most, up to some 270 years from the epoch.
FarDays == {d \in Int : -100000 <= d /\ d <= 100000}

LEMMA FarIsWhole == \A d \in FarDays : d \in Int /\ -100000 <= d /\ d <= 100000
BY DEF FarDays

LEMMA GuessIsClose ==
  ASSUME NEW d \in FarDays, NEW g \in Int, g = EpochYear + (d \div 366)
  PROVE  DaysToYear(g - 1) <= d /\ d < DaysToYear(g + 2)
<1> DEFINE q == d \div 366
<1>1. q \in Int /\ 366 * q <= d /\ d < 366 * q + 366
  BY FarIsWhole
<1>2. g = 1970 + q /\ q \in -274 .. 274
  <2>1. g = 1970 + q
    BY DEF EpochYear
  <2>2. d \in Int /\ -100000 <= d /\ d <= 100000
    BY FarIsWhole
  <2> HIDE DEF q
  <2> QED
    BY <1>1, <2>1, <2>2
<1> HIDE DEF q
<1>3. LeapsBefore(EpochYear) = 477
  BY DEF LeapsBefore, EpochYear
<1>4. DaysToYear(g - 1) = 365 * (q - 1) + ((q + 1968) \div 4) - ((q + 1968) \div 100)
                            + ((q + 1968) \div 400) - 477
  <2>1. g - 1 - 1 = q + 1968 /\ g - 1 - 1970 = q - 1
    BY <1>2
  <2> QED
    BY <1>3, <2>1 DEF DaysToYear, LeapsBefore, EpochYear
<1>5. DaysToYear(g + 2) = 365 * (q + 2) + ((q + 1971) \div 4) - ((q + 1971) \div 100)
                            + ((q + 1971) \div 400) - 477
  <2>1. g + 2 - 1 = q + 1971 /\ g + 2 - 1970 = q + 2
    BY <1>2
  <2> QED
    BY <1>3, <2>1 DEF DaysToYear, LeapsBefore, EpochYear
<1>6. DaysToYear(g - 1) \in Int /\ DaysToYear(g + 2) \in Int
  <2>1. g - 1 \in Int /\ g + 2 \in Int
    OBVIOUS
  <2> QED
    BY <2>1, YearsAddUp
<1>7. DaysToYear(g - 1) <= 366 * q
  <2>1. 365 * (q - 1) + ((q + 1968) \div 4) - ((q + 1968) \div 100) + ((q + 1968) \div 400) - 477
          <= 366 * q
    BY <1>2
  <2> QED
    BY <1>4, <2>1
<1>8. 366 * q + 366 <= DaysToYear(g + 2)
  <2>1. 366 * q + 366 <= 365 * (q + 2) + ((q + 1971) \div 4) - ((q + 1971) \div 100)
                           + ((q + 1971) \div 400) - 477
    BY <1>2
  <2> QED
    BY <1>5, <2>1
<1> QED
  <2>1. d \in Int
    BY FarIsWhole
  <2> HIDE DEF FarDays
  <2> QED
    BY <1>1, <1>6, <1>7, <1>8, <2>1

(* For every day within 270 years of the epoch, the year that localtime    *)
(* reports is the one the day falls in (ctime.c:1108-1123).                *)
THEOREM YearFound ==
  ASSUME NEW d \in FarDays
  PROVE  /\ YearOfDay(d) \in Int
         /\ d - DaysToYear(YearOfDay(d)) \in 0 .. YearLength(YearOfDay(d)) - 1
<1> DEFINE guess == EpochYear + (d \div 366)
<1>0. d \in Int /\ guess \in Int
  <2>1. d \in Int
    BY FarIsWhole
  <2> QED
    BY <2>1 DEF EpochYear
<1> HIDE DEF guess
<1>1. PICK g \in Int : g = guess
  BY <1>0
<1>2. DaysToYear(g - 1) <= d /\ d < DaysToYear(g + 2) /\ d \in Int
  <2>1. g = EpochYear + (d \div 366)
    BY <1>1 DEF guess
  <2> QED
    BY <1>0, <2>1, GuessIsClose
<1> DEFINE Before == {y \in g - 1 .. g + 1 : DaysToYear(y) <= d}
<1>3. PICK top \in Before : (\A y \in Before : top >= y) /\ d < DaysToYear(top + 1)
  <2>1. g - 1 \in Before
    BY <1>2
  <2>2. CASE DaysToYear(g + 1) <= d
    <3>1. g + 1 \in Before /\ (\A y \in Before : g + 1 >= y) /\ g + 1 + 1 = g + 2
      BY <2>2
    <3> QED
      BY <1>2, <3>1
  <2>3. CASE ~(DaysToYear(g + 1) <= d) /\ DaysToYear(g) <= d
    <3>1. g \in Before /\ (\A y \in Before : g >= y) /\ d < DaysToYear(g + 1)
      <4>1. DaysToYear(g + 1) \in Int
        BY YearsAddUp
      <4> QED
        BY <1>2, <2>3, <4>1
    <3> QED
      BY <3>1
  <2>4. CASE ~(DaysToYear(g + 1) <= d) /\ ~(DaysToYear(g) <= d)
    <3>1. \A y \in Before : g - 1 >= y
      BY <2>4
    <3>2. d < DaysToYear(g) /\ g - 1 + 1 = g
      BY <1>2, <2>4, YearsAddUp
    <3> QED
      BY <2>1, <3>1, <3>2
  <2> QED
    BY <2>2, <2>3, <2>4
<1>4. YearOfDay(d) \in Before /\ (\A y \in Before : YearOfDay(d) >= y)
  <2>1. YearOfDay(d) = Max(Before)
    BY <1>1 DEF YearOfDay, guess
  <2> HIDE DEF Before
  <2> QED
    BY <1>3, <2>1 DEF Max
<1>5. YearOfDay(d) = top
  BY <1>3, <1>4
<1>6. top \in Int /\ DaysToYear(top) <= d
  OBVIOUS
<1>7. DaysToYear(top) \in Int /\ DaysToYear(top + 1) = DaysToYear(top) + YearLength(top)
  BY <1>6, YearsAddUp
<1>8. YearLength(top) \in Int
  BY DEF YearLength
<1> QED
  BY <1>2, <1>3, <1>5, <1>6, <1>7, <1>8
-----------------------------------------------------------------------------
(* Months.                                                                 *)

\* The days before a month, and how many of them February's 29th adds.
FirstDays == <<0, 31, 59, 90, 120, 151, 181, 212, 243, 273, 304, 334>>
DaysBefore(y, m) == FirstDays[m + 1] + (IF m >= 2 /\ IsLeap(y) THEN 1 ELSE 0)

LEMMA MonthsTable ==
  ASSUME NEW y \in Int, NEW m \in 0 .. 11
  PROVE  DaysToMonth(y, m) = DaysBefore(y, m)
<1> DEFINE L == MonLengths(y)
           Sum(f) == [k \in 0 .. 11 |-> IF k = 0 THEN 0 ELSE f[k - 1] + L[k - 1]]
           table == [k \in 0 .. 11 |-> DaysBefore(y, k)]
           first == CHOOSE f : f = Sum(f)
<1>1. /\ \A k \in {3, 5, 8, 10} : L[k] = 30
      /\ \A k \in {0, 2, 4, 6, 7, 9, 11} : L[k] = 31
      /\ L[1] = IF IsLeap(y) THEN 29 ELSE 28
  BY DEF MonLengths
<1> HIDE DEF L
<1>2. table = Sum(table)
  <2>1. /\ table[0] = 0 /\ table[1] = 31
        /\ \A k \in 2 .. 11 : table[k] = FirstDays[k + 1] + (IF IsLeap(y) THEN 1 ELSE 0)
    BY DEF DaysBefore, FirstDays
  <2>2. /\ FirstDays[3] = 59 /\ FirstDays[4] = 90 /\ FirstDays[5] = 120 /\ FirstDays[6] = 151
        /\ FirstDays[7] = 181 /\ FirstDays[8] = 212 /\ FirstDays[9] = 243 /\ FirstDays[10] = 273
        /\ FirstDays[11] = 304 /\ FirstDays[12] = 334
    BY DEF FirstDays
  <2>3. ASSUME NEW k \in 0 .. 11 PROVE table[k] = Sum(table)[k]
    <3> DEFINE t == table
    <3>1. PICK leap \in {0, 1} : leap = IF IsLeap(y) THEN 1 ELSE 0
      OBVIOUS
    <3>2. /\ t[0] = 0 /\ t[1] = 31 /\ t[2] = 59 + leap /\ t[3] = 90 + leap /\ t[4] = 120 + leap
          /\ t[5] = 151 + leap /\ t[6] = 181 + leap /\ t[7] = 212 + leap /\ t[8] = 243 + leap
          /\ t[9] = 273 + leap /\ t[10] = 304 + leap /\ t[11] = 334 + leap
      BY <2>1, <2>2, <3>1
    <3>3. L[1] = 28 + leap
      BY <1>1, <3>1
    <3> HIDE DEF t, table
    <3>4. Sum(t)[k] = IF k = 0 THEN 0 ELSE t[k - 1] + L[k - 1]
      OBVIOUS
    <3>5. t[k] = IF k = 0 THEN 0 ELSE t[k - 1] + L[k - 1]
      BY <1>1, <3>2, <3>3
    <3> QED
      BY <3>4, <3>5 DEF t
  <2>4. table \in [0 .. 11 -> {table[k] : k \in 0 .. 11}]
    OBVIOUS
  <2> QED
    BY <2>3
<1>3. first = Sum(first)
  <2> HIDE DEF Sum, table
  <2> QED
    BY <1>2
<1>4. DaysToMonth(y, m) = first[m]
  BY DEF DaysToMonth, L
<1> HIDE DEF first
<1>5. \A k \in 0 .. 11 : first[k] = IF k = 0 THEN 0 ELSE first[k - 1] + L[k - 1]
  BY <1>3
<1>6. \A k \in 0 .. 11 : table[k] = IF k = 0 THEN 0 ELSE table[k - 1] + L[k - 1]
  BY <1>2
<1>7. /\ first[0] = table[0] /\ first[1] = table[1] /\ first[2] = table[2] /\ first[3] = table[3]
      /\ first[4] = table[4] /\ first[5] = table[5] /\ first[6] = table[6] /\ first[7] = table[7]
      /\ first[8] = table[8] /\ first[9] = table[9] /\ first[10] = table[10] /\ first[11] = table[11]
  <2> HIDE DEF table
  <2>1. ASSUME NEW k \in 0 .. 10, first[k] = table[k] PROVE first[k + 1] = table[k + 1]
    <3>1. k + 1 \in 0 .. 11 /\ k + 1 # 0 /\ k + 1 - 1 = k
      OBVIOUS
    <3> QED
      BY <1>5, <1>6, <2>1, <3>1
  <2>2. first[0] = table[0]
    BY <1>5, <1>6
  <2>3. first[1] = table[1]
    BY <2>1, <2>2
  <2>4. first[2] = table[2]
    BY <2>1, <2>3
  <2>5. first[3] = table[3]
    BY <2>1, <2>4
  <2>6. first[4] = table[4]
    BY <2>1, <2>5
  <2>7. first[5] = table[5]
    BY <2>1, <2>6
  <2>8. first[6] = table[6]
    BY <2>1, <2>7
  <2>9. first[7] = table[7]
    BY <2>1, <2>8
  <2>10. first[8] = table[8]
    BY <2>1, <2>9
  <2>11. first[9] = table[9]
    BY <2>1, <2>10
  <2>12. first[10] = table[10]
    BY <2>1, <2>11
  <2>13. first[11] = table[11]
    BY <2>1, <2>12
  <2> QED
    BY <2>2, <2>3, <2>4, <2>5, <2>6, <2>7, <2>8, <2>9, <2>10, <2>11, <2>12, <2>13
<1>8. first[m] = table[m]
  <2> HIDE DEF table
  <2>1. m \in {0, 1, 2, 3, 4, 5, 6, 7, 8, 9, 10, 11}
    OBVIOUS
  <2> QED
    BY <1>7, <2>1
<1> QED
  BY <1>4, <1>8

(* Every day of a year falls in the month, and on the day of the month,    *)
(* that localtime reports: the loop over mon_lengths (ctime.c:1124-1128).  *)
THEOREM MonthFound ==
  ASSUME NEW y \in Int, NEW yday \in 0 .. YearLength(y) - 1
  PROVE  /\ MonthOfDay(y, yday) \in 0 .. 11
         /\ yday - DaysToMonth(y, MonthOfDay(y, yday)) \in 0 .. MonLengths(y)[MonthOfDay(y, yday)] - 1
<1> DEFINE begun == {m \in 0 .. 11 : DaysToMonth(y, m) <= yday}
<1>1. yday \in Nat /\ yday < 366 /\ (yday = 365 => IsLeap(y))
  BY DEF YearLength
<1>2. 0 \in begun
  <2>1. DaysBefore(y, 0) = 0
    BY DEF DaysBefore, FirstDays
  <2> QED
    BY <1>1, <2>1, MonthsTable
<1>3. PICK m \in begun : \A k \in begun : k <= m
  <2>1. begun \in SUBSET Nat /\ \A k \in begun : k <= 11
    OBVIOUS
  <2> HIDE DEF begun
  <2> QED
    BY <1>2, <2>1, Maximum
<1>4. MonthOfDay(y, yday) = m
  <2>1. \A k \in begun : m >= k
    BY <1>3
  <2>2. ASSUME NEW n \in begun, \A k \in begun : n >= k PROVE n = m
    BY <2>1, <2>2
  <2>3. MonthOfDay(y, yday) = Max(begun)
    BY DEF MonthOfDay
  <2> HIDE DEF begun
  <2> QED
    BY <2>1, <2>2, <2>3 DEF Max
<1>5. PICK leap \in {0, 1} : leap = IF IsLeap(y) THEN 1 ELSE 0
  OBVIOUS
<1>6. /\ DaysToMonth(y, 0) = 0 /\ DaysToMonth(y, 1) = 31 /\ DaysToMonth(y, 2) = 59 + leap
      /\ DaysToMonth(y, 3) = 90 + leap /\ DaysToMonth(y, 4) = 120 + leap
      /\ DaysToMonth(y, 5) = 151 + leap /\ DaysToMonth(y, 6) = 181 + leap
      /\ DaysToMonth(y, 7) = 212 + leap /\ DaysToMonth(y, 8) = 243 + leap
      /\ DaysToMonth(y, 9) = 273 + leap /\ DaysToMonth(y, 10) = 304 + leap
      /\ DaysToMonth(y, 11) = 334 + leap
  <2>1. \A k \in 0 .. 11 : DaysToMonth(y, k) = FirstDays[k + 1] + (IF k >= 2 THEN leap ELSE 0)
    BY <1>5, MonthsTable DEF DaysBefore
  <2> QED
    BY <2>1 DEF FirstDays
<1>7. /\ \A k \in {3, 5, 8, 10} : MonLengths(y)[k] = 30
      /\ \A k \in {0, 2, 4, 6, 7, 9, 11} : MonLengths(y)[k] = 31
      /\ MonLengths(y)[1] = 28 + leap
  BY <1>5 DEF MonLengths
<1>8. m \in 0 .. 11 /\ DaysToMonth(y, m) <= yday
  OBVIOUS
<1>9. m < 11 => yday < DaysToMonth(y, m + 1)
  <2>1. m < 11 => m + 1 \in 0 .. 11 /\ m + 1 \notin begun
    BY <1>3
  <2>2. m < 11 => ~(DaysToMonth(y, m + 1) <= yday)
    BY <2>1
  <2>3. m < 11 => DaysToMonth(y, m + 1) \in Int
    BY <1>5, <1>6, <1>8
  <2> QED
    BY <1>1, <2>2, <2>3
<1>10. m = 11 => yday < 365 + leap
  BY <1>1, <1>5
<1> HIDE DEF begun
<1> QED
  BY <1>1, <1>4, <1>5, <1>6, <1>7, <1>8, <1>9, <1>10

-----------------------------------------------------------------------------
(* Weeks.                                                                  *)

\* How many of the days 0 .. n are e days, and then whole weeks, before n.
LEMMA WeeksBefore ==
  ASSUME NEW n \in Nat, NEW e \in 0 .. 6
  PROVE  Cardinality({d \in 0 .. n : (n - d) % 7 = e}) = ((n + 7 - e) \div 7)
<1> DEFINE days == {d \in 0 .. n : (n - d) % 7 = e}
           w == (n + 7 - e) \div 7
           f == [k \in 1 .. w |-> n - e - 7 * (k - 1)]
<1>1. w \in Nat /\ 7 * w <= n + 7 - e /\ n + 7 - e < 7 * w + 7
  OBVIOUS
<1> HIDE DEF w
<1>2. ASSUME NEW k \in 1 .. w PROVE f[k] \in days
  <2>1. k \in Int /\ 1 <= k /\ k <= w /\ f[k] = n - e - 7 * (k - 1)
    OBVIOUS
  <2>2. f[k] \in 0 .. n
    BY <1>1, <2>1
  <2>3. (n - f[k]) = (k - 1) * 7 + e
    BY <2>1
  <2>4. ((k - 1) * 7 + e) % 7 = e
    BY <2>1
  <2> HIDE DEF f
  <2> QED
    BY <2>2, <2>3, <2>4
<1>3. ASSUME NEW d \in days PROVE \E k \in 1 .. w : f[k] = d
  <2>1. d \in 0 .. n /\ (n - d) % 7 = e
    OBVIOUS
  <2>2. PICK q \in Int : n - d = 7 * q + e
    <3>1. n - d = 7 * ((n - d) \div 7) + ((n - d) % 7) /\ ((n - d) \div 7) \in Int
      BY <2>1
    <3> QED
      BY <2>1, <3>1
  <2>3. q >= 0
    BY <2>1, <2>2
  <2>4. q + 1 \in 1 .. w
    BY <1>1, <2>1, <2>2, <2>3
  <2>5. f[q + 1] = d
    BY <2>1, <2>2, <2>4
  <2> QED
    BY <2>4, <2>5
<1>4. ASSUME NEW k \in 1 .. w, NEW l \in 1 .. w, f[k] = f[l] PROVE k = l
  BY <1>1, <1>4
<1>5. f \in Bijection(1 .. w, days)
  <2>1. f \in [1 .. w -> days]
    BY <1>2
  <2> HIDE DEF f, days
  <2> QED
    BY <1>3, <1>4, <2>1 DEF Bijection, Injection, Surjection, IsInjective
<1>6. IsFiniteSet(1 .. w) /\ Cardinality(1 .. w) = w
  <2>1. 1 \in Int /\ w \in Int
    BY <1>1
  <2>2. IsFiniteSet(1 .. w) /\ Cardinality(1 .. w) = IF 1 > w THEN 0 ELSE w - 1 + 1
    BY <2>1, FS_Interval
  <2> QED
    BY <1>1, <2>2
<1> HIDE DEF f, days
<1>7. Cardinality(days) = w
  <2>1. ExistsBijection(1 .. w, days)
    BY <1>5 DEF ExistsBijection
  <2> QED
    BY <1>6, <2>1, FS_Bijection
<1> QED
  BY <1>7 DEF days, w

(* strftime's %U and %W are the numbers of Sundays and of Mondays of the   *)
(* year so far, whatever the day of the year and its weekday               *)
(* (strftime.c:201-211).                                                   *)
THEOREM WeeksOfDays ==
  ASSUME NEW now, now.yday \in Nat, now.wday \in 0 .. 6
  PROVE  /\ WeekFromSunday(now) =
               Cardinality({d \in 0 .. now.yday : (now.wday - (now.yday - d)) % 7 = 0})
         /\ WeekFromMonday(now) =
               Cardinality({d \in 0 .. now.yday : (now.wday - (now.yday - d)) % 7 = 1})
<1>1. PICK n \in Nat, w \in 0 .. 6 : n = now.yday /\ w = now.wday
  OBVIOUS
<1>2. ASSUME NEW x \in 0 .. 1, NEW e \in 0 .. 6, e = IF w >= x THEN w - x ELSE 6
      PROVE  Cardinality({d \in 0 .. n : (w - (n - d)) % 7 = x}) = ((n + 7 - e) \div 7)
  <2>1. ASSUME NEW d \in 0 .. n PROVE (w - (n - d)) % 7 = x <=> (n - d) % 7 = e
    BY <1>2
  <2>2. {d \in 0 .. n : (w - (n - d)) % 7 = x} = {d \in 0 .. n : (n - d) % 7 = e}
    BY <2>1
  <2> QED
    BY <2>2, WeeksBefore
<1>3. WeekFromSunday(now) = ((n + 7 - w) \div 7)
  BY <1>1 DEF WeekFromSunday
<1>4. PICK e \in 0 .. 6 : e = IF w >= 1 THEN w - 1 ELSE 6
  OBVIOUS
<1>5. WeekFromMonday(now) = ((n + 7 - e) \div 7)
  BY <1>1, <1>4 DEF WeekFromMonday
<1>6. Cardinality({d \in 0 .. n : (w - (n - d)) % 7 = 0}) = ((n + 7 - w) \div 7)
  <2>1. 0 \in 0 .. 1 /\ w = IF w >= 0 THEN w - 0 ELSE 6
    OBVIOUS
  <2> QED
    BY <1>2, <2>1
<1>7. Cardinality({d \in 0 .. n : (w - (n - d)) % 7 = 1}) = ((n + 7 - e) \div 7)
  BY <1>2, <1>4
<1> QED
  BY <1>1, <1>3, <1>5, <1>6, <1>7

-----------------------------------------------------------------------------
(* Normalisation.                                                          *)

(* mktime's normalize keeps the time a pair of fields stands for, and      *)
(* leaves at most one whole unit of the next field behind: it does where   *)
(* the field is a negative multiple of its base (ctime.c:1178-1195).       *)
THEOREM NormalizeKeeps ==
  ASSUME NEW base \in {12, 24, 60}, NEW tens \in Int, NEW units \in Int
  PROVE  LET n == Normalize(tens, units, base)
         IN  /\ n.tens \in Int /\ n.units \in 0 .. base
             /\ n.tens * base + n.units = tens * base + units
<1> DEFINE n == Normalize(tens, units, base)
<1> SUFFICES /\ n.tens \in Int /\ n.units \in 0 .. base
             /\ n.tens * base + n.units = tens * base + units
  OBVIOUS
<1>1. CASE units >= base
  <2>1. n.tens = tens + (units \div base) /\ n.units = units % base
    BY <1>1 DEF Normalize
  <2> HIDE DEF n
  <2>2. CASE base = 12
    BY <2>1, <2>2
  <2>3. CASE base = 24
    BY <2>1, <2>3
  <2>4. CASE base = 60
    BY <2>1, <2>4
  <2> QED
    BY <2>2, <2>3, <2>4
<1>2. CASE units \in 0 .. base - 1
  <2>1. n.tens = tens /\ n.units = units
    BY <1>2 DEF Normalize
  <2> HIDE DEF n
  <2> QED
    BY <1>2, <2>1
<1>3. CASE units \in -base .. -1
  <2>1. n.tens = tens - 1 /\ n.units = units + base
    BY <1>3 DEF Normalize
  <2> HIDE DEF n
  <2>2. CASE base = 12
    BY <1>3, <2>1, <2>2
  <2>3. CASE base = 24
    BY <1>3, <2>1, <2>3
  <2>4. CASE base = 60
    BY <1>3, <2>1, <2>4
  <2> QED
    BY <2>2, <2>3, <2>4
<1>4. CASE units < -base
  <2>1. PICK more \in Int : more = -(units + base)
    OBVIOUS
  <2>2. n.tens = tens - 2 - (more \div base) /\ n.units = base - (more % base)
    BY <1>4, <2>1 DEF Normalize
  <2> HIDE DEF n
  <2>3. CASE base = 12
    BY <2>1, <2>2, <2>3
  <2>4. CASE base = 24
    BY <2>1, <2>2, <2>4
  <2>5. CASE base = 60
    BY <2>1, <2>2, <2>5
  <2> QED
    BY <2>3, <2>4, <2>5
<1> QED
  <2> HIDE DEF n
  <2>1. units >= base \/ units \in 0 .. base - 1 \/ units \in -base .. -1 \/ units < -base
    OBVIOUS
  <2> QED
    BY <1>1, <1>2, <1>3, <1>4, <2>1
-----------------------------------------------------------------------------
(* What a time breaks down into.                                           *)

\* The times of a 32-bit time_t, and offsets of up to some 11 days.
Times == {t \in Int : -2147483648 <= t /\ t <= 2147483648}
Offsets == {n \in Int : -1000000 <= n /\ n <= 1000000}

\* The day and the second of the day that a broken-down time shows.
DayShown(now) == DaysToYear(now.year + YearBase) + now.yday
SecondShown(now) == now.hour * SecsPerHour + now.min * 60 + now.sec

InRangeFields(now) ==
    /\ now.year \in Int
    /\ now.yday \in 0 .. YearLength(now.year + YearBase) - 1
    /\ now.mon \in 0 .. 11
    /\ now.mday \in 1 .. MonLengths(now.year + YearBase)[now.mon]
    /\ now.yday = DaysToMonth(now.year + YearBase, now.mon) + now.mday - 1
    /\ now.wday \in 0 .. 6 /\ now.wday = WdayOfDay(DayShown(now))
    /\ now.hour \in 0 .. 23 /\ now.min \in 0 .. 59 /\ now.sec \in 0 .. 60

BrokenTimes ==
    [year : Int, mon : Int, mday : Int, hour : Int, min : Int, sec : Int,
     wday : Int, yday : Int, isdst : Int, gmtoff : Int]

LEMMA SecondsOfDay ==
  ASSUME NEW rem \in Int, 0 <= rem, rem < SecsPerDay
  PROVE  /\ (rem \div SecsPerHour) \in 0 .. 23
         /\ ((rem % SecsPerHour) \div 60) \in 0 .. 59
         /\ (rem % 60) \in 0 .. 59
         /\ rem = (rem \div SecsPerHour) * SecsPerHour + ((rem % SecsPerHour) \div 60) * 60 + (rem % 60)
<1>1. rem \in Int /\ 0 <= rem /\ rem < 86400
  BY DEF SecsPerDay
<1>2. PICK h \in Int, s \in Int : h = (rem \div 3600) /\ s = rem % 3600 /\ rem = 3600 * h + s /\ 0 <= s /\ s < 3600
  BY <1>1
<1>3. PICK m \in Int, r \in Int : m = (s \div 60) /\ r = s % 60 /\ s = 60 * m + r /\ 0 <= r /\ r < 60
  BY <1>2
<1>4. rem % 60 = r
  <2>1. rem = (60 * h + m) * 60 + r
    BY <1>2, <1>3
  <2>2. 60 * h + m \in Int
    OBVIOUS
  <2> QED
    BY <1>1, <1>3, <2>1, <2>2
<1>5. h \in 0 .. 23 /\ m \in 0 .. 59
  BY <1>1, <1>2, <1>3
<1> QED
  BY <1>2, <1>3, <1>4, <1>5 DEF SecsPerHour

\* The breaking down of one day and a number of seconds, of either sign.
LEMMA BreaksDown ==
  ASSUME NEW days \in Int, NEW secs \in Int, NEW hit \in BOOLEAN, NEW offset,
         days + (secs \div SecsPerDay) \in FarDays
  PROVE  LET now == AtSecs(days, secs, hit, offset)
         IN  /\ InRangeFields(now) /\ now.gmtoff = offset
             /\ DayShown(now) * SecsPerDay + SecondShown(now)
                    = days * SecsPerDay + secs + (IF hit THEN 1 ELSE 0)
             /\ offset \in Int => now \in BrokenTimes
             /\ ~hit => now.sec \in 0 .. 59
<1> DEFINE day == days + (secs \div SecsPerDay)
           rem == secs % SecsPerDay
           year == YearOfDay(day)
           yday == day - DaysToYear(year)
           mon == MonthOfDay(year, yday)
           now == AtSecs(days, secs, hit, offset)
           one == IF hit THEN 1 ELSE 0
<1> SUFFICES /\ InRangeFields(now) /\ now.gmtoff = offset
             /\ DayShown(now) * SecsPerDay + SecondShown(now) = days * SecsPerDay + secs + one
             /\ offset \in Int => now \in BrokenTimes
             /\ ~hit => now.sec \in 0 .. 59
  OBVIOUS
<1>1. /\ day \in Int /\ rem \in Int /\ 0 <= rem /\ rem < SecsPerDay
      /\ day * SecsPerDay + rem = days * SecsPerDay + secs
  <2> DEFINE q == secs \div SecsPerDay
  <2>1. /\ q \in Int /\ rem \in Int /\ 0 <= rem /\ rem < SecsPerDay
        /\ secs = SecsPerDay * q + rem
    BY SMT DEF SecsPerDay
  <2>2. day = days + q
    BY SMT
  <2> HIDE DEF q, rem, day
  <2> QED
    BY <2>1, <2>2, SMT DEF SecsPerDay
<1>2. now = [year |-> year - YearBase, mon |-> mon, mday |-> yday - DaysToMonth(year, mon) + 1,
             hour |-> rem \div SecsPerHour, min |-> (rem % SecsPerHour) \div 60,
             sec |-> (rem % 60) + one,
             wday |-> WdayOfDay(day), yday |-> yday, isdst |-> 0, gmtoff |-> offset]
  BY DEF AtSecs, OnDay, BrokenDown
<1>3. day \in FarDays
  OBVIOUS
<1> HIDE DEF now, day, rem
<1>4. year \in Int /\ yday \in 0 .. YearLength(year) - 1
  BY <1>3, YearFound
<1> HIDE DEF year
<1>5. DaysToYear(year) \in Int /\ year - YearBase \in Int /\ year - YearBase + YearBase = year
  BY <1>4, YearsAddUp DEF YearBase
<1>6. DaysToYear(year) + yday = day /\ yday \in Int
  BY <1>1, <1>5
<1> HIDE DEF yday
<1>7. mon \in 0 .. 11 /\ yday - DaysToMonth(year, mon) \in 0 .. MonLengths(year)[mon] - 1
  BY <1>4, MonthFound
<1> HIDE DEF mon
<1>8. DaysToMonth(year, mon) \in Int /\ MonLengths(year)[mon] \in Int
  <2>1. DaysBefore(year, mon) \in Int
    BY <1>7 DEF DaysBefore, FirstDays
  <2>2. MonLengths(year)[mon] \in Int
    BY <1>7 DEF MonLengths
  <2> QED
    BY <1>4, <1>7, <2>1, <2>2, MonthsTable
<1>9. /\ (rem \div SecsPerHour) \in 0 .. 23 /\ ((rem % SecsPerHour) \div 60) \in 0 .. 59
      /\ (rem % 60) \in 0 .. 59
      /\ rem = (rem \div SecsPerHour) * SecsPerHour + ((rem % SecsPerHour) \div 60) * 60 + (rem % 60)
  BY <1>1, SecondsOfDay
<1>10. PICK h \in 0 .. 23, m \in 0 .. 59, s \in 0 .. 59 :
         /\ h = (rem \div SecsPerHour) /\ m = ((rem % SecsPerHour) \div 60) /\ s = (rem % 60)
         /\ rem = h * SecsPerHour + m * 60 + s
  BY <1>9
<1>11. one \in 0 .. 1 /\ (~hit => one = 0)
  OBVIOUS
<1> HIDE DEF one
<1>12. DayShown(now) = day /\ SecondShown(now) = rem + one
  <2>1. DayShown(now) = day
    BY <1>2, <1>5, <1>6 DEF DayShown
  <2>2. SecondShown(now) = h * SecsPerHour + m * 60 + (s + one)
    BY <1>2, <1>10 DEF SecondShown
  <2> QED
    BY <1>10, <1>11, <2>1, <2>2 DEF SecsPerHour
<1>13. WdayOfDay(day) \in 0 .. 6
  BY <1>1 DEF WdayOfDay, EpochWday
<1>14. InRangeFields(now)
  <2>1. now.year \in Int /\ now.year + YearBase = year /\ now.yday = yday /\ now.mon = mon
    BY <1>2, <1>5
  <2>2. now.mday = yday - DaysToMonth(year, mon) + 1 /\ now.mday \in 1 .. MonLengths(year)[mon]
    BY <1>2, <1>6, <1>7, <1>8
  <2>3. yday = DaysToMonth(year, mon) + now.mday - 1
    BY <1>6, <1>8, <2>2
  <2>4. now.wday \in 0 .. 6 /\ now.wday = WdayOfDay(DayShown(now))
    BY <1>2, <1>12, <1>13
  <2>5. now.hour \in 0 .. 23 /\ now.min \in 0 .. 59 /\ now.sec \in 0 .. 60
    BY <1>2, <1>10, <1>11
  <2> QED
    BY <1>4, <1>7, <2>1, <2>2, <2>3, <2>4, <2>5 DEF InRangeFields
<1>15. rem \in Int /\ one \in Int /\ day \in Int
  BY <1>1, <1>11
<1>16. DayShown(now) * SecsPerDay + SecondShown(now) = days * SecsPerDay + secs + one
  BY <1>1, <1>12, <1>15 DEF SecsPerDay
<1>17. now.gmtoff = offset
  BY <1>2
<1>18. ~hit => now.sec \in 0 .. 59
  BY <1>2, <1>9, <1>11
<1>19. ASSUME offset \in Int PROVE now \in BrokenTimes
  <2>1. /\ year - YearBase \in Int /\ mon \in Int /\ yday - DaysToMonth(year, mon) + 1 \in Int
        /\ (rem \div SecsPerHour) \in Int /\ ((rem % SecsPerHour) \div 60) \in Int
        /\ (rem % 60) + one \in Int /\ WdayOfDay(day) \in Int /\ yday \in Int
    BY <1>5, <1>6, <1>7, <1>8, <1>9, <1>11, <1>13
  <2> QED
    BY <1>2, <1>19, <2>1 DEF BrokenTimes
<1> QED
  BY <1>14, <1>16, <1>17, <1>18, <1>19
-----------------------------------------------------------------------------
(* Zones.                                                                  *)

TypeFits(type) ==
    /\ type = [gmtoff |-> type.gmtoff, isdst |-> type.isdst, abbrind |-> type.abbrind,
               ttisstd |-> type.ttisstd]
    /\ type.gmtoff \in Offsets /\ type.isdst \in {0, 1}

\* A sequence, whatever its elements.
Listed(s) == Len(s) \in Nat /\ DOMAIN s = 1 .. Len(s) /\ (Len(s) = 0 => s = <<>>)

\* A zone whose counts and indices stay inside its tables: what tzload checks.
IsZone(zone) ==
    zone = [leaps |-> zone.leaps, ats |-> zone.ats, types |-> zone.types,
            typecnt |-> zone.typecnt, ttis |-> zone.ttis, chars |-> zone.chars]
ZoneFits(zone) ==
    /\ IsZone(zone)
    /\ Listed(zone.leaps) /\ \A i \in 1 .. Len(zone.leaps) : zone.leaps[i].corr \in Offsets
    /\ Listed(zone.ats) /\ \A i \in 1 .. Len(zone.ats) : zone.types[i] + 1 \in 1 .. zone.typecnt
    /\ \E n \in Nat \ {0} : DOMAIN zone.ttis = 1 .. n /\ zone.typecnt \in 0 .. n
    /\ \A i \in DOMAIN zone.ttis : TypeFits(zone.ttis[i])

LEMMA FitsTables ==
  ASSUME NEW n \in Nat, NEW f, DOMAIN f = 1 .. n, f = [i \in DOMAIN f |-> f[i]]
  PROVE  Listed(f) /\ Len(f) = n
<1> DEFINE S == {f[i] : i \in 1 .. n}
<1>1. f \in [1 .. n -> S]
  OBVIOUS
<1>2. f \in Seq(S)
  BY <1>1, SeqDef
<1>3. Len(f) \in Nat /\ DOMAIN f = 1 .. Len(f)
  <2> HIDE DEF S
  <2> QED
    BY <1>2, LenProperties
<1>4. Len(f) = n
  <2>1. 1 .. Len(f) = 1 .. n
    BY <1>3
  <2>2. IsFiniteSet(1 .. n) /\ Cardinality(1 .. n) = n
    <3>1. 1 \in Int /\ n \in Int
      OBVIOUS
    <3>2. IsFiniteSet(1 .. n) /\ Cardinality(1 .. n) = IF 1 > n THEN 0 ELSE n - 1 + 1
      BY <3>1, FS_Interval
    <3> QED
      BY <3>2
  <2>3. Cardinality(1 .. Len(f)) = Len(f)
    <3>1. Cardinality(1 .. Len(f)) = IF 1 > Len(f) THEN 0 ELSE Len(f) - 1 + 1
      BY <1>3, FS_Interval
    <3> QED
      BY <1>3, <3>1
  <2> QED
    BY <2>1, <2>2, <2>3
<1>5. n = 0 => f = <<>>
  <2> HIDE DEF S
  <2> QED
    BY <1>2, <1>4, EmptySeq
<1> QED
  BY <1>3, <1>4, <1>5 DEF Listed

LEMMA OffsetsNegate == \A n \in Offsets : n \in Int /\ -n \in Offsets
BY SMT DEF Offsets

LEMMA NoZoneFits == ZoneFits(NoZone)
<1>1. Listed(<<>>)
  BY DEF Listed
<1>2. TypeFits(NoType)
  BY DEF TypeFits, NoType, Offsets
<1>3. DOMAIN <<NoType>> = 1 .. 1 /\ <<NoType>>[1] = NoType
  OBVIOUS
<1>4. \E n \in Nat \ {0} : DOMAIN NoZone.ttis = 1 .. n /\ NoZone.typecnt \in 0 .. n
  BY <1>3 DEF NoZone
<1>5. \A i \in DOMAIN NoZone.ttis : TypeFits(NoZone.ttis[i])
  BY <1>2, <1>3 DEF NoZone
<1> QED
  BY <1>1, <1>4, <1>5 DEF ZoneFits, IsZone, NoZone

\* The type in force at a time is one of the zone's types.
LEMMA TypeInForce ==
  ASSUME NEW zone, ZoneFits(zone), NEW t
  PROVE  /\ TypeFits(TypeOfTime(t, zone))
         /\ \E i \in DOMAIN zone.ttis : (i = 1 \/ i <= zone.typecnt) /\ TypeOfTime(t, zone) = zone.ttis[i]
<1>1. PICK n \in Nat \ {0} : DOMAIN zone.ttis = 1 .. n /\ zone.typecnt \in 0 .. n
  BY DEF ZoneFits
<1>2. \A i \in 1 .. n : TypeFits(zone.ttis[i])
  BY <1>1 DEF ZoneFits
<1>3. CASE zone.ats = <<>> \/ t < zone.ats[1]
  <2> DEFINE most == Max({1, zone.typecnt})
             standard == {i \in 1 .. most : zone.ttis[i].isdst = 0}
  <2>1. most \in 1 .. n /\ (most = 1 \/ most = zone.typecnt)
    <3>1. \E x \in {1, zone.typecnt} : \A y \in {1, zone.typecnt} : x >= y
      BY <1>1
    <3>2. most \in {1, zone.typecnt} /\ (\A y \in {1, zone.typecnt} : most >= y)
      BY <3>1 DEF Max
    <3> HIDE DEF most
    <3> QED
      BY <1>1, <3>2
  <2>2. TypeOfTime(t, zone) = IF standard = {} THEN zone.ttis[1] ELSE zone.ttis[Min(standard)]
    BY <1>3 DEF TypeOfTime
  <2> HIDE DEF most
  <2>3. standard # {} => Min(standard) \in 1 .. n /\ (Min(standard) = 1 \/ Min(standard) <= zone.typecnt)
    <3>1. /\ standard \in SUBSET Nat /\ standard \subseteq 1 .. n
          /\ \A i \in standard : i = 1 \/ i <= zone.typecnt
      BY <1>1, <2>1
    <3> HIDE DEF standard
    <3>2. standard # {} => \E x \in standard : \A y \in standard : x <= y
      BY <3>1, Minimum
    <3>3. standard # {} => Min(standard) \in standard
      BY <3>2 DEF Min
    <3> QED
      BY <3>1, <3>3
  <2> HIDE DEF standard
  <2>4. PICK i \in 1 .. n : (i = 1 \/ i <= zone.typecnt) /\ TypeOfTime(t, zone) = zone.ttis[i]
    BY <1>1, <2>2, <2>3
  <2> QED
    BY <1>1, <1>2, <2>4
<1>4. CASE ~(zone.ats = <<>> \/ t < zone.ats[1])
  <2> DEFINE later == {i \in 2 .. Len(zone.ats) : t < zone.ats[i]}
             k == IF later = {} THEN Len(zone.ats) ELSE Min(later) - 1
  <2>1. /\ Len(zone.ats) \in Nat \ {0}
        /\ \A i \in 1 .. Len(zone.ats) : zone.types[i] + 1 \in 1 .. zone.typecnt
    BY <1>1, <1>4 DEF ZoneFits, Listed
  <2>2. k \in 1 .. Len(zone.ats)
    <3>1. later \in SUBSET Nat /\ later \subseteq 2 .. Len(zone.ats)
      OBVIOUS
    <3> HIDE DEF later
    <3>2. later # {} => \E x \in later : \A y \in later : x <= y
      BY <3>1, Minimum
    <3>3. later # {} => Min(later) \in 2 .. Len(zone.ats)
      BY <3>1, <3>2 DEF Min
    <3>4. CASE later = {}
      BY <2>1, <3>4
    <3>5. CASE later # {}
      <4>1. PICK m \in 2 .. Len(zone.ats) : m = Min(later)
        BY <3>3, <3>5
      <4>2. k = m - 1
        BY <3>5, <4>1
      <4> HIDE DEF k
      <4> QED
        BY <2>1, <4>1, <4>2
    <3> QED
      BY <3>4, <3>5
  <2>3. TypeOfTime(t, zone) = zone.ttis[zone.types[k] + 1]
    BY <1>4 DEF TypeOfTime, TypeAt
  <2> HIDE DEF k
  <2>4. PICK i \in 1 .. zone.typecnt : i = zone.types[k] + 1 /\ TypeOfTime(t, zone) = zone.ttis[i]
    BY <2>1, <2>2, <2>3
  <2> QED
    BY <1>1, <1>2, <2>4
<1> QED
  BY <1>3, <1>4

\* localtime's result in a zone that fits, for every time of 32 bits: every
\* field in its range, on a day of the calendar, and without leap seconds
\* the moment asked for, moved by the offset in force.
LEMMA LocalTimes ==
  ASSUME NEW zone, ZoneFits(zone), NEW t \in Times
  PROVE  LET now == Localsub(t, zone)
         IN  /\ InRangeFields(now) /\ now.gmtoff = TypeOfTime(t, zone).gmtoff
             /\ zone.leaps = <<>> =>
                    DayShown(now) * SecsPerDay + SecondShown(now) = t + now.gmtoff
             /\ now \in BrokenTimes /\ now.isdst = TypeOfTime(t, zone).isdst
             /\ zone.leaps = <<>> => now.sec \in 0 .. 59
<1> DEFINE type == TypeOfTime(t, zone)
           before == {i \in DOMAIN zone.leaps : t >= zone.leaps[i].trans}
           last == Max({0} \cup before)
           corrAt(i) == IF i = 0 THEN 0 ELSE zone.leaps[i].corr
           hit == last > 0 /\ t = zone.leaps[last].trans /\ corrAt(last) > corrAt(last - 1)
           secs == (t % SecsPerDay) + type.gmtoff - corrAt(last)
           days == t \div SecsPerDay
           broken == AtSecs(days, secs, hit, type.gmtoff)
           now == Localsub(t, zone)
<1> SUFFICES /\ InRangeFields(now) /\ now.gmtoff = type.gmtoff
             /\ zone.leaps = <<>> =>
                    DayShown(now) * SecsPerDay + SecondShown(now) = t + now.gmtoff
             /\ now \in BrokenTimes /\ now.isdst = type.isdst
             /\ zone.leaps = <<>> => now.sec \in 0 .. 59
  OBVIOUS
<1>1. now = [broken EXCEPT !.isdst = type.isdst]
  BY DEF Localsub, Timesub
<1>2. type.gmtoff \in Offsets
  BY TypeInForce DEF TypeFits
<1>3. corrAt(last) \in Offsets /\ (zone.leaps = <<>> => last = 0)
  <2>1. Listed(zone.leaps) /\ \A i \in 1 .. Len(zone.leaps) : zone.leaps[i].corr \in Offsets
    BY DEF ZoneFits
  <2>2. {0} \cup before \in SUBSET Nat /\ \A x \in {0} \cup before : x <= Len(zone.leaps)
    BY <2>1 DEF Listed
  <2>3. before \subseteq 1 .. Len(zone.leaps) /\ Len(zone.leaps) \in Nat
    BY <2>1 DEF Listed
  <2>4. zone.leaps = <<>> => before = {}
    BY <2>1 DEF Listed
  <2> HIDE DEF before
  <2>5. \E x \in {0} \cup before : \A y \in {0} \cup before : y <= x
    <3>1. {0} \cup before # {}
      OBVIOUS
    <3> QED
      BY <2>2, <2>3, <3>1, Maximum
  <2>6. \E x \in {0} \cup before : \A y \in {0} \cup before : x >= y
    BY <2>5
  <2>7. last \in {0} \cup before
    BY <2>6 DEF Max
  <2>8. 0 \in Offsets
    BY DEF Offsets
  <2> HIDE DEF last
  <2> QED
    BY <2>1, <2>3, <2>4, <2>7, <2>8
<1>4. hit \in BOOLEAN /\ (zone.leaps = <<>> => ~hit)
  <2>1. zone.leaps = <<>> => ~(last > 0)
    BY <1>3
  <2> QED
    BY <2>1
<1> HIDE DEF hit, corrAt, last, type
<1>5. PICK offset \in Int, corr \in Int :
        /\ offset = type.gmtoff /\ corr = corrAt(last)
        /\ -1000000 <= offset /\ offset <= 1000000 /\ -1000000 <= corr /\ corr <= 1000000
  BY <1>2, <1>3 DEF Offsets
<1> DEFINE s == t % SecsPerDay
<1>6. /\ t \in Int /\ -2147483648 <= t /\ t <= 2147483648
  BY DEF Times
<1>7. /\ days \in Int /\ s \in Int /\ 0 <= s /\ s < SecsPerDay /\ t = SecsPerDay * days + s
  BY <1>6, SMT DEF SecsPerDay
<1>8. -24856 <= days /\ days <= 24856
  <2> HIDE DEF days, s
  <2> QED
    BY <1>6, <1>7, SMT DEF SecsPerDay
<1>9. secs = s + offset - corr /\ secs \in Int /\ -2000000 <= secs /\ secs <= 2086400
  <2>1. secs = s + offset - corr
    BY <1>5
  <2> HIDE DEF s, secs
  <2> QED
    BY <1>5, <1>7, <2>1, SMT DEF SecsPerDay
<1> HIDE DEF secs, days, s
<1>10. days + (secs \div SecsPerDay) \in FarDays
  <2>1. PICK c \in Int : c = secs
    BY <1>9
  <2>2. (c \div 86400) \in Int /\ -24 <= (c \div 86400) /\ (c \div 86400) <= 25
    BY <1>9, <2>1, SMT
  <2> QED
    BY <1>7, <1>8, <2>1, <2>2, SMT DEF FarDays, SecsPerDay
<1>11. /\ InRangeFields(broken) /\ broken.gmtoff = type.gmtoff
       /\ DayShown(broken) * SecsPerDay + SecondShown(broken)
              = days * SecsPerDay + secs + (IF hit THEN 1 ELSE 0)
       /\ (type.gmtoff \in Int => broken \in BrokenTimes)
       /\ (~hit => broken.sec \in 0 .. 59)
  <2> HIDE DEF broken
  <2>1. broken = AtSecs(days, secs, hit, type.gmtoff)
    BY DEF broken
  <2>2. days \in Int /\ secs \in Int /\ hit \in BOOLEAN
    BY <1>4, <1>7, <1>9, SMT
  <2> QED
    BY <1>10, <2>1, <2>2, BreaksDown
<1>12. /\ now.year = broken.year /\ now.yday = broken.yday /\ now.mon = broken.mon
       /\ now.mday = broken.mday /\ now.wday = broken.wday /\ now.hour = broken.hour
       /\ now.min = broken.min /\ now.sec = broken.sec /\ now.gmtoff = broken.gmtoff
  BY <1>1 DEF AtSecs, OnDay, BrokenDown
<1>15. now \in BrokenTimes /\ now.isdst = type.isdst
  <2>1. broken \in BrokenTimes /\ type.isdst \in Int
    <3>1. type.isdst \in {0, 1}
      BY TypeInForce DEF TypeFits, type
    <3>2. type.gmtoff \in Int
      BY <1>5, SMT
    <3> HIDE DEF broken
    <3> QED
      BY <1>11, <3>1, <3>2
  <2>2. now = [broken EXCEPT !.isdst = type.isdst]
    BY <1>1
  <2> HIDE DEF now, broken
  <2> QED
    BY <2>1, <2>2 DEF BrokenTimes
<1> HIDE DEF now, broken
<1>13. InRangeFields(now) /\ DayShown(now) = DayShown(broken) /\ SecondShown(now) = SecondShown(broken)
  <2>1. InRangeFields(broken)
    BY <1>11
  <2> QED
    BY <1>12, <2>1 DEF InRangeFields, DayShown, SecondShown
<1>14. zone.leaps = <<>> => days * SecsPerDay + secs + (IF hit THEN 1 ELSE 0) = t + offset
  <2>1. zone.leaps = <<>> => corr = 0
    BY <1>3, <1>5 DEF corrAt
  <2>2. zone.leaps = <<>> => days * SecsPerDay + secs + 0 = t + offset
    BY <1>5, <1>7, <1>9, <2>1, SMT DEF SecsPerDay
  <2> QED
    BY <1>4, <2>2
<1> QED
  <2>1. /\ now.gmtoff = type.gmtoff /\ now.sec = broken.sec
        /\ DayShown(broken) * SecsPerDay + SecondShown(broken)
               = days * SecsPerDay + secs + (IF hit THEN 1 ELSE 0)
        /\ ~hit => broken.sec \in 0 .. 59
        /\ offset = type.gmtoff
    BY <1>5, <1>11, <1>12
  <2> QED
    BY <1>4, <1>13, <1>14, <1>15, <2>1
-----------------------------------------------------------------------------
(* tzset.                                                                  *)

\* What zic is taken to have installed: files that tzload's checks accept,
\* one for GMT among them.
FilesFit == "GMT" \in DOMAIN files /\ \A name \in DOMAIN files : ZoneFits(files[name])

\* Zones in which every time has the same local time.
SameZone(a, b) ==
    \/ a = b
    \/ /\ a.ats = <<>> /\ b.ats = <<>> /\ a.typecnt = 1 /\ b.typecnt = 1
       /\ a.ttis[1].gmtoff = b.ttis[1].gmtoff /\ a.ttis[1].isdst = 0 /\ b.ttis[1].isdst = 0
       /\ a.leaps = b.leaps

LEMMA SameTimes ==
  ASSUME NEW a, NEW b, SameZone(a, b), NEW t
  PROVE  Localsub(t, a) = Localsub(t, b)
<1>1. CASE a = b
  BY <1>1
<1>2. CASE ~(a = b)
  <2>1. /\ a.ats = <<>> /\ b.ats = <<>> /\ a.typecnt = 1 /\ b.typecnt = 1
        /\ a.ttis[1].gmtoff = b.ttis[1].gmtoff /\ a.ttis[1].isdst = 0 /\ b.ttis[1].isdst = 0
        /\ a.leaps = b.leaps
    BY <1>2 DEF SameZone
  <2>2. ASSUME NEW zone, zone.ats = <<>>, zone.typecnt = 1, zone.ttis[1].isdst = 0
        PROVE  TypeOfTime(t, zone) = zone.ttis[1]
    <3> DEFINE standard == {i \in 1 .. Max({1, zone.typecnt}) : zone.ttis[i].isdst = 0}
    <3>1. Max({1, zone.typecnt}) = 1
      <4>1. {1, zone.typecnt} = {1}
        BY <2>2
      <4> QED
        BY <4>1 DEF Max
    <3>2. standard = {1}
      BY <2>2, <3>1
    <3>3. TypeOfTime(t, zone) = IF standard = {} THEN zone.ttis[1] ELSE zone.ttis[Min(standard)]
      BY <2>2 DEF TypeOfTime
    <3> HIDE DEF standard
    <3>4. Min(standard) = 1
      BY <3>2 DEF Min
    <3> QED
      BY <3>3, <3>4
  <2>3. /\ TypeOfTime(t, a).gmtoff = TypeOfTime(t, b).gmtoff
        /\ TypeOfTime(t, a).isdst = TypeOfTime(t, b).isdst
    BY <2>1, <2>2
  <2>4. \A offset : Timesub(t, offset, a) = Timesub(t, offset, b)
    BY <2>1 DEF Timesub
  <2> QED
    BY <2>3, <2>4 DEF Localsub
<1> QED
  BY <1>1, <1>2

LEMMA OffsetsAreSmall ==
  ASSUME NEW off, SecsOK(off.hms)
  PROVE  OffsetSecs(off) \in Int /\ -90000 <= OffsetSecs(off) /\ OffsetSecs(off) <= 90000
<1> DEFINE hms == off.hms
           at(i) == IF i <= Len(hms) THEN hms[i] ELSE 0
<1>1. at(1) \in 0 .. 24 /\ at(2) \in 0 .. 59 /\ at(3) \in 0 .. 59
  BY DEF SecsOK
<1>2. Secs(hms) = at(1) * 3600 + at(2) * 60 + at(3)
  BY DEF Secs, SecsPerHour
<1> HIDE DEF at
<1>3. Secs(hms) \in Int /\ 0 <= Secs(hms) /\ Secs(hms) <= 90000
  <2>1. PICK h \in 0 .. 24, m \in 0 .. 59, s \in 0 .. 59 : h = at(1) /\ m = at(2) /\ s = at(3)
    BY <1>1
  <2>2. Secs(hms) = h * 3600 + m * 60 + s
    BY <1>2, <2>1
  <2> QED
    BY <2>2, SMT
<1>4. OffsetSecs(off) = IF off.neg THEN -Secs(hms) ELSE Secs(hms)
  BY DEF OffsetSecs
<1> HIDE DEF hms
<1> QED
  BY <1>3, <1>4, SMT

LEMMA FirstType ==
  ASSUME NEW zone, ZoneFits(zone)
  PROVE  1 \in DOMAIN zone.ttis /\ TypeFits(zone.ttis[1])
<1>1. PICK n \in Nat \ {0} : DOMAIN zone.ttis = 1 .. n
  BY DEF ZoneFits
<1>2. \A i \in DOMAIN zone.ttis : TypeFits(zone.ttis[i])
  BY DEF ZoneFits
<1> QED
  BY <1>1, <1>2

\* The first type of a zone set to one offset, as a string without summer
\* time and TZ="" do.
LEMMA OneTypeFits ==
  ASSUME NEW base, ZoneFits(base), NEW zone, NEW first,
         TypeFits(first), IsZone(zone),
         zone.leaps = base.leaps \/ zone.leaps = <<>>, zone.ats = <<>>,
         zone.typecnt \in {1, base.typecnt}, zone.ttis = [base.ttis EXCEPT ![1] = first]
  PROVE  ZoneFits(zone) /\ zone.ttis[1] = first
<1>1. PICK n \in Nat \ {0} : DOMAIN base.ttis = 1 .. n /\ base.typecnt \in 0 .. n
  BY DEF ZoneFits
<1>2. \A i \in 1 .. n : TypeFits(base.ttis[i])
  BY <1>1 DEF ZoneFits
<1>3. DOMAIN zone.ttis = 1 .. n /\ zone.typecnt \in 0 .. n
  BY <1>1
<1>4. zone.ttis[1] = first /\ \A i \in 1 .. n : TypeFits(zone.ttis[i])
  BY <1>1, <1>2
<1>5. Listed(<<>>)
  BY DEF Listed
<1>6. Listed(base.leaps) /\ \A i \in 1 .. Len(base.leaps) : base.leaps[i].corr \in Offsets
  BY DEF ZoneFits
<1>7. Listed(zone.leaps) /\ \A i \in 1 .. Len(zone.leaps) : zone.leaps[i].corr \in Offsets
  BY <1>5, <1>6
<1>8. Listed(zone.ats) /\ \A i \in 1 .. Len(zone.ats) : zone.types[i] + 1 \in 1 .. zone.typecnt
  BY <1>5
<1>9. \E m \in Nat \ {0} : DOMAIN zone.ttis = 1 .. m /\ zone.typecnt \in 0 .. m
  BY <1>3
<1>10. \A i \in DOMAIN zone.ttis : TypeFits(zone.ttis[i])
  BY <1>3, <1>4
<1> QED
  BY <1>4, <1>7, <1>8, <1>9, <1>10 DEF ZoneFits

PlainZone(zone, base, stdoff) ==
    /\ zone.ats = <<>> /\ zone.typecnt = 1 /\ zone.leaps = base.leaps
    /\ zone.ttis[1].gmtoff = -stdoff /\ zone.ttis[1].isdst = 0

\* A string without summer time: one type, and none of the times of before.
LEMMA PlainMade ==
  ASSUME NEW base, ZoneFits(base), NEW text, NEW stdoff \in Offsets,
         NEW got, got = [ok |-> TRUE, zone |-> [base EXCEPT !.typecnt = 1, !.ats = <<>>, !.types = <<>>,
                          !.chars = Names(text),
                          !.ttis[1] = [@ EXCEPT !.gmtoff = -stdoff, !.isdst = 0, !.abbrind = 0]]]
  PROVE  got.ok = TRUE /\ ZoneFits(got.zone) /\ PlainZone(got.zone, base, stdoff)
<1> DEFINE first == [base.ttis[1] EXCEPT !.gmtoff = -stdoff, !.isdst = 0, !.abbrind = 0]
           made == [base EXCEPT !.typecnt = 1, !.ats = <<>>, !.types = <<>>, !.chars = Names(text),
                       !.ttis[1] = [@ EXCEPT !.gmtoff = -stdoff, !.isdst = 0, !.abbrind = 0]]
<1>1. got.ok = TRUE /\ got.zone = made
  OBVIOUS
<1>2. base = [leaps |-> base.leaps, ats |-> base.ats, types |-> base.types,
              typecnt |-> base.typecnt, ttis |-> base.ttis, chars |-> base.chars]
  BY DEF ZoneFits, IsZone
<1>3. got.ok = TRUE /\ got.zone = [leaps |-> base.leaps, ats |-> <<>>, types |-> <<>>, typecnt |-> 1,
                                   ttis |-> [base.ttis EXCEPT ![1] = first], chars |-> Names(text)]
  <2>1. made = [base EXCEPT !.typecnt = 1, !.ats = <<>>, !.types = <<>>, !.chars = Names(text),
                        !.ttis = [@ EXCEPT ![1] = first]]
    OBVIOUS
  <2> HIDE DEF first, made
  <2> QED
    BY <1>1, <1>2, <2>1
<1>4. PICK g, d, name, std :
        base.ttis[1] = [gmtoff |-> g, isdst |-> d, abbrind |-> name, ttisstd |-> std]
  BY FirstType DEF TypeFits
<1>5. TypeFits(first) /\ first.gmtoff = -stdoff /\ first.isdst = 0
  <2>1. first = [gmtoff |-> -stdoff, isdst |-> 0, abbrind |-> 0, ttisstd |-> std]
    <3>1. PICK r : r = base.ttis[1]
      OBVIOUS
    <3>2. r = [gmtoff |-> g, isdst |-> d, abbrind |-> name, ttisstd |-> std]
      BY <1>4, <3>1
    <3>3. first = [r EXCEPT !.gmtoff = -stdoff, !.isdst = 0, !.abbrind = 0]
      BY <3>1
    <3> HIDE <1>4, <3>1
    <3> HIDE DEF first
    <3> QED
      BY <3>2, <3>3
  <2>2. -stdoff \in Offsets
    BY OffsetsNegate
  <2> HIDE DEF first
  <2> QED
    BY <2>1, <2>2 DEF TypeFits
<1> HIDE DEF first
<1>6. /\ ZoneFits(got.zone) /\ got.zone.ttis[1] = first
      /\ got.zone.ats = <<>> /\ got.zone.typecnt = 1 /\ got.zone.leaps = base.leaps
  <2>1. PICK zone : zone = got.zone
    OBVIOUS
  <2>2. /\ IsZone(zone)
        /\ zone.leaps = base.leaps /\ zone.ats = <<>> /\ zone.typecnt = 1
        /\ zone.ttis = [base.ttis EXCEPT ![1] = first]
    <3> DEFINE table == [base.ttis EXCEPT ![1] = first]
    <3> HIDE DEF table
    <3>1. zone = [leaps |-> base.leaps, ats |-> <<>>, types |-> <<>>, typecnt |-> 1,
                  ttis |-> table, chars |-> Names(text)]
      BY <1>3, <2>1 DEF table
    <3> HIDE <1>3, <2>1
    <3>2. zone.ttis = table /\ zone.typecnt = 1 /\ zone.ats = <<>> /\ zone.leaps = base.leaps
      BY <3>1
    <3>3. IsZone(zone)
      BY <3>1 DEF IsZone
    <3> QED
      BY <3>2, <3>3 DEF table
  <2>3. zone.leaps = base.leaps \/ zone.leaps = <<>>
    BY <2>2
  <2>4. zone.typecnt \in {1, base.typecnt}
    BY <2>2
  <2>5. IsZone(zone) /\ zone.ats = <<>> /\ zone.ttis = [base.ttis EXCEPT ![1] = first]
    BY <2>2
  <2>6. TypeFits(first)
    BY <1>5
  <2>7. ZoneFits(zone) /\ zone.ttis[1] = first
    BY <2>3, <2>4, <2>5, <2>6, OneTypeFits, Zenon
  <2> QED
    BY <2>1, <2>2, <2>7
<1>7. got.zone.ttis[1].gmtoff = -stdoff /\ got.zone.ttis[1].isdst = 0
  BY <1>5, <1>6
<1> QED
  BY <1>3, <1>6, <1>7 DEF PlainZone

LEMMA PlainFits ==
  ASSUME NEW base, ZoneFits(base), NEW text, NEW stdoff \in Offsets, NEW dstoff, text.dst = "",
         NEW got, got = ParseOffsets(text, base, stdoff, dstoff)
  PROVE  got.ok = TRUE /\ ZoneFits(got.zone) /\ PlainZone(got.zone, base, stdoff)
<1>1. got = [ok |-> TRUE, zone |-> [base EXCEPT !.typecnt = 1, !.ats = <<>>, !.types = <<>>,
                          !.chars = Names(text),
                          !.ttis[1] = [@ EXCEPT !.gmtoff = -stdoff, !.isdst = 0, !.abbrind = 0]]]
  BY DEF ParseOffsets
<1> QED
  BY <1>1, PlainMade, Zenon
\* A string with both of its rules: every table is the string's own.
LEMMA RulesReplace ==
  ASSUME NEW text, NEW base, ZoneFits(base), NEW stdoff, NEW dstoff
  PROVE  LET trans == RuleTransitions(text.rules, stdoff, dstoff, LastYear)
             summer == [gmtoff |-> -dstoff, isdst |-> 1, abbrind |-> AbbrSize, ttisstd |-> 0]
             winter == [gmtoff |-> -stdoff, isdst |-> 0, abbrind |-> 0, ttisstd |-> 0]
         IN  WithRules(text, base, stdoff, dstoff) =
               [leaps |-> base.leaps, ats |-> trans.ats, types |-> trans.types,
                typecnt |-> 2, ttis |-> <<summer, winter>>, chars |-> Names(text)]
<1> DEFINE trans == RuleTransitions(text.rules, stdoff, dstoff, LastYear)
           summer == [gmtoff |-> -dstoff, isdst |-> 1, abbrind |-> AbbrSize, ttisstd |-> 0]
           winter == [gmtoff |-> -stdoff, isdst |-> 0, abbrind |-> 0, ttisstd |-> 0]
           zone == WithRules(text, base, stdoff, dstoff)
<1>1. zone = [base EXCEPT !.typecnt = 2, !.ats = trans.ats, !.types = trans.types,
                !.ttis = <<summer, winter>>, !.chars = Names(text)]
  BY DEF WithRules
<1> HIDE DEF trans, summer, winter, zone
<1>2. PICK b, leaps, ats, types, typecnt, ttis, chars :
        /\ b = base /\ leaps = base.leaps
        /\ b = [leaps |-> leaps, ats |-> ats, types |-> types,
                typecnt |-> typecnt, ttis |-> ttis, chars |-> chars]
  BY DEF ZoneFits, IsZone
<1>3. zone = [leaps |-> leaps, ats |-> trans.ats, types |-> trans.types,
              typecnt |-> 2, ttis |-> <<summer, winter>>, chars |-> Names(text)]
  <2>1. zone = [b EXCEPT !.typecnt = 2, !.ats = trans.ats, !.types = trans.types,
                  !.ttis = <<summer, winter>>, !.chars = Names(text)]
    BY <1>1, <1>2
  <2>2. b = [leaps |-> leaps, ats |-> ats, types |-> types,
             typecnt |-> typecnt, ttis |-> ttis, chars |-> chars]
    BY <1>2
  <2> HIDE <1>2
  <2> QED
    BY <2>1, <2>2
<1>4. zone = [leaps |-> base.leaps, ats |-> trans.ats, types |-> trans.types,
              typecnt |-> 2, ttis |-> <<summer, winter>>, chars |-> Names(text)]
  BY <1>2, <1>3
<1> QED
  BY <1>4 DEF zone, trans, summer, winter

LEMMA RulesFit ==
  ASSUME NEW text, NEW base, ZoneFits(base), NEW stdoff \in Offsets, NEW dstoff \in Offsets
  PROVE  ZoneFits(WithRules(text, base, stdoff, dstoff))
<1> DEFINE n == 2 * (LastYear - EpochYear + 1)
           trans == RuleTransitions(text.rules, stdoff, dstoff, LastYear)
           summer == [gmtoff |-> -dstoff, isdst |-> 1, abbrind |-> AbbrSize, ttisstd |-> 0]
           winter == [gmtoff |-> -stdoff, isdst |-> 0, abbrind |-> 0, ttisstd |-> 0]
           zone == WithRules(text, base, stdoff, dstoff)
<1>1. n \in Nat
  BY LastYearAssumption DEF EpochYear
<1>2. /\ DOMAIN trans.ats = 1 .. n /\ trans.ats = [i \in DOMAIN trans.ats |-> trans.ats[i]]
      /\ \A i \in 1 .. n : trans.types[i] \in {0, 1}
  BY DEF RuleTransitions
<1>3. TypeFits(summer) /\ TypeFits(winter)
  BY OffsetsNegate DEF TypeFits
<1>4. zone = [leaps |-> base.leaps, ats |-> trans.ats, types |-> trans.types,
              typecnt |-> 2, ttis |-> <<summer, winter>>, chars |-> Names(text)]
  BY RulesReplace
<1> HIDE DEF n, trans, summer, winter, zone
<1>5. /\ IsZone(zone) /\ zone.leaps = base.leaps /\ zone.ats = trans.ats /\ zone.types = trans.types
      /\ zone.typecnt = 2 /\ zone.ttis = <<summer, winter>>
  BY <1>4 DEF IsZone
<1>6. Listed(zone.ats) /\ Len(zone.ats) = n
  BY <1>1, <1>2, <1>5, FitsTables
<1>7. DOMAIN zone.ttis = 1 .. 2 /\ zone.ttis[1] = summer /\ zone.ttis[2] = winter
  BY <1>5
<1>8. Listed(zone.leaps) /\ \A i \in 1 .. Len(zone.leaps) : zone.leaps[i].corr \in Offsets
  BY <1>5 DEF ZoneFits
<1>9. \A i \in 1 .. Len(zone.ats) : zone.types[i] + 1 \in 1 .. zone.typecnt
  BY <1>2, <1>5, <1>6, <1>7
<1>10. \E m \in Nat \ {0} : DOMAIN zone.ttis = 1 .. m /\ zone.typecnt \in 0 .. m
  BY <1>5, <1>7
<1>11. \A i \in DOMAIN zone.ttis : TypeFits(zone.ttis[i])
  BY <1>3, <1>7
<1>12. ZoneFits(zone)
  BY <1>5, <1>6, <1>8, <1>9, <1>10, <1>11 DEF ZoneFits
<1> QED
  BY <1>12 DEF zone

LEMMA TypeMoved ==
  ASSUME NEW type, TypeFits(type), NEW off \in Offsets, NEW name
  PROVE  TypeFits([type EXCEPT !.gmtoff = off, !.abbrind = name])
<1> DEFINE moved == [type EXCEPT !.gmtoff = off, !.abbrind = name]
<1>1. PICK t, g, d, a, std :
        /\ t = type /\ t = [gmtoff |-> g, isdst |-> d, abbrind |-> a, ttisstd |-> std]
        /\ d \in {0, 1}
  BY DEF TypeFits
<1>2. moved = [t EXCEPT !.gmtoff = off, !.abbrind = name]
  BY <1>1
<1>3. t = [gmtoff |-> g, isdst |-> d, abbrind |-> a, ttisstd |-> std] /\ d \in {0, 1}
  BY <1>1
<1> HIDE <1>1
<1> HIDE DEF moved
<1>4. moved = [gmtoff |-> off, isdst |-> d, abbrind |-> name, ttisstd |-> std]
  BY <1>2, <1>3
<1>5. moved.gmtoff = off /\ moved.isdst = d /\ moved.abbrind = name /\ moved.ttisstd = std
  BY <1>4
<1>6. TypeFits(moved)
  BY <1>3, <1>4, <1>5 DEF TypeFits
<1> QED
  BY <1>6 DEF moved

\* posixrules' transitions, moved: as many, of the same types.
LEMMA DefaultsFit ==
  ASSUME NEW text, NEW base, ZoneFits(base), NEW stdoff \in Offsets, NEW dstoff \in Offsets
  PROVE  ZoneFits(WithDefaults(text, base, stdoff, dstoff).zone)
<1> DEFINE zone == WithDefaults(text, base, stdoff, dstoff).zone
           dst(i) == base.ttis[i].isdst = 1
           fix(i) == base.ttis[i].gmtoff + (IF dst(i) THEN dstoff ELSE stdoff)
           fixOf(isdst) == fix(CHOOSE i \in 1 .. base.typecnt : dst(i) = isdst)
           inDst(i) == i > 1 /\ TypeAt(base, base.types[i - 1]).isdst = 1
           wall(i) == TypeAt(base, base.types[i]).ttisstd = 0
           bad == {i \in 1 .. base.typecnt : \E j \in 1 .. i - 1 : dst(i) = dst(j) /\ fix(i) # fix(j)}
           both == \E i, j \in 1 .. base.typecnt : dst(i) /\ ~dst(j)
           table == [i \in DOMAIN base.ttis |->
                    CASE i > base.typecnt \/ (\E k \in bad : k <= i) -> base.ttis[i]
                      [] i <= base.typecnt /\ (\A k \in bad : i < k) /\ dst(i) ->
                            [base.ttis[i] EXCEPT !.gmtoff = -dstoff, !.abbrind = AbbrSize]
                      [] OTHER -> [base.ttis[i] EXCEPT !.gmtoff = -stdoff, !.abbrind = 0]]
           shifted == [i \in DOMAIN base.ats |-> base.ats[i] + fixOf(inDst(i) /\ wall(i))]
<1>1. zone = IF bad # {} \/ ~both THEN [base EXCEPT !.ttis = table]
             ELSE [[base EXCEPT !.ttis = table] EXCEPT !.ats = shifted, !.chars = Names(text)]
  BY SMTT(30) DEF WithDefaults
<1>2. /\ DOMAIN table = DOMAIN base.ttis
      /\ \A i \in DOMAIN base.ttis :
            \/ table[i] = base.ttis[i]
            \/ table[i] = [base.ttis[i] EXCEPT !.gmtoff = -dstoff, !.abbrind = AbbrSize]
            \/ table[i] = [base.ttis[i] EXCEPT !.gmtoff = -stdoff, !.abbrind = 0]
  <2> SUFFICES ASSUME NEW i \in DOMAIN base.ttis
               PROVE  \/ table[i] = base.ttis[i]
                      \/ table[i] = [base.ttis[i] EXCEPT !.gmtoff = -dstoff, !.abbrind = AbbrSize]
                      \/ table[i] = [base.ttis[i] EXCEPT !.gmtoff = -stdoff, !.abbrind = 0]
    OBVIOUS
  <2> DEFINE left == i > base.typecnt \/ (\E k \in bad : k <= i)
             summer == i <= base.typecnt /\ (\A k \in bad : i < k) /\ dst(i)
             dstType == [base.ttis[i] EXCEPT !.gmtoff = -dstoff, !.abbrind = AbbrSize]
             stdType == [base.ttis[i] EXCEPT !.gmtoff = -stdoff, !.abbrind = 0]
  <2> HIDE DEF bad, dst
  <2>1. table[i] = CASE left -> base.ttis[i] [] summer -> dstType [] OTHER -> stdType
    OBVIOUS
  <2> HIDE DEF left, summer, table, dstType, stdType
  <2>2. table[i] = base.ttis[i] \/ table[i] = dstType \/ table[i] = stdType
    BY <2>1
  <2> QED
    BY <2>2 DEF dstType, stdType
<1>3. DOMAIN shifted = DOMAIN base.ats /\ shifted = [i \in DOMAIN shifted |-> shifted[i]]
  <2> HIDE DEF fixOf, inDst, wall
  <2> QED
    OBVIOUS
<1> HIDE DEF table, shifted, bad, both, zone
<1>4. \A i \in DOMAIN base.ttis : TypeFits(table[i])
  <2> SUFFICES ASSUME NEW i \in DOMAIN base.ttis PROVE TypeFits(table[i])
    OBVIOUS
  <2>1. TypeFits(base.ttis[i])
    BY DEF ZoneFits
  <2>2. TypeFits([base.ttis[i] EXCEPT !.gmtoff = -dstoff, !.abbrind = AbbrSize])
    BY <2>1, OffsetsNegate, TypeMoved
  <2>3. TypeFits([base.ttis[i] EXCEPT !.gmtoff = -stdoff, !.abbrind = 0])
    BY <2>1, OffsetsNegate, TypeMoved
  <2> QED
    BY <1>2, <2>1, <2>2, <2>3
<1>5. \E ats, chars : /\ ats = base.ats \/ ats = shifted
                     /\ zone = [leaps |-> base.leaps, ats |-> ats, types |-> base.types,
                                typecnt |-> base.typecnt, ttis |-> table, chars |-> chars]
  <2>1. PICK b, leaps, ats, types, typecnt, ttis, chars :
          /\ b = base /\ leaps = base.leaps /\ ats = base.ats /\ types = base.types
          /\ typecnt = base.typecnt
          /\ b = [leaps |-> leaps, ats |-> ats, types |-> types,
                  typecnt |-> typecnt, ttis |-> ttis, chars |-> chars]
    BY DEF ZoneFits, IsZone
  <2>2. \/ zone = [b EXCEPT !.ttis = table]
        \/ zone = [[b EXCEPT !.ttis = table] EXCEPT !.ats = shifted, !.chars = Names(text)]
    BY <1>1, <2>1
  <2>3. b = [leaps |-> leaps, ats |-> ats, types |-> types,
             typecnt |-> typecnt, ttis |-> ttis, chars |-> chars]
    BY <2>1
  <2> HIDE <2>1
  <2>4. \/ zone = [leaps |-> leaps, ats |-> ats, types |-> types,
                   typecnt |-> typecnt, ttis |-> table, chars |-> chars]
        \/ zone = [leaps |-> leaps, ats |-> shifted, types |-> types,
                   typecnt |-> typecnt, ttis |-> table, chars |-> Names(text)]
    BY <2>2, <2>3
  <2> QED
    BY <2>1, <2>4
<1>6. /\ IsZone(zone) /\ zone.leaps = base.leaps /\ zone.types = base.types
      /\ zone.typecnt = base.typecnt /\ zone.ttis = table
      /\ zone.ats = base.ats \/ zone.ats = shifted
  <2>1. PICK ats, chars : /\ ats = base.ats \/ ats = shifted
                          /\ zone = [leaps |-> base.leaps, ats |-> ats, types |-> base.types,
                                     typecnt |-> base.typecnt, ttis |-> table, chars |-> chars]
    BY <1>5
  <2> QED
    BY <2>1 DEF IsZone
<1>7. Listed(base.ats) /\ \A i \in 1 .. Len(base.ats) : base.types[i] + 1 \in 1 .. base.typecnt
  BY DEF ZoneFits
<1>8. Listed(zone.ats) /\ Len(zone.ats) = Len(base.ats)
  <2>1. Len(base.ats) \in Nat /\ DOMAIN base.ats = 1 .. Len(base.ats)
    BY <1>7 DEF Listed
  <2>2. Listed(shifted) /\ Len(shifted) = Len(base.ats)
    BY <1>3, <2>1, FitsTables
  <2> QED
    BY <1>6, <1>7, <2>2
<1>9. Listed(zone.leaps) /\ \A i \in 1 .. Len(zone.leaps) : zone.leaps[i].corr \in Offsets
  BY <1>6 DEF ZoneFits
<1>10. \A i \in 1 .. Len(zone.ats) : zone.types[i] + 1 \in 1 .. zone.typecnt
  BY <1>2, <1>6, <1>7, <1>8
<1>11. \E m \in Nat \ {0} : DOMAIN zone.ttis = 1 .. m /\ zone.typecnt \in 0 .. m
  BY <1>2, <1>6 DEF ZoneFits
<1>12. \A i \in DOMAIN zone.ttis : TypeFits(zone.ttis[i])
  BY <1>2, <1>4, <1>6
<1>13. ZoneFits(zone)
  BY <1>6, <1>8, <1>9, <1>10, <1>11, <1>12 DEF ZoneFits
<1> QED
  BY <1>13 DEF zone
LEMMA NoLeapsFit ==
  ASSUME NEW base, ZoneFits(base)
  PROVE  LET zone == [base EXCEPT !.leaps = <<>>] IN ZoneFits(zone) /\ zone.leaps = <<>>
<1> DEFINE zone == [base EXCEPT !.leaps = <<>>]
<1> SUFFICES ZoneFits(zone) /\ zone.leaps = <<>>
  OBVIOUS
<1>1. PICK b, leaps, ats, types, typecnt, ttis, chars :
        /\ b = base /\ ats = base.ats /\ types = base.types /\ typecnt = base.typecnt /\ ttis = base.ttis
        /\ b = [leaps |-> leaps, ats |-> ats, types |-> types,
                typecnt |-> typecnt, ttis |-> ttis, chars |-> chars]
  BY DEF ZoneFits, IsZone
<1>2. zone = [b EXCEPT !.leaps = <<>>]
  BY <1>1
<1> HIDE DEF zone
<1>3. zone = [leaps |-> <<>>, ats |-> ats, types |-> types,
              typecnt |-> typecnt, ttis |-> ttis, chars |-> chars]
  <2>1. b = [leaps |-> leaps, ats |-> ats, types |-> types,
             typecnt |-> typecnt, ttis |-> ttis, chars |-> chars]
    BY <1>1
  <2> HIDE <1>1
  <2> QED
    BY <1>2, <2>1
<1>4. /\ IsZone(zone) /\ zone.leaps = <<>> /\ zone.ats = base.ats /\ zone.types = base.types
      /\ zone.typecnt = base.typecnt /\ zone.ttis = base.ttis
  BY <1>1, <1>3 DEF IsZone
<1>5. Listed(zone.leaps) /\ Len(zone.leaps) = 0
  BY <1>4 DEF Listed
<1>6. /\ Listed(base.ats) /\ \A i \in 1 .. Len(base.ats) : base.types[i] + 1 \in 1 .. base.typecnt
      /\ \E n \in Nat \ {0} : DOMAIN base.ttis = 1 .. n /\ base.typecnt \in 0 .. n
      /\ \A i \in DOMAIN base.ttis : TypeFits(base.ttis[i])
  BY DEF ZoneFits
<1>7. \A i \in 1 .. Len(zone.leaps) : zone.leaps[i].corr \in Offsets
  BY <1>5
<1> QED
  BY <1>4, <1>5, <1>6, <1>7 DEF ZoneFits

LEMMA StringOffsets ==
  ASSUME NEW text, Readable(text), RestOK(text, TRUE) \/ RestOK(text, FALSE)
  PROVE  LET stdoff == OffsetSecs(text.off)
             dstoff == IF text.dstoff.hms = <<>> THEN stdoff - SecsPerHour ELSE OffsetSecs(text.dstoff)
         IN  stdoff \in Offsets /\ dstoff \in Offsets
<1>1. SecsOK(text.off.hms) /\ (text.dstoff.hms # <<>> => SecsOK(text.dstoff.hms))
  BY DEF Readable, RestOK
<1>2. PICK o : o = OffsetSecs(text.off) /\ o \in Int /\ -90000 <= o /\ o <= 90000
  BY <1>1, OffsetsAreSmall
<1>3. text.dstoff.hms # <<>> => /\ OffsetSecs(text.dstoff) \in Int
                                /\ -90000 <= OffsetSecs(text.dstoff) /\ OffsetSecs(text.dstoff) <= 90000
  BY <1>1, OffsetsAreSmall
<1>4. o \in Offsets /\ o - SecsPerHour \in Offsets
  BY <1>2, SMT DEF Offsets, SecsPerHour
<1>5. text.dstoff.hms # <<>> => OffsetSecs(text.dstoff) \in Offsets
  BY <1>3, SMT DEF Offsets
<1> QED
  BY <1>2, <1>4, <1>5

\* What a readable string leaves of a zone that fits.
LEMMA RestFits ==
  ASSUME NEW text, Readable(text), NEW base, ZoneFits(base), NEW haverules \in BOOLEAN
  PROVE  ZoneFits(ParseRest(text, base, haverules).zone)
<1> DEFINE stdoff == OffsetSecs(text.off)
           dstoff == IF text.dstoff.hms = <<>> THEN stdoff - SecsPerHour ELSE OffsetSecs(text.dstoff)
<1>1. CASE ~RestOK(text, haverules)
  BY <1>1 DEF ParseRest
<1>2. CASE RestOK(text, haverules)
  <2>1. stdoff \in Offsets /\ dstoff \in Offsets
    BY <1>2, StringOffsets
  <2>2. ParseRest(text, base, haverules) = ParseOffsets(text, base, stdoff, dstoff)
    BY <1>2 DEF ParseRest
  <2> HIDE DEF stdoff, dstoff
  <2>3. CASE text.dst = ""
    <3>1. ZoneFits(ParseOffsets(text, base, stdoff, dstoff).zone)
      BY <2>1, <2>3, PlainFits
    <3> QED
      BY <2>2, <3>1
  <2>4. CASE text.dst # "" /\ text.rules # <<>>
    <3>1. ParseOffsets(text, base, stdoff, dstoff) = [ok |-> TRUE, zone |-> WithRules(text, base, stdoff, dstoff)]
      BY <2>4 DEF ParseOffsets
    <3> QED
      BY <2>1, <2>2, <3>1, RulesFit
  <2>5. CASE text.dst # "" /\ text.rules = <<>>
    <3>1. ParseOffsets(text, base, stdoff, dstoff) = WithDefaults(text, base, stdoff, dstoff)
      BY <2>5 DEF ParseOffsets
    <3> QED
      BY <2>1, <2>2, <3>1, DefaultsFit
  <2> QED
    BY <2>3, <2>4, <2>5
<1> QED
  BY <1>1, <1>2

LEMMA LoadFits ==
  ASSUME FilesFit, NEW name, NEW zone, ZoneFits(zone)
  PROVE  /\ ZoneFits(Tzload(name, zone).zone) /\ Tzload(name, zone).ok \in BOOLEAN
         /\ ZoneFits(Tzparse(name, zone).zone)
<1>1. ASSUME NEW file
      PROVE  ZoneFits(Tzload(file, zone).zone) /\ Tzload(file, zone).ok \in BOOLEAN
  BY DEF Tzload, FilesFit, FlagsOK
<1>2. CASE ~Readable(Texts[name])
  BY <1>1, <1>2 DEF Tzparse
<1>3. CASE Readable(Texts[name])
  <2> DEFINE load == Tzload("posixrules", zone)
             base == IF load.ok THEN load.zone ELSE [load.zone EXCEPT !.leaps = <<>>]
  <2>1. Tzparse(name, zone) = ParseRest(Texts[name], base, load.ok)
    BY <1>3 DEF Tzparse, ParseOver
  <2>2. ZoneFits(load.zone) /\ load.ok \in BOOLEAN
    BY <1>1
  <2> HIDE DEF load
  <2>3. ZoneFits(base)
    BY <2>2, NoLeapsFit
  <2> HIDE DEF base
  <2> QED
    BY <1>1, <1>3, <2>1, <2>2, <2>3, RestFits
<1> QED
  BY <1>2, <1>3

\* With a GMT file on the disk the last resort is the same for every zone.
LEMMA GmtFits ==
  ASSUME FilesFit, NEW zone, NEW other
  PROVE  ZoneFits(Gmtload(zone)) /\ Gmtload(zone) = Gmtload(other)
<1> DEFINE gmt == Tzload("GMT", zone)
<1>1. /\ gmt = [ok |-> FlagsOK(files["GMT"]), zone |-> files["GMT"]]
      /\ Tzload("GMT", other) = gmt
  BY DEF FilesFit, Tzload
<1>2. ZoneFits(files["GMT"])
  BY DEF FilesFit
<1>3. /\ Gmtload(zone) = IF gmt.ok THEN gmt.zone ELSE Tzparse("GMT", gmt.zone).zone
      /\ Gmtload(other) = IF gmt.ok THEN gmt.zone ELSE Tzparse("GMT", gmt.zone).zone
  BY <1>1 DEF Gmtload, OrElse
<1>4. ZoneFits(gmt.zone)
  BY <1>1, <1>2
<1> HIDE DEF gmt
<1> QED
  BY <1>3, <1>4, LoadFits
\* TZ set again to a string means the same whatever was in force before.
LEMMA StringForgets ==
  ASSUME NEW text, Readable(text), NEW zone, ZoneFits(zone), zone.leaps = <<>>,
         NEW other, ZoneFits(other), other.leaps = <<>>
  PROVE  LET a == ParseRest(text, zone, FALSE)
             b == ParseRest(text, other, FALSE)
         IN  a.ok = b.ok /\ (a.ok => SameZone(a.zone, b.zone))
<1> DEFINE stdoff == OffsetSecs(text.off)
           dstoff == IF text.dstoff.hms = <<>> THEN stdoff - SecsPerHour ELSE OffsetSecs(text.dstoff)
           a == ParseRest(text, zone, FALSE)
           b == ParseRest(text, other, FALSE)
<1> SUFFICES a.ok = b.ok /\ (a.ok => SameZone(a.zone, b.zone))
  OBVIOUS
<1>1. CASE ~RestOK(text, FALSE)
  BY <1>1 DEF ParseRest
<1>2. CASE RestOK(text, FALSE)
  <2>1. stdoff \in Offsets /\ dstoff \in Offsets
    BY <1>2, StringOffsets
  <2>2. a = ParseOffsets(text, zone, stdoff, dstoff) /\ b = ParseOffsets(text, other, stdoff, dstoff)
    BY <1>2 DEF ParseRest
  <2>3. text.dst = "" \/ text.rules # <<>>
    BY <1>2 DEF RestOK
  <2> HIDE DEF stdoff, dstoff, a, b
  <2>4. CASE text.dst = ""
    <3>1. a.ok = TRUE /\ PlainZone(a.zone, zone, stdoff)
      BY <2>1, <2>2, <2>4, PlainFits, Zenon
    <3>2. b.ok = TRUE /\ PlainZone(b.zone, other, stdoff)
      BY <2>1, <2>2, <2>4, PlainFits, Zenon
    <3> QED
      BY <3>1, <3>2 DEF PlainZone, SameZone
  <2>5. CASE text.dst # "" /\ text.rules # <<>>
    <3>1. /\ a = [ok |-> TRUE, zone |-> WithRules(text, zone, stdoff, dstoff)]
          /\ b = [ok |-> TRUE, zone |-> WithRules(text, other, stdoff, dstoff)]
      BY <2>2, <2>5 DEF ParseOffsets
    <3>2. WithRules(text, zone, stdoff, dstoff) = WithRules(text, other, stdoff, dstoff)
      <4> DEFINE trans == RuleTransitions(text.rules, stdoff, dstoff, LastYear)
                 summer == [gmtoff |-> -dstoff, isdst |-> 1, abbrind |-> AbbrSize, ttisstd |-> 0]
                 winter == [gmtoff |-> -stdoff, isdst |-> 0, abbrind |-> 0, ttisstd |-> 0]
                 made(leaps) == [leaps |-> leaps, ats |-> trans.ats, types |-> trans.types,
                                 typecnt |-> 2, ttis |-> <<summer, winter>>, chars |-> Names(text)]
      <4>1. /\ WithRules(text, zone, stdoff, dstoff) = made(zone.leaps)
            /\ WithRules(text, other, stdoff, dstoff) = made(other.leaps)
        BY RulesReplace, Zenon
      <4> HIDE DEF made
      <4> QED
        BY <4>1, Zenon
    <3> QED
      BY <3>1, <3>2 DEF SameZone
  <2> QED
    BY <2>3, <2>4, <2>5
<1> QED
  BY <1>1, <1>2

LEMMA ParseForgets ==
  ASSUME NEW name, NEW zone, ZoneFits(zone), NEW other, ZoneFits(other)
  PROVE  LET a == Tzparse(name, zone)
             b == Tzparse(name, other)
         IN  a.ok = b.ok /\ (a.ok => SameZone(a.zone, b.zone))
<1> DEFINE text == Texts[name]
<1> SUFFICES /\ Tzparse(name, zone).ok = Tzparse(name, other).ok
             /\ Tzparse(name, zone).ok => SameZone(Tzparse(name, zone).zone, Tzparse(name, other).zone)
  OBVIOUS
<1>1. CASE ~Readable(text)
  BY <1>1 DEF Tzparse
<1>2. CASE Readable(text) /\ "posixrules" \in DOMAIN files
  <2>1. Tzload("posixrules", zone) = Tzload("posixrules", other)
    BY <1>2 DEF Tzload
  <2>2. Tzparse(name, zone) = Tzparse(name, other)
    BY <1>2, <2>1 DEF Tzparse
  <2> QED
    BY <2>2 DEF SameZone
<1>3. CASE Readable(text) /\ "posixrules" \notin DOMAIN files
  <2>1. ASSUME NEW z
        PROVE  Tzparse(name, z) = ParseRest(text, [z EXCEPT !.leaps = <<>>], FALSE)
    <3>1. Tzload("posixrules", z) = [ok |-> FALSE, zone |-> z]
      BY <1>3 DEF Tzload
    <3>2. Tzparse(name, z) = ParseOver(text, Tzload("posixrules", z))
      BY <1>3 DEF Tzparse
    <3>3. ParseOver(text, [ok |-> FALSE, zone |-> z]) = ParseRest(text, [z EXCEPT !.leaps = <<>>], FALSE)
      BY DEF ParseOver
    <3> QED
      BY <3>1, <3>2, <3>3
  <2> DEFINE a == [zone EXCEPT !.leaps = <<>>]
             b == [other EXCEPT !.leaps = <<>>]
  <2>2. ZoneFits(a) /\ a.leaps = <<>> /\ ZoneFits(b) /\ b.leaps = <<>>
    BY NoLeapsFit
  <2>3. Tzparse(name, zone) = ParseRest(text, a, FALSE) /\ Tzparse(name, other) = ParseRest(text, b, FALSE)
    BY <2>1
  <2> HIDE DEF a, b, text
  <2>4. LET x == ParseRest(text, a, FALSE)
            y == ParseRest(text, b, FALSE)
        IN  x.ok = y.ok /\ (x.ok => SameZone(x.zone, y.zone))
    BY <1>3, <2>2, StringForgets
  <2> QED
    BY <2>3, <2>4
<1> QED
  BY <1>1, <1>2, <1>3

LEMMA GmtZoneFits ==
  ASSUME NEW zone, ZoneFits(zone)
  PROVE  ZoneFits(GmtZone(zone))
<1> DEFINE first == [zone.ttis[1] EXCEPT !.gmtoff = 0, !.abbrind = 0]
           table == [zone.ttis EXCEPT ![1] = first]
           letters == [i \in DOMAIN zone.chars \cup {0} |-> IF i = 0 THEN "GMT" ELSE zone.chars[i]]
           made == GmtZone(zone)
<1>1. made = [zone EXCEPT !.leaps = <<>>, !.ats = <<>>, !.types = <<>>, !.ttis = table, !.chars = letters]
  BY DEF GmtZone
<1>2. TypeFits(first)
  <2>1. PICK type, zero : type = zone.ttis[1] /\ zero = 0
    OBVIOUS
  <2>2. TypeFits(type) /\ zero \in Offsets
    <3>1. TypeFits(type)
      BY <2>1, FirstType
    <3>2. zero \in Offsets
      BY <2>1, SMT DEF Offsets
    <3> QED
      BY <3>1, <3>2
  <2>3. TypeFits([type EXCEPT !.gmtoff = zero, !.abbrind = 0])
    BY <2>2, TypeMoved
  <2> QED
    BY <2>1, <2>3
<1> HIDE DEF made, letters, table, first
<1>3. /\ IsZone(made) /\ made.leaps = <<>> /\ made.ats = <<>> /\ made.typecnt = zone.typecnt
      /\ made.ttis = table
  <2>1. PICK b, leaps, ats, types, typecnt, ttis, chars :
          /\ b = zone /\ typecnt = zone.typecnt
          /\ b = [leaps |-> leaps, ats |-> ats, types |-> types,
                  typecnt |-> typecnt, ttis |-> ttis, chars |-> chars]
    BY DEF ZoneFits, IsZone
  <2>2. made = [b EXCEPT !.leaps = <<>>, !.ats = <<>>, !.types = <<>>, !.ttis = table, !.chars = letters]
    BY <1>1, <2>1
  <2>3. b = [leaps |-> leaps, ats |-> ats, types |-> types,
             typecnt |-> typecnt, ttis |-> ttis, chars |-> chars]
    BY <2>1
  <2>4. made = [leaps |-> <<>>, ats |-> <<>>, types |-> <<>>,
                typecnt |-> typecnt, ttis |-> table, chars |-> letters]
    <3> HIDE <2>1
    <3> QED
      BY <2>2, <2>3
  <2> QED
    BY <2>1, <2>4 DEF IsZone
<1>4. made.leaps = zone.leaps \/ made.leaps = <<>>
  BY <1>3
<1>5. made.typecnt \in {1, zone.typecnt}
  BY <1>3
<1>6. IsZone(made) /\ made.ats = <<>> /\ made.ttis = [zone.ttis EXCEPT ![1] = first]
  BY <1>3 DEF table
<1>7. ZoneFits(made)
  BY <1>2, <1>4, <1>5, <1>6, OneTypeFits, Zenon
<1> QED
  BY <1>7 DEF made

LEMMA WallZoneFits ==
  ASSUME FilesFit, NEW zone, ZoneFits(zone), NEW other
  PROVE  ZoneFits(WallZone(zone)) /\ SameZone(WallZone(zone), WallZone(other))
<1>1. ASSUME NEW z
      PROVE  WallZone(z) = LET got == Tzload("localtime", z)
                           IN  IF got.ok THEN got.zone ELSE Gmtload(got.zone)
  BY DEF WallZone, OrElse
<1>2. ZoneFits(WallZone(zone))
  <2> DEFINE got == Tzload("localtime", zone)
  <2>1. ZoneFits(got.zone)
    BY LoadFits
  <2>2. WallZone(zone) = IF got.ok THEN got.zone ELSE Gmtload(got.zone)
    BY <1>1
  <2> HIDE DEF got
  <2> QED
    BY <2>1, <2>2, GmtFits
<1>3. CASE "localtime" \in DOMAIN files
  <2>1. Tzload("localtime", zone) = Tzload("localtime", other)
    BY <1>3 DEF Tzload
  <2>2. WallZone(zone) = WallZone(other)
    BY <1>1, <2>1
  <2> QED
    BY <1>2, <2>2 DEF SameZone
<1>4. CASE "localtime" \notin DOMAIN files
  <2>1. ASSUME NEW z
        PROVE  WallZone(z) = Gmtload(z)
    <3>1. Tzload("localtime", z) = [ok |-> FALSE, zone |-> z]
      BY <1>4 DEF Tzload
    <3> QED
      BY <1>1, <3>1
  <2>2. WallZone(zone) = WallZone(other)
    BY <2>1, GmtFits
  <2> QED
    BY <1>2, <2>2 DEF SameZone
<1> QED
  BY <1>3, <1>4

LEMMA NamedZoneFits ==
  ASSUME FilesFit, NEW name, NEW zone, ZoneFits(zone), NEW other, ZoneFits(other)
  PROVE  ZoneFits(NamedZone(name, zone)) /\ SameZone(NamedZone(name, zone), NamedZone(name, other))
<1> DEFINE else(z) == IF Texts[name].colon THEN Gmtload(z)
                      ELSE IF Tzparse(name, z).ok THEN Tzparse(name, z).zone
                      ELSE Gmtload(Tzparse(name, z).zone)
<1>1. ASSUME NEW z
      PROVE  NamedZone(name, z) = LET got == Tzload(name, z)
                                  IN  IF got.ok THEN got.zone ELSE else(got.zone)
  BY DEF NamedZone, OrElse
<1>2. ASSUME NEW z, ZoneFits(z)
      PROVE  ZoneFits(else(z))
  <2>1. ZoneFits(Tzparse(name, z).zone)
    BY <1>2, LoadFits
  <2> QED
    BY <2>1, GmtFits
<1>3. SameZone(else(zone), else(other))
  <2>1. CASE Texts[name].colon
    BY <2>1, GmtFits DEF SameZone
  <2>2. CASE ~Texts[name].colon
    <3>1. /\ Tzparse(name, zone).ok = Tzparse(name, other).ok
          /\ Tzparse(name, zone).ok => SameZone(Tzparse(name, zone).zone, Tzparse(name, other).zone)
      BY ParseForgets
    <3>2. Gmtload(Tzparse(name, zone).zone) = Gmtload(Tzparse(name, other).zone)
      BY GmtFits
    <3>3. SameZone(Gmtload(Tzparse(name, zone).zone), Gmtload(Tzparse(name, other).zone))
      BY <3>2 DEF SameZone
    <3> QED
      BY <2>2, <3>1, <3>3
  <2> QED
    BY <2>1, <2>2
<1> HIDE DEF else
<1>4. ZoneFits(NamedZone(name, zone))
  <2> DEFINE got == Tzload(name, zone)
  <2>1. ZoneFits(got.zone)
    BY LoadFits
  <2>2. NamedZone(name, zone) = IF got.ok THEN got.zone ELSE else(got.zone)
    BY <1>1
  <2> HIDE DEF got
  <2> QED
    BY <1>2, <2>1, <2>2
<1>5. CASE name \in DOMAIN files
  <2>1. Tzload(name, zone) = Tzload(name, other)
    BY <1>5 DEF Tzload
  <2>2. NamedZone(name, zone) = NamedZone(name, other)
    BY <1>1, <2>1
  <2> QED
    BY <1>4, <2>2 DEF SameZone
<1>6. CASE name \notin DOMAIN files
  <2>1. ASSUME NEW z
        PROVE  NamedZone(name, z) = else(z)
    <3>1. Tzload(name, z) = [ok |-> FALSE, zone |-> z]
      BY <1>6 DEF Tzload
    <3> QED
      BY <1>1, <3>1
  <2>2. NamedZone(name, zone) = else(zone) /\ NamedZone(name, other) = else(other)
    BY <2>1
  <2> QED
    BY <1>3, <1>4, <2>2
<1> QED
  BY <1>5, <1>6

\* tzset: whatever TZ says, the zone fits; and unless TZ is "", it is the
\* same zone whatever was in force before.
LEMMA ZoneOfFits ==
  ASSUME FilesFit, NEW name, NEW zone, ZoneFits(zone), NEW other, ZoneFits(other)
  PROVE  /\ ZoneFits(ZoneOf(name, zone))
         /\ name # "" => SameZone(ZoneOf(name, zone), ZoneOf(name, other))
<1>1. CASE name = ""
  <2>1. ZoneOf(name, zone) = GmtZone(zone)
    BY <1>1, Zenon DEF ZoneOf
  <2> QED
    BY <1>1, <2>1, GmtZoneFits, Zenon
<1>2. CASE name = "unset"
  <2>1. name # ""
    BY <1>2, Zenon
  <2>2. ASSUME NEW z PROVE ZoneOf(name, z) = WallZone(z)
    BY <1>2, <2>1, Zenon DEF ZoneOf
  <2> QED
    BY <2>2, WallZoneFits, Zenon
<1>3. CASE name # "" /\ name # "unset"
  <2>1. name \notin {"", "unset"}
    BY <1>3, Zenon
  <2>2. ASSUME NEW z PROVE ZoneOf(name, z) = NamedZone(name, z)
    BY <1>3, <2>1, Zenon DEF ZoneOf
  <2> QED
    BY <2>2, NamedZoneFits, Zenon
<1> QED
  BY <1>1, <1>2, <1>3, Zenon-----------------------------------------------------------------------------
(* The program.                                                            *)

\* What tzset makes of a TZ depends on the files alone.
LEMMA SameFiles ==
  ASSUME files' = files, NEW CONSTANT name, NEW CONSTANT zone
  PROVE  ZoneOf(name, zone)' = ZoneOf(name, zone)
<1>1. ASSUME NEW CONSTANT file, NEW CONSTANT z PROVE Tzload(file, z)' = Tzload(file, z)
  BY DEF Tzload
<1>2. ASSUME NEW CONSTANT file, NEW CONSTANT z PROVE Tzparse(file, z)' = Tzparse(file, z)
  BY <1>1 DEF Tzparse
<1>3. ASSUME NEW CONSTANT z PROVE Gmtload(z)' = Gmtload(z)
  BY <1>1, <1>2 DEF Gmtload, OrElse
<1>4. WallZone(zone)' = WallZone(zone)
  BY <1>1, <1>3 DEF WallZone, OrElse
<1>5. NamedZone(name, zone)' = NamedZone(name, zone)
  BY <1>1, <1>2, <1>3 DEF NamedZone, OrElse
<1> QED
  BY <1>4, <1>5, Zenon DEF ZoneOf

\* A time_t has at most 31 value bits.
LEMMA TimesAreShort == 2^TimeBits \in Nat /\ 2^TimeBits <= 2147483648
<1>1. \A n \in Nat : 2^(n + 1) = 2 * 2^n
  BY PowerDoubles
<1>2. 2^0 = 1
  OBVIOUS
<1>3. /\ 2^1 = 2 /\ 2^2 = 4 /\ 2^3 = 8 /\ 2^4 = 16
      /\ 2^5 = 32 /\ 2^6 = 64 /\ 2^7 = 128 /\ 2^8 = 256
  <2>1. /\ 2^(0 + 1) = 2 * 2^0 /\ 2^(1 + 1) = 2 * 2^1 /\ 2^(2 + 1) = 2 * 2^2 /\ 2^(3 + 1) = 2 * 2^3
        /\ 2^(4 + 1) = 2 * 2^4 /\ 2^(5 + 1) = 2 * 2^5 /\ 2^(6 + 1) = 2 * 2^6 /\ 2^(7 + 1) = 2 * 2^7
    BY <1>1, SMT
  <2> QED
    BY <1>2, <2>1, SMT
<1>4. /\ 2^9 = 512 /\ 2^10 = 1024 /\ 2^11 = 2048 /\ 2^12 = 4096
      /\ 2^13 = 8192 /\ 2^14 = 16384 /\ 2^15 = 32768 /\ 2^16 = 65536
  <2>1. /\ 2^(8 + 1) = 2 * 2^8 /\ 2^(9 + 1) = 2 * 2^9 /\ 2^(10 + 1) = 2 * 2^10 /\ 2^(11 + 1) = 2 * 2^11
        /\ 2^(12 + 1) = 2 * 2^12 /\ 2^(13 + 1) = 2 * 2^13 /\ 2^(14 + 1) = 2 * 2^14 /\ 2^(15 + 1) = 2 * 2^15
    BY <1>1, SMT
  <2> QED
    BY <1>3, <2>1, SMT
<1>5. /\ 2^17 = 131072 /\ 2^18 = 262144 /\ 2^19 = 524288 /\ 2^20 = 1048576
      /\ 2^21 = 2097152 /\ 2^22 = 4194304 /\ 2^23 = 8388608 /\ 2^24 = 16777216
  <2>1. /\ 2^(16 + 1) = 2 * 2^16 /\ 2^(17 + 1) = 2 * 2^17 /\ 2^(18 + 1) = 2 * 2^18 /\ 2^(19 + 1) = 2 * 2^19
        /\ 2^(20 + 1) = 2 * 2^20 /\ 2^(21 + 1) = 2 * 2^21 /\ 2^(22 + 1) = 2 * 2^22 /\ 2^(23 + 1) = 2 * 2^23
    BY <1>1, SMT
  <2> QED
    BY <1>4, <2>1, SMT
<1>6. /\ 2^25 = 33554432 /\ 2^26 = 67108864 /\ 2^27 = 134217728 /\ 2^28 = 268435456
      /\ 2^29 = 536870912 /\ 2^30 = 1073741824 /\ 2^31 = 2147483648
  <2>1. /\ 2^(24 + 1) = 2 * 2^24 /\ 2^(25 + 1) = 2 * 2^25 /\ 2^(26 + 1) = 2 * 2^26 /\ 2^(27 + 1) = 2 * 2^27
        /\ 2^(28 + 1) = 2 * 2^28 /\ 2^(29 + 1) = 2 * 2^29 /\ 2^(30 + 1) = 2 * 2^30
    BY <1>1, SMT
  <2> QED
    BY <1>5, <2>1, SMT
<1>7. TimeBits \in 1 .. 31
  BY TimeBitsAssumption
<1>8. TimeBits \in Nat /\ 31 \in Nat /\ TimeBits <= 31
  BY <1>7
<1>9. 2^TimeBits \in Nat /\ 2^TimeBits <= 2^31
  BY <1>8, PowersGrow
<1> QED
  BY <1>6, <1>9, SMT
\* A zone that a program with this TZ, and none before, would have.
Fresh(name, zone) == name # "" => SameZone(zone, ZoneOf(name, NoZone))

LEMMA TzsetFresh ==
  ASSUME FilesFit, NEW name, NEW zone, ZoneFits(zone)
  PROVE  ZoneFits(ZoneOf(name, zone)) /\ Fresh(name, ZoneOf(name, zone))
BY ZoneOfFits, NoZoneFits, Zenon DEF Fresh

LEMMA StaysFresh ==
  ASSUME files' = files, NEW CONSTANT name, NEW CONSTANT zone
  PROVE  Fresh(name, zone)' <=> Fresh(name, zone)
BY SameFiles, Zenon DEF Fresh

LEMMA SamplesAreTimes ==
  ASSUME NEW zone, NEW t \in Samples(zone)
  PROVE  t \in Times
<1>1. PICK size \in Nat : size = 2^TimeBits /\ size <= 2147483648
  BY TimesAreShort
<1>2. t \in -size .. size - 1
  <2>1. t \in Moments \/ t \in 1 - size .. size - 1
    BY <1>1 DEF Samples
  <2>2. t \in Moments => t \in -size .. size - 1
    BY <1>1, MomentsAssumption
  <2> QED
    BY <2>1, <2>2
<1> QED
  BY <1>1, <1>2, SMT DEF Times

\* What holds of the zone in force: it fits, and it is one that TZ alone
\* decided.  No time is converted before zic has run.
ZoneInForce ==
    /\ ran \in Nat /\ when \in Times
    /\ ZoneFits(lcl)
    /\ lcl_is_set => ran = Len(Runs) /\ Fresh(loaded, lcl)

LEMMA ZoneAtStart == Init0 => ZoneInForce
<1>1. 0 \in Times
  BY SMT DEF Times
<1> QED
  BY <1>1, NoZoneFits DEF Init0, Init, ZoneInForce

LEMMA ZoneStaysInForce ==
  ASSUME ZoneInForce, ran = Len(Runs) => FilesFit, [Next]_<<vars, ran, loaded, when>>
  PROVE  ZoneInForce'
<1>1. 0 \in Times
  BY SMT DEF Times
<1>2. CASE RunZic
  <2>1. /\ ran < Len(Runs) /\ ran' = ran + 1 /\ when' = when /\ lcl' = lcl /\ lcl_is_set' = lcl_is_set
    BY <1>2 DEF RunZic
  <2>2. ~lcl_is_set
    BY <2>1 DEF ZoneInForce
  <2>3. ZoneFits(lcl)'
    BY <2>1 DEF ZoneInForce
  <2> QED
    BY <2>1, <2>2, <2>3 DEF ZoneInForce
<1>3. CASE Program /\ SetTZ
  <2>1. /\ ran' = ran /\ loaded' = loaded /\ lcl' = lcl /\ lcl_is_set' = lcl_is_set /\ files' = files /\ when' = 0
    BY <1>3 DEF Program, SetTZ, PutEnv
  <2>2. ZoneFits(lcl)' /\ (Fresh(loaded, lcl) => Fresh(loaded, lcl)')
    BY <2>1, StaysFresh DEF ZoneInForce
  <2> QED
    BY <1>1, <2>1, <2>2 DEF ZoneInForce
<1>4. CASE Program /\ CallTzset
  <2>1. /\ ran = Len(Runs) /\ ran' = ran /\ files' = files /\ when' = 0
        /\ loaded' = tz /\ lcl' = ZoneOf(tz, lcl) /\ lcl_is_set'
    BY <1>4 DEF Program, CallTzset, Tzset, SetZone
  <2>2. ZoneFits(ZoneOf(tz, lcl)) /\ Fresh(tz, ZoneOf(tz, lcl))
    BY <2>1, TzsetFresh DEF ZoneInForce
  <2>3. ZoneFits(lcl)' /\ Fresh(loaded, lcl)'
    BY <2>1, <2>2, StaysFresh
  <2> QED
    BY <1>1, <2>1, <2>3 DEF ZoneInForce
<1>5. CASE Program /\ CallLocaltime
  <2>1. ran = Len(Runs) /\ ran' = ran /\ files' = files
    BY <1>5 DEF Program, CallLocaltime, Localtime, SetZone
  <2>2. when' \in Times
    <3>1. when' = 0 \/ when' \in Samples(Zone)
      BY <1>5 DEF CallLocaltime
    <3> QED
      BY <1>1, <3>1, SamplesAreTimes
  <2>3. CASE lcl_is_set
    <3>1. lcl' = lcl /\ lcl_is_set' = lcl_is_set /\ loaded' = loaded
      BY <1>5, <2>3 DEF CallLocaltime, Localtime
    <3>2. ZoneFits(lcl)' /\ Fresh(loaded, lcl)'
      BY <2>1, <2>3, <3>1, StaysFresh DEF ZoneInForce
    <3> QED
      BY <2>1, <2>2, <3>2 DEF ZoneInForce
  <2>4. CASE ~lcl_is_set
    <3>1. lcl' = ZoneOf(tz, lcl) /\ lcl_is_set' /\ loaded' = tz
      BY <1>5, <2>4 DEF CallLocaltime, Localtime, Zone, SetZone
    <3>2. ZoneFits(ZoneOf(tz, lcl)) /\ Fresh(tz, ZoneOf(tz, lcl))
      BY <2>1, TzsetFresh DEF ZoneInForce
    <3>3. ZoneFits(lcl)' /\ Fresh(loaded, lcl)'
      BY <2>1, <3>1, <3>2, StaysFresh
    <3> QED
      BY <2>1, <2>2, <3>3 DEF ZoneInForce
  <2> QED
    BY <2>3, <2>4
<1>6. CASE UNCHANGED <<vars, ran, loaded, when>>
  <2>1. /\ ran' = ran /\ loaded' = loaded /\ lcl' = lcl /\ lcl_is_set' = lcl_is_set /\ files' = files /\ when' = when
    BY <1>6 DEF vars
  <2>2. ZoneFits(lcl)' /\ (Fresh(loaded, lcl) => Fresh(loaded, lcl)')
    BY <2>1, StaysFresh DEF ZoneInForce
  <2> QED
    BY <2>1, <2>2 DEF ZoneInForce
<1> QED
  BY <1>2, <1>3, <1>4, <1>5, <1>6 DEF Next
LEMMA ZoneIsInForce ==
  (Spec /\ [](ran = Len(Runs) => FilesFit)) => []ZoneInForce
<1> DEFINE Ready == ran = Len(Runs) => FilesFit
<1>1. Init0 => ZoneInForce
  BY ZoneAtStart
<1>2. ZoneInForce /\ Ready /\ [Next]_<<vars, ran, loaded, when>> => ZoneInForce'
  BY ZoneStaysInForce
<1> HIDE DEF Ready
<1>3. (Spec /\ []Ready) => []ZoneInForce
  BY <1>1, <1>2, PTL DEF Spec
<1> QED
  BY <1>3 DEF Ready

(* tzset leaves nothing of the zone before: as long as the files are ones  *)
(* that tzload accepts and there is one for GMT, the local times of every  *)
(* program are those of one that has set this TZ and no other, whatever TZ *)
(* strings and files there are and in whatever order it has set them       *)
(* (ctime.c:872-924; TZ="" is the exception).                              *)
THEOREM TzsetSafe ==
  (Spec /\ [](ran = Len(Runs) => FilesFit)) => []TzsetForgets
<1>1. ZoneInForce => TzsetForgets
  <2>1. ASSUME ZoneInForce, lcl_is_set, loaded # ""
        PROVE  SameZone(lcl, ZoneOf(loaded, NoZone))
    BY <2>1, Zenon DEF ZoneInForce, Fresh
  <2>2. SameZone(lcl, ZoneOf(loaded, NoZone)) => tm = Localsub(when, ZoneOf(loaded, NoZone))
    BY SameTimes DEF tm
  <2> QED
    BY <2>1, <2>2, Zenon DEF TzsetForgets
<1> QED
  BY <1>1, ZoneIsInForce, PTL

(* Every field that localtime fills in is in the range its users rely on,  *)
(* and they show one day of the calendar: the day of the year, the month   *)
(* and day, and the weekday are of the same day.  In a zone without leap   *)
(* seconds they show the moment asked for, moved by the offset in force    *)
(* (ctime.c:937-976, 1041-1130).                                           *)
THEOREM LocaltimeSafe ==
  (Spec /\ [](ran = Len(Runs) => FilesFit)) =>
      [](/\ InRangeFields(tm)
         /\ lcl.leaps = <<>> =>
                DayShown(tm) * SecsPerDay + SecondShown(tm) = when + TypeOfTime(when, lcl).gmtoff)
<1> DEFINE Shows == lcl.leaps = <<>> =>
                DayShown(tm) * SecsPerDay + SecondShown(tm) = when + TypeOfTime(when, lcl).gmtoff
<1>1. ZoneInForce => InRangeFields(tm) /\ Shows
  <2> SUFFICES ASSUME ZoneInForce PROVE InRangeFields(tm) /\ Shows
    OBVIOUS
  <2>1. PICK now, zone, t : now = tm /\ zone = lcl /\ t = when
    OBVIOUS
  <2>2. ZoneFits(zone) /\ t \in Times /\ now = Localsub(t, zone)
    BY <2>1 DEF ZoneInForce, tm
  <2>3. /\ InRangeFields(now) /\ now.gmtoff = TypeOfTime(t, zone).gmtoff
        /\ zone.leaps = <<>> => DayShown(now) * SecsPerDay + SecondShown(now) = t + now.gmtoff
    BY <2>2, LocalTimes
  <2> HIDE <2>2
  <2> QED
    BY <2>1, <2>3
<1> QED
  BY <1>1, ZoneIsInForce, PTL

(* The week numbers that strftime writes for %U and %W are right for every *)
(* local time, in every zone that fits (strftime.c:201-211).               *)
THEOREM WeeksSafe ==
  (Spec /\ [](ran = Len(Runs) => FilesFit)) => []WeeksCount
<1>1. ZoneInForce => WeeksCount
  <2> SUFFICES ASSUME ZoneInForce PROVE WeeksCount
    OBVIOUS
  <2>1. PICK now : now = tm
    OBVIOUS
  <2>2. InRangeFields(now)
    BY <2>1, LocalTimes DEF ZoneInForce, tm
  <2>3. now.wday \in 0 .. 6 /\ now.yday \in Nat
    BY <2>2 DEF InRangeFields, YearLength
  <2>4. /\ WeekFromSunday(now) =
               Cardinality({d \in 0 .. now.yday : (now.wday - (now.yday - d)) % 7 = 0})
        /\ WeekFromMonday(now) =
               Cardinality({d \in 0 .. now.yday : (now.wday - (now.yday - d)) % 7 = 1})
    BY <2>3, WeeksOfDays
  <2> HIDE <2>2, <2>3
  <2> QED
    BY <2>1, <2>4 DEF WeeksCount
<1> QED
  BY <1>1, ZoneIsInForce, PTL
-----------------------------------------------------------------------------
(* What strftime writes.                                                   *)

\* One item of a format, as the fold over the format takes it.
FmtStep(st, item, now, secs, zone) ==
  LET piece == Piece(item, now, secs, zone)
      need == IF item \in {"char", "%"} THEN 1 ELSE piece.len + 1
  IN  IF ~st.ok \/ Refused(item, now) \/ st.gsize < need
      THEN [st EXCEPT !.ok = FALSE]
      ELSE [st EXCEPT !.gsize = @ - piece.len, !.out = Append(@, piece)]
FmtStart(maxsize) == [ok |-> TRUE, gsize |-> maxsize, out |-> <<>>]

LEMMA ConvLength ==
  ASSUME NEW item, NEW n, NEW digits \in Nat
  PROVE  Conv(item, n, digits).len \in Nat
<1> DEFINE d == DigitsOf(n)
<1>1. d \in Nat
  <2> DEFINE K == {k \in 0 .. 9 : n >= 10^k}
  <2>1. IsFiniteSet(0 .. 9)
    <3>1. 0 \in Int /\ 9 \in Int
      OBVIOUS
    <3> QED
      BY <3>1, FS_Interval
  <2>2. IsFiniteSet(K)
    BY <2>1, FS_Subset
  <2> HIDE DEF K
  <2>3. Cardinality(K) \in Nat
    BY <2>2, FS_CardinalityType
  <2> QED
    BY <2>3 DEF DigitsOf, K
<1> HIDE DEF d
<1>2. Max({digits, d}) \in {digits, d}
  <2>1. \E x \in {digits, d} : \A y \in {digits, d} : x >= y
    BY <1>1
  <2> QED
    BY <2>1 DEF Max
<1> QED
  BY <1>1, <1>2 DEF Conv, d

LEMMA PieceLength ==
  ASSUME NEW item, NEW now, NEW secs, NEW zone \in Nat, ~Refused(item, now)
  PROVE  /\ Piece(item, now, secs, zone).len \in Nat
         /\ item \in {"char", "%"} => Piece(item, now, secs, zone).len = 1
<1>1. /\ item = "A" => now.wday \in 0 .. 6
      /\ item = "B" => now.mon \in 0 .. 11
  BY DEF Refused
<1>2. \A k \in 0 .. 6 : DayNameLengths[k + 1] \in Nat
  BY DEF DayNameLengths
<1>3. \A k \in 0 .. 11 : MonthNameLengths[k + 1] \in Nat
  BY DEF MonthNameLengths
<1>4. \A n, len : NamePiece(item, n, len).len = len
  BY DEF NamePiece
<1>5. \A n : \A digits \in Nat : Conv(item, n, digits).len \in Nat
  BY ConvLength
<1> DEFINE p == Piece(item, now, secs, zone)
<1>6. CASE item = "A"
  BY <1>1, <1>2, <1>4, <1>6 DEF Piece
<1>7. CASE item = "B"
  BY <1>1, <1>3, <1>4, <1>7 DEF Piece
<1>8. CASE item \notin {"A", "B"}
  <2>1. \/ \E n : \E digits \in Nat : p = Conv(item, n, digits)
        \/ \E n : \E len \in Nat : p = NamePiece(item, n, len)
    BY <1>8 DEF Piece
  <2>2. item \in {"char", "%"} => p = NamePiece(item, 0, 1)
    BY DEF Piece
  <2> HIDE DEF p
  <2>3. p.len \in Nat
    BY <1>4, <1>5, <2>1
  <2> QED
    BY <1>4, <2>2, <2>3 DEF p
<1> QED
  BY <1>6, <1>7, <1>8

\* The fold, place by place.
Pieces(items, now, secs, zone) == {Piece(items[k], now, secs, zone) : k \in 1 .. Len(items)}
Conversions(X) == [ok : BOOLEAN, gsize : Int, out : Seq(X)]
FmtFold(h, items, now, secs, zone, maxsize) ==
  /\ h[0] = FmtStart(maxsize)
  /\ \A k \in 1 .. Len(items) : h[k] = FmtStep(h[k - 1], items[k], now, secs, zone)
  /\ \A k \in 0 .. Len(items) : h[k] \in Conversions(Pieces(items, now, secs, zone))
  /\ Fmt(items, now, secs, zone, maxsize) = h[Len(items)]

LEMMA FmtSteps ==
  ASSUME NEW C, NEW items \in Seq(C), NEW now, NEW secs, NEW zone \in Nat, NEW maxsize \in Nat
  PROVE  \E h : FmtFold(h, items, now, secs, zone, maxsize)
<1> DEFINE n == Len(items)
           X == {Piece(items[k], now, secs, zone) : k \in 1 .. n}
           V == [ok : BOOLEAN, gsize : Int, out : Seq(X)]
           base == FmtStart(maxsize)
           G == [z \in (1 .. n) \X V |-> FmtStep(z[2], items[z[1]], now, secs, zone)]
           Body(s, g) == IF s = {} THEN base ELSE FmtStep(g[s \ {Max(s)}], items[Max(s)], now, secs, zone)
           iter == CHOOSE g : g = [s \in SUBSET DOMAIN items |-> Body(s, g)]
<1>0. n \in Nat /\ DOMAIN items = 1 .. n
  BY LenProperties
<1>1. Fmt(items, now, secs, zone, maxsize) = iter[DOMAIN items]
  BY DEF Fmt, FoldLeft, MapThenFoldSet, FmtStep, FmtStart
<1>2. ASSUME NEW k \in 1 .. n, NEW v \in V
      PROVE  FmtStep(v, items[k], now, secs, zone) \in V
  <2> DEFINE item == items[k]
             piece == Piece(item, now, secs, zone)
             need == IF item \in {"char", "%"} THEN 1 ELSE piece.len + 1
  <2>1. piece \in X
    OBVIOUS
  <2>2. ~Refused(item, now) => piece.len \in Nat
    BY PieceLength
  <2>3. FmtStep(v, item, now, secs, zone) =
          IF ~v.ok \/ Refused(item, now) \/ v.gsize < need
          THEN [v EXCEPT !.ok = FALSE]
          ELSE [v EXCEPT !.gsize = @ - piece.len, !.out = Append(@, piece)]
    BY DEF FmtStep
  <2> HIDE DEF piece, need, item, X
  <2>4. [v EXCEPT !.ok = FALSE] \in V
    OBVIOUS
  <2>5. Append(v.out, piece) \in Seq(X)
    BY <2>1, AppendProperties
  <2>6. piece.len \in Nat => [v EXCEPT !.gsize = @ - piece.len, !.out = Append(@, piece)] \in V
    <3>1. piece.len \in Nat => v.gsize - piece.len \in Int
      OBVIOUS
    <3>2. \A x \in Int, y \in Seq(X) : [v EXCEPT !.gsize = x, !.out = y] \in V
      OBVIOUS
    <3> HIDE DEF V
    <3> QED
      BY <2>5, <3>1, <3>2
  <2>7. FmtStep(v, item, now, secs, zone) \in V
    <3> HIDE DEF V
    <3> QED
      BY <2>2, <2>3, <2>4, <2>6
  <2> QED
    BY <2>7 DEF item
<1>3. base \in V
  BY DEF FmtStart
<1>4. \A k \in 1 .. n : \A v \in V : G[<<k, v>>] = FmtStep(v, items[k], now, secs, zone)
  <2> HIDE DEF V, n
  <2> QED
    OBVIOUS
<1> HIDE DEF V, X, G, base
<1>5. Foldable(G, base, n, V)
  BY <1>0, <1>2, <1>3, <1>4 DEF Foldable
<1>6. PICK g : FoldsUp(g, G, base, n, V)
  BY <1>5, FoldUp
<1>7. g = [s \in SUBSET (1 .. n) |-> Body(s, g)]
  <2>1. /\ g = [s \in SUBSET (1 .. n) |-> FoldStep(G, base, s, g)]
        /\ g \in [SUBSET (1 .. n) -> V]
    BY <1>6 DEF FoldsUp
  <2>2. \A s : Highest(s) = Max(s)
    BY DEF Highest, Max
  <2>3. ASSUME NEW s \in SUBSET (1 .. n) PROVE FoldStep(G, base, s, g) = Body(s, g)
    <3>1. CASE s = {}
      BY <3>1 DEF FoldStep
    <3>2. CASE s # {}
      <4>1. Highest(s) \in 1 .. n /\ s \ {Highest(s)} \in SUBSET (1 .. n)
        BY <1>0, <3>2, HighestOf
      <4>2. g[s \ {Highest(s)}] \in V
        BY <2>1, <4>1
      <4>3. FoldStep(G, base, s, g) = G[<<Highest(s), g[s \ {Highest(s)}]>>]
        BY <3>2 DEF FoldStep
      <4> QED
        BY <1>4, <2>2, <3>2, <4>1, <4>2, <4>3
    <3> QED
      BY <3>1, <3>2
  <2> HIDE DEF Body
  <2> QED
    BY <2>1, <2>3
<1>8. iter = [s \in SUBSET (1 .. n) |-> Body(s, iter)]
  <2>1. \E f : f = [s \in SUBSET (1 .. n) |-> Body(s, f)]
    BY <1>7
  <2> HIDE DEF Body, n
  <2> QED
    BY <1>0, <2>1 DEF iter
<1> HIDE DEF iter
<1>9. ASSUME NEW k \in 1 .. n
      PROVE  iter[1 .. k] = FmtStep(iter[1 .. k - 1], items[k], now, secs, zone)
  <2>1. k \in Nat \ {0} /\ 1 .. k \in SUBSET (1 .. n) /\ 1 .. k # {}
    <3>1. k \in Nat \ {0} /\ k \in 1 .. k
      BY <1>0
    <3> HIDE DEF n
    <3>2. 1 .. k \subseteq 1 .. n
      BY <1>0, <3>1
    <3> QED
      BY <3>1, <3>2
  <2>2. Max(1 .. k) = k /\ (1 .. k) \ {k} = 1 .. k - 1
    BY <2>1, HighestOfInterval DEF Highest, Max
  <2>3. iter[1 .. k] = Body(1 .. k, iter)
    <3> HIDE DEF Body
    <3> QED
      BY <1>8, <2>1
  <2> QED
    BY <2>1, <2>2, <2>3
<1>10. iter[{}] = base
  <2>1. {} \in SUBSET (1 .. n)
    OBVIOUS
  <2>2. iter[{}] = Body({}, iter)
    <3> HIDE DEF Body
    <3> QED
      BY <1>8, <2>1
  <2> QED
    BY <2>2
<1> DEFINE h == [k \in 0 .. n |-> iter[1 .. k]]
<1>11. h[0] = FmtStart(maxsize)
  <2>1. 1 .. 0 = {} /\ 0 \in 0 .. n
    BY <1>0
  <2> QED
    BY <1>10, <2>1 DEF base
<1>12. \A k \in 1 .. n : h[k] = FmtStep(h[k - 1], items[k], now, secs, zone)
  <2>1. ASSUME NEW k \in 1 .. n PROVE h[k] = FmtStep(h[k - 1], items[k], now, secs, zone)
    <3>1. k \in 0 .. n /\ k - 1 \in 0 .. n
      BY <1>0
    <3>2. h[k] = iter[1 .. k] /\ h[k - 1] = iter[1 .. k - 1]
      BY <3>1
    <3> HIDE DEF h
    <3> QED
      BY <1>9, <3>2
  <2> QED
    BY <2>1
<1>13. Fmt(items, now, secs, zone, maxsize) = h[n]
  BY <1>0, <1>1
<1>14. \A k \in 0 .. n : h[k] \in V
  <2> DEFINE T == {k \in Nat : k <= n => h[k] \in V}
  <2>1. 0 \in T
    BY <1>3, <1>11 DEF base
  <2> HIDE DEF h
  <2>2. ASSUME NEW k \in Nat, k \in T PROVE k + 1 \in T
    <3>1. CASE k + 1 <= n
      <4>1. h[k] \in V /\ k + 1 \in 1 .. n /\ (k + 1) - 1 = k
        BY <1>0, <2>2, <3>1
      <4> QED
        BY <1>2, <1>12, <4>1
    <3> QED
      BY <1>0, <3>1
  <2> HIDE DEF T
  <2>3. \A k \in Nat : k \in T
    BY <2>1, <2>2, Induction
  <2> QED
    BY <1>0, <2>3 DEF T
<1>15. V = Conversions(Pieces(items, now, secs, zone))
  BY DEF V, X, Conversions, Pieces
<1> HIDE DEF h
<1>16. FmtFold(h, items, now, secs, zone, maxsize)
  BY <1>11, <1>12, <1>13, <1>14, <1>15 DEF FmtFold
<1> QED
  BY <1>16

\* An item that goes in and one that does not.
FmtStepped(st, next, item, now, secs, zone) ==
  LET piece == Piece(item, now, secs, zone)
      need == IF item \in {"char", "%"} THEN 1 ELSE piece.len + 1
  IN  IF ~st.ok \/ Refused(item, now) \/ st.gsize < need
      THEN next.ok = FALSE /\ next.gsize = st.gsize /\ next.out = st.out
      ELSE next.ok = st.ok /\ next.gsize = st.gsize - piece.len /\ next.out = Append(st.out, piece)

LEMMA FmtStepFields ==
  ASSUME NEW X, NEW st \in Conversions(X), NEW item, NEW now, NEW secs, NEW zone
  PROVE  FmtStepped(st, FmtStep(st, item, now, secs, zone), item, now, secs, zone)
<1> DEFINE piece == Piece(item, now, secs, zone)
           need == IF item \in {"char", "%"} THEN 1 ELSE piece.len + 1
           no == ~st.ok \/ Refused(item, now) \/ st.gsize < need
           fail == [st EXCEPT !.ok = FALSE]
           add == [st EXCEPT !.gsize = @ - piece.len, !.out = Append(@, piece)]
<1>1. FmtStep(st, item, now, secs, zone) = IF no THEN fail ELSE add
  BY DEF FmtStep
<1> HIDE DEF piece, no
<1>2. fail.ok = FALSE /\ fail.gsize = st.gsize /\ fail.out = st.out
  BY DEF Conversions
<1>3. add.ok = st.ok /\ add.gsize = st.gsize - piece.len /\ add.out = Append(st.out, piece)
  BY DEF Conversions
<1> HIDE DEF fail, add
<1>4. CASE no
  BY <1>1, <1>2, <1>4 DEF piece, no, FmtStepped
<1>5. CASE ~no
  BY <1>1, <1>3, <1>5 DEF piece, no, FmtStepped
<1> QED
  BY <1>4, <1>5

\* A conversion into M characters beside the same one into N, where M is not
\* more than N.
Beside(g, w, M, N) ==
  /\ g.ok \in BOOLEAN /\ g.gsize \in 0 .. M
  /\ w.ok \in BOOLEAN /\ w.gsize \in 0 .. N
  /\ g.ok => w.ok /\ g.out = w.out /\ M - g.gsize = N - w.gsize
  /\ w.ok /\ ~g.ok => N - w.gsize >= M

LEMMA StaysBeside ==
  ASSUME NEW M \in Nat, NEW N \in Nat, M <= N, NEW X, NEW g \in Conversions(X), NEW w \in Conversions(X),
         Beside(g, w, M, N), NEW item, NEW now, NEW secs, NEW zone \in Nat
  PROVE  Beside(FmtStep(g, item, now, secs, zone), FmtStep(w, item, now, secs, zone), M, N)
<1> DEFINE piece == Piece(item, now, secs, zone)
           len == piece.len
           need == IF item \in {"char", "%"} THEN 1 ELSE len + 1
           no(st) == ~st.ok \/ Refused(item, now) \/ st.gsize < need
           step(st) == FmtStep(st, item, now, secs, zone)
<1>1. ASSUME NEW st \in Conversions(X)
      PROVE  IF no(st) THEN step(st).ok = FALSE /\ step(st).gsize = st.gsize /\ step(st).out = st.out
             ELSE step(st).ok = st.ok /\ step(st).gsize = st.gsize - len /\ step(st).out = Append(st.out, piece)
  <2>1. FmtStepped(st, step(st), item, now, secs, zone)
    BY FmtStepFields
  <2> HIDE DEF step
  <2> QED
    BY <2>1 DEF FmtStepped
<1>2. ~Refused(item, now) => len \in Nat /\ (need = 1 \/ need = len + 1) /\ (len # need => need = len + 1)
                             /\ (len = need => need = 1)
  <2> SUFFICES ASSUME ~Refused(item, now)
               PROVE  len \in Nat /\ (need = 1 \/ need = len + 1) /\ (len # need => need = len + 1)
                      /\ (len = need => need = 1)
    OBVIOUS
  <2>1. piece.len \in Nat /\ (item \in {"char", "%"} => piece.len = 1)
    BY PieceLength
  <2> HIDE DEF piece
  <2> QED
    BY <2>1
<1> HIDE DEF need, len, piece, step
<1>3. /\ g.ok \in BOOLEAN /\ g.gsize \in 0 .. M
      /\ w.ok \in BOOLEAN /\ w.gsize \in 0 .. N
      /\ g.ok => w.ok /\ g.out = w.out /\ M - g.gsize = N - w.gsize
      /\ w.ok /\ ~g.ok => N - w.gsize >= M
  BY DEF Beside
<1>4. /\ no(g) <=> ~g.ok \/ Refused(item, now) \/ g.gsize < need
      /\ no(w) <=> ~w.ok \/ Refused(item, now) \/ w.gsize < need
  OBVIOUS
<1> HIDE DEF no
<1>5. /\ no(g) => step(g).ok = FALSE /\ step(g).gsize = g.gsize /\ step(g).out = g.out
      /\ ~no(g) => step(g).ok = g.ok /\ step(g).gsize = g.gsize - len /\ step(g).out = Append(g.out, piece)
      /\ no(w) => step(w).ok = FALSE /\ step(w).gsize = w.gsize /\ step(w).out = w.out
      /\ ~no(w) => step(w).ok = w.ok /\ step(w).gsize = w.gsize - len /\ step(w).out = Append(w.out, piece)
  BY <1>1
<1>6. CASE no(g) /\ no(w)
  <2>1. Beside(step(g), step(w), M, N)
    BY <1>3, <1>5, <1>6 DEF Beside
  <2> QED
    BY <2>1 DEF step
<1>7. CASE ~no(g) /\ ~no(w)
  <2>1. g.gsize - len \in 0 .. M /\ w.gsize - len \in 0 .. N
        /\ M - (g.gsize - len) = N - (w.gsize - len)
    BY <1>2, <1>3, <1>4, <1>7
  <2>2. Beside(step(g), step(w), M, N)
    BY <1>3, <1>4, <1>5, <1>7, <2>1 DEF Beside
  <2> QED
    BY <2>2 DEF step
<1>8. CASE no(g) /\ ~no(w)
  <2>1. w.ok /\ w.gsize - len \in 0 .. N
    BY <1>2, <1>3, <1>4, <1>8
  <2>2. N - (w.gsize - len) >= M
    <3>1. CASE ~g.ok
      BY <1>2, <1>3, <1>4, <1>8, <3>1
    <3>2. CASE g.ok /\ g.gsize < need
      <4>1. g.gsize <= len
        BY <1>2, <1>3, <1>4, <1>8, <3>2
      <4> QED
        BY <1>2, <1>3, <1>4, <1>8, <3>2, <4>1
    <3> QED
      BY <1>3, <1>4, <1>8, <3>1, <3>2
  <2>3. Beside(step(g), step(w), M, N)
    BY <1>3, <1>5, <1>8, <2>1, <2>2 DEF Beside
  <2> QED
    BY <2>3 DEF step
<1>9. CASE ~no(g) /\ no(w)
  <2>1. g.ok /\ g.gsize >= need /\ ~Refused(item, now) /\ w.gsize >= g.gsize
    BY <1>2, <1>3, <1>4, <1>9
  <2> QED
    BY <1>2, <1>3, <1>4, <1>9, <2>1
<1> QED
  BY <1>6, <1>7, <1>8, <1>9

\* strftime into M characters writes what it writes into N, if that leaves
\* room for the NUL, and nothing otherwise.
Fits(got, whole, M) ==
  /\ got.count < Max({1, M})
  /\ IF whole.count < M THEN got = whole ELSE got.count = 0 /\ got.out = <<>>

LEMMA WrittenBeside ==
  ASSUME NEW C, NEW items \in Seq(C), NEW now, NEW secs, NEW zone \in Nat,
         NEW M \in Nat, NEW N \in Nat \ {0}, M <= N
  PROVE  Fits(Written(Fmt(items, now, secs, zone, M), M), Written(Fmt(items, now, secs, zone, N), N), M)
<1> DEFINE n == Len(items)
<1>0. n \in Nat
  BY LenProperties
<1>1. PICK h : FmtFold(h, items, now, secs, zone, M)
  BY FmtSteps
<1>2. PICK u : FmtFold(u, items, now, secs, zone, N)
  BY FmtSteps
<1> DEFINE V == Conversions(Pieces(items, now, secs, zone))
<1> DEFINE T == {k \in Nat : k <= n => Beside(h[k], u[k], M, N)}
<1>3. 0 \in T
  <2> DEFINE g == h[0]
             w == u[0]
  <2>1. /\ g = [ok |-> TRUE, gsize |-> M, out |-> <<>>]
        /\ w = [ok |-> TRUE, gsize |-> N, out |-> <<>>]
    BY <1>1, <1>2 DEF FmtStart, FmtFold
  <2> HIDE DEF g, w
  <2>2. Beside(g, w, M, N)
    BY <2>1 DEF Beside
  <2> QED
    BY <2>2 DEF g, w
<1>4. ASSUME NEW k \in Nat, k \in T PROVE k + 1 \in T
  <2> SUFFICES ASSUME k + 1 <= n PROVE Beside(h[k + 1], u[k + 1], M, N)
    OBVIOUS
  <2>1. Beside(h[k], u[k], M, N)
    BY <1>0, <1>4
  <2>2. k + 1 \in 1 .. n /\ (k + 1) - 1 = k
    BY <1>0
  <2>3. /\ h[k + 1] = FmtStep(h[k], items[k + 1], now, secs, zone)
        /\ u[k + 1] = FmtStep(u[k], items[k + 1], now, secs, zone)
    BY <1>1, <1>2, <2>2 DEF FmtFold
  <2>5. h[k] \in V /\ u[k] \in V
    <3>1. k \in 0 .. n
      BY <1>0
    <3> HIDE DEF V
    <3> QED
      BY <1>1, <1>2, <3>1 DEF FmtFold, V
  <2> HIDE DEF V
  <2>4. Beside(FmtStep(h[k], items[k + 1], now, secs, zone), FmtStep(u[k], items[k + 1], now, secs, zone), M, N)
    BY <2>1, <2>5, StaysBeside DEF V
  <2> QED
    BY <2>3, <2>4
<1> HIDE DEF T
<1>5. \A k \in Nat : k \in T
  BY <1>3, <1>4, Induction
<1> DEFINE g == Fmt(items, now, secs, zone, M)
           w == Fmt(items, now, secs, zone, N)
<1>6. Beside(g, w, M, N)
  BY <1>0, <1>1, <1>2, <1>5 DEF T, FmtFold
<1> HIDE DEF g, w, n
<1>7. Max({1, M}) = IF M >= 1 THEN M ELSE 1
  <2> DEFINE most == IF M >= 1 THEN M ELSE 1
  <2>1. most \in {1, M} /\ \A y \in {1, M} : most >= y
    OBVIOUS
  <2>2. \A x \in {1, M} : (\A y \in {1, M} : x >= y) => x = most
    OBVIOUS
  <2> HIDE DEF most
  <2>3. Max({1, M}) = most
    BY <2>1, <2>2 DEF Max
  <2> QED
    BY <2>3 DEF most
<1>8. PICK gok \in BOOLEAN, gs \in 0 .. M, wok \in BOOLEAN, ws \in 0 .. N :
        /\ g.ok = gok /\ g.gsize = gs /\ w.ok = wok /\ w.gsize = ws
        /\ gok => wok /\ g.out = w.out /\ M - gs = N - ws
        /\ wok /\ ~gok => N - ws >= M
  BY <1>6 DEF Beside
<1> DEFINE got == Written(g, M)
           whole == Written(w, N)
<1>9. got = IF M >= 1 /\ gok /\ gs > 0 THEN [count |-> M - gs, out |-> g.out]
            ELSE [count |-> 0, out |-> <<>>]
  BY <1>8 DEF Written
<1>10. whole = IF wok /\ ws > 0 THEN [count |-> N - ws, out |-> w.out]
               ELSE [count |-> 0, out |-> <<>>]
  BY <1>8 DEF Written
<1> HIDE DEF got, whole
<1>11. CASE M >= 1 /\ gok /\ gs > 0
  <2>1. got.count = M - gs /\ got = [count |-> M - gs, out |-> g.out]
    BY <1>9, <1>11
  <2>2. wok /\ ws > 0 /\ N - ws = M - gs /\ g.out = w.out
    BY <1>8, <1>11
  <2>3. whole.count = M - gs /\ whole = got
    BY <1>10, <2>1, <2>2
  <2> QED
    BY <1>7, <1>11, <2>1, <2>3 DEF got, whole, g, w, Fits
<1>12. CASE ~(M >= 1 /\ gok /\ gs > 0)
  <2>1. got.count = 0 /\ got.out = <<>> /\ got = [count |-> 0, out |-> <<>>]
    BY <1>9, <1>12
  <2>2. wok /\ ws > 0 => N - ws >= M
    BY <1>8, <1>12
  <2>3. CASE wok /\ ws > 0
    <3>1. whole.count = N - ws
      BY <1>10, <2>3
    <3>2. ~(whole.count < M)
      BY <2>2, <2>3, <3>1
    <3> QED
      BY <1>7, <2>1, <3>2 DEF got, whole, g, w, Fits
  <2>4. CASE ~(wok /\ ws > 0)
    <3>1. whole = got
      BY <1>10, <2>1, <2>4
    <3> QED
      BY <1>7, <2>1, <3>1 DEF got, whole, g, w, Fits
  <2> QED
    BY <2>3, <2>4
<1> QED
  BY <1>11, <1>12

\* What a format asks for is a sequence of items.
Letters == {"a", "b", "d", "e", "m", "p", "y", "H", "I", "M", "S", "Y", "char"}

LEMMA CompositeItems ==
  ASSUME NEW C, Letters \subseteq C, NEW item \in C
  PROVE  Composite(item) \in Seq(C)
<1>1. /\ "a" \in C /\ "b" \in C /\ "d" \in C /\ "e" \in C /\ "m" \in C /\ "p" \in C /\ "y" \in C
      /\ "H" \in C /\ "I" \in C /\ "M" \in C /\ "S" \in C /\ "Y" \in C /\ "char" \in C
  BY Zenon DEF Letters
<1>2. <<"a", "char", "b", "char", "e", "char", "H", "char", "M", "char", "S", "char", "Y">> \in Seq(C)
  BY <1>1
<1>3. /\ <<"m", "char", "d", "char", "y", "char", "H", "char", "M", "char", "S">> \in Seq(C)
      /\ <<"m", "char", "d", "char", "y">> \in Seq(C)
  BY <1>1
<1>4. /\ <<"H", "char", "M">> \in Seq(C)
      /\ <<"I", "char", "M", "char", "S", "char", "p">> \in Seq(C)
      /\ <<"H", "char", "M", "char", "S">> \in Seq(C)
  BY <1>1
<1>5. <<item>> \in Seq(C)
  OBVIOUS
<1> QED
  BY <1>2, <1>3, <1>4, <1>5, Zenon DEF Composite

LEMMA FormatItems ==
  ASSUME NEW D, NEW format \in Seq(D)
  PROVE  \E C : FlattenSeq([i \in DOMAIN format |-> Composite(format[i])]) \in Seq(C)
<1> DEFINE n == Len(format)
           C == Letters \cup {format[i] : i \in 1 .. n}
           seqs == [i \in 1 .. n |-> Composite(format[i])]
<1>1. n \in Nat /\ DOMAIN format = 1 .. n
  BY LenProperties
<1>2. \A i \in 1 .. n : seqs[i] = Composite(format[i]) /\ format[i] \in C
  OBVIOUS
<1>3. Letters \subseteq C
  OBVIOUS
<1> HIDE DEF seqs, C
<1>4. \A i \in 1 .. n : seqs[i] \in Seq(C)
  BY <1>2, <1>3, CompositeItems
<1>5. seqs \in Seq(Seq(C))
  BY <1>1, <1>4 DEF seqs
<1>6. FlattenSeq(seqs) \in Seq(C)
  BY <1>5, FlattenPlaces
<1> QED
  BY <1>1, <1>6 DEF seqs

LEMMA StrftimeWithRoom ==
  ASSUME NEW D, NEW format \in Seq(D),
         NEW now, NEW secs, NEW zone \in Nat, NEW M \in Nat, NEW N \in Nat \ {0}, M <= N
  PROVE  Fits(Strftime(format, now, secs, zone, M), Strftime(format, now, secs, zone, N), M)
<1> DEFINE items == FlattenSeq([i \in DOMAIN format |-> Composite(format[i])])
<1>1. PICK C : items \in Seq(C)
  BY FormatItems
<1> HIDE DEF items
<1>2. Fits(Written(Fmt(items, now, secs, zone, M), M), Written(Fmt(items, now, secs, zone, N), N), M)
  BY <1>1, WrittenBeside
<1> QED
  BY <1>2 DEF Strftime, items

(* What strftime writes leaves room for the NUL, and a call with no room   *)
(* for all that its format asks for reports 0 and is not taken for one     *)
(* that wrote a part: for every local time, in every zone.  (The lemma     *)
(* before it says so of every format and every two sizes                   *)
(* (strftime.c:63-79, 242-246, 281-291).)                                  *)
THEOREM StrftimeSafe == Spec => []StrftimeFits
<1>1. StrftimeFits
  <2>1. ASSUME NEW format \in {<<"C">>, <<"A", "char", "s">>, <<"r", "char">>},
               NEW maxsize \in {0, 1, 12, 13, 24, 25}
        PROVE  Fits(Strftime(format, tm, when, 3, maxsize), Strftime(format, tm, when, 3, 100), maxsize)
    <3>1. format \in Seq({"C", "A", "char", "s", "r"})
      <4>1. CASE format = <<"C">>
        BY <4>1
      <4>2. CASE format = <<"A", "char", "s">>
        BY <4>2
      <4>3. CASE format = <<"r", "char">>
        BY <4>3
      <4> QED
        BY <4>1, <4>2, <4>3
    <3>2. maxsize \in Nat /\ 100 \in Nat \ {0} /\ maxsize <= 100 /\ 3 \in Nat
      OBVIOUS
    <3> QED
      BY <3>1, <3>2, StrftimeWithRoom
  <2> QED
    BY <2>1 DEF StrftimeFits, Fits
<1> QED
  BY <1>1, PTL
-----------------------------------------------------------------------------
(* mktime in a zone with one offset.                                       *)

\* The moment, on the zone's own clock, that the fields of a time promise,
\* whatever month they count from.
MonthIn(year, mon) == DaysToYear(year + YearBase) + DaysToMonth(year + YearBase, mon)
DayOf(now) == MonthIn(now.year, now.mon) + now.mday - 1
Moment(now) == DayOf(now) * SecsPerDay + now.hour * SecsPerHour + now.min * 60 + now.sec

\* Every field in its range.
Proper(now) ==
    /\ now \in BrokenTimes /\ now.mon \in 0 .. 11
    /\ now.mday \in 1 .. MonLengths(now.year + YearBase)[now.mon]
    /\ now.hour \in 0 .. 23 /\ now.min \in 0 .. 59 /\ now.sec \in 0 .. 59

LEMMA MonthsFollow ==
  ASSUME NEW y \in Int, NEW m \in 0 .. 11
  PROVE  /\ DaysToMonth(y, m) \in Int /\ DaysToMonth(y, 0) = 0
         /\ MonLengths(y)[m] \in 28 .. 31
         /\ m < 11 => DaysToMonth(y, m + 1) = DaysToMonth(y, m) + MonLengths(y)[m]
         /\ m = 11 => YearLength(y) = DaysToMonth(y, m) + MonLengths(y)[m]
<1>1. /\ DaysToMonth(y, m) = DaysBefore(y, m) /\ DaysToMonth(y, 0) = DaysBefore(y, 0)
      /\ m < 11 => DaysToMonth(y, m + 1) = DaysBefore(y, m + 1)
  <2>1. 0 \in 0 .. 11 /\ (m < 11 => m + 1 \in 0 .. 11)
    OBVIOUS
  <2> QED
    BY <2>1, MonthsTable
<1>2. m \in {0, 1, 2, 3, 4, 5, 6, 7, 8, 9, 10, 11}
  OBVIOUS
<1>3. MonLengths(y)[m] = CASE m \in {3, 5, 8, 10} -> 30
                           [] m = 1 -> IF IsLeap(y) THEN 29 ELSE 28
                           [] OTHER -> 31
  BY DEF MonLengths
<1> QED
  BY <1>1, <1>2, <1>3 DEF DaysBefore, FirstDays, YearLength

LEMMA YearsAscend ==
  ASSUME NEW y \in Int, NEW z \in Int, y < z
  PROVE  DaysToYear(y) + YearLength(y) <= DaysToYear(z)
<1> DEFINE T == {n \in Nat : DaysToYear(y + 1) <= DaysToYear(y + 1 + n)}
<1>1. 0 \in T
  <2>1. DaysToYear(y + 1) \in Int /\ y + 1 + 0 = y + 1
    BY YearsAddUp
  <2> QED
    BY <2>1
<1>2. ASSUME NEW n \in Nat, n \in T PROVE n + 1 \in T
  <2>1. /\ DaysToYear(y + 1 + n) \in Int
        /\ DaysToYear((y + 1 + n) + 1) = DaysToYear(y + 1 + n) + YearLength(y + 1 + n)
        /\ DaysToYear(y + 1) \in Int
    <3>1. y + 1 \in Int /\ y + 1 + n \in Int
      OBVIOUS
    <3> QED
      BY <3>1, YearsAddUp
  <2>2. YearLength(y + 1 + n) \in Nat /\ y + 1 + (n + 1) = (y + 1 + n) + 1
    BY DEF YearLength
  <2> QED
    BY <1>2, <2>1, <2>2
<1> HIDE DEF T
<1>3. \A n \in Nat : n \in T
  BY <1>1, <1>2, Induction
<1>4. z - y - 1 \in Nat /\ y + 1 + (z - y - 1) = z
  OBVIOUS
<1>5. DaysToYear(y + 1) <= DaysToYear(z)
  BY <1>3, <1>4 DEF T
<1>6. DaysToYear(y + 1) = DaysToYear(y) + YearLength(y)
  BY YearsAddUp
<1> QED
  BY <1>5, <1>6

LEMMA MonthsAscend ==
  ASSUME NEW y \in Int, NEW m \in 0 .. 11, NEW k \in 0 .. 11, m < k
  PROVE  DaysToMonth(y, m) + MonLengths(y)[m] <= DaysToMonth(y, k)
<1>1. DaysToMonth(y, m) = DaysBefore(y, m) /\ DaysToMonth(y, k) = DaysBefore(y, k)
  BY MonthsTable
<1>2. MonLengths(y)[m] = CASE m \in {3, 5, 8, 10} -> 30
                           [] m = 1 -> IF IsLeap(y) THEN 29 ELSE 28
                           [] OTHER -> 31
  BY DEF MonLengths
<1>3. m \in {0, 1, 2, 3, 4, 5, 6, 7, 8, 9, 10} /\ k \in {1, 2, 3, 4, 5, 6, 7, 8, 9, 10, 11}
  OBVIOUS
<1>4. \A n \in 0 .. 10 : \A l \in 1 .. 11 : n < l => FirstDays[n + 2] <= FirstDays[l + 1]
  BY DEF FirstDays
<1>5. DaysBefore(y, m) + MonLengths(y)[m] = DaysBefore(y, m + 1)
  BY <1>2, <1>3 DEF DaysBefore, FirstDays
<1>6. DaysBefore(y, m + 1) <= DaysBefore(y, k)
  BY <1>3 DEF DaysBefore, FirstDays
<1> QED
  BY <1>1, <1>5, <1>6

\* The first field that differs, as tmcomp goes through them.
Precedes(a, b) ==
    \/ a.year < b.year
    \/ a.year = b.year /\ a.mon < b.mon
    \/ a.year = b.year /\ a.mon = b.mon /\ a.mday < b.mday
    \/ a.year = b.year /\ a.mon = b.mon /\ a.mday = b.mday /\ a.hour < b.hour
    \/ a.year = b.year /\ a.mon = b.mon /\ a.mday = b.mday /\ a.hour = b.hour /\ a.min < b.min
    \/ /\ a.year = b.year /\ a.mon = b.mon /\ a.mday = b.mday /\ a.hour = b.hour /\ a.min = b.min
       /\ a.sec < b.sec

LEMMA FirstDifference ==
  ASSUME NEW a \in BrokenTimes, NEW b \in BrokenTimes
  PROVE  TmLess(a, b) <=> Precedes(a, b)
<1> DEFINE order == <<"year", "mon", "mday", "hour", "min", "sec">>
           differ == {i \in DOMAIN order : a[order[i]] # b[order[i]]}
<1>1. /\ DOMAIN order = 1 .. 6 /\ order[1] = "year" /\ order[2] = "mon" /\ order[3] = "mday"
      /\ order[4] = "hour" /\ order[5] = "min" /\ order[6] = "sec"
  OBVIOUS
<1>2. TmLess(a, b) <=> differ # {} /\ a[order[Min(differ)]] < b[order[Min(differ)]]
  BY DEF TmLess
<1>3. /\ differ \subseteq 1 .. 6
      /\ 1 \in differ <=> a.year # b.year
      /\ 2 \in differ <=> a.mon # b.mon
      /\ 3 \in differ <=> a.mday # b.mday
      /\ 4 \in differ <=> a.hour # b.hour
      /\ 5 \in differ <=> a.min # b.min
      /\ 6 \in differ <=> a.sec # b.sec
  <2> HIDE DEF order
  <2> QED
    BY <1>1
<1>4. differ # {} => Min(differ) \in differ /\ \A i \in differ : Min(differ) <= i
  <2>1. differ \in SUBSET Nat
    BY <1>3
  <2> HIDE DEF differ
  <2>2. differ # {} => \E x \in differ : \A y \in differ : x <= y
    BY <2>1, Minimum
  <2> QED
    BY <2>2 DEF Min
<1> HIDE DEF differ
<1>5. PICK first : first = Min(differ)
  OBVIOUS
<1>6. /\ a.year \in Int /\ a.mon \in Int /\ a.mday \in Int /\ a.hour \in Int /\ a.min \in Int /\ a.sec \in Int
      /\ b.year \in Int /\ b.mon \in Int /\ b.mday \in Int /\ b.hour \in Int /\ b.min \in Int /\ b.sec \in Int
  BY DEF BrokenTimes
<1>7. CASE differ = {}
  BY <1>2, <1>3, <1>6, <1>7 DEF Precedes
<1>8. CASE differ # {}
  <2>1. first \in 1 .. 6 /\ first \in differ /\ \A i \in differ : first <= i
    BY <1>3, <1>4, <1>5, <1>8
  <2>2. TmLess(a, b) <=> a[order[first]] < b[order[first]]
    BY <1>2, <1>5, <1>8
  <2> HIDE DEF order
  <2>3. /\ first = 1 => (TmLess(a, b) <=> a.year < b.year)
        /\ first = 2 => (TmLess(a, b) <=> a.mon < b.mon)
        /\ first = 3 => (TmLess(a, b) <=> a.mday < b.mday)
        /\ first = 4 => (TmLess(a, b) <=> a.hour < b.hour)
        /\ first = 5 => (TmLess(a, b) <=> a.min < b.min)
        /\ first = 6 => (TmLess(a, b) <=> a.sec < b.sec)
    BY <1>1, <2>2
  <2>4. /\ first > 1 => a.year = b.year
        /\ first > 2 => a.mon = b.mon
        /\ first > 3 => a.mday = b.mday
        /\ first > 4 => a.hour = b.hour
        /\ first > 5 => a.min = b.min
    BY <1>3, <2>1
  <2>5. first \in {1, 2, 3, 4, 5, 6}
    BY <2>1
  <2>6. /\ first = 1 => a.year # b.year
        /\ first = 2 => a.mon # b.mon
        /\ first = 3 => a.mday # b.mday
        /\ first = 4 => a.hour # b.hour
        /\ first = 5 => a.min # b.min
        /\ first = 6 => a.sec # b.sec
    BY <1>3, <2>1
  <2> QED
    BY <1>6, <2>3, <2>4, <2>5, <2>6 DEF Precedes
<1> QED
  BY <1>7, <1>8

LEMMA DaysInOrder ==
  ASSUME NEW a, Proper(a), NEW b, Proper(b)
  PROVE  /\ DayOf(a) \in Int
         /\ a.year < b.year => DayOf(a) < DayOf(b)
         /\ a.year = b.year /\ a.mon < b.mon => DayOf(a) < DayOf(b)
         /\ a.year = b.year /\ a.mon = b.mon /\ a.mday < b.mday => DayOf(a) < DayOf(b)
         /\ a.year = b.year /\ a.mon = b.mon /\ a.mday = b.mday => DayOf(a) = DayOf(b)
<1> DEFINE y == a.year + YearBase
           z == b.year + YearBase
<1>1. /\ a.year \in Int /\ a.mon \in 0 .. 11 /\ b.year \in Int /\ b.mon \in 0 .. 11
      /\ a.mday \in Int /\ b.mday \in Int
      /\ 1 <= a.mday /\ a.mday <= MonLengths(y)[a.mon] /\ 1 <= b.mday /\ b.mday <= MonLengths(z)[b.mon]
  <2>1. y \in Int /\ z \in Int /\ a.mon \in 0 .. 11 /\ b.mon \in 0 .. 11
    BY DEF Proper, BrokenTimes, YearBase
  <2>2. MonLengths(y)[a.mon] \in 28 .. 31 /\ MonLengths(z)[b.mon] \in 28 .. 31
    BY <2>1, MonthsFollow
  <2> QED
    BY <2>2 DEF Proper, BrokenTimes
<1>2. /\ y \in Int /\ z \in Int /\ (a.year < b.year <=> y < z) /\ (a.year = b.year <=> y = z)
      /\ DayOf(a) = DaysToYear(y) + DaysToMonth(y, a.mon) + a.mday - 1
      /\ DayOf(b) = DaysToYear(z) + DaysToMonth(z, b.mon) + b.mday - 1
  BY <1>1 DEF DayOf, MonthIn, YearBase
<1> HIDE DEF y, z
<1>3. /\ DaysToYear(y) \in Int /\ DaysToYear(z) \in Int
      /\ DaysToMonth(y, a.mon) \in Int /\ DaysToMonth(z, b.mon) \in Int
      /\ MonLengths(y)[a.mon] \in 28 .. 31 /\ YearLength(y) \in Int
  <2>1. DaysToYear(y) \in Int /\ DaysToYear(z) \in Int
    BY <1>2, YearsAddUp
  <2>2. /\ DaysToMonth(y, a.mon) \in Int /\ DaysToMonth(z, b.mon) \in Int
        /\ MonLengths(y)[a.mon] \in 28 .. 31
    BY <1>1, <1>2, MonthsFollow
  <2> QED
    BY <2>1, <2>2 DEF YearLength
<1>4. DaysToMonth(y, a.mon) + MonLengths(y)[a.mon] <= YearLength(y) /\ 0 <= DaysToMonth(z, b.mon)
  <2>1. /\ a.mon = 11 => DaysToMonth(y, a.mon) + MonLengths(y)[a.mon] = YearLength(y)
        /\ DaysToMonth(z, 0) = 0
    BY <1>1, <1>2, <1>3, MonthsFollow
  <2>2. a.mon < 11 => DaysToMonth(y, a.mon) + MonLengths(y)[a.mon] <= DaysToMonth(y, 11)
    BY <1>1, <1>2, MonthsAscend
  <2>3. DaysToMonth(y, 11) \in Int /\ MonLengths(y)[11] \in 28 .. 31
        /\ YearLength(y) = DaysToMonth(y, 11) + MonLengths(y)[11]
    <3>1. 11 \in 0 .. 11 /\ 11 = 11
      OBVIOUS
    <3> QED
      BY <1>2, <3>1, MonthsFollow
  <2>4. b.mon > 0 => DaysToMonth(z, 0) + MonLengths(z)[0] <= DaysToMonth(z, b.mon)
    BY <1>1, <1>2, MonthsAscend
  <2>5. MonLengths(z)[0] \in 28 .. 31
    BY <1>2, MonthsFollow
  <2> QED
    BY <1>1, <1>3, <2>1, <2>2, <2>3, <2>4, <2>5
<1>5. ASSUME a.year < b.year PROVE DayOf(a) < DayOf(b)
  <2>1. DaysToYear(y) + YearLength(y) <= DaysToYear(z)
    BY <1>2, <1>5, YearsAscend
  <2> QED
    BY <1>1, <1>2, <1>3, <1>4, <2>1
<1>6. ASSUME a.year = b.year, a.mon < b.mon PROVE DayOf(a) < DayOf(b)
  <2>1. DaysToMonth(y, a.mon) + MonLengths(y)[a.mon] <= DaysToMonth(y, b.mon)
    BY <1>1, <1>2, <1>6, MonthsAscend
  <2> QED
    BY <1>1, <1>2, <1>3, <1>6, <2>1
<1> QED
  BY <1>1, <1>2, <1>3, <1>5, <1>6

LEMMA OrderOfMoments ==
  ASSUME NEW a, Proper(a), NEW b, Proper(b)
  PROVE  /\ Moment(a) \in Int /\ Moment(b) \in Int
         /\ TmLess(a, b) <=> Moment(a) < Moment(b)
<1>1. /\ DayOf(a) \in Int /\ DayOf(b) \in Int
      /\ a.year < b.year => DayOf(a) < DayOf(b)
      /\ b.year < a.year => DayOf(b) < DayOf(a)
      /\ a.year = b.year /\ a.mon < b.mon => DayOf(a) < DayOf(b)
      /\ a.year = b.year /\ b.mon < a.mon => DayOf(b) < DayOf(a)
      /\ a.year = b.year /\ a.mon = b.mon /\ a.mday < b.mday => DayOf(a) < DayOf(b)
      /\ a.year = b.year /\ a.mon = b.mon /\ b.mday < a.mday => DayOf(b) < DayOf(a)
      /\ a.year = b.year /\ a.mon = b.mon /\ a.mday = b.mday => DayOf(a) = DayOf(b)
  <2>1. b.year = a.year <=> a.year = b.year
    OBVIOUS
  <2> QED
    BY <2>1, DaysInOrder
<1>2. /\ a \in BrokenTimes /\ b \in BrokenTimes
      /\ a.hour \in 0 .. 23 /\ a.min \in 0 .. 59 /\ a.sec \in 0 .. 59
      /\ b.hour \in 0 .. 23 /\ b.min \in 0 .. 59 /\ b.sec \in 0 .. 59
  BY DEF Proper
<1>3. /\ a.year \in Int /\ b.year \in Int /\ a.mon \in Int /\ b.mon \in Int
      /\ a.mday \in Int /\ b.mday \in Int
  BY <1>2 DEF BrokenTimes
<1>4. /\ Moment(a) = DayOf(a) * 86400 + a.hour * 3600 + a.min * 60 + a.sec
      /\ Moment(b) = DayOf(b) * 86400 + b.hour * 3600 + b.min * 60 + b.sec
  BY DEF Moment, SecsPerDay, SecsPerHour
<1>5. PICK ha \in 0 .. 23, hb \in 0 .. 23, ma \in 0 .. 59, mb \in 0 .. 59, sa \in 0 .. 59, sb \in 0 .. 59 :
        ha = a.hour /\ hb = b.hour /\ ma = a.min /\ mb = b.min /\ sa = a.sec /\ sb = b.sec
  BY <1>2
<1>6. PICK da \in Int, db \in Int : da = DayOf(a) /\ db = DayOf(b)
  BY <1>1
<1>7. /\ Moment(a) = da * 86400 + ha * 3600 + ma * 60 + sa
      /\ Moment(b) = db * 86400 + hb * 3600 + mb * 60 + sb
  BY <1>4, <1>5, <1>6, SMT
<1>8. Moment(a) \in Int /\ Moment(b) \in Int
  BY <1>7, SMT
<1>9. Moment(a) < Moment(b) <=>
        \/ da < db
        \/ da = db /\ ha < hb
        \/ da = db /\ ha = hb /\ ma < mb
        \/ da = db /\ ha = hb /\ ma = mb /\ sa < sb
  BY <1>7, SMT
<1>10. Precedes(a, b) <=>
        \/ da < db
        \/ da = db /\ ha < hb
        \/ da = db /\ ha = hb /\ ma < mb
        \/ da = db /\ ha = hb /\ ma = mb /\ sa < sb
  BY <1>1, <1>3, <1>5, <1>6, SMT DEF Precedes
<1> QED
  BY <1>2, <1>8, <1>9, <1>10, FirstDifference
-----------------------------------------------------------------------------
\* A zone with one offset and no leap seconds.
OneOffset(zone) == ZoneFits(zone) /\ zone.leaps = <<>> /\ zone.typecnt = 1

LEMMA OneType ==
  ASSUME NEW zone, OneOffset(zone), NEW t
  PROVE  TypeOfTime(t, zone) = zone.ttis[1] /\ TypeFits(zone.ttis[1])
<1>1. ZoneFits(zone) /\ zone.typecnt = 1
  BY DEF OneOffset
<1>2. /\ TypeFits(TypeOfTime(t, zone))
      /\ \E i \in DOMAIN zone.ttis : (i = 1 \/ i <= zone.typecnt) /\ TypeOfTime(t, zone) = zone.ttis[i]
  BY <1>1, TypeInForce
<1>3. \A i \in DOMAIN zone.ttis : i \in Nat /\ i >= 1
  BY <1>1 DEF ZoneFits
<1> QED
  BY <1>1, <1>2, <1>3

\* Its local times are in the order of the moments they show.
LEMMA OneOffsetTimes ==
  ASSUME NEW zone, OneOffset(zone), NEW t \in Times
  PROVE  LET now == Localsub(t, zone)
         IN  /\ Proper(now) /\ now.isdst = zone.ttis[1].isdst /\ now.gmtoff = zone.ttis[1].gmtoff
             /\ Moment(now) = t + zone.ttis[1].gmtoff
<1> DEFINE now == Localsub(t, zone)
<1> SUFFICES /\ Proper(now) /\ now.isdst = zone.ttis[1].isdst /\ now.gmtoff = zone.ttis[1].gmtoff
             /\ Moment(now) = t + zone.ttis[1].gmtoff
  OBVIOUS
<1>1. ZoneFits(zone) /\ zone.leaps = <<>>
  BY DEF OneOffset
<1>2. /\ InRangeFields(now) /\ now.gmtoff = zone.ttis[1].gmtoff
      /\ DayShown(now) * SecsPerDay + SecondShown(now) = t + now.gmtoff
      /\ now \in BrokenTimes /\ now.isdst = zone.ttis[1].isdst
      /\ now.sec \in 0 .. 59
  BY <1>1, LocalTimes, OneType
<1> HIDE DEF now
<1>3. Proper(now)
  BY <1>2 DEF InRangeFields, Proper
<1>4. DayOf(now) = DayShown(now)
  <2>1. now.year + YearBase \in Int /\ now.mon \in 0 .. 11 /\ now.mday \in Int
    BY <1>2 DEF InRangeFields, BrokenTimes, YearBase
  <2>2. /\ DaysToYear(now.year + YearBase) \in Int
        /\ DaysToMonth(now.year + YearBase, now.mon) \in Int
    BY <2>1, YearsAddUp, MonthsFollow
  <2>3. now.yday = DaysToMonth(now.year + YearBase, now.mon) + now.mday - 1
    BY <1>2 DEF InRangeFields
  <2> QED
    BY <2>1, <2>2, <2>3 DEF DayOf, MonthIn, DayShown
<1>5. Moment(now) = DayShown(now) * SecsPerDay + SecondShown(now)
  <2>1. PICK d \in Int : d = DayOf(now)
    BY <1>3, DaysInOrder
  <2>2. now.hour \in Int /\ now.min \in Int /\ now.sec \in Int
    BY <1>3 DEF Proper
  <2> QED
    BY <1>4, <2>1, <2>2 DEF Moment, SecondShown, SecsPerDay, SecsPerHour
<1> QED
  BY <1>2, <1>3, <1>5
-----------------------------------------------------------------------------
\* The bisection as a loop.
Probes == Int \X (-1 .. TimeBits)
Meets(zone, yours, t) == TmSame(Localsub(t, zone), yours)
ProbeNext(zone, yours, at) == Round(at[1], at[2], TmLess(yours, Localsub(at[1], zone)))
ProbeAt(zone, yours, at, probe) ==
    IF TmSame(Localsub(at[1], zone), yours) THEN <<at[1]>>
    ELSE IF at[2] < 0 THEN Wrong
    ELSE probe[Round(at[1], at[2], TmLess(yours, Localsub(at[1], zone)))]

LEMMA RoundMoves ==
  ASSUME NEW t \in Int, NEW bits \in 0 .. TimeBits, NEW down \in BOOLEAN
  PROVE  /\ bits = 0 => Round(t, bits, down) = <<t - 1, -1>>
         /\ bits > 0 /\ down => Round(t, bits, down) = <<t - 2^(bits - 1), bits - 1>>
         /\ bits > 0 /\ ~down => Round(t, bits, down) = <<t + 2^(bits - 1), bits - 1>>
         /\ Round(t, bits, down) \in Probes /\ Round(t, bits, down)[2] = bits - 1
<1>1. bits \in Nat /\ bits <= TimeBits /\ TimeBits \in Nat
  BY TimeBitsAssumption
<1>2. bits > 0 => 2^(bits - 1) \in Int
  <2>1. bits > 0 => bits - 1 \in Nat
    BY <1>1
  <2> QED
    BY <2>1, PowerDoubles
<1> DEFINE half == 2^(bits - 1)
           got == Round(t, bits, down)
<1>3. got = CASE bits = 0 -> <<t - 1, -1>>
              [] bits > 0 /\ down -> <<t - half, bits - 1>>
              [] bits > 0 /\ ~down -> <<t + half, bits - 1>>
  BY DEF Round
<1>4. bits > 0 => half \in Int
  BY <1>2
<1> HIDE DEF half, got
<1>5. /\ bits = 0 => got = <<t - 1, -1>>
      /\ bits > 0 /\ down => got = <<t - half, bits - 1>>
      /\ bits > 0 /\ ~down => got = <<t + half, bits - 1>>
  BY <1>1, <1>3
<1>6. got \in Probes /\ got[2] = bits - 1
  <2>1. CASE bits = 0
    <3>1. t - 1 \in Int /\ -1 \in -1 .. TimeBits /\ bits - 1 = -1
      BY <1>1, <2>1
    <3> QED
      BY <1>5, <2>1, <3>1 DEF Probes
  <2>2. CASE bits > 0
    <3>1. t - half \in Int /\ t + half \in Int /\ bits - 1 \in -1 .. TimeBits
      BY <1>1, <1>4, <2>2
    <3> QED
      BY <1>5, <2>2, <3>1 DEF Probes
  <2> QED
    BY <1>1, <2>1, <2>2
<1> QED
  BY <1>5, <1>6 DEF half, got

LEMMA ProbesExist ==
  ASSUME NEW zone, NEW yours
  PROVE  \E probe : /\ Bisect(zone, yours) = probe[<<0, TimeBits>>]
                    /\ \A at \in Probes : probe[at] = ProbeAt(zone, yours, at, probe)
<1> DEFINE S == Probes
           V == Seq(Int)
           Done == {at \in S : Meets(zone, yours, at[1]) \/ at[2] < 0}
           out == [at \in S |-> IF Meets(zone, yours, at[1]) THEN <<at[1]>> ELSE Wrong]
           step(at) == IF at[2] < 0 THEN at ELSE ProbeNext(zone, yours, at)
           next == [at \in S |-> step(at)]
           m == [at \in S |-> at[2] + 1]
           Body(at, f) == ProbeAt(zone, yours, at, f)
           probe == CHOOSE f : f = [at \in S |-> Body(at, f)]
<1>1. Bisect(zone, yours) = probe[<<0, TimeBits>>]
  BY DEF Bisect, ProbeAt, Probes
<1>2. \A at \in S : /\ at[1] \in Int /\ at[2] \in -1 .. TimeBits /\ at = <<at[1], at[2]>>
                    /\ at[2] \in Int /\ -1 <= at[2] /\ at[2] <= TimeBits
  BY TimeBitsAssumption DEF Probes
<1>3. ASSUME NEW at \in S PROVE step(at) \in S /\ (at[2] >= 0 => step(at)[2] = at[2] - 1)
  <2>1. CASE at[2] >= 0
    <3>1. at[1] \in Int /\ at[2] \in 0 .. TimeBits /\ TmLess(yours, Localsub(at[1], zone)) \in BOOLEAN
      BY <1>2, <2>1, TimeBitsAssumption DEF TmLess
    <3>2. ProbeNext(zone, yours, at) \in Probes /\ ProbeNext(zone, yours, at)[2] = at[2] - 1
      BY <3>1, RoundMoves DEF ProbeNext
    <3> QED
      BY <1>2, <2>1, <3>2
  <2>2. CASE at[2] < 0
    BY <1>2, <2>2
  <2> QED
    BY <1>2, <2>1, <2>2
<1>4. \A at \in S : at \notin Done => m[step(at)] < m[at]
  <2> SUFFICES ASSUME NEW at \in S, at \notin Done PROVE m[step(at)] < m[at]
    OBVIOUS
  <2>1. at[2] >= 0 /\ step(at)[2] = at[2] - 1
    BY <1>2, <1>3
  <2>2. m[step(at)] = step(at)[2] + 1 /\ m[at] = at[2] + 1
    BY <1>3
  <2> HIDE DEF step, m
  <2> QED
    BY <1>2, <2>1, <2>2
<1>5. \A at \in S : \A f : Body(at, f) = LoopAt(Done, out, next, at, f)
  BY DEF LoopAt, ProbeAt, ProbeNext, Meets
<1>6. /\ V # {} /\ m \in [S -> Nat] /\ out \in [S -> V] /\ next \in [S -> S]
      /\ \A at \in S : next[at] = step(at)
  <2>1. \A at \in S : at[2] + 1 \in Nat
    BY <1>2
  <2>2. Wrong \in V /\ \A at \in S : <<at[1]>> \in V
    BY <1>2 DEF Wrong
  <2> HIDE DEF step, V
  <2>3. V # {}
    BY <2>2
  <2> QED
    BY <1>3, <2>1, <2>2, <2>3
<1>7. Bisect(zone, yours) = probe[<<0, TimeBits>>] /\ probe = CHOOSE f : f = [at \in S |-> Body(at, f)]
  BY <1>1
<1> HIDE DEF S, V, Done, out, next, m, Body, probe
<1>8. PICK f : LoopOf(f, Done, out, next, S, V)
  <2>1. Loops(Done, out, next, S, V, m)
    BY <1>4, <1>6 DEF Loops
  <2> QED
    BY <2>1, LoopExists
<1>9. f = [at \in S |-> Body(at, f)]
  BY <1>5, <1>8 DEF LoopOf
<1>10. probe = [at \in S |-> Body(at, probe)]
  BY <1>7, <1>9
<1>11. \A at \in S : probe[at] = Body(at, probe)
  BY <1>10
<1> QED
  BY <1>7, <1>11 DEF S, Body

\* In a zone with one offset the bisection finds the one moment that shows
\* the time asked for: after each round it lies within the step left.
Within(t, bits, T) ==
    /\ t - 2^bits <= T /\ T < t + 2^bits
    /\ 2^bits - 2^TimeBits <= t /\ t <= 2^TimeBits - 2^bits

LEMMA BisectFinds ==
  ASSUME NEW zone, OneOffset(zone), NEW yours, Proper(yours),
         NEW T \in -2^TimeBits .. 2^TimeBits - 1, Moment(yours) = T + zone.ttis[1].gmtoff
  PROVE  Bisect(zone, yours) = <<T>>
<1>1. PICK probe : /\ Bisect(zone, yours) = probe[<<0, TimeBits>>]
                   /\ \A at \in Probes : probe[at] = ProbeAt(zone, yours, at, probe)
  BY ProbesExist
<1>2. PICK size \in Nat : size = 2^TimeBits /\ size <= 2147483648
  BY TimesAreShort
<1>3. T \in Int /\ -size <= T /\ T < size /\ TimeBits \in Nat
  BY <1>2, TimeBitsAssumption
<1>4. ASSUME NEW t \in Int, -size <= t, t <= size
      PROVE  /\ Meets(zone, yours, t) <=> t = T
             /\ TmLess(yours, Localsub(t, zone)) <=> T < t
             /\ TmLess(yours, Localsub(t, zone)) \in BOOLEAN
  <2>1. t \in Times
    BY <1>2, <1>4, SMT DEF Times
  <2> DEFINE mine == Localsub(t, zone)
  <2>2. Proper(mine) /\ Moment(mine) = t + zone.ttis[1].gmtoff
    BY <2>1, OneOffsetTimes
  <2>3. TmLess(yours, mine) \in BOOLEAN
    BY DEF TmLess
  <2> HIDE DEF mine
  <2>4. /\ TmLess(yours, mine) <=> Moment(yours) < Moment(mine)
        /\ TmLess(mine, yours) <=> Moment(mine) < Moment(yours)
    BY <2>2, OrderOfMoments
  <2>5. PICK off \in Int : off = zone.ttis[1].gmtoff
    <3>1. TypeOfTime(t, zone) = zone.ttis[1] /\ TypeFits(zone.ttis[1])
      BY OneType
    <3> QED
      BY <3>1, SMT DEF TypeFits, Offsets
  <2>6. Moment(yours) = T + off /\ Moment(mine) = t + off
    BY <2>2, <2>5
  <2>7. (Moment(yours) < Moment(mine) <=> T < t) /\ (Moment(mine) < Moment(yours) <=> t < T)
    BY <1>3, <2>6, SMT
  <2>8. TmSame(mine, yours) <=> t = T
    <3>1. TmSame(mine, yours) <=> ~(t < T) /\ ~(T < t)
      BY <2>4, <2>7 DEF TmSame
    <3> QED
      BY <1>3, <3>1, SMT
  <2> QED
    BY <2>3, <2>4, <2>7, <2>8 DEF Meets, mine
<1> DEFINE Found(bits) == \A t \in Int : Within(t, bits, T) => probe[<<t, bits>>] = <<T>>
           Good == {bits \in Nat : bits <= TimeBits => Found(bits)}
<1>5. ASSUME NEW t \in Int, -size <= t, t <= size, NEW bits \in -1 .. TimeBits
      PROVE  /\ t = T => probe[<<t, bits>>] = <<T>>
             /\ t # T /\ bits >= 0 => probe[<<t, bits>>] = probe[Round(t, bits, T < t)]
  <2>1. <<t, bits>> \in Probes /\ bits \in Int
    BY TimeBitsAssumption DEF Probes
  <2>2. probe[<<t, bits>>] = ProbeAt(zone, yours, <<t, bits>>, probe)
    BY <1>1, <2>1
  <2>3. (Meets(zone, yours, t) <=> t = T) /\ TmLess(yours, Localsub(t, zone)) = (T < t)
    BY <1>4, <1>5
  <2>4. ProbeAt(zone, yours, <<t, bits>>, probe) =
          IF Meets(zone, yours, t) THEN <<t>>
          ELSE IF bits < 0 THEN Wrong
          ELSE probe[Round(t, bits, TmLess(yours, Localsub(t, zone)))]
    BY DEF ProbeAt, Meets
  <2> QED
    BY <2>1, <2>2, <2>3, <2>4
<1>6. 0 \in Good
  <2> SUFFICES ASSUME NEW t \in Int, Within(t, 0, T) PROVE probe[<<t, 0>>] = <<T>>
    OBVIOUS
  <2>1. 2^0 = 1
    OBVIOUS
  <2>2. t - 1 <= T /\ T < t + 1 /\ 1 - size <= t /\ t <= size - 1
    BY <1>2, <2>1 DEF Within
  <2>3. 0 \in 0 .. TimeBits /\ 0 \in -1 .. TimeBits /\ -1 \in -1 .. TimeBits /\ (T < t) \in BOOLEAN
    BY <1>3
  <2>4. -size <= t /\ t <= size /\ t - 1 \in Int /\ -size <= t - 1 /\ t - 1 <= size
    BY <1>2, <2>2
  <2>5. CASE t = T
    BY <1>5, <2>3, <2>4, <2>5
  <2>6. CASE t # T
    <3>1. Round(t, 0, T < t) = <<t - 1, -1>>
      BY <2>3, RoundMoves
    <3>2. probe[<<t, 0>>] = probe[<<t - 1, -1>>]
      BY <1>5, <2>3, <2>4, <2>6, <3>1
    <3>3. t - 1 = T
      BY <1>3, <2>2, <2>6
    <3>4. probe[<<t - 1, -1>>] = <<T>>
      BY <1>5, <2>3, <2>4, <3>3
    <3> QED
      BY <3>2, <3>4
  <2> QED
    BY <2>5, <2>6
<1>7. ASSUME NEW bits \in Nat, bits \in Good PROVE bits + 1 \in Good
  <2> SUFFICES ASSUME bits + 1 <= TimeBits, NEW t \in Int, Within(t, bits + 1, T)
               PROVE  probe[<<t, bits + 1>>] = <<T>>
    OBVIOUS
  <2>1. PICK half \in Nat \ {0} : half = 2^bits /\ 2^(bits + 1) = 2 * half
    BY PowerDoubles
  <2>2. /\ t - 2 * half <= T /\ T < t + 2 * half
        /\ 2 * half - size <= t /\ t <= size - 2 * half
    BY <1>2, <2>1 DEF Within
  <2>3. bits + 1 \in 0 .. TimeBits /\ bits + 1 \in -1 .. TimeBits /\ (T < t) \in BOOLEAN
        /\ bits <= TimeBits /\ bits + 1 > 0 /\ (bits + 1) - 1 = bits /\ bits + 1 >= 0
    BY <1>3
  <2>4. -size <= t /\ t <= size
    BY <1>2, <2>1, <2>2
  <2>5. Found(bits)
    BY <1>7, <2>3
  <2>6. CASE t = T
    BY <1>5, <2>3, <2>4, <2>6
  <2>7. CASE T < t
    <3>1. Round(t, bits + 1, T < t) = <<t - half, bits>>
      BY <2>1, <2>3, <2>7, RoundMoves
    <3>2. probe[<<t, bits + 1>>] = probe[<<t - half, bits>>]
      BY <1>3, <1>5, <2>3, <2>4, <2>7, <3>1
    <3>3. t - half \in Int /\ Within(t - half, bits, T)
      BY <1>2, <1>3, <2>1, <2>2, <2>7 DEF Within
    <3> QED
      BY <2>5, <3>2, <3>3
  <2>8. CASE t < T
    <3>1. Round(t, bits + 1, T < t) = <<t + half, bits>>
      <4>1. ~(T < t)
        BY <1>3, <2>8
      <4> QED
        BY <2>1, <2>3, <4>1, RoundMoves
    <3>2. probe[<<t, bits + 1>>] = probe[<<t + half, bits>>]
      BY <1>3, <1>5, <2>3, <2>4, <2>8, <3>1
    <3>3. t + half \in Int /\ Within(t + half, bits, T)
      BY <1>2, <1>3, <2>1, <2>2, <2>8 DEF Within
    <3> QED
      BY <2>5, <3>2, <3>3
  <2> QED
    BY <1>3, <2>6, <2>7, <2>8
<1> HIDE DEF Good
<1>8. TimeBits \in Good
  BY <1>3, <1>6, <1>7, Induction
<1>9. Within(0, TimeBits, T)
  BY <1>2, <1>3 DEF Within
<1>10. 0 \in Int /\ TimeBits <= TimeBits
  BY <1>3
<1> QED
  BY <1>1, <1>8, <1>9, <1>10 DEF Good
-----------------------------------------------------------------------------
(* A day out of its month.                                                 *)

LEMMA YearsGoBack ==
  ASSUME NEW y \in Int, NEW d \in Int
  PROVE  YearsBack[<<y, d>>] =
           IF d > 0 THEN <<y, d>> ELSE YearsBack[<<y - 1, d + YearLength(y - 1 + YearBase)>>]
<1> DEFINE S == Int \X Int
           Done == {at \in S : at[2] > 0}
           step(at) == <<at[1] - 1, at[2] + YearLength(at[1] - 1 + YearBase)>>
           out == [at \in S |-> at]
           next == [at \in S |-> step(at)]
           m == [at \in S |-> IF at[2] > 0 THEN 0 ELSE 1 - at[2]]
           Body(at, f) == IF at[2] > 0 THEN at ELSE f[step(at)]
<1>1. YearsBack = CHOOSE f : f = [at \in S |-> Body(at, f)]
  BY DEF YearsBack
<1>2. \A n : YearLength(n) \in 1 .. 366
  BY DEF YearLength
<1>3. ASSUME NEW at \in S
      PROVE  /\ step(at) \in S /\ m[at] \in Nat
             /\ at \notin Done => m[step(at)] < m[at]
  <2>1. PICK z \in Int, e \in Int : at = <<z, e>> /\ at[1] = z /\ at[2] = e
    OBVIOUS
  <2>2. PICK l \in 1 .. 366 : l = YearLength(z - 1 + YearBase)
    BY <1>2
  <2>3. step(at) = <<z - 1, e + l>> /\ z - 1 \in Int /\ e + l \in Int
    BY <2>1, <2>2
  <2>4. step(at) \in S /\ step(at)[2] = e + l
    BY <2>3
  <2> HIDE DEF step
  <2>5. /\ m[at] = IF e > 0 THEN 0 ELSE 1 - e
        /\ m[step(at)] = IF e + l > 0 THEN 0 ELSE 1 - (e + l)
        /\ (at \in Done <=> e > 0)
    BY <2>1, <2>4
  <2> HIDE DEF m, Done
  <2> QED
    BY <2>4, <2>5
<1>4. \A at \in S : \A f : Body(at, f) = LoopAt(Done, out, next, at, f)
  <2> HIDE DEF step
  <2> QED
    BY DEF LoopAt
<1>5. S # {} /\ m \in [S -> Nat] /\ out \in [S -> S] /\ next \in [S -> S] /\ \A at \in S : next[at] = step(at)
  <2>1. <<0, 0>> \in S
    OBVIOUS
  <2>2. S # {}
    BY <2>1
  <2>3. \A at \in S : (IF at[2] > 0 THEN 0 ELSE 1 - at[2]) \in Nat
    OBVIOUS
  <2> HIDE DEF step, S
  <2> QED
    BY <1>3, <2>2, <2>3
<1>6. <<y, d>> \in S
  OBVIOUS
<1> HIDE DEF S, Done, out, next, m, Body
<1>7. PICK f : LoopOf(f, Done, out, next, S, S)
  <2>1. Loops(Done, out, next, S, S, m)
    BY <1>3, <1>5 DEF Loops
  <2> QED
    BY <2>1, LoopExists
<1>8. f = [at \in S |-> Body(at, f)]
  BY <1>4, <1>7 DEF LoopOf
<1>9. YearsBack = [at \in S |-> Body(at, YearsBack)]
  BY <1>1, <1>8
<1>10. YearsBack[<<y, d>>] = Body(<<y, d>>, YearsBack)
  BY <1>6, <1>9
<1> QED
  BY <1>10 DEF Body

LEMMA MonthsGoOn ==
  ASSUME NEW y \in Int, NEW mon \in 0 .. 11, NEW d \in Int, d > 0
  PROVE  LET l == MonLengths(y + YearBase)[mon]
         IN  MonthsOn[<<y, mon, d>>] =
               IF d <= l THEN <<y, mon, d>>
               ELSE MonthsOn[<<IF mon = 11 THEN y + 1 ELSE y, (mon + 1) % 12, d - l>>]
<1> DEFINE S == Int \X (0 .. 11) \X Int
           days(at) == MonLengths(at[1] + YearBase)[at[2]]
           Done == {at \in S : at[3] <= days(at)}
           step(at) == <<IF at[2] = 11 THEN at[1] + 1 ELSE at[1], (at[2] + 1) % 12, at[3] - days(at)>>
           out == [at \in S |-> at]
           next == [at \in S |-> step(at)]
           m == [at \in S |-> IF at[3] > 0 THEN at[3] ELSE 0]
           Body(at, f) == IF at[3] <= days(at) THEN at ELSE f[step(at)]
<1>1. MonthsOn = CHOOSE f : f = [at \in S |-> Body(at, f)]
  BY DEF MonthsOn
<1>2. \A n \in Int : \A k \in 0 .. 11 : MonLengths(n)[k] \in 28 .. 31
  BY MonthsFollow
<1>3. ASSUME NEW at \in S
      PROVE  /\ step(at) \in S /\ m[at] \in Nat
             /\ at \notin Done => m[step(at)] < m[at]
  <2>1. PICK z \in Int, k \in 0 .. 11, e \in Int : at = <<z, k, e>> /\ at[1] = z /\ at[2] = k /\ at[3] = e
    OBVIOUS
  <2>2. PICK l \in 28 .. 31 : l = days(at)
    <3>1. z + YearBase \in Int
      BY DEF YearBase
    <3> QED
      BY <1>2, <2>1, <3>1
  <2>3. /\ step(at) = <<IF k = 11 THEN z + 1 ELSE z, (k + 1) % 12, e - l>>
        /\ (IF k = 11 THEN z + 1 ELSE z) \in Int /\ (k + 1) % 12 \in 0 .. 11 /\ e - l \in Int
    BY <2>1, <2>2
  <2>4. step(at) \in S /\ step(at)[3] = e - l
    BY <2>3
  <2> HIDE DEF step
  <2>5. /\ m[at] = IF e > 0 THEN e ELSE 0
        /\ m[step(at)] = IF e - l > 0 THEN e - l ELSE 0
        /\ (at \in Done <=> e <= l)
    BY <2>1, <2>2, <2>4
  <2> HIDE DEF m, Done
  <2> QED
    BY <2>4, <2>5
<1>4. \A at \in S : \A f : Body(at, f) = LoopAt(Done, out, next, at, f)
  <2> HIDE DEF step, days
  <2> QED
    BY DEF LoopAt
<1>5. S # {} /\ m \in [S -> Nat] /\ out \in [S -> S] /\ next \in [S -> S] /\ \A at \in S : next[at] = step(at)
  <2>1. <<0, 0, 0>> \in S
    OBVIOUS
  <2>2. S # {}
    BY <2>1
  <2>3. \A at \in S : (IF at[3] > 0 THEN at[3] ELSE 0) \in Nat
    OBVIOUS
  <2> HIDE DEF step, S
  <2> QED
    BY <1>3, <2>2, <2>3
<1>6. <<y, mon, d>> \in S
  OBVIOUS
<1> HIDE DEF S, Done, out, next, m, Body
<1>7. PICK f : LoopOf(f, Done, out, next, S, S)
  <2>1. Loops(Done, out, next, S, S, m)
    BY <1>3, <1>5 DEF Loops
  <2> QED
    BY <2>1, LoopExists
<1>8. f = [at \in S |-> Body(at, f)]
  BY <1>4, <1>7 DEF LoopOf
<1>9. MonthsOn = [at \in S |-> Body(at, MonthsOn)]
  BY <1>1, <1>8
<1>10. MonthsOn[<<y, mon, d>>] = Body(<<y, mon, d>>, MonthsOn)
  BY <1>6, <1>9
<1> QED
  BY <1>10 DEF Body

\* The months that go by are taken off the day: it stays the same day.
LandsOn(y, mon, d) ==
    LET at == MonthsOn[<<y, mon, d>>]
    IN  /\ at[1] \in Int /\ at[2] \in 0 .. 11
        /\ at[3] \in 1 .. MonLengths(at[1] + YearBase)[at[2]]
        /\ MonthIn(at[1], at[2]) + at[3] = MonthIn(y, mon) + d

LEMMA MonthsLand ==
  \A y \in Int : \A mon \in 0 .. 11 : \A d \in Nat \ {0} : LandsOn(y, mon, d)
<1> DEFINE Good == {n \in Nat : \A y \in Int : \A mon \in 0 .. 11 : \A d \in 1 .. n : LandsOn(y, mon, d)}
<1>1. 0 \in Good
  OBVIOUS
<1>2. ASSUME NEW n \in Nat, n \in Good PROVE n + 1 \in Good
  <2> SUFFICES ASSUME NEW y \in Int, NEW mon \in 0 .. 11, NEW d \in 1 .. n + 1
               PROVE  LandsOn(y, mon, d)
    OBVIOUS
  <2>0. d \in Int /\ d > 0 /\ y + YearBase \in Int
    BY DEF YearBase
  <2>1. PICK l \in 28 .. 31 : l = MonLengths(y + YearBase)[mon]
    BY <2>0, MonthsFollow
  <2>2. MonthsOn[<<y, mon, d>>] =
          IF d <= l THEN <<y, mon, d>>
          ELSE MonthsOn[<<IF mon = 11 THEN y + 1 ELSE y, (mon + 1) % 12, d - l>>]
    BY <2>0, <2>1, MonthsGoOn, ZenonT(40)
  <2>3. CASE d <= l
    <3>1. MonthsOn[<<y, mon, d>>] = <<y, mon, d>>
      BY <2>2, <2>3
    <3>2. d \in 1 .. MonLengths(y + YearBase)[mon]
      BY <2>0, <2>1, <2>3
    <3> QED
      BY <3>1, <3>2 DEF LandsOn
  <2>4. CASE ~(d <= l)
    <3> DEFINE z == IF mon = 11 THEN y + 1 ELSE y
               k == (mon + 1) % 12
    <3>1. z \in Int /\ k \in 0 .. 11 /\ d - l \in 1 .. n
      BY <2>0, <2>1, <2>4
    <3>2. MonthsOn[<<y, mon, d>>] = MonthsOn[<<z, k, d - l>>]
      BY <2>2, <2>4
    <3>3. LandsOn(z, k, d - l)
      BY <1>2, <3>1
    <3>4. MonthIn(z, k) = MonthIn(y, mon) + l /\ MonthIn(y, mon) \in Int
      <4>1. /\ DaysToYear(y + YearBase) \in Int
            /\ DaysToYear(y + YearBase + 1) = DaysToYear(y + YearBase) + YearLength(y + YearBase)
        BY <2>0, YearsAddUp
      <4>2. /\ DaysToMonth(y + YearBase, mon) \in Int
            /\ mon < 11 => DaysToMonth(y + YearBase, mon + 1) = DaysToMonth(y + YearBase, mon) + l
            /\ mon = 11 => YearLength(y + YearBase) = DaysToMonth(y + YearBase, mon) + l
        BY <2>0, <2>1, MonthsFollow
      <4>3. CASE mon = 11
        <5>1. z = y + 1 /\ k = 0 /\ z + YearBase = y + YearBase + 1 /\ z + YearBase \in Int
          BY <4>3 DEF YearBase
        <5>2. DaysToMonth(z + YearBase, 0) = 0
          <6>1. 0 \in 0 .. 11
            OBVIOUS
          <6> QED
            BY <5>1, <6>1, MonthsFollow
        <5> QED
          BY <2>1, <4>1, <4>2, <4>3, <5>1, <5>2 DEF MonthIn
      <4>4. CASE mon # 11
        <5>1. z = y /\ k = mon + 1 /\ mon < 11
          BY <4>4
        <5> QED
          BY <2>1, <4>1, <4>2, <5>1 DEF MonthIn
      <4> QED
        BY <4>3, <4>4
    <3> HIDE DEF z, k
    <3> QED
      BY <2>0, <2>1, <3>1, <3>2, <3>3, <3>4 DEF LandsOn
  <2> QED
    BY <2>3, <2>4
<1> HIDE DEF Good
<1>3. \A n \in Nat : n \in Good
  BY <1>1, <1>2, Induction
<1> QED
  <2>1. \A d \in Nat \ {0} : d \in Good /\ d \in 1 .. d
    BY <1>3
  <2> QED
    BY <2>1 DEF Good

-----------------------------------------------------------------------------
(* The fields of a time, carried over.                                     *)

LandsIn(n, tens, units, base) ==
    /\ n.tens \in Int /\ n.units \in 0 .. base - 1
    /\ n.tens * base + n.units = tens * base + units
    /\ n.tens = tens + (units \div base) /\ n.units = units % base

\* A field at most two units of the next one below zero is put in its range.
LEMMA NormalizeLands ==
  ASSUME NEW base \in {12, 24, 60}, NEW tens \in Int, NEW units \in Int, units > -2 * base
  PROVE  LandsIn(Normalize(tens, units, base), tens, units, base)
<1> DEFINE n == Normalize(tens, units, base)
<1>1. PICK q \in Int, r \in 0 .. base - 1 : q = units \div base /\ r = units % base /\ units = q * base + r
  <2>1. CASE base = 12
    BY <2>1
  <2>2. CASE base = 24
    BY <2>2
  <2>3. CASE base = 60
    BY <2>3
  <2> QED
    BY <2>1, <2>2, <2>3
<1>2. n.tens = tens + q /\ n.units = r
  <2>1. CASE units >= base
    BY <1>1, <2>1 DEF Normalize
  <2>2. CASE units \in 0 .. base - 1
    <3>1. n.tens = tens /\ n.units = units
      BY <2>2 DEF Normalize
    <3> HIDE DEF n
    <3>2. q = 0 /\ r = units
      <4>1. CASE base = 12
        BY <1>1, <2>2, <4>1
      <4>2. CASE base = 24
        BY <1>1, <2>2, <4>2
      <4>3. CASE base = 60
        BY <1>1, <2>2, <4>3
      <4> QED
        BY <4>1, <4>2, <4>3
    <3> QED
      BY <3>1, <3>2
  <2>3. CASE units \in -base .. -1
    <3>1. n.tens = tens - 1 /\ n.units = units + base
      BY <2>3 DEF Normalize
    <3> HIDE DEF n
    <3>2. q = -1 /\ r = units + base
      <4>1. CASE base = 12
        BY <1>1, <2>3, <4>1
      <4>2. CASE base = 24
        BY <1>1, <2>3, <4>2
      <4>3. CASE base = 60
        BY <1>1, <2>3, <4>3
      <4> QED
        BY <4>1, <4>2, <4>3
    <3> QED
      BY <3>1, <3>2
  <2>4. CASE units < -base
    <3>1. PICK more \in Int : more = -(units + base)
      OBVIOUS
    <3>2. n.tens = tens - 2 - (more \div base) /\ n.units = base - (more % base)
      BY <2>4, <3>1 DEF Normalize
    <3> HIDE DEF n
    <3>3. more \in 1 .. base - 1
      BY <2>4, <3>1
    <3>4. (more \div base) = 0 /\ (more % base) = more
      <4>1. CASE base = 12
        BY <3>3, <4>1
      <4>2. CASE base = 24
        BY <3>3, <4>2
      <4>3. CASE base = 60
        BY <3>3, <4>3
      <4> QED
        BY <4>1, <4>2, <4>3
    <3>5. q = -2 /\ r = base - more
      <4>1. CASE base = 12
        BY <1>1, <3>1, <3>3, <4>1
      <4>2. CASE base = 24
        BY <1>1, <3>1, <3>3, <4>2
      <4>3. CASE base = 60
        BY <1>1, <3>1, <3>3, <4>3
      <4> QED
        BY <4>1, <4>2, <4>3
    <3> QED
      BY <3>2, <3>4, <3>5
  <2> HIDE DEF n
  <2>5. units >= base \/ units \in 0 .. base - 1 \/ units \in -base .. -1 \/ units < -base
    OBVIOUS
  <2> QED
    BY <2>1, <2>2, <2>3, <2>4, <2>5
<1> HIDE DEF n
<1>3. n.tens * base + n.units = tens * base + units
  <2>1. CASE base = 12
    BY <1>1, <1>2, <2>1
  <2>2. CASE base = 24
    BY <1>1, <1>2, <2>2
  <2>3. CASE base = 60
    BY <1>1, <1>2, <2>3
  <2> QED
    BY <2>1, <2>2, <2>3
<1>4. n.tens \in Int /\ n.units \in 0 .. base - 1
  BY <1>1, <1>2
<1>5. n.tens = tens + (units \div base) /\ n.units = units % base
  BY <1>1, <1>2
<1> QED
  BY <1>3, <1>4, <1>5 DEF LandsIn, n

\* Two fields of a time are replaced.
LEMMA SecsCarried ==
  ASSUME NEW x \in BrokenTimes, x.sec > -120
  PROVE  LET got == Carry(x, "sec", "min", 60)
         IN  /\ got \in BrokenTimes /\ got.sec = x.sec % 60 /\ got.min = x.min + (x.sec \div 60)
             /\ got.year = x.year /\ got.mon = x.mon /\ got.mday = x.mday /\ got.hour = x.hour
             /\ got.isdst = x.isdst
<1> DEFINE n == Normalize(x.min, x.sec, 60)
<1>1. x.sec \in Int /\ x.min \in Int /\ 60 \in {12, 24, 60} /\ x.sec > -2 * 60
  BY DEF BrokenTimes
<1>2. n.units = x.sec % 60 /\ n.tens = x.min + (x.sec \div 60)
  <2>1. LandsIn(n, x.min, x.sec, 60)
    BY <1>1, NormalizeLands
  <2> HIDE DEF n
  <2> QED
    BY <2>1 DEF LandsIn
<1>3. PICK u \in Int, v \in Int : u = x.sec % 60 /\ v = x.min + (x.sec \div 60)
  BY <1>1
<1>4. Carry(x, "sec", "min", 60) = [x EXCEPT !.sec = n.units, !.min = n.tens]
  BY DEF Carry
<1> HIDE DEF n
<1>5. Carry(x, "sec", "min", 60) = [x EXCEPT !.sec = u, !.min = v]
  BY <1>2, <1>3, <1>4
<1>6. LET got == [x EXCEPT !.sec = u, !.min = v]
      IN  /\ got \in BrokenTimes /\ got.sec = u /\ got.min = v
          /\ got.year = x.year /\ got.mon = x.mon /\ got.mday = x.mday /\ got.hour = x.hour
          /\ got.isdst = x.isdst
  BY DEF BrokenTimes
<1> QED
  BY <1>3, <1>5, <1>6

LEMMA MinsCarried ==
  ASSUME NEW x \in BrokenTimes, x.min > -120
  PROVE  LET got == Carry(x, "min", "hour", 60)
         IN  /\ got \in BrokenTimes /\ got.min = x.min % 60 /\ got.hour = x.hour + (x.min \div 60)
             /\ got.year = x.year /\ got.mon = x.mon /\ got.mday = x.mday /\ got.sec = x.sec
             /\ got.isdst = x.isdst
<1> DEFINE n == Normalize(x.hour, x.min, 60)
<1>1. x.min \in Int /\ x.hour \in Int /\ 60 \in {12, 24, 60} /\ x.min > -2 * 60
  BY DEF BrokenTimes
<1>2. n.units = x.min % 60 /\ n.tens = x.hour + (x.min \div 60)
  <2>1. LandsIn(n, x.hour, x.min, 60)
    BY <1>1, NormalizeLands
  <2> HIDE DEF n
  <2> QED
    BY <2>1 DEF LandsIn
<1>3. PICK u \in Int, v \in Int : u = x.min % 60 /\ v = x.hour + (x.min \div 60)
  BY <1>1
<1>4. Carry(x, "min", "hour", 60) = [x EXCEPT !.min = n.units, !.hour = n.tens]
  BY DEF Carry
<1> HIDE DEF n
<1>5. Carry(x, "min", "hour", 60) = [x EXCEPT !.min = u, !.hour = v]
  BY <1>2, <1>3, <1>4
<1>6. LET got == [x EXCEPT !.min = u, !.hour = v]
      IN  /\ got \in BrokenTimes /\ got.min = u /\ got.hour = v
          /\ got.year = x.year /\ got.mon = x.mon /\ got.mday = x.mday /\ got.sec = x.sec
          /\ got.isdst = x.isdst
  BY DEF BrokenTimes
<1> QED
  BY <1>3, <1>5, <1>6

LEMMA HoursCarried ==
  ASSUME NEW x \in BrokenTimes, x.hour > -48
  PROVE  LET got == Carry(x, "hour", "mday", 24)
         IN  /\ got \in BrokenTimes /\ got.hour = x.hour % 24 /\ got.mday = x.mday + (x.hour \div 24)
             /\ got.year = x.year /\ got.mon = x.mon /\ got.min = x.min /\ got.sec = x.sec
             /\ got.isdst = x.isdst
<1> DEFINE n == Normalize(x.mday, x.hour, 24)
<1>1. x.hour \in Int /\ x.mday \in Int /\ 24 \in {12, 24, 60} /\ x.hour > -2 * 24
  BY DEF BrokenTimes
<1>2. n.units = x.hour % 24 /\ n.tens = x.mday + (x.hour \div 24)
  <2>1. LandsIn(n, x.mday, x.hour, 24)
    BY <1>1, NormalizeLands
  <2> HIDE DEF n
  <2> QED
    BY <2>1 DEF LandsIn
<1>3. PICK u \in Int, v \in Int : u = x.hour % 24 /\ v = x.mday + (x.hour \div 24)
  BY <1>1
<1>4. Carry(x, "hour", "mday", 24) = [x EXCEPT !.hour = n.units, !.mday = n.tens]
  BY DEF Carry
<1> HIDE DEF n
<1>5. Carry(x, "hour", "mday", 24) = [x EXCEPT !.hour = u, !.mday = v]
  BY <1>2, <1>3, <1>4
<1>6. LET got == [x EXCEPT !.hour = u, !.mday = v]
      IN  /\ got \in BrokenTimes /\ got.hour = u /\ got.mday = v
          /\ got.year = x.year /\ got.mon = x.mon /\ got.min = x.min /\ got.sec = x.sec
          /\ got.isdst = x.isdst
  BY DEF BrokenTimes
<1> QED
  BY <1>3, <1>5, <1>6

LEMMA MonthsCarried ==
  ASSUME NEW x \in BrokenTimes, x.mon > -24
  PROVE  LET got == Carry(x, "mon", "year", 12)
         IN  /\ got \in BrokenTimes /\ got.mon = x.mon % 12 /\ got.year = x.year + (x.mon \div 12)
             /\ got.mday = x.mday /\ got.hour = x.hour /\ got.min = x.min /\ got.sec = x.sec
             /\ got.isdst = x.isdst
<1> DEFINE n == Normalize(x.year, x.mon, 12)
<1>1. x.mon \in Int /\ x.year \in Int /\ 12 \in {12, 24, 60} /\ x.mon > -2 * 12
  BY DEF BrokenTimes
<1>2. n.units = x.mon % 12 /\ n.tens = x.year + (x.mon \div 12)
  <2>1. LandsIn(n, x.year, x.mon, 12)
    BY <1>1, NormalizeLands
  <2> HIDE DEF n
  <2> QED
    BY <2>1 DEF LandsIn
<1>3. PICK u \in Int, v \in Int : u = x.mon % 12 /\ v = x.year + (x.mon \div 12)
  BY <1>1
<1>4. Carry(x, "mon", "year", 12) = [x EXCEPT !.mon = n.units, !.year = n.tens]
  BY DEF Carry
<1> HIDE DEF n
<1>5. Carry(x, "mon", "year", 12) = [x EXCEPT !.mon = u, !.year = v]
  BY <1>2, <1>3, <1>4
<1>6. LET got == [x EXCEPT !.mon = u, !.year = v]
      IN  /\ got \in BrokenTimes /\ got.mon = u /\ got.year = v
          /\ got.mday = x.mday /\ got.hour = x.hour /\ got.min = x.min /\ got.sec = x.sec
          /\ got.isdst = x.isdst
  BY DEF BrokenTimes
<1> QED
  BY <1>3, <1>5, <1>6

LEMMA Divided ==
  /\ \A u \in Int : \E r \in 0 .. 59, q \in Int : r = u % 60 /\ q = (u \div 60) /\ u = q * 60 + r
  /\ \A u \in Int : \E r \in 0 .. 23, q \in Int : r = u % 24 /\ q = (u \div 24) /\ u = q * 24 + r
<1>1. ASSUME NEW u \in Int
      PROVE  \E r \in 0 .. 59, q \in Int : r = u % 60 /\ q = (u \div 60) /\ u = q * 60 + r
  <2>1. (u % 60) \in 0 .. 59 /\ (u \div 60) \in Int /\ u = (u \div 60) * 60 + (u % 60)
    OBVIOUS
  <2> QED
    BY <2>1
<1>2. ASSUME NEW u \in Int
      PROVE  \E r \in 0 .. 23, q \in Int : r = u % 24 /\ q = (u \div 24) /\ u = q * 24 + r
  <2>1. (u % 24) \in 0 .. 23 /\ (u \div 24) \in Int /\ u = (u \div 24) * 24 + (u % 24)
    OBVIOUS
  <2> QED
    BY <2>1
<1> QED
  BY <1>1, <1>2

\* A field below zero borrows two units of the next one at most, and the
\* seconds do not stay beyond their minute.
Gentle(x) ==
    /\ x \in BrokenTimes
    /\ x.sec > -120 /\ x.sec \notin {60, 61} /\ x.min > -118 /\ x.hour > -46 /\ x.mon > -24

\* The earliest day that the fields below a day can take it back to.
LeastDay(x) == IF x.sec >= 0 /\ x.min >= 0 /\ x.hour >= 0 THEN x.mday ELSE x.mday - 2

CarriedOver(x) ==
    Carry(Carry(Carry(IF x.sec \in 0 .. 61 THEN x ELSE Carry(x, "sec", "min", 60),
                      "min", "hour", 60), "hour", "mday", 24), "mon", "year", 12)

LEMMA CarriesOver ==
  ASSUME NEW x, Gentle(x)
  PROVE  LET got == CarriedOver(x)
         IN  /\ got \in BrokenTimes /\ got.isdst = x.isdst
             /\ got.year = x.year + (x.mon \div 12) /\ got.mon = x.mon % 12 /\ got.mon \in 0 .. 11
             /\ got.hour \in 0 .. 23 /\ got.min \in 0 .. 59 /\ got.sec \in 0 .. 59
             /\ got.mday * SecsPerDay + got.hour * SecsPerHour + got.min * 60 + got.sec
                  = x.mday * SecsPerDay + x.hour * SecsPerHour + x.min * 60 + x.sec
             /\ got.mday >= LeastDay(x)
<1> DEFINE x1 == IF x.sec \in 0 .. 61 THEN x ELSE Carry(x, "sec", "min", 60)
           x2 == Carry(x1, "min", "hour", 60)
           x3 == Carry(x2, "hour", "mday", 24)
           x4 == Carry(x3, "mon", "year", 12)
<1>0. /\ x \in BrokenTimes
      /\ x.sec > -120 /\ x.sec \notin {60, 61} /\ x.min > -118 /\ x.hour > -46 /\ x.mon > -24
  BY DEF Gentle
<1>1. /\ x.year \in Int /\ x.mon \in Int /\ x.mday \in Int /\ x.hour \in Int /\ x.min \in Int /\ x.sec \in Int
  BY <1>0 DEF BrokenTimes
<1>2. PICK s \in 0 .. 59, q1 \in Int : s = x.sec % 60 /\ q1 = (x.sec \div 60) /\ x.sec = q1 * 60 + s
  BY <1>1, Divided
<1>3. q1 >= -2
  BY <1>0, <1>2
<1>4. /\ x1 \in BrokenTimes /\ x1.sec = s /\ x1.min = x.min + q1
      /\ x1.year = x.year /\ x1.mon = x.mon /\ x1.mday = x.mday /\ x1.hour = x.hour
      /\ x1.isdst = x.isdst
  <2>1. CASE x.sec \in 0 .. 61
    <3>1. s = x.sec /\ q1 = 0
      <4>1. x.sec \in 0 .. 59
        BY <1>0, <1>1, <2>1
      <4> QED
        BY <1>2, <4>1
    <3>2. x1 = x
      BY <2>1
    <3> HIDE DEF x1
    <3> QED
      BY <1>0, <1>1, <3>1, <3>2
  <2>2. CASE ~(x.sec \in 0 .. 61)
    <3>1. x1 = Carry(x, "sec", "min", 60)
      BY <2>2
    <3> HIDE DEF x1
    <3> QED
      BY <1>0, <1>2, <3>1, SecsCarried, ZenonT(40)
  <2> QED
    BY <2>1, <2>2
<1> HIDE DEF x1
<1>5. PICK n \in 0 .. 59, q2 \in Int : n = x1.min % 60 /\ q2 = (x1.min \div 60) /\ x1.min = q2 * 60 + n
  <2>1. x1.min \in Int
    BY <1>4 DEF BrokenTimes
  <2> QED
    BY <2>1, Divided
<1>6. x1.min > -120 /\ q2 >= -2
  <2>1. PICK m0 \in Int : m0 = x.min /\ m0 > -118
    BY <1>0, <1>1
  <2>2. x1.min = m0 + q1 /\ m0 + q1 = q2 * 60 + n
    BY <1>4, <1>5, <2>1
  <2> QED
    BY <1>3, <2>1, <2>2
<1>7. /\ x2 \in BrokenTimes /\ x2.sec = s /\ x2.min = n /\ x2.hour = x.hour + q2
      /\ x2.year = x.year /\ x2.mon = x.mon /\ x2.mday = x.mday
      /\ x2.isdst = x.isdst
  <2>1. x1 \in BrokenTimes /\ x1.min > -120
    BY <1>4, <1>6
  <2>2. /\ x2 \in BrokenTimes /\ x2.min = x1.min % 60 /\ x2.hour = x1.hour + (x1.min \div 60)
        /\ x2.year = x1.year /\ x2.mon = x1.mon /\ x2.mday = x1.mday /\ x2.sec = x1.sec
        /\ x2.isdst = x1.isdst
    BY <2>1, MinsCarried
  <2> HIDE DEF x2
  <2> QED
    BY <1>4, <1>5, <2>2
<1> HIDE DEF x2
<1>8. PICK h \in 0 .. 23, q3 \in Int : h = x2.hour % 24 /\ q3 = (x2.hour \div 24) /\ x2.hour = q3 * 24 + h
  <2>1. x2.hour \in Int
    BY <1>7 DEF BrokenTimes
  <2> QED
    BY <2>1, Divided
<1>9. x2.hour > -48 /\ q3 >= -2
  BY <1>0, <1>1, <1>6, <1>7, <1>8
<1>10. /\ x3 \in BrokenTimes /\ x3.sec = s /\ x3.min = n /\ x3.hour = h /\ x3.mday = x.mday + q3
       /\ x3.year = x.year /\ x3.mon = x.mon /\ x3.isdst = x.isdst
  BY <1>7, <1>8, <1>9, HoursCarried
<1> HIDE DEF x3
<1>11. /\ x4 \in BrokenTimes /\ x4.sec = s /\ x4.min = n /\ x4.hour = h /\ x4.mday = x.mday + q3
       /\ x4.year = x.year + (x.mon \div 12) /\ x4.mon = x.mon % 12 /\ x4.isdst = x.isdst
  BY <1>0, <1>10, MonthsCarried
<1>12. CarriedOver(x) = x4
  BY DEF CarriedOver, x1, x2, x3
<1> HIDE DEF x4
<1>13. (x.mday + q3) * 86400 + h * 3600 + n * 60 + s
         = x.mday * 86400 + x.hour * 3600 + x.min * 60 + x.sec
  <2>1. x.hour + q2 = q3 * 24 + h /\ x.min + q1 = q2 * 60 + n
    BY <1>4, <1>5, <1>7, <1>8
  <2>2. PICK d \in Int, xh \in Int, xm \in Int, xs \in Int :
          d = x.mday /\ xh = x.hour /\ xm = x.min /\ xs = x.sec
    BY <1>1
  <2>3. xh + q2 = q3 * 24 + h /\ xm + q1 = q2 * 60 + n /\ xs = q1 * 60 + s
    BY <1>2, <2>1, <2>2
  <2>4. (d + q3) * 86400 + h * 3600 + n * 60 + s = d * 86400 + xh * 3600 + xm * 60 + xs
    BY <2>3, SMT
  <2> QED
    BY <2>2, <2>4
<1>14. x4.mon \in 0 .. 11
  BY <1>1, <1>11
<1>15. x4.mday >= LeastDay(x)
  <2>1. PICK d \in Int, xh \in Int, xm \in Int, xs \in Int :
          d = x.mday /\ xh = x.hour /\ xm = x.min /\ xs = x.sec
    BY <1>1
  <2>2. xh + q2 = q3 * 24 + h /\ xm + q1 = q2 * 60 + n /\ xs = q1 * 60 + s
    BY <1>2, <1>4, <1>5, <1>7, <1>8, <2>1
  <2>3. xs >= 0 /\ xm >= 0 /\ xh >= 0 => q3 >= 0
    BY <2>2
  <2> QED
    BY <1>9, <1>11, <2>1, <2>3 DEF LeastDay
<1>16. x4.mday * SecsPerDay + x4.hour * SecsPerHour + x4.min * 60 + x4.sec
         = x.mday * SecsPerDay + x.hour * SecsPerHour + x.min * 60 + x.sec
  BY <1>11, <1>13 DEF SecsPerDay, SecsPerHour
<1>17. x4.hour \in 0 .. 23 /\ x4.min \in 0 .. 59 /\ x4.sec \in 0 .. 59
  BY <1>11
<1> QED
  BY <1>11, <1>12, <1>14, <1>15, <1>16, <1>17

\* A day before the month by less than a year: the year that the code steps
\* back over has the length it takes, unless only one of the two is a leap
\* year and the month is past February.
CountsBack(y, mon, d) ==
    d > 0 \/ (d > -365 /\ (mon <= 1 \/ YearLength(y + YearBase - 1) = YearLength(y + YearBase)))

LEMMA MonthsAreDays ==
  ASSUME NEW y \in Int, NEW mon \in 0 .. 11
  PROVE  MonthIn(y, mon) \in Int
<1>1. y + YearBase \in Int
  BY DEF YearBase
<1>2. DaysToYear(y + YearBase) \in Int
  BY <1>1, YearsAddUp
<1>3. DaysToMonth(y + YearBase, mon) \in Int
  BY <1>1, MonthsFollow
<1> QED
  BY <1>2, <1>3 DEF MonthIn

LEMMA YearsLand ==
  ASSUME NEW y \in Int, NEW mon \in 0 .. 11, NEW d \in Int, CountsBack(y, mon, d)
  PROVE  LET at == YearsBack[<<y, d>>]
         IN  at[1] \in Int /\ at[2] \in Nat \ {0} /\ MonthIn(at[1], mon) + at[2] = MonthIn(y, mon) + d
<1>1. /\ y + YearBase - 1 \in Int /\ y - 1 + YearBase = y + YearBase - 1
      /\ y + YearBase \in Int /\ y + YearBase - 1 + 1 = y + YearBase
  BY DEF YearBase
<1>2. CASE d > 0
  <2>1. YearsBack[<<y, d>>] = <<y, d>>
    BY <1>2, YearsGoBack
  <2> QED
    BY <1>2, <2>1
<1>3. CASE ~(d > 0)
  <2> DEFINE z == y + YearBase - 1
             l == YearLength(z)
  <2>1. l \in Int /\ l >= 365
    BY DEF YearLength
  <2>2. YearsBack[<<y, d>>] = YearsBack[<<y - 1, d + l>>]
    BY <1>1, <1>3, YearsGoBack
  <2>3. d > -365 /\ (mon <= 1 \/ l = YearLength(y + YearBase))
    BY <1>3 DEF CountsBack
  <2> HIDE DEF l
  <2>4. d + l \in Int /\ d + l > 0 /\ y - 1 \in Int
    BY <2>1, <2>3
  <2>5. YearsBack[<<y - 1, d + l>>] = <<y - 1, d + l>>
    BY <2>4, YearsGoBack
  <2>6. DaysToYear(z) \in Int /\ DaysToYear(y + YearBase) = DaysToYear(z) + l
    <3> HIDE DEF z
    <3>1. z \in Int /\ z + 1 = y + YearBase
      BY <1>1 DEF z
    <3> QED
      BY <3>1, YearsAddUp DEF l
  <2>7. DaysToMonth(z, mon) = DaysToMonth(y + YearBase, mon) /\ DaysToMonth(y + YearBase, mon) \in Int
    <3>1. l = YearLength(y + YearBase) => (IsLeap(z) <=> IsLeap(y + YearBase))
      BY DEF l, YearLength
    <3>2. /\ DaysToMonth(z, mon) = DaysBefore(z, mon)
          /\ DaysToMonth(y + YearBase, mon) = DaysBefore(y + YearBase, mon)
      BY <1>1, MonthsTable
    <3>3. DaysToMonth(y + YearBase, mon) \in Int
      BY <1>1, MonthsFollow
    <3>4. DaysBefore(z, mon) = DaysBefore(y + YearBase, mon)
      BY <2>3, <3>1 DEF DaysBefore
    <3> QED
      BY <3>2, <3>3, <3>4
  <2>8. y - 1 + YearBase = z
    BY <1>1
  <2>9. MonthIn(y - 1, mon) + (d + l) = MonthIn(y, mon) + d
    <3> HIDE DEF z
    <3> QED
      BY <2>1, <2>6, <2>7, <2>8 DEF MonthIn
  <2> QED
    BY <2>2, <2>4, <2>5, <2>9
<1> QED
  BY <1>2, <1>3

LEMMA DayLands ==
  ASSUME NEW x \in BrokenTimes, x.mon \in 0 .. 11, CountsBack(x.year, x.mon, x.mday)
  PROVE  LET got == NormalizeDay(x)
         IN  /\ got \in BrokenTimes /\ got.mon \in 0 .. 11
             /\ got.mday \in 1 .. MonLengths(got.year + YearBase)[got.mon]
             /\ MonthIn(got.year, got.mon) + got.mday = MonthIn(x.year, x.mon) + x.mday
             /\ got.hour = x.hour /\ got.min = x.min /\ got.sec = x.sec /\ got.isdst = x.isdst
<1>1. PICK y \in Int, mon \in 0 .. 11, d \in Int : y = x.year /\ mon = x.mon /\ d = x.mday
  BY DEF BrokenTimes
<1>2. PICK y1 \in Int, d1 \in Nat \ {0} :
        /\ y1 = YearsBack[<<y, d>>][1] /\ d1 = YearsBack[<<y, d>>][2]
        /\ MonthIn(y1, mon) + d1 = MonthIn(y, mon) + d
  BY <1>1, YearsLand
<1>3. LandsOn(y1, mon, d1)
  BY MonthsLand
<1>4. PICK y2 \in Int, m2 \in 0 .. 11, d2 \in Int :
        /\ y2 = MonthsOn[<<y1, mon, d1>>][1] /\ m2 = MonthsOn[<<y1, mon, d1>>][2]
        /\ d2 = MonthsOn[<<y1, mon, d1>>][3]
        /\ d2 \in 1 .. MonLengths(y2 + YearBase)[m2]
        /\ MonthIn(y2, m2) + d2 = MonthIn(y1, mon) + d1
  <2> DEFINE at == MonthsOn[<<y1, mon, d1>>]
  <2>1. /\ at[1] \in Int /\ at[2] \in 0 .. 11
        /\ at[3] \in 1 .. MonLengths(at[1] + YearBase)[at[2]]
        /\ MonthIn(at[1], at[2]) + at[3] = MonthIn(y1, mon) + d1
    BY <1>3 DEF LandsOn
  <2>2. MonLengths(at[1] + YearBase)[at[2]] \in 28 .. 31
    <3>1. at[1] + YearBase \in Int
      BY <2>1 DEF YearBase
    <3> QED
      BY <2>1, <3>1, MonthsFollow
  <2> HIDE DEF at
  <2>3. at[3] \in Int
    BY <2>1, <2>2
  <2> QED
    BY <2>1, <2>3 DEF at
<1>5. NormalizeDay(x) = [x EXCEPT !.year = y2, !.mon = m2, !.mday = d2]
  BY <1>1, <1>2, <1>4 DEF NormalizeDay
<1>6. LET got == [x EXCEPT !.year = y2, !.mon = m2, !.mday = d2]
      IN  /\ got \in BrokenTimes /\ got.year = y2 /\ got.mon = m2 /\ got.mday = d2
          /\ got.hour = x.hour /\ got.min = x.min /\ got.sec = x.sec /\ got.isdst = x.isdst
  <2>1. m2 \in Int
    OBVIOUS
  <2> QED
    BY <2>1 DEF BrokenTimes
<1> DEFINE got == NormalizeDay(x)
<1>7. /\ got \in BrokenTimes /\ got.year = y2 /\ got.mon = m2 /\ got.mday = d2
      /\ got.hour = x.hour /\ got.min = x.min /\ got.sec = x.sec /\ got.isdst = x.isdst
  BY <1>5, <1>6
<1> HIDE DEF got
<1>8. MonthIn(y2, m2) + d2 = MonthIn(y, mon) + d
  BY <1>2, <1>4
<1>9. MonthIn(got.year, got.mon) + got.mday = MonthIn(x.year, x.mon) + x.mday
  BY <1>1, <1>7, <1>8
<1>10. got.mon \in 0 .. 11 /\ got.mday \in 1 .. MonLengths(got.year + YearBase)[got.mon]
  BY <1>4, <1>7
<1> QED
  BY <1>7, <1>9, <1>10 DEF got

\* The moment that a time with its fields out of range promises.
Promise(x) ==
    (MonthIn(x.year + (x.mon \div 12), x.mon % 12) + x.mday - 1) * SecsPerDay
        + x.hour * SecsPerHour + x.min * 60 + x.sec

\* Normalisation gives the time that was meant.
LEMMA NormalizedMeans ==
  ASSUME NEW x, Gentle(x), NEW y, NEW mon, y = x.year + (x.mon \div 12), mon = x.mon % 12,
         \A d \in Int : d >= LeastDay(x) => CountsBack(y, mon, d)
  PROVE  LET got == Normalized(x)
         IN  Proper(got) /\ Moment(got) = Promise(x) /\ got.isdst = x.isdst
<1> DEFINE c == CarriedOver(x)
           got == NormalizeDay(c)
<1>1. Normalized(x) = got
  BY DEF Normalized, CarriedOver
<1>2. /\ c \in BrokenTimes /\ c.isdst = x.isdst
      /\ c.year = y /\ c.mon = mon /\ c.mon \in 0 .. 11
      /\ c.hour \in 0 .. 23 /\ c.min \in 0 .. 59 /\ c.sec \in 0 .. 59
      /\ c.mday * SecsPerDay + c.hour * SecsPerHour + c.min * 60 + c.sec
           = x.mday * SecsPerDay + x.hour * SecsPerHour + x.min * 60 + x.sec
      /\ c.mday >= LeastDay(x)
  BY CarriesOver
<1> HIDE DEF c
<1>3. c.year \in Int /\ c.mday \in Int
  BY <1>2 DEF BrokenTimes
<1>4. CountsBack(c.year, c.mon, c.mday)
  BY <1>2, <1>3
<1>5. /\ got \in BrokenTimes /\ got.mon \in 0 .. 11
      /\ got.mday \in 1 .. MonLengths(got.year + YearBase)[got.mon]
      /\ MonthIn(got.year, got.mon) + got.mday = MonthIn(c.year, c.mon) + c.mday
      /\ got.hour = c.hour /\ got.min = c.min /\ got.sec = c.sec /\ got.isdst = c.isdst
  BY <1>2, <1>4, DayLands
<1> HIDE DEF got
<1>6. Proper(got)
  BY <1>2, <1>5 DEF Proper
<1>7. MonthIn(y, mon) \in Int
  <2>1. y \in Int /\ mon \in 0 .. 11
    BY <1>2, <1>3
  <2> QED
    BY <2>1, MonthsAreDays
<1>8. Moment(got) = Promise(x)
  <2>1. PICK m \in Int, h \in Int, n \in Int, s \in Int, d \in Int :
          /\ m = MonthIn(y, mon) /\ h = c.hour /\ n = c.min /\ s = c.sec /\ d = c.mday
    <3>1. c.hour \in Int /\ c.min \in Int /\ c.sec \in Int
      BY <1>2
    <3> QED
      BY <1>3, <1>7, <3>1
  <2>2. PICK xd \in Int, xh \in Int, xm \in Int, xs \in Int :
          xd = x.mday /\ xh = x.hour /\ xm = x.min /\ xs = x.sec
    BY DEF Gentle, BrokenTimes
  <2>3. d * 86400 + h * 3600 + n * 60 + s = xd * 86400 + xh * 3600 + xm * 60 + xs
    BY <1>2, <2>1, <2>2 DEF SecsPerDay, SecsPerHour
  <2>4. Promise(x) = (m + xd - 1) * 86400 + xh * 3600 + xm * 60 + xs
    BY <2>1, <2>2 DEF Promise, SecsPerDay, SecsPerHour
  <2>5. Moment(got) = (m + d - 1) * 86400 + h * 3600 + n * 60 + s
    <3>1. DayOf(got) = m + d - 1
      <4>1. got.mday \in Int /\ MonthIn(got.year, got.mon) + got.mday = m + d
        BY <1>2, <1>5, <2>1 DEF BrokenTimes
      <4>2. MonthIn(got.year, got.mon) \in Int
        BY <1>5, MonthsAreDays DEF BrokenTimes
      <4> QED
        BY <4>1, <4>2 DEF DayOf
    <3> QED
      BY <1>5, <2>1, <3>1 DEF Moment, SecsPerDay, SecsPerHour
  <2> QED
    BY <2>3, <2>4, <2>5, SMT
<1> QED
  BY <1>1, <1>2, <1>5, <1>6, <1>8

\* The search for a time with every field in its range.
LEMMA OneOffsetFinds ==
  ASSUME NEW zone, OneOffset(zone), NEW normal, Proper(normal), normal.isdst = zone.ttis[1].isdst,
         NEW t \in Int, t = Moment(normal) - zone.ttis[1].gmtoff,
         t \in 59 - 2^TimeBits .. 2^TimeBits - 1
  PROVE  SearchFor(normal, zone) = <<t>>
<1> DEFINE yours == [normal EXCEPT !.sec = 0]
           first == Bisect(zone, yours)
<1>1. PICK s \in 0 .. 59, size \in Nat, off \in Int :
        s = normal.sec /\ size = 2^TimeBits /\ off = zone.ttis[1].gmtoff
  <2>1. TypeFits(zone.ttis[1])
    BY OneType
  <2>2. zone.ttis[1].gmtoff \in Int
    BY <2>1, SMT DEF TypeFits, Offsets
  <2>3. normal.sec \in 0 .. 59
    BY DEF Proper
  <2>4. 2^TimeBits \in Nat
    BY TimesAreShort, SMT
  <2> QED
    BY <2>2, <2>3, <2>4
<1>2. /\ yours \in BrokenTimes /\ yours.sec = 0 /\ yours.isdst = normal.isdst
      /\ yours.year = normal.year /\ yours.mon = normal.mon /\ yours.mday = normal.mday
      /\ yours.hour = normal.hour /\ yours.min = normal.min
  BY DEF Proper, BrokenTimes
<1>3. SearchFor(normal, zone) = PutSecs(RightType(first, yours, normal.isdst, zone), normal.sec)
  BY DEF SearchFor
<1> HIDE DEF yours
<1>4. Proper(yours)
  BY <1>2 DEF Proper
<1>5. DayOf(yours) = DayOf(normal) /\ DayOf(normal) \in Int
  BY <1>2, DaysInOrder DEF DayOf
<1>6. Moment(normal) = Moment(yours) + s /\ Moment(yours) \in Int
  <2>1. PICK d \in Int, h \in Int, n \in Int : d = DayOf(normal) /\ h = normal.hour /\ n = normal.min
    BY <1>5 DEF Proper
  <2>2. /\ Moment(normal) = d * 86400 + h * 3600 + n * 60 + s
        /\ Moment(yours) = d * 86400 + h * 3600 + n * 60 + 0
    BY <1>1, <1>2, <1>5, <2>1 DEF Moment, SecsPerDay, SecsPerHour
  <2> QED
    BY <2>2, SMT
<1>7. PICK T \in Int : T = t - s
  OBVIOUS
<1>8. T \in -size .. size - 1
  BY <1>1, <1>7, SMT
<1>9. Moment(yours) = T + off
  BY <1>1, <1>6, <1>7, SMT
<1>10. first = <<T>>
  <2>1. T \in -2^TimeBits .. 2^TimeBits - 1 /\ Moment(yours) = T + zone.ttis[1].gmtoff
    BY <1>1, <1>8, <1>9
  <2> QED
    BY <1>4, <2>1, BisectFinds
<1>11. T \in Times
  BY <1>1, <1>8, TimesAreShort, SMT DEF Times
<1>12. Localsub(T, zone).isdst = normal.isdst
  BY <1>11, OneOffsetTimes
<1>13. first # Wrong /\ first[1] = T
  BY <1>10 DEF Wrong
<1> HIDE DEF first
<1>14. RightType(first, yours, normal.isdst, zone) = first
  BY <1>12, <1>13 DEF RightType
<1>15. PutSecs(first, normal.sec) = <<T + s>>
  BY <1>1, <1>13 DEF PutSecs
<1>16. T + s = t
  BY <1>7
<1> QED
  BY <1>3, <1>14, <1>15, <1>16

(* mktime is exact in a zone with one offset: a time whose fields are out  *)
(* of range by any amount above, or by less than two units of the next     *)
(* field below, is found, and is the moment that its fields promise, as    *)
(* long as a day before its month does not make the code step back over a  *)
(* year of another length (ctime.c:1178-1195, 1219-1337, 1374-1381).       *)
THEOREM MktimeFinds ==
  ASSUME NEW zone, OneOffset(zone), NEW x, Gentle(x), x.isdst = zone.ttis[1].isdst,
         \A d \in Int : d >= LeastDay(x) => CountsBack(x.year + (x.mon \div 12), x.mon % 12, d),
         NEW t \in Int, t = Promise(x) - zone.ttis[1].gmtoff,
         t \in 59 - 2^TimeBits .. 2^TimeBits - 1
  PROVE  Mktime(x, zone) = t
<1>1. x \in BrokenTimes /\ x.isdst \in {0, 1}
  <2>1. TypeFits(zone.ttis[1])
    BY OneType
  <2> QED
    BY <2>1 DEF Gentle, TypeFits
<1> DEFINE normal == Normalized(x)
           flagged == [x EXCEPT !.isdst = IF @ > 1 THEN 1 ELSE @]
<1>2. Proper(normal) /\ Moment(normal) = Promise(x) /\ normal.isdst = x.isdst
  BY NormalizedMeans
<1>3. Time2(x, zone) = SearchFor(normal, zone)
  BY DEF Time2
<1> HIDE DEF normal
<1>4. Time2(x, zone) = <<t>>
  BY <1>2, <1>3, OneOffsetFinds
<1>5. flagged = x
  <2>1. flagged = [x EXCEPT !.isdst = x.isdst]
    BY <1>1
  <2> HIDE DEF flagged
  <2>2. [x EXCEPT !.isdst = x.isdst] = x
    BY <1>1 DEF BrokenTimes
  <2> QED
    BY <2>1, <2>2
<1>6. Time1(x, zone) = Settle(Time2(flagged, zone), flagged, zone)
  BY DEF Time1
<1> HIDE DEF flagged
<1>7. Settle(<<t>>, x, zone) = <<t>>
  BY DEF Settle, Wrong
<1>8. Time1(x, zone) = <<t>>
  BY <1>4, <1>5, <1>6, <1>7
<1>9. Head(<<t>> \o <<-1>>) = t
  OBVIOUS
<1> QED
  BY <1>8, <1>9 DEF Mktime

\* A local time moved on, or back, by its fields.
LEMMA MovedFinds ==
  ASSUME NEW zone, OneOffset(zone), NEW t \in Times, NEW now, now = Localsub(t, zone),
         NEW x, Gentle(x), x.isdst = now.isdst,
         \A d \in Int : d >= LeastDay(x) => CountsBack(x.year + (x.mon \div 12), x.mon % 12, d),
         NEW n \in Int, Promise(x) = Moment(now) + n, t + n \in 60 - 2^TimeBits .. 2^TimeBits - 1
  PROVE  Mktime(x, zone) = t + n
<1>1. /\ Proper(now) /\ now.isdst = zone.ttis[1].isdst
      /\ Moment(now) = t + zone.ttis[1].gmtoff
  BY OneOffsetTimes
<1>2. PICK off \in Int, size \in Nat : off = zone.ttis[1].gmtoff /\ size = 2^TimeBits
  <2>1. TypeFits(zone.ttis[1])
    BY OneType
  <2>2. zone.ttis[1].gmtoff \in Int
    BY <2>1, SMT DEF TypeFits, Offsets
  <2>3. 2^TimeBits \in Nat
    BY TimesAreShort, SMT
  <2> QED
    BY <2>2, <2>3
<1>3. PICK u \in Int : u = t + n
  BY SMT DEF Times
<1>4. u = Promise(x) - zone.ttis[1].gmtoff
  <2>1. t \in Int
    BY SMT DEF Times
  <2> QED
    BY <1>1, <1>2, <1>3, <2>1, SMT
<1>5. u \in 59 - 2^TimeBits .. 2^TimeBits - 1
  BY <1>2, <1>3, SMT
<1>6. Mktime(x, zone) = u
  BY <1>1, <1>4, <1>5, MktimeFinds
<1> QED
  BY <1>3, <1>6

LEMMA MovedPromise ==
  ASSUME NEW now, Proper(now), NEW x \in BrokenTimes, x.year = now.year, x.mon = now.mon,
         NEW d \in Int, x.mday = now.mday + d, NEW h \in Int, x.hour = now.hour + h,
         NEW m \in Int, x.min = now.min + m, NEW s \in Int, x.sec = now.sec + s
  PROVE  /\ Promise(x) = Moment(now) + (d * SecsPerDay + h * SecsPerHour + m * 60 + s)
         /\ x.year + (x.mon \div 12) = now.year /\ x.mon % 12 = now.mon
<1>1. now.year \in Int /\ now.mon \in 0 .. 11
  BY DEF Proper, BrokenTimes
<1>2. x.year + (x.mon \div 12) = now.year /\ x.mon % 12 = now.mon
  <2>1. (now.mon \div 12) = 0 /\ now.mon % 12 = now.mon
    BY <1>1
  <2> QED
    BY <1>1, <2>1
<1>3. MonthIn(now.year, now.mon) \in Int
  BY <1>1, MonthsAreDays
<1>4. PICK k \in Int, nd \in Int, nh \in Int, nm \in Int, ns \in Int :
        /\ k = MonthIn(now.year, now.mon)
        /\ nd = now.mday /\ nh = now.hour /\ nm = now.min /\ ns = now.sec
  BY <1>3 DEF Proper, BrokenTimes
<1>5. Promise(x) = (k + (nd + d) - 1) * 86400 + (nh + h) * 3600 + (nm + m) * 60 + (ns + s)
  BY <1>2, <1>4 DEF Promise, SecsPerDay, SecsPerHour
<1>6. Moment(now) = (k + nd - 1) * 86400 + nh * 3600 + nm * 60 + ns
  BY <1>4 DEF Moment, DayOf, SecsPerDay, SecsPerHour
<1>7. Promise(x) = Moment(now) + (d * SecsPerDay + h * SecsPerHour + m * 60 + s)
  BY <1>5, <1>6, SMT DEF SecsPerDay, SecsPerHour
<1> QED
  BY <1>2, <1>7

\* What the run checks of one way to move a local time.
Carries(zone, t, now, field, n, secs) ==
    (/\ field = "mon" => now.mon = 0
     /\ n < 0 => BackIsWhole(now)
     /\ t + secs \in 60 - 2^TimeBits .. 2^TimeBits - 1) =>
        Mktime([now EXCEPT ![field] = @ + n], zone) = t + secs

\* By seconds, minutes, hours or days.
LEMMA FieldCarries ==
  ASSUME NEW zone, OneOffset(zone), NEW t \in Times, NEW now, now = Localsub(t, zone),
         NEW x \in BrokenTimes, x.year = now.year, x.mon = now.mon, x.isdst = now.isdst,
         NEW d \in Nat, x.mday = now.mday + d, NEW h \in Int, x.hour = now.hour + h, h >= -30,
         NEW m \in Nat, x.min = now.min + m, NEW s \in Nat, x.sec = now.sec + s, s = 0 \/ s > 61,
         h < 0 => BackIsWhole(now),
         NEW n \in Int, n = d * SecsPerDay + h * SecsPerHour + m * 60 + s,
         t + n \in 60 - 2^TimeBits .. 2^TimeBits - 1
  PROVE  Mktime(x, zone) = t + n
<1>1. Proper(now)
  BY OneOffsetTimes
<1>2. /\ now.year \in Int /\ now.mon \in 0 .. 11 /\ now.hour \in 0 .. 23 /\ now.min \in 0 .. 59
      /\ now.sec \in 0 .. 59 /\ now.mday \in Int /\ 1 <= now.mday
  <2>1. now \in BrokenTimes
    BY <1>1 DEF Proper
  <2>2. MonLengths(now.year + YearBase)[now.mon] \in 28 .. 31
    <3>1. now.year + YearBase \in Int /\ now.mon \in 0 .. 11
      BY <1>1, <2>1 DEF BrokenTimes, Proper, YearBase
    <3> QED
      BY <3>1, MonthsFollow
  <2> QED
    BY <1>1, <2>1, <2>2 DEF Proper, BrokenTimes
<1>3. Gentle(x)
  BY <1>2 DEF Gentle
<1>4. /\ Promise(x) = Moment(now) + n
      /\ x.year + (x.mon \div 12) = now.year /\ x.mon % 12 = now.mon
  <2>1. h \in Int /\ d \in Int /\ m \in Int /\ s \in Int
    OBVIOUS
  <2> QED
    BY <1>1, <2>1, MovedPromise
<1>5. ASSUME NEW e \in Int, e >= LeastDay(x)
      PROVE  CountsBack(x.year + (x.mon \div 12), x.mon % 12, e)
  <2>1. CASE h >= 0
    <3>1. LeastDay(x) = x.mday
      BY <1>2, <2>1 DEF LeastDay
    <3> QED
      BY <1>2, <1>5, <3>1 DEF CountsBack
  <2>2. CASE h < 0
    <3>1. LeastDay(x) >= x.mday - 2 /\ LeastDay(x) \in Int
      BY <1>2 DEF LeastDay
    <3>2. e > -365 /\ (now.mday > 2 => e > 0)
      <4>1. PICK f \in Int, g \in Int : f = x.mday /\ g = now.mday
        BY <1>2
      <4>2. e >= f - 2 /\ f = g + d /\ 1 <= g
        BY <1>2, <1>5, <3>1, <4>1
      <4> QED
        BY <4>1, <4>2
    <3>3. now.mday > 2 \/ now.mon <= 1
          \/ YearLength(now.year + YearBase - 1) = YearLength(now.year + YearBase)
      BY <2>2 DEF BackIsWhole
    <3> QED
      BY <1>4, <3>2, <3>3 DEF CountsBack
  <2> QED
    BY <2>1, <2>2
<1> QED
  BY <1>3, <1>4, <1>5, MovedFinds

LEMMA TimesBreak ==
  ASSUME NEW zone, OneOffset(zone), NEW t \in Times
  PROVE  Localsub(t, zone) \in BrokenTimes
BY OneOffsetTimes DEF Proper

LEMMA SecsOn ==
  ASSUME NEW zone, OneOffset(zone), NEW t \in Times, NEW now, now = Localsub(t, zone)
  PROVE  Carries(zone, t, now, "sec", 7200, 7200)
<1> SUFFICES ASSUME t + (7200) \in 60 - 2^TimeBits .. 2^TimeBits - 1
             PROVE  Mktime([now EXCEPT !["sec"] = @ + (7200)], zone) = t + (7200)
  BY DEF Carries
<1> DEFINE x == [now EXCEPT !["sec"] = @ + (7200)]
<1>2. /\ x \in BrokenTimes /\ x.sec = now.sec + (7200)
      /\ x.year = now.year /\ x.mon = now.mon /\ x.mday = now.mday /\ x.hour = now.hour
      /\ x.min = now.min /\ x.isdst = now.isdst
  <2>1. now \in BrokenTimes
    BY TimesBreak
  <2> QED
    BY <2>1 DEF BrokenTimes
<1> HIDE DEF x
<1>3. x.mday = now.mday + (0) /\ x.hour = now.hour + (0) /\ x.min = now.min + (0) /\ x.sec = now.sec + (7200)
  <2>1. now.mday \in Int /\ now.hour \in Int /\ now.min \in Int /\ now.sec \in Int
    BY TimesBreak DEF BrokenTimes
  <2> QED
    BY <1>2, <2>1
<1>4. PICK k \in Int : k = 7200 /\ k = (0) * SecsPerDay + (0) * SecsPerHour + 0 * 60 + 7200
  BY SMT DEF SecsPerDay, SecsPerHour
<1>5. t + k \in 60 - 2^TimeBits .. 2^TimeBits - 1
  BY <1>4
<1>6. Mktime(x, zone) = t + k
  BY <1>2, <1>3, <1>4, <1>5, FieldCarries
<1> QED
  BY <1>4, <1>6 DEF x

LEMMA MinsOn ==
  ASSUME NEW zone, OneOffset(zone), NEW t \in Times, NEW now, now = Localsub(t, zone)
  PROVE  Carries(zone, t, now, "min", 1500, 1500 * 60)
<1> SUFFICES ASSUME t + (1500 * 60) \in 60 - 2^TimeBits .. 2^TimeBits - 1
             PROVE  Mktime([now EXCEPT !["min"] = @ + (1500)], zone) = t + (1500 * 60)
  BY DEF Carries
<1> DEFINE x == [now EXCEPT !["min"] = @ + (1500)]
<1>2. /\ x \in BrokenTimes /\ x.min = now.min + (1500)
      /\ x.year = now.year /\ x.mon = now.mon /\ x.mday = now.mday /\ x.hour = now.hour
      /\ x.sec = now.sec /\ x.isdst = now.isdst
  <2>1. now \in BrokenTimes
    BY TimesBreak
  <2> QED
    BY <2>1 DEF BrokenTimes
<1> HIDE DEF x
<1>3. x.mday = now.mday + (0) /\ x.hour = now.hour + (0) /\ x.min = now.min + (1500) /\ x.sec = now.sec + (0)
  <2>1. now.mday \in Int /\ now.hour \in Int /\ now.min \in Int /\ now.sec \in Int
    BY TimesBreak DEF BrokenTimes
  <2> QED
    BY <1>2, <2>1
<1>4. PICK k \in Int : k = 1500 * 60 /\ k = (0) * SecsPerDay + (0) * SecsPerHour + 1500 * 60 + 0
  BY SMT DEF SecsPerDay, SecsPerHour
<1>5. t + k \in 60 - 2^TimeBits .. 2^TimeBits - 1
  BY <1>4
<1>6. Mktime(x, zone) = t + k
  BY <1>2, <1>3, <1>4, <1>5, FieldCarries
<1> QED
  BY <1>4, <1>6 DEF x

LEMMA HoursBack ==
  ASSUME NEW zone, OneOffset(zone), NEW t \in Times, NEW now, now = Localsub(t, zone)
  PROVE  Carries(zone, t, now, "hour", -30, -30 * SecsPerHour)
<1> SUFFICES ASSUME BackIsWhole(now), t + (-30 * SecsPerHour) \in 60 - 2^TimeBits .. 2^TimeBits - 1
             PROVE  Mktime([now EXCEPT !["hour"] = @ + (-30)], zone) = t + (-30 * SecsPerHour)
  BY DEF Carries
<1> DEFINE x == [now EXCEPT !["hour"] = @ + (-30)]
<1>2. /\ x \in BrokenTimes /\ x.hour = now.hour + (-30)
      /\ x.year = now.year /\ x.mon = now.mon /\ x.mday = now.mday /\ x.min = now.min
      /\ x.sec = now.sec /\ x.isdst = now.isdst
  <2>1. now \in BrokenTimes
    BY TimesBreak
  <2> QED
    BY <2>1 DEF BrokenTimes
<1> HIDE DEF x
<1>3. x.mday = now.mday + (0) /\ x.hour = now.hour + (-30) /\ x.min = now.min + (0) /\ x.sec = now.sec + (0)
  <2>1. now.mday \in Int /\ now.hour \in Int /\ now.min \in Int /\ now.sec \in Int
    BY TimesBreak DEF BrokenTimes
  <2> QED
    BY <1>2, <2>1
<1>4. PICK k \in Int : k = -30 * SecsPerHour /\ k = (0) * SecsPerDay + (-30) * SecsPerHour + 0 * 60 + 0
  BY SMT DEF SecsPerDay, SecsPerHour
<1>5. t + k \in 60 - 2^TimeBits .. 2^TimeBits - 1
  BY <1>4
<1>6. Mktime(x, zone) = t + k
  BY <1>2, <1>3, <1>4, <1>5, FieldCarries
<1> QED
  BY <1>4, <1>6 DEF x

LEMMA HourBack ==
  ASSUME NEW zone, OneOffset(zone), NEW t \in Times, NEW now, now = Localsub(t, zone)
  PROVE  Carries(zone, t, now, "hour", -1, -SecsPerHour)
<1> SUFFICES ASSUME BackIsWhole(now), t + (-SecsPerHour) \in 60 - 2^TimeBits .. 2^TimeBits - 1
             PROVE  Mktime([now EXCEPT !["hour"] = @ + (-1)], zone) = t + (-SecsPerHour)
  BY DEF Carries
<1> DEFINE x == [now EXCEPT !["hour"] = @ + (-1)]
<1>2. /\ x \in BrokenTimes /\ x.hour = now.hour + (-1)
      /\ x.year = now.year /\ x.mon = now.mon /\ x.mday = now.mday /\ x.min = now.min
      /\ x.sec = now.sec /\ x.isdst = now.isdst
  <2>1. now \in BrokenTimes
    BY TimesBreak
  <2> QED
    BY <2>1 DEF BrokenTimes
<1> HIDE DEF x
<1>3. x.mday = now.mday + (0) /\ x.hour = now.hour + (-1) /\ x.min = now.min + (0) /\ x.sec = now.sec + (0)
  <2>1. now.mday \in Int /\ now.hour \in Int /\ now.min \in Int /\ now.sec \in Int
    BY TimesBreak DEF BrokenTimes
  <2> QED
    BY <1>2, <2>1
<1>4. PICK k \in Int : k = -SecsPerHour /\ k = (0) * SecsPerDay + (-1) * SecsPerHour + 0 * 60 + 0
  BY SMT DEF SecsPerDay, SecsPerHour
<1>5. t + k \in 60 - 2^TimeBits .. 2^TimeBits - 1
  BY <1>4
<1>6. Mktime(x, zone) = t + k
  BY <1>2, <1>3, <1>4, <1>5, FieldCarries
<1> QED
  BY <1>4, <1>6 DEF x

LEMMA HoursOn ==
  ASSUME NEW zone, OneOffset(zone), NEW t \in Times, NEW now, now = Localsub(t, zone)
  PROVE  Carries(zone, t, now, "hour", 50, 50 * SecsPerHour)
<1> SUFFICES ASSUME t + (50 * SecsPerHour) \in 60 - 2^TimeBits .. 2^TimeBits - 1
             PROVE  Mktime([now EXCEPT !["hour"] = @ + (50)], zone) = t + (50 * SecsPerHour)
  BY DEF Carries
<1> DEFINE x == [now EXCEPT !["hour"] = @ + (50)]
<1>2. /\ x \in BrokenTimes /\ x.hour = now.hour + (50)
      /\ x.year = now.year /\ x.mon = now.mon /\ x.mday = now.mday /\ x.min = now.min
      /\ x.sec = now.sec /\ x.isdst = now.isdst
  <2>1. now \in BrokenTimes
    BY TimesBreak
  <2> QED
    BY <2>1 DEF BrokenTimes
<1> HIDE DEF x
<1>3. x.mday = now.mday + (0) /\ x.hour = now.hour + (50) /\ x.min = now.min + (0) /\ x.sec = now.sec + (0)
  <2>1. now.mday \in Int /\ now.hour \in Int /\ now.min \in Int /\ now.sec \in Int
    BY TimesBreak DEF BrokenTimes
  <2> QED
    BY <1>2, <2>1
<1>4. PICK k \in Int : k = 50 * SecsPerHour /\ k = (0) * SecsPerDay + (50) * SecsPerHour + 0 * 60 + 0
  BY SMT DEF SecsPerDay, SecsPerHour
<1>5. t + k \in 60 - 2^TimeBits .. 2^TimeBits - 1
  BY <1>4
<1>6. Mktime(x, zone) = t + k
  BY <1>2, <1>3, <1>4, <1>5, FieldCarries
<1> QED
  BY <1>4, <1>6 DEF x

LEMMA DaysOn ==
  ASSUME NEW zone, OneOffset(zone), NEW t \in Times, NEW now, now = Localsub(t, zone)
  PROVE  Carries(zone, t, now, "mday", 400, 400 * SecsPerDay)
<1> SUFFICES ASSUME t + (400 * SecsPerDay) \in 60 - 2^TimeBits .. 2^TimeBits - 1
             PROVE  Mktime([now EXCEPT !["mday"] = @ + (400)], zone) = t + (400 * SecsPerDay)
  BY DEF Carries
<1> DEFINE x == [now EXCEPT !["mday"] = @ + (400)]
<1>2. /\ x \in BrokenTimes /\ x.mday = now.mday + (400)
      /\ x.year = now.year /\ x.mon = now.mon /\ x.hour = now.hour /\ x.min = now.min
      /\ x.sec = now.sec /\ x.isdst = now.isdst
  <2>1. now \in BrokenTimes
    BY TimesBreak
  <2> QED
    BY <2>1 DEF BrokenTimes
<1> HIDE DEF x
<1>3. x.mday = now.mday + (400) /\ x.hour = now.hour + (0) /\ x.min = now.min + (0) /\ x.sec = now.sec + (0)
  <2>1. now.mday \in Int /\ now.hour \in Int /\ now.min \in Int /\ now.sec \in Int
    BY TimesBreak DEF BrokenTimes
  <2> QED
    BY <1>2, <2>1
<1>4. PICK k \in Int : k = 400 * SecsPerDay /\ k = (400) * SecsPerDay + (0) * SecsPerHour + 0 * 60 + 0
  BY SMT DEF SecsPerDay, SecsPerHour
<1>5. t + k \in 60 - 2^TimeBits .. 2^TimeBits - 1
  BY <1>4
<1>6. Mktime(x, zone) = t + k
  BY <1>2, <1>3, <1>4, <1>5, FieldCarries
<1> QED
  BY <1>4, <1>6 DEF x

\* By a year of months, from January.
LEMMA YearOn ==
  ASSUME NEW zone, OneOffset(zone), NEW t \in Times, NEW now, now = Localsub(t, zone)
  PROVE  LET years == DaysToYear(now.year + YearBase + 1) - DaysToYear(now.year + YearBase)
         IN  Carries(zone, t, now, "mon", 12, years * SecsPerDay)
<1> DEFINE years == DaysToYear(now.year + YearBase + 1) - DaysToYear(now.year + YearBase)
           x == [now EXCEPT !["mon"] = @ + 12]
<1> SUFFICES ASSUME now.mon = 0, t + years * SecsPerDay \in 60 - 2^TimeBits .. 2^TimeBits - 1
             PROVE  Mktime(x, zone) = t + years * SecsPerDay
  BY DEF Carries
<1>1. Proper(now)
  BY OneOffsetTimes
<1>2. /\ now \in BrokenTimes /\ now.hour \in 0 .. 23 /\ now.min \in 0 .. 59 /\ now.sec \in 0 .. 59
      /\ now.year \in Int /\ now.mday \in Int /\ 1 <= now.mday
  <2>1. now \in BrokenTimes /\ now.year + YearBase \in Int /\ now.mon \in 0 .. 11
    BY <1>1 DEF Proper, BrokenTimes, YearBase
  <2>2. MonLengths(now.year + YearBase)[now.mon] \in 28 .. 31
    BY <2>1, MonthsFollow
  <2> QED
    BY <1>1, <2>1, <2>2 DEF Proper, BrokenTimes
<1>3. /\ x \in BrokenTimes /\ x.mon = 12
      /\ x.year = now.year /\ x.mday = now.mday /\ x.hour = now.hour
      /\ x.min = now.min /\ x.sec = now.sec /\ x.isdst = now.isdst
  BY <1>2 DEF BrokenTimes
<1> HIDE DEF x
<1>4. Gentle(x)
  BY <1>2, <1>3 DEF Gentle
<1>5. x.year + (x.mon \div 12) = now.year + 1 /\ x.mon % 12 = 0
  BY <1>2, <1>3
<1>6. ASSUME NEW d \in Int, d >= LeastDay(x)
      PROVE  CountsBack(x.year + (x.mon \div 12), x.mon % 12, d)
  <2>1. LeastDay(x) = x.mday
    BY <1>2, <1>3 DEF LeastDay
  <2> QED
    BY <1>2, <1>3, <1>6, <2>1 DEF CountsBack
<1>7. PICK y \in Int, z \in Int : y = DaysToYear(now.year + YearBase) /\ z = DaysToYear(now.year + YearBase + 1)
  <2>1. now.year + YearBase \in Int /\ now.year + YearBase + 1 \in Int
    BY <1>2 DEF YearBase
  <2> QED
    BY <2>1, YearsAddUp
<1>8. years = z - y
  BY <1>7
<1>9. MonthIn(now.year, now.mon) = y /\ MonthIn(now.year + 1, 0) = z
  <2>1. /\ 0 \in 0 .. 11 /\ now.year + YearBase \in Int /\ now.year + 1 + YearBase \in Int
        /\ now.year + 1 + YearBase = now.year + YearBase + 1
    BY <1>2 DEF YearBase
  <2>2. DaysToMonth(now.year + YearBase, 0) = 0 /\ DaysToMonth(now.year + 1 + YearBase, 0) = 0
    BY <2>1, MonthsFollow
  <2> QED
    BY <1>7, <2>1, <2>2 DEF MonthIn
<1> HIDE DEF years
<1>10. PICK n \in Int : n = years * SecsPerDay /\ n = (z - y) * 86400
  BY <1>8 DEF SecsPerDay
<1>11. Promise(x) = Moment(now) + n
  <2>1. PICK d \in Int, h \in Int, m \in Int, s \in Int :
          d = now.mday /\ h = now.hour /\ m = now.min /\ s = now.sec
    <3>1. now.hour \in Int /\ now.min \in Int /\ now.sec \in Int
      BY <1>2
    <3> QED
      BY <1>2, <3>1
  <2>2. Promise(x) = (z + d - 1) * 86400 + h * 3600 + m * 60 + s
    BY <1>3, <1>5, <1>9, <2>1 DEF Promise, SecsPerDay, SecsPerHour
  <2>3. Moment(now) = (y + d - 1) * 86400 + h * 3600 + m * 60 + s
    BY <1>9, <2>1 DEF Moment, DayOf, SecsPerDay, SecsPerHour
  <2> QED
    BY <1>10, <2>2, <2>3, SMT
<1>12. t + n \in 60 - 2^TimeBits .. 2^TimeBits - 1
  BY <1>10
<1>13. Mktime(x, zone) = t + n
  BY <1>3, <1>4, <1>6, <1>11, <1>12, MovedFinds
<1> QED
  BY <1>10, <1>13 DEF x

(* mktime undoes localtime in every zone with one offset, for every moment *)
(* of the range but its first minute (ctime.c:1219-1337).                  *)
THEOREM OneOffsetInverts ==
  (Spec /\ [](ran = Len(Runs) => FilesFit)) =>
      []((/\ lcl_is_set /\ lcl.typecnt = 1 /\ lcl.leaps = <<>>
          /\ when \in 60 - 2^TimeBits .. 2^TimeBits - 1) => Mktime(tm, lcl) = when)
<1> DEFINE Inverts ==
        (/\ lcl_is_set /\ lcl.typecnt = 1 /\ lcl.leaps = <<>>
         /\ when \in 60 - 2^TimeBits .. 2^TimeBits - 1) => Mktime(tm, lcl) = when
<1>1. ASSUME NEW zone, OneOffset(zone), NEW t \in Times, NEW now, now = Localsub(t, zone),
             t \in 60 - 2^TimeBits .. 2^TimeBits - 1
      PROVE  Mktime(now, zone) = t
  <2>1. /\ now \in BrokenTimes
        /\ now.mday \in Int /\ now.hour \in Int /\ now.min \in Int /\ now.sec \in Int
    BY <1>1, TimesBreak DEF BrokenTimes
  <2>2. /\ now.mday = now.mday + 0 /\ now.hour = now.hour + 0 /\ now.min = now.min + 0
        /\ now.sec = now.sec + 0
    BY <2>1
  <2>3. 0 = 0 * SecsPerDay + 0 * SecsPerHour + 0 * 60 + 0 /\ 0 >= -30 /\ 0 \in Nat /\ ~(0 < 0)
    BY DEF SecsPerDay, SecsPerHour
  <2>4. t \in Int /\ t + 0 = t
    BY <1>1, SMT DEF Times
  <2>5. Mktime(now, zone) = t + 0
    BY <1>1, <2>1, <2>2, <2>3, <2>4, FieldCarries
  <2> QED
    BY <2>4, <2>5
<1>2. ZoneInForce => Inverts
  <2> SUFFICES ASSUME ZoneInForce, lcl_is_set, lcl.typecnt = 1, lcl.leaps = <<>>,
                      when \in 60 - 2^TimeBits .. 2^TimeBits - 1
               PROVE  Mktime(tm, lcl) = when
    OBVIOUS
  <2>1. OneOffset(lcl) /\ when \in Times /\ tm = Localsub(when, lcl)
    BY DEF ZoneInForce, OneOffset, tm
  <2> QED
    BY <1>1, <2>1
<1> QED
  BY <1>2, ZoneIsInForce, PTL

(* Days moved on or back by fields out of range are the moments that much  *)
(* later or earlier, in every zone with one offset and for every local     *)
(* time, unless the code steps back over a year of another length          *)
(* (ctime.c:1178-1195, 1219-1337).                                         *)
THEOREM CarriesSafe ==
  (Spec /\ [](ran = Len(Runs) => FilesFit)) => []MktimeCarries
<1>1. ZoneInForce => MktimeCarries
  <2> DEFINE spent(now) == DaysToYear(now.year + YearBase + 1) - DaysToYear(now.year + YearBase)
             moves(now) == {<<"sec", 7200, 7200>>, <<"min", 1500, 1500 * 60>>,
                            <<"hour", -30, -30 * SecsPerHour>>, <<"hour", -1, -SecsPerHour>>,
                            <<"hour", 50, 50 * SecsPerHour>>, <<"mday", 400, 400 * SecsPerDay>>,
                            <<"mon", 12, spent(now) * SecsPerDay>>}
  <2>1. ASSUME NEW zone, OneOffset(zone), NEW t \in Times, NEW now, now = Localsub(t, zone),
               NEW move \in moves(now)
        PROVE  Carries(zone, t, now, move[1], move[2], move[3])
    <3> DEFINE years == spent(now)
    <3>1. Carries(zone, t, now, "sec", 7200, 7200)
      BY <2>1, SecsOn
    <3>2. Carries(zone, t, now, "min", 1500, 1500 * 60)
      BY <2>1, MinsOn
    <3>3. Carries(zone, t, now, "hour", -30, -30 * SecsPerHour)
      BY <2>1, HoursBack
    <3>4. Carries(zone, t, now, "hour", -1, -SecsPerHour)
      BY <2>1, HourBack
    <3>5. Carries(zone, t, now, "hour", 50, 50 * SecsPerHour)
      BY <2>1, HoursOn
    <3>6. Carries(zone, t, now, "mday", 400, 400 * SecsPerDay)
      BY <2>1, DaysOn
    <3>7. Carries(zone, t, now, "mon", 12, years * SecsPerDay)
      BY <2>1, YearOn
    <3> HIDE DEF years
    <3>8. \/ move = <<"sec", 7200, 7200>> \/ move = <<"min", 1500, 1500 * 60>>
          \/ move = <<"hour", -30, -30 * SecsPerHour>> \/ move = <<"hour", -1, -SecsPerHour>>
          \/ move = <<"hour", 50, 50 * SecsPerHour>> \/ move = <<"mday", 400, 400 * SecsPerDay>>
          \/ move = <<"mon", 12, years * SecsPerDay>>
      BY <2>1 DEF years
    <3> QED
      BY <3>1, <3>2, <3>3, <3>4, <3>5, <3>6, <3>7, <3>8
  <2>2. ASSUME ZoneInForce, lcl.typecnt = 1, lcl.leaps = <<>>, NEW move \in moves(tm)
        PROVE  Carries(lcl, when, tm, move[1], move[2], move[3])
    <3>1. OneOffset(lcl) /\ when \in Times /\ tm = Localsub(when, lcl)
      BY <2>2 DEF ZoneInForce, OneOffset, tm
    <3> HIDE DEF moves
    <3> QED
      BY <2>1, <2>2, <3>1
  <2>3. ASSUME ZoneInForce, lcl_is_set, lcl.typecnt = 1, lcl.leaps = <<>>, NEW move \in moves(tm),
               move[1] = "mon" => tm.mon = 0, move[2] < 0 => BackIsWhole(tm),
               when + move[3] \in 60 - 2^TimeBits .. 2^TimeBits - 1
        PROVE  Mktime([tm EXCEPT ![move[1]] = @ + move[2]], lcl) = when + move[3]
    <3>1. Carries(lcl, when, tm, move[1], move[2], move[3])
      BY <2>2, <2>3
    <3> HIDE DEF moves
    <3> QED
      BY <2>3, <3>1, Zenon DEF Carries
  <2> DEFINE every(now) == \A move \in moves(now) :
                (/\ move[1] = "mon" => now.mon = 0
                 /\ move[2] < 0 => BackIsWhole(now)
                 /\ when + move[3] \in 60 - 2^TimeBits .. 2^TimeBits - 1) =>
                    Mktime([now EXCEPT ![move[1]] = @ + move[2]], lcl) = when + move[3]
  <2>4. ASSUME ZoneInForce, lcl_is_set, lcl.typecnt = 1, lcl.leaps = <<>>
        PROVE  every(tm)
    <3> HIDE DEF moves
    <3> QED
      BY <2>3, <2>4
  <2>5. MktimeCarries <=> (lcl_is_set /\ lcl.typecnt = 1 /\ lcl.leaps = <<>> => every(tm))
    BY DEF MktimeCarries
  <2> HIDE DEF every
  <2> QED
    BY <2>4, <2>5
<1> QED
  BY <1>1, ZoneIsInForce, PTL
=============================================================================
