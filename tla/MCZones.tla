------------------------------ MODULE MCZones ------------------------------
(* Small instances of Zones for TLC: zones of several continents, compiled *)
(* by Zic from these lines, and the POSIX strings that say the same.       *)
EXTENDS Zones

MCMinTime == -2^27
MCMaxTime == 2^27 - 1

At(h) == [neg |-> FALSE, hms |-> <<h>>, std |-> FALSE]
AtStd(h) == [At(h) EXCEPT !.std = TRUE]
West(h) == [At(h) EXCEPT !.neg = TRUE]
LastSun == [code |-> "last", wday |-> 0, day |-> 0]
FirstSun == [code |-> "geq", wday |-> 0, day |-> 1]
LastFri == [LastSun EXCEPT !.wday = 5]
SecondSat == [code |-> "geq", wday |-> 6, day |-> 8]
Dom(d) == [code |-> "dom", wday |-> 0, day |-> d]
Year(n) == [word |-> "year", n |-> n]
Forever == [word |-> "maximum", n |-> 0]

RuleLine(name, from, mon, on, at, save, letter) ==
    [code |-> "Rule", name |-> name, from |-> Year(from), to |-> Forever, type |-> "",
     mon |-> mon, on |-> on, at |-> at, save |-> At(save), letter |-> letter]
ZoneLine(name, gmtoff, rule, abbr, until) ==
    [code |-> "Zone", name |-> name, gmtoff |-> gmtoff,
     rule |-> [name |-> rule, save |-> At(0)],
     format |-> [var |-> rule # "-", abbr |-> [l \in {"", "S", "D"} |-> abbr \o l]], until |-> until]
Until(year, mon, day, at) == <<[from |-> Year(year), mon |-> mon, on |-> Dom(day), at |-> at]>>

MCLines ==
    <<RuleLine("US", 1967, 3, LastSun, At(2), 1, "D"), RuleLine("US", 1967, 9, LastSun, At(2), 0, "S"),
      RuleLine("EU", 1966, 2, LastSun, AtStd(2), 1, "D"), RuleLine("EU", 1966, 8, LastSun, AtStd(2), 0, "S"),
      RuleLine("NZ", 1967, 9, LastSun, AtStd(2), 1, "D"), RuleLine("NZ", 1967, 2, FirstSun, AtStd(2), 0, "S"),
      RuleLine("FR", 1967, 3, LastFri, At(2), 1, "D"), RuleLine("FR", 1967, 9, SecondSat, At(2), 0, "S"),
      ZoneLine("Friday", At(4), "FR", "FR", <<>>),
      ZoneLine("Eastern", West(5), "US", "ES", <<>>),
      ZoneLine("Auckland", At(12), "NZ", "NZ", <<>>),
      ZoneLine("Moved", At(1), "-", "ONE", Until(1970, 5, 1, At(2))),
      ZoneLine("", At(2), "-", "TWO", Until(1972, 3, 1, At(0))),
      ZoneLine("", At(3), "EU", "MS", <<>>),
      ZoneLine("GMT", At(0), "-", "GMT", <<>>),
      [code |-> "Link", from |-> "Eastern", to |-> "posixrules"]>>
MCLeaps ==
    <<[code |-> "Leap", year |-> 1972, mon |-> 11, day |-> 31, plus |-> TRUE, rolling |-> FALSE,
       at |-> [neg |-> FALSE, hms |-> <<23, 59, 60>>, std |-> FALSE]],
      [code |-> "Leap", year |-> 1972, mon |-> 5, day |-> 30, plus |-> TRUE, rolling |-> FALSE,
       at |-> [neg |-> FALSE, hms |-> <<23, 59, 60>>, std |-> FALSE]]>>

MCRuns ==
    <<[dir |-> "", lines |-> MCLines, leaplines |-> <<>>],
      [dir |-> "right/", lines |-> SelectSeq(MCLines, LAMBDA l : l.code = "Rule" \/ (l.code = "Zone" /\ l.name = "Eastern")),
       leaplines |-> MCLeaps]>>
MCStrays == {0, 2}

Hm(neg, h) == [neg |-> neg, hms |-> IF h = 0 THEN <<>> ELSE <<h>>]
Text(std, dst, neg, h, rules) ==
    [std |-> std, dst |-> dst, off |-> Hm(neg, h), dstoff |-> Hm(FALSE, 0), rules |-> rules,
     colon |-> FALSE, tail |-> FALSE]
M(mon, week, h) == [kind |-> "M", mon |-> mon, week |-> week, day |-> 0, hms |-> <<h>>]
Mday(mon, week, day, h) == [M(mon, week, h) EXCEPT !.day = day]
NoText == Text("", "", FALSE, 0, <<>>)

MCTexts ==
    ("right/Eastern" :> NoText) @@
    [Eastern |-> NoText, Auckland |-> NoText, Moved |-> NoText,
     Friday |-> NoText, FRS |-> Text("FRS", "FRD", TRUE, 4, <<Mday(4, 5, 5, 2), Mday(10, 2, 6, 2)>>),
     GMT |-> Text("GMT", "", FALSE, 0, <<>>),
     EST5EDT |-> Text("EST", "EDT", FALSE, 5, <<>>),
     EST5EDTM |-> Text("EST", "EDT", FALSE, 5, <<M(4, 5, 2), M(10, 5, 2)>>),
     NZST |-> Text("NZS", "NZD", TRUE, 12, <<M(10, 5, 2), M(3, 1, 3)>>),
     MSK |-> Text("MSK", "MSD", TRUE, 3, <<M(3, 5, 2), M(9, 5, 3)>>),
     ONE |-> Text("ONE", "", TRUE, 1, <<>>), TWO |-> Text("TWO", "", TRUE, 2, <<>>),
     Colon |-> [NoText EXCEPT !.colon = TRUE]]

Date(y, m, d) == (DaysToYear(y) + DaysToMonth(y, m) + d - 1) * SecsPerDay
Ever == 2^TimeBits
Twin(zone, twin, from, to) ==
    [zone |-> zone, twin |-> twin, from |-> from, to |-> to, early |-> FALSE]
MCTwins ==
    LET june1970 == Date(1970, 5, 1) + 3600
        april1972 == Date(1972, 3, 1) - 7200
        september1972 == Date(1972, 8, 24) - 3600
    IN  {Twin("Eastern", "EST5EDTM", 0, Ever), Twin("EST5EDT", "Eastern", -Ever, Ever),
         [Twin("Friday", "FRS", 0, Ever) EXCEPT !.early = TRUE],
         Twin("NZST", "Auckland", Date(1970, 2, 1), Ever),
         Twin("Moved", "ONE", -Ever, june1970), Twin("Moved", "TWO", june1970, april1972),
         Twin("Moved", "MSK", april1972, september1972), Twin("Moved", "MSK", september1972 + 7200, Ever)}
MCMoments == {0, -1, 68169600 - 1} \cup {Date(1972, m, 28) + 80000 : m \in {0, 1, 11}}
                \cup {Date(y, 0, 1) : y \in {1971, 1973}} \cup {Date(1969, 2, 1)}
MCAround == {-7200, -3600, -1, 0, 1800, 3600}
=============================================================================
