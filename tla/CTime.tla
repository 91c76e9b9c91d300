------------------------------- MODULE CTime --------------------------------
(***************************************************************************)
(* ctime.c: the local time zone, as tzset chooses it from TZ, and the      *)
(* conversions between a time_t and a broken-down time.                    *)
(*                                                                         *)
(* A zone is the code's struct state.  Its arrays are sequences, ats and   *)
(* types of length timecnt; typecnt is kept apart from ttis, because       *)
(* TZ="" changes the first type and the other counts and not typecnt.      *)
(* chars maps an abbreviation's index to the name there.  The text of TZ   *)
(* is a name; files holds the zone files on the disk, by name, and Texts   *)
(* what each name says when it is read as a POSIX string, its numbers      *)
(* already read: a record with the fields                                  *)
(*   std, dst     the zone names, dst = "" where the string ends before    *)
(*   off, dstoff  offsets [neg, hms], hms = <<>> where there is none       *)
(*   rules        <<>>, or the start and the end rule                      *)
(*   colon, tail  a leading ':' ; something unexpected at the end          *)
(* and a rule the fields kind ("J", "n", "M"), mon, week, day, hms.        *)
(***************************************************************************)
EXTENDS Calendar

\* TimeBits are the value bits of a time_t; LastYear is the last year that
\* tzparse tabulates (from 1970 to 2037 in the code).
CONSTANTS Texts, TimeBits, LastYear
ASSUME TimeBitsAssumption == TimeBits \in 1 .. 31
ASSUME LastYearAssumption == LastYear \in Nat /\ LastYear >= EpochYear

WildAbbr == "   "

NoType == [gmtoff |-> 0, isdst |-> 0, abbrind |-> 0, ttisstd |-> 0]
NoZone == [leaps |-> <<>>, ats |-> <<>>, types |-> <<>>, typecnt |-> 0,
           ttis |-> <<NoType>>, chars |-> [i \in {0} |-> ""]]

TypeAt(zone, i) == zone.ttis[i + 1]

VARIABLES
    files,      \* the zone files
    tz,         \* the environment variable TZ: "unset", "" or a name
    lcl,        \* *lclptr
    lcl_is_set,
    tzname,     \* abbreviations by isdst
    timezone, daylight

vars == <<files, tz, lcl, lcl_is_set, tzname, timezone, daylight>>
-----------------------------------------------------------------------------
(* Zone files.  tzload also checks the counts and the indices, which are   *)
(* right in what zic writes.  A file it refuses has been copied by then.   *)
FlagsOK(file) ==
    \A i \in 1 .. file.typecnt : file.ttis[i].isdst \in {0, 1} /\ file.ttis[i].ttisstd \in {0, 1}

\* mutant: a file without leap seconds leaves those of the zone before
TzloadKeepsLeaps(name, zone) ==
    IF name \in DOMAIN files
    THEN [ok |-> FlagsOK(files[name]),
          zone |-> [files[name] EXCEPT !.leaps = IF @ = <<>> THEN zone.leaps ELSE @]]
    ELSE [ok |-> FALSE, zone |-> zone]

Tzload(name, zone) ==
    IF name \in DOMAIN files THEN [ok |-> FlagsOK(files[name]), zone |-> files[name]]
    ELSE [ok |-> FALSE, zone |-> zone]
-----------------------------------------------------------------------------
(* POSIX strings.                                                          *)
SecsOK(hms) ==
    /\ Len(hms) \in 1 .. 3 /\ hms[1] \in 0 .. 24
    /\ \A i \in 2 .. Len(hms) : hms[i] \in 0 .. 59
Secs(hms) ==
    LET part(i) == IF i <= Len(hms) THEN hms[i] ELSE 0
    IN  part(1) * SecsPerHour + part(2) * 60 + part(3)
OffsetSecs(off) == IF off.neg THEN -Secs(off.hms) ELSE Secs(off.hms)

RuleOK(rule) ==
    /\ CASE rule.kind = "J" -> rule.day \in 1 .. 365
         [] rule.kind = "n" -> rule.day \in 0 .. 365
         [] rule.kind = "M" -> rule.mon \in 1 .. 12 /\ rule.week \in 1 .. 5 /\ rule.day \in 0 .. 6
    /\ rule.hms # <<>> => SecsOK(rule.hms)
RuleSecs(rule) == IF rule.hms = <<>> THEN 2 * SecsPerHour ELSE Secs(rule.hms)

\* Zeller's congruence for the first day of month mon (from 1); the C
\* remainder of a negative sum is corrected by adding the week.
ZellerDow(year, mon) ==
    LET m1 == ((mon + 9) % 12) + 1
        yy0 == IF mon <= 2 THEN year - 1 ELSE year
        yy1 == yy0 \div 100
        yy2 == yy0 % 100
    IN  (((26 * m1 - 2) \div 10) + 1 + yy2 + (yy2 \div 4) + (yy1 \div 4) - 2 * yy1) % 7

\* mutant: the fifth one may be in the next month
NthDayAlways(year, rule) ==
    ((rule.day - ZellerDow(year, rule.mon)) % 7) + 7 * (rule.week - 1)

\* The n-th such day of the month, or the last one when there is no n-th.
NthDay(year, rule) ==
    LET first == (rule.day - ZellerDow(year, rule.mon)) % 7
        days == {first + 7 * k : k \in 0 .. rule.week - 1}
    IN  Max({d \in days : d < MonLengths(year)[rule.mon - 1]})

RuleDay(year, rule) ==
    CASE rule.kind = "J" -> rule.day - 1 + (IF IsLeap(year) /\ rule.day >= 60 THEN 1 ELSE 0)
      [] rule.kind = "n" -> rule.day
      [] rule.kind = "M" -> DaysToMonth(year, rule.mon - 1) + NthDay(year, rule)

Transtime(year, rule, offset) ==
    (DaysToYear(year) + RuleDay(year, rule)) * SecsPerDay + RuleSecs(rule) + offset

\* Two transitions a year, the earlier one first; type 0 is summer time.
RuleTransitions(rules, stdoff, dstoff, last) ==
    LET start(y) == Transtime(y, rules[1], stdoff)
        end(y) == Transtime(y, rules[2], dstoff)
        swap(y) == start(y) > end(y)
        year(i) == EpochYear + ((i - 1) \div 2)
        begins(i) == (i % 2 = 1) # swap(year(i))
        n == 2 * (last - EpochYear + 1)
    IN  [ats |-> [i \in 1 .. n |-> IF begins(i) THEN start(year(i)) ELSE end(year(i))],
         types |-> [i \in 1 .. n |-> IF begins(i) THEN 0 ELSE 1]]

Names(text) ==
    IF text.dst = "" THEN [i \in {0} |-> text.std]
    ELSE [i \in {0, AbbrSize} |-> IF i = 0 THEN text.std ELSE text.dst]

WithRules(text, base, stdoff, dstoff) ==
    LET trans == RuleTransitions(text.rules, stdoff, dstoff, LastYear)
    IN  [base EXCEPT !.typecnt = 2, !.ats = trans.ats, !.types = trans.types,
            !.ttis = <<[gmtoff |-> -dstoff, isdst |-> 1, abbrind |-> AbbrSize, ttisstd |-> 0],
                       [gmtoff |-> -stdoff, isdst |-> 0, abbrind |-> 0, ttisstd |-> 0]>>,
            !.chars = Names(text)]

\* No rules in the string: posixrules' own, moved to the offsets asked for.
\* A type that would move differently from another stops the walk.
WithDefaults(text, base, stdoff, dstoff) ==
    LET dst(i) == base.ttis[i].isdst = 1
        fix(i) == base.ttis[i].gmtoff + (IF dst(i) THEN dstoff ELSE stdoff)
        fixOf(isdst) == fix(CHOOSE i \in 1 .. base.typecnt : dst(i) = isdst)
        inDst(i) == i > 1 /\ TypeAt(base, base.types[i - 1]).isdst = 1
        wall(i) == TypeAt(base, base.types[i]).ttisstd = 0
        bad == {i \in 1 .. base.typecnt : \E j \in 1 .. i - 1 : dst(i) = dst(j) /\ fix(i) # fix(j)}
        both == \E i, j \in 1 .. base.typecnt : dst(i) /\ ~dst(j)
        moved == [base EXCEPT !.ttis = [i \in DOMAIN @ |->
                    CASE i > base.typecnt \/ (\E k \in bad : k <= i) -> @[i]
                      [] i <= base.typecnt /\ (\A k \in bad : i < k) /\ dst(i) ->
                            [@[i] EXCEPT !.gmtoff = -dstoff, !.abbrind = AbbrSize]
                      [] OTHER -> [@[i] EXCEPT !.gmtoff = -stdoff, !.abbrind = 0]]]
    IN  IF bad # {} \/ ~both THEN [ok |-> FALSE, zone |-> moved]
        ELSE [ok |-> TRUE, zone |->
               [moved EXCEPT !.ats = [i \in DOMAIN @ |-> @[i] + fixOf(inDst(i) /\ wall(i))],
                             !.chars = Names(text)]]

\* The string's own offset is needed, even for the last-ditch "GMT", which
\* therefore never parses.  posixrules is read before the rest is looked at.
Readable(text) == Len(text.std) >= 3 /\ SecsOK(text.off.hms)
RestOK(text, haverules) ==
    /\ ~text.tail
    /\ text.dst # "" => Len(text.dst) >= 3
    /\ text.dstoff.hms # <<>> => SecsOK(text.dstoff.hms)
    /\ text.rules # <<>> => RuleOK(text.rules[1]) /\ RuleOK(text.rules[2])
    /\ text.dst # "" /\ text.rules = <<>> => haverules

ParseOffsets(text, base, stdoff, dstoff) ==
    CASE text.dst = "" ->
           [ok |-> TRUE, zone |->
              [base EXCEPT !.typecnt = 1, !.ats = <<>>, !.types = <<>>, !.chars = Names(text),
                   !.ttis[1] = [@ EXCEPT !.gmtoff = -stdoff, !.isdst = 0, !.abbrind = 0]]]
      [] text.dst # "" /\ text.rules # <<>> ->
           [ok |-> TRUE, zone |-> WithRules(text, base, stdoff, dstoff)]
      [] OTHER -> WithDefaults(text, base, stdoff, dstoff)

ParseRest(text, base, haverules) ==
    LET stdoff == OffsetSecs(text.off)
        dstoff == IF text.dstoff.hms = <<>> THEN stdoff - SecsPerHour ELSE OffsetSecs(text.dstoff)
    IN  IF RestOK(text, haverules) THEN ParseOffsets(text, base, stdoff, dstoff)
        ELSE [ok |-> FALSE, zone |-> base]

ParseOver(text, load) ==
    ParseRest(text, IF load.ok THEN load.zone ELSE [load.zone EXCEPT !.leaps = <<>>], load.ok)

Tzparse(name, zone) ==
    IF Readable(Texts[name]) THEN ParseOver(Texts[name], Tzload("posixrules", zone))
    ELSE [ok |-> FALSE, zone |-> zone]

OrElse(got, other(_)) == IF got.ok THEN got.zone ELSE other(got.zone)

Gmtload(zone) == OrElse(Tzload("GMT", zone), LAMBDA z : Tzparse("GMT", z).zone)

\* TZ="": no leap seconds and one offset, of the first type.
GmtZone(zone) ==
    [zone EXCEPT !.leaps = <<>>, !.ats = <<>>, !.types = <<>>,
        !.ttis[1] = [@ EXCEPT !.gmtoff = 0, !.abbrind = 0],
        !.chars = [i \in DOMAIN @ \cup {0} |-> IF i = 0 THEN "GMT" ELSE @[i]]]

\* tzsetwall, when TZ is unset.
WallZone(zone) == OrElse(Tzload("localtime", zone), Gmtload)

\* A name is a file first, then a string, unless it starts with a colon.
NamedZone(name, zone) ==
    OrElse(Tzload(name, zone),
           LAMBDA z : IF Texts[name].colon THEN Gmtload(z)
                      ELSE OrElse(Tzparse(name, z), Gmtload))

\* The zone that tzset leaves behind.
ZoneOf(name, zone) ==
    CASE name = "" -> GmtZone(zone)
      [] name = "unset" -> WallZone(zone)
      [] name \notin {"", "unset"} -> NamedZone(name, zone)

\* settzname: the last type with a flag names it, first by type, then by
\* transition.
NamesOf(zone) ==
    LET order == [i \in 1 .. zone.typecnt |-> i - 1] \o zone.types
        users(flag) == {i \in DOMAIN order : TypeAt(zone, order[i]).isdst = flag}
    IN  [flag \in {0, 1} |->
            IF users(flag) = {} THEN WildAbbr
            ELSE zone.chars[TypeAt(zone, order[Max(users(flag))]).abbrind]]

DaylightOf(zone) == IF \E i \in 1 .. zone.typecnt : zone.ttis[i].isdst = 1 THEN 1 ELSE 0

TimezoneOf(zone) ==
    LET standard == {i \in 1 .. zone.typecnt : i = 1 \/ zone.ttis[i].isdst = 0}
    IN  IF standard = {} THEN 0 ELSE -zone.ttis[Max(standard)].gmtoff
-----------------------------------------------------------------------------
(* From a time_t to a broken-down time.                                    *)
\* corr is the correction in force; a leap second being inserted is :60.
BrokenDown(days, rem, year, yday, mon, hit, offset) ==
    [year |-> year - YearBase, mon |-> mon, mday |-> yday - DaysToMonth(year, mon) + 1,
     hour |-> rem \div SecsPerHour, min |-> (rem % SecsPerHour) \div 60,
     sec |-> (rem % 60) + (IF hit THEN 1 ELSE 0),
     wday |-> WdayOfDay(days), yday |-> yday, isdst |-> 0, gmtoff |-> offset]
OnDay(days, rem, year, hit, offset) ==
    LET yday == days - DaysToYear(year)
    IN  BrokenDown(days, rem, year, yday, MonthOfDay(year, yday), hit, offset)
AtSecs(days, secs, hit, offset) ==
    LET day == days + (secs \div SecsPerDay)
    IN  OnDay(day, secs % SecsPerDay, YearOfDay(day), hit, offset)

\* Before the first leap second the code reads lsis[-1], the end of chars: a
\* correction of zero unless the abbreviations all but fill that array.
Timesub(t, offset, zone) ==
    LET last == Max({0} \cup {i \in DOMAIN zone.leaps : t >= zone.leaps[i].trans})
        corrAt(i) == IF i = 0 THEN 0 ELSE zone.leaps[i].corr
        hit(i) == i > 0 /\ t = zone.leaps[i].trans /\ corrAt(i) > corrAt(i - 1)
    IN  AtSecs(t \div SecsPerDay, (t % SecsPerDay) + offset - corrAt(last), hit(last), offset)

\* The type in force: before the first transition, the first standard type.
TypeOfTime(t, zone) ==
    IF zone.ats = <<>> \/ t < zone.ats[1]
    THEN LET standard == {i \in 1 .. Max({1, zone.typecnt}) : zone.ttis[i].isdst = 0}
         IN  IF standard = {} THEN zone.ttis[1] ELSE zone.ttis[Min(standard)]
    ELSE LET later == {i \in 2 .. Len(zone.ats) : t < zone.ats[i]}
         IN  TypeAt(zone, zone.types[IF later = {} THEN Len(zone.ats) ELSE Min(later) - 1])

Localsub(t, zone) ==
    LET type == TypeOfTime(t, zone)
    IN  [Timesub(t, type.gmtoff, zone) EXCEPT !.isdst = type.isdst]

-----------------------------------------------------------------------------
(* From a broken-down time to a time_t: <<t>>, or Wrong when there is none.*)
Wrong == <<>>

\* mutant: one unit too few is borrowed
NormalizeBorrowsOnce(tens, units, base) ==
    [tens |-> IF units < 0 THEN tens - 1 ELSE tens + (units \div base), units |-> units % base]

\* C truncates: a negative multiple of the base leaves a whole base behind.
Normalize(tens, units, base) ==
    CASE units >= base -> [tens |-> tens + units \div base, units |-> units % base]
      [] units \in 0 .. base - 1 -> [tens |-> tens, units |-> units]
      [] units \in -base .. -1 -> [tens |-> tens - 1, units |-> units + base]
      [] units < -base ->
            LET more == -(units + base)
            IN  [tens |-> tens - 2 - (more \div base), units |-> base - (more % base)]

\* tm_mday, counted from the start of the month, moved to a day that exists:
\* back by whole years, then on by months.
YearsBack[at \in Int \X Int] ==
    IF at[2] > 0 THEN at ELSE YearsBack[<<at[1] - 1, at[2] + YearLength(at[1] - 1 + YearBase)>>]
MonthsOn[at \in Int \X (0 .. 11) \X Int] ==
    IF at[3] <= MonLengths(at[1] + YearBase)[at[2]] THEN at
    ELSE MonthsOn[<<IF at[2] = 11 THEN at[1] + 1 ELSE at[1], (at[2] + 1) % 12,
                    at[3] - MonLengths(at[1] + YearBase)[at[2]]>>]
NormalizeDay(tm) ==
    LET start == YearsBack[<<tm.year, tm.mday>>]
        day == MonthsOn[<<start[1], tm.mon, start[2]>>]
    IN  [tm EXCEPT !.year = day[1], !.mon = day[2], !.mday = day[3]]

Carry(tm, small, big, base) ==
    LET n == Normalize(tm[big], tm[small], base)
    IN  [tm EXCEPT ![small] = n.units, ![big] = n.tens]

\* Seconds up to 61 are left for the end; days come after the months.
Normalized(tm) ==
    LET months == Carry(Carry(Carry(IF tm.sec \in 0 .. 61 THEN tm ELSE Carry(tm, "sec", "min", 60),
                                    "min", "hour", 60), "hour", "mday", 24), "mon", "year", 12)
    IN  NormalizeDay(months)

\* tmcomp: the first field, in this order, that differs decides.
TmLess(a, b) ==
    LET order == <<"year", "mon", "mday", "hour", "min", "sec">>
        differ == {i \in DOMAIN order : a[order[i]] # b[order[i]]}
    IN  differ # {} /\ a[order[Min(differ)]] < b[order[Min(differ)]]
TmSame(a, b) == ~TmLess(a, b) /\ ~TmLess(b, a)

\* The bisection, from the middle of the time_t range: each round halves the
\* step, and two rounds step back by one second at the end.
Round(t, bits, down) ==
    CASE bits = 0 -> <<t - 1, -1>>
      [] bits > 0 /\ down -> <<t - 2^(bits - 1), bits - 1>>
      [] bits > 0 /\ ~down -> <<t + 2^(bits - 1), bits - 1>>
Bisect(zone, yours) ==
    LET probe[at \in Int \X (-1 .. TimeBits)] ==
            IF TmSame(Localsub(at[1], zone), yours) THEN <<at[1]>>
            ELSE IF at[2] < 0 THEN Wrong
            ELSE probe[Round(at[1], at[2], TmLess(yours, Localsub(at[1], zone)))]
    IN  probe[<<0, TimeBits>>]

\* How far the other types are from those with the flag asked for: the pairs
\* in the order of the two nested loops.
OtherTimes(zone, isdst) ==
    LET n == zone.typecnt
        pair(k) == <<zone.ttis[(k \div n) + 1], zone.ttis[(k % n) + 1]>>
        wanted == {k \in 0 .. n * n - 1 : pair(k)[1].isdst = isdst /\ pair(k)[2].isdst # isdst}
    IN  [k \in wanted |-> pair(k)[2].gmtoff - pair(k)[1].gmtoff]

\* Right time, wrong type: the first pair whose shift gives the right one.
Hunt(zone, yours, isdst, t) ==
    LET shift == OtherTimes(zone, isdst)
        fits(k) == LET mine == Localsub(t + shift[k], zone)
                   IN  TmSame(mine, yours) /\ mine.isdst = isdst
        good == {k \in DOMAIN shift : fits(k)}
    IN  IF good = {} THEN Wrong ELSE <<t + shift[Min(good)]>>

RightTypeAny(found, yours, isdst, zone) == found   \* mutant: no hunt
RightType(found, yours, isdst, zone) ==
    IF found = Wrong \/ isdst < 0 \/ Localsub(found[1], zone).isdst = isdst THEN found
    ELSE Hunt(zone, yours, isdst, found[1])

PutSecs(found, secs) == IF found = Wrong THEN Wrong ELSE <<found[1] + secs>>

SearchFor(normal, zone) ==
    LET yours == [normal EXCEPT !.sec = 0]
    IN  PutSecs(RightType(Bisect(zone, yours), yours, normal.isdst, zone), normal.sec)
Time2(tm, zone) == SearchFor(Normalized(tm), zone)

\* A time that does not exist as asked may be one of the other kind.
OtherType(tm, zone) ==
    LET shift == OtherTimes(zone, tm.isdst)
        again == [k \in DOMAIN shift |->
                    Time2([tm EXCEPT !.sec = @ + shift[k], !.isdst = 1 - @], zone)]
        good == {k \in DOMAIN shift : again[k] # Wrong}
    IN  IF good = {} THEN Wrong ELSE again[Min(good)]
Settle(first, tm, zone) == IF first # Wrong \/ tm.isdst < 0 THEN first ELSE OtherType(tm, zone)
Time1(tm, zone) ==
    LET flagged == [tm EXCEPT !.isdst = IF @ > 1 THEN 1 ELSE @]
    IN  Settle(Time2(flagged, zone), flagged, zone)

Mktime(tm, zone) == Head(Time1(tm, zone) \o <<-1>>)
-----------------------------------------------------------------------------
(* The calls a program makes.                                              *)
Init ==
    /\ files = [name \in {} |-> NoZone]
    /\ tz = "unset"
    /\ lcl = NoZone /\ lcl_is_set = FALSE
    /\ tzname = [flag \in {0, 1} |-> WildAbbr]
    /\ timezone = 0 /\ daylight = 0

\* The environment changes; the library does not see it before a tzset.
PutEnv(name) ==
    /\ tz' = name
    /\ UNCHANGED <<files, lcl, lcl_is_set, tzname, timezone, daylight>>

\* The zone in force once tzset has run, now or earlier.
Zone == IF lcl_is_set THEN lcl ELSE ZoneOf(tz, lcl)

SetZone(zone) ==
    /\ lcl' = zone /\ lcl_is_set' = TRUE
    /\ daylight' = DaylightOf(zone) /\ timezone' = TimezoneOf(zone)
    /\ UNCHANGED <<files, tz>>

Tzset == \E zone \in {ZoneOf(tz, lcl)} : SetZone(zone) /\ tzname' = NamesOf(zone)

\* localtime calls tzset the first time only, and leaves behind the
\* abbreviation it used.
NameUsed(names, type, zone) == [names EXCEPT ![type.isdst] = zone.chars[type.abbrind]]
Localtime(t) ==
    \E zone \in {Zone} :
        /\ tzname' = NameUsed(IF lcl_is_set THEN tzname ELSE NamesOf(zone),
                              TypeOfTime(t, zone), zone)
        /\ IF lcl_is_set THEN UNCHANGED <<files, tz, lcl, lcl_is_set, daylight, timezone>>
           ELSE SetZone(zone)
=============================================================================
