-------------------------------- MODULE Zic ---------------------------------
(***************************************************************************)
(* The time zone compiler zic.c.  Its input is a sequence of lines whose   *)
(* fields are already separated and their words looked up; the line's      *)
(* "code" says which other fields it has:                                  *)
(*   Rule  name, from, to [word, n], type, mon, on, at, save, letter       *)
(*   Zone  name ("" on a continuation), gmtoff, rule, format, until        *)
(*   Leap  year, mon, day, at, plus, rolling          Link  from, to       *)
(* mon is 0 .. 11, or -1 for an unknown name; on is [code, wday, day] with *)
(* code "dom", "geq", "leq" or "last"; a time is [neg, hms, std], hms a    *)
(* sequence of numbers; format is [var, abbr], abbr the name each letter   *)
(* gives; until is <<>> or one [from, mon, on, at].                        *)
(*                                                                         *)
(* MinTime .. MaxTime is the range of a time_t.  The exits of oadd and     *)
(* tadd on overflow, of a full table of times, types or names, and of      *)
(* rpytime for a day that a month does not have or a time out of range are *)
(* left out: the lines checked stay clear of them.                         *)
(***************************************************************************)
EXTENDS Calendar, SequencesExt

CONSTANTS MinTime, MaxTime
ASSUME TimesAssumption ==
    /\ MinTime \in Int /\ MinTime <= 0
    /\ MaxTime \in Nat

\* setboundaries: the years of the first and the last time.
MinYear == YearOfDay(MinTime \div SecsPerDay)
MaxYear == YearOfDay(MaxTime \div SecsPerDay)

Tadd(t1, t2) ==
    CASE t1 = MaxTime /\ t2 > 0 -> MaxTime
      [] t1 = MinTime /\ t2 < 0 -> MinTime
      [] OTHER -> t1 + t2
-----------------------------------------------------------------------------
(* Reading.  A bad time is reported and counts as zero; a sign that is not *)
(* signable goes to the hour, where only "-0" passes, as zero.             *)
HmsOK(time, signable) ==
    \/ time.hms = <<>>
    \/ /\ time.hms[1] \in 0 .. (IF time.neg /\ ~signable THEN 0 ELSE 23)
       /\ \A i \in 2 .. Len(time.hms) : time.hms[i] \in 0 .. (IF i = 2 THEN 59 ELSE 60)

Gethms(time, signable) ==
    LET part(i) == IF i <= Len(time.hms) THEN time.hms[i] ELSE 0
        secs == (part(1) * 60 + part(2)) * 60 + part(3)
    IN  IF ~HmsOK(time, signable) THEN 0 ELSE IF time.neg /\ signable THEN -secs ELSE secs

\* rulesub.  A rule that ends before MinYear, or starts after MaxYear, is
\* left half read: nothing is reported, and its day is the one before it.
YearOfWord(year) ==
    CASE year.word = "minimum" -> MinYear [] year.word = "maximum" -> MaxYear [] OTHER -> year.n

RuleDays(line, rule) ==
    LET last == MonLengths(2000)[line.mon]
        error == \/ rule.lo > rule.hi
                 \/ line.type # "" /\ rule.lo = rule.hi
                 \/ line.on.code # "last" /\ line.on.day \notin 1 .. last
    IN  IF error THEN [error |-> TRUE, rule |-> rule]
        ELSE [error |-> FALSE, rule |->
                [rule EXCEPT !.yrtype = line.type, !.wday = line.on.wday,
                     !.dycode = IF line.on.code = "last" THEN "leq" ELSE line.on.code,
                     !.dayofmonth = IF line.on.code = "last" THEN last ELSE line.on.day]]

RuleYears(line, base, hi) ==
    CASE base.lo > MaxYear -> [error |-> FALSE, rule |-> base]
      [] base.lo <= MaxYear /\ hi < MinYear -> [error |-> FALSE, rule |-> [base EXCEPT !.hi = hi]]
      [] OTHER -> RuleDays(line, [base EXCEPT !.lo = Max({@, MinYear}), !.hi = Min({hi, MaxYear})])

RuleSub(line, stale) ==
    LET lo == YearOfWord(line.from)
        base == [stale EXCEPT !.month = line.mon, !.tod = Gethms(line.at, FALSE),
                     !.todisstd = line.at.std, !.lo = lo]
        years == RuleYears(line, base, IF line.to.word = "only" THEN lo ELSE YearOfWord(line.to))
    IN  IF line.mon \notin 0 .. 11 THEN [error |-> TRUE, rule |-> stale]
        ELSE [years EXCEPT !.error = @ \/ ~HmsOK(line.at, FALSE)]

NoRule == [name |-> "", lo |-> 0, hi |-> 0, yrtype |-> "", month |-> 0, dycode |-> "dom",
           dayofmonth |-> 0, wday |-> 0, tod |-> 0, todisstd |-> FALSE, stdoff |-> 0,
           letter |-> ""]
NoZoneLine == [name |-> "", gmtoff |-> 0, rule |-> [name |-> "", save |-> 0], format |-> 0,
               untilrule |-> NoRule, untiltime |-> 0, stdoff |-> 0]

\* The days from the epoch to the day a rule names in a year.  Before the
\* weekday asked for, the search steps back; from Sunday it comes to "7", a
\* day that is not there, and steps back once more.
BackSteps(from, to) == IF from >= to THEN from - to ELSE from + 1 + (7 - to)

RuleDayOf(rule, year) ==
    LET dom == IF rule.month = 1 /\ rule.dayofmonth = 29 /\ ~IsLeap(year)
               THEN 28 ELSE rule.dayofmonth
        day == DaysToYear(year) + DaysToMonth(year, rule.month) + dom - 1
    IN  CASE rule.dycode = "dom" -> day
          [] rule.dycode = "geq" -> day + ((rule.wday - WdayOfDay(day)) % 7)
          [] rule.dycode = "leq" -> day - BackSteps(WdayOfDay(day), rule.wday)

Rpytime(rule, year) ==
    LET t == RuleDayOf(rule, year) * SecsPerDay
    IN  CASE t \in MinTime .. MaxTime -> Tadd(t, rule.tod)
          [] t \notin MinTime .. MaxTime /\ year = rule.hi -> MaxTime
          [] OTHER -> MinTime
-----------------------------------------------------------------------------
(* Lines into tables.  r and z are inrule's and inzsub's static structs.   *)
Empty == [rules |-> <<>>, zones |-> <<>>, links |-> <<>>, leaps |-> <<>>,
          wantcont |-> FALSE, errors |-> 0, r |-> NoRule, z |-> NoZoneLine]

Error(st) == [st EXCEPT !.errors = @ + 1, !.wantcont = FALSE]

AddRule(st, rule, bad) ==
    [st EXCEPT !.rules = Append(@, rule), !.r = rule, !.wantcont = FALSE,
         !.errors = @ + (IF bad THEN 1 ELSE 0)]
NamedRule(st, line, sub) ==
    AddRule(st, [sub.rule EXCEPT !.name = line.name, !.stdoff = Gethms(line.save, TRUE), !.letter = line.letter],
            sub.error \/ ~HmsOK(line.save, TRUE))
Inrule(st, line) ==
    IF line.name = "" THEN Error(st) ELSE NamedRule(st, line, RuleSub(line, st.r))

\* A line with an end asks for a continuation, whose own end must be later.
AddZone(st, line, z, bad) ==
    LET hasuntil == line.until # <<>>
        early == /\ hasuntil /\ line.name = "" /\ st.zones # <<>>
                 /\ z.untiltime > MinTime /\ z.untiltime < MaxTime
                 /\ Last(st.zones).untiltime >= z.untiltime
    IN  IF early THEN Error([st EXCEPT !.z = z])
        ELSE [st EXCEPT !.zones = Append(@, z), !.z = z, !.wantcont = hasuntil,
                 !.errors = @ + (IF bad THEN 1 ELSE 0)]

UntilRule(until, stale) ==
    RuleSub([from |-> until.from, to |-> [word |-> "only", n |-> 0], type |-> "",
             mon |-> until.mon, on |-> until.on, at |-> until.at], stale)
EndZone(st, line, plain, sub) ==
    AddZone(st, line,
            [plain EXCEPT !.untilrule = sub.rule, !.untiltime = Rpytime(sub.rule, sub.rule.lo)],
            sub.error \/ ~HmsOK(line.gmtoff, TRUE))

Inzsub(st, line) ==
    LET plain == [st.z EXCEPT !.name = line.name, !.gmtoff = Gethms(line.gmtoff, TRUE),
                      !.rule = line.rule, !.format = line.format]
    IN  IF line.until = <<>> THEN AddZone(st, line, plain, ~HmsOK(line.gmtoff, TRUE))
        ELSE EndZone(st, line, plain, UntilRule(line.until[1], st.z.untilrule))

Inzone(st, line) ==
    IF line.name \in {""} \cup {st.zones[i].name : i \in DOMAIN st.zones} THEN Error(st) ELSE Inzsub(st, line)

Inlink(st, line) ==
    IF line.from = "" \/ line.to = "" THEN Error(st)
    ELSE [st EXCEPT !.links = Append(@, [from |-> line.from, to |-> line.to]), !.wantcont = FALSE]

\* addleap keeps the table in the order of time; equal moments end the run.
Addleap(leaps, t, positive, rolling) ==
    LET new == [trans |-> t, corr |-> IF positive THEN 1 ELSE -1, roll |-> rolling]
        before == SelectSeq(leaps, LAMBDA l : l.trans < t)
        after == SelectSeq(leaps, LAMBDA l : l.trans > t)
    IN  before \o <<new>> \o after

Inleap(st, line) ==
    LET day == DaysToYear(line.year) + DaysToMonth(line.year, line.mon) + line.day - 1
        t == Tadd(day * SecsPerDay, Gethms(line.at, FALSE))
    IN  IF \/ line.year \notin MinYear .. MaxYear
           \/ line.mon \notin 0 .. 11
           \/ line.day \notin 1 .. MonLengths(line.year)[line.mon]
           \/ ~HmsOK(line.at, FALSE)
           \/ Len(st.leaps) >= MaxLeaps
           \/ t \in {st.leaps[i].trans : i \in DOMAIN st.leaps}
        THEN Error(st)
        ELSE [st EXCEPT !.leaps = Addleap(@, t, line.plus, line.rolling), !.wantcont = FALSE]

\* adjleap: each moment counts the leap seconds before it.
Adjleap(leaps) ==
    LET total(i) == MapThenSumSet(LAMBDA k : leaps[k].corr, 1 .. i)
    IN  [i \in DOMAIN leaps |->
            [leaps[i] EXCEPT !.trans = Tadd(@, total(i - 1)), !.corr = total(i)]]

Inline(st, line) ==
    CASE st.wantcont -> IF line.code = "Zone" /\ line.name = "" THEN Inzsub(st, line) ELSE Error(st)
      [] ~st.wantcont /\ line.code = "Zone" -> Inzone(st, line)
      [] ~st.wantcont /\ line.code = "Rule" -> Inrule(st, line)
      [] ~st.wantcont /\ line.code = "Link" -> Inlink(st, line)
      [] ~st.wantcont /\ line.code = "Leap" -> Inleap(st, line)

AtEnd(st) == IF st.wantcont THEN Error(st) ELSE st
Infile(lines) == AtEnd(FoldLeft(Inline, Empty, lines))

\* associate: each zone line gets the rules of its name, or its own saving.
RulesOf(st, z) == SelectSeq(st.rules, LAMBDA r : r.name = z.rule.name)
StdoffOf(st, z) == Gethms(z.rule.save, TRUE)
AssociateOK(st) ==
    \A i \in DOMAIN st.zones :
        RulesOf(st, st.zones[i]) = <<>> =>
            HmsOK(st.zones[i].rule.save, TRUE) /\ ~st.zones[i].format.var
-----------------------------------------------------------------------------
(* Compiling one zone.  out is what is generated so far, with outzone's    *)
(* variables: the offsets in force, the time this line starts at, and the  *)
(* rule that is in force then (<<>> while none is known).  stray is the    *)
(* value startttisstd happens to have before it is first assigned.         *)
NoOutput(zone, stray) ==
    [ats |-> <<>>, types |-> <<>>, ttis |-> <<>>, gmtoff |-> zone.gmtoff, stdoff |-> 0,
     usestart |-> FALSE, starttime |-> 0, startstd |-> stray, start |-> <<>>]

Type(gmtoff, abbr, isdst, std) ==
    [gmtoff |-> gmtoff, isdst |-> IF isdst THEN 1 ELSE 0, abbr |-> abbr, ttisstd |-> std]
Flag(b) == IF b THEN 1 ELSE 0

Addtype(out, type) ==
    IF type \in ToSet(out.ttis) THEN out ELSE [out EXCEPT !.ttis = Append(@, type)]
TypeNumber(out, type) == (CHOOSE i \in DOMAIN out.ttis : out.ttis[i] = type) - 1

\* A transition to the type already in force is not written.
Addtt(out, time, type) ==
    LET added == Addtype(out, type)
        n == TypeNumber(added, type)
    IN  IF added.types # <<>> /\ Last(added.types) = n THEN added
        ELSE [added EXCEPT !.ats = Append(@, time), !.types = Append(@, n)]

Yearistype(year, type) ==
    CASE type = "uspres" -> year % 4 = 0 [] type = "nonpres" -> year % 4 # 0 [] OTHER -> TRUE

\* A local time turned into GMT with the offsets in force before it.
ToGmt(out, time, isstd) == Tadd(time, -(out.gmtoff + (IF isstd THEN 0 ELSE out.stdoff)))

RuleType(z, rule) ==
    Type(z.gmtoff + rule.stdoff, z.format.abbr[rule.letter], rule.stdoff # 0, Flag(rule.todisstd))

\* The rule found takes effect at ktime.  Before the line's start it only
\* tells what is in force there.
TakeEffect(out, z, rule, ktime) ==
    LET type == RuleType(z, rule)
        first == IF out.usestart /\ ktime # out.starttime /\ out.start # <<>>
                 THEN Addtt(out, out.starttime, out.start[1]) ELSE out
        typed == Addtype(first, type)
        added == IF typed.types # <<>> \/ rule.stdoff # 0 THEN Addtt(typed, ktime, type) ELSE typed
    IN  IF out.usestart /\ ktime < out.starttime
        THEN [out EXCEPT !.stdoff = rule.stdoff,
                  !.start = <<[type EXCEPT !.ttisstd = out.startstd]>>]
        ELSE [added EXCEPT !.usestart = FALSE, !.gmtoff = z.gmtoff, !.stdoff = rule.stdoff]

\* One year: again and again the rule to do that takes effect first, under
\* the offsets the one before it left, until the line ends or none is left.
DoRule(z, temps, useuntil, st) ==
    LET rule(j) == temps[j].rule
        time(j) == ToGmt(st.out, temps[j].temp, rule(j).todisstd)
        k == Min({j \in st.todo : \A l \in st.todo : time(j) <= time(l)})
        until == ToGmt(st.out, z.untiltime, z.untilrule.todisstd)
    IN  IF st.todo = {} \/ (useuntil /\ time(k) >= until)
        THEN [st EXCEPT !.todo = {}]
        ELSE [out |-> TakeEffect(st.out, z, rule(k), time(k)), todo |-> st.todo \ {k}]

DoYear(out, z, rules, year, useuntil) ==
    LET temps == [j \in DOMAIN rules |-> [rule |-> rules[j], temp |-> Rpytime(rules[j], year)]]
        todo == {j \in DOMAIN rules :
                    /\ year \in rules[j].lo .. rules[j].hi
                    /\ Yearistype(year, rules[j].yrtype)
                    /\ temps[j].temp \notin {MinTime, MaxTime}}
    IN  FoldLeft(LAMBDA st, j : DoRule(z, temps, useuntil, st), [out |-> out, todo |-> todo], rules).out

\* types[timecnt - 1] is read even when no transition was written: the byte
\* before types[], the last of a table that is never full, is 0.
LastGmtoff(out) == IF out.types = <<>> THEN out.ttis[1].gmtoff ELSE out.ttis[Last(out.types) + 1].gmtoff

PlainLine(st, z, out) ==
    LET fixed == Type(z.gmtoff + StdoffOf(st, z), z.format.abbr[""], StdoffOf(st, z) # 0, out.startstd)
        typed == IF out.usestart THEN Addtt(out, out.starttime, fixed) ELSE Addtype(out, fixed)
    IN  [typed EXCEPT !.gmtoff = z.gmtoff, !.stdoff = StdoffOf(st, z)]

RuledLine(z, rules, out, useuntil) ==
    LET last == IF useuntil THEN Min({MaxYear, z.untilrule.hi}) ELSE MaxYear
    IN  FoldLeft(LAMBDA o, y : DoYear(o, z, rules, y, useuntil), out,
                 [k \in 1 .. last - MinYear + 1 |-> MinYear + k - 1])

NextStart(out, z, useuntil) ==
    IF useuntil
    THEN [out EXCEPT !.starttime = Tadd(z.untiltime, -LastGmtoff(out)),
                     !.startstd = Flag(z.untilrule.todisstd)]
    ELSE out

DoLine(st, zones, out, i) ==
    LET z == zones[i]
        useuntil == i < Len(zones)
        begun == [out EXCEPT !.usestart = i > 1, !.start = <<>>]
        done == IF RulesOf(st, z) = <<>> THEN PlainLine(st, z, begun)
                ELSE RuledLine(z, RulesOf(st, z), begun, useuntil)
    IN  NextStart(done, z, useuntil)

\* writezone: transitions counted with the leap seconds before them, and a
\* rolling leap second moved to its moment in local time.
Writezone(out, leaps) ==
    LET passed(t) == {j \in DOMAIN leaps : t >= leaps[j].trans}
        ats == [i \in DOMAIN out.ats |->
                  IF passed(out.ats[i]) = {} THEN out.ats[i]
                  ELSE Tadd(out.ats[i], leaps[Max(passed(out.ats[i]))].corr)]
        standard == {i \in DOMAIN out.ttis : out.ttis[i].isdst = 0}
        gmtoffAt(t) ==
            IF ats = <<>> \/ t < ats[1]
            THEN out.ttis[IF standard = {} THEN 1 ELSE Min(standard)].gmtoff
            ELSE out.ttis[out.types[Max({1} \cup {i \in DOMAIN ats : t >= ats[i]})] + 1].gmtoff
        names == SetToSeq({out.ttis[i].abbr : i \in DOMAIN out.ttis})
        index(abbr) == AbbrSize * ((CHOOSE i \in DOMAIN names : names[i] = abbr) - 1)
    IN  [leaps |-> [i \in DOMAIN leaps |->
            [trans |-> IF leaps[i].roll THEN Tadd(leaps[i].trans, -gmtoffAt(leaps[i].trans))
                       ELSE leaps[i].trans,
             corr |-> leaps[i].corr]],
         ats |-> ats, types |-> out.types, typecnt |-> Len(out.ttis),
         ttis |-> [i \in DOMAIN out.ttis |->
            [gmtoff |-> out.ttis[i].gmtoff, isdst |-> out.ttis[i].isdst,
             abbrind |-> index(out.ttis[i].abbr), ttisstd |-> out.ttis[i].ttisstd]],
         chars |-> [n \in {index(names[i]) : i \in DOMAIN names} |-> names[(n \div AbbrSize) + 1]]]

Outzone(st, zones, leaps, stray) ==
    Writezone(FoldLeft(LAMBDA out, i : DoLine(st, zones, out, i), NoOutput(zones[1], stray),
                       [i \in DOMAIN zones |-> i]), leaps)

\* A zone's lines: its first one and the continuations after it.
LinesOf(st, name) ==
    LET first == CHOOSE i \in DOMAIN st.zones : st.zones[i].name = name
        next == {i \in first + 1 .. Len(st.zones) : st.zones[i].name # ""}
    IN  SubSeq(st.zones, first, IF next = {} THEN Len(st.zones) ELSE Min(next) - 1)

\* main: the files it writes, by name, links included; none after an error.
Outfiles(st, leaps, stray) ==
    LET names == {st.zones[i].name : i \in DOMAIN st.zones} \ {""}
        target(name) == IF name \in names THEN name
                        ELSE st.links[CHOOSE i \in DOMAIN st.links : st.links[i].to = name].from
    IN  [name \in names \cup {st.links[i].to : i \in DOMAIN st.links} |->
            Outzone(st, LinesOf(st, target(name)), leaps, stray)]

Compile(st, leapst, stray) ==
    IF st.errors + leapst.errors > 0 \/ ~AssociateOK(st) THEN [name \in {} |-> 0]
    ELSE Outfiles(st, Adjleap(leapst.leaps), stray)

Zic(lines, leaplines, stray) == Compile(Infile(lines), Infile(leaplines), stray)
=============================================================================
