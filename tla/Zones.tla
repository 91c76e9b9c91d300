------------------------------- MODULE Zones --------------------------------
(***************************************************************************)
(* A program that changes TZ, calls tzset and converts times, over zone    *)
(* files that zic has compiled.  It looks at the moments around every      *)
(* transition of the zone in force and at a few others.                    *)
(***************************************************************************)
EXTENDS CTime, StrFTime, Zic

CONSTANTS
    Runs,       \* the runs of zic: [dir, lines, leaplines]
    Strays,     \* what zic's uninitialised startttisstd may hold
    Moments,    \* times looked at in every zone
    Around,     \* seconds from a transition to the times looked at
    Twins       \* [zone, twin, from, to, early]: zones that agree between two
                \* times, early those whose lines go back from a day to a
                \* weekday other than Sunday
ASSUME MomentsAssumption == Moments \subseteq -2^TimeBits .. 2^TimeBits - 1

VARIABLES
    ran,        \* runs of zic so far
    loaded,     \* the TZ in force at the last tzset
    when        \* the time of the last localtime under this TZ

Init0 == Init /\ ran = 0 /\ loaded = "unset" /\ when = 0

Samples(zone) ==
    Moments \cup {t \in {zone.ats[k] + d : k \in DOMAIN zone.ats, d \in Around} :
                    t \in 1 - 2^TimeBits .. 2^TimeBits - 1}

\* zic -d dir: every file of the run is written under the directory.
RunZic ==
    /\ ran < Len(Runs)
    /\ ran' = ran + 1
    /\ \E stray \in Strays :
          LET run == Runs[ran + 1]
              made == Zic(run.lines, run.leaplines, stray)
              under == [path \in {run.dir \o name : name \in DOMAIN made} |->
                           made[CHOOSE name \in DOMAIN made : run.dir \o name = path]]
          IN  files' = under @@ files
    /\ UNCHANGED <<tz, lcl, lcl_is_set, tzname, timezone, daylight, loaded, when>>
Program == ran = Len(Runs) /\ UNCHANGED ran
\* TZ may be changed without a tzset; one time is enough to see that
\* localtime does not look at it then.
SetTZ == \E name \in DOMAIN Texts \cup {"unset", ""} :
            name # tz /\ PutEnv(name) /\ when' = 0 /\ UNCHANGED loaded
CallTzset == Tzset /\ loaded' = tz /\ when' = 0
CallLocaltime == \E t \in IF tz = loaded \/ ~lcl_is_set THEN Samples(Zone) ELSE {0} :
                    /\ Localtime(t) /\ when' = t
                    /\ loaded' = IF lcl_is_set THEN loaded ELSE tz
Next == RunZic \/ (Program /\ (SetTZ \/ CallTzset \/ CallLocaltime))
Spec == Init0 /\ [][Next]_<<vars, ran, loaded, when>>

tm == Localsub(when, lcl)
-----------------------------------------------------------------------------
(* mktime undoes localtime: the broken-down time of a moment, summer-time  *)
(* flag included, gives back the moment, in the hour that comes twice as   *)
(* well as around the hour that never comes.                               *)
MktimeInverts == lcl_is_set => Mktime(tm, lcl) = when

(* A day that is moved on by fields out of range, by seconds, minutes,     *)
(* hours, days or years of months, is the moment that much later (zones    *)
(* with one offset, where every day has 24 hours); so is one moved back by *)
(* less than two units of the next field, unless it leaves its month and   *)
(* the February before it is not in the year that the code takes for a     *)
(* whole one.                                                              *)
BackIsWhole(now) ==
    \/ now.mday > 2 \/ now.mon <= 1
    \/ YearLength(now.year + YearBase - 1) = YearLength(now.year + YearBase)
MktimeCarries ==
    (lcl_is_set /\ lcl.typecnt = 1 /\ lcl.leaps = <<>>) =>
        LET now == tm
            years == DaysToYear(now.year + YearBase + 1) - DaysToYear(now.year + YearBase)
        IN  \A move \in {<<"sec", 7200, 7200>>, <<"min", 1500, 1500 * 60>>, <<"hour", -30, -30 * SecsPerHour>>,
                         <<"hour", -1, -SecsPerHour>>, <<"hour", 50, 50 * SecsPerHour>>,
                         <<"mday", 400, 400 * SecsPerDay>>, <<"mon", 12, years * SecsPerDay>>} :
                (/\ move[1] = "mon" => now.mon = 0
                 /\ move[2] < 0 => BackIsWhole(now)
                 /\ when + move[3] \in 60 - 2^TimeBits .. 2^TimeBits - 1) =>
                    Mktime([now EXCEPT ![move[1]] = @ + move[2]], lcl) = when + move[3]

(* A zone file compiled by zic and the POSIX string that says the same give *)
(* the same local times; a zone of several lines agrees with each line's   *)
(* own zone while that line is in force.  (A file with zic's stray flag is *)
(* refused by tzset.)  The exception is rpytime's search back from a day   *)
(* for any weekday but Sunday: it may end a day early, and then the zones  *)
(* differ in the day before the change, and at no other time.              *)
Usable(name) == name \in DOMAIN files => FlagsOK(files[name])
ZonesAgree ==
    \A pair \in Twins :
        (lcl_is_set /\ loaded = pair.zone /\ Usable(pair.zone) /\ when \in pair.from .. pair.to - 1) =>
            LET twin == ZoneOf(pair.twin, NoZone)
                then == Localsub(when, twin)
            IN  tm # then => pair.early /\ Localsub(when + SecsPerDay, twin).isdst # then.isdst

(* tzset leaves nothing of the zone that was in force before: local times  *)
(* are those of a program that had set this TZ first.  TZ="" is an         *)
(* exception (README).                                                     *)
TzsetForgets ==
    (lcl_is_set /\ loaded # "") => tm = Localsub(when, ZoneOf(loaded, NoZone))

(* strftime's %U counts the Sundays of the year so far, and %W the Mondays.*)
WeeksCount ==
    LET now == tm
        days(wday) == Cardinality({d \in 0 .. now.yday : (now.wday - (now.yday - d)) % 7 = wday})
    IN  lcl_is_set => WeekFromSunday(now) = days(0) /\ WeekFromMonday(now) = days(1)

(* strftime writes everything a format asks for or reports 0, and what it  *)
(* writes leaves room for the NUL.                                         *)
StrftimeFits ==
    LET now == tm IN lcl_is_set =>
        \A format \in {<<"C">>, <<"A", "char", "s">>, <<"r", "char">>}, maxsize \in {0, 1, 12, 13, 24, 25} :
            LET got == Strftime(format, now, when, 3, maxsize)
                whole == Strftime(format, now, when, 3, 100)
            IN  /\ got.count < Max({1, maxsize})
                /\ IF whole.count < maxsize THEN got = whole ELSE got.count = 0 /\ got.out = <<>>
=============================================================================
