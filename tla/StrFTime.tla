------------------------------ MODULE StrFTime ------------------------------
(***************************************************************************)
(* strftime: a format is a sequence of items, each a conversion letter or  *)
(* "char" for a character copied as it is.  What an item writes is a piece *)
(* [item, value, len]: the number or the name's place it shows and how many*)
(* characters that takes.                                                  *)
(***************************************************************************)
EXTENDS Calendar, SequencesExt

DayNameLengths == <<6, 6, 7, 9, 8, 6, 8>>
MonthNameLengths == <<7, 8, 5, 5, 3, 4, 4, 6, 9, 7, 8, 8>>

\* The conversions that stand for a format of their own.
Composite(item) ==
    CASE item = "C" -> <<"a", "char", "b", "char", "e", "char", "H", "char", "M", "char", "S", "char", "Y">>
      [] item = "c" -> <<"m", "char", "d", "char", "y", "char", "H", "char", "M", "char", "S">>
      [] item \in {"D", "x"} -> <<"m", "char", "d", "char", "y">>
      [] item = "R" -> <<"H", "char", "M">>
      [] item = "r" -> <<"I", "char", "M", "char", "S", "char", "p">>
      [] item \in {"T", "X"} -> <<"H", "char", "M", "char", "S">>
      [] OTHER -> <<item>>

\* _conv: no digit for a number that is not positive, then padding.
DigitsOf(n) == Cardinality({k \in 0 .. 9 : n >= 10^k})
Conv(item, n, digits) == [item |-> item, value |-> n, len |-> Max({digits, DigitsOf(n)})]
NamePiece(item, n, len) == [item |-> item, value |-> n, len |-> len]

HourOf12(hour) == IF hour % 12 = 0 THEN 12 ELSE hour % 12
WeekFromSundayLate(tm) == (tm.yday + 6 - tm.wday) \div 7   \* mutant: off by a day
WeekFromSunday(tm) == (tm.yday + 7 - tm.wday) \div 7
WeekFromMonday(tm) == (tm.yday + 7 - (IF tm.wday = 0 THEN 6 ELSE tm.wday - 1)) \div 7

\* The piece an item writes; secs is what mktime makes of the time and zone
\* the length of its abbreviation.  A weekday or month out of range stops
\* the whole conversion.
Refused(item, tm) ==
    \/ item \in {"A", "a"} /\ tm.wday \notin 0 .. 6
    \/ item \in {"B", "b", "h"} /\ tm.mon \notin 0 .. 11

Piece(item, tm, secs, zone) ==
    CASE item = "A" -> NamePiece(item, tm.wday, DayNameLengths[tm.wday + 1])
      [] item = "a" -> NamePiece(item, tm.wday, 3)
      [] item = "B" -> NamePiece(item, tm.mon, MonthNameLengths[tm.mon + 1])
      [] item \in {"b", "h"} -> NamePiece(item, tm.mon, 3)
      [] item \in {"d", "e"} -> Conv(item, tm.mday, 2)
      [] item \in {"H", "k"} -> Conv(item, tm.hour, 2)
      [] item \in {"I", "l"} -> Conv(item, HourOf12(tm.hour), 2)
      [] item = "j" -> Conv(item, tm.yday + 1, 3)
      [] item = "M" -> Conv(item, tm.min, 2)
      [] item = "m" -> Conv(item, tm.mon + 1, 2)
      [] item = "p" -> NamePiece(item, IF tm.hour >= 12 THEN 1 ELSE 0, 2)
      [] item = "S" -> Conv(item, tm.sec, 2)
      [] item = "s" -> Conv(item, secs, 0)
      [] item = "U" -> Conv(item, WeekFromSunday(tm), 2)
      [] item = "W" -> Conv(item, WeekFromMonday(tm), 2)
      [] item = "w" -> Conv(item, tm.wday, 1)
      [] item = "y" -> Conv(item, (tm.year + YearBase) % 100, 2)
      [] item = "Y" -> Conv(item, tm.year + YearBase, 4)
      [] item = "Z" -> NamePiece(item, 0, zone)
      [] OTHER -> NamePiece(item, 0, 1)

\* _add leaves room for the NUL it writes after a piece; a character that is
\* copied as it is may take the last place, and then nothing else fits.
Fmt(items, tm, secs, zone, maxsize) ==
    FoldLeft(LAMBDA st, item :
                LET piece == Piece(item, tm, secs, zone)
                    need == IF item \in {"char", "%"} THEN 1 ELSE piece.len + 1
                IN  IF ~st.ok \/ Refused(item, tm) \/ st.gsize < need
                    THEN [st EXCEPT !.ok = FALSE]
                    ELSE [st EXCEPT !.gsize = @ - piece.len, !.out = Append(@, piece)],
             [ok |-> TRUE, gsize |-> maxsize, out |-> <<>>], items)

\* mutant: the room for the NUL is not looked at
WrittenToTheBrim(st, maxsize) ==
    IF maxsize >= 1 /\ st.ok THEN [count |-> maxsize - st.gsize, out |-> st.out]
    ELSE [count |-> 0, out |-> <<>>]

\* The number of characters written, 0 where they do not fit, and the pieces.
Written(st, maxsize) ==
    IF maxsize >= 1 /\ st.ok /\ st.gsize > 0 THEN [count |-> maxsize - st.gsize, out |-> st.out]
    ELSE [count |-> 0, out |-> <<>>]

Strftime(format, tm, secs, zone, maxsize) ==
    Written(Fmt(FlattenSeq([i \in DOMAIN format |-> Composite(format[i])]), tm, secs, zone, maxsize),
            maxsize)
=============================================================================
