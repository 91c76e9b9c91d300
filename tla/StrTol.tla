------------------------------- MODULE StrTol -------------------------------
(***************************************************************************)
(* strtol and strtoll.  A text is a sequence of characters ended by a NUL  *)
(* that the sequence does not hold; a position counts the characters       *)
(* before it, as the pointer difference s - str does.  longs have LongLong's*)
(* width W, and strtoll computes with its long_long_t.                     *)
(***************************************************************************)
EXTENDS LongLong, Sequences

Digits == <<"0", "1", "2", "3", "4", "5", "6", "7", "8", "9", "a", "b", "c", "d", "e", "f",
            "g", "h", "i", "j", "k", "l", "m", "n", "o", "p", "q", "r", "s", "t", "u", "v",
            "w", "x", "y", "z">>
DigitValue == [c \in {Digits[i] : i \in DOMAIN Digits} |-> CHOOSE d \in 0 .. 35 : Digits[d + 1] = c]

LongMin == -SignBit
LongMax == SignBit - 1
NUL == "nul"
Char(text, pos) == IF pos < Len(text) THEN text[pos + 1] ELSE NUL

\* isdigit and isalpha characters have a value; it must be below the base.
IsDigit(c, base) == c \in DOMAIN DigitValue /\ DigitValue[c] < base

\* Where the leading blanks end, and what follows the sign, if there is one.
AfterBlanks(text) == Min({p \in 0 .. Len(text) : Char(text, p) # " "})
SignOf(text) == Char(text, AfterBlanks(text))
AfterSign(text) == AfterBlanks(text) + (IF SignOf(text) \in {"-", "+"} THEN 1 ELSE 0)

\* The base asked for, or the one the prefix shows when base is 0.
Prefix(text, base, letters) ==
    LET p == AfterSign(text)
    IN  CASE base # 0 -> [base |-> base, pos |-> p]
          [] base = 0 /\ Char(text, p) # "0" -> [base |-> 10, pos |-> p]
          [] base = 0 /\ Char(text, p) = "0" ->
                IF Char(text, p + 1) \in DOMAIN letters
                THEN [base |-> letters[Char(text, p + 1)], pos |-> p + 2]
                ELSE [base |-> 8, pos |-> p + 1]

\* The end of the digits that start at a position.
DigitsEnd(text, pos, base) == Min({p \in pos .. Len(text) : ~IsDigit(Char(text, p), base)})

\* mutant: the last digit is not compared with cutlim
TooBigLoose(acc, d, base, bound) == acc > bound \div base

\* The next digit does not fit: cutoff and cutlim.
TooBig(acc, d, base, bound) ==
    acc > bound \div base \/ (acc = bound \div base /\ d > bound % base)

\* strtol's accumulator: once a digit does not fit, "any" stays negative.
Accumulate(text, from, to, base, bound) ==
    LET loop[p \in from .. to] ==
            IF p = from THEN [acc |-> 0, any |-> 0]
            ELSE LET before == loop[p - 1]
                     d == DigitValue[Char(text, p - 1)]
                 IN  IF before.any < 0 \/ TooBig(before.acc, d, base, bound)
                     THEN [before EXCEPT !.any = -1]
                     ELSE [acc |-> (before.acc * base + d) % Base, any |-> 1]
    IN  loop[to]

Strtol(text, base) ==
    LET p == Prefix(text, base, [x |-> 16])
        neg == SignOf(text) = "-"
        end == DigitsEnd(text, p.pos, p.base)
        num == Accumulate(text, p.pos, end, p.base, IF neg THEN -LongMin ELSE LongMax)
    IN  CASE p.base \notin 2 .. 36 -> [value |-> 0, end |-> 0, errno |-> "EINVAL"]
          [] p.base \in 2 .. 36 /\ num.any < 0 ->
                [value |-> IF neg THEN LongMin ELSE LongMax, end |-> end, errno |-> "ERANGE"]
          [] p.base \in 2 .. 36 /\ num.any = 0 -> [value |-> 0, end |-> 0, errno |-> "ok"]
          [] p.base \in 2 .. 36 /\ num.any > 0 ->
                [value |-> AsLong((IF neg THEN -num.acc ELSE num.acc) % Base),
                 end |-> end, errno |-> "ok"]
-----------------------------------------------------------------------------
(* strtoll parses every number as a negative one.                          *)
Beyond(current, digit, max_before_mul, max_before_add) ==
    \/ Lt(current, MinLL)
    \/ Eq(current, max_before_mul) /\ Gt(FromLong(digit), max_before_add)
    \/ Lt(current, max_before_mul)
WillOverflow(current, base, digit) ==
    Beyond(current, digit, Div(MinLL, FromLong(base)), Sub(Mul(current, FromLong(base)), MinLL))

\* The conversion loop, one digit after the other; it stops where one overflows.
ParseDigit(before, base, d, p) ==
    CASE before.full -> before
      [] ~before.full /\ WillOverflow(before.result, base, d) -> [before EXCEPT !.full = TRUE]
      [] OTHER ->
            [result |-> Sub(Mul(before.result, FromLong(base)), FromLong(d)), at |-> p, full |-> FALSE]
ParseNegative(text, from, to, base) ==
    LET loop[p \in from .. to] ==
            IF p = from THEN [result |-> Zero, at |-> from, full |-> FALSE]
            ELSE ParseDigit(loop[p - 1], base, DigitValue[Char(text, p - 1)], p)
    IN  loop[to]

Converted(num, negative) ==
    CASE num.full -> [value |-> IF negative THEN MinLL ELSE MaxLL, end |-> num.at, errno |-> "ERANGE"]
      [] ~num.full /\ ~negative /\ Eq(num.result, MinLL) ->
            [value |-> MaxLL, end |-> num.at, errno |-> "ERANGE"]
      [] OTHER -> [value |-> IF negative THEN num.result ELSE Negate(num.result),
                   end |-> num.at, errno |-> "ok"]
DigitsFrom(text, p) ==
    IF p.base \notin 2 .. 36 THEN [value |-> Zero, end |-> 0, errno |-> "EINVAL"]
    ELSE Converted(ParseNegative(text, p.pos, DigitsEnd(text, p.pos, p.base), p.base),
                   SignOf(text) = "-")
Strtoll(text, base) == DigitsFrom(text, Prefix(text, base, [x |-> 16, b |-> 2]))
-----------------------------------------------------------------------------
(* The reference: the value of the digits, however large, clamped to a     *)
(* range.                                                                  *)
ExactValue(text, from, to, base) ==
    LET value[p \in from .. to] ==
            IF p = from THEN 0 ELSE value[p - 1] * base + DigitValue[Char(text, p - 1)]
    IN  value[to]

SignedValue(text, base, letters) ==
    LET p == Prefix(text, base, letters)
        v == ExactValue(text, p.pos, DigitsEnd(text, p.pos, p.base), p.base)
    IN  IF SignOf(text) = "-" THEN -v ELSE v

Clamped(v, low, high) == IF v < low THEN low ELSE IF v > high THEN high ELSE v
=============================================================================
