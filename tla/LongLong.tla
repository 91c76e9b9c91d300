------------------------------ MODULE LongLong ------------------------------
(***************************************************************************)
(* The emulated 64-bit integer of longlong.c: a record of two unsigned     *)
(* longs.  W is the width of an unsigned long (32 in the build), a         *)
(* parameter so that the arithmetic can be checked exhaustively for narrow *)
(* words.  Every operator keeps its words in 0 .. Base - 1, the way the C  *)
(* unsigned arithmetic wraps.  A function that also sets errno returns it  *)
(* in a field of its result ("ok" when errno is left alone).               *)
(***************************************************************************)
EXTENDS Integers, FiniteSetsExt

CONSTANT W
ASSUME WAssumption == W \in Nat \ {0} /\ W % 2 = 0

Base == 2^W
SignBit == 2^(W - 1)

Zero == [hi |-> 0, lo |-> 0]
MaxLL == [hi |-> SignBit - 1, lo |-> Base - 1]
MinLL == [hi |-> SignBit, lo |-> 0]

IsNegative(x) == x.hi >= SignBit
IsZero(x) == x.hi = 0 /\ x.lo = 0
IsPositive(x) == ~IsNegative(x) /\ ~IsZero(x)

\* The long that the bits of a word stand for.
AsLong(w) == IF w >= SignBit THEN w - Base ELSE w

FromLong(v) == [hi |-> IF v >= 0 THEN 0 ELSE Base - 1, lo |-> v % Base]
ToLong(x) == AsLong(x.lo)
HandleOverflow(negative) == IF negative THEN MinLL ELSE MaxLL
-----------------------------------------------------------------------------
(* Bits.  A word is the sum of the powers of two at its set bits.          *)
BitsOf(w) == {i \in 0 .. W - 1 : (w \div 2^i) % 2 = 1}
WordOf(bits) == MapThenSumSet(LAMBDA i : 2^i, bits)

AndWord(v, w) == WordOf(BitsOf(v) \cap BitsOf(w))
OrWord(v, w) == WordOf(BitsOf(v) \cup BitsOf(w))
XorWord(v, w) == OrWord(v, w) - AndWord(v, w)
NotWord(w) == Base - 1 - w

And(a, b) == [hi |-> AndWord(a.hi, b.hi), lo |-> AndWord(a.lo, b.lo)]
Or(a, b) == [hi |-> OrWord(a.hi, b.hi), lo |-> OrWord(a.lo, b.lo)]
Xor(a, b) == [hi |-> XorWord(a.hi, b.hi), lo |-> XorWord(a.lo, b.lo)]
Not(a) == [hi |-> NotWord(a.hi), lo |-> NotWord(a.lo)]

ShlWord(w, n) == (w * 2^n) % Base
ShrWord(w, n) == w \div 2^n

Shl(x, n) ==
    CASE n <= 0 -> x
      [] n >= 2 * W -> Zero
      [] n \in W .. 2 * W - 1 -> [hi |-> ShlWord(x.lo, n - W), lo |-> 0]
      [] n \in 1 .. W - 1 ->
            [hi |-> OrWord(ShlWord(x.hi, n), ShrWord(x.lo, W - n)), lo |-> ShlWord(x.lo, n)]

Shr(x, n) ==
    CASE n <= 0 -> x
      [] n >= 2 * W -> Zero
      [] n \in W .. 2 * W - 1 -> [hi |-> 0, lo |-> ShrWord(x.hi, n - W)]
      [] n \in 1 .. W - 1 ->
            [hi |-> ShrWord(x.hi, n), lo |-> OrWord(ShrWord(x.lo, n), ShlWord(x.hi, W - n))]

\* (long)value.hi >> n is the compiler's arithmetic shift: floor of the quotient.
SarWord(w, n) == (AsLong(w) \div 2^n) % Base

SarNoSign(x, n) == Shr(x, n)   \* mutant: the sign is not kept

Sar(x, n) ==
    LET fill == IF IsNegative(x) THEN Base - 1 ELSE 0
    IN  CASE n <= 0 -> x
          [] n >= 2 * W -> [hi |-> fill, lo |-> fill]
          [] n \in W .. 2 * W - 1 -> [hi |-> fill, lo |-> SarWord(x.hi, n - W)]
          [] n \in 1 .. W - 1 ->
                [hi |-> SarWord(x.hi, n), lo |-> OrWord(ShrWord(x.lo, n), ShlWord(x.hi, W - n))]

\* The counting loops stop at the first set bit of the half they look at.
Clz(x) ==
    LET Lead(w) == W - 1 - Max(BitsOf(w))
    IN  CASE IsZero(x) -> 2 * W
          [] x.hi # 0 -> Lead(x.hi)
          [] x.hi = 0 /\ x.lo # 0 -> W + Lead(x.lo)

Ctz(x) ==
    CASE IsZero(x) -> 2 * W
      [] x.lo # 0 -> Min(BitsOf(x.lo))
      [] x.lo = 0 /\ x.hi # 0 -> W + Min(BitsOf(x.hi))

Popcount(x) == Cardinality(BitsOf(x.hi)) + Cardinality(BitsOf(x.lo))
-----------------------------------------------------------------------------
(* Comparison.                                                             *)
Eq(a, b) == a.hi = b.hi /\ a.lo = b.lo

Lt(a, b) ==
    \/ IsNegative(a) /\ ~IsNegative(b)
    \/ /\ IsNegative(a) <=> IsNegative(b)
       /\ a.hi < b.hi \/ (a.hi = b.hi /\ a.lo < b.lo)

Gt(a, b) == Lt(b, a)
Le(a, b) == Eq(a, b) \/ Lt(a, b)
Ge(a, b) == Eq(a, b) \/ Gt(a, b)
-----------------------------------------------------------------------------
(* Arithmetic.                                                             *)
Negate(x) ==
    LET lo == (NotWord(x.lo) + 1) % Base
        carry == IF lo = 0 THEN 1 ELSE 0
    IN  IF IsZero(x) THEN x ELSE [hi |-> (NotWord(x.hi) + carry) % Base, lo |-> lo]

Magnitude(x) == IF IsNegative(x) THEN Negate(x) ELSE x

\* mutant: no carry into the upper word
AddNoCarry(a, b) == [hi |-> (a.hi + b.hi) % Base, lo |-> (a.lo + b.lo) % Base]

Add(a, b) ==
    LET lo == (a.lo + b.lo) % Base
        carry == IF lo < a.lo THEN 1 ELSE 0
    IN  [hi |-> (a.hi + b.hi + carry) % Base, lo |-> lo]

Sub(a, b) ==
    LET borrow == IF a.lo >= b.lo THEN 0 ELSE 1
    IN  [hi |-> (a.hi - b.hi - borrow) % Base, lo |-> (a.lo - b.lo) % Base]

\* Schoolbook product of the magnitudes in half words.  The sum of the two
\* middle products is itself an unsigned long: its carry is lost.
MulMagnitudes(a, b) ==
    LET half == 2^(W \div 2)
        a0 == a.lo % half
        a1 == a.lo \div half
        b0 == b.lo % half
        b1 == b.lo \div half
        mid1 == (a0 * b1 + a1 * b0) % Base
        mid2 == ((a0 * b0) \div half) + (mid1 % half)
    IN  [hi |-> (a1 * b1 + (mid1 \div half) + (mid2 \div half) + a.lo * b.hi + a.hi * b.lo) % Base,
         lo |-> ((a0 * b0) % half) + ((mid2 * half) % Base)]

Mul(a, b) ==
    LET negative == IsNegative(a) # IsNegative(b)
        product == MulMagnitudes(Magnitude(a), Magnitude(b))
    IN  CASE IsNegative(product) -> HandleOverflow(negative)
          [] Eq(product, MaxLL) /\ negative -> HandleOverflow(negative)
          [] OTHER -> IF negative THEN Negate(product) ELSE product

\* mutant: a divisor that fits exactly is shifted back as well
DivisorShiftBackOnEqual(a, b) ==
    LET last == Min({n \in 0 .. 2 * W - 1 : n = 2 * W - 1 \/ ~Lt(Shl(b, n), a)})
    IN  IF Ge(Shl(b, last), a)
        THEN [shift |-> last - 1, divisor |-> Shr(Shl(b, last), 1)]
        ELSE [shift |-> last, divisor |-> Shl(b, last)]

\* The first shift at which the divisor is no longer below the dividend; one
\* that reaches the sign bit compares as negative and is shifted on.
DivisorShift(a, b) ==
    LET last == Min({n \in 0 .. 2 * W - 1 : n = 2 * W - 1 \/ ~Lt(Shl(b, n), a)})
    IN  IF Gt(Shl(b, last), a)
        THEN [shift |-> last - 1, divisor |-> Shr(Shl(b, last), 1)]
        ELSE [shift |-> last, divisor |-> Shl(b, last)]

\* The subtracting loop, one round for each shift from the highest down to 0:
\* its state after the round for shift n.
DivRound(r, n) ==
    LET fits == Ge(r.dividend, r.divisor)
    IN  [q |-> IF fits THEN Or(r.q, Shl(FromLong(1), n)) ELSE r.q,
         dividend |-> IF fits THEN Sub(r.dividend, r.divisor) ELSE r.dividend,
         divisor |-> Shr(r.divisor, 1)]
DivRounds(a, start) ==
    LET round[n \in 0 .. start.shift + 1] ==
            IF n = start.shift + 1
            THEN [q |-> Zero, dividend |-> a, divisor |-> start.divisor]
            ELSE DivRound(round[n + 1], n)
    IN  round[0]

\* Quotient and remainder of magnitudes, then their signs.
LongDivision(ma, mb) ==
    IF Lt(ma, mb) THEN [q |-> Zero, dividend |-> ma] ELSE DivRounds(ma, DivisorShift(ma, mb))
Signed(mag, a, b) ==
    [q |-> IF IsNegative(a) # IsNegative(b) THEN Negate(mag.q) ELSE mag.q,
     r |-> IF IsNegative(a) THEN Negate(mag.dividend) ELSE mag.dividend,
     errno |-> "ok"]

DivMod(a, b) ==
    CASE IsZero(b) -> [q |-> Zero, r |-> Zero, errno |-> "EDOM"]
      [] IsZero(a) /\ ~IsZero(b) -> [q |-> Zero, r |-> Zero, errno |-> "ok"]
      [] Eq(a, MinLL) /\ Eq(b, FromLong(1)) -> [q |-> MinLL, r |-> Zero, errno |-> "ok"]
      [] Eq(a, MinLL) /\ Eq(b, FromLong(-1)) -> [q |-> MaxLL, r |-> Zero, errno |-> "ERANGE"]
      [] OTHER -> Signed(LongDivision(Magnitude(a), Magnitude(b)), a, b)

Div(a, b) == DivMod(a, b).q
Mod(a, b) == DivMod(a, b).r
-----------------------------------------------------------------------------
(* The integer a value stands for, and the reference the code is held to.  *)
Unsigned(x) == x.hi * Base + x.lo
Value(x) == IF IsNegative(x) THEN Unsigned(x) - Base * Base ELSE Unsigned(x)
OfValue(v) == [hi |-> (v % (Base * Base)) \div Base, lo |-> v % Base]
InRange(v) == v \in Value(MinLL) .. Value(MaxLL)
Abs(v) == IF v < 0 THEN -v ELSE v

\* C's division: the quotient is truncated towards zero.
Truncated(v, w) == IF (v < 0) = (w < 0) THEN Abs(v) \div Abs(w) ELSE -(Abs(v) \div Abs(w))
=============================================================================
