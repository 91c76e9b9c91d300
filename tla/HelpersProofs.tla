--------------------------- MODULE HelpersProofs ----------------------------
(***************************************************************************)
(* Proofs about the pure functions: the sums, comparisons, shifts, products*)
(* and quotients of the emulated 64-bit integers for words of every width, *)
(* and the conversions between modes and protections for every set of bits.*)
(***************************************************************************)
EXTENDS Helpers, Numbers, SequenceTheorems, TLAPS

-----------------------------------------------------------------------------
(* Words and pairs of words, of any width.                                 *)

LongLongs == [hi : 0 .. Base - 1, lo : 0 .. Base - 1]

LEMMA Widths ==
  /\ Base \in Nat \ {0} /\ SignBit \in Nat \ {0} /\ Base = 2 * SignBit
<1>1. W - 1 \in Nat /\ (W - 1) + 1 = W
  BY WAssumption
<1>2. PICK n \in Nat : n = W - 1
  BY <1>1
<1>3. n + 1 = W
  BY <1>1, <1>2
<1>4. 2^n \in Nat \ {0} /\ 2^(n + 1) = 2 * 2^n /\ 2^(n + 1) \in Nat \ {0}
  <2>1. n + 1 \in Nat
    OBVIOUS
  <2> QED
    BY <2>1, PowerDoubles
<1> QED
  BY <1>2, <1>3, <1>4 DEF Base, SignBit

LEMMA QuotientUnique ==
  ASSUME NEW m \in Nat \ {0}, NEW v \in Int, NEW q \in Int, NEW r \in 0 .. m - 1, v = q * m + r
  PROVE  v % m = r /\ v \div m = q
OBVIOUS

LEMMA Division ==
  ASSUME NEW m \in Nat \ {0}, NEW v \in Nat
  PROVE  (v \div m) \in Nat /\ (v % m) \in 0 .. m - 1 /\ v = (v \div m) * m + (v % m)
OBVIOUS

LEMMA WordWraps ==
  ASSUME NEW m \in Nat \ {0}, NEW v \in Int
  PROVE  /\ v \in 0 .. m - 1 => v % m = v
         /\ v \in m .. 2 * m - 1 => v % m = v - m
         /\ v \in -m .. -1 => v % m = v + m
<1>1. ASSUME v \in 0 .. m - 1 PROVE v % m = v
  <2>1. v = 0 * m + v
    OBVIOUS
  <2> QED
    BY <1>1, <2>1, QuotientUnique
<1>2. ASSUME v \in m .. 2 * m - 1 PROVE v % m = v - m
  <2>1. v = 1 * m + (v - m) /\ v - m \in 0 .. m - 1
    BY <1>2
  <2> QED
    BY <2>1, QuotientUnique
<1>3. ASSUME v \in -m .. -1 PROVE v % m = v + m
  <2>1. v = (-1) * m + (v + m) /\ v + m \in 0 .. m - 1
    BY <1>3
  <2> QED
    BY <2>1, QuotientUnique
<1> QED
  BY <1>1, <1>2, <1>3

\* The pair of words that stands for a number, whatever was carried out of it.
LEMMA Represents ==
  ASSUME NEW x \in LongLongs, NEW v \in Int, NEW k \in Int,
         v = Unsigned(x) + k * (Base * Base)
  PROVE  OfValue(v) = x
<1>1. PICK B \in Nat \ {0} : B = Base
  BY Widths
<1>2. PICK h \in 0 .. B - 1, l \in 0 .. B - 1 : x = [hi |-> h, lo |-> l]
  BY <1>1 DEF LongLongs
<1>3. v = (h * B + l) + k * (B * B)
  BY <1>1, <1>2 DEF Unsigned
<1>4. PICK sq \in Nat \ {0} : sq = B * B
  OBVIOUS
<1>5. PICK u \in Nat : u = h * B + l
  OBVIOUS
<1>6. u \in 0 .. sq - 1
  <2>1. h * B <= (B - 1) * B
    OBVIOUS
  <2>2. (B - 1) * B = sq - B
    BY <1>4
  <2> QED
    BY <1>5, <2>1, <2>2
<1>7. v % sq = u
  <2>1. v = k * sq + u
    BY <1>3, <1>4, <1>5
  <2> QED
    BY <1>6, <2>1, QuotientUnique
<1>8. u \div B = h
  BY <1>5, QuotientUnique
<1>9. v % B = l
  <2>1. k * (B * B) = (k * B) * B
    OBVIOUS
  <2>2. (h + k * B) * B = h * B + (k * B) * B
    OBVIOUS
  <2>3. v = (h + k * B) * B + l
    BY <1>3, <2>1, <2>2
  <2>4. h + k * B \in Int
    OBVIOUS
  <2> QED
    BY <2>3, <2>4, QuotientUnique
<1> QED
  BY <1>1, <1>2, <1>4, <1>7, <1>8, <1>9 DEF OfValue

LEMMA Values ==
  ASSUME NEW x \in LongLongs
  PROVE  /\ x.hi \in 0 .. Base - 1 /\ x.lo \in 0 .. Base - 1
         /\ Unsigned(x) \in Nat /\ Value(x) \in Int
         /\ \E k \in {0, 1} : Value(x) = Unsigned(x) - k * (Base * Base)
<1>1. x.hi \in 0 .. Base - 1 /\ x.lo \in 0 .. Base - 1
  BY DEF LongLongs
<1>2. PICK B \in Nat \ {0} : B = Base
  BY Widths
<1>3. Unsigned(x) \in Nat
  BY <1>1, <1>2 DEF Unsigned
<1>4. PICK sq \in Nat : sq = Base * Base
  BY <1>2
<1>5. Value(x) = Unsigned(x) - 1 * sq \/ Value(x) = Unsigned(x) - 0 * sq
  BY <1>3, <1>4 DEF Value
<1> QED
  BY <1>1, <1>3, <1>4, <1>5

\* What a wrapped sum or difference of two values comes to.
LEMMA SameWrapped ==
  ASSUME NEW x \in LongLongs, NEW y \in LongLongs, NEW z \in LongLongs, NEW c \in Int,
         NEW s \in {1, -1}, Unsigned(x) + s * Unsigned(y) = Unsigned(z) + c * (Base * Base)
  PROVE  OfValue(Value(x) + s * Value(y)) = z
<1>1. PICK sq \in Nat : sq = Base * Base
  BY Widths
<1>2. PICK p \in {0, 1} : Value(x) = Unsigned(x) - p * sq
  BY <1>1, Values
<1>3. PICK q \in {0, 1} : Value(y) = Unsigned(y) - q * sq
  BY <1>1, Values
<1>4. PICK u \in Nat, v \in Nat, w \in Nat : u = Unsigned(x) /\ v = Unsigned(y) /\ w = Unsigned(z)
  BY Values
<1>5. PICK d \in Int : d = c - p - s * q
  OBVIOUS
<1>6. (u - p * sq) + s * (v - q * sq) = w + d * sq
  <2>1. PICK cs \in Int : cs = c * sq
    OBVIOUS
  <2>2. d * sq = cs - p * sq - (s * q) * sq
    BY <1>5, <2>1
  <2>3. u + s * v = w + cs
    BY <1>1, <1>4, <2>1
  <2>4. s * (v - q * sq) = s * v - (s * q) * sq
    OBVIOUS
  <2>5. PICK m \in Int, n \in Int, k \in Int, t \in Int :
            m = p * sq /\ n = (s * q) * sq /\ k = s * v /\ t = s * (v - q * sq)
    OBVIOUS
  <2> HIDE <1>5
  <2>6. PICK e \in Int : e = d * sq
    OBVIOUS
  <2>7. e = cs - m - n
    BY <2>2, <2>5, <2>6
  <2>8. t = k - n /\ u + k = w + cs
    BY <2>3, <2>4, <2>5
  <2>9. (u - m) + t = w + e
    BY <2>7, <2>8
  <2> QED
    BY <2>5, <2>6, <2>9
<1>7. Value(x) + s * Value(y) = Unsigned(z) + d * (Base * Base)
  BY <1>1, <1>2, <1>3, <1>4, <1>6
<1>8. Value(x) + s * Value(y) \in Int
  BY Values
<1> QED
  BY <1>7, <1>8, Represents

LEMMA AddWraps ==
  ASSUME NEW x \in LongLongs, NEW y \in LongLongs
  PROVE  Add(x, y) \in LongLongs /\ Add(x, y) = OfValue(Value(x) + Value(y))
<1>1. PICK B \in Nat \ {0} : B = Base
  BY Widths
<1>2. PICK xh \in 0 .. B - 1, xl \in 0 .. B - 1 : x = [hi |-> xh, lo |-> xl]
  BY <1>1 DEF LongLongs
<1>3. PICK yh \in 0 .. B - 1, yl \in 0 .. B - 1 : y = [hi |-> yh, lo |-> yl]
  BY <1>1 DEF LongLongs
<1> DEFINE lo == (xl + yl) % B
           carry == IF lo < xl THEN 1 ELSE 0
           hi == (xh + yh + carry) % B
<1>4. lo \in 0 .. B - 1 /\ carry \in {0, 1} /\ xl + yl = lo + carry * B
  <2>1. xl + yl \in 0 .. 2 * B - 1
    OBVIOUS
  <2>2. CASE xl + yl < B
    <3>1. lo = xl + yl
      BY <2>1, <2>2, WordWraps
    <3> HIDE DEF lo
    <3> QED
      BY <2>2, <3>1
  <2>3. CASE xl + yl >= B
    <3>1. lo = xl + yl - B
      BY <2>1, <2>3, WordWraps
    <3> HIDE DEF lo
    <3> QED
      BY <2>3, <3>1
  <2> QED
    BY <2>1, <2>2, <2>3
<1>5. Add(x, y) = [hi |-> hi, lo |-> lo]
  BY <1>1, <1>2, <1>3 DEF Add
<1> HIDE DEF lo, carry
<1>6. \E d \in {0, 1} : hi \in 0 .. B - 1 /\ xh + yh + carry = hi + d * B
  <2>1. PICK n \in 0 .. 2 * B - 1 : n = xh + yh + carry
    BY <1>4
  <2>2. CASE n < B
    <3>1. hi = n
      BY <2>1, <2>2, WordWraps
    <3> HIDE DEF hi
    <3> QED
      BY <2>1, <2>2, <3>1
  <2>3. CASE n >= B
    <3>1. hi = n - B
      BY <2>1, <2>3, WordWraps
    <3> HIDE DEF hi
    <3> QED
      BY <2>1, <2>3, <3>1
  <2> QED
    BY <2>1, <2>2, <2>3
<1> HIDE DEF hi
<1>7. PICK d \in {0, 1} : hi \in 0 .. B - 1 /\ xh + yh + carry = hi + d * B
  BY <1>6
<1>8. (xh * B + xl) + 1 * (yh * B + yl) = (hi * B + lo) + d * (B * B)
  <2>1. (xh + yh + carry) * B = (hi + d * B) * B
    BY <1>7
  <2>2. (xh + yh + carry) * B = xh * B + yh * B + carry * B
    BY <1>4
  <2>3. (hi + d * B) * B = hi * B + d * (B * B)
    BY <1>7
  <2>4. carry * B \in Int /\ xh * B \in Int /\ yh * B \in Int /\ hi * B \in Int /\ d * (B * B) \in Int
    BY <1>4, <1>7
  <2> QED
    BY <1>4, <1>7, <2>1, <2>2, <2>3, <2>4
<1>9. Add(x, y) \in LongLongs /\ Unsigned(Add(x, y)) = hi * B + lo
  BY <1>1, <1>4, <1>5, <1>7 DEF LongLongs, Unsigned
<1>10. Unsigned(x) + 1 * Unsigned(y) = Unsigned(Add(x, y)) + d * (Base * Base)
  BY <1>1, <1>2, <1>3, <1>8, <1>9 DEF Unsigned
<1>11. Value(x) + 1 * Value(y) = Value(x) + Value(y) /\ 1 \in {1, -1} /\ d \in Int
  BY Values
<1>12. OfValue(Value(x) + 1 * Value(y)) = Add(x, y)
  BY <1>9, <1>10, <1>11, SameWrapped
<1> QED
  BY <1>9, <1>11, <1>12
LEMMA SubWraps ==
  ASSUME NEW x \in LongLongs, NEW y \in LongLongs
  PROVE  Sub(x, y) \in LongLongs /\ Sub(x, y) = OfValue(Value(x) - Value(y))
<1>1. PICK B \in Nat \ {0} : B = Base
  BY Widths
<1>2. PICK xh \in 0 .. B - 1, xl \in 0 .. B - 1 : x = [hi |-> xh, lo |-> xl]
  BY <1>1 DEF LongLongs
<1>3. PICK yh \in 0 .. B - 1, yl \in 0 .. B - 1 : y = [hi |-> yh, lo |-> yl]
  BY <1>1 DEF LongLongs
<1> DEFINE lo == (xl - yl) % B
           borrow == IF xl >= yl THEN 0 ELSE 1
           hi == (xh - yh - borrow) % B
<1>4. lo \in 0 .. B - 1 /\ borrow \in {0, 1} /\ xl - yl = lo - borrow * B
  <2>1. xl - yl \in -B .. B - 1
    OBVIOUS
  <2>2. CASE xl >= yl
    <3>1. lo = xl - yl
      BY <2>1, <2>2, WordWraps
    <3> HIDE DEF lo
    <3> QED
      BY <2>2, <3>1
  <2>3. CASE xl < yl
    <3>1. lo = xl - yl + B
      BY <2>1, <2>3, WordWraps
    <3> HIDE DEF lo
    <3> QED
      BY <2>3, <3>1
  <2> QED
    BY <2>1, <2>2, <2>3
<1>5. Sub(x, y) = [hi |-> hi, lo |-> lo]
  BY <1>1, <1>2, <1>3 DEF Sub
<1> HIDE DEF lo, borrow
<1>6. \E d \in {0, 1} : hi \in 0 .. B - 1 /\ xh - yh - borrow = hi - d * B
  <2>1. PICK n \in -B .. B - 1 : n = xh - yh - borrow
    BY <1>4
  <2>2. CASE n >= 0
    <3>1. hi = n
      BY <2>1, <2>2, WordWraps
    <3> HIDE DEF hi
    <3>2. hi \in 0 .. B - 1 /\ xh - yh - borrow = hi - 0 * B
      BY <2>1, <2>2, <3>1, <1>4
    <3> QED
      BY <3>2
  <2>3. CASE n < 0
    <3>1. hi = n + B
      BY <2>1, <2>3, WordWraps
    <3> HIDE DEF hi
    <3>2. hi \in 0 .. B - 1 /\ xh - yh - borrow = hi - 1 * B
      BY <2>1, <2>3, <3>1, <1>4
    <3> QED
      BY <3>2
  <2> QED
    BY <2>1, <2>2, <2>3
<1> HIDE DEF hi
<1>7. PICK d \in {0, 1} : hi \in 0 .. B - 1 /\ xh - yh - borrow = hi - d * B
  BY <1>6
<1>8. (xh * B + xl) + (-1) * (yh * B + yl) = (hi * B + lo) + (-d) * (B * B)
  <2>1. (xh - yh - borrow) * B = (hi - d * B) * B
    BY <1>7
  <2>2. (xh - yh - borrow) * B = xh * B - yh * B - borrow * B
    BY <1>4
  <2>3. (hi - d * B) * B = hi * B - d * (B * B)
    BY <1>7
  <2>4. borrow * B \in Int /\ xh * B \in Int /\ yh * B \in Int /\ hi * B \in Int /\ d * (B * B) \in Int
    BY <1>4, <1>7
  <2> QED
    BY <1>4, <1>7, <2>1, <2>2, <2>3, <2>4
<1>9. Sub(x, y) \in LongLongs /\ Unsigned(Sub(x, y)) = hi * B + lo
  BY <1>1, <1>4, <1>5, <1>7 DEF LongLongs, Unsigned
<1>10. Unsigned(x) + (-1) * Unsigned(y) = Unsigned(Sub(x, y)) + (-d) * (Base * Base)
  BY <1>1, <1>2, <1>3, <1>8, <1>9 DEF Unsigned
<1>11. Value(x) + (-1) * Value(y) = Value(x) - Value(y) /\ -1 \in {1, -1} /\ -d \in Int
  BY Values
<1>12. OfValue(Value(x) + (-1) * Value(y)) = Sub(x, y)
  BY <1>9, <1>10, <1>11, SameWrapped
<1> QED
  BY <1>9, <1>11, <1>12

LEMMA ZeroValue == Zero \in LongLongs /\ Value(Zero) = 0
<1>1. PICK B \in Nat \ {0} : B = Base
  BY Widths
<1>2. 0 * B + 0 = 0
  OBVIOUS
<1> QED
  BY <1>1, <1>2, Widths DEF LongLongs, Zero, Value, Unsigned, IsNegative

\* The words of a negation, of which both ways to compute one consist.
LEMMA Complements ==
  ASSUME NEW x \in LongLongs
  PROVE  /\ Negate(x) = Sub(Zero, x)
         /\ Add(Not(x), FromLong(1)) = Negate(x)
<1>1. PICK B \in Nat \ {0, 1} : B = Base
  BY Widths
<1>2. PICK xh \in 0 .. B - 1, xl \in 0 .. B - 1 : x = [hi |-> xh, lo |-> xl]
  BY <1>1 DEF LongLongs
<1> DEFINE rem(v) == v % B
<1>3. /\ rem(0) = 0 /\ rem(1) = 1 /\ rem(B) = 0
      /\ xl # 0 => rem(B - xl) = B - xl /\ rem(-xl) = B - xl
      /\ xh # 0 => rem(B - xh) = B - xh /\ rem(-xh) = B - xh
      /\ rem(B - 1 - xh) = B - 1 - xh /\ rem(-xh - 1) = B - 1 - xh
  <2>1. rem(0) = 0 /\ rem(1) = 1
    BY WordWraps
  <2>2. rem(B) = B - B
    <3>1. B \in B .. 2 * B - 1
      OBVIOUS
    <3> QED
      BY <3>1, WordWraps
  <2>0. B \in Nat \ {0}
    OBVIOUS
  <2>3. ASSUME NEW n \in 0 .. B - 1 PROVE rem(n) = n
    BY <2>0, WordWraps
  <2>4. ASSUME NEW n \in -B .. -1 PROVE rem(n) = n + B
    <3>1. n \in Int
      OBVIOUS
    <3>2. n \in -B .. -1 => n % B = n + B
      BY <2>0, <3>1, WordWraps
    <3> QED
      BY <3>2
  <2> HIDE DEF rem
  <2>5. ASSUME NEW v \in 1 .. B - 1 PROVE rem(B - v) = B - v /\ rem(-v) = B - v
    <3>1. PICK n \in 0 .. B - 1 : n = B - v
      OBVIOUS
    <3>2. PICK m \in -B .. -1 : m = -v
      OBVIOUS
    <3> QED
      BY <2>3, <2>4, <3>1, <3>2
  <2>6. rem(B - 1 - xh) = B - 1 - xh
    <3>1. PICK n \in 0 .. B - 1 : n = B - 1 - xh
      OBVIOUS
    <3> QED
      BY <2>3, <3>1
  <2>7. rem(-xh - 1) = B - 1 - xh
    <3>1. PICK n \in -B .. -1 : n = -xh - 1
      OBVIOUS
    <3> QED
      BY <2>4, <3>1
  <2> QED
    BY <2>1, <2>2, <2>5, <2>6, <2>7
<1> DEFINE nlo == B - 1 - xl
           nhi == B - 1 - xh
           low == rem(nlo + 1)
           high == rem(nhi + (IF low = 0 THEN 1 ELSE 0))
           slow == rem(0 - xl)
           shigh == rem(0 - xh - (IF 0 >= xl THEN 0 ELSE 1))
           alow == rem(nlo + 1)
           ahigh == rem(nhi + 0 + (IF alow < nlo THEN 1 ELSE 0))
<1>4. /\ Negate(x) = IF xh = 0 /\ xl = 0 THEN x ELSE [hi |-> high, lo |-> low]
      /\ Sub(Zero, x) = [hi |-> shigh, lo |-> slow]
      /\ Add(Not(x), FromLong(1)) = [hi |-> ahigh, lo |-> alow]
  <2>1. FromLong(1) = [hi |-> 0, lo |-> 1]
    BY <1>1, <1>3 DEF FromLong
  <2>2. Not(x) = [hi |-> nhi, lo |-> nlo]
    BY <1>1, <1>2 DEF Not, NotWord
  <2>3. Negate(x) = IF xh = 0 /\ xl = 0 THEN x ELSE [hi |-> high, lo |-> low]
    BY <1>1, <1>2 DEF Negate, NotWord, IsZero
  <2>4. Sub(Zero, x) = [hi |-> shigh, lo |-> slow]
    BY <1>1, <1>2 DEF Sub, Zero
  <2>5. Add(Not(x), FromLong(1)) = [hi |-> ahigh, lo |-> alow]
    <3> HIDE DEF nlo, nhi
    <3> QED
      BY <1>1, <2>1, <2>2 DEF Add
  <2> QED
    BY <2>3, <2>4, <2>5
<1> HIDE DEF rem
<1>5. CASE xl # 0
  <2>1. low = B - xl /\ low # 0 /\ slow = low /\ alow = low /\ ~(alow < nlo)
    <3>1. nlo + 1 = B - xl /\ 0 - xl = -xl
      OBVIOUS
    <3> QED
      BY <1>3, <1>5, <3>1
  <2>2. high = B - 1 - xh /\ shigh = high /\ ahigh = high
    <3>1. nhi + 0 = B - 1 - xh /\ 0 - xh - 1 = -xh - 1 /\ ~(0 >= xl) /\ nhi + 0 + 0 = B - 1 - xh
      BY <1>5
    <3> HIDE DEF low, alow, slow, nlo, nhi
    <3> QED
      BY <1>3, <1>5, <2>1, <3>1
  <2> HIDE DEF low, high, slow, shigh, alow, ahigh
  <2> QED
    BY <1>4, <1>5, <2>1, <2>2
<1>6. CASE xl = 0 /\ xh # 0
  <2>1. low = 0 /\ slow = 0 /\ alow = 0 /\ alow < nlo
    <3>1. nlo + 1 = B /\ 0 - xl = 0 /\ 0 < nlo
      BY <1>6
    <3> QED
      BY <1>3, <3>1
  <2>2. high = B - xh /\ shigh = high /\ ahigh = high
    <3>1. nhi + 1 = B - xh /\ 0 - xh - 0 = -xh /\ 0 >= xl /\ nhi + 0 + 1 = B - xh
      BY <1>6
    <3> HIDE DEF low, alow, slow, nlo, nhi
    <3> QED
      BY <1>3, <1>6, <2>1, <3>1
  <2> HIDE DEF low, high, slow, shigh, alow, ahigh
  <2> QED
    BY <1>4, <1>6, <2>1, <2>2
<1>7. CASE xl = 0 /\ xh = 0
  <2>1. slow = 0 /\ alow = 0 /\ alow < nlo
    <3>1. nlo + 1 = B /\ 0 - xl = 0 /\ 0 < nlo
      BY <1>7
    <3> QED
      BY <1>3, <3>1
  <2>2. shigh = 0 /\ ahigh = 0
    <3>1. nhi + 0 + 1 = B /\ 0 - xh - 0 = 0 /\ 0 >= xl
      BY <1>7
    <3> HIDE DEF alow, slow, nlo, nhi
    <3> QED
      BY <1>3, <2>1, <3>1
  <2> HIDE DEF low, high, slow, shigh, alow, ahigh
  <2> QED
    BY <1>2, <1>4, <1>7, <2>1, <2>2
<1> QED
  BY <1>5, <1>6, <1>7

LEMMA NegateWraps ==
  ASSUME NEW x \in LongLongs
  PROVE  Negate(x) = OfValue(-Value(x))
<1>1. Negate(x) = OfValue(Value(Zero) - Value(x))
  BY ZeroValue, SubWraps, Complements
<1>2. Value(Zero) - Value(x) = -Value(x)
  BY ZeroValue, Values
<1> QED
  BY <1>1, <1>2
-----------------------------------------------------------------------------
(* Order.                                                                  *)

LEMMA Digits2 ==
  ASSUME NEW B \in Nat \ {0}, NEW h \in 0 .. B - 1, NEW l \in 0 .. B - 1,
         NEW g \in 0 .. B - 1, NEW k \in 0 .. B - 1
  PROVE  /\ h * B + l < g * B + k <=> h < g \/ (h = g /\ l < k)
         /\ h * B + l = g * B + k <=> h = g /\ l = k
         /\ h * B + l < B * B
<1>1. ASSUME NEW p \in 0 .. B - 1, NEW q \in 0 .. B - 1, NEW r \in 0 .. B - 1, p < q
      PROVE  p * B + r < q * B
  <2>1. p * B + B = (p + 1) * B
    OBVIOUS
  <2>2. (p + 1) * B <= q * B
    BY <1>1
  <2>3. PICK pb \in Nat, qb \in Nat : pb = p * B /\ qb = q * B
    OBVIOUS
  <2> QED
    BY <2>1, <2>2, <2>3
<1>2. h * B + l < B * B
  <2>1. h * B <= (B - 1) * B
    OBVIOUS
  <2>2. (B - 1) * B = B * B - B
    OBVIOUS
  <2>3. PICK hb \in Nat, sq \in Nat : hb = h * B /\ sq = B * B
    OBVIOUS
  <2> QED
    BY <2>1, <2>2, <2>3
<1>3. PICK hb \in Nat, gb \in Nat : hb = h * B /\ gb = g * B
  OBVIOUS
<1>4. CASE h = g
  <2>1. hb = gb
    BY <1>3, <1>4
  <2> QED
    BY <1>2, <1>3, <1>4, <2>1
<1>5. CASE h < g
  <2>1. hb + l < gb
    BY <1>1, <1>3, <1>5
  <2> QED
    BY <1>2, <1>3, <1>5, <2>1
<1>6. CASE h > g
  <2>1. gb + k < hb
    BY <1>1, <1>3, <1>6
  <2> QED
    BY <1>2, <1>3, <1>6, <2>1
<1> QED
  BY <1>4, <1>5, <1>6

LEMMA OrderIsByValue ==
  ASSUME NEW x \in LongLongs, NEW y \in LongLongs
  PROVE  /\ Lt(x, y) <=> Value(x) < Value(y)
         /\ Eq(x, y) <=> Value(x) = Value(y)
         /\ IsPositive(x) <=> Value(x) > 0
<1>1. PICK B \in Nat \ {0}, S \in Nat \ {0} : B = Base /\ S = SignBit /\ B = 2 * S
  BY Widths
<1>2. PICK xh \in 0 .. B - 1, xl \in 0 .. B - 1 : x = [hi |-> xh, lo |-> xl]
  BY <1>1 DEF LongLongs
<1>3. PICK yh \in 0 .. B - 1, yl \in 0 .. B - 1 : y = [hi |-> yh, lo |-> yl]
  BY <1>1 DEF LongLongs
<1>4. PICK u \in Nat, v \in Nat, sq \in Nat : u = xh * B + xl /\ v = yh * B + yl /\ sq = B * B
  OBVIOUS
<1>5. /\ u < v <=> xh < yh \/ (xh = yh /\ xl < yl)
      /\ u = v <=> xh = yh /\ xl = yl
      /\ u < sq /\ v < sq
      /\ u = 0 <=> xh = 0 /\ xl = 0
  <2>1. 0 \in 0 .. B - 1 /\ 0 * B + 0 = 0
    OBVIOUS
  <2>2. u = 0 <=> xh = 0 /\ xl = 0
    BY <1>4, <2>1, Digits2
  <2> QED
    BY <1>4, <2>2, Digits2
<1>6. /\ Value(x) = IF xh >= S THEN u - sq ELSE u
      /\ Value(y) = IF yh >= S THEN v - sq ELSE v
  BY <1>1, <1>2, <1>3, <1>4 DEF Value, Unsigned, IsNegative
<1>7. /\ Lt(x, y) <=> \/ xh >= S /\ ~(yh >= S)
                      \/ /\ xh >= S <=> yh >= S
                         /\ xh < yh \/ (xh = yh /\ xl < yl)
      /\ Eq(x, y) <=> xh = yh /\ xl = yl
      /\ IsPositive(x) <=> ~(xh >= S) /\ ~(xh = 0 /\ xl = 0)
  BY <1>1, <1>2, <1>3 DEF Lt, Eq, IsPositive, IsNegative, IsZero
<1> QED
  BY <1>5, <1>6, <1>7

LEMMA LongsRoundTrip ==
  ASSUME NEW x \in LongLongs
  PROVE  FromLong(ToLong(x)) = x <=> Value(x) \in LongMin .. LongMax
<1>1. PICK B \in Nat \ {0}, S \in Nat \ {0} : B = Base /\ S = SignBit /\ B = 2 * S
  BY Widths
<1>2. PICK h \in 0 .. B - 1, l \in 0 .. B - 1 : x = [hi |-> h, lo |-> l]
  BY <1>1 DEF LongLongs
<1>3. PICK hb \in Nat, sq \in Nat : hb = h * B /\ sq = B * B
  OBVIOUS
<1>4. Value(x) = IF h >= S THEN hb + l - sq ELSE hb + l
  BY <1>1, <1>2, <1>3 DEF Value, Unsigned, IsNegative
<1>5. /\ h = 0 => hb = 0
      /\ h # 0 => hb >= B
      /\ h = B - 1 => hb = sq - B
      /\ h # B - 1 => hb <= sq - 2 * B
  <2>1. h = 0 => hb = 0
    BY <1>3
  <2>2. ASSUME h # 0 PROVE hb >= B
    <3>1. 1 * B <= h * B
      BY <2>2
    <3> QED
      BY <1>3, <3>1
  <2>3. (B - 1) * B = B * B - B /\ (B - 2) * B = B * B - 2 * B
    OBVIOUS
  <2>4. h = B - 1 => hb = sq - B
    BY <1>3, <2>3
  <2>5. ASSUME h # B - 1 PROVE hb <= sq - 2 * B
    <3>1. h * B <= (B - 2) * B
      BY <2>5
    <3> QED
      BY <1>3, <2>3, <3>1
  <2> QED
    BY <2>1, <2>2, <2>4, <2>5
<1>6. Value(x) \in LongMin .. LongMax <=> (h = 0 /\ l < S) \/ (h = B - 1 /\ l >= S)
  <2>1. Value(x) \in LongMin .. LongMax <=> Value(x) \in -S .. S - 1
    BY <1>1 DEF LongMin, LongMax
  <2>2. CASE h >= S
    BY <1>1, <1>4, <1>5, <2>1, <2>2
  <2>3. CASE h < S
    BY <1>1, <1>4, <1>5, <2>1, <2>3
  <2> QED
    BY <2>2, <2>3
<1>7. FromLong(ToLong(x)) = [hi |-> IF l >= S THEN B - 1 ELSE 0, lo |-> l]
  <2>1. CASE l >= S
    <3>1. PICK n \in -B .. -1 : n = l - B
      OBVIOUS
    <3>2. n % B = n + B
      <4>1. n \in Int
        OBVIOUS
      <4> QED
        BY <4>1, WordWraps
    <3>3. ToLong(x) = n
      BY <1>1, <1>2, <2>1, <3>1 DEF ToLong, AsLong
    <3>4. FromLong(n) = [hi |-> B - 1, lo |-> n % B]
      BY <1>1 DEF FromLong
    <3> QED
      BY <2>1, <3>1, <3>2, <3>3, <3>4
  <2>2. CASE l < S
    <3>1. l % B = l
      BY WordWraps
    <3>2. ToLong(x) = l
      BY <1>1, <1>2, <2>2 DEF ToLong, AsLong
    <3>3. FromLong(l) = [hi |-> 0, lo |-> l % B]
      BY <1>1 DEF FromLong
    <3> QED
      BY <2>2, <3>1, <3>2, <3>3
  <2> QED
    BY <2>1, <2>2
<1> QED
  BY <1>1, <1>2, <1>6, <1>7

-----------------------------------------------------------------------------
(* The long longs an input stands for are long longs: the walk through the *)
(* samples stays inside them.                                              *)
InsideSamples == part = "numbers" => i \in 0 .. LLs - 1 /\ j \in 0 .. LLs - 1

LEMMA SampleAt ==
  ASSUME NEW k \in 0 .. LLs - 1
  PROVE  LLAt(k) \in LongLongs
<1>1. PICK n \in Nat \ {0} : n = Len(WordSamples)
  BY SamplesAssumption, EmptySeq, LenProperties
<1>2. LLs = n * n
  BY <1>1 DEF LLs
<1>3. k \in Nat /\ k < n * n
  BY <1>2
<1>4. PICK q \in Int, r \in 0 .. n - 1 : k = q * n + r /\ q = (k \div n) /\ r = (k % n)
  <2>1. (k \div n) \in Nat /\ (k % n) \in 0 .. n - 1 /\ k = (k \div n) * n + (k % n)
    BY <1>3, Division
  <2> DEFINE q == k \div n
             r == k % n
  <2>2. q \in Int /\ r \in 0 .. n - 1 /\ k = q * n + r
    BY <2>1
  <2>3. q = (k \div n) /\ r = (k % n)
    OBVIOUS
  <2> HIDE DEF q, r
  <2> QED
    BY <2>2, <2>3
<1>5. q \in 0 .. n - 1
  <2>1. q >= 0
    BY <1>3, <1>4
  <2>2. ASSUME q >= n PROVE FALSE
    <3>1. q * n >= n * n
      BY <2>2
    <3> QED
      BY <1>3, <1>4, <3>1
  <2> QED
    BY <2>1, <2>2
<1>6. WordSamples \in [1 .. n -> 0 .. Base - 1]
  BY <1>1, SamplesAssumption, LenProperties
<1>7. WordSamples[q + 1] \in 0 .. Base - 1 /\ WordSamples[r + 1] \in 0 .. Base - 1
  <2>1. q + 1 \in 1 .. n /\ r + 1 \in 1 .. n
    BY <1>5
  <2> QED
    BY <1>6, <2>1
<1>8. LLAt(k) = [hi |-> WordSamples[q + 1], lo |-> WordSamples[r + 1]]
  BY <1>1, <1>4 DEF LLAt
<1> QED
  BY <1>7, <1>8 DEF LongLongs

LEMMA InsideInductive == Spec => []InsideSamples
<1>1. LLs \in Nat \ {0}
  <2>1. PICK n \in Nat \ {0} : n = Len(WordSamples)
    BY SamplesAssumption, EmptySeq, LenProperties
  <2>2. n * n \in Nat \ {0}
    OBVIOUS
  <2> QED
    BY <2>1, <2>2 DEF LLs
<1>2. Init => InsideSamples
  BY <1>1 DEF Init, InsideSamples
<1>3. InsideSamples /\ [Next]_vars => InsideSamples'
  BY <1>1 DEF InsideSamples, Next, vars, NextA, NextB, Type, AddBit, LLs
<1> QED
  BY <1>2, <1>3, PTL DEF Spec

LEMMA SumsOfSamples == InsideSamples => SumsWrap
<1> SUFFICES ASSUME InsideSamples, part = "numbers"
             PROVE  SumsWrap
  BY DEF SumsWrap
<1>1. PICK x \in LongLongs, y \in LongLongs : x = a /\ y = b
  BY SampleAt DEF InsideSamples, a, b
<1>2. /\ Add(x, y) = OfValue(Value(x) + Value(y))
      /\ Sub(x, y) = OfValue(Value(x) - Value(y))
      /\ Negate(x) = OfValue(-Value(x))
  BY AddWraps, SubWraps, NegateWraps
<1>3. /\ Lt(x, y) <=> Value(x) < Value(y)
      /\ Lt(y, x) <=> Value(y) < Value(x)
      /\ Eq(x, y) <=> Value(x) = Value(y)
      /\ IsPositive(x) <=> Value(x) > 0
      /\ Value(x) \in Int /\ Value(y) \in Int
  BY OrderIsByValue, Values
<1>4. /\ Le(x, y) <=> Value(x) <= Value(y)
      /\ Ge(x, y) <=> Value(x) >= Value(y)
  BY <1>3 DEF Le, Ge, Gt
<1>5. Add(Not(x), FromLong(1)) = Negate(x)
  BY Complements
<1>6. FromLong(ToLong(x)) = x <=> Value(x) \in LongMin .. LongMax
  BY LongsRoundTrip
<1> QED
  BY <1>1, <1>2, <1>3, <1>4, <1>5, <1>6 DEF SumsWrap, Wrapped

(* Whatever the width of a word and the words it is tried on, the carry of *)
(* longlong_add, the borrow of longlong_sub, longlong_neg and the          *)
(* comparisons do what 2W-bit two's complement does (longlong.c).          *)
THEOREM SumsSafe == Spec => []SumsWrap
  BY InsideInductive, SumsOfSamples, PTL

-----------------------------------------------------------------------------
(* Bits.                                                                   *)

BitPlaces == 0 .. W - 1
Sized == [s \in SUBSET BitPlaces |-> Cardinality(s)]

LEMMA BitPlacesFinite ==
  /\ \A s \in SUBSET BitPlaces : IsFiniteSet(s) /\ Sized[s] = Cardinality(s) /\ Sized[s] \in Nat
  /\ \A s \in SUBSET BitPlaces : \A x \in s :
       /\ x \in Nat /\ s \ {x} \in SUBSET BitPlaces /\ Sized[s \ {x}] < Sized[s]
       /\ 2^x \in Nat
  /\ Sized \in [SUBSET BitPlaces -> Nat]
<1>1. IsFiniteSet(BitPlaces)
  <2>1. 0 \in Int /\ W - 1 \in Int
    BY WAssumption
  <2> QED
    BY <2>1, FS_Interval DEF BitPlaces
<1>2. ASSUME NEW s \in SUBSET BitPlaces
      PROVE  IsFiniteSet(s) /\ Sized[s] = Cardinality(s) /\ Sized[s] \in Nat
  <2>1. IsFiniteSet(s)
    BY <1>1, FS_Subset
  <2>2. Cardinality(s) \in Nat
    BY <2>1, FS_CardinalityType
  <2> QED
    BY <2>1, <2>2 DEF Sized
<1>3. ASSUME NEW s \in SUBSET BitPlaces, NEW x \in s
      PROVE  x \in Nat /\ s \ {x} \in SUBSET BitPlaces /\ Sized[s \ {x}] < Sized[s] /\ 2^x \in Nat
  <2>1. x \in Nat /\ s \ {x} \in SUBSET BitPlaces
    BY DEF BitPlaces
  <2>2. Cardinality(s \ {x}) = Cardinality(s) - 1
    BY <1>2, FS_RemoveElement
  <2>3. Sized[s \ {x}] = Cardinality(s \ {x}) /\ Sized[s] = Cardinality(s) /\ Sized[s] \in Nat
    BY <1>2, <2>1
  <2> QED
    BY <2>1, <2>2, <2>3, PowerDoubles
<1>4. Sized \in [SUBSET BitPlaces -> Nat]
  BY <1>2 DEF Sized
<1> QED
  BY <1>2, <1>3, <1>4

\* The fold that WordOf is, over the subsets of a set of places.
Some(s) == CHOOSE x \in s : TRUE
SumAt(g, s) == IF s = {} THEN 0 ELSE 2^Some(s) + g[s \ {Some(s)}]
Sums(g, top) == g \in [SUBSET top -> Nat] /\ \A s \in SUBSET top : g[s] = SumAt(g, s)

LEMMA SumsExist == \E g : Sums(g, BitPlaces)
<1> DEFINE S == SUBSET BitPlaces
           F == [z \in S \X [S -> Nat] |-> SumAt(z[2], z[1])]
<1>1. \A s \in S, g \in [S -> Nat] : F[<<s, g>>] = SumAt(g, s)
  OBVIOUS
<1>2. \A s \in S : s # {} => Some(s) \in s
  BY DEF Some
<1>3. ASSUME NEW s \in S, NEW g \in [S -> Nat] PROVE SumAt(g, s) \in Nat
  <2>1. CASE s = {}
    BY <2>1 DEF SumAt
  <2>2. CASE s # {}
    <3>1. 2^Some(s) \in Nat /\ s \ {Some(s)} \in S
      BY <1>2, <2>2, BitPlacesFinite
    <3>2. g[s \ {Some(s)}] \in Nat
      BY <3>1
    <3> QED
      BY <2>2, <3>1, <3>2 DEF SumAt
  <2> QED
    BY <2>1, <2>2
<1>4. ASSUME NEW s \in S, NEW g \in [S -> Nat], NEW h \in [S -> Nat],
             \A y \in S : Sized[y] < Sized[s] => g[y] = h[y]
      PROVE  SumAt(g, s) = SumAt(h, s)
  <2>1. CASE s = {}
    BY <2>1 DEF SumAt
  <2>2. CASE s # {}
    <3>1. s \ {Some(s)} \in S /\ Sized[s \ {Some(s)}] < Sized[s]
      BY <1>2, <2>2, BitPlacesFinite
    <3> QED
      BY <1>4, <2>2, <3>1 DEF SumAt
  <2> QED
    BY <2>1, <2>2
<1>5. Sized \in [S -> Nat] /\ Nat # {}
  BY BitPlacesFinite
<1> HIDE DEF F, S
<1>6. Local(F, S, Nat, Sized)
  BY <1>1, <1>4 DEF Local
<1>7. Descends(F, S, Nat, Sized)
  BY <1>1, <1>3, <1>5, <1>6 DEF Descends
<1>8. PICK g : Solves(g, F, S, Nat)
  BY <1>7, Recursion
<1>9. Sums(g, BitPlaces)
  BY <1>1, <1>8 DEF Solves, Sums, S
<1> QED
  BY <1>9

LEMMA SumsOfWord ==
  ASSUME NEW g, Sums(g, BitPlaces), NEW s \in SUBSET BitPlaces
  PROVE  WordOf(s) = g[s]
<1> DEFINE iter == CHOOSE f : f = [t \in SUBSET s |-> SumAt(f, t)]
           h == [t \in SUBSET s |-> g[t]]
<1>1. WordOf(s) = iter[s]
  BY Zenon DEF WordOf, MapThenSumSet, MapThenFoldSet, SumAt, Some
<1>2. \A t \in SUBSET s : t \in SUBSET BitPlaces /\ h[t] = g[t]
  OBVIOUS
<1>3. \A t \in SUBSET s : t # {} => Some(t) \in t /\ t \ {Some(t)} \in SUBSET s
  BY DEF Some
<1>4. h = [t \in SUBSET s |-> SumAt(h, t)]
  <2>1. ASSUME NEW t \in SUBSET s PROVE g[t] = SumAt(h, t)
    <3>1. g[t] = SumAt(g, t)
      BY <1>2 DEF Sums
    <3>2. CASE t = {}
      BY <3>1, <3>2 DEF SumAt
    <3>3. CASE t # {}
      <4>1. h[t \ {Some(t)}] = g[t \ {Some(t)}]
        BY <1>2, <1>3, <3>3
      <4> QED
        BY <3>1, <3>3, <4>1 DEF SumAt
    <3> QED
      BY <3>2, <3>3
  <2> QED
    BY <2>1
<1> HIDE DEF h
<1>5. iter = [t \in SUBSET s |-> SumAt(iter, t)]
  BY <1>4
<1> HIDE DEF iter
<1>6. \A t \in SUBSET s : iter[t] = SumAt(iter, t)
  BY <1>5, Zenon
<1> DEFINE T == {t \in SUBSET BitPlaces : t \subseteq s => iter[t] = g[t]}
<1>7. ASSUME NEW t \in SUBSET BitPlaces,
             \A y \in SUBSET BitPlaces : Sized[y] < Sized[t] => y \in T
      PROVE  t \in T
  <2> SUFFICES ASSUME t \in SUBSET s PROVE iter[t] = g[t]
    OBVIOUS
  <2>1. iter[t] = SumAt(iter, t) /\ g[t] = SumAt(g, t)
    BY <1>6 DEF Sums
  <2>2. CASE t = {}
    BY <2>1, <2>2 DEF SumAt
  <2>3. CASE t # {}
    <3>1. /\ t \ {Some(t)} \in SUBSET s /\ t \ {Some(t)} \in SUBSET BitPlaces
          /\ Sized[t \ {Some(t)}] < Sized[t]
      BY <1>3, <2>3, BitPlacesFinite
    <3>2. iter[t \ {Some(t)}] = g[t \ {Some(t)}]
      BY <1>7, <3>1
    <3> QED
      BY <2>1, <2>3, <3>2 DEF SumAt
  <2> QED
    BY <2>2, <2>3
<1> HIDE DEF T
<1>8. Inherits(T, SUBSET BitPlaces, Sized)
  BY <1>7, BitPlacesFinite DEF Inherits
<1>9. s \in T
  BY <1>8, MeasureInduction
<1> QED
  BY <1>1, <1>9 DEF T

\* Any place may be added last.
LEMMA WordOfTake ==
  /\ WordOf({}) = 0
  /\ \A s \in SUBSET BitPlaces : WordOf(s) \in Nat
  /\ \A s \in SUBSET BitPlaces : \A x \in s : WordOf(s) = 2^x + WordOf(s \ {x})
<1>1. PICK g : Sums(g, BitPlaces)
  BY SumsExist
<1>2. \A s \in SUBSET BitPlaces : WordOf(s) = g[s] /\ g[s] \in Nat /\ g[s] = SumAt(g, s)
  BY <1>1, SumsOfWord DEF Sums
<1>3. WordOf({}) = 0
  BY <1>2 DEF SumAt
<1> DEFINE T == {s \in SUBSET BitPlaces : \A x \in s : g[s] = 2^x + g[s \ {x}]}
<1>4. ASSUME NEW s \in SUBSET BitPlaces,
             \A y \in SUBSET BitPlaces : Sized[y] < Sized[s] => y \in T,
             NEW x \in s
      PROVE  g[s] = 2^x + g[s \ {x}]
  <2> DEFINE y == Some(s)
  <2>1. y \in s
    BY DEF Some
  <2>2. g[s] = 2^y + g[s \ {y}]
    BY <1>2, <2>1 DEF SumAt
  <2> HIDE DEF y
  <2>3. CASE x = y
    BY <2>2, <2>3
  <2>4. CASE x # y
    <3>1. /\ s \ {x} \in SUBSET BitPlaces /\ Sized[s \ {x}] < Sized[s]
          /\ s \ {y} \in SUBSET BitPlaces /\ Sized[s \ {y}] < Sized[s]
          /\ 2^x \in Nat /\ 2^y \in Nat
      BY <2>1, BitPlacesFinite
    <3>2. x \in s \ {y} /\ y \in s \ {x} /\ (s \ {y}) \ {x} = (s \ {x}) \ {y}
      BY <2>1, <2>4
    <3>3. g[s \ {y}] = 2^x + g[(s \ {y}) \ {x}] /\ g[s \ {x}] = 2^y + g[(s \ {x}) \ {y}]
      BY <1>4, <3>1, <3>2
    <3>4. (s \ {y}) \ {x} \in SUBSET BitPlaces
      BY <3>1
    <3>5. g[(s \ {y}) \ {x}] \in Nat
      BY <1>2, <3>4
    <3> QED
      BY <2>2, <3>1, <3>2, <3>3, <3>5
  <2> QED
    BY <2>3, <2>4
<1>5. \A s \in SUBSET BitPlaces :
        (\A y \in SUBSET BitPlaces : Sized[y] < Sized[s] => y \in T) => s \in T
  BY <1>4
<1> HIDE DEF T
<1>6. Inherits(T, SUBSET BitPlaces, Sized)
  BY <1>5, BitPlacesFinite DEF Inherits
<1>7. \A s \in SUBSET BitPlaces : s \in T
  BY <1>6, MeasureInduction
<1>8. ASSUME NEW s \in SUBSET BitPlaces, NEW x \in s PROVE WordOf(s) = 2^x + WordOf(s \ {x})
  <2>1. s \ {x} \in SUBSET BitPlaces
    OBVIOUS
  <2>2. g[s] = 2^x + g[s \ {x}]
    BY <1>7 DEF T
  <2> QED
    BY <1>2, <2>1, <2>2
<1> QED
  BY <1>2, <1>3, <1>8

LEMMA WordOfUnion ==
  ASSUME NEW S \in SUBSET BitPlaces, NEW U \in SUBSET BitPlaces, S \cap U = {}
  PROVE  WordOf(S \cup U) = WordOf(S) + WordOf(U)
<1> DEFINE T == {t \in SUBSET BitPlaces : S \cap t = {} => WordOf(S \cup t) = WordOf(S) + WordOf(t)}
<1>1. ASSUME NEW t \in SUBSET BitPlaces, S \cap t = {},
             \A y \in SUBSET BitPlaces : Sized[y] < Sized[t] => y \in T
      PROVE  WordOf(S \cup t) = WordOf(S) + WordOf(t)
  <2>1. CASE t = {}
    <3>1. S \cup t = S
      BY <2>1
    <3> QED
      BY <2>1, <3>1, WordOfTake
  <2>2. CASE t # {}
    <3>1. PICK x \in t : TRUE
      BY <2>2
    <3>2. t \ {x} \in SUBSET BitPlaces /\ Sized[t \ {x}] < Sized[t] /\ 2^x \in Nat
      BY BitPlacesFinite
    <3>3. WordOf(S \cup (t \ {x})) = WordOf(S) + WordOf(t \ {x})
      <4>1. S \cap (t \ {x}) = {}
        BY <1>1
      <4> QED
        BY <1>1, <3>2, <4>1
    <3>4. S \cup t \in SUBSET BitPlaces /\ x \in S \cup t /\ (S \cup t) \ {x} = S \cup (t \ {x})
      BY <1>1
    <3>5. WordOf(S \cup t) = 2^x + WordOf(S \cup (t \ {x})) /\ WordOf(t) = 2^x + WordOf(t \ {x})
      BY <3>4, WordOfTake
    <3>6. WordOf(S) \in Nat /\ WordOf(t \ {x}) \in Nat
      BY <3>2, WordOfTake
    <3> QED
      BY <3>2, <3>3, <3>5, <3>6
  <2> QED
    BY <2>1, <2>2
<1>2. \A t \in SUBSET BitPlaces :
        (\A y \in SUBSET BitPlaces : Sized[y] < Sized[t] => y \in T) => t \in T
  BY <1>1
<1> HIDE DEF T
<1>3. Inherits(T, SUBSET BitPlaces, Sized)
  BY <1>2, BitPlacesFinite DEF Inherits
<1>4. U \in T
  BY <1>3, MeasureInduction
<1> QED
  BY <1>4 DEF T

\* Places below k make a number below 2^k, places from k on a multiple of it.
LEMMA WordBelow ==
  ASSUME NEW k \in Nat
  PROVE  \A s \in SUBSET BitPlaces : (\A x \in s : x < k) => WordOf(s) \in 0 .. 2^k - 1
<1> DEFINE Low(s, n) == \A x \in s : x < n
           T == {n \in Nat : \A s \in SUBSET BitPlaces : Low(s, n) => WordOf(s) \in 0 .. 2^n - 1}
<1>1. 0 \in T
  <2>1. ASSUME NEW s \in SUBSET BitPlaces, Low(s, 0) PROVE WordOf(s) \in 0 .. 2^0 - 1
    <3>1. s = {}
      BY <2>1 DEF BitPlaces
    <3>2. 2^0 = 1
      OBVIOUS
    <3> QED
      BY <3>1, <3>2, WordOfTake
  <2> QED
    BY <2>1
<1>2. ASSUME NEW n \in Nat, n \in T PROVE n + 1 \in T
  <2>1. PICK p \in Nat : p = 2^n /\ 2^(n + 1) = 2 * p
    BY PowerDoubles
  <2>2. ASSUME NEW s \in SUBSET BitPlaces, Low(s, n + 1) PROVE WordOf(s) \in 0 .. 2^(n + 1) - 1
    <3>1. CASE n \in s
      <4>1. s \ {n} \in SUBSET BitPlaces /\ Low(s \ {n}, n)
        BY <2>2 DEF BitPlaces
      <4>2. WordOf(s \ {n}) \in 0 .. p - 1
        BY <1>2, <2>1, <4>1
      <4>3. WordOf(s) = p + WordOf(s \ {n})
        BY <2>1, <3>1, WordOfTake
      <4> QED
        BY <2>1, <4>2, <4>3
    <3>2. CASE n \notin s
      <4>1. Low(s, n)
        BY <2>2, <3>2 DEF BitPlaces
      <4>2. WordOf(s) \in 0 .. p - 1
        BY <1>2, <2>1, <4>1
      <4> QED
        BY <2>1, <4>2
    <3> QED
      BY <3>1, <3>2
  <2> QED
    BY <2>2
<1> HIDE DEF T
<1>3. k \in T
  BY <1>1, <1>2, Induction
<1> QED
  BY <1>3 DEF T

LEMMA WordFrom ==
  ASSUME NEW k \in Nat, NEW S \in SUBSET BitPlaces, \A x \in S : x >= k
  PROVE  \E q \in Nat : WordOf(S) = q * 2^k
<1> DEFINE T == {t \in SUBSET BitPlaces : t \subseteq S => \E q \in Nat : WordOf(t) = q * 2^k}
<1>1. ASSUME NEW t \in SUBSET BitPlaces, t \subseteq S,
             \A y \in SUBSET BitPlaces : Sized[y] < Sized[t] => y \in T
      PROVE  \E q \in Nat : WordOf(t) = q * 2^k
  <2>0. PICK p \in Nat : p = 2^k
    BY PowerDoubles
  <2>1. CASE t = {}
    <3>1. WordOf(t) = 0 * p
      BY <2>1, WordOfTake
    <3> QED
      BY <2>0, <3>1
  <2>2. CASE t # {}
    <3>1. PICK x \in t : TRUE
      BY <2>2
    <3>2. t \ {x} \in SUBSET BitPlaces /\ Sized[t \ {x}] < Sized[t] /\ x \in Nat /\ x >= k
      BY <1>1, BitPlacesFinite
    <3>3. PICK q \in Nat : WordOf(t \ {x}) = q * p
      <4>1. t \ {x} \in T /\ t \ {x} \subseteq S
        BY <1>1, <3>2
      <4> QED
        BY <2>0, <4>1
    <3>4. PICK r \in Nat : 2^x = r * p
      <4>1. x - k \in Nat /\ (x - k) + k = x
        BY <3>2
      <4>2. 2^x = 2^(x - k) * 2^k /\ 2^(x - k) \in Nat
        BY <4>1, PowersMultiply, PowerDoubles
      <4> QED
        BY <2>0, <4>2
    <3>5. WordOf(t) = r * p + q * p
      BY <3>3, <3>4, WordOfTake
    <3>6. r * p + q * p = (r + q) * p /\ r + q \in Nat
      OBVIOUS
    <3> QED
      BY <2>0, <3>5, <3>6
  <2> QED
    BY <2>1, <2>2
<1>2. \A t \in SUBSET BitPlaces :
        (\A y \in SUBSET BitPlaces : Sized[y] < Sized[t] => y \in T) => t \in T
  BY <1>1
<1> HIDE DEF T
<1>3. Inherits(T, SUBSET BitPlaces, Sized)
  BY <1>2, BitPlacesFinite DEF Inherits
<1>4. S \in T
  BY <1>3, MeasureInduction
<1> QED
  BY <1>4 DEF T

\* Of a multiple of 2^k and a number below it, the bits lie on their sides.
LEMMA OddAt ==
  ASSUME NEW p \in Nat \ {0}, NEW q \in Nat, NEW e \in {0, 1}, NEW r \in 0 .. p - 1
  PROVE  /\ ((q * (2 * p) + e * p + r) \div p) % 2 = e
         /\ (q * (2 * p) + e * p + r) \div p = 2 * q + e
<1>1. PICK v \in Int : v = q * (2 * p) + e * p + r
  OBVIOUS
<1>2. v = (2 * q + e) * p + r /\ 2 * q + e \in Int
  BY <1>1
<1>3. v \div p = 2 * q + e
  BY <1>2, QuotientUnique
<1>4. (2 * q + e) % 2 = e
  <2>1. 2 \in Nat \ {0} /\ e \in 0 .. 2 - 1 /\ 2 * q + e = q * 2 + e /\ 2 * q + e \in Int
    OBVIOUS
  <2> QED
    BY <2>1, QuotientUnique
<1> QED
  BY <1>1, <1>3, <1>4

LEMMA BitsOfWord ==
  ASSUME NEW S \in SUBSET BitPlaces
  PROVE  WordOf(S) \in 0 .. Base - 1 /\ BitsOf(WordOf(S)) = S
<1>1. WordOf(S) \in 0 .. Base - 1
  <2>1. W \in Nat /\ \A x \in S : x < W
    BY WAssumption DEF BitPlaces
  <2> QED
    BY <2>1, WordBelow DEF Base
<1>2. ASSUME NEW n \in BitPlaces
      PROVE  (WordOf(S) \div 2^n) % 2 = IF n \in S THEN 1 ELSE 0
  <2>0. n \in Nat /\ n + 1 \in Nat
    BY DEF BitPlaces
  <2>1. PICK p \in Nat \ {0} : p = 2^n /\ 2^(n + 1) = 2 * p
    BY <2>0, PowerDoubles
  <2> DEFINE low == {x \in S : x < n}
             high == {x \in S : x >= n + 1}
             mid == {x \in S : x = n}
  <2>2. /\ low \in SUBSET BitPlaces /\ high \in SUBSET BitPlaces /\ mid \in SUBSET BitPlaces
        /\ high \cup mid \in SUBSET BitPlaces
        /\ high \cap mid = {} /\ (high \cup mid) \cap low = {}
        /\ \A x \in low : x < n
        /\ \A x \in high : x >= n + 1
        /\ mid = IF n \in S THEN {n} ELSE {}
        /\ S = (high \cup mid) \cup low
    <3>1. \A x \in S : x \in Nat /\ x \in BitPlaces
      BY DEF BitPlaces
    <3>2. low \subseteq S /\ high \subseteq S /\ mid \subseteq S
      OBVIOUS
    <3>3. \A x \in S : ~(x \in high /\ x \in mid) /\ ~(x \in high /\ x \in low) /\ ~(x \in mid /\ x \in low)
      <4>1. \A x \in Nat : ~(x >= n + 1 /\ x = n) /\ ~(x >= n + 1 /\ x < n) /\ ~(x = n /\ x < n)
        BY <2>0
      <4> QED
        BY <3>1, <4>1
    <3>4. mid = IF n \in S THEN {n} ELSE {}
      OBVIOUS
    <3>5. ASSUME NEW x \in S PROVE x \in (high \cup mid) \cup low
      <4>1. x >= n + 1 \/ x = n \/ x < n
        BY <2>0, <3>1
      <4> QED
        BY <4>1
    <3>6. (\A x \in low : x < n) /\ (\A x \in high : x >= n + 1)
      OBVIOUS
    <3> HIDE DEF low, high, mid
    <3>7. S = (high \cup mid) \cup low
      BY <3>2, <3>5
    <3>8. high \cap mid = {} /\ (high \cup mid) \cap low = {}
      BY <3>2, <3>3
    <3> QED
      BY <3>2, <3>4, <3>6, <3>7, <3>8
  <2> HIDE DEF low, high, mid
  <2>4. WordOf(S) = (WordOf(high) + WordOf(mid)) + WordOf(low)
    <3>1. WordOf((high \cup mid) \cup low) = WordOf(high \cup mid) + WordOf(low)
      BY <2>2, WordOfUnion
    <3>2. WordOf(high \cup mid) = WordOf(high) + WordOf(mid)
      BY <2>2, WordOfUnion
    <3> QED
      BY <2>2, <3>1, <3>2
  <2>5. WordOf(low) \in 0 .. p - 1
    BY <2>0, <2>1, <2>2, WordBelow
  <2>6. PICK q \in Nat : WordOf(high) = q * (2 * p)
    <3>1. \E q \in Nat : WordOf(high) = q * 2^(n + 1)
      BY <2>0, <2>2, WordFrom
    <3> QED
      BY <2>1, <3>1
  <2>7. PICK e \in {0, 1} : e = (IF n \in S THEN 1 ELSE 0) /\ WordOf(mid) = e * p
    <3>1. CASE n \in S
      <4>1. mid = {n} /\ mid \ {n} = {} /\ n \in mid
        BY <2>2, <3>1
      <4>2. WordOf(mid) = p + 0
        BY <2>1, <2>2, <4>1, WordOfTake
      <4>3. 1 * p = p + 0
        OBVIOUS
      <4> QED
        BY <3>1, <4>2, <4>3
    <3>2. CASE n \notin S
      <4>1. WordOf(mid) = 0 * p
        BY <2>2, <3>2, WordOfTake
      <4> QED
        BY <3>2, <4>1
    <3> QED
      BY <3>1, <3>2
  <2>8. PICK r \in 0 .. p - 1 : r = WordOf(low)
    BY <2>5
  <2>9. WordOf(S) = q * (2 * p) + e * p + r
    BY <2>4, <2>6, <2>7, <2>8
  <2>10. ((q * (2 * p) + e * p + r) \div p) % 2 = e
    BY OddAt
  <2> QED
    BY <2>1, <2>7, <2>9, <2>10
<1>3. \A n \in BitPlaces : n \in BitsOf(WordOf(S)) <=> n \in S
  BY <1>2 DEF BitsOf, BitPlaces
<1>4. BitsOf(WordOf(S)) \subseteq BitPlaces
  BY DEF BitsOf, BitPlaces
<1> QED
  BY <1>1, <1>3, <1>4

\* A word is made of its bits.
LEMMA WordOfBits ==
  ASSUME NEW w \in 0 .. Base - 1
  PROVE  BitsOf(w) \in SUBSET BitPlaces /\ WordOf(BitsOf(w)) = w
<1>1. BitsOf(w) \in SUBSET BitPlaces
  BY DEF BitsOf, BitPlaces
<1> DEFINE Low(n) == {x \in BitsOf(w) : x < n}
           T == {n \in Nat : n <= W => WordOf(Low(n)) = w % 2^n}
<1>2. 0 \in T
  <2>1. Low(0) = {}
    BY <1>1 DEF BitPlaces
  <2>2. 2^0 = 1 /\ w % 1 = 0
    OBVIOUS
  <2> QED
    BY <2>1, <2>2, WordOfTake
<1>3. ASSUME NEW n \in Nat, n \in T PROVE n + 1 \in T
  <2> SUFFICES ASSUME n + 1 <= W PROVE WordOf(Low(n + 1)) = w % 2^(n + 1)
    OBVIOUS
  <2>1. PICK p \in Nat \ {0} : p = 2^n /\ 2^(n + 1) = 2 * p
    BY PowerDoubles
  <2>2. n \in BitPlaces /\ n <= W
    BY WAssumption DEF BitPlaces
  <2>3. WordOf(Low(n)) = w % p
    BY <1>3, <2>1, <2>2
  <2>4. PICK q \in Nat, r \in 0 .. p - 1 : w = q * p + r /\ w % p = r /\ w \div p = q
    <3>0. w \in Nat
      OBVIOUS
    <3>1. (w \div p) \in Nat /\ (w % p) \in 0 .. p - 1 /\ w = (w \div p) * p + (w % p)
      BY <3>0, Division
    <3> QED
      BY <3>1
  <2>5. PICK h \in Nat, e \in {0, 1} : q = 2 * h + e /\ q % 2 = e
    <3>1. (q \div 2) \in Nat /\ (q % 2) \in {0, 1} /\ q = 2 * (q \div 2) + (q % 2)
      OBVIOUS
    <3> QED
      BY <3>1
  <2>6. n \in BitsOf(w) <=> e = 1
    BY <2>1, <2>2, <2>4, <2>5 DEF BitsOf, BitPlaces
  <2>7. w % (2 * p) = e * p + r
    <3>1. q * p = h * (2 * p) + e * p
      BY <2>5
    <3>2. e * p + r \in 0 .. 2 * p - 1
      OBVIOUS
    <3>3. w = h * (2 * p) + (e * p + r) /\ w \in Int
      BY <2>4, <3>1
    <3>4. PICK pp \in Nat \ {0}, rr \in Nat : pp = 2 * p /\ rr = e * p + r /\ rr \in 0 .. pp - 1
      BY <3>2
    <3>5. w % pp = rr
      <4>1. w = h * pp + rr
        BY <3>3, <3>4
      <4>2. pp \in Nat \ {0} /\ w \in Int /\ h \in Int /\ rr \in 0 .. pp - 1
        BY <3>3, <3>4
      <4> HIDE <2>4, <2>5
      <4> QED
        BY <4>1, <4>2, QuotientUnique
    <3> QED
      BY <3>4, <3>5
  <2>8. CASE e = 1
    <3>1. /\ Low(n + 1) \in SUBSET BitPlaces /\ n \in Low(n + 1)
          /\ Low(n + 1) \ {n} = Low(n)
      BY <1>1, <2>6, <2>8 DEF BitPlaces
    <3>2. WordOf(Low(n + 1)) = p + WordOf(Low(n))
      <4> HIDE DEF Low
      <4> QED
        BY <2>1, <3>1, WordOfTake
    <3> QED
      BY <2>1, <2>3, <2>4, <2>7, <2>8, <3>2
  <2>9. CASE e = 0
    <3>1. Low(n + 1) = Low(n)
      BY <1>1, <2>6, <2>9 DEF BitPlaces
    <3>2. e * p + r = r
      BY <2>9
    <3> HIDE DEF Low
    <3> QED
      BY <2>1, <2>3, <2>4, <2>7, <3>1, <3>2
  <2> QED
    BY <2>8, <2>9
<1> HIDE DEF T
<1>4. W \in T
  BY <1>2, <1>3, Induction, WAssumption
<1>5. Low(W) = BitsOf(w)
  BY <1>1, WAssumption DEF BitPlaces
<1>6. w % Base = w
  BY WordWraps, Widths
<1> QED
  BY <1>1, <1>4, <1>5, <1>6, WAssumption DEF T, Base

\* A number that ends where the other begins is or-ed to it by addition.
LEMMA OrAdds ==
  ASSUME NEW k \in 0 .. W, NEW q \in Nat, NEW v \in 0 .. Base - 1, v = q * 2^k, NEW w \in 0 .. 2^k - 1
  PROVE  w \in 0 .. Base - 1 /\ OrWord(v, w) = v + w /\ v + w \in 0 .. Base - 1
<1>0. k \in Nat /\ W \in Nat
  BY WAssumption
<1>1. PICK p \in Nat \ {0} : p = 2^k /\ p <= Base
  BY <1>0, PowerDoubles, PowersGrow DEF Base
<1>2. w \in 0 .. Base - 1
  BY <1>1, Widths
<1>3. ASSUME NEW x \in BitPlaces, x >= k PROVE x \notin BitsOf(w)
  <2>1. x \in Nat
    BY DEF BitPlaces
  <2>2. PICK e \in Nat \ {0} : e = 2^x /\ p <= e
    BY <1>0, <1>1, <1>3, <2>1, PowersGrow, PowerDoubles
  <2>3. w \div e = 0
    <3>1. w \in 0 .. e - 1 /\ w = 0 * e + w /\ w \in Int
      BY <1>1, <2>2
    <3> QED
      BY <3>1, QuotientUnique
  <2> QED
    BY <2>2, <2>3 DEF BitsOf
<1>4. ASSUME NEW x \in BitPlaces, x < k PROVE x \notin BitsOf(v)
  <2>1. PICK c \in Nat : (c + 1) + x = k /\ c + 1 \in Nat /\ x \in Nat
    <3>1. x \in Nat /\ k - (x + 1) \in Nat /\ ((k - (x + 1)) + 1) + x = k
      BY <1>0, <1>4 DEF BitPlaces
    <3> QED
      BY <3>1
  <2>2. PICK e \in Nat \ {0} : e = 2^x
    BY <2>1, PowerDoubles
  <2>3. PICK d \in Nat : d = 2^c /\ 2^(c + 1) = 2 * d
    BY <2>1, PowerDoubles
  <2>4. p = (2 * d) * e
    <3>1. 2^((c + 1) + x) = 2^(c + 1) * 2^x
      BY <2>1, PowersMultiply
    <3> QED
      BY <1>1, <2>1, <2>2, <2>3, <3>1
  <2>5. PICK qd \in Nat : qd = q * d
    OBVIOUS
  <2>6. v = (2 * qd) * e + 0
    <3>1. q * ((2 * d) * e) = (2 * (q * d)) * e
      OBVIOUS
    <3> QED
      BY <1>1, <2>4, <2>5, <3>1
  <2>7. v \div e = 2 * qd
    <3>1. 2 * qd \in Int /\ 0 \in 0 .. e - 1 /\ v \in Int
      OBVIOUS
    <3> QED
      BY <2>6, <3>1, QuotientUnique
  <2>8. (2 * qd) % 2 = 0
    OBVIOUS
  <2> QED
    BY <2>2, <2>7, <2>8 DEF BitsOf
<1>5. BitsOf(v) \in SUBSET BitPlaces /\ BitsOf(w) \in SUBSET BitPlaces
  BY <1>2, WordOfBits
<1>6. BitsOf(v) \cap BitsOf(w) = {}
  <2>1. \A x \in BitPlaces : x >= k \/ x < k
    BY <1>0 DEF BitPlaces
  <2> QED
    BY <1>3, <1>4, <1>5, <2>1
<1>7. WordOf(BitsOf(v) \cup BitsOf(w)) = v + w
  BY <1>2, <1>5, <1>6, WordOfUnion, WordOfBits
<1>8. WordOf(BitsOf(v) \cup BitsOf(w)) \in 0 .. Base - 1
  BY <1>5, BitsOfWord
<1> QED
  BY <1>2, <1>7, <1>8 DEF OrWord

\* The arithmetic of a shift to the right across two words.
AcrossRight(P, Q, B, h, k, l) ==
  \E q \in Int, r \in 0 .. P - 1, m \in 0 .. Q - 1 :
     /\ h = q * P + r /\ h \div P = q
     /\ l \div P = m
     /\ ((h + k * B) * Q) % B = r * Q
     /\ r * Q \in 0 .. B - 1
     /\ (h * B + l) \div P = q * B + (r * Q + m)

LEMMA ShiftedRight ==
  ASSUME NEW P \in Nat \ {0}, NEW Q \in Nat \ {0}, NEW B \in Nat \ {0}, B = P * Q,
         NEW h \in Int, NEW k \in Int, NEW l \in 0 .. B - 1
  PROVE  AcrossRight(P, Q, B, h, k, l)
<1>1. PICK q \in Int, r \in 0 .. P - 1 : h = q * P + r /\ h \div P = q
  <2>1. (h \div P) \in Int /\ (h % P) \in 0 .. P - 1 /\ h = (h \div P) * P + (h % P)
    OBVIOUS
  <2> QED
    BY <2>1
<1>2. PICK m \in Nat, s \in 0 .. P - 1 : l = m * P + s /\ l \div P = m
  <2>1. l \in Nat
    OBVIOUS
  <2>2. (l \div P) \in Nat /\ (l % P) \in 0 .. P - 1 /\ l = (l \div P) * P + (l % P)
    BY <2>1, Division
  <2> QED
    BY <2>2
<1>3. m \in 0 .. Q - 1
  <2>1. ASSUME m >= Q PROVE FALSE
    <3>1. m * P >= Q * P
      BY <2>1
    <3>2. Q * P = B
      OBVIOUS
    <3> QED
      BY <1>2, <3>1, <3>2
  <2> QED
    BY <2>1
<1>4. r * Q \in 0 .. B - 1
  <2>1. (r + 1) * Q <= P * Q
    OBVIOUS
  <2>2. (r + 1) * Q = r * Q + Q /\ r * Q >= 0
    OBVIOUS
  <2>3. PICK rq \in Int : rq = r * Q
    OBVIOUS
  <2> QED
    BY <2>1, <2>2, <2>3
<1>5. ((h + k * B) * Q) % B = r * Q
  <2>1. (h + k * B) * Q = (q + k * Q) * B + r * Q
    <3>1. (q * P + r + k * B) * Q = q * (P * Q) + r * Q + (k * B) * Q
      OBVIOUS
    <3>2. (k * B) * Q = (k * Q) * B /\ q * B + (k * Q) * B = (q + k * Q) * B
      OBVIOUS
    <3> QED
      BY <1>1, <3>1, <3>2
  <2>2. PICK v \in Int, c \in Int, rq \in 0 .. B - 1 : v = (h + k * B) * Q /\ c = q + k * Q /\ rq = r * Q
    BY <1>4
  <2>3. v = c * B + rq
    BY <2>1, <2>2
  <2>4. v % B = rq
    BY <2>3, QuotientUnique
  <2> QED
    BY <2>2, <2>4
<1>6. (h * B + l) \div P = q * B + (r * Q + m)
  <2>1. h * B + l = (q * B + (r * Q + m)) * P + s
    <3>1. (q * P + r) * B = (q * B) * P + (r * Q) * P
      <4>1. (q * P + r) * B = (q * P) * B + r * B
        OBVIOUS
      <4>2. (q * P) * B = (q * B) * P /\ r * (P * Q) = (r * Q) * P
        OBVIOUS
      <4> QED
        BY <4>1, <4>2
    <3>2. (q * B + (r * Q + m)) * P = (q * B) * P + (r * Q) * P + m * P
      OBVIOUS
    <3>3. h * B = (q * B) * P + (r * Q) * P
      BY <1>1, <3>1
    <3> QED
      BY <1>2, <3>2, <3>3
  <2>2. PICK v \in Int, c \in Int : v = h * B + l /\ c = q * B + (r * Q + m)
    OBVIOUS
  <2>3. v = c * P + s
    BY <2>1, <2>2
  <2>4. v \div P = c
    BY <2>3, QuotientUnique
  <2> QED
    BY <2>2, <2>4
<1> QED
  BY <1>1, <1>2, <1>3, <1>4, <1>5, <1>6 DEF AcrossRight

\* The powers of two on both sides of a word.
LEMMA PowersInWord ==
  ASSUME NEW n \in 0 .. W
  PROVE  /\ 2^n \in Nat \ {0} /\ 2^(W - n) \in Nat \ {0} /\ Base = 2^n * 2^(W - n)
         /\ n \in Nat /\ W - n \in 0 .. W
<1>1. PICK c \in Nat : c = W - n /\ n + c = W /\ c \in 0 .. W /\ n \in Nat
  BY WAssumption
<1>2. 2^(n + c) = 2^n * 2^c /\ 2^n \in Nat \ {0} /\ 2^c \in Nat \ {0}
  BY <1>1, PowersMultiply, PowerDoubles
<1> QED
  BY <1>1, <1>2 DEF Base

\* The half words of a shift to the right by less than a word, of a value whose
\* upper half reads as h.
LEMMA ShiftRightWords ==
  ASSUME NEW x \in LongLongs, NEW n \in 0 .. W, NEW h \in Int, NEW k \in {0, 1}, x.hi = h + k * Base
  PROVE  LET lo == OrWord(ShrWord(x.lo, n), ShlWord(x.hi, W - n))
         IN  /\ lo \in 0 .. Base - 1
             /\ (h * Base + x.lo) \div 2^n = (h \div 2^n) * Base + lo
<1>1. PICK B \in Nat \ {0}, P \in Nat \ {0}, Q \in Nat \ {0} :
           B = Base /\ P = 2^n /\ Q = 2^(W - n) /\ B = P * Q
  <2>1. Base = 2^n * 2^(W - n) /\ Base \in Nat \ {0} /\ 2^n \in Nat \ {0} /\ 2^(W - n) \in Nat \ {0}
    BY PowersInWord, Widths
  <2> QED
    BY <2>1, Zenon
<1>2. PICK l \in 0 .. B - 1 : l = x.lo
  BY <1>1, Values
<1>3. PICK q \in Int, r \in 0 .. P - 1, m \in 0 .. Q - 1 :
            /\ h = q * P + r /\ h \div P = q
            /\ l \div P = m
            /\ ((h + k * B) * Q) % B = r * Q
            /\ r * Q \in 0 .. B - 1
            /\ (h * B + l) \div P = q * B + (r * Q + m)
  <2>1. k \in Int
    OBVIOUS
  <2>2. B = P * Q
    BY <1>1
  <2>3. AcrossRight(P, Q, B, h, k, l)
    BY <2>1, <2>2, ShiftedRight
  <2> QED
    BY <2>3 DEF AcrossRight
<1>4. PICK v \in 0 .. B - 1 : v = r * Q
  BY <1>3
<1>5. ShrWord(x.lo, n) = m /\ ShlWord(x.hi, W - n) = v
  BY <1>1, <1>2, <1>3, <1>4 DEF ShrWord, ShlWord
<1>6. OrWord(v, m) = v + m /\ v + m \in 0 .. Base - 1
  <2>1. W - n \in 0 .. W /\ r \in Nat /\ v \in 0 .. Base - 1 /\ v = r * 2^(W - n) /\ m \in 0 .. 2^(W - n) - 1
    BY <1>1, <1>4, PowersInWord
  <2> QED
    BY <2>1, OrAdds
<1>7. OrWord(m, v) = OrWord(v, m)
  <2>1. BitsOf(m) \cup BitsOf(v) = BitsOf(v) \cup BitsOf(m)
    OBVIOUS
  <2> QED
    BY <2>1 DEF OrWord
<1>8. (h * B + l) \div P = q * B + (v + m)
  BY <1>3, <1>4
<1> QED
  BY <1>1, <1>2, <1>3, <1>5, <1>6, <1>7, <1>8

\* A shift by a word or more looks at one word only.
LEMMA UpperWord ==
  ASSUME NEW D \in Nat \ {0}, NEW B \in Nat \ {0}, NEW h \in Int, NEW l \in 0 .. B - 1
  PROVE  (h * B + l) \div (D * B) = h \div D
<1>1. PICK q \in Int, r \in 0 .. D - 1 : h = q * D + r /\ h \div D = q
  <2>1. (h \div D) \in Int /\ (h % D) \in 0 .. D - 1 /\ h = (h \div D) * D + (h % D)
    OBVIOUS
  <2> QED
    BY <2>1
<1>2. PICK m \in Nat \ {0}, v \in Int, s \in Int : m = D * B /\ v = h * B + l /\ s = r * B + l
  OBVIOUS
<1>3. v = q * m + s
  <2>1. (q * D + r) * B = q * (D * B) + r * B
    OBVIOUS
  <2> QED
    BY <1>1, <1>2, <2>1
<1>4. s \in 0 .. m - 1
  <2>1. r * B >= 0 /\ (r + 1) * B <= D * B /\ (r + 1) * B = r * B + B
    OBVIOUS
  <2>2. PICK rb \in Int : rb = r * B
    OBVIOUS
  <2> QED
    BY <1>2, <2>1, <2>2
<1>5. v \div m = q
  BY <1>3, <1>4, QuotientUnique
<1> QED
  BY <1>1, <1>2, <1>5

\* The powers of two of a shift by a word or more.
LEMMA PowersBeyondWord ==
  ASSUME NEW n \in W .. 2 * W - 1
  PROVE  n - W \in 0 .. W - 1 /\ 2^(n - W) \in Nat \ {0} /\ 2^n = 2^(n - W) * Base
<1>1. PICK d \in 0 .. W - 1 : d = n - W /\ d + W = n /\ d \in Nat /\ W \in Nat
  BY WAssumption
<1>2. 2^(d + W) = 2^d * 2^W /\ 2^d \in Nat \ {0}
  BY <1>1, PowersMultiply, PowerDoubles
<1> QED
  BY <1>1, <1>2 DEF Base

LEMMA QuotientStays ==
  ASSUME NEW P \in Nat \ {0}, NEW S \in Nat, NEW h \in -S .. S
  PROVE  /\ (h \div P) \in -S .. S
         /\ (h \div P) <= h \/ h < 0
         /\ h >= 0 <=> (h \div P) >= 0
         /\ h \in -S .. S - 1 => (h \div P) \in -S .. S - 1
         /\ (h \div 1) = h
<1>1. PICK q \in Int, r \in 0 .. P - 1 : h = q * P + r /\ h \div P = q
  <2>1. (h \div P) \in Int /\ (h % P) \in 0 .. P - 1 /\ h = (h \div P) * P + (h % P)
    OBVIOUS
  <2> QED
    BY <2>1
<1>2. CASE q >= 0
  <2>1. q * P >= q * 1
    BY <1>2
  <2>2. PICK qp \in Int : qp = q * P
    OBVIOUS
  <2>3. h >= q
    BY <1>1, <2>1, <2>2
  <2>4. h \div 1 = h
    OBVIOUS
  <2> QED
    BY <1>1, <1>2, <2>3, <2>4
<1>3. CASE q < 0
  <2>1. q * P <= -P /\ q * P + P <= q + 1
    <3>1. q * P <= (-1) * P
      BY <1>3
    <3>2. (q + 1) * P <= (q + 1) * 1
      BY <1>3
    <3> QED
      BY <3>1, <3>2
  <2>2. PICK qp \in Int : qp = q * P
    OBVIOUS
  <2>3. h < 0 /\ h <= q
    BY <1>1, <2>1, <2>2
  <2>4. h \div 1 = h
    OBVIOUS
  <2> QED
    BY <1>1, <1>3, <2>3, <2>4
<1> QED
  BY <1>2, <1>3

LEMMA ShrScales ==
  ASSUME NEW x \in LongLongs, NEW n \in 0 .. 2 * W - 1
  PROVE  Shr(x, n) \in LongLongs /\ Unsigned(Shr(x, n)) = Unsigned(x) \div 2^n
<1>0. n \in Int /\ W \in Nat \ {0}
  BY WAssumption
<1>1. PICK B \in Nat \ {0} : B = Base
  BY Widths
<1>2. PICK h \in 0 .. B - 1, l \in 0 .. B - 1 : x = [hi |-> h, lo |-> l] /\ x.hi = h /\ x.lo = l
  BY <1>1 DEF LongLongs
<1>3. PICK u \in Nat : u = h * B + l /\ u = Unsigned(x)
  BY <1>1, <1>2 DEF Unsigned
<1>4. \A P \in Nat \ {0} : h \div P \in 0 .. B - 1
  <2>1. ASSUME NEW P \in Nat \ {0} PROVE h \div P \in 0 .. B - 1
    <3>1. PICK top \in Nat : top = B - 1
      OBVIOUS
    <3>2. h \in -top .. top /\ h >= 0
      BY <3>1
    <3>3. (h \div P) \in -top .. top /\ (h \div P) >= 0
      BY <3>2, QuotientStays
    <3> QED
      BY <3>1, <3>3
  <2> QED
    BY <2>1
<1>5. CASE n = 0
  <2>1. Shr(x, n) = x /\ 2^n = 1
    <3>1. 2^0 = 1
      OBVIOUS
    <3>2. Shr(x, n) = x
      BY <1>0, <1>5 DEF Shr
    <3> QED
      BY <1>5, <3>1, <3>2
  <2>2. u \div 1 = u
    OBVIOUS
  <2> QED
    BY <1>3, <2>1, <2>2
<1>6. CASE n \in 1 .. W - 1
  <2>1. Shr(x, n) = [hi |-> ShrWord(x.hi, n), lo |-> OrWord(ShrWord(x.lo, n), ShlWord(x.hi, W - n))]
    BY <1>0, <1>6 DEF Shr
  <2>2. PICK lo \in 0 .. B - 1 : /\ lo = OrWord(ShrWord(x.lo, n), ShlWord(x.hi, W - n))
                                /\ (h * B + l) \div 2^n = (h \div 2^n) * B + lo
    <3>1. n \in 0 .. W /\ 0 \in {0, 1} /\ h \in Int /\ h = h + 0 * Base
      BY <1>0, <1>1, <1>6
    <3> QED
      BY <1>1, <1>2, <3>1, ShiftRightWords
  <2>3. PICK P \in Nat \ {0} : P = 2^n
    BY <1>0, <1>6, PowerDoubles
  <2>4. ShrWord(x.hi, n) = h \div P
    BY <1>2, <2>3 DEF ShrWord
  <2>5. PICK g \in 0 .. B - 1 : g = h \div P
    BY <1>4
  <2>6. Shr(x, n) = [hi |-> g, lo |-> lo] /\ u \div 2^n = g * B + lo
    BY <1>3, <2>1, <2>2, <2>3, <2>4, <2>5
  <2> QED
    BY <1>1, <1>3, <2>6 DEF LongLongs, Unsigned
<1>7. CASE n \in W .. 2 * W - 1
  <2>1. Shr(x, n) = [hi |-> 0, lo |-> ShrWord(x.hi, n - W)]
    BY <1>0, <1>7 DEF Shr
  <2>2. PICK D \in Nat \ {0} : D = 2^(n - W) /\ 2^n = D * B
    BY <1>1, <1>7, PowersBeyondWord
  <2>3. u \div (D * B) = h \div D
    BY <1>3, UpperWord
  <2>4. PICK g \in 0 .. B - 1 : g = h \div D
    BY <1>4
  <2>5. Shr(x, n) = [hi |-> 0, lo |-> g]
    BY <1>2, <2>1, <2>2, <2>4 DEF ShrWord
  <2>6. 0 * B + g = g
    OBVIOUS
  <2> QED
    BY <1>1, <1>3, <2>2, <2>3, <2>4, <2>5, <2>6 DEF LongLongs, Unsigned
<1> QED
  BY <1>0, <1>5, <1>6, <1>7

\* The upper half of a value as a long: what its arithmetic shift divides.
LEMMA SignedHalf ==
  ASSUME NEW x \in LongLongs
  PROVE  \E h \in -SignBit .. SignBit - 1, k \in {0, 1} :
            /\ AsLong(x.hi) = h /\ x.hi = h + k * Base
            /\ Value(x) = h * Base + x.lo
            /\ IsNegative(x) <=> h < 0
<1>1. PICK B \in Nat \ {0}, S \in Nat \ {0} : B = Base /\ S = SignBit /\ B = 2 * S
  BY Widths
<1>2. PICK g \in 0 .. B - 1, l \in 0 .. B - 1 : x = [hi |-> g, lo |-> l] /\ x.hi = g /\ x.lo = l
  BY <1>1 DEF LongLongs
<1>3. CASE g >= S
  <2>1. PICK h \in -S .. S - 1 : h = g - B /\ h < 0
    BY <1>1, <1>3
  <2>2. g * B + l - B * B = h * B + l
    BY <2>1
  <2>3. Value(x) = h * B + l /\ AsLong(x.hi) = h /\ IsNegative(x)
    BY <1>1, <1>2, <1>3, <2>1, <2>2 DEF Value, Unsigned, IsNegative, AsLong
  <2>4. g = h + 1 * B
    BY <2>1
  <2> QED
    BY <1>1, <1>2, <2>1, <2>3, <2>4
<1>4. CASE g < S
  <2>1. Value(x) = g * B + l /\ AsLong(x.hi) = g /\ ~IsNegative(x)
    BY <1>1, <1>2, <1>4 DEF Value, Unsigned, IsNegative, AsLong
  <2>2. g = g + 0 * B /\ g \in -S .. S - 1 /\ ~(g < 0)
    BY <1>1, <1>4
  <2> QED
    BY <1>1, <1>2, <2>1, <2>2
<1> QED
  BY <1>3, <1>4

\* And a value is found by its halves.
LEMMA ValueOfHalves ==
  ASSUME NEW h \in -SignBit .. SignBit - 1, NEW l \in 0 .. Base - 1
  PROVE  /\ [hi |-> h % Base, lo |-> l] \in LongLongs
         /\ Value([hi |-> h % Base, lo |-> l]) = h * Base + l
         /\ h % Base = IF h < 0 THEN h + Base ELSE h
<1>1. PICK B \in Nat \ {0}, S \in Nat \ {0} : B = Base /\ S = SignBit /\ B = 2 * S
  BY Widths
<1>2. PICK g \in 0 .. B - 1 : g = h % B /\ g = (IF h < 0 THEN h + B ELSE h)
  <2>1. CASE h < 0
    <3>1. h \in -B .. -1 /\ h \in Int
      BY <1>1, <2>1
    <3>2. h % B = h + B
      BY <3>1, WordWraps
    <3> QED
      BY <2>1, <3>1, <3>2
  <2>2. CASE h >= 0
    <3>1. h \in 0 .. B - 1 /\ h \in Int
      BY <1>1, <2>2
    <3>2. h % B = h
      BY <3>1, WordWraps
    <3> QED
      BY <2>2, <3>1, <3>2
  <2> QED
    BY <1>1, <2>1, <2>2
<1>3. (h + B) * B + l - B * B = h * B + l
  BY <1>1
<1>4. Value([hi |-> g, lo |-> l]) = IF g >= S THEN g * B + l - B * B ELSE g * B + l
  BY <1>1, <1>2 DEF Value, Unsigned, IsNegative
<1>5. Value([hi |-> g, lo |-> l]) = h * B + l
  BY <1>1, <1>2, <1>3, <1>4
<1> QED
  BY <1>1, <1>2, <1>5 DEF LongLongs

LEMMA SarScales ==
  ASSUME NEW x \in LongLongs, NEW n \in 0 .. 2 * W - 1
  PROVE  Value(Sar(x, n)) = Value(x) \div 2^n
<1>0. n \in Int /\ W \in Nat \ {0}
  BY WAssumption
<1>1. PICK B \in Nat \ {0}, S \in Nat \ {0} : B = Base /\ S = SignBit /\ B = 2 * S
  BY Widths
<1>2. PICK l \in 0 .. B - 1 : x.lo = l
  BY <1>1, Values
<1>3. PICK h \in -S .. S - 1, k \in {0, 1} :
            /\ AsLong(x.hi) = h /\ x.hi = h + k * B
            /\ Value(x) = h * B + l
            /\ IsNegative(x) <=> h < 0
  BY <1>1, <1>2, SignedHalf
<1>4. \A P \in Nat \ {0} : (h \div P) \in -S .. S - 1 /\ (h >= 0 <=> (h \div P) >= 0)
  <2>1. ASSUME NEW P \in Nat \ {0} PROVE (h \div P) \in -S .. S - 1 /\ (h >= 0 <=> (h \div P) >= 0)
    <3>1. h \in -S .. S /\ S \in Nat
      OBVIOUS
    <3> QED
      BY <3>1, QuotientStays
  <2> QED
    BY <2>1
<1>5. CASE n = 0
  <2>1. Sar(x, n) = x /\ 2^n = 1
    <3>1. 2^0 = 1
      OBVIOUS
    <3>2. Sar(x, n) = x
      BY <1>0, <1>5 DEF Sar
    <3> QED
      BY <1>5, <3>1, <3>2
  <2>2. PICK v \in Int : v = h * B + l
    OBVIOUS
  <2>3. v \div 1 = v
    OBVIOUS
  <2> QED
    BY <1>3, <2>1, <2>2, <2>3
<1>6. CASE n \in 1 .. W - 1
  <2>1. Sar(x, n) = [hi |-> SarWord(x.hi, n), lo |-> OrWord(ShrWord(x.lo, n), ShlWord(x.hi, W - n))]
    BY <1>0, <1>6 DEF Sar
  <2>2. PICK lo \in 0 .. B - 1 : /\ lo = OrWord(ShrWord(x.lo, n), ShlWord(x.hi, W - n))
                                /\ (h * B + l) \div 2^n = (h \div 2^n) * B + lo
    <3>1. n \in 0 .. W /\ h \in Int
      BY <1>0, <1>6
    <3> QED
      BY <1>1, <1>2, <1>3, <3>1, ShiftRightWords, ZenonT(40)
  <2>3. PICK P \in Nat \ {0} : P = 2^n
    BY <1>0, <1>6, PowerDoubles
  <2>4. PICK g \in -S .. S - 1 : g = h \div P
    BY <1>4
  <2>5. SarWord(x.hi, n) = g % B
    BY <1>1, <1>3, <2>3, <2>4 DEF SarWord
  <2>6. Sar(x, n) = [hi |-> g % B, lo |-> lo] /\ (h * B + l) \div 2^n = g * B + lo
    BY <2>1, <2>2, <2>3, <2>4, <2>5
  <2>7. Value([hi |-> g % B, lo |-> lo]) = g * B + lo
    BY <1>1, ValueOfHalves
  <2> QED
    BY <1>3, <2>6, <2>7
<1>7. CASE n \in W .. 2 * W - 1
  <2>1. Sar(x, n) = [hi |-> IF IsNegative(x) THEN B - 1 ELSE 0, lo |-> SarWord(x.hi, n - W)]
    BY <1>0, <1>1, <1>7 DEF Sar
  <2>2. PICK D \in Nat \ {0} : D = 2^(n - W) /\ 2^n = D * B
    BY <1>1, <1>7, PowersBeyondWord
  <2>3. (h * B + l) \div (D * B) = h \div D
    <3>1. h \in Int
      OBVIOUS
    <3> QED
      BY <3>1, UpperWord
  <2>4. PICK g \in -S .. S - 1 : g = h \div D /\ (h >= 0 <=> g >= 0)
    BY <1>4
  <2>5. SarWord(x.hi, n - W) = g % B
    BY <1>1, <1>3, <2>2, <2>4 DEF SarWord
  <2>6. PICK f \in -S .. S - 1, gl \in 0 .. B - 1 :
            /\ f = (IF h < 0 THEN -1 ELSE 0) /\ gl = (IF h < 0 THEN g + B ELSE g)
            /\ g % B = gl /\ f % B = (IF h < 0 THEN B - 1 ELSE 0)
    <3>1. g % B = IF g < 0 THEN g + B ELSE g
      <4>1. 0 \in 0 .. Base - 1
        BY <1>1
      <4> QED
        BY <1>1, <4>1, ValueOfHalves
    <3>2. (-1) % B = B - 1 /\ 0 % B = 0
      <4>1. -1 \in -B .. -1 /\ -1 \in Int /\ 0 \in 0 .. B - 1
        OBVIOUS
      <4>2. (-1) % B = (-1) + B
        BY <4>1, WordWraps
      <4>3. 0 % B = 0
        BY <4>1, WordWraps
      <4> QED
        BY <4>2, <4>3
    <3>3. CASE h < 0
      BY <1>1, <2>4, <3>1, <3>2, <3>3
    <3>4. CASE h >= 0
      BY <1>1, <2>4, <3>1, <3>2, <3>4
    <3> QED
      BY <3>3, <3>4
  <2>7. Value([hi |-> f % B, lo |-> gl]) = f * B + gl
    BY <1>1, ValueOfHalves
  <2>8. f * B + gl = g
    BY <2>6
  <2>9. Sar(x, n) = [hi |-> f % B, lo |-> gl]
    BY <1>3, <2>1, <2>5, <2>6
  <2> QED
    BY <1>3, <2>2, <2>3, <2>4, <2>7, <2>8, <2>9
<1> QED
  BY <1>0, <1>5, <1>6, <1>7

\* A shift to the left multiplies, and drops what leaves the upper word.
ShlHi(x, n) == IF n >= W THEN (x.lo * 2^(n - W)) % Base
               ELSE ((x.hi * 2^n) + (x.lo \div 2^(W - n))) % Base
ShlLo(x, n) == IF n >= W THEN 0 ELSE (x.lo * 2^n) % Base
Dropped(x, n, y) == \E q \in Nat : Unsigned(x) * 2^n = q * (Base * Base) + Unsigned(y)

LEMMA ShlScales ==
  ASSUME NEW x \in LongLongs, NEW n \in 0 .. 2 * W - 1
  PROVE  /\ Shl(x, n) \in LongLongs
         /\ Shl(x, n) = [hi |-> ShlHi(x, n), lo |-> ShlLo(x, n)]
         /\ Dropped(x, n, Shl(x, n))
<1>0. n \in Int /\ W \in Nat \ {0}
  BY WAssumption
<1>1. PICK B \in Nat \ {0} : B = Base
  BY Widths
<1>2. PICK h \in 0 .. B - 1, l \in 0 .. B - 1 : x = [hi |-> h, lo |-> l] /\ x.hi = h /\ x.lo = l
  BY <1>1 DEF LongLongs
<1>3. PICK sq \in Nat : sq = B * B
  OBVIOUS
<1>5. CASE n < W
  <2>0. n \in 0 .. W /\ n \in Nat /\ W - n \in 0 .. W
    BY <1>0, <1>5
  <2>1. PICK P \in Nat \ {0}, Q \in Nat \ {0} : P = 2^n /\ Q = 2^(W - n) /\ B = Q * P
    <3>1. Base = 2^n * 2^(W - n) /\ 2^n \in Nat \ {0} /\ 2^(W - n) \in Nat \ {0}
      BY <2>0, PowersInWord
    <3> QED
      BY <1>1, <3>1
  <2>2. AcrossRight(Q, P, B, h, 0, l) /\ AcrossRight(Q, P, B, l, 0, 0)
    <3>1. h \in Int /\ 0 \in Int /\ l \in Int /\ 0 \in 0 .. B - 1 /\ B = Q * P
      BY <2>1
    <3> QED
      BY <3>1, ShiftedRight
  <2>3. PICK q \in Int, r \in 0 .. Q - 1, m \in 0 .. P - 1 :
            /\ h = q * Q + r
            /\ l \div Q = m
            /\ ((h + 0 * B) * P) % B = r * P
            /\ r * P \in 0 .. B - 1
            /\ h \div Q = q
    BY <2>2 DEF AcrossRight
  <2>4. PICK c \in Int, s \in 0 .. Q - 1 :
            /\ l = c * Q + s
            /\ ((l + 0 * B) * P) % B = s * P
            /\ s * P \in 0 .. B - 1
            /\ l \div Q = c
    BY <2>2 DEF AcrossRight
  <2>5. c = m /\ h + 0 * B = h /\ l + 0 * B = l /\ q \in Nat
    <3>1. h \in Nat
      OBVIOUS
    <3>2. (h \div Q) \in Nat
      BY <3>1, Division
    <3> QED
      BY <2>3, <2>4, <3>2
  <2>6. PICK v \in 0 .. B - 1, w \in 0 .. B - 1 : v = r * P /\ w = s * P
    BY <2>3, <2>4
  <2>7. (h * P) % B = v /\ (l * P) % B = w
    BY <2>3, <2>4, <2>5, <2>6
  <2>8. OrWord(v, m) = v + m /\ v + m \in 0 .. Base - 1
    <3>1. r \in Nat /\ v \in 0 .. Base - 1 /\ v = r * 2^n /\ m \in 0 .. 2^n - 1
      BY <1>1, <2>1, <2>6
    <3> QED
      BY <2>0, <3>1, OrAdds
  <2>9. (h * P + m) % B = v + m
    <3>1. h * P = q * B + v
      <4>1. (q * Q + r) * P = q * (Q * P) + r * P
        OBVIOUS
      <4> QED
        BY <2>1, <2>3, <2>6, <4>1
    <3>2. PICK t \in Int, e \in Int : t = h * P + m /\ e = v + m
      OBVIOUS
    <3>3. t = q * B + e /\ e \in 0 .. B - 1
      BY <1>1, <2>8, <3>1, <3>2
    <3>4. t % B = e
      BY <3>3, QuotientUnique
    <3> QED
      BY <3>2, <3>4
  <2>10. Shl(x, n) = [hi |-> v + m, lo |-> w]
    <3>1. CASE n = 0
      <4>1. Shl(x, n) = x
        BY <1>0, <3>1 DEF Shl
      <4>2. P = 1
        <5>1. 2^0 = 1
          OBVIOUS
        <5> QED
          BY <2>1, <3>1, <5>1
      <4>3. Q = B /\ h * P = h /\ l * P = l
        BY <2>1, <4>2
      <4>4. h % B = h /\ l % B = l
        BY WordWraps
      <4>5. m = 0
        BY <4>2
      <4> QED
        BY <1>2, <2>7, <4>1, <4>3, <4>4, <4>5
    <3>2. CASE n \in 1 .. W - 1
      <4>1. Shl(x, n) = [hi |-> OrWord(ShlWord(x.hi, n), ShrWord(x.lo, W - n)), lo |-> ShlWord(x.lo, n)]
        BY <1>0, <3>2 DEF Shl
      <4>2. ShlWord(x.hi, n) = v /\ ShlWord(x.lo, n) = w /\ ShrWord(x.lo, W - n) = m
        BY <1>1, <1>2, <2>1, <2>3, <2>7 DEF ShlWord, ShrWord
      <4> QED
        BY <2>8, <4>1, <4>2
    <3> QED
      BY <1>0, <1>5, <3>1, <3>2
  <2>11. ShlHi(x, n) = v + m /\ ShlLo(x, n) = w
    BY <1>0, <1>1, <1>2, <1>5, <2>1, <2>3, <2>7, <2>9 DEF ShlHi, ShlLo
  <2>12. (h * B + l) * P = q * sq + ((v + m) * B + w)
    <3>1. (h * P) * B = (q * B + v) * B
      <4>1. (q * Q + r) * P = q * (Q * P) + r * P
        OBVIOUS
      <4> QED
        BY <2>1, <2>3, <2>6, <4>1
    <3>2. l * P = m * B + w
      <4>1. (m * Q + s) * P = m * (Q * P) + s * P
        OBVIOUS
      <4> QED
        BY <2>1, <2>4, <2>5, <2>6, <4>1
    <3>3. (h * B + l) * P = (h * P) * B + l * P
      OBVIOUS
    <3>4. (q * B + v) * B = q * (B * B) + v * B /\ (v + m) * B = v * B + m * B
      OBVIOUS
    <3> QED
      BY <1>3, <3>1, <3>2, <3>3, <3>4
  <2>13. Dropped(x, n, Shl(x, n))
    <3>1. Unsigned(x) * 2^n = (h * B + l) * P
      BY <1>1, <1>2, <2>1 DEF Unsigned
    <3>2. Unsigned(Shl(x, n)) = (v + m) * B + w
      BY <1>1, <2>10 DEF Unsigned
    <3> QED
      BY <1>1, <1>3, <2>5, <2>12, <3>1, <3>2 DEF Dropped
  <2>14. Shl(x, n) \in LongLongs
    BY <1>1, <2>8, <2>10 DEF LongLongs
  <2> QED
    BY <2>10, <2>11, <2>13, <2>14
<1>6. CASE n >= W
  <2>1. Shl(x, n) = [hi |-> ShlWord(x.lo, n - W), lo |-> 0]
    BY <1>0, <1>6 DEF Shl
  <2>2. n \in W .. 2 * W - 1
    BY <1>0, <1>6
  <2>3. PICK D \in Nat \ {0} : D = 2^(n - W) /\ 2^n = D * B
    BY <1>1, <2>2, PowersBeyondWord
  <2>4. PICK c \in Nat, e \in 0 .. B - 1 : l * D = c * B + e /\ (l * D) % B = e
    <3>1. PICK v \in Nat : v = l * D
      OBVIOUS
    <3>2. (v \div B) \in Nat /\ (v % B) \in 0 .. B - 1 /\ v = (v \div B) * B + (v % B)
      BY Division
    <3> QED
      BY <3>1, <3>2
  <2>5. ShlWord(x.lo, n - W) = e
    BY <1>1, <1>2, <2>3, <2>4 DEF ShlWord
  <2>6. Shl(x, n) = [hi |-> e, lo |-> 0]
    BY <2>1, <2>5
  <2>7. ShlHi(x, n) = e /\ ShlLo(x, n) = 0
    BY <1>1, <1>2, <1>6, <2>3, <2>4 DEF ShlHi, ShlLo
  <2>8. (h * B + l) * (D * B) = (h * D + c) * sq + (e * B + 0)
    <3>1. (h * B + l) * (D * B) = (h * D) * (B * B) + (l * D) * B
      <4>1. (h * B) * (D * B) = (h * D) * (B * B) /\ l * (D * B) = (l * D) * B
        OBVIOUS
      <4>2. (h * B + l) * (D * B) = (h * B) * (D * B) + l * (D * B)
        OBVIOUS
      <4> QED
        BY <4>1, <4>2
    <3>2. (c * B + e) * B = c * (B * B) + e * B
      OBVIOUS
    <3>3. (h * D) * sq + c * sq = (h * D + c) * sq
      OBVIOUS
    <3> QED
      BY <1>3, <2>4, <3>1, <3>2, <3>3
  <2>9. Dropped(x, n, Shl(x, n))
    <3>1. Unsigned(x) * 2^n = (h * B + l) * (D * B)
      BY <1>1, <1>2, <2>3 DEF Unsigned
    <3>2. Unsigned(Shl(x, n)) = e * B + 0
      BY <1>1, <2>6 DEF Unsigned
    <3>3. h * D + c \in Nat
      OBVIOUS
    <3> QED
      BY <1>1, <1>3, <2>8, <3>1, <3>2, <3>3 DEF Dropped
  <2>10. Shl(x, n) \in LongLongs
    BY <1>1, <2>6 DEF LongLongs
  <2> QED
    BY <2>6, <2>7, <2>9, <2>10
<1> QED
  BY <1>0, <1>5, <1>6

-----------------------------------------------------------------------------
(* The highest and the lowest bit.                                         *)

\* A word without bits from k on is below 2^k.
LEMMA BelowFreeBits ==
  ASSUME NEW w \in 0 .. Base - 1, NEW k \in 0 .. W, \A x \in BitsOf(w) : x < k
  PROVE  w < 2^k
<1>1. BitsOf(w) \in SUBSET BitPlaces /\ WordOf(BitsOf(w)) = w
  BY WordOfBits
<1>2. k \in Nat
  OBVIOUS
<1>3. 2^k \in Nat
  BY <1>2, PowerDoubles
<1> QED
  BY <1>1, <1>2, <1>3, WordBelow

LEMMA HighestBit ==
  ASSUME NEW w \in 0 .. Base - 1, w # 0
  PROVE  Max(BitsOf(w)) \in BitsOf(w) /\ Max(BitsOf(w)) \in 0 .. W - 1 /\ w \div 2^Max(BitsOf(w)) = 1
<1>1. BitsOf(w) \in SUBSET BitPlaces /\ WordOf(BitsOf(w)) = w
  BY WordOfBits
<1>2. BitsOf(w) # {}
  BY <1>1, WordOfTake
<1>3. PICK top \in BitsOf(w) : \A x \in BitsOf(w) : x <= top
  <2>1. BitsOf(w) \in SUBSET Nat /\ \A x \in BitsOf(w) : x <= W
    BY <1>1, WAssumption DEF BitPlaces
  <2>2. W \in Nat
    BY WAssumption
  <2> QED
    BY <1>2, <2>1, <2>2, Maximum
<1>4. Max(BitsOf(w)) \in BitsOf(w) /\ \A x \in BitsOf(w) : Max(BitsOf(w)) >= x
  <2>1. \A x \in BitsOf(w) : top >= x
    BY <1>1, <1>3 DEF BitPlaces
  <2> QED
    BY <2>1 DEF Max
<1>5. PICK m \in 0 .. W - 1 : m = Max(BitsOf(w)) /\ m \in Nat /\ m + 1 \in 0 .. W
  BY <1>1, <1>4, WAssumption DEF BitPlaces
<1>6. PICK p \in Nat \ {0} : p = 2^m /\ 2^(m + 1) = 2 * p
  BY <1>5, PowerDoubles
<1>7. w < 2 * p
  <2>1. \A x \in BitsOf(w) : x < m + 1
    BY <1>1, <1>4, <1>5 DEF BitPlaces
  <2> QED
    BY <1>5, <1>6, <2>1, BelowFreeBits
<1>8. (w \div p) % 2 = 1
  BY <1>4, <1>5, <1>6 DEF BitsOf
<1>9. w \div p = 1
  <2>1. PICK q \in Nat, r \in 0 .. p - 1 : q = w \div p /\ w = q * p + r
    <3>0. w \in Nat
      OBVIOUS
    <3>1. (w \div p) \in Nat /\ (w % p) \in 0 .. p - 1 /\ w = (w \div p) * p + (w % p)
      BY <3>0, Division
    <3> QED
      BY <3>1
  <2>2. q < 2
    <3>1. ASSUME q >= 2 PROVE FALSE
      <4>1. q * p >= 2 * p
        BY <3>1
      <4>2. PICK qp \in Nat : qp = q * p
        OBVIOUS
      <4> QED
        BY <1>7, <2>1, <4>1, <4>2
    <3> QED
      BY <3>1
  <2>3. q % 2 = 1
    BY <1>8, <2>1
  <2>4. q # 0
    BY <2>3
  <2> QED
    BY <2>1, <2>2, <2>4
<1> QED
  BY <1>4, <1>5, <1>6, <1>9

LEMMA LowestBit ==
  ASSUME NEW w \in 0 .. Base - 1, w # 0
  PROVE  /\ Min(BitsOf(w)) \in 0 .. W - 1
         /\ (w \div 2^Min(BitsOf(w))) % 2 = 1
         /\ w = (w \div 2^Min(BitsOf(w))) * 2^Min(BitsOf(w))
<1>1. BitsOf(w) \in SUBSET BitPlaces /\ WordOf(BitsOf(w)) = w
  BY WordOfBits
<1>2. BitsOf(w) # {}
  BY <1>1, WordOfTake
<1>3. PICK least \in BitsOf(w) : \A x \in BitsOf(w) : least <= x
  <2>1. BitsOf(w) \in SUBSET Nat
    BY <1>1 DEF BitPlaces
  <2> QED
    BY <1>2, <2>1, Minimum
<1>4. Min(BitsOf(w)) \in BitsOf(w) /\ \A x \in BitsOf(w) : Min(BitsOf(w)) <= x
  BY <1>3 DEF Min
<1>5. PICK m \in 0 .. W - 1 : m = Min(BitsOf(w)) /\ m \in Nat
  BY <1>1, <1>4 DEF BitPlaces
<1>6. PICK p \in Nat \ {0} : p = 2^m
  BY <1>5, PowerDoubles
<1>7. PICK q \in Nat : w = q * p
  <2>1. \A x \in BitsOf(w) : x >= m
    BY <1>1, <1>4, <1>5 DEF BitPlaces
  <2> QED
    BY <1>1, <1>5, <1>6, <2>1, WordFrom
<1>8. w \div p = q
  <2>1. w = q * p + 0 /\ 0 \in 0 .. p - 1 /\ w \in Int
    BY <1>7
  <2> QED
    BY <2>1, QuotientUnique
<1>9. (w \div p) % 2 = 1
  BY <1>4, <1>5, <1>6 DEF BitsOf
<1> QED
  BY <1>5, <1>6, <1>7, <1>8, <1>9

LEMMA UnsignedBelow ==
  ASSUME NEW x \in LongLongs
  PROVE  Unsigned(x) \in 0 .. Base * Base - 1
<1>1. PICK B \in Nat \ {0} : B = Base
  BY Widths
<1>2. PICK h \in 0 .. B - 1, l \in 0 .. B - 1 : x = [hi |-> h, lo |-> l]
  BY <1>1 DEF LongLongs
<1>3. h * B <= (B - 1) * B /\ (B - 1) * B = B * B - B /\ h * B >= 0
  OBVIOUS
<1>4. PICK hb \in Int, sq \in Int : hb = h * B /\ sq = B * B
  OBVIOUS
<1>5. hb + l \in 0 .. sq - 1
  BY <1>3, <1>4
<1> QED
  BY <1>1, <1>2, <1>4, <1>5 DEF Unsigned

LEMMA UnsignedTells ==
  ASSUME NEW x \in LongLongs, NEW y \in LongLongs, Unsigned(x) = Unsigned(y)
  PROVE  x = y
<1>1. PICK B \in Nat \ {0} : B = Base
  BY Widths
<1>2. PICK h \in 0 .. B - 1, l \in 0 .. B - 1 : x = [hi |-> h, lo |-> l]
  BY <1>1 DEF LongLongs
<1>3. PICK g \in 0 .. B - 1, k \in 0 .. B - 1 : y = [hi |-> g, lo |-> k]
  BY <1>1 DEF LongLongs
<1>4. h * B + l = g * B + k
  BY <1>1, <1>2, <1>3 DEF Unsigned
<1>5. h = g /\ l = k
  BY <1>4, Digits2
<1> QED
  BY <1>2, <1>3, <1>5

LEMMA ClzFinds ==
  ASSUME NEW x \in LongLongs, ~IsZero(x)
  PROVE  Unsigned(Shr(x, 2 * W - 1 - Clz(x))) = 1
<1>0. W \in Nat \ {0}
  BY WAssumption
<1>1. PICK B \in Nat \ {0} : B = Base
  BY Widths
<1>2. PICK h \in 0 .. B - 1, l \in 0 .. B - 1 : x = [hi |-> h, lo |-> l] /\ x.hi = h /\ x.lo = l
  BY <1>1 DEF LongLongs
<1>3. CASE h # 0
  <2>1. PICK m \in 0 .. W - 1 : m = Max(BitsOf(h)) /\ h \div 2^m = 1
    BY <1>1, <1>3, HighestBit
  <2>2. Clz(x) = W - 1 - m
    BY <1>2, <1>3, <2>1 DEF Clz, IsZero
  <2>3. PICK n \in W .. 2 * W - 1 : n = W + m /\ n = 2 * W - 1 - Clz(x) /\ n - W = m
    BY <1>0, <2>1, <2>2
  <2>4. PICK D \in Nat \ {0} : D = 2^m /\ 2^n = D * B
    BY <1>1, <2>3, PowersBeyondWord
  <2>5. (h * B + l) \div (D * B) = h \div D
    BY UpperWord
  <2>6. Unsigned(Shr(x, n)) = Unsigned(x) \div 2^n
    <3>1. n \in 0 .. 2 * W - 1
      BY <1>0
    <3> QED
      BY <3>1, ShrScales
  <2>7. Unsigned(x) = h * B + l
    BY <1>1, <1>2 DEF Unsigned
  <2> QED
    BY <2>1, <2>3, <2>4, <2>5, <2>6, <2>7
<1>4. CASE h = 0
  <2>0. l # 0
    BY <1>2, <1>4 DEF IsZero
  <2>1. PICK m \in 0 .. W - 1 : m = Max(BitsOf(l)) /\ l \div 2^m = 1
    BY <1>1, <2>0, HighestBit
  <2>2. Clz(x) = W + (W - 1 - m)
    BY <1>2, <1>4, <2>0, <2>1 DEF Clz, IsZero
  <2>3. m = 2 * W - 1 - Clz(x) /\ m \in 0 .. 2 * W - 1
    BY <1>0, <2>1, <2>2
  <2>4. Unsigned(Shr(x, m)) = Unsigned(x) \div 2^m
    BY <2>3, ShrScales
  <2>5. 0 * B + l = l
    OBVIOUS
  <2>6. Unsigned(x) = l
    BY <1>1, <1>2, <1>4, <2>5 DEF Unsigned
  <2> QED
    BY <2>1, <2>3, <2>4, <2>6
<1> QED
  BY <1>3, <1>4

LEMMA ShiftedBack ==
  ASSUME NEW x \in LongLongs, NEW n \in 0 .. 2 * W - 1, NEW t \in Nat,
         Unsigned(x) = t * 2^n, t % 2 = 1
  PROVE  Shl(Shr(x, n), n) = x /\ Shr(x, n).lo % 2 = 1
<1>0. n \in Nat /\ W \in Nat \ {0}
  BY WAssumption
<1>1. PICK B \in Nat \ {0}, S \in Nat : B = Base /\ B = 2 * S
  BY Widths
<1>2. PICK P \in Nat \ {0}, u \in Nat : P = 2^n /\ u = Unsigned(x)
  BY <1>0, PowerDoubles, Values
<1>3. u \div P = t
  <2>1. u = t * P + 0 /\ 0 \in 0 .. P - 1
    BY <1>2
  <2> QED
    BY <2>1, QuotientUnique
<1>4. PICK y \in LongLongs : y = Shr(x, n) /\ Unsigned(y) = t
  BY <1>2, <1>3, ShrScales
<1>5. Shl(y, n) = x
  <2>1. PICK z \in LongLongs : z = Shl(y, n) /\ Dropped(y, n, z)
    BY ShlScales
  <2>6. PICK sq \in Nat, v \in Nat : sq = B * B /\ v = Unsigned(z)
    BY Values
  <2>2. PICK q \in Nat : u = q * sq + v
    <3>1. t * P = u
      BY <1>2
    <3> QED
      BY <1>1, <1>2, <1>4, <2>1, <2>6, <3>1 DEF Dropped
  <2>3. u < sq
    BY <1>1, <1>2, <2>6, UnsignedBelow
  <2>4. q = 0
    <3>1. ASSUME q >= 1 PROVE FALSE
      <4>1. q * sq >= 1 * sq
        BY <3>1
      <4>2. PICK e \in Nat : e = q * sq
        OBVIOUS
      <4> QED
        BY <2>2, <2>3, <4>1, <4>2
    <3> QED
      BY <3>1
  <2>5. u = v
    <3>1. 0 * sq = 0
      OBVIOUS
    <3> QED
      BY <2>2, <2>4, <3>1
  <2> QED
    BY <1>2, <1>4, <2>1, <2>6, <2>5, UnsignedTells
<1>6. y.lo % 2 = 1
  <2>1. PICK g \in 0 .. B - 1, k \in 0 .. B - 1 : y = [hi |-> g, lo |-> k] /\ y.lo = k
    BY <1>1 DEF LongLongs
  <2>2. t = g * B + k
    BY <1>1, <1>4, <2>1 DEF Unsigned
  <2>3. PICK c \in Nat : c = g * S /\ g * B = 2 * c
    BY <1>1
  <2>4. t = 2 * c + k
    BY <2>2, <2>3
  <2>5. k % 2 = 1
    BY <2>4
  <2> QED
    BY <2>1, <2>5
<1> QED
  BY <1>4, <1>5, <1>6

LEMMA CtzFinds ==
  ASSUME NEW x \in LongLongs, ~IsZero(x)
  PROVE  Shl(Shr(x, Ctz(x)), Ctz(x)) = x /\ Shr(x, Ctz(x)).lo % 2 = 1
<1>0. W \in Nat \ {0}
  BY WAssumption
<1>1. PICK B \in Nat \ {0} : B = Base
  BY Widths
<1>2. PICK h \in 0 .. B - 1, l \in 0 .. B - 1 : x = [hi |-> h, lo |-> l] /\ x.hi = h /\ x.lo = l
  BY <1>1 DEF LongLongs
<1>3. Unsigned(x) = h * B + l
  BY <1>1, <1>2 DEF Unsigned
<1>4. CASE l # 0
  <2>1. PICK m \in 0 .. W - 1 : /\ m = Min(BitsOf(l)) /\ m \in Nat
                               /\ (l \div 2^m) % 2 = 1 /\ l = (l \div 2^m) * 2^m
    <3>1. /\ Min(BitsOf(l)) \in 0 .. W - 1
          /\ (l \div 2^Min(BitsOf(l))) % 2 = 1
          /\ l = (l \div 2^Min(BitsOf(l))) * 2^Min(BitsOf(l))
      BY <1>1, <1>4, LowestBit
    <3>2. PICK m \in 0 .. W - 1 : m = Min(BitsOf(l))
      BY <3>1
    <3>3. m \in Nat
      OBVIOUS
    <3> QED
      BY <3>1, <3>2, <3>3, Zenon
  <2>2. Ctz(x) = m
    BY <1>2, <1>4, <2>1 DEF Ctz, IsZero
  <2>3. PICK d \in Nat : m + (d + 1) = W
    <3>1. W - (m + 1) \in Nat /\ m + ((W - (m + 1)) + 1) = W
      BY <1>0
    <3> QED
      BY <3>1
  <2>4. PICK P \in Nat \ {0}, E \in Nat : P = 2^m /\ B = P * (2 * E)
    <3>1. 2^m \in Nat \ {0} /\ 2^(d + 1) = 2 * 2^d /\ 2^d \in Nat
      BY <2>1, <2>3, PowerDoubles
    <3>2. d + 1 \in Nat
      OBVIOUS
    <3>3. 2^(m + (d + 1)) = 2^m * 2^(d + 1)
      BY <2>1, <3>2, PowersMultiply
    <3> QED
      BY <1>1, <2>3, <3>1, <3>3 DEF Base
  <2>5. PICK s \in Nat : s = l \div P /\ s % 2 = 1 /\ l = s * P
    <3>1. l \in Nat
      OBVIOUS
    <3>2. (l \div P) \in Nat
      BY <3>1, Division
    <3> QED
      BY <2>1, <2>4, <3>2
  <2>6. PICK t \in Nat : t = 2 * (h * E) + s
    OBVIOUS
  <2>7. t % 2 = 1
    <3>1. PICK c \in Nat : c = h * E
      OBVIOUS
    <3>2. t = 2 * c + s
      BY <2>6, <3>1
    <3> QED
      BY <2>5, <3>2
  <2>8. Unsigned(x) = t * P
    <3>1. (2 * (h * E) + s) * P = h * (P * (2 * E)) + s * P
      OBVIOUS
    <3> QED
      BY <1>3, <2>4, <2>5, <2>6, <3>1
  <2>9. m \in 0 .. 2 * W - 1
    BY <1>0
  <2> QED
    BY <2>2, <2>4, <2>7, <2>8, <2>9, ShiftedBack
<1>5. CASE l = 0
  <2>0. h # 0
    BY <1>2, <1>5 DEF IsZero
  <2>1. PICK m \in 0 .. W - 1 : /\ m = Min(BitsOf(h)) /\ m \in Nat
                               /\ (h \div 2^m) % 2 = 1 /\ h = (h \div 2^m) * 2^m
    <3>1. /\ Min(BitsOf(h)) \in 0 .. W - 1
          /\ (h \div 2^Min(BitsOf(h))) % 2 = 1
          /\ h = (h \div 2^Min(BitsOf(h))) * 2^Min(BitsOf(h))
      BY <1>1, <2>0, LowestBit
    <3>2. PICK m \in 0 .. W - 1 : m = Min(BitsOf(h))
      BY <3>1
    <3>3. m \in Nat
      OBVIOUS
    <3> QED
      BY <3>1, <3>2, <3>3, Zenon
  <2>2. Ctz(x) = W + m
    BY <1>2, <1>5, <2>0, <2>1 DEF Ctz, IsZero
  <2>3. PICK n \in W .. 2 * W - 1 : n = W + m /\ n - W = m
    BY <1>0, <2>1
  <2>4. PICK D \in Nat \ {0} : D = 2^m /\ 2^n = D * B
    BY <1>1, <2>3, PowersBeyondWord
  <2>5. PICK s \in Nat : s = h \div D /\ s % 2 = 1 /\ h = s * D
    <3>1. h \in Nat
      OBVIOUS
    <3>2. (h \div D) \in Nat
      BY <3>1, Division
    <3> QED
      BY <2>1, <2>4, <3>2
  <2>6. Unsigned(x) = s * (D * B)
    <3>1. (s * D) * B + 0 = s * (D * B)
      OBVIOUS
    <3> QED
      BY <1>3, <1>5, <2>5, <3>1
  <2>7. n \in 0 .. 2 * W - 1
    BY <1>0
  <2> QED
    BY <2>2, <2>3, <2>4, <2>5, <2>6, <2>7, ShiftedBack
<1> QED
  BY <1>4, <1>5

-----------------------------------------------------------------------------
(* Logical operators and the count of bits.                                *)

LEMMA AndOrWords ==
  ASSUME NEW v \in 0 .. Base - 1, NEW w \in 0 .. Base - 1
  PROVE  AndWord(v, w) + OrWord(v, w) = v + w
<1> DEFINE S == BitsOf(v)
           U == BitsOf(w)
<1>1. S \in SUBSET BitPlaces /\ U \in SUBSET BitPlaces /\ WordOf(S) = v /\ WordOf(U) = w
  BY WordOfBits
<1>2. AndWord(v, w) = WordOf(S \cap U) /\ OrWord(v, w) = WordOf(S \cup U)
  BY DEF AndWord, OrWord
<1> HIDE DEF S, U
<1>3. WordOf(S \cup (U \ S)) = WordOf(S) + WordOf(U \ S)
  <2>1. S \cap (U \ S) = {} /\ U \ S \in SUBSET BitPlaces
    BY <1>1
  <2> QED
    BY <1>1, <2>1, WordOfUnion
<1>4. WordOf((S \cap U) \cup (U \ S)) = WordOf(S \cap U) + WordOf(U \ S)
  <2>1. (S \cap U) \cap (U \ S) = {} /\ U \ S \in SUBSET BitPlaces /\ S \cap U \in SUBSET BitPlaces
    BY <1>1
  <2> QED
    BY <2>1, WordOfUnion
<1>5. S \cup (U \ S) = S \cup U /\ (S \cap U) \cup (U \ S) = U
  OBVIOUS
<1>6. WordOf(U \ S) \in Nat /\ WordOf(S \cap U) \in Nat
  <2>1. U \ S \in SUBSET BitPlaces /\ S \cap U \in SUBSET BitPlaces
    BY <1>1
  <2> QED
    BY <2>1, WordOfTake
<1>7. PICK r \in Nat, d \in Nat : r = WordOf(U \ S) /\ d = WordOf(S \cap U)
  BY <1>6
<1>8. WordOf(S \cup U) = v + r /\ w = d + r
  BY <1>1, <1>3, <1>4, <1>5, <1>7
<1>9. d + (v + r) = v + (d + r)
  OBVIOUS
<1> QED
  BY <1>2, <1>7, <1>8, <1>9

LEMMA BitCounts ==
  ASSUME NEW v \in 0 .. Base - 1, NEW w \in 0 .. Base - 1
  PROVE  /\ Cardinality(BitsOf(XorWord(v, w)))
              = Cardinality(BitsOf(v)) + Cardinality(BitsOf(w)) - 2 * Cardinality(BitsOf(AndWord(v, w)))
         /\ Cardinality(BitsOf(v)) \in Nat /\ Cardinality(BitsOf(w)) \in Nat
         /\ Cardinality(BitsOf(AndWord(v, w))) \in Nat
<1> DEFINE S == BitsOf(v)
           U == BitsOf(w)
           both == S \cap U
           one == (S \cup U) \ both
<1>1. S \in SUBSET BitPlaces /\ U \in SUBSET BitPlaces
  BY WordOfBits
<1>2. /\ both \in SUBSET BitPlaces /\ one \in SUBSET BitPlaces /\ S \cup U \in SUBSET BitPlaces
      /\ both \cap one = {} /\ both \cup one = S \cup U
  BY <1>1
<1>3. AndWord(v, w) = WordOf(both) /\ OrWord(v, w) = WordOf(S \cup U)
  BY DEF AndWord, OrWord
<1> HIDE DEF S, U, both, one
<1>4. XorWord(v, w) = WordOf(one)
  <2>1. WordOf(S \cup U) = WordOf(both) + WordOf(one)
    BY <1>2, WordOfUnion
  <2>2. WordOf(both) \in Nat /\ WordOf(one) \in Nat
    BY <1>2, WordOfTake
  <2> QED
    BY <1>3, <2>1, <2>2 DEF XorWord
<1>5. BitsOf(XorWord(v, w)) = one /\ BitsOf(AndWord(v, w)) = both
  BY <1>2, <1>3, <1>4, BitsOfWord
<1>6. IsFiniteSet(S) /\ IsFiniteSet(U) /\ IsFiniteSet(both) /\ IsFiniteSet(one)
  BY <1>1, <1>2, BitPlacesFinite
<1>7. Cardinality(S) \in Nat /\ Cardinality(U) \in Nat /\ Cardinality(both) \in Nat /\ Cardinality(one) \in Nat
  BY <1>6, FS_CardinalityType
<1>8. Cardinality(S \cup U) = Cardinality(S) + Cardinality(U) - Cardinality(both)
  BY <1>6, FS_Union DEF both
<1>9. Cardinality(both \cup one) = Cardinality(both) + Cardinality(one) - 0
  <2>1. Cardinality(both \cup one) = Cardinality(both) + Cardinality(one) - Cardinality(both \cap one)
    BY <1>6, FS_Union
  <2>2. Cardinality(both \cap one) = 0
    BY <1>2, FS_EmptySet
  <2> QED
    BY <2>1, <2>2
<1>10. Cardinality(one) = Cardinality(S) + Cardinality(U) - 2 * Cardinality(both)
  <2>1. PICK s \in Nat, u \in Nat, c \in Nat, o \in Nat :
            s = Cardinality(S) /\ u = Cardinality(U) /\ c = Cardinality(both) /\ o = Cardinality(one)
    BY <1>7
  <2>2. Cardinality(both \cup one) = Cardinality(S \cup U)
    BY <1>2
  <2>3. c + o - 0 = s + u - c
    BY <1>8, <1>9, <2>1, <2>2
  <2>4. o = s + u - 2 * c
    BY <2>3
  <2> QED
    BY <2>1, <2>4
<1> QED
  BY <1>5, <1>7, <1>10 DEF S, U

LEMMA PopcountOfXor ==
  ASSUME NEW x \in LongLongs, NEW y \in LongLongs
  PROVE  /\ Popcount(Xor(x, y)) = Popcount(x) + Popcount(y) - 2 * Popcount(And(x, y))
         /\ And(x, y).lo + Or(x, y).lo = x.lo + y.lo
<1>1. x.hi \in 0 .. Base - 1 /\ x.lo \in 0 .. Base - 1 /\ y.hi \in 0 .. Base - 1 /\ y.lo \in 0 .. Base - 1
  BY Values
<1>2. /\ Cardinality(BitsOf(XorWord(x.hi, y.hi)))
           = Cardinality(BitsOf(x.hi)) + Cardinality(BitsOf(y.hi)) - 2 * Cardinality(BitsOf(AndWord(x.hi, y.hi)))
      /\ Cardinality(BitsOf(x.hi)) \in Nat /\ Cardinality(BitsOf(y.hi)) \in Nat
      /\ Cardinality(BitsOf(AndWord(x.hi, y.hi))) \in Nat
  BY <1>1, BitCounts
<1>3. /\ Cardinality(BitsOf(XorWord(x.lo, y.lo)))
           = Cardinality(BitsOf(x.lo)) + Cardinality(BitsOf(y.lo)) - 2 * Cardinality(BitsOf(AndWord(x.lo, y.lo)))
      /\ Cardinality(BitsOf(x.lo)) \in Nat /\ Cardinality(BitsOf(y.lo)) \in Nat
      /\ Cardinality(BitsOf(AndWord(x.lo, y.lo))) \in Nat
  BY <1>1, BitCounts
<1>4. AndWord(x.lo, y.lo) + OrWord(x.lo, y.lo) = x.lo + y.lo
  BY <1>1, AndOrWords
<1> QED
  BY <1>2, <1>3, <1>4 DEF Popcount, Xor, And, Or

LEMMA ShiftsOfSamples == InsideSamples => ShiftsScale
<1> SUFFICES ASSUME InsideSamples, part = "numbers"
             PROVE  ShiftsScale
  BY DEF ShiftsScale
<1>1. PICK x \in LongLongs, y \in LongLongs : x = a /\ y = b
  BY SampleAt DEF InsideSamples, a, b
<1>2. ASSUME NEW n \in 0 .. 2 * W - 1
      PROVE  /\ Unsigned(Shr(x, n)) = Unsigned(x) \div 2^n
             /\ Value(Sar(x, n)) = Value(x) \div 2^n
             /\ Shl(x, n) = [hi |-> IF n >= W THEN (x.lo * 2^(n - W)) % Base
                                    ELSE ((x.hi * 2^n) + (x.lo \div 2^(W - n))) % Base,
                             lo |-> IF n >= W THEN 0 ELSE (x.lo * 2^n) % Base]
  <2>1. Shl(x, n) = [hi |-> ShlHi(x, n), lo |-> ShlLo(x, n)]
    BY ShlScales
  <2> QED
    BY <2>1, ShrScales, SarScales DEF ShlHi, ShlLo
<1>3. ~IsZero(x) => /\ Unsigned(Shr(x, 2 * W - 1 - Clz(x))) = 1
                    /\ Shl(Shr(x, Ctz(x)), Ctz(x)) = x /\ Shr(x, Ctz(x)).lo % 2 = 1
  BY ClzFinds, CtzFinds
<1>4. /\ And(x, y).lo + Or(x, y).lo = x.lo + y.lo
      /\ Popcount(Xor(x, y)) = Popcount(x) + Popcount(y) - 2 * Popcount(And(x, y))
  BY PopcountOfXor
<1> QED
  BY <1>1, <1>2, <1>3, <1>4, Zenon DEF ShiftsScale

(* Across the two words, for words of every width: longlong_shl keeps what *)
(* stays inside, longlong_shr and longlong_sar divide and round down, the  *)
(* counting loops find the highest and the lowest bit, and the logical     *)
(* operators act on each bit (longlong.c).                                 *)
THEOREM ShiftsSafe == Spec => []ShiftsScale
  BY InsideInductive, ShiftsOfSamples, PTL

-----------------------------------------------------------------------------
(* Magnitudes and signs.                                                   *)

\* Half of the range: a number from here on is negative.
Half == SignBit * Base

LEMMA Halves ==
  /\ SignBit \in Nat \ {0, 1} /\ Half \in Nat \ {0} /\ Base * Base = 2 * Half
  /\ Half = 2 * 2^(2 * W - 2) /\ 2^(2 * W - 2) \in Nat \ {0} /\ Half = 2 * (SignBit * SignBit)
<1>1. PICK n \in Nat : W = n + 2
  <2>1. W \in Nat \ {0} /\ W # 1
    BY WAssumption
  <2>2. W - 2 \in Nat /\ W = (W - 2) + 2
    BY <2>1
  <2> QED
    BY <2>2
<1>2. PICK p \in Nat \ {0} : p = 2^n /\ 2^(n + 1) = 2 * p
  BY PowerDoubles
<1>3. SignBit = 2 * p
  <2>1. W - 1 = n + 1
    BY <1>1
  <2> QED
    BY <1>2, <2>1 DEF SignBit
<1>4. PICK S \in Nat \ {0, 1} : S = SignBit /\ Base = 2 * S
  BY <1>2, <1>3, Widths
<1>5. 2^(2 * W - 2) = S * S
  <2>1. 2 * W - 2 = (n + 1) + (n + 1) /\ n + 1 \in Nat
    BY <1>1
  <2>2. 2^((n + 1) + (n + 1)) = 2^(n + 1) * 2^(n + 1)
    BY <2>1, PowersMultiply
  <2> QED
    BY <1>2, <1>3, <1>4, <2>1, <2>2
<1>6. S * (2 * S) = 2 * (S * S) /\ (2 * S) * (2 * S) = 2 * (S * (2 * S)) /\ S * S \in Nat \ {0}
      /\ S * (2 * S) \in Nat \ {0}
  BY <1>4
<1> QED
  BY <1>4, <1>5, <1>6 DEF Half

LEMMA ValueByUnsigned ==
  ASSUME NEW x \in LongLongs
  PROVE  /\ IsNegative(x) <=> Unsigned(x) >= Half
         /\ Value(x) = IF Unsigned(x) >= Half THEN Unsigned(x) - 2 * Half ELSE Unsigned(x)
         /\ Unsigned(x) \in 0 .. 2 * Half - 1
<1>1. PICK B \in Nat \ {0}, S \in Nat \ {0} : B = Base /\ S = SignBit
  BY Widths
<1>2. PICK h \in 0 .. B - 1, l \in 0 .. B - 1 : x = [hi |-> h, lo |-> l] /\ x.hi = h
  BY <1>1 DEF LongLongs
<1>3. h >= S <=> h * B + l >= S * B
  <2>1. ASSUME h >= S PROVE h * B + l >= S * B
    <3>1. h * B >= S * B
      BY <2>1
    <3>2. PICK e \in Int, f \in Int : e = h * B /\ f = S * B
      OBVIOUS
    <3> QED
      BY <3>1, <3>2
  <2>2. ASSUME h < S PROVE h * B + l < S * B
    <3>1. (h + 1) * B <= S * B /\ (h + 1) * B = h * B + B
      BY <2>2
    <3>2. PICK e \in Int, f \in Int : e = h * B /\ f = S * B
      OBVIOUS
    <3> QED
      BY <3>1, <3>2
  <2>3. PICK e \in Int, f \in Int : e = h * B + l /\ f = S * B
    OBVIOUS
  <2> QED
    BY <2>1, <2>2, <2>3
<1>4. Unsigned(x) = h * B + l /\ Half = S * B
  BY <1>1, <1>2 DEF Unsigned, Half
<1>5. IsNegative(x) <=> Unsigned(x) >= Half
  BY <1>1, <1>2, <1>3, <1>4 DEF IsNegative
<1> QED
  BY <1>5, UnsignedBelow, Halves DEF Value

LEMMA OfValueWraps ==
  ASSUME NEW v \in Int
  PROVE  OfValue(v) \in LongLongs /\ Unsigned(OfValue(v)) = v % (Base * Base)
<1>1. PICK B \in Nat \ {0}, sq \in Nat \ {0} : B = Base /\ sq = B * B
  <2>1. PICK B \in Nat \ {0} : B = Base
    BY Widths
  <2>2. B * B \in Nat \ {0}
    OBVIOUS
  <2> QED
    BY <2>1, <2>2
<1>2. PICK k \in Int, u \in 0 .. sq - 1 : v = k * sq + u /\ v % sq = u
  <2>1. (v \div sq) \in Int /\ (v % sq) \in 0 .. sq - 1 /\ v = (v \div sq) * sq + (v % sq)
    OBVIOUS
  <2> QED
    BY <2>1
<1>3. PICK h \in Nat, l \in 0 .. B - 1 : u = h * B + l
  <2>1. u \in Nat
    OBVIOUS
  <2>2. (u \div B) \in Nat /\ (u % B) \in 0 .. B - 1 /\ u = (u \div B) * B + (u % B)
    BY <2>1, Division
  <2> QED
    BY <2>2
<1>4. h \in 0 .. B - 1
  <2>1. ASSUME h >= B PROVE FALSE
    <3>1. h * B >= B * B
      BY <2>1
    <3>2. PICK e \in Int : e = h * B
      OBVIOUS
    <3> QED
      BY <1>1, <1>3, <3>1, <3>2
  <2> QED
    BY <2>1
<1>5. PICK x \in LongLongs : x = [hi |-> h, lo |-> l]
  BY <1>1, <1>4 DEF LongLongs
<1>6. Unsigned(x) = u
  BY <1>1, <1>3, <1>5 DEF Unsigned
<1>7. OfValue(v) = x
  <2>1. v = u + k * sq
    BY <1>2
  <2>2. v = Unsigned(x) + k * (Base * Base)
    BY <1>1, <1>6, <2>1
  <2> QED
    BY <2>2, Represents
<1> QED
  BY <1>1, <1>2, <1>6, <1>7

\* The number with the least value is its own negation.
LEMMA NegateUnsigned ==
  ASSUME NEW x \in LongLongs, Unsigned(x) <= Half
  PROVE  Negate(x) \in LongLongs /\ Value(Negate(x)) = -Unsigned(x)
<1>1. PICK H \in Nat \ {0}, u \in Nat : H = Half /\ u = Unsigned(x) /\ Base * Base = 2 * H /\ u <= H
  BY Halves, Values
<1>2. PICK v \in Int : v = Value(x) /\ v = (IF u >= H THEN u - 2 * H ELSE u)
  BY <1>1, ValueByUnsigned
<1>3. Negate(x) = OfValue(-v)
  BY <1>2, NegateWraps
<1>4. PICK y \in LongLongs : y = Negate(x) /\ Unsigned(y) = (-v) % (2 * H)
  <2>1. -v \in Int
    OBVIOUS
  <2> QED
    BY <1>1, <1>3, <2>1, OfValueWraps
<1>5. PICK m \in Nat \ {0} : m = 2 * H
  OBVIOUS
<1>6. (-v) % m = IF u = 0 THEN 0 ELSE IF u = H THEN H ELSE m - u
  <2>0. PICK n \in Int : n = -v
    OBVIOUS
  <2>4. n + v = 0
    BY <2>0
  <2>1. CASE u = 0
    <3>1. v = 0
      BY <1>1, <1>2, <2>1
    <3>2. n = 0
      BY <2>4, <3>1
    <3>3. n \in 0 .. m - 1
      BY <3>2
    <3> QED
      BY <2>0, <2>1, <3>2, <3>3, WordWraps
  <2>2. CASE u = H
    <3>1. n = H /\ n \in 0 .. m - 1
      BY <1>1, <1>2, <1>5, <2>0, <2>2
    <3> QED
      BY <1>1, <2>0, <2>2, <3>1, WordWraps
  <2>3. CASE u # 0 /\ u # H
    <3>1. n = -u /\ n \in -m .. -1
      BY <1>1, <1>2, <1>5, <2>0, <2>3
    <3>2. n % m = n + m
      BY <3>1, WordWraps
    <3> QED
      BY <1>5, <2>0, <2>3, <3>1, <3>2
  <2> QED
    BY <2>1, <2>2, <2>3
<1>7. Value(y) = IF Unsigned(y) >= H THEN Unsigned(y) - m ELSE Unsigned(y)
  BY <1>1, <1>5, ValueByUnsigned
<1> QED
  BY <1>1, <1>4, <1>5, <1>6, <1>7

LEMMA MagnitudeOf ==
  ASSUME NEW x \in LongLongs
  PROVE  Magnitude(x) \in LongLongs /\ Unsigned(Magnitude(x)) = Abs(Value(x))
<1>1. PICK H \in Nat \ {0}, u \in Nat : H = Half /\ u = Unsigned(x) /\ Base * Base = 2 * H /\ u \in 0 .. 2 * H - 1
  BY Halves, ValueByUnsigned
<1>2. /\ IsNegative(x) <=> u >= H
      /\ Value(x) = IF u >= H THEN u - 2 * H ELSE u
  BY <1>1, ValueByUnsigned
<1>3. CASE u < H
  BY <1>1, <1>2, <1>3 DEF Magnitude, Abs
<1>4. CASE u >= H
  <2>1. PICK v \in Int : v = u - 2 * H /\ v < 0 /\ -v \in Int
    BY <1>1, <1>4
  <2>2. Magnitude(x) = OfValue(-v)
    BY <1>2, <1>4, <2>1, NegateWraps DEF Magnitude
  <2>3. PICK n \in Int, m \in Nat \ {0} : n = -v /\ m = 2 * H /\ n \in 0 .. m - 1
    BY <1>1, <1>4, <2>1
  <2>4. n % m = n
    BY <2>3, WordWraps
  <2>5. OfValue(n) \in LongLongs /\ Unsigned(OfValue(n)) = n % m
    BY <1>1, <2>3, OfValueWraps
  <2> QED
    BY <1>2, <1>4, <2>1, <2>2, <2>3, <2>4, <2>5 DEF Abs
<1> QED
  BY <1>1, <1>3, <1>4

-----------------------------------------------------------------------------
(* The product of two longs.                                               *)

\* Half words: a word up to the sign bit has an upper half of half of them.
LEMMA HalfWords ==
  \E d \in Nat \ {0}, c \in Nat \ {0} :
     /\ d = 2^(W \div 2) /\ Base = d * d /\ d = 2 * c /\ SignBit = c * d
<1>1. PICK n \in Nat : W = 2 * (n + 1)
  <2>1. W \in Nat \ {0} /\ W % 2 = 0
    BY WAssumption
  <2>2. W = 2 * (W \div 2) + (W % 2) /\ (W \div 2) \in Nat
    BY <2>1
  <2>3. PICK k \in Nat : k = W \div 2
    BY <2>2
  <2>4. W = 2 * k /\ k # 0
    BY <2>1, <2>2, <2>3
  <2>5. k - 1 \in Nat /\ (k - 1) + 1 = k
    BY <2>4
  <2> QED
    BY <2>4, <2>5
<1>2. W \div 2 = n + 1 /\ W = (n + 1) + (n + 1) /\ n + 1 \in Nat
  BY <1>1
<1>3. PICK c \in Nat \ {0}, d \in Nat \ {0} : c = 2^n /\ d = 2 * c /\ d = 2^(n + 1)
  <2>1. 2^n \in Nat \ {0} /\ 2^(n + 1) = 2 * 2^n
    BY PowerDoubles
  <2>2. PICK c \in Nat \ {0} : c = 2^n
    BY <2>1
  <2>3. 2 * c \in Nat \ {0} /\ 2 * c = 2^(n + 1)
    BY <2>1, <2>2
  <2> QED
    BY <2>2, <2>3
<1>4. Base = d * d
  <2>1. 2^((n + 1) + (n + 1)) = 2^(n + 1) * 2^(n + 1)
    BY <1>2, PowersMultiply
  <2> QED
    BY <1>2, <1>3, <2>1 DEF Base
<1>5. SignBit = c * d
  <2>1. W - 1 = n + (n + 1)
    BY <1>2
  <2>2. 2^(n + (n + 1)) = 2^n * 2^(n + 1)
    BY <1>2, PowersMultiply
  <2> QED
    BY <1>3, <2>1, <2>2 DEF SignBit
<1> QED
  BY <1>2, <1>3, <1>4, <1>5

\* A number below a product, cut at one of its factors.
LEMMA CutAt ==
  ASSUME NEW d \in Nat \ {0}, NEW v \in Nat
  PROVE  \E q \in Nat, r \in 0 .. d - 1 : v = q * d + r /\ v \div d = q /\ v % d = r
<1>1. (v \div d) \in Nat /\ (v % d) \in 0 .. d - 1 /\ v = (v \div d) * d + (v % d)
  BY Division
<1> QED
  BY <1>1

LEMMA MulOfLongs ==
  ASSUME NEW x \in LongLongs, NEW y \in LongLongs, Unsigned(x) <= SignBit, Unsigned(y) <= SignBit
  PROVE  /\ MulMagnitudes(x, y) \in LongLongs
         /\ Unsigned(MulMagnitudes(x, y)) = Unsigned(x) * Unsigned(y)
         /\ Unsigned(x) * Unsigned(y) \in 0 .. SignBit * SignBit
<1>1. PICK B \in Nat \ {0}, S \in Nat \ {0} : B = Base /\ S = SignBit /\ B = 2 * S
  BY Widths
<1>2. PICK d \in Nat \ {0}, c \in Nat \ {0} : d = 2^(W \div 2) /\ B = d * d /\ d = 2 * c /\ S = c * d
  BY <1>1, HalfWords
<1>3. ASSUME NEW z \in LongLongs, Unsigned(z) <= SignBit
      PROVE  /\ z.hi = 0 /\ z.lo \in Nat /\ z.lo <= S /\ Unsigned(z) = z.lo
             /\ z.lo = (z.lo \div d) * d + (z.lo % d)
             /\ (z.lo \div d) \in 0 .. c /\ (z.lo % d) \in 0 .. d - 1
  <2>1. PICK h \in 0 .. B - 1, l \in 0 .. B - 1 : z = [hi |-> h, lo |-> l] /\ z.hi = h /\ z.lo = l
    BY <1>1 DEF LongLongs
  <2>2. h * B + l <= S
    BY <1>1, <1>3, <2>1 DEF Unsigned
  <2>3. h = 0
    <3>1. ASSUME h >= 1 PROVE FALSE
      <4>1. h * B >= 1 * B
        BY <3>1
      <4>2. PICK e \in Nat : e = h * B
        OBVIOUS
      <4> QED
        BY <1>1, <2>2, <4>1, <4>2
    <3> QED
      BY <3>1
  <2>4. 0 * B + l = l
    OBVIOUS
  <2>5. l <= S
    BY <2>2, <2>3, <2>4
  <2>6. Unsigned(z) = l
    BY <1>1, <2>1, <2>3, <2>4 DEF Unsigned
  <2>7. PICK q \in Nat, r \in 0 .. d - 1 : l = q * d + r /\ l \div d = q /\ l % d = r
    <3>1. l \in Nat
      OBVIOUS
    <3> QED
      BY <3>1, CutAt
  <2>8. q <= c
    <3>1. ASSUME q >= c + 1 PROVE FALSE
      <4>1. q * d >= (c + 1) * d /\ (c + 1) * d = c * d + d
        BY <3>1
      <4>2. PICK e \in Nat : e = q * d
        OBVIOUS
      <4> QED
        BY <1>2, <2>5, <2>7, <4>1, <4>2
    <3> QED
      BY <3>1
  <2> QED
    BY <2>1, <2>3, <2>5, <2>6, <2>7, <2>8
<1>4. PICK k \in Nat, a1 \in 0 .. c, a0 \in 0 .. d - 1 :
            /\ x.hi = 0 /\ x.lo = k /\ k <= S /\ Unsigned(x) = k
            /\ k = a1 * d + a0 /\ k \div d = a1 /\ k % d = a0
  BY <1>3
<1>5. PICK l \in Nat, b1 \in 0 .. c, b0 \in 0 .. d - 1 :
            /\ y.hi = 0 /\ y.lo = l /\ l <= S /\ Unsigned(y) = l
            /\ l = b1 * d + b0 /\ l \div d = b1 /\ l % d = b0
  BY <1>3
<1>6. PICK u11 \in Nat, u01 \in Nat, u10 \in Nat, u00 \in Nat :
            u11 = a1 * b1 /\ u01 = a0 * b1 /\ u10 = a1 * b0 /\ u00 = a0 * b0
  OBVIOUS
<1>7. u01 + u10 \in 0 .. B - 1
  <2>1. u01 <= (d - 1) * c /\ u10 <= c * (d - 1)
    <3>1. a0 * b1 <= (d - 1) * b1 /\ (d - 1) * b1 <= (d - 1) * c
      OBVIOUS
    <3>2. a1 * b0 <= a1 * (d - 1) /\ a1 * (d - 1) <= c * (d - 1)
      OBVIOUS
    <3>3. PICK e \in Int, f \in Int, g \in Int, m \in Int :
              e = (d - 1) * b1 /\ f = (d - 1) * c /\ g = a1 * (d - 1) /\ m = c * (d - 1)
      OBVIOUS
    <3> QED
      BY <1>6, <3>1, <3>2, <3>3
  <2>2. (d - 1) * c + c * (d - 1) = (d - 1) * d /\ (d - 1) * d = d * d - d
    BY <1>2
  <2>3. PICK f \in Int, m \in Int : f = (d - 1) * c /\ m = c * (d - 1)
    OBVIOUS
  <2>4. PICK n \in Int : n = u01 + u10
    OBVIOUS
  <2>5. n <= B - d
    BY <1>2, <2>1, <2>2, <2>3, <2>4
  <2> QED
    BY <2>4, <2>5
<1>8. PICK mid \in 0 .. B - 1 : mid = u01 + u10 /\ (u01 + u10) % B = mid
  BY <1>7, WordWraps
<1>9. PICK mc \in Nat, mr \in 0 .. d - 1 : mid = mc * d + mr /\ mid \div d = mc /\ mid % d = mr
  <2>1. mid \in Nat
    OBVIOUS
  <2> QED
    BY <2>1, CutAt
<1>10. PICK p \in Nat, r \in 0 .. d - 1 : u00 = p * d + r /\ u00 \div d = p /\ u00 % d = r
  BY CutAt
<1>11. PICK mid2 \in Nat : mid2 = p + mr
  OBVIOUS
<1>12. PICK e \in Nat, f \in 0 .. d - 1 : mid2 = e * d + f /\ mid2 \div d = e /\ mid2 % d = f
  BY CutAt
<1>13. PICK fd \in 0 .. B - 1 : fd = f * d /\ fd + r \in 0 .. B - 1
  <2>1. (f + 1) * d <= d * d /\ (f + 1) * d = f * d + d /\ f * d >= 0
    OBVIOUS
  <2>2. PICK fd \in Int : fd = f * d
    OBVIOUS
  <2>3. fd + d <= B /\ fd >= 0
    BY <1>2, <2>1, <2>2
  <2> QED
    BY <2>2, <2>3
<1>14. (mid2 * d) % B = fd
  <2>1. mid2 * d = e * B + fd
    <3>1. (e * d + f) * d = e * (d * d) + f * d
      OBVIOUS
    <3> QED
      BY <1>2, <1>12, <1>13, <3>1
  <2>2. PICK v \in Int : v = mid2 * d
    OBVIOUS
  <2>3. v = e * B + fd /\ e \in Int /\ fd \in 0 .. B - 1
    BY <2>1, <2>2
  <2>4. v % B = fd
    BY <2>3, QuotientUnique
  <2> QED
    BY <2>2, <2>4
<1>15. PICK hi \in Nat, lo \in 0 .. B - 1 : hi = u11 + mc + e /\ lo = fd + r
  BY <1>13
<1>16. k * l = hi * B + lo
  <2>1. (a1 * d + a0) * (b1 * d + b0) = u11 * B + (u01 + u10) * d + u00
    <3>1. (a1 * d + a0) * (b1 * d + b0) = (a1 * b1) * (d * d) + (a0 * b1 + a1 * b0) * d + a0 * b0
      OBVIOUS
    <3> QED
      BY <1>2, <1>6, <3>1
  <2>2. mid * d = mc * B + mr * d
    <3>1. (mc * d + mr) * d = mc * (d * d) + mr * d
      OBVIOUS
    <3> QED
      BY <1>2, <1>9, <3>1
  <2>3. p * d + mr * d = e * B + fd
    <3>1. (p + mr) * d = p * d + mr * d
      OBVIOUS
    <3>2. (e * d + f) * d = e * (d * d) + f * d
      OBVIOUS
    <3> QED
      BY <1>2, <1>11, <1>12, <1>13, <3>1, <3>2
  <2>4. hi * B = u11 * B + mc * B + e * B
    BY <1>15
  <2>5. PICK z1 \in Int, z2 \in Int, z3 \in Int, z4 \in Int, z5 \in Int, z6 \in Int, z7 \in Int :
            /\ z1 = u11 * B /\ z2 = mc * B /\ z3 = e * B /\ z4 = mr * d /\ z5 = p * d
            /\ z6 = hi * B /\ z7 = mid * d
    OBVIOUS
  <2>6. k * l = z1 + z7 + u00
    BY <1>4, <1>5, <1>8, <2>1, <2>5
  <2>7. z7 = z2 + z4 /\ z5 + z4 = z3 + fd /\ z6 = z1 + z2 + z3 /\ u00 = z5 + r
    BY <1>10, <2>2, <2>3, <2>4, <2>5
  <2>8. z1 + z7 + u00 = z6 + lo
    BY <1>15, <2>7
  <2> QED
    BY <2>5, <2>6, <2>8
<1>17. k * l \in 0 .. S * S
  <2>1. k * l <= S * l /\ S * l <= S * S /\ k * l >= 0
    BY <1>4, <1>5
  <2>2. PICK z1 \in Int, z2 \in Int, z3 \in Int : z1 = k * l /\ z2 = S * l /\ z3 = S * S
    OBVIOUS
  <2> QED
    BY <2>1, <2>2
<1>18. hi \in 0 .. B - 1
  <2>1. ASSUME hi >= B PROVE FALSE
    <3>1. hi * B >= B * B
      BY <2>1
    <3>2. B * B = 4 * (S * S) /\ S * S >= 1
      BY <1>1
    <3>3. PICK z1 \in Int, z2 \in Int, z3 \in Int, z4 \in Int : z1 = k * l /\ z2 = hi * B /\ z3 = S * S /\ z4 = B * B
      OBVIOUS
    <3> QED
      BY <1>16, <1>17, <3>1, <3>2, <3>3
  <2> QED
    BY <2>1
<1>19. MulMagnitudes(x, y) = [hi |-> hi, lo |-> lo]
  <2>1. k * 0 = 0 /\ 0 * l = 0
    OBVIOUS
  <2>2. hi + 0 + 0 = hi /\ hi % B = hi
    BY <1>18, WordWraps
  <2>3. MulMagnitudes(x, y) = [hi |-> (u11 + mc + e + k * 0 + 0 * l) % B, lo |-> r + fd]
    BY <1>1, <1>2, <1>4, <1>5, <1>6, <1>8, <1>9, <1>10, <1>11, <1>12, <1>14, ZenonT(40) DEF MulMagnitudes
  <2>4. u11 + mc + e + k * 0 + 0 * l = hi /\ r + fd = lo
    BY <1>15, <2>1
  <2> QED
    BY <2>2, <2>3, <2>4
<1> QED
  BY <1>1, <1>4, <1>5, <1>16, <1>17, <1>18, <1>19 DEF LongLongs, Unsigned

LEMMA MulIsExact ==
  ASSUME NEW x \in LongLongs, NEW y \in LongLongs,
         Value(x) \in LongMin .. LongMax, Value(y) \in LongMin .. LongMax
  PROVE  Value(Mul(x, y)) = Value(x) * Value(y)
<1>1. PICK S \in Nat \ {0, 1}, H \in Nat \ {0} : S = SignBit /\ H = Half /\ H = 2 * (S * S)
  BY Halves
<1>2. PICK v \in -S .. S - 1, w \in -S .. S - 1 : v = Value(x) /\ w = Value(y)
  BY <1>1 DEF LongMin, LongMax
<1>3. PICK k \in 0 .. S, l \in 0 .. S : k = Abs(v) /\ l = Abs(w)
  BY DEF Abs
<1>4. PICK p \in LongLongs : /\ p = MulMagnitudes(Magnitude(x), Magnitude(y))
                            /\ Unsigned(p) = k * l /\ k * l \in 0 .. S * S
  <2>1. /\ Magnitude(x) \in LongLongs /\ Unsigned(Magnitude(x)) = k
        /\ Magnitude(y) \in LongLongs /\ Unsigned(Magnitude(y)) = l
    BY <1>2, <1>3, MagnitudeOf
  <2>2. k <= SignBit /\ l <= SignBit
    BY <1>1
  <2> QED
    BY <1>1, <2>1, <2>2, MulOfLongs
<1>5. PICK u \in Nat, sq \in Nat : u = k * l /\ sq = S * S /\ u <= sq /\ sq >= 2 /\ H = 2 * sq
  <2>1. S * S >= 2 * S
    BY <1>1
  <2>2. PICK sq \in Nat : sq = S * S
    OBVIOUS
  <2>3. sq >= 2
    BY <2>1, <2>2
  <2> QED
    BY <1>1, <1>4, <2>2, <2>3
<1>6. ~IsNegative(p) /\ Value(p) = u
  BY <1>1, <1>4, <1>5, ValueByUnsigned
<1>7. ~Eq(p, MaxLL)
  <2>1. PICK B \in Nat \ {0} : B = Base /\ B = 2 * S
    BY <1>1, Widths
  <2>2. Unsigned(MaxLL) = (S - 1) * B + (B - 1)
    BY <1>1, <2>1 DEF Unsigned, MaxLL
  <2>3. (S - 1) * B + (B - 1) = 2 * (S * S) - 1
    BY <2>1
  <2>4. Unsigned(MaxLL) # Unsigned(p)
    BY <1>4, <1>5, <2>2, <2>3
  <2> QED
    BY <2>4 DEF Eq, Unsigned
<1>8. Mul(x, y) = IF IsNegative(x) # IsNegative(y) THEN Negate(p) ELSE p
  BY <1>4, <1>6, <1>7 DEF Mul
<1>9. Value(Negate(p)) = -u
  <2>1. Unsigned(p) <= Half
    BY <1>1, <1>4, <1>5
  <2> QED
    BY <1>4, <1>5, <2>1, NegateUnsigned
<1>10. (IsNegative(x) <=> v < 0) /\ (IsNegative(y) <=> w < 0)
  BY <1>2, Halves, ValueByUnsigned
<1>11. v * w = IF (v < 0) # (w < 0) THEN -u ELSE u
  <2>1. CASE v < 0 /\ w < 0
    <3>1. k = -v /\ l = -w /\ (-v) * (-w) = v * w
      BY <1>3, <2>1 DEF Abs
    <3> QED
      BY <1>5, <2>1, <3>1
  <2>2. CASE v < 0 /\ ~(w < 0)
    <3>1. k = -v /\ l = w /\ (-v) * w = -(v * w)
      BY <1>3, <2>2 DEF Abs
    <3> QED
      BY <1>5, <2>2, <3>1
  <2>3. CASE ~(v < 0) /\ w < 0
    <3>1. k = v /\ l = -w /\ v * (-w) = -(v * w)
      BY <1>3, <2>3 DEF Abs
    <3> QED
      BY <1>5, <2>3, <3>1
  <2>4. CASE ~(v < 0) /\ ~(w < 0)
    <3>1. k = v /\ l = w
      BY <1>3, <2>4 DEF Abs
    <3> QED
      BY <1>5, <2>4, <3>1
  <2> QED
    BY <2>1, <2>2, <2>3, <2>4
<1>12. (IsNegative(x) # IsNegative(y)) <=> ((v < 0) # (w < 0))
  BY <1>10 DEF IsNegative
<1>13. Value(Mul(x, y)) = IF (v < 0) # (w < 0) THEN -u ELSE u
  BY <1>6, <1>8, <1>9, <1>12
<1> QED
  BY <1>2, <1>11, <1>13

-----------------------------------------------------------------------------
(* Division.                                                               *)

Positive(x, v) == x \in LongLongs /\ Unsigned(x) = v /\ v < Half

\* Numbers that are not negative compare as they read.
LEMMA PositivesCompare ==
  ASSUME NEW x, NEW y, NEW v \in Nat, NEW w \in Nat, Positive(x, v), Positive(y, w)
  PROVE  /\ Lt(x, y) <=> v < w
         /\ Gt(x, y) <=> v > w
         /\ Ge(x, y) <=> v >= w
<1>1. x \in LongLongs /\ y \in LongLongs /\ Unsigned(x) = v /\ Unsigned(y) = w /\ v < Half /\ w < Half
  BY DEF Positive
<1>2. Value(x) = v /\ Value(y) = w
  BY <1>1, Halves, ValueByUnsigned
<1>3. (Lt(x, y) <=> v < w) /\ (Lt(y, x) <=> w < v) /\ (Eq(x, y) <=> v = w)
  BY <1>1, <1>2, OrderIsByValue
<1> QED
  BY <1>3 DEF Gt, Ge

\* Shifting to the left within the positive numbers loses nothing.
LEMMA ShlOfPositive ==
  ASSUME NEW x \in LongLongs, NEW n \in 0 .. 2 * W - 1, NEW v \in Nat, Unsigned(x) * 2^n = v, v < Half
  PROVE  Positive(Shl(x, n), v)
<1>1. PICK H \in Nat \ {0}, sq \in Nat \ {0} : H = Half /\ sq = Base * Base /\ sq = 2 * H
  BY Halves
<1>2. PICK z \in LongLongs : z = Shl(x, n) /\ Dropped(x, n, z)
  BY ShlScales
<1>3. PICK q \in Nat, u \in Nat : u = Unsigned(z) /\ v = q * sq + u
  <2>1. PICK u \in Nat : u = Unsigned(z)
    BY Values
  <2> QED
    BY <1>1, <1>2, <2>1 DEF Dropped
<1>4. q = 0
  <2>1. ASSUME q >= 1 PROVE FALSE
    <3>1. q * sq >= 1 * sq
      BY <2>1
    <3>2. PICK e \in Nat : e = q * sq
      OBVIOUS
    <3> QED
      BY <1>1, <1>3, <3>1, <3>2
  <2> QED
    BY <2>1
<1>5. 0 * sq + u = u
  OBVIOUS
<1>6. v = u
  BY <1>3, <1>4, <1>5
<1> QED
  BY <1>1, <1>2, <1>3, <1>6 DEF Positive

LEMMA HalvePositive ==
  ASSUME NEW x, NEW v \in Nat, Positive(x, 2 * v)
  PROVE  Positive(Shr(x, 1), v)
<1>1. x \in LongLongs /\ Unsigned(x) = 2 * v /\ 2 * v < Half
  BY DEF Positive
<1>2. 1 \in 0 .. 2 * W - 1
  BY WAssumption
<1>3. 2^1 = 2
  OBVIOUS
<1>4. (2 * v) \div 2 = v
  OBVIOUS
<1>5. Shr(x, 1) \in LongLongs /\ Unsigned(Shr(x, 1)) = v
  BY <1>1, <1>2, <1>3, <1>4, ShrScales
<1> QED
  BY <1>1, <1>5, Halves DEF Positive

\* What the rounds start from: the divisor is shifted as far as it fits.
Aligned(start, A, M) ==
  /\ start.shift \in 0 .. 2 * W - 2
  /\ Positive(start.divisor, M * 2^start.shift)
  /\ M * 2^start.shift <= A
  /\ A < M * 2^(start.shift + 1)

LEMMA DivisorAligned ==
  ASSUME NEW x, NEW y, NEW A \in Nat, NEW M \in Nat \ {0},
         Positive(x, A), Positive(y, M), A < 2^(2 * W - 2), M <= A
  PROVE  Aligned(DivisorShift(x, y), A, M)
<1>0. W \in Nat \ {0} /\ 2 * W - 2 \in Nat
  BY WAssumption
<1>1. PICK R \in Nat \ {0}, H \in Nat : R = 2^(2 * W - 2) /\ H = Half /\ H = 2 * R
  BY Halves
<1> DEFINE Reached == {n \in Nat : A <= M * 2^n}
<1>2. 2 * W - 2 \in Reached
  <2>1. M * R >= 1 * R
    OBVIOUS
  <2>2. PICK e \in Nat : e = M * R
    OBVIOUS
  <2> QED
    BY <1>0, <1>1, <2>1, <2>2
<1>3. PICK L \in Reached : \A n \in Reached : L <= n
  <2>1. Reached \in SUBSET Nat /\ Reached # {}
    BY <1>2
  <2> HIDE DEF Reached
  <2> QED
    BY <2>1, Minimum
<1>4. L \in Nat /\ L \in 0 .. 2 * W - 2 /\ A <= M * 2^L /\ \A n \in Nat : n < L => ~(A <= M * 2^n)
  BY <1>0, <1>2, <1>3
<1>5. ASSUME NEW n \in Nat PROVE 2^n \in Nat \ {0} /\ M * 2^n \in Nat /\ M * 2^(n + 1) = 2 * (M * 2^n)
  <2>1. PICK p \in Nat \ {0} : p = 2^n /\ 2^(n + 1) = 2 * p
    BY PowerDoubles
  <2>2. M * (2 * p) = 2 * (M * p) /\ M * p \in Nat
    OBVIOUS
  <2> QED
    BY <2>1, <2>2
<1>6. ASSUME NEW n \in Nat, n < L PROVE M * 2^n < A
  BY <1>4, <1>5, <1>6
<1>7. ASSUME L # 0
      PROVE  L - 1 \in Nat /\ (L - 1) + 1 = L /\ M * 2^(L - 1) < A /\ M * 2^L = 2 * (M * 2^(L - 1))
  <2>1. PICK n \in Nat : n + 1 = L /\ n = L - 1
    <3>1. L - 1 \in Nat /\ (L - 1) + 1 = L
      BY <1>4, <1>7
    <3> QED
      BY <3>1
  <2>2. M * 2^n < A
    BY <1>4, <1>6, <2>1
  <2>3. M * 2^(n + 1) = 2 * (M * 2^n)
    BY <1>5
  <2> QED
    BY <2>1, <2>2, <2>3
<1>8. M * 2^L < H
  <2>1. CASE L = 0
    <3>1. 2^0 = 1 /\ M * 1 = M
      OBVIOUS
    <3> QED
      BY <1>1, <2>1, <3>1
  <2>2. CASE L # 0
    <3>1. PICK e \in Nat : e = M * 2^(L - 1)
      BY <1>5, <1>7, <2>2
    <3>2. e < A /\ M * 2^L = 2 * e
      BY <1>7, <2>2, <3>1
    <3> QED
      BY <1>1, <3>2
  <2> QED
    BY <2>1, <2>2
<1>9. ASSUME NEW n \in 0 .. L PROVE Positive(Shl(y, n), M * 2^n)
  <2>1. n \in Nat /\ n \in 0 .. 2 * W - 1
    BY <1>0, <1>4
  <2>2. M * 2^n < H
    BY <1>1, <1>4, <1>5, <1>6, <1>8, <2>1
  <2>3. y \in LongLongs /\ Unsigned(y) = M
    BY DEF Positive
  <2> QED
    BY <1>1, <1>5, <2>1, <2>2, <2>3, ShlOfPositive
<1>10. \A n \in 0 .. L : Lt(Shl(y, n), x) <=> M * 2^n < A
  <2>1. ASSUME NEW n \in 0 .. L PROVE Lt(Shl(y, n), x) <=> M * 2^n < A
    <3>1. M * 2^n \in Nat
      BY <1>5
    <3> QED
      BY <1>9, <3>1, PositivesCompare
  <2> QED
    BY <2>1
<1> DEFINE stops == {n \in 0 .. 2 * W - 1 : n = 2 * W - 1 \/ ~Lt(Shl(y, n), x)}
<1>11. Min(stops) = L
  <2>1. L \in stops
    <3>1. L \in 0 .. L /\ ~(M * 2^L < A) /\ L \in 0 .. 2 * W - 1
      BY <1>0, <1>4, <1>5
    <3> QED
      BY <1>10, <3>1
  <2>2. \A n \in stops : L <= n
    <3>1. ASSUME NEW n \in stops, n < L PROVE FALSE
      <4>1. n \in Nat /\ n \in 0 .. L /\ n # 2 * W - 1
        BY <1>0, <1>4, <3>1
      <4>2. Lt(Shl(y, n), x)
        BY <1>6, <1>10, <3>1, <4>1
      <4> QED
        BY <3>1, <4>1, <4>2
    <3>2. \A n \in stops : n \in Int
      OBVIOUS
    <3> HIDE DEF stops
    <3> QED
      BY <1>4, <3>1, <3>2
  <2>3. \A n \in stops : n \in Int
    OBVIOUS
  <2> HIDE DEF stops
  <2>4. \A n \in stops : (\A m \in stops : n <= m) => n = L
    BY <1>4, <2>1, <2>2, <2>3
  <2>5. Min(stops) \in stops /\ \A m \in stops : Min(stops) <= m
    BY <2>1, <2>2 DEF Min
  <2> QED
    BY <2>4, <2>5
<1>12. Gt(Shl(y, L), x) <=> M * 2^L > A
  <2>1. PICK e \in Nat : e = M * 2^L /\ L \in 0 .. L
    BY <1>4, <1>5
  <2>2. Positive(Shl(y, L), e)
    BY <1>9, <2>1
  <2>3. Gt(Shl(y, L), x) <=> e > A
    BY <2>2, PositivesCompare
  <2> QED
    BY <2>1, <2>3
<1>13. DivisorShift(x, y) = IF Gt(Shl(y, L), x)
                            THEN [shift |-> L - 1, divisor |-> Shr(Shl(y, L), 1)]
                            ELSE [shift |-> L, divisor |-> Shl(y, L)]
  <2> HIDE DEF stops
  <2>1. DivisorShift(x, y) = IF Gt(Shl(y, Min(stops)), x)
                            THEN [shift |-> Min(stops) - 1, divisor |-> Shr(Shl(y, Min(stops)), 1)]
                            ELSE [shift |-> Min(stops), divisor |-> Shl(y, Min(stops))]
    BY Zenon DEF DivisorShift, stops
  <2> QED
    BY <1>11, <2>1
<1> HIDE DEF stops, Reached
<1>14. CASE M * 2^L > A
  <2>1. L # 0
    <3>1. 2^0 = 1 /\ M * 1 = M /\ ~(M > A)
      OBVIOUS
    <3>2. ASSUME L = 0 PROVE M * 2^L = M
      BY <3>1, <3>2
    <3> QED
      BY <1>14, <3>1, <3>2
  <2>2. PICK n \in Nat : n = L - 1 /\ n + 1 = L /\ n \in 0 .. 2 * W - 2
    BY <1>0, <1>4, <1>7, <2>1
  <2>3. PICK e \in Nat : e = M * 2^n /\ e < A /\ M * 2^(n + 1) = 2 * e
    BY <1>5, <1>7, <2>1, <2>2
  <2>4. Positive(Shl(y, L), 2 * e)
    <3>1. L \in 0 .. L
      BY <1>4
    <3> QED
      BY <1>9, <2>2, <2>3, <3>1
  <2>5. Positive(Shr(Shl(y, L), 1), e)
    BY <2>4, HalvePositive
  <2>6. DivisorShift(x, y) = [shift |-> n, divisor |-> Shr(Shl(y, L), 1)]
    BY <1>12, <1>13, <1>14, <2>2
  <2>7. A < M * 2^(n + 1)
    BY <1>14, <2>2
  <2> QED
    BY <2>2, <2>3, <2>5, <2>6, <2>7 DEF Aligned
<1>15. CASE ~(M * 2^L > A)
  <2>1. PICK e \in Nat : e = M * 2^L /\ e = A /\ M * 2^(L + 1) = 2 * e
    BY <1>4, <1>5, <1>15
  <2>2. Positive(Shl(y, L), e)
    <3>1. L \in 0 .. L
      BY <1>4
    <3> QED
      BY <1>9, <2>1, <3>1
  <2>3. DivisorShift(x, y) = [shift |-> L, divisor |-> Shl(y, L)]
    BY <1>12, <1>13, <1>15
  <2>4. e <= A /\ A < 2 * e
    <3>1. A >= 1
      OBVIOUS
    <3> QED
      BY <2>1, <3>1
  <2> QED
    BY <1>4, <2>1, <2>2, <2>3, <2>4 DEF Aligned
<1> QED
  BY <1>14, <1>15

\* The bit of a round, below the bits that the quotient has so far.
LEMMA BitOfRound ==
  ASSUME NEW n \in 0 .. 2 * W - 2
  PROVE  /\ Shl(FromLong(1), n) \in LongLongs
         /\ n < W => Shl(FromLong(1), n) = [hi |-> 0, lo |-> 2^n] /\ 2^n \in 0 .. Base - 1
         /\ n >= W => Shl(FromLong(1), n) = [hi |-> 2^(n - W), lo |-> 0] /\ 2^(n - W) \in 0 .. Base - 1
<1>0. W \in Nat \ {0} /\ n \in Nat /\ n \in 0 .. 2 * W - 1
  BY WAssumption
<1>1. PICK B \in Nat \ {0, 1} : B = Base
  BY Widths
<1>2. FromLong(1) = [hi |-> 0, lo |-> 1] /\ FromLong(1) \in LongLongs
  <2>1. 1 % B = 1
    <3>1. 1 \in 0 .. B - 1 /\ 1 \in Int
      BY <1>1
    <3> QED
      BY <3>1, WordWraps
  <2> QED
    BY <1>1, <2>1 DEF FromLong, LongLongs
<1>3. /\ Shl(FromLong(1), n) \in LongLongs
      /\ Shl(FromLong(1), n) = [hi |-> ShlHi(FromLong(1), n), lo |-> ShlLo(FromLong(1), n)]
  BY <1>0, <1>2, ShlScales
<1>4. ASSUME NEW m \in Nat, m < W PROVE 2^m \in 0 .. B - 1 /\ (1 * 2^m) % B = 2^m
  <2>1. PICK p \in Nat \ {0} : p = 2^m /\ 2^(m + 1) = 2 * p
    BY PowerDoubles
  <2>2. 2^(m + 1) <= 2^W
    <3>1. m + 1 \in Nat /\ m + 1 <= W /\ W \in Nat
      BY <1>0, <1>4
    <3> QED
      BY <3>1, PowersGrow
  <2>3. p \in 0 .. B - 1
    BY <1>1, <2>1, <2>2 DEF Base
  <2>4. 1 * p = p /\ p % B = p
    BY <2>3, WordWraps
  <2> QED
    BY <2>1, <2>3, <2>4
<1>5. ASSUME n < W
      PROVE  Shl(FromLong(1), n) = [hi |-> 0, lo |-> 2^n] /\ 2^n \in 0 .. Base - 1
  <2>1. W - n \in Nat \ {0} /\ n \in Nat
    BY <1>0, <1>5
  <2>2. PICK p \in Nat, q \in Nat : p = 2^n /\ q = 2^(W - n) /\ q >= 2
    <3>1. PICK m \in Nat : m + 1 = W - n
      <4>1. (W - n) - 1 \in Nat /\ ((W - n) - 1) + 1 = W - n
        BY <2>1
      <4> QED
        BY <4>1
    <3>2. 2^(m + 1) = 2 * 2^m /\ 2^m \in Nat \ {0} /\ 2^n \in Nat
      BY <2>1, PowerDoubles
    <3>3. PICK e \in Nat \ {0} : e = 2^m
      BY <3>2
    <3>4. 2^(W - n) = 2 * e
      BY <3>1, <3>2, <3>3
    <3> QED
      BY <3>2, <3>4
  <2>3. 1 \div q = 0
    <3>1. 1 = 0 * q + 1 /\ 1 \in 0 .. q - 1 /\ q \in Nat \ {0} /\ 1 \in Int /\ 0 \in Int
      BY <2>2
    <3> QED
      BY <3>1, QuotientUnique
  <2>4. (0 * p + 0) % B = 0
    <3>1. 0 * p + 0 = 0 /\ 0 \in 0 .. B - 1
      OBVIOUS
    <3> QED
      BY <3>1, WordWraps
  <2>5. (1 * p) % B = p /\ p \in 0 .. B - 1
    BY <1>4, <1>5, <2>1, <2>2
  <2>6. ShlHi(FromLong(1), n) = (0 * p + (1 \div q)) % B /\ ShlLo(FromLong(1), n) = (1 * p) % B
    BY <1>0, <1>1, <1>2, <1>5, <2>2 DEF ShlHi, ShlLo
  <2> QED
    BY <1>1, <1>3, <2>2, <2>3, <2>4, <2>5, <2>6
<1>6. ASSUME n >= W
      PROVE  Shl(FromLong(1), n) = [hi |-> 2^(n - W), lo |-> 0] /\ 2^(n - W) \in 0 .. Base - 1
  <2>1. PICK m \in Nat : m = n - W /\ m < W
    BY <1>0, <1>6
  <2>2. 2^m \in 0 .. B - 1 /\ (1 * 2^m) % B = 2^m
    BY <1>4, <2>1
  <2>3. ShlHi(FromLong(1), n) = (1 * 2^m) % B /\ ShlLo(FromLong(1), n) = 0
    BY <1>1, <1>2, <1>6, <2>1 DEF ShlHi, ShlLo
  <2> QED
    BY <1>1, <1>3, <2>1, <2>2, <2>3
<1> QED
  BY <1>0, <1>3, <1>5, <1>6

LEMMA OrSetsBit ==
  ASSUME NEW x \in LongLongs, NEW n \in 0 .. 2 * W - 2, NEW c \in Nat, Unsigned(x) = c * 2^(n + 1)
  PROVE  /\ Or(x, Shl(FromLong(1), n)) \in LongLongs
         /\ Unsigned(Or(x, Shl(FromLong(1), n))) = Unsigned(x) + 2^n
<1>0. W \in Nat \ {0} /\ n \in Nat
  BY WAssumption
<1>1. PICK B \in Nat \ {0, 1} : B = Base
  BY Widths
<1>2. PICK h \in 0 .. B - 1, l \in 0 .. B - 1 : x = [hi |-> h, lo |-> l] /\ x.hi = h /\ x.lo = l
  BY <1>1 DEF LongLongs
<1>3. Unsigned(x) = h * B + l
  BY <1>1, <1>2 DEF Unsigned
<1>4. PICK e \in LongLongs : e = Shl(FromLong(1), n)
  BY BitOfRound
<1>5. Or(x, e) = [hi |-> OrWord(h, e.hi), lo |-> OrWord(l, e.lo)]
  BY <1>2 DEF Or
<1>6. ASSUME NEW v \in 0 .. B - 1 PROVE OrWord(v, 0) = v
  <2>1. 2^0 = 1 /\ v = v * 1 /\ v \in Nat /\ v + 0 = v
    OBVIOUS
  <2>2. v = v * 2^0 /\ 0 \in 0 .. 2^0 - 1 /\ 0 \in 0 .. W /\ v \in 0 .. Base - 1
    BY <1>0, <1>1, <2>1
  <2>3. OrWord(v, 0) = v + 0
    BY <2>1, <2>2, OrAdds, ZenonT(40)
  <2> QED
    BY <2>1, <2>3
<1>7. CASE n < W
  <2>1. PICK p \in Nat \ {0} : p = 2^n /\ 2^(n + 1) = 2 * p
    BY <1>0, PowerDoubles
  <2>2. PICK k \in Nat : B = k * (2 * p)
    <3>1. n + 1 \in 0 .. W
      BY <1>0, <1>7
    <3>2. Base = 2^(n + 1) * 2^(W - (n + 1)) /\ 2^(W - (n + 1)) \in Nat \ {0}
      BY <3>1, PowersInWord
    <3>3. PICK k \in Nat : k = 2^(W - (n + 1))
      BY <3>2
    <3> QED
      BY <1>1, <2>1, <3>2, <3>3
  <2>3. PICK d \in Nat : l = d * (2 * p)
    <3>1. l = (c - h * k) * (2 * p)
      <4>1. h * B = (h * k) * (2 * p)
        <5>1. h * (k * (2 * p)) = (h * k) * (2 * p)
          OBVIOUS
        <5> QED
          BY <2>2, <5>1
      <4>2. (c - h * k) * (2 * p) = c * (2 * p) - (h * k) * (2 * p)
        OBVIOUS
      <4>3. c * (2 * p) = h * B + l
        BY <1>3, <2>1
      <4>4. PICK z1 \in Int, z2 \in Int, z3 \in Int : z1 = h * B /\ z2 = c * (2 * p) /\ z3 = (h * k) * (2 * p)
        OBVIOUS
      <4> QED
        BY <4>1, <4>2, <4>3, <4>4
    <3>2. PICK d \in Int : d = c - h * k
      OBVIOUS
    <3>3. d >= 0
      <4>1. ASSUME d <= -1 PROVE FALSE
        <5>1. d * (2 * p) <= (-1) * (2 * p)
          BY <4>1
        <5>2. PICK z1 \in Int : z1 = d * (2 * p)
          OBVIOUS
        <5> QED
          BY <3>1, <3>2, <5>1, <5>2
      <4> QED
        BY <4>1
    <3> QED
      BY <3>1, <3>2, <3>3
  <2>4. OrWord(l, p) = l + p /\ l + p \in 0 .. Base - 1
    <3>1. n + 1 \in 0 .. W /\ l \in 0 .. Base - 1 /\ l = d * 2^(n + 1) /\ p \in 0 .. 2^(n + 1) - 1
      BY <1>0, <1>1, <1>7, <2>1, <2>3
    <3> QED
      BY <3>1, OrAdds
  <2>5. e.hi = 0 /\ e.lo = p
    BY <1>4, <1>7, <2>1, BitOfRound
  <2>6. Or(x, e) = [hi |-> h, lo |-> l + p]
    BY <1>5, <1>6, <2>4, <2>5
  <2>7. Unsigned(Or(x, e)) = h * B + (l + p)
    BY <1>1, <2>6 DEF Unsigned
  <2>8. h * B + (l + p) = (h * B + l) + p
    OBVIOUS
  <2> QED
    BY <1>1, <1>3, <1>4, <2>1, <2>4, <2>6, <2>7, <2>8 DEF LongLongs
<1>8. CASE n >= W
  <2>1. PICK m \in Nat : m = n - W /\ m + W = n /\ m + 1 \in 0 .. W /\ (m + 1) + W = n + 1
    BY <1>0, <1>8
  <2>2. PICK p \in Nat \ {0} : p = 2^m /\ 2^(m + 1) = 2 * p
    BY <2>1, PowerDoubles
  <2>3. 2^n = p * B /\ 2^(n + 1) = (2 * p) * B
    <3>1. 2^(m + W) = 2^m * 2^W /\ 2^((m + 1) + W) = 2^(m + 1) * 2^W
      BY <1>0, <2>1, PowersMultiply
    <3> QED
      BY <1>1, <2>1, <2>2, <3>1 DEF Base
  <2>4. h = c * (2 * p) /\ l = 0
    <3>1. PICK g \in Nat : g = c * (2 * p)
      OBVIOUS
    <3>2. c * ((2 * p) * B) = (c * (2 * p)) * B
      OBVIOUS
    <3>3. h * B + l = g * B + 0
      BY <1>3, <2>3, <3>1, <3>2
    <3>4. PICK v \in Int : v = h * B + l
      OBVIOUS
    <3>5. v \div B = h /\ v % B = l
      BY <3>4, QuotientUnique
    <3>6. v \div B = g /\ v % B = 0
      <4>1. v = g * B + 0 /\ 0 \in 0 .. B - 1 /\ g \in Int
        BY <3>3, <3>4
      <4> QED
        BY <4>1, QuotientUnique
    <3> QED
      BY <3>1, <3>5, <3>6
  <2>5. OrWord(h, p) = h + p /\ h + p \in 0 .. Base - 1
    <3>1. h \in 0 .. Base - 1 /\ h = c * 2^(m + 1) /\ p \in 0 .. 2^(m + 1) - 1
      BY <1>1, <2>2, <2>4
    <3> QED
      BY <2>1, <3>1, OrAdds
  <2>6. e.hi = p /\ e.lo = 0
    BY <1>4, <1>8, <2>1, <2>2, BitOfRound
  <2>7. Or(x, e) = [hi |-> h + p, lo |-> l]
    BY <1>5, <1>6, <2>5, <2>6
  <2>8. Unsigned(Or(x, e)) = (h + p) * B + l
    BY <1>1, <2>7 DEF Unsigned
  <2>9. (h + p) * B + l = (h * B + l) + p * B
    OBVIOUS
  <2> QED
    BY <1>1, <1>3, <1>4, <2>3, <2>5, <2>7, <2>8, <2>9 DEF LongLongs
<1> QED
  BY <1>0, <1>7, <1>8

\* The state of the rounds after the one for shift n: what is taken off the
\* dividend is the quotient so far times the divisor.
RoundStates == [q : LongLongs, dividend : LongLongs, divisor : LongLongs]
AfterRound(r, n, A, M) ==
  /\ r \in RoundStates
  /\ \E c \in Nat, rest \in Nat :
       /\ Unsigned(r.q) = c * 2^n
       /\ Positive(r.dividend, rest)
       /\ rest < M * 2^n
       /\ A = (c * 2^n) * M + rest
  /\ n # 0 => M * 2^(n - 1) <= A /\ Positive(r.divisor, M * 2^(n - 1))

LEMMA RoundsStay ==
  ASSUME NEW r \in RoundStates, NEW n \in 0 .. 2 * W - 2
  PROVE  DivRound(r, n) \in RoundStates
<1>1. r.q \in LongLongs /\ r.dividend \in LongLongs /\ r.divisor \in LongLongs
  BY DEF RoundStates
<1>2. Sub(r.dividend, r.divisor) \in LongLongs
  BY <1>1, SubWraps
<1>3. Shr(r.divisor, 1) \in LongLongs
  <2>1. 1 \in 0 .. 2 * W - 1
    BY WAssumption
  <2> QED
    BY <1>1, <2>1, ShrScales
<1>4. Or(r.q, Shl(FromLong(1), n)) \in LongLongs
  <2>1. PICK e \in LongLongs : e = Shl(FromLong(1), n)
    BY BitOfRound
  <2>2. ASSUME NEW v \in 0 .. Base - 1, NEW w \in 0 .. Base - 1 PROVE OrWord(v, w) \in 0 .. Base - 1
    <3>1. BitsOf(v) \cup BitsOf(w) \in SUBSET BitPlaces
      BY WordOfBits
    <3> QED
      BY <3>1, BitsOfWord DEF OrWord
  <2>3. e.hi \in 0 .. Base - 1 /\ e.lo \in 0 .. Base - 1 /\ r.q.hi \in 0 .. Base - 1 /\ r.q.lo \in 0 .. Base - 1
    BY <1>1, Values
  <2>4. OrWord(r.q.hi, e.hi) \in 0 .. Base - 1 /\ OrWord(r.q.lo, e.lo) \in 0 .. Base - 1
    BY <2>2, <2>3
  <2> QED
    BY <2>1, <2>4 DEF Or, LongLongs
<1> QED
  BY <1>1, <1>2, <1>3, <1>4 DEF DivRound, RoundStates

LEMMA RoundKeeps ==
  ASSUME NEW r, NEW n \in 0 .. 2 * W - 2, NEW A \in Nat, NEW M \in Nat \ {0},
         AfterRound(r, n + 1, A, M)
  PROVE  AfterRound(DivRound(r, n), n, A, M)
<1>0. n \in Nat /\ n + 1 # 0 /\ (n + 1) - 1 = n /\ r \in RoundStates
  BY DEF AfterRound
<1>1. PICK p \in Nat \ {0} : p = 2^n /\ 2^(n + 1) = 2 * p
  BY <1>0, PowerDoubles
<1>2. PICK Mp \in Nat : Mp = M * p
  OBVIOUS
<1>3. PICK c \in Nat, rest \in Nat :
            /\ Unsigned(r.q) = c * 2^(n + 1)
            /\ Positive(r.dividend, rest)
            /\ rest < M * 2^(n + 1)
            /\ A = (c * 2^(n + 1)) * M + rest
  BY DEF AfterRound
<1>4. Positive(r.divisor, Mp) /\ Mp <= A
  BY <1>0, <1>1, <1>2 DEF AfterRound
<1>5. DivRound(r, n) \in RoundStates
  BY <1>0, RoundsStay
<1>6. Ge(r.dividend, r.divisor) <=> rest >= Mp
  BY <1>3, <1>4, PositivesCompare
<1>7. rest < 2 * Mp
  <2>1. M * (2 * p) = 2 * (M * p)
    OBVIOUS
  <2> QED
    BY <1>1, <1>2, <1>3, <2>1
<1>8. n # 0 => M * 2^(n - 1) <= A /\ Positive(DivRound(r, n).divisor, M * 2^(n - 1))
  <2> SUFFICES ASSUME n # 0 PROVE M * 2^(n - 1) <= A /\ Positive(DivRound(r, n).divisor, M * 2^(n - 1))
    OBVIOUS
  <2>1. PICK m \in Nat : m = n - 1 /\ m + 1 = n
    <3>1. n - 1 \in Nat /\ (n - 1) + 1 = n
      BY <1>0
    <3> QED
      BY <3>1
  <2>2. PICK s \in Nat : s = 2^m /\ 2^(m + 1) = 2 * s
    BY PowerDoubles
  <2>3. PICK Ms \in Nat : Ms = M * s
    OBVIOUS
  <2>4. Mp = 2 * Ms
    <3>1. M * (2 * s) = 2 * (M * s)
      OBVIOUS
    <3> QED
      BY <1>1, <1>2, <2>1, <2>2, <2>3, <3>1
  <2>5. Positive(Shr(r.divisor, 1), Ms)
    BY <1>4, <2>4, HalvePositive
  <2>6. DivRound(r, n).divisor = Shr(r.divisor, 1)
    BY DEF DivRound
  <2>7. Ms <= A
    BY <1>4, <2>4
  <2> QED
    BY <2>1, <2>2, <2>3, <2>5, <2>6, <2>7
<1>9. CASE rest < Mp
  <2>1. DivRound(r, n).q = r.q /\ DivRound(r, n).dividend = r.dividend
    BY <1>6, <1>9 DEF DivRound
  <2>2. PICK d \in Nat : d = 2 * c
    OBVIOUS
  <2>3. c * (2 * p) = d * p
    BY <2>2
  <2>4. /\ Unsigned(DivRound(r, n).q) = d * 2^n
        /\ Positive(DivRound(r, n).dividend, rest)
        /\ rest < M * 2^n
        /\ A = (d * 2^n) * M + rest
    BY <1>1, <1>2, <1>3, <1>9, <2>1, <2>3
  <2> QED
    BY <1>5, <1>8, <2>4 DEF AfterRound
<1>10. CASE rest >= Mp
  <2>1. /\ DivRound(r, n).q = Or(r.q, Shl(FromLong(1), n))
        /\ DivRound(r, n).dividend = Sub(r.dividend, r.divisor)
    BY <1>6, <1>10 DEF DivRound
  <2>2. PICK d \in Nat : d = 2 * c + 1
    OBVIOUS
  <2>3. c * (2 * p) + p = d * p
    <3>1. (2 * c + 1) * p = c * (2 * p) + p
      OBVIOUS
    <3> QED
      BY <2>2, <3>1
  <2>4. Unsigned(DivRound(r, n).q) = d * 2^n
    <3>1. r.q \in LongLongs
      BY <1>0 DEF RoundStates
    <3>2. Unsigned(Or(r.q, Shl(FromLong(1), n))) = Unsigned(r.q) + 2^n
      BY <1>3, <3>1, OrSetsBit
    <3> QED
      BY <1>1, <1>3, <2>1, <2>3, <3>2
  <2>5. PICK left \in Nat : left = rest - Mp /\ left < Mp
    BY <1>7, <1>10
  <2>6. Positive(DivRound(r, n).dividend, left)
    <3>1. PICK H \in Nat \ {0}, sq \in Nat \ {0} : H = Half /\ sq = Base * Base /\ sq = 2 * H
      BY Halves
    <3>2. /\ r.dividend \in LongLongs /\ Unsigned(r.dividend) = rest /\ rest < H
          /\ r.divisor \in LongLongs /\ Unsigned(r.divisor) = Mp /\ Mp < H
      BY <1>3, <1>4, <3>1 DEF Positive
    <3>3. Value(r.dividend) = rest /\ Value(r.divisor) = Mp
      BY <3>1, <3>2, ValueByUnsigned
    <3>4. Sub(r.dividend, r.divisor) = OfValue(left)
      BY <2>5, <3>2, <3>3, SubWraps
    <3>5. left % sq = left
      <4>1. left \in 0 .. sq - 1 /\ left \in Int
        BY <2>5, <3>1, <3>2
      <4> QED
        BY <4>1, WordWraps
    <3>6. OfValue(left) \in LongLongs /\ Unsigned(OfValue(left)) = left
      BY <3>1, <3>5, OfValueWraps
    <3> QED
      BY <2>1, <2>5, <3>1, <3>2, <3>4, <3>6 DEF Positive
  <2>7. A = (d * p) * M + left
    <3>1. (c * (2 * p) + p) * M = (c * (2 * p)) * M + M * p
      OBVIOUS
    <3>2. PICK z1 \in Int : z1 = (c * (2 * p)) * M
      OBVIOUS
    <3>3. A = z1 + rest /\ (d * p) * M = z1 + Mp
      BY <1>1, <1>2, <1>3, <2>3, <3>1, <3>2
    <3> QED
      BY <2>5, <3>3
  <2>8. left < M * p
    BY <1>2, <2>5
  <2> QED
    BY <1>1, <1>5, <1>8, <2>4, <2>6, <2>7, <2>8 DEF AfterRound
<1> QED
  BY <1>9, <1>10

\* The rounds, as a function from the shift to the state after its round.
RoundAt(x, start, g, n) ==
  IF n = start.shift + 1
  THEN [q |-> Zero, dividend |-> x, divisor |-> start.divisor]
  ELSE DivRound(g[n + 1], n)
Divided(r, A, M) ==
  /\ r.q \in LongLongs /\ r.dividend \in LongLongs
  /\ Unsigned(r.q) = A \div M
  /\ Unsigned(r.dividend) = A % M

LEMMA RoundsDivide ==
  ASSUME NEW x, NEW start, NEW A \in Nat, NEW M \in Nat \ {0},
         Positive(x, A), Aligned(start, A, M)
  PROVE  Divided(DivRounds(x, start), A, M)
<1>0. /\ start.shift \in 0 .. 2 * W - 2
      /\ Positive(start.divisor, M * 2^start.shift)
      /\ M * 2^start.shift <= A
      /\ A < M * 2^(start.shift + 1)
      /\ 2 * W - 2 \in Nat
  BY WAssumption DEF Aligned
<1>1. PICK s \in Nat : s = start.shift /\ s \in 0 .. 2 * W - 2
  BY <1>0
<1> DEFINE D == 0 .. s + 1
           m == [n \in D |-> s + 1 - n]
           F == [z \in D \X [D -> RoundStates] |-> RoundAt(x, start, z[2], z[1])]
           round == CHOOSE g : g = [n \in 0 .. start.shift + 1 |-> RoundAt(x, start, g, n)]
<1>2. DivRounds(x, start) = round[0]
  BY Zenon DEF DivRounds, RoundAt
<1>3. \A n \in D, g \in [D -> RoundStates] : F[<<n, g>>] = RoundAt(x, start, g, n)
  OBVIOUS
<1>4. m \in [D -> Nat] /\ \A n \in D : m[n] = s + 1 - n
  OBVIOUS
<1>5. x \in LongLongs /\ start.divisor \in LongLongs /\ Zero \in LongLongs
  BY <1>0, ZeroValue DEF Positive
<1>6. [q |-> Zero, dividend |-> x, divisor |-> start.divisor] \in RoundStates
  BY <1>5 DEF RoundStates
<1>7. \A n \in D : n # s + 1 => n + 1 \in D /\ n \in 0 .. 2 * W - 2 /\ m[n + 1] < m[n]
  <2>1. ASSUME NEW n \in D, n # s + 1
        PROVE  n + 1 \in D /\ n \in 0 .. 2 * W - 2 /\ m[n + 1] < m[n]
    <3>1. PICK top \in Nat : top = 2 * W - 2 /\ s <= top
      BY <1>0, <1>1
    <3>2. n + 1 \in D /\ n \in 0 .. top
      BY <2>1, <3>1
    <3>3. m[n + 1] = s + 1 - (n + 1) /\ m[n] = s + 1 - n
      BY <1>4, <3>2
    <3>4. s + 1 - (n + 1) < s + 1 - n
      BY <3>2
    <3> QED
      BY <3>1, <3>2, <3>3, <3>4
  <2> QED
    BY <2>1
<1>8. ASSUME NEW n \in D, NEW g \in [D -> RoundStates] PROVE RoundAt(x, start, g, n) \in RoundStates
  <2>1. CASE n = s + 1
    BY <1>1, <1>6, <2>1 DEF RoundAt
  <2>2. CASE n # s + 1
    <3>1. n + 1 \in D /\ n \in 0 .. 2 * W - 2
      BY <1>7, <2>2
    <3>2. g[n + 1] \in RoundStates
      BY <3>1
    <3>3. DivRound(g[n + 1], n) \in RoundStates
      BY <3>1, <3>2, RoundsStay
    <3> QED
      BY <1>1, <2>2, <3>3 DEF RoundAt
  <2> QED
    BY <2>1, <2>2
<1>9. ASSUME NEW n \in D, NEW g \in [D -> RoundStates], NEW h \in [D -> RoundStates],
             \A y \in D : m[y] < m[n] => g[y] = h[y]
      PROVE  RoundAt(x, start, g, n) = RoundAt(x, start, h, n)
  <2>1. CASE n = s + 1
    BY <1>1, <2>1 DEF RoundAt
  <2>2. CASE n # s + 1
    <3>1. g[n + 1] = h[n + 1]
      BY <1>7, <1>9, <2>2
    <3> QED
      BY <1>1, <2>2, <3>1 DEF RoundAt
  <2> QED
    BY <2>1, <2>2
<1>10. RoundStates # {}
  BY <1>6
<1>11. D = 0 .. start.shift + 1
  BY <1>1
<1> HIDE DEF F, D, m
<1>12. Local(F, D, RoundStates, m)
  BY <1>3, <1>9 DEF Local
<1>13. Descends(F, D, RoundStates, m)
  BY <1>3, <1>4, <1>8, <1>10, <1>12 DEF Descends
<1>14. PICK f : Solves(f, F, D, RoundStates)
  BY <1>13, Recursion
<1>15. f = [n \in 0 .. start.shift + 1 |-> RoundAt(x, start, f, n)]
  BY <1>3, <1>11, <1>14 DEF Solves
<1>16. round = [n \in 0 .. start.shift + 1 |-> RoundAt(x, start, round, n)]
  BY <1>15
<1> HIDE DEF round
<1>17. \A n \in D : round[n] = RoundAt(x, start, round, n)
  BY <1>11, <1>16, Zenon
<1>18. AfterRound(round[s + 1], s + 1, A, M)
  <2>1. s + 1 \in D
    BY DEF D
  <2>2. round[s + 1] = [q |-> Zero, dividend |-> x, divisor |-> start.divisor]
    BY <1>1, <1>17, <2>1 DEF RoundAt
  <2>3. Unsigned(Zero) = 0
    <3>1. PICK B \in Nat : B = Base
      BY Widths
    <3>2. 0 * B + 0 = 0
      OBVIOUS
    <3> QED
      BY <3>1, <3>2 DEF Unsigned, Zero
  <2>4. PICK p \in Nat : p = 2^(s + 1)
    BY PowerDoubles
  <2>5. 0 * p = 0 /\ 0 * M = 0 /\ A = 0 + A
    OBVIOUS
  <2>6. A = (0 * p) * M + A
    BY <2>5
  <2>7. (s + 1) - 1 = s /\ s + 1 # 0
    OBVIOUS
  <2>8. /\ Unsigned(Zero) = 0 * 2^(s + 1)
        /\ Positive(x, A)
        /\ A < M * 2^(s + 1)
        /\ A = (0 * 2^(s + 1)) * M + A
    BY <1>0, <1>1, <2>3, <2>4, <2>5, <2>6
  <2> DEFINE r == round[s + 1]
  <2>9. r \in RoundStates /\ r.q = Zero /\ r.dividend = x /\ r.divisor = start.divisor
    BY <1>6, <2>2
  <2> HIDE DEF r
  <2>10. M * 2^((s + 1) - 1) <= A /\ Positive(r.divisor, M * 2^((s + 1) - 1))
    BY <1>0, <1>1, <2>7, <2>9
  <2>11. AfterRound(r, s + 1, A, M)
    BY <2>8, <2>9, <2>10 DEF AfterRound
  <2> QED
    BY <2>11 DEF r
<1> DEFINE T == {k \in Nat : k <= s + 1 => AfterRound(round[s + 1 - k], s + 1 - k, A, M)}
<1>19. 0 \in T
  <2>1. s + 1 - 0 = s + 1
    OBVIOUS
  <2> QED
    BY <1>18, <2>1
<1>20. ASSUME NEW k \in Nat, k \in T PROVE k + 1 \in T
  <2> SUFFICES ASSUME k + 1 <= s + 1
               PROVE  AfterRound(round[s + 1 - (k + 1)], s + 1 - (k + 1), A, M)
    OBVIOUS
  <2>1. PICK n \in Nat : n = s + 1 - (k + 1) /\ n + 1 = s + 1 - k /\ n \in D /\ n # s + 1
                         /\ n \in 0 .. 2 * W - 2 /\ k <= s + 1
    <3>1. PICK n \in Nat : n = s + 1 - (k + 1) /\ n + 1 = s + 1 - k /\ n < s + 1 /\ k <= s + 1
      <4>1. s + 1 - (k + 1) \in Nat /\ (s + 1 - (k + 1)) + 1 = s + 1 - k
            /\ s + 1 - (k + 1) < s + 1 /\ k <= s + 1
        OBVIOUS
      <4> QED
        BY <4>1
    <3>2. n \in D /\ n # s + 1
      BY <3>1 DEF D
    <3>3. n \in 0 .. 2 * W - 2
      BY <1>7, <3>2
    <3> QED
      BY <3>1, <3>2, <3>3
  <2>2. AfterRound(round[n + 1], n + 1, A, M)
    BY <1>20, <2>1
  <2>3. round[n] = DivRound(round[n + 1], n)
    BY <1>1, <1>17, <2>1 DEF RoundAt
  <2>4. AfterRound(DivRound(round[n + 1], n), n, A, M)
    BY <2>1, <2>2, RoundKeeps
  <2> QED
    BY <2>1, <2>3, <2>4
<1> HIDE DEF T
<1>21. s + 1 \in T
  BY <1>19, <1>20, Induction
<1>22. AfterRound(round[0], 0, A, M)
  <2>1. s + 1 - (s + 1) = 0 /\ s + 1 <= s + 1
    OBVIOUS
  <2> QED
    BY <1>21, <2>1 DEF T
<1> DEFINE r == round[0]
<1>23. AfterRound(r, 0, A, M) /\ DivRounds(x, start) = r
  BY <1>2, <1>22
<1> HIDE DEF r
<1>24. PICK c \in Nat, rest \in Nat :
            /\ Unsigned(r.q) = c * 2^0
            /\ Positive(r.dividend, rest)
            /\ rest < M * 2^0
            /\ A = (c * 2^0) * M + rest
  BY <1>23 DEF AfterRound
<1>25. 2^0 = 1
  OBVIOUS
<1>26. c * 1 = c /\ M * 1 = M
  OBVIOUS
<1>27. A = c * M + rest /\ rest \in 0 .. M - 1 /\ Unsigned(r.q) = c
  BY <1>24, <1>25, <1>26
<1>28. A \div M = c /\ A % M = rest
  <2>1. A \in Int /\ c \in Int
    OBVIOUS
  <2> QED
    BY <1>27, <2>1, QuotientUnique
<1>29. r.q \in LongLongs
  BY <1>23 DEF AfterRound, RoundStates
<1> QED
  BY <1>23, <1>24, <1>27, <1>28, <1>29 DEF Divided, Positive

LEMMA MagnitudesDivide ==
  ASSUME NEW x, NEW y, NEW A \in Nat, NEW M \in Nat \ {0},
         Positive(x, A), Positive(y, M), A < 2^(2 * W - 2)
  PROVE  Divided(LongDivision(x, y), A, M)
<1>1. Lt(x, y) <=> A < M
  BY PositivesCompare
<1>2. CASE A < M
  <2>1. LongDivision(x, y) = [q |-> Zero, dividend |-> x]
    BY <1>1, <1>2 DEF LongDivision
  <2>2. A \div M = 0 /\ A % M = A
    <3>1. A = 0 * M + A /\ A \in 0 .. M - 1 /\ A \in Int
      BY <1>2
    <3> QED
      BY <3>1, QuotientUnique
  <2>3. Unsigned(Zero) = 0
    <3>1. PICK B \in Nat : B = Base
      BY Widths
    <3>2. 0 * B + 0 = 0
      OBVIOUS
    <3> QED
      BY <3>1, <3>2 DEF Unsigned, Zero
  <2> QED
    BY <2>1, <2>2, <2>3, ZeroValue DEF Divided, Positive
<1>3. CASE ~(A < M)
  <2>1. M <= A
    BY <1>3
  <2>2. LongDivision(x, y) = DivRounds(x, DivisorShift(x, y))
    BY <1>1, <1>3 DEF LongDivision
  <2> QED
    BY <2>1, <2>2, DivisorAligned, RoundsDivide
<1> QED
  BY <1>2, <1>3

\* Quotients and remainders of magnitudes with their signs.
LEMMA SignsTruncate ==
  ASSUME NEW v \in Int, NEW w \in Int, w # 0
  PROVE  /\ Truncated(v, w) = IF (v < 0) = (w < 0) THEN Abs(v) \div Abs(w) ELSE -(Abs(v) \div Abs(w))
         /\ v - Truncated(v, w) * w = IF v < 0 THEN -(Abs(v) % Abs(w)) ELSE Abs(v) % Abs(w)
<1>1. PICK A \in Nat, M \in Nat \ {0} : A = Abs(v) /\ M = Abs(w)
  BY DEF Abs
<1>2. PICK q \in Nat, r \in Nat : A = q * M + r /\ A \div M = q /\ A % M = r
  BY CutAt
<1>3. Truncated(v, w) = IF (v < 0) = (w < 0) THEN q ELSE -q
  BY <1>1, <1>2 DEF Truncated
<1>4. PICK t \in Int : t = Truncated(v, w)
  BY <1>3
<1>5. v - t * w = IF v < 0 THEN -r ELSE r
  <2>1. CASE v < 0 /\ w < 0
    <3>1. v = -(q * M + r) /\ w = -M /\ t = q /\ q * (-M) = -(q * M)
      BY <1>1, <1>2, <1>3, <1>4, <2>1 DEF Abs
    <3>2. PICK e \in Int : e = q * M
      OBVIOUS
    <3> QED
      BY <2>1, <3>1, <3>2
  <2>2. CASE v < 0 /\ ~(w < 0)
    <3>1. v = -(q * M + r) /\ w = M /\ t = -q /\ (-q) * M = -(q * M)
      BY <1>1, <1>2, <1>3, <1>4, <2>2 DEF Abs
    <3>2. PICK e \in Int : e = q * M
      OBVIOUS
    <3> QED
      BY <2>2, <3>1, <3>2
  <2>3. CASE ~(v < 0) /\ w < 0
    <3>1. v = q * M + r /\ w = -M /\ t = -q /\ (-q) * (-M) = q * M
      BY <1>1, <1>2, <1>3, <1>4, <2>3 DEF Abs
    <3>2. PICK e \in Int : e = q * M
      OBVIOUS
    <3> QED
      BY <2>3, <3>1, <3>2
  <2>4. CASE ~(v < 0) /\ ~(w < 0)
    <3>1. v = q * M + r /\ w = M /\ t = q
      BY <1>1, <1>2, <1>3, <1>4, <2>4 DEF Abs
    <3>2. PICK e \in Int : e = q * M
      OBVIOUS
    <3> QED
      BY <2>4, <3>1, <3>2
  <2> QED
    BY <2>1, <2>2, <2>3, <2>4
<1> QED
  BY <1>1, <1>2, <1>3, <1>4, <1>5

LEMMA DivisionIsTruncated ==
  ASSUME NEW x \in LongLongs, NEW y \in LongLongs,
         Abs(Value(x)) < 2^(2 * W - 2), ~IsZero(y), y # MinLL
  PROVE  /\ Value(Div(x, y)) = Truncated(Value(x), Value(y))
         /\ Value(Mod(x, y)) = Value(x) - Truncated(Value(x), Value(y)) * Value(y)
<1>1. PICK R \in Nat \ {0}, H \in Nat : R = 2^(2 * W - 2) /\ H = Half /\ H = 2 * R
  BY Halves
<1>2. PICK v \in Int, w \in Int : v = Value(x) /\ w = Value(y)
  BY Values
<1>3. w # 0 /\ Abs(w) < H
  <2>1. PICK u \in 0 .. 2 * H - 1 : u = Unsigned(y) /\ w = (IF u >= H THEN u - 2 * H ELSE u)
    BY <1>1, <1>2, ValueByUnsigned
  <2>2. u # 0
    <3>1. PICK B \in Nat : B = Base
      BY Widths
    <3>2. 0 * B + 0 = 0 /\ Zero \in LongLongs
      BY ZeroValue
    <3>3. Unsigned(Zero) = 0
      BY <3>1, <3>2 DEF Unsigned, Zero
    <3>4. u = 0 => y = Zero
      BY <2>1, <3>2, <3>3, UnsignedTells
    <3> QED
      BY <3>4 DEF IsZero, Zero
  <2>3. u # H
    <3>1. PICK B \in Nat \ {0}, S \in Nat : B = Base /\ S = SignBit /\ B = 2 * S
      BY Widths
    <3>2. MinLL \in LongLongs
      BY <3>1 DEF MinLL, LongLongs
    <3>3. Unsigned(MinLL) = H
      <4>1. S * B + 0 = S * B
        OBVIOUS
      <4> QED
        BY <1>1, <3>1, <4>1 DEF Unsigned, MinLL, Half
    <3> QED
      BY <2>1, <3>2, <3>3, UnsignedTells
  <2> QED
    BY <2>1, <2>2, <2>3 DEF Abs
<1>4. PICK A \in Nat, M \in Nat \ {0} : A = Abs(v) /\ M = Abs(w) /\ A < R /\ M < H
  <2>1. Abs(v) \in Nat /\ Abs(w) \in Nat \ {0}
    BY <1>3 DEF Abs
  <2> QED
    BY <1>1, <1>2, <1>3, <2>1
<1>5. Positive(Magnitude(x), A) /\ Positive(Magnitude(y), M)
  BY <1>1, <1>2, <1>4, MagnitudeOf DEF Positive
<1>6. PICK d : d = LongDivision(Magnitude(x), Magnitude(y)) /\ Divided(d, A, M)
  BY <1>1, <1>4, <1>5, MagnitudesDivide
<1>7. PICK q \in Nat, r \in Nat : A = q * M + r /\ A \div M = q /\ A % M = r
  BY CutAt
<1>8. q <= A /\ r <= A
  <2>1. q * M >= q * 1
    OBVIOUS
  <2>2. PICK e \in Nat : e = q * M
    OBVIOUS
  <2> QED
    BY <1>7, <2>1, <2>2
<1>9. /\ Value(d.q) = q /\ Value(Negate(d.q)) = -q
      /\ Value(d.dividend) = r /\ Value(Negate(d.dividend)) = -r
  <2>1. /\ d.q \in LongLongs /\ d.dividend \in LongLongs
        /\ Unsigned(d.q) = q /\ Unsigned(d.dividend) = r
    BY <1>6, <1>7 DEF Divided
  <2>2. q < H /\ r < H
    BY <1>1, <1>4, <1>8
  <2> QED
    BY <1>1, <2>1, <2>2, ValueByUnsigned, NegateUnsigned
<1>10. (IsNegative(x) <=> v < 0) /\ (IsNegative(y) <=> w < 0)
  BY <1>2, Halves, ValueByUnsigned
<1>11. (IsNegative(x) # IsNegative(y)) <=> ~((v < 0) = (w < 0))
  BY <1>10 DEF IsNegative
<1>12. /\ Truncated(v, w) = IF (v < 0) = (w < 0) THEN q ELSE -q
       /\ v - Truncated(v, w) * w = IF v < 0 THEN -r ELSE r
  BY <1>3, <1>4, <1>7, SignsTruncate
<1>13. CASE IsZero(x)
  <2>1. v = 0
    <3>1. x = Zero
      BY <1>13 DEF IsZero, Zero, LongLongs
    <3> QED
      BY <1>2, <3>1, ZeroValue
  <2>2. Div(x, y) = Zero /\ Mod(x, y) = Zero
    <3>1. x.hi = 0 /\ SignBit # 0 /\ MinLL.hi = SignBit
      BY <1>13, Halves DEF IsZero, MinLL
    <3>2. ~Eq(x, MinLL)
      BY <3>1 DEF Eq
    <3>3. DivMod(x, y) = [q |-> Zero, r |-> Zero, errno |-> "ok"]
      BY <1>13, <3>2 DEF DivMod
    <3> QED
      BY <3>3 DEF Div, Mod
  <2>3. A = 0
    BY <1>4, <2>1 DEF Abs
  <2>4. q = 0 /\ r = 0
    BY <1>8, <2>3
  <2>5. Truncated(v, w) = 0 /\ v - Truncated(v, w) * w = 0
    <3>1. (IF (v < 0) = (w < 0) THEN q ELSE -q) = 0 /\ (IF v < 0 THEN -r ELSE r) = 0
      <4>1. PICK nq \in Int : nq = -q
        OBVIOUS
      <4>2. q + nq = 0
        BY <4>1
      <4>3. nq = 0
        BY <2>4, <4>2
      <4> QED
        BY <2>1, <2>4, <4>1, <4>3
    <3> QED
      BY <1>12, <3>1
  <2> QED
    BY <1>2, <2>2, <2>5, ZeroValue
<1>14. CASE ~IsZero(x)
  <2>1. ~Eq(x, MinLL)
    <3>1. PICK B \in Nat \ {0}, S \in Nat : B = Base /\ S = SignBit
      BY Widths
    <3>2. S * B + 0 = S * B
      OBVIOUS
    <3>3. Unsigned(MinLL) = H
      BY <1>1, <3>1, <3>2 DEF Unsigned, MinLL, Half
    <3>4. Unsigned(x) # H
      <4>1. ASSUME Unsigned(x) = H PROVE FALSE
        <5>1. v = H - 2 * H
          BY <1>1, <1>2, <4>1, ValueByUnsigned
        <5>2. Abs(v) = H
          BY <1>1, <5>1 DEF Abs
        <5> QED
          BY <1>1, <1>4, <5>2
      <4> QED
        BY <4>1
    <3> QED
      BY <3>3, <3>4 DEF Eq, Unsigned
  <2>2. DivMod(x, y) = Signed(d, x, y)
    BY <1>6, <1>14, <2>1 DEF DivMod
  <2>3. /\ Div(x, y) = IF IsNegative(x) # IsNegative(y) THEN Negate(d.q) ELSE d.q
        /\ Mod(x, y) = IF IsNegative(x) THEN Negate(d.dividend) ELSE d.dividend
    BY <2>2 DEF Div, Mod, Signed
  <2>4. Value(Div(x, y)) = IF (v < 0) = (w < 0) THEN q ELSE -q
    BY <1>9, <1>11, <2>3
  <2>5. Value(Mod(x, y)) = IF v < 0 THEN -r ELSE r
    BY <1>9, <1>10, <2>3
  <2> QED
    BY <1>2, <1>12, <2>4, <2>5
<1> QED
  BY <1>13, <1>14

LEMMA DivisionOfSamples == InsideSamples => DivisionTruncates
<1> SUFFICES ASSUME InsideSamples, part = "numbers"
             PROVE  DivisionTruncates
  BY DEF DivisionTruncates
<1>1. PICK x \in LongLongs, y \in LongLongs : x = a /\ y = b
  BY SampleAt DEF InsideSamples, a, b
<1>2. (Abs(Value(x)) < 2^(2 * W - 2) /\ ~IsZero(y) /\ y # MinLL) =>
         /\ Value(Div(x, y)) = Truncated(Value(x), Value(y))
         /\ Value(Mod(x, y)) = Value(x) - Truncated(Value(x), Value(y)) * Value(y)
  BY DivisionIsTruncated
<1>3. (Value(x) \in LongMin .. LongMax /\ Value(y) \in LongMin .. LongMax)
         => Value(Mul(x, y)) = Value(x) * Value(y)
  BY MulIsExact
<1> QED
  BY <1>1, <1>2, <1>3, Zenon DEF DivisionTruncates, SmallDividend, BothLongs

(* For words of every width, long division by shifting and subtracting     *)
(* yields C's quotient and remainder for every dividend below half of the  *)
(* largest one and every divisor but the least, and longlong_mul in half   *)
(* words the exact product of two longs (longlong.c).                      *)
THEOREM DivisionSafe == Spec => []DivisionTruncates
  BY InsideInductive, DivisionOfSamples, PTL

-----------------------------------------------------------------------------
(* Modes and protections.                                                  *)

(* For every mode and every protection, not only for those of a run: chmod *)
(* keeps what the owner was granted, reading a protection as a mode loses  *)
(* only the archive bit, and open allows what access does (chmod.c,        *)
(* access.c, open.c).                                                      *)
THEOREM ModesSafe == Spec => []ModesSurvive
<1> DEFINE mode == bits \cap ModeBits
           protection == bits \cap ProtectionBits
<1>1. mode \cap {"RUSR", "WUSR", "XUSR"} \subseteq StatMode(MakeProtection(mode), FALSE)
  BY DEF StatMode, MakeMode, MakeProtection, Flip, ModeBits, ProtectionBits, DeniedByOne
<1>2. MakeProtection(MakeMode(protection)) = protection \ {"ARCHIVE"}
  BY DEF MakeMode, MakeProtection, Flip, ModeBits, ProtectionBits, DeniedByOne
<1>3. ASSUME NEW wish \in SUBSET {"R", "W", "X"}, AccessOk(protection, FALSE, wish)
      PROVE  OpenOk(protection, wish)
  BY <1>3 DEF AccessOk, OpenOk, StatMode, MakeMode, Flip, ModeBits, ProtectionBits, DeniedByOne
<1>4. ModesSurvive
  BY <1>1, <1>2, <1>3 DEF ModesSurvive
<1> QED
  BY <1>4, PTL
=============================================================================
