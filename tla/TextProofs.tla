----------------------------- MODULE TextProofs -----------------------------
(***************************************************************************)
(* Proofs about the functions that read texts, for texts of every length   *)
(* and over every alphabet.                                                *)
(***************************************************************************)
EXTENDS HelpersProofs

-----------------------------------------------------------------------------
(* The words of a command line.                                            *)

\* The scan for a word's end: the equation that defines it.
Scans(scan, line, p, stops, escape) ==
  scan = [q \in p .. Len(line) + 1 |->
            CASE q >= Len(line) \/ CharAt(line, q) \in stops -> q
              [] OTHER ->
                    IF CharAt(line, q) = escape /\ CharAt(line, q + 1) # "nul"
                    THEN scan[q + 2] ELSE scan[q + 1]]

LEMMA ScanExists ==
  ASSUME NEW C, NEW line \in Seq(C), NEW p \in 0 .. Len(line), NEW stops, NEW escape
  PROVE  \E scan : Scans(scan, line, p, stops, escape) /\ WordEnd(line, p, stops, escape) = scan[p]
<1> DEFINE S == p .. Len(line) + 1
           Body(q, g) ==
             CASE q >= Len(line) \/ CharAt(line, q) \in stops -> q
               [] OTHER ->
                     IF CharAt(line, q) = escape /\ CharAt(line, q + 1) # "nul"
                     THEN g[q + 2] ELSE g[q + 1]
           m == [q \in S |-> Len(line) + 1 - q]
           F == [z \in S \X [S -> Nat] |-> Body(z[1], z[2])]
           scan == CHOOSE f : f = [q \in S |-> Body(q, f)]
<1>0. Len(line) \in Nat
  BY LenProperties
<1>1. m \in [S -> Nat]
  BY <1>0
<1>2. ASSUME NEW q \in S, q < Len(line)
      PROVE  /\ q + 1 \in S /\ m[q + 1] < m[q]
             /\ CharAt(line, q + 1) # "nul" => q + 2 \in S /\ m[q + 2] < m[q]
  BY <1>0, <1>2 DEF CharAt
<1>3. \A q \in S, g \in [S -> Nat] : Body(q, g) \in Nat
  <2> HIDE DEF m
  <2> QED
    BY <1>0, <1>2
<1>5. ASSUME NEW q \in S, NEW g, NEW h, \A r \in S : m[r] < m[q] => g[r] = h[r]
      PROVE  Body(q, g) = Body(q, h)
  <2> HIDE DEF m
  <2> QED
    BY <1>0, <1>2, <1>5
<1>6. \A q \in S, g \in [S -> Nat] : F[<<q, g>>] = Body(q, g)
  <2> HIDE DEF Body
  <2> QED
    OBVIOUS
<1> HIDE DEF S, Body, m, F, scan
<1>7. Descends(F, S, Nat, m)
  <2>1. Nat # {}
    OBVIOUS
  <2>2. \A x \in S : \A g \in [S -> Nat] : F[<<x, g>>] \in Nat
    BY <1>3, <1>6
  <2>3. Local(F, S, Nat, m)
    BY <1>5, <1>6 DEF Local
  <2> QED
    BY <1>1, <2>1, <2>2, <2>3 DEF Descends
<1>8. \E f : Solves(f, F, S, Nat)
  BY <1>7, Recursion
<1>9. \E f : f = [q \in S |-> Body(q, f)]
  <2>1. PICK f \in [S -> Nat] : \A q \in S : f[q] = F[<<q, f>>]
    BY <1>8 DEF Solves
  <2>2. \A q \in S : f[q] = Body(q, f)
    BY <1>6, <2>1
  <2> QED
    BY <2>1, <2>2
<1>10. scan = [q \in S |-> Body(q, scan)]
  BY <1>9 DEF scan
<1>11. Scans(scan, line, p, stops, escape)
  BY <1>10 DEF Scans, S, Body
<1>12. WordEnd(line, p, stops, escape) = scan[p]
  BY DEF WordEnd, scan, S, Body
<1> QED
  BY <1>11, <1>12
\* A scan that starts inside the line ends inside it, and never before its start.
LEMMA ScanStays ==
  ASSUME NEW C, NEW line \in Seq(C), NEW p \in 0 .. Len(line), NEW stops, NEW escape,
         NEW scan, Scans(scan, line, p, stops, escape)
  PROVE  \A q \in p .. Len(line) : scan[q] \in q .. Len(line)
<1> DEFINE S == p .. Len(line)
           m == [q \in S |-> Len(line) - q]
           T == {q \in S : scan[q] \in q .. Len(line)}
<1>0. Len(line) \in Nat
  BY LenProperties
<1>1. m \in [S -> Nat]
  BY <1>0
<1>2. ASSUME NEW q \in S, \A r \in S : m[r] < m[q] => r \in T PROVE q \in T
  <2>1. CASE scan[q] = q
    BY <1>0, <2>1
  <2>2. CASE q < Len(line) /\ scan[q] = scan[q + 1]
    <3>1. q + 1 \in S /\ m[q + 1] < m[q]
      BY <1>0, <2>2
    <3>2. scan[q + 1] \in q + 1 .. Len(line)
      BY <1>2, <3>1
    <3> QED
      BY <1>0, <2>2, <3>2
  <2>3. CASE q + 1 < Len(line) /\ scan[q] = scan[q + 2]
    <3>1. q + 2 \in S /\ m[q + 2] < m[q]
      BY <1>0, <2>3
    <3>2. scan[q + 2] \in q + 2 .. Len(line)
      BY <1>2, <3>1
    <3> QED
      BY <1>0, <2>3, <3>2
  <2>4. scan[q] = CASE q >= Len(line) \/ CharAt(line, q) \in stops -> q
                    [] OTHER ->
                          IF CharAt(line, q) = escape /\ CharAt(line, q + 1) # "nul"
                          THEN scan[q + 2] ELSE scan[q + 1]
    <3>1. q \in p .. Len(line) + 1
      BY <1>0
    <3> HIDE DEF S, T, m
    <3> QED
      BY <3>1 DEF Scans
  <2>5. CharAt(line, q + 1) # "nul" => q + 1 < Len(line)
    BY DEF CharAt
  <2> HIDE DEF T, m
  <2> QED
    BY <1>0, <2>1, <2>2, <2>3, <2>4, <2>5
<1> HIDE DEF T, m, S
<1>3. \A q \in S : q \in T
  BY <1>1, <1>2, MeasureInduction DEF Inherits
<1> QED
  BY <1>3 DEF S, T
\* The text a word stands for: the equation that defines it, and its pieces.
Escaped(line, word, mode, p) ==
  IF word.type = "double" THEN EscapedDouble(CharAt(line, p + 1))
  ELSE EscapedNone(CharAt(line, p + 1), mode)
EscapeOf(word) == IF word.type = "double" THEN "*" ELSE "\\"
Escapes(line, escape, p) == CharAt(line, p) = escape /\ CharAt(line, p + 1) # "nul"

Extracts(from, line, word, mode) ==
  from = [p \in 0 .. Len(line) + 1 |->
            CASE p >= word.end -> <<>>
              [] p < word.end /\ CharAt(line, p) = EscapeOf(word) /\ CharAt(line, p + 1) # "nul" ->
                    Escaped(line, word, mode, p) \o from[p + 2]
              [] OTHER -> <<CharAt(line, p)>> \o from[p + 1]]

Chars(C) == C \cup {"nul", "a", "'", "\n", "esc"}

LEMMA CharIsOne ==
  ASSUME NEW C, NEW line \in Seq(C), NEW p \in Nat
  PROVE  /\ CharAt(line, p) \in Chars(C)
         /\ CharAt(line, p) # "nul" => p < Len(line)
<1>1. CASE p < Len(line)
  <2>1. p + 1 \in 1 .. Len(line)
    BY <1>1, LenProperties
  <2>2. line[p + 1] \in C
    BY <2>1, ElementOfSeq
  <2> QED
    BY <1>1, <2>2 DEF CharAt, Chars
<1>2. CASE ~(p < Len(line))
  BY <1>2 DEF CharAt, Chars
<1> QED
  BY <1>1, <1>2

LEMMA EscapedShort ==
  ASSUME NEW C, NEW line \in Seq(C), NEW word, NEW mode, NEW p \in Nat
  PROVE  /\ Escaped(line, word, mode, p) \in Seq(Chars(C))
         /\ Len(Escaped(line, word, mode, p)) \in 1 .. 2
<1> DEFINE c == CharAt(line, p + 1)
<1>1. c \in Chars(C)
  <2>1. p + 1 \in Nat
    OBVIOUS
  <2> QED
    BY <2>1, CharIsOne
<1>2. {"a", "'", "\n", "esc"} \subseteq Chars(C)
  BY DEF Chars
<1> HIDE DEF c
<1>3. \A x, y \in Chars(C) : /\ <<x>> \in Seq(Chars(C)) /\ Len(<<x>>) = 1
                             /\ <<x, y>> \in Seq(Chars(C)) /\ Len(<<x, y>>) = 2
  OBVIOUS
<1>4. \/ \E x \in Chars(C) : EscapedDouble(c) = <<x>>
  BY <1>1, <1>2 DEF EscapedDouble
<1>5. \/ \E x \in Chars(C) : EscapedNone(c, mode) = <<x>>
      \/ \E x, y \in Chars(C) : EscapedNone(c, mode) = <<x, y>>
  BY <1>1, <1>2 DEF EscapedNone
<1> DEFINE Short(t) == t \in Seq(Chars(C)) /\ Len(t) \in 1 .. 2
<1>6. Short(EscapedDouble(c))
  <2>1. PICK x \in Chars(C) : EscapedDouble(c) = <<x>>
    BY <1>4
  <2>2. /\ <<x>> \in Seq(Chars(C)) /\ Len(<<x>>) = 1
    BY <1>3
  <2> QED
    BY <2>1, <2>2
<1>7. Short(EscapedNone(c, mode))
  <2>1. ASSUME NEW x \in Chars(C), EscapedNone(c, mode) = <<x>> PROVE Short(EscapedNone(c, mode))
    <3>1. <<x>> \in Seq(Chars(C)) /\ Len(<<x>>) = 1
      BY <1>3
    <3> QED
      BY <2>1, <3>1
  <2>2. ASSUME NEW x \in Chars(C), NEW y \in Chars(C), EscapedNone(c, mode) = <<x, y>>
        PROVE  Short(EscapedNone(c, mode))
    <3>1. <<x, y>> \in Seq(Chars(C)) /\ Len(<<x, y>>) = 2
      BY <1>3
    <3> QED
      BY <2>2, <3>1
  <2> QED
    BY <1>5, <2>1, <2>2
<1> HIDE DEF Short
<1>8. Short(Escaped(line, word, mode, p))
  BY <1>6, <1>7 DEF Escaped, c
<1> QED
  BY <1>8 DEF Short

LEMMA ExtractExists ==
  ASSUME NEW C, NEW line \in Seq(C), NEW word, NEW mode, word.end \in 0 .. Len(line)
  PROVE  \E from : /\ Extracts(from, line, word, mode)
                   /\ word.type # "single" => Extract(line, word, mode) = from[word.start]
<1> DEFINE S == 0 .. Len(line) + 1
           V == Seq(Chars(C))
           Body(p, g) ==
             CASE p >= word.end -> <<>>
               [] p < word.end /\ CharAt(line, p) = EscapeOf(word) /\ CharAt(line, p + 1) # "nul" ->
                     Escaped(line, word, mode, p) \o g[p + 2]
               [] OTHER -> <<CharAt(line, p)>> \o g[p + 1]
           m == [p \in S |-> Len(line) + 1 - p]
           F == [z \in S \X [S -> V] |-> Body(z[1], z[2])]
           from == CHOOSE f : f = [p \in S |-> Body(p, f)]
<1>0. Len(line) \in Nat
  BY LenProperties
<1>1. m \in [S -> Nat]
  BY <1>0
<1>2. ASSUME NEW p \in S, p < word.end
      PROVE  /\ p + 1 \in S /\ m[p + 1] < m[p]
             /\ CharAt(line, p + 1) # "nul" => p + 2 \in S /\ m[p + 2] < m[p]
  BY <1>0, <1>2 DEF CharAt
<1>3. \A p \in S, g \in [S -> V] : Body(p, g) \in V
  <2>1. \A x, y \in V : x \o y \in V
    BY ConcatProperties
  <2>2. \A p \in S : Escaped(line, word, mode, p) \in V /\ <<CharAt(line, p)>> \in V
    <3>1. ASSUME NEW p \in S PROVE Escaped(line, word, mode, p) \in V /\ <<CharAt(line, p)>> \in V
      <4>1. p \in Nat
        BY <1>0
      <4> QED
        BY <4>1, EscapedShort, CharIsOne
    <3> QED
      BY <3>1
  <2>3. <<>> \in V
    OBVIOUS
  <2> HIDE DEF m, V
  <2> QED
    BY <1>0, <1>2, <2>1, <2>2, <2>3
<1>5. ASSUME NEW p \in S, NEW g, NEW h, \A r \in S : m[r] < m[p] => g[r] = h[r]
      PROVE  Body(p, g) = Body(p, h)
  <2> HIDE DEF m, V
  <2> QED
    BY <1>0, <1>2, <1>5
<1>6. \A p \in S, g \in [S -> V] : F[<<p, g>>] = Body(p, g)
  <2> HIDE DEF Body, V
  <2> QED
    OBVIOUS
<1>7. V # {}
  <2>1. <<>> \in V
    OBVIOUS
  <2> QED
    BY <2>1
<1> HIDE DEF S, V, Body, m, F, from
<1>8. Descends(F, S, V, m)
  <2>1. \A x \in S : \A g \in [S -> V] : F[<<x, g>>] \in V
    BY <1>3, <1>6
  <2>2. Local(F, S, V, m)
    BY <1>5, <1>6 DEF Local
  <2> QED
    BY <1>1, <1>7, <2>1, <2>2 DEF Descends
<1>9. \E f : f = [p \in S |-> Body(p, f)]
  <2>1. PICK f \in [S -> V] : \A p \in S : f[p] = F[<<p, f>>]
    BY <1>8, Recursion DEF Solves
  <2>2. \A p \in S : f[p] = Body(p, f)
    BY <1>6, <2>1
  <2> QED
    BY <2>1, <2>2
<1>10. from = [p \in S |-> Body(p, from)]
  BY <1>9 DEF from
<1>11. Extracts(from, line, word, mode)
  BY <1>10 DEF Extracts, S, Body
<1>12. word.type # "single" => Extract(line, word, mode) = from[word.start]
  BY DEF Extract, from, S, Body, EscapeOf, Escaped
<1> QED
  BY <1>11, <1>12
\* What is extracted on the way of the scan is never longer than the way.
LEMMA ExtractKeepsPace ==
  ASSUME NEW C, NEW line \in Seq(C), NEW word, NEW mode, NEW stops,
         NEW p \in 0 .. Len(line), word.end \in p .. Len(line),
         NEW scan, Scans(scan, line, p, stops, EscapeOf(word)), scan[p] = word.end,
         NEW from, Extracts(from, line, word, mode)
  PROVE  Len(from[p]) <= word.end - p
<1> DEFINE S == p .. Len(line)
           m == [q \in S |-> Len(line) - q]
           Fits(q) == from[q] \in Seq(Chars(C)) /\ Len(from[q]) <= word.end - q
           T == {q \in S : scan[q] = word.end => Fits(q)}
<1>0. Len(line) \in Nat
  BY LenProperties
<1>1. m \in [S -> Nat]
  BY <1>0
<1>2. \A q \in S : scan[q] \in q .. Len(line)
  BY ScanStays
<1>3. ASSUME NEW q \in S, \A r \in S : m[r] < m[q] => r \in T PROVE q \in T
  <2> DEFINE Escaping == CharAt(line, q) = EscapeOf(word) /\ CharAt(line, q + 1) # "nul"
  <2>1. from[q] = CASE q >= word.end -> <<>>
                    [] q < word.end /\ Escaping -> Escaped(line, word, mode, q) \o from[q + 2]
                    [] OTHER -> <<CharAt(line, q)>> \o from[q + 1]
    <3>1. q \in 0 .. Len(line) + 1
      BY <1>0
    <3> HIDE DEF S, m, T
    <3> QED
      BY <3>1 DEF Extracts
  <2>2. scan[q] = CASE q >= Len(line) \/ CharAt(line, q) \in stops -> q
                    [] OTHER -> IF Escaping THEN scan[q + 2] ELSE scan[q + 1]
    <3>1. q \in p .. Len(line) + 1
      BY <1>0
    <3> HIDE DEF S, T, m
    <3> QED
      BY <3>1 DEF Scans
  <2>3. CharAt(line, q + 1) # "nul" => q + 1 < Len(line)
    BY DEF CharAt
  <2>4. q \in Nat
    BY <1>0
  <2> HIDE DEF Escaping
  <2>5. CASE q >= word.end
    <3>1. from[q] = <<>>
      BY <2>1, <2>5
    <3>2. scan[q] = word.end => q = word.end
      BY <1>0, <1>2, <2>5
    <3>3. <<>> \in Seq(Chars(C)) /\ Len(<<>>) = 0
      OBVIOUS
    <3>4. scan[q] = word.end => Len(from[q]) <= word.end - q
      BY <1>0, <2>4, <3>1, <3>2, <3>3
    <3> HIDE DEF S, m
    <3> QED
      BY <3>1, <3>3, <3>4
  <2>6. CASE q < word.end /\ Escaping
    <3> SUFFICES ASSUME scan[q] = word.end PROVE Fits(q)
      OBVIOUS
    <3>1. q + 2 \in S /\ m[q + 2] < m[q]
      BY <1>0, <2>3, <2>6 DEF Escaping
    <3>2. scan[q] = scan[q + 2]
      <4>1. scan[q] # q
        BY <1>0, <2>4, <2>6
      <4> HIDE DEF S, m, T, Fits
      <4> QED
        BY <2>2, <2>6, <4>1
    <3>3. Fits(q + 2)
      BY <1>3, <3>1, <3>2
    <3>4. /\ Escaped(line, word, mode, q) \in Seq(Chars(C))
          /\ Len(Escaped(line, word, mode, q)) \in 1 .. 2
      BY <2>4, EscapedShort
    <3>5. from[q] = Escaped(line, word, mode, q) \o from[q + 2]
      <4>1. ~(q >= word.end)
        BY <1>0, <2>4, <2>6
      <4> HIDE DEF S, m, T, Fits
      <4> QED
        BY <2>1, <2>6, <4>1
    <3>6. /\ from[q] \in Seq(Chars(C))
          /\ Len(from[q]) = Len(Escaped(line, word, mode, q)) + Len(from[q + 2])
      BY <3>3, <3>4, <3>5, ConcatProperties
    <3>7. Len(from[q + 2]) \in Nat
      BY <3>3, LenProperties
    <3> HIDE DEF S, m, T
    <3>8. PICK n \in 1 .. 2 : n = Len(Escaped(line, word, mode, q))
      BY <3>4
    <3>9. Len(from[q]) = n + Len(from[q + 2]) /\ Len(from[q + 2]) <= word.end - (q + 2)
      BY <3>3, <3>6, <3>8
    <3>10. Len(from[q]) <= word.end - q
      BY <1>0, <2>4, <3>7, <3>9
    <3> QED
      BY <3>6, <3>10
  <2>7. CASE q < word.end /\ ~Escaping
    <3> SUFFICES ASSUME scan[q] = word.end PROVE Fits(q)
      OBVIOUS
    <3>1. q + 1 \in S /\ m[q + 1] < m[q]
      BY <1>0, <2>7
    <3>2. scan[q] = scan[q + 1]
      <4>1. scan[q] # q
        BY <1>0, <2>4, <2>7
      <4> HIDE DEF S, m, T, Fits
      <4> QED
        BY <2>2, <2>7, <4>1
    <3>3. Fits(q + 1)
      BY <1>3, <3>1, <3>2
    <3>4. <<CharAt(line, q)>> \in Seq(Chars(C)) /\ Len(<<CharAt(line, q)>>) = 1
      BY <2>4, CharIsOne
    <3>5. from[q] = <<CharAt(line, q)>> \o from[q + 1]
      <4>1. ~(q >= word.end)
        BY <1>0, <2>4, <2>7
      <4> HIDE DEF S, m, T, Fits
      <4> QED
        BY <2>1, <2>7, <4>1
    <3>6. from[q] \in Seq(Chars(C)) /\ Len(from[q]) = 1 + Len(from[q + 1])
      BY <3>3, <3>4, <3>5, ConcatProperties
    <3>7. Len(from[q + 1]) \in Nat
      BY <3>3, LenProperties
    <3> HIDE DEF S, m, T
    <3> QED
      BY <1>0, <2>4, <3>3, <3>6, <3>7
  <2> HIDE DEF S, m, T, Fits
  <2>8. q < word.end \/ q >= word.end
    BY <1>0, <2>4
  <2> QED
    BY <2>5, <2>6, <2>7, <2>8
<1>4. p \in S
  BY <1>0
<1> HIDE DEF T, m, S, Fits
<1>5. \A q \in S : q \in T
  BY <1>1, <1>3, MeasureInduction DEF Inherits
<1> QED
  BY <1>4, <1>5 DEF T, Fits
\* The characters a word may start with, and the words of a line.
Starts(line) == {q \in 0 .. Len(line) : q < Len(line) /\ CharAt(line, q) \notin Space}
WordsOf(line) == {NextWord(line, q) : q \in Starts(line)}

\* A word lies inside its line, and the next one starts behind it.
LEMMA WordInside ==
  ASSUME NEW C, NEW line \in Seq(C), NEW q \in Starts(line)
  PROVE  LET word == NextWord(line, q)
         IN  /\ word.next \in q + 1 .. Len(line)
             /\ word.start \in 0 .. Len(line) /\ word.end \in word.start .. Len(line)
             /\ word.type = "single" \/
                  \E scan, stops : /\ Scans(scan, line, word.start, stops, EscapeOf(word))
                                   /\ scan[word.start] = word.end
<1>0. Len(line) \in Nat /\ q \in Nat /\ q < Len(line) /\ CharAt(line, q) \notin Space
  BY LenProperties DEF Starts
<1> DEFINE word == NextWord(line, q)
<1>1. ASSUME NEW quote, NEW escape, NEW type
      PROVE  LET end == WordEnd(line, q + 1, {quote}, escape)
             IN  /\ end \in q + 1 .. Len(line)
                 /\ \E scan : Scans(scan, line, q + 1, {quote}, escape) /\ scan[q + 1] = end
                 /\ CharAt(line, end) = quote /\ quote # "nul" => end < Len(line)
  <2>1. q + 1 \in 0 .. Len(line) /\ q + 1 \in q + 1 .. Len(line)
    BY <1>0
  <2>2. PICK scan : /\ Scans(scan, line, q + 1, {quote}, escape)
                    /\ WordEnd(line, q + 1, {quote}, escape) = scan[q + 1]
    BY <2>1, ScanExists
  <2>3. scan[q + 1] \in q + 1 .. Len(line)
    BY <2>1, <2>2, ScanStays
  <2>4. CharAt(line, scan[q + 1]) = quote /\ quote # "nul" => scan[q + 1] < Len(line)
    BY DEF CharAt
  <2> QED
    BY <2>2, <2>3, <2>4
<1>2. CASE CharAt(line, q) = "\""
  <2> DEFINE end == WordEnd(line, q + 1, {"\""}, "*")
  <2>1. word = [start |-> q + 1, end |-> end, type |-> "double",
                next |-> IF CharAt(line, end) = "\"" THEN end + 1 ELSE end]
    BY <1>2 DEF NextWord
  <2>2. /\ end \in q + 1 .. Len(line)
        /\ \E scan : Scans(scan, line, q + 1, {"\""}, "*") /\ scan[q + 1] = end
        /\ CharAt(line, end) = "\"" => end < Len(line)
    BY <1>1
  <2> HIDE DEF end, word
  <2>3. /\ word.start = q + 1 /\ word.end = end /\ EscapeOf(word) = "*"
        /\ word.next = IF CharAt(line, end) = "\"" THEN end + 1 ELSE end
    BY <2>1 DEF EscapeOf
  <2>4. PICK scan : Scans(scan, line, q + 1, {"\""}, "*") /\ scan[q + 1] = end
    BY <2>2
  <2>5. Scans(scan, line, word.start, {"\""}, EscapeOf(word)) /\ scan[word.start] = word.end
    BY <2>3, <2>4
  <2>6. /\ word.next \in q + 1 .. Len(line)
        /\ word.start \in 0 .. Len(line) /\ word.end \in word.start .. Len(line)
    <3>1. end \in q + 1 .. Len(line)
      BY <2>2, Zenon
    <3>2. word.next = end \/ (word.next = end + 1 /\ end < Len(line))
      BY <2>2, <2>3, Zenon
    <3>3. word.start = q + 1 /\ word.end = end
      BY <2>3, Zenon
    <3> QED
      BY <1>0, <3>1, <3>2, <3>3
  <2> QED
    BY <2>5, <2>6 DEF word
<1>3. CASE CharAt(line, q) = "'"
  <2> DEFINE end == WordEnd(line, q + 1, {"'"}, "none")
  <2>1. word = [start |-> q + 1, end |-> end, type |-> "single",
                next |-> IF CharAt(line, end) = "'" THEN end + 1 ELSE end]
    BY <1>3 DEF NextWord
  <2>2. /\ end \in q + 1 .. Len(line)
        /\ CharAt(line, end) = "'" => end < Len(line)
    BY <1>1
  <2> HIDE DEF end, word
  <2>3. /\ word.start = q + 1 /\ word.end = end /\ word.type = "single"
        /\ word.next = IF CharAt(line, end) = "'" THEN end + 1 ELSE end
    BY <2>1
  <2> QED
    BY <1>0, <2>2, <2>3 DEF word
<1>4. CASE CharAt(line, q) \notin {"\"", "'"}
  <2> DEFINE end == WordEnd(line, q, Space, "\\")
  <2>1. word = [start |-> q, end |-> end, type |-> "none", next |-> end]
    BY <1>4 DEF NextWord
  <2>2. PICK scan : Scans(scan, line, q, Space, "\\") /\ end = scan[q]
    BY <1>0, ScanExists
  <2> HIDE DEF end, word
  <2>3. \A r \in q .. Len(line) : scan[r] \in r .. Len(line)
    BY <1>0, <2>2, ScanStays
  <2>4. scan[q] = IF CharAt(line, q) = "\\" /\ CharAt(line, q + 1) # "nul"
                  THEN scan[q + 2] ELSE scan[q + 1]
    <3>1. q \in q .. Len(line) + 1 /\ ~(q >= Len(line))
      BY <1>0
    <3> QED
      BY <1>0, <2>2, <3>1 DEF Scans
  <2>5. CharAt(line, q + 1) # "nul" => q + 1 < Len(line)
    BY DEF CharAt
  <2>6. scan[q] \in q + 1 .. Len(line)
    BY <1>0, <2>3, <2>4, <2>5
  <2>7. word.start = q /\ word.end = end /\ EscapeOf(word) = "\\" /\ word.next = end
    BY <2>1 DEF EscapeOf
  <2>8. Scans(scan, line, word.start, Space, EscapeOf(word)) /\ scan[word.start] = word.end
    BY <2>2, <2>7
  <2>9. /\ word.next \in q + 1 .. Len(line)
        /\ word.start \in 0 .. Len(line) /\ word.end \in word.start .. Len(line)
    BY <1>0, <2>2, <2>6, <2>7
  <2> QED
    BY <2>8, <2>9 DEF word
<1> QED
  BY <1>2, <1>3, <1>4
\* Where the blanks end, and the words from there on: the equation that
\* defines them.
Blanks(line, p) == Min({q \in p .. Len(line) : CharAt(line, q) \notin Space})
CutsAt(line, p, g) ==
  IF Blanks(line, p) = Len(line) THEN <<>>
  ELSE <<NextWord(line, Blanks(line, p))>> \o g[NextWord(line, Blanks(line, p)).next]
Cuts(from, line) == from = [p \in 0 .. Len(line) |-> CutsAt(line, p, from)]

LEMMA BlanksEnd ==
  ASSUME NEW C, NEW line \in Seq(C), NEW p \in 0 .. Len(line)
  PROVE  /\ Blanks(line, p) \in p .. Len(line) /\ CharAt(line, Blanks(line, p)) \notin Space
         /\ \A q \in p .. Len(line) : CharAt(line, q) \notin Space => Blanks(line, p) <= q
<1> DEFINE B == {q \in p .. Len(line) : CharAt(line, q) \notin Space}
<1>0. Len(line) \in Nat
  BY LenProperties
<1>1. "nul" \notin Space
  BY DEF Space
<1>2. Len(line) \in B
  BY <1>0, <1>1 DEF CharAt
<1>3. B \in SUBSET Nat /\ B # {}
  BY <1>0, <1>2
<1> HIDE DEF B
<1>4. \E least \in B : \A x \in B : least <= x
  BY <1>3, Minimum
<1>5. Min(B) \in B /\ \A x \in B : Min(B) <= x
  BY <1>4 DEF Min
<1> QED
  BY <1>5 DEF B, Blanks

\* A word that starts after the blanks is a word of the line, and the next
\* one starts further on.
LEMMA CutsFurther ==
  ASSUME NEW C, NEW line \in Seq(C), NEW p \in 0 .. Len(line), Blanks(line, p) # Len(line)
  PROVE  /\ NextWord(line, Blanks(line, p)) \in WordsOf(line)
         /\ NextWord(line, Blanks(line, p)).next \in p + 1 .. Len(line)
<1>0. Len(line) \in Nat
  BY LenProperties
<1>1. Blanks(line, p) \in Starts(line) /\ Blanks(line, p) \in p .. Len(line)
  BY <1>0, BlanksEnd DEF Starts
<1>2. NextWord(line, Blanks(line, p)).next \in Blanks(line, p) + 1 .. Len(line)
  BY <1>1, WordInside
<1>3. NextWord(line, Blanks(line, p)).next \in p + 1 .. Len(line)
  BY <1>0, <1>1, <1>2
<1> QED
  BY <1>1, <1>3 DEF WordsOf

LEMMA CutsExist ==
  ASSUME NEW C, NEW line \in Seq(C)
  PROVE  \E from : Cuts(from, line) /\ Words(line) = from[0]
<1> DEFINE S == 0 .. Len(line)
           V == Seq(WordsOf(line))
           Body(p, g) == CutsAt(line, p, g)
           m == [p \in S |-> Len(line) - p]
           F == [z \in S \X [S -> V] |-> Body(z[1], z[2])]
           from == CHOOSE f : f = [p \in S |-> Body(p, f)]
<1>0. Len(line) \in Nat
  BY LenProperties
<1>1. m \in [S -> Nat]
  BY <1>0
<1>3. ASSUME NEW p \in S, Blanks(line, p) # Len(line)
      PROVE  /\ NextWord(line, Blanks(line, p)) \in WordsOf(line)
             /\ NextWord(line, Blanks(line, p)).next \in S
             /\ m[NextWord(line, Blanks(line, p)).next] < m[p]
  <2>1. /\ NextWord(line, Blanks(line, p)) \in WordsOf(line)
        /\ NextWord(line, Blanks(line, p)).next \in p + 1 .. Len(line)
    BY <1>3, CutsFurther
  <2> QED
    BY <1>0, <2>1
<1>4. \A p \in S, g \in [S -> V] : Body(p, g) \in V
  <2>1. <<>> \in V
    OBVIOUS
  <2>2. ASSUME NEW w \in WordsOf(line), NEW t \in V PROVE <<w>> \o t \in V
    <3>1. <<w>> \in V
      OBVIOUS
    <3> QED
      BY <3>1, ConcatProperties
  <2> HIDE DEF V, m
  <2> QED
    BY <1>3, <2>1, <2>2 DEF CutsAt
<1>5. ASSUME NEW p \in S, NEW g, NEW h, \A r \in S : m[r] < m[p] => g[r] = h[r]
      PROVE  Body(p, g) = Body(p, h)
  <2> HIDE DEF m, V
  <2> QED
    BY <1>3, <1>5 DEF CutsAt
<1>6. \A p \in S, g \in [S -> V] : F[<<p, g>>] = Body(p, g)
  <2> HIDE DEF Body, V
  <2> QED
    OBVIOUS
<1>7. V # {}
  <2>1. <<>> \in V
    OBVIOUS
  <2> QED
    BY <2>1
<1>12. Words(line) = from[0]
  BY DEF Words, from, S, Body, CutsAt, Blanks
<1> HIDE DEF S, V, Body, m, F, from
<1>8. Descends(F, S, V, m)
  <2>1. \A x \in S : \A g \in [S -> V] : F[<<x, g>>] \in V
    BY <1>4, <1>6
  <2>2. Local(F, S, V, m)
    BY <1>5, <1>6 DEF Local
  <2> QED
    BY <1>1, <1>7, <2>1, <2>2 DEF Descends
<1>9. \E f : f = [p \in S |-> Body(p, f)]
  <2>1. PICK f \in [S -> V] : \A p \in S : f[p] = F[<<p, f>>]
    BY <1>8, Recursion DEF Solves
  <2>2. \A p \in S : f[p] = Body(p, f)
    BY <1>6, <2>1
  <2> QED
    BY <2>1, <2>2
<1>10. from = [p \in S |-> Body(p, from)]
  BY <1>9 DEF from
<1>11. Cuts(from, line)
  BY <1>10 DEF Cuts, S, Body
<1> QED
  BY <1>11, <1>12

\* Every word of a line starts at a character of it that is not blank.
LEMMA WordsAreWords ==
  ASSUME NEW C, NEW line \in Seq(C)
  PROVE  Words(line) \in Seq(WordsOf(line))
<1> DEFINE S == 0 .. Len(line)
           V == Seq(WordsOf(line))
           m == [p \in S |-> Len(line) - p]
<1>0. Len(line) \in Nat
  BY LenProperties
<1>1. m \in [S -> Nat]
  BY <1>0
<1>2. PICK from : Cuts(from, line) /\ Words(line) = from[0]
  BY CutsExist
<1> DEFINE Typed == {p \in S : from[p] \in V}
<1>3. ASSUME NEW p \in S, \A r \in S : m[r] < m[p] => r \in Typed PROVE p \in Typed
  <2>1. from[p] = CutsAt(line, p, from)
    BY <1>2 DEF Cuts
  <2>2. CASE Blanks(line, p) = Len(line)
    <3>1. from[p] = <<>> /\ <<>> \in V
      BY <2>1, <2>2 DEF CutsAt
    <3> QED
      BY <3>1
  <2>3. CASE Blanks(line, p) # Len(line)
    <3> DEFINE word == NextWord(line, Blanks(line, p))
    <3>1. word \in WordsOf(line) /\ word.next \in p + 1 .. Len(line)
      BY <2>3, CutsFurther
    <3>2. word.next \in S /\ m[word.next] < m[p]
      BY <1>0, <3>1
    <3>3. from[p] = <<word>> \o from[word.next]
      BY <2>1, <2>3 DEF CutsAt
    <3> HIDE DEF word, m
    <3>4. <<word>> \in Seq(WordsOf(line)) /\ from[word.next] \in Seq(WordsOf(line))
      BY <1>3, <3>1, <3>2
    <3>5. <<word>> \o from[word.next] \in V
      BY <3>4, ConcatProperties
    <3> QED
      BY <3>3, <3>5
  <2> QED
    BY <2>2, <2>3
<1>4. 0 \in S
  BY <1>0
<1> HIDE DEF Typed, m, S
<1>5. \A p \in S : p \in Typed
  BY <1>1, <1>3, MeasureInduction DEF Inherits
<1> QED
  BY <1>2, <1>4, <1>5 DEF Typed

\* The text that stands for a word of a line fits its allocation.
LEMMA WordFits ==
  ASSUME NEW C, NEW line \in Seq(C), NEW word \in WordsOf(line), NEW mode,
         word.type = "single" => word.end > word.start
  PROVE  Len(Extract(line, word, mode)) <= word.end - word.start
<1>1. PICK q \in Starts(line) : word = NextWord(line, q)
  BY DEF WordsOf
<1>2. /\ word.start \in 0 .. Len(line) /\ word.end \in word.start .. Len(line)
      /\ word.type = "single" \/
           \E scan, stops : /\ Scans(scan, line, word.start, stops, EscapeOf(word))
                            /\ scan[word.start] = word.end
  BY <1>1, WordInside
<1>3. Len(line) \in Nat
  BY LenProperties
<1>4. CASE word.type = "single"
  <2>1. word.end > word.start
    BY <1>4
  <2>2. CASE mode = "test"
    <3>1. Extract(line, word, mode) = <<"a">> /\ Len(<<"a">>) = 1
      BY <1>4, <2>2 DEF Extract
    <3> QED
      BY <1>2, <1>3, <2>1, <3>1
  <2>3. CASE mode # "test"
    <3>1. Extract(line, word, mode) = SubSeq(line, word.start + 1, word.end)
      BY <1>4, <2>3 DEF Extract
    <3> DEFINE s == word.start
               e == word.end
    <3>2. s \in Nat /\ e \in Nat /\ s < e /\ e <= Len(line)
      BY <1>2, <1>3, <2>1
    <3>3. Len(SubSeq(line, s + 1, e)) = e - s
      <4> HIDE DEF s, e
      <4>1. s + 1 \in 1 .. Len(line) + 1 /\ e \in s + 1 - 1 .. Len(line)
        BY <1>3, <3>2
      <4>2. Len(SubSeq(line, s + 1, e)) = e - (s + 1) + 1
        BY <4>1, SubSeqProperties, <3>2, <1>3
      <4> QED
        BY <3>2, <4>2
    <3> QED
      BY <3>1, <3>2, <3>3
  <2> QED
    BY <2>2, <2>3
<1>5. CASE word.type # "single"
  <2>1. PICK scan, stops : /\ Scans(scan, line, word.start, stops, EscapeOf(word))
                           /\ scan[word.start] = word.end
    BY <1>2, <1>5
  <2>2. word.end \in 0 .. Len(line)
    BY <1>2, <1>3
  <2>3. PICK from : /\ Extracts(from, line, word, mode)
                    /\ Extract(line, word, mode) = from[word.start]
    BY <1>5, <2>2, ExtractExists
  <2>4. Len(from[word.start]) <= word.end - word.start
    BY <1>2, <2>1, <2>3, ExtractKeepsPace
  <2> QED
    BY <2>3, <2>4
<1> QED
  BY <1>4, <1>5
-----------------------------------------------------------------------------
(* fnmatch.                                                                *)

\* What the rest of a pattern does with the rest of a string, the function's
\* and the reference's, from what the places further on do.
FnmatchAt(pattern, string, at, g) ==
  LET r == at[1]
      s == at[2]
  IN  IF r = Len(pattern) \/ s = Len(string)
      THEN Ended(pattern, string, r, s)
      ELSE CASE pattern[r + 1] = "*" ->
                LET after == Min({k \in r .. Len(pattern) :
                                    k = Len(pattern) \/ pattern[k + 1] # "*"})
                    hits == {k \in s .. Len(string) - 1 :
                               after < Len(pattern) /\ string[k + 1] = pattern[after + 1]}
                IN  after = Len(pattern) \/ (hits # {} /\ g[<<after, Min(hits)>>])
             [] pattern[r + 1] = "?" -> g[<<r + 1, s + 1>>]
             [] pattern[r + 1] = "[" ->
                LET class == Class(pattern, r)
                IN  /\ class.close < Len(pattern)
                    /\ (string[s + 1] \in class.members) # class.negate
                    /\ g[<<class.close + 1, s + 1>>]
             [] OTHER -> pattern[r + 1] = string[s + 1] /\ g[<<r + 1, s + 1>>]

MatchesAt(pattern, string, at, g) ==
  LET r == at[1]
      s == at[2]
  IN  IF r = Len(pattern) THEN s = Len(string)
      ELSE CASE pattern[r + 1] = "*" -> \E k \in s .. Len(string) : g[<<r + 1, k>>]
             [] pattern[r + 1] = "[" ->
                LET class == Class(pattern, r)
                IN  /\ s < Len(string) /\ class.close < Len(pattern)
                    /\ (string[s + 1] \in class.members) # class.negate
                    /\ g[<<class.close + 1, s + 1>>]
             [] OTHER ->
                s < Len(string) /\ pattern[r + 1] \in {"?", string[s + 1]}
                   /\ g[<<r + 1, s + 1>>]

LEMMA ClassAhead ==
  ASSUME NEW C, NEW pattern \in Seq(C), NEW r \in Nat, r < Len(pattern)
  PROVE  Class(pattern, r).close \in r + 1 .. Len(pattern)
<1> DEFINE negate == r + 1 < Len(pattern) /\ pattern[r + 2] \in {"^", "!"}
           first == IF negate THEN r + 2 ELSE r + 1
           B == {Len(pattern)} \cup {k \in first .. Len(pattern) - 1 : pattern[k + 1] = "]"}
<1>0. Len(pattern) \in Nat
  BY LenProperties
<1>1. first \in {r + 1, r + 2}
  OBVIOUS
<1>2. Class(pattern, r).close = Min(B)
  BY DEF Class
<1> HIDE DEF first
<1>3. B \in SUBSET Nat /\ B # {} /\ B \subseteq r + 1 .. Len(pattern)
  BY <1>0, <1>1
<1> HIDE DEF B
<1>4. \E least \in B : \A x \in B : least <= x
  BY <1>3, Minimum
<1>5. Min(B) \in B
  BY <1>4 DEF Min
<1> QED
  BY <1>2, <1>3, <1>5

\* Where a run of stars ends.
AfterStars(pattern, r) ==
  Min({k \in r .. Len(pattern) : k = Len(pattern) \/ pattern[k + 1] # "*"})

LEMMA StarsAhead ==
  ASSUME NEW C, NEW pattern \in Seq(C), NEW r \in Nat, r <= Len(pattern)
  PROVE  /\ AfterStars(pattern, r) \in r .. Len(pattern)
         /\ r < Len(pattern) /\ pattern[r + 1] = "*" =>
               AfterStars(pattern, r) = AfterStars(pattern, r + 1)
         /\ ~(r < Len(pattern) /\ pattern[r + 1] = "*") => AfterStars(pattern, r) = r
<1> DEFINE B(q) == {k \in q .. Len(pattern) : k = Len(pattern) \/ pattern[k + 1] # "*"}
<1>0. Len(pattern) \in Nat
  BY LenProperties
<1>1. B(r) \in SUBSET Nat /\ B(r) # {}
  <2>1. Len(pattern) \in B(r)
    BY <1>0
  <2> QED
    BY <1>0, <2>1
<1>2. PICK least \in B(r) : \A x \in B(r) : least <= x
  <2> HIDE DEF B
  <2> QED
    BY <1>1, Minimum
<1>3. Min(B(r)) \in B(r) /\ \A x \in B(r) : Min(B(r)) <= x
  <2> HIDE DEF B
  <2> QED
    BY <1>2 DEF Min
<1>4. r < Len(pattern) /\ pattern[r + 1] = "*" => B(r) = B(r + 1)
  <2>1. ASSUME r < Len(pattern), pattern[r + 1] = "*", NEW k PROVE k \in B(r) <=> k \in B(r + 1)
    BY <1>0, <2>1
  <2> HIDE DEF B
  <2> QED
    BY <2>1
<1>5. ~(r < Len(pattern) /\ pattern[r + 1] = "*") => Min(B(r)) = r
  <2> SUFFICES ASSUME ~(r < Len(pattern) /\ pattern[r + 1] = "*") PROVE Min(B(r)) = r
    OBVIOUS
  <2>1. r \in B(r)
    BY <1>0
  <2>2. Min(B(r)) <= r /\ Min(B(r)) \in r .. Len(pattern)
    BY <1>3, <2>1
  <2> QED
    BY <1>0, <2>2
<1> QED
  BY <1>3, <1>4, <1>5 DEF AfterStars

LEMMA FnmatchExists ==
  ASSUME NEW C, NEW D, NEW pattern \in Seq(C), NEW string \in Seq(D)
  PROVE  \E f : /\ f = [at \in Places(pattern, string) |-> FnmatchAt(pattern, string, at, f)]
               /\ Fnmatch(pattern, string) = f[<<0, 0>>]
<1> DEFINE S == Places(pattern, string)
           Body(at, g) == FnmatchAt(pattern, string, at, g)
           m == [at \in S |-> Len(pattern) - at[1]]
           F == [z \in S \X [S -> BOOLEAN] |-> Body(z[1], z[2])]
           from == CHOOSE f : f = [at \in S |-> Body(at, f)]
<1>0. Len(pattern) \in Nat /\ Len(string) \in Nat
  BY LenProperties
<1>1. m \in [S -> Nat]
  BY <1>0 DEF Places
<1>2. \A at \in S, g \in [S -> BOOLEAN] : Body(at, g) \in BOOLEAN
  <2> SUFFICES ASSUME NEW at \in S, NEW g \in [S -> BOOLEAN] PROVE Body(at, g) \in BOOLEAN
    OBVIOUS
  <2>1. at[1] \in 0 .. Len(pattern) /\ at[2] \in 0 .. Len(string)
    BY DEF Places
  <2>2. \A q \in 0 .. Len(pattern), k \in 0 .. Len(string) : g[<<q, k>>] \in BOOLEAN
    BY DEF Places
  <2>3. /\ at[1] # Len(pattern) => at[1] + 1 \in 0 .. Len(pattern)
        /\ at[2] # Len(string) => at[2] + 1 \in 0 .. Len(string)
    BY <1>0, <2>1
  <2> HIDE DEF S
  <2> QED
    BY <2>1, <2>2, <2>3 DEF FnmatchAt, Ended
<1>3. ASSUME NEW at \in S, NEW g, NEW h, \A q \in S : m[q] < m[at] => g[q] = h[q]
      PROVE  Body(at, g) = Body(at, h)
  <2> DEFINE r == at[1]
             s == at[2]
  <2>1. /\ r \in 0 .. Len(pattern) /\ s \in 0 .. Len(string) /\ at = <<r, s>>
        /\ m[at] = Len(pattern) - r
    BY DEF Places
  <2>2. ASSUME NEW q \in r + 1 .. Len(pattern), NEW k \in 0 .. Len(string)
        PROVE  g[<<q, k>>] = h[<<q, k>>]
    <3>1. <<q, k>> \in S /\ m[<<q, k>>] = Len(pattern) - q
      BY <1>0, <2>1 DEF Places
    <3>2. m[<<q, k>>] < m[at]
      BY <1>0, <2>1, <3>1
    <3> QED
      BY <1>3, <3>1, <3>2
  <2>3. r < Len(pattern) => Class(pattern, r).close \in r + 1 .. Len(pattern)
    BY <1>0, <2>1, ClassAhead
  <2>4. r < Len(pattern) /\ pattern[r + 1] = "*" => AfterStars(pattern, r) \in r + 1 .. Len(pattern)
    <3>1. r < Len(pattern) => r + 1 \in Nat /\ r + 1 <= Len(pattern)
      BY <1>0, <2>1
    <3> QED
      BY <1>0, <2>1, <3>1, StarsAhead
  <2> DEFINE hits == {k \in s .. Len(string) - 1 :
                        AfterStars(pattern, r) < Len(pattern)
                          /\ string[k + 1] = pattern[AfterStars(pattern, r) + 1]}
  <2>5. hits # {} => Min(hits) \in 0 .. Len(string)
    <3>1. hits \in SUBSET Nat /\ hits \in SUBSET (0 .. Len(string))
      BY <1>0, <2>1
    <3> HIDE DEF hits
    <3>2. hits # {} => \E least \in hits : \A x \in hits : least <= x
      BY <3>1, Minimum
    <3>3. hits # {} => Min(hits) \in hits
      BY <3>2 DEF Min
    <3> QED
      BY <3>1, <3>3
  <2>6. r + 1 \in r + 1 .. Len(pattern) \/ r = Len(pattern)
    BY <1>0, <2>1
  <2>7. s + 1 \in 0 .. Len(string) \/ s = Len(string)
    BY <1>0, <2>1
  <2> HIDE DEF r, s, m, hits
  <2>8. CASE r = Len(pattern) \/ s = Len(string)
    BY <2>8 DEF FnmatchAt, r, s
  <2>9. CASE ~(r = Len(pattern) \/ s = Len(string)) /\ pattern[r + 1] = "*"
    <3>1. r < Len(pattern)
      BY <1>0, <2>1, <2>9
    <3>2. /\ Body(at, g) = (AfterStars(pattern, r) = Len(pattern)
                              \/ (hits # {} /\ g[<<AfterStars(pattern, r), Min(hits)>>]))
          /\ Body(at, h) = (AfterStars(pattern, r) = Len(pattern)
                              \/ (hits # {} /\ h[<<AfterStars(pattern, r), Min(hits)>>]))
      BY <2>9 DEF FnmatchAt, AfterStars, hits, r, s
    <3>3. hits # {} => g[<<AfterStars(pattern, r), Min(hits)>>] = h[<<AfterStars(pattern, r), Min(hits)>>]
      BY <2>2, <2>4, <2>5, <2>9, <3>1
    <3> HIDE DEF Body
    <3> QED
      BY <3>2, <3>3
  <2>10. CASE ~(r = Len(pattern) \/ s = Len(string)) /\ pattern[r + 1] = "["
    <3> DEFINE close == Class(pattern, r).close
               listed == (string[s + 1] \in Class(pattern, r).members) # Class(pattern, r).negate
    <3>1. close + 1 \in r + 1 .. Len(pattern) \/ ~(close < Len(pattern))
      BY <1>0, <2>1, <2>3, <2>10
    <3>2. /\ Body(at, g) = (close < Len(pattern) /\ listed /\ g[<<close + 1, s + 1>>])
          /\ Body(at, h) = (close < Len(pattern) /\ listed /\ h[<<close + 1, s + 1>>])
      BY <2>10 DEF FnmatchAt, r, s
    <3> HIDE DEF Body, close, listed
    <3>3. close < Len(pattern) => g[<<close + 1, s + 1>>] = h[<<close + 1, s + 1>>]
      <4>1. s + 1 \in 0 .. Len(string)
        BY <2>7, <2>10
      <4> QED
        BY <2>2, <3>1, <4>1
    <3> QED
      BY <3>2, <3>3
  <2>11. CASE ~(r = Len(pattern) \/ s = Len(string)) /\ pattern[r + 1] \notin {"*", "["}
    <3>1. g[<<r + 1, s + 1>>] = h[<<r + 1, s + 1>>]
      BY <2>2, <2>6, <2>7, <2>11
    <3>2. CASE pattern[r + 1] = "?"
      <4>1. Body(at, g) = g[<<r + 1, s + 1>>] /\ Body(at, h) = h[<<r + 1, s + 1>>]
        BY <2>11, <3>2 DEF FnmatchAt, r, s
      <4> QED
        BY <3>1, <4>1
    <3>3. CASE pattern[r + 1] # "?"
      <4>1. /\ Body(at, g) = (pattern[r + 1] = string[s + 1] /\ g[<<r + 1, s + 1>>])
            /\ Body(at, h) = (pattern[r + 1] = string[s + 1] /\ h[<<r + 1, s + 1>>])
        BY <2>11, <3>3 DEF FnmatchAt, r, s
      <4> HIDE DEF Body
      <4> QED
        BY <3>1, <4>1
    <3> QED
      BY <3>2, <3>3
  <2> HIDE DEF Body
  <2>12. pattern[r + 1] = "*" \/ pattern[r + 1] = "[" \/ pattern[r + 1] \notin {"*", "["}
    OBVIOUS
  <2> QED
    BY <2>8, <2>9, <2>10, <2>11, <2>12
<1>4. \A at \in S, g \in [S -> BOOLEAN] : F[<<at, g>>] = Body(at, g)
  <2> HIDE DEF Body, S
  <2> QED
    OBVIOUS
<1> HIDE DEF S, Body, m, F, from
<1>5. Descends(F, S, BOOLEAN, m)
  <2>1. \A x \in S : \A g \in [S -> BOOLEAN] : F[<<x, g>>] \in BOOLEAN
    BY <1>2, <1>4
  <2>2. Local(F, S, BOOLEAN, m)
    BY <1>3, <1>4 DEF Local
  <2>3. BOOLEAN # {}
    OBVIOUS
  <2> QED
    BY <1>1, <2>1, <2>2, <2>3 DEF Descends
<1>6. \E f : f = [at \in S |-> Body(at, f)]
  <2>1. PICK f \in [S -> BOOLEAN] : \A at \in S : f[at] = F[<<at, f>>]
    BY <1>5, Recursion DEF Solves
  <2>2. \A at \in S : f[at] = Body(at, f)
    BY <1>4, <2>1
  <2> QED
    BY <2>1, <2>2
<1>7. from = [at \in S |-> Body(at, from)]
  BY <1>6 DEF from
<1>8. Fnmatch(pattern, string) = from[<<0, 0>>]
  BY DEF Fnmatch, FnmatchAt, from, S, Body
<1> QED
  BY <1>7, <1>8 DEF S, Body

LEMMA MatchesExists ==
  ASSUME NEW C, NEW D, NEW pattern \in Seq(C), NEW string \in Seq(D)
  PROVE  \E f : /\ f = [at \in Places(pattern, string) |-> MatchesAt(pattern, string, at, f)]
               /\ Matches(pattern, string) = f[<<0, 0>>]
<1> DEFINE S == Places(pattern, string)
           Body(at, g) == MatchesAt(pattern, string, at, g)
           m == [at \in S |-> Len(pattern) - at[1]]
           F == [z \in S \X [S -> BOOLEAN] |-> Body(z[1], z[2])]
           from == CHOOSE f : f = [at \in S |-> Body(at, f)]
<1>0. Len(pattern) \in Nat /\ Len(string) \in Nat
  BY LenProperties
<1>1. m \in [S -> Nat]
  BY <1>0 DEF Places
<1>2. \A at \in S, g \in [S -> BOOLEAN] : Body(at, g) \in BOOLEAN
  <2> SUFFICES ASSUME NEW at \in S, NEW g \in [S -> BOOLEAN] PROVE Body(at, g) \in BOOLEAN
    OBVIOUS
  <2>1. at[1] \in 0 .. Len(pattern) /\ at[2] \in 0 .. Len(string)
    BY DEF Places
  <2>2. \A q \in 0 .. Len(pattern), k \in 0 .. Len(string) : g[<<q, k>>] \in BOOLEAN
    BY DEF Places
  <2>3. /\ at[1] # Len(pattern) => at[1] + 1 \in 0 .. Len(pattern)
        /\ at[2] # Len(string) => at[2] + 1 \in 0 .. Len(string)
    BY <1>0, <2>1
  <2> HIDE DEF S
  <2> QED
    BY <2>1, <2>2, <2>3 DEF MatchesAt
<1>3. ASSUME NEW at \in S, NEW g, NEW h, \A q \in S : m[q] < m[at] => g[q] = h[q]
      PROVE  Body(at, g) = Body(at, h)
  <2> DEFINE r == at[1]
             s == at[2]
  <2>1. /\ r \in 0 .. Len(pattern) /\ s \in 0 .. Len(string) /\ at = <<r, s>>
        /\ m[at] = Len(pattern) - r
    BY DEF Places
  <2>2. ASSUME NEW q \in r + 1 .. Len(pattern), NEW k \in 0 .. Len(string)
        PROVE  g[<<q, k>>] = h[<<q, k>>]
    <3>1. <<q, k>> \in S /\ m[<<q, k>>] = Len(pattern) - q
      BY <1>0, <2>1 DEF Places
    <3>2. m[<<q, k>>] < m[at]
      BY <1>0, <2>1, <3>1
    <3> QED
      BY <1>3, <3>1, <3>2
  <2>3. r < Len(pattern) => Class(pattern, r).close \in r + 1 .. Len(pattern)
    BY <1>0, <2>1, ClassAhead
  <2>4. r + 1 \in r + 1 .. Len(pattern) \/ r = Len(pattern)
    BY <1>0, <2>1
  <2>5. s < Len(string) => s + 1 \in 0 .. Len(string)
    BY <1>0, <2>1
  <2> HIDE DEF r, s, m
  <2>6. CASE r = Len(pattern)
    BY <2>6 DEF MatchesAt, r, s
  <2>7. CASE r # Len(pattern) /\ pattern[r + 1] = "*"
    <3>1. /\ Body(at, g) = (\E k \in s .. Len(string) : g[<<r + 1, k>>])
          /\ Body(at, h) = (\E k \in s .. Len(string) : h[<<r + 1, k>>])
      BY <2>7 DEF MatchesAt, r, s
    <3>2. \A k \in s .. Len(string) : g[<<r + 1, k>>] = h[<<r + 1, k>>]
      <4>1. \A k \in s .. Len(string) : k \in 0 .. Len(string)
        BY <1>0, <2>1
      <4> QED
        BY <2>2, <2>4, <2>7, <4>1
    <3> HIDE DEF Body
    <3> QED
      BY <3>1, <3>2
  <2>8. CASE r # Len(pattern) /\ pattern[r + 1] = "["
    <3>1. Class(pattern, r).close + 1 \in r + 1 .. Len(pattern) \/ ~(Class(pattern, r).close < Len(pattern))
      BY <1>0, <2>1, <2>3, <2>8
    <3>2. /\ Body(at, g) = (/\ s < Len(string) /\ Class(pattern, r).close < Len(pattern)
                            /\ (string[s + 1] \in Class(pattern, r).members) # Class(pattern, r).negate
                            /\ g[<<Class(pattern, r).close + 1, s + 1>>])
          /\ Body(at, h) = (/\ s < Len(string) /\ Class(pattern, r).close < Len(pattern)
                            /\ (string[s + 1] \in Class(pattern, r).members) # Class(pattern, r).negate
                            /\ h[<<Class(pattern, r).close + 1, s + 1>>])
      BY <2>8 DEF MatchesAt, r, s
    <3> HIDE DEF Body
    <3> QED
      BY <2>2, <2>5, <3>1, <3>2
  <2>9. CASE r # Len(pattern) /\ pattern[r + 1] \notin {"*", "["}
    <3>1. s < Len(string) => g[<<r + 1, s + 1>>] = h[<<r + 1, s + 1>>]
      BY <2>2, <2>4, <2>5, <2>9
    <3> QED
      BY <2>9, <3>1 DEF MatchesAt, r, s
  <2> QED
    BY <2>6, <2>7, <2>8, <2>9
<1>4. \A at \in S, g \in [S -> BOOLEAN] : F[<<at, g>>] = Body(at, g)
  <2> HIDE DEF Body, S
  <2> QED
    OBVIOUS
<1> HIDE DEF S, Body, m, F, from
<1>5. Descends(F, S, BOOLEAN, m)
  <2>1. \A x \in S : \A g \in [S -> BOOLEAN] : F[<<x, g>>] \in BOOLEAN
    BY <1>2, <1>4
  <2>2. Local(F, S, BOOLEAN, m)
    BY <1>3, <1>4 DEF Local
  <2>3. BOOLEAN # {}
    OBVIOUS
  <2> QED
    BY <1>1, <2>1, <2>2, <2>3 DEF Descends
<1>6. \E f : f = [at \in S |-> Body(at, f)]
  <2>1. PICK f \in [S -> BOOLEAN] : \A at \in S : f[at] = F[<<at, f>>]
    BY <1>5, Recursion DEF Solves
  <2>2. \A at \in S : f[at] = Body(at, f)
    BY <1>4, <2>1
  <2> QED
    BY <2>1, <2>2
<1>7. from = [at \in S |-> Body(at, from)]
  BY <1>6 DEF from
<1>8. Matches(pattern, string) = from[<<0, 0>>]
  BY DEF Matches, MatchesAt, from, S, Body
<1> QED
  BY <1>7, <1>8 DEF S, Body

\* Both, unfolded at a place: what they say there, mine the function and meant
\* the reference.
Listed(pattern, string, r, s) ==
  (string[s + 1] \in Class(pattern, r).members) # Class(pattern, r).negate
Hits(pattern, string, stars, s) ==
  {k \in s .. Len(string) - 1 : stars < Len(pattern) /\ string[k + 1] = pattern[stars + 1]}

MatchStep(pattern, string, r, s, f, h, mine, meant) ==
  LET close == Class(pattern, r).close
      stars == AfterStars(pattern, r)
  IN  /\ r = Len(pattern) \/ s = Len(string) => mine = (r = Len(pattern) /\ s = Len(string))
      /\ r = Len(pattern) => meant = (s = Len(string))
      /\ r < Len(pattern) /\ pattern[r + 1] = "*" =>
            /\ s < Len(string) =>
                  mine = (\/ stars = Len(pattern)
                          \/ /\ Hits(pattern, string, stars, s) # {}
                             /\ f[<<stars, Min(Hits(pattern, string, stars, s))>>])
            /\ meant = \E k \in s .. Len(string) : h[<<r + 1, k>>]
      /\ r < Len(pattern) /\ pattern[r + 1] = "[" =>
            /\ s < Len(string) =>
                  mine = (close < Len(pattern) /\ Listed(pattern, string, r, s) /\ f[<<close + 1, s + 1>>])
            /\ meant = (/\ s < Len(string) /\ close < Len(pattern) /\ Listed(pattern, string, r, s)
                        /\ h[<<close + 1, s + 1>>])
      /\ r < Len(pattern) /\ pattern[r + 1] = "?" =>
            /\ s < Len(string) => mine = f[<<r + 1, s + 1>>]
            /\ meant = (s < Len(string) /\ h[<<r + 1, s + 1>>])
      /\ r < Len(pattern) /\ pattern[r + 1] \notin {"*", "[", "?"} =>
            /\ s < Len(string) => mine = (pattern[r + 1] = string[s + 1] /\ f[<<r + 1, s + 1>>])
            /\ meant = (s < Len(string) /\ pattern[r + 1] = string[s + 1] /\ h[<<r + 1, s + 1>>])

LEMMA MatchSteps ==
  ASSUME NEW C, NEW D, NEW pattern \in Seq(C), NEW string \in Seq(D),
         NEW r \in 0 .. Len(pattern), NEW s \in 0 .. Len(string), NEW f, NEW h
  PROVE  MatchStep(pattern, string, r, s, f, h,
                   FnmatchAt(pattern, string, <<r, s>>, f), MatchesAt(pattern, string, <<r, s>>, h))
<1>0. Len(pattern) \in Nat /\ Len(string) \in Nat
  BY LenProperties
<1>1. <<r, s>>[1] = r /\ <<r, s>>[2] = s
  OBVIOUS
<1>2. /\ r < Len(pattern) => r # Len(pattern)
      /\ s < Len(string) => s # Len(string)
  BY <1>0
<1>3. /\ r = Len(pattern) \/ s = Len(string) =>
            FnmatchAt(pattern, string, <<r, s>>, f) = (r = Len(pattern) /\ s = Len(string))
      /\ r = Len(pattern) => MatchesAt(pattern, string, <<r, s>>, h) = (s = Len(string))
  BY <1>1 DEF FnmatchAt, MatchesAt, Ended
<1>4. CASE r < Len(pattern) /\ pattern[r + 1] = "*"
  BY <1>1, <1>2, <1>3, <1>4 DEF FnmatchAt, MatchesAt, AfterStars, Hits, MatchStep
<1>5. CASE r < Len(pattern) /\ pattern[r + 1] = "["
  BY <1>1, <1>2, <1>3, <1>5 DEF FnmatchAt, MatchesAt, Listed, MatchStep
<1>6. CASE r < Len(pattern) /\ pattern[r + 1] = "?"
  BY <1>1, <1>2, <1>3, <1>6 DEF FnmatchAt, MatchesAt, MatchStep
<1>7. CASE r < Len(pattern) /\ pattern[r + 1] \notin {"*", "[", "?"}
  BY <1>1, <1>2, <1>3, <1>7 DEF FnmatchAt, MatchesAt, MatchStep
<1>8. CASE ~(r < Len(pattern))
  BY <1>3, <1>8 DEF MatchStep
<1> QED
  BY <1>4, <1>5, <1>6, <1>7, <1>8

LEMMA HitsInside ==
  ASSUME NEW D, NEW string \in Seq(D), NEW pattern, NEW stars, NEW s \in 0 .. Len(string),
         Hits(pattern, string, stars, s) # {}
  PROVE  Min(Hits(pattern, string, stars, s)) \in s .. Len(string)
<1> DEFINE hits == Hits(pattern, string, stars, s)
<1>0. Len(string) \in Nat
  BY LenProperties
<1>1. hits \in SUBSET Nat /\ hits \subseteq s .. Len(string)
  BY <1>0 DEF Hits
<1> HIDE DEF hits
<1>2. \E least \in hits : \A x \in hits : least <= x
  BY <1>1, Minimum DEF hits
<1>3. Min(hits) \in hits
  BY <1>2 DEF Min
<1> QED
  BY <1>1, <1>3 DEF hits

\* What the function accepts the pattern means, and all of it without a star.
LEMMA FnmatchAgrees ==
  ASSUME NEW C, NEW D, NEW pattern \in Seq(C), NEW string \in Seq(D)
  PROVE  /\ Fnmatch(pattern, string) => Matches(pattern, string)
         /\ (\A r \in 1 .. Len(pattern) : pattern[r] # "*") =>
               (Matches(pattern, string) => Fnmatch(pattern, string))
<1> DEFINE S == Places(pattern, string)
           m == [at \in S |-> Len(pattern) - at[1]]
           Plain == \A r \in 1 .. Len(pattern) : pattern[r] # "*"
<1>0. Len(pattern) \in Nat /\ Len(string) \in Nat
  BY LenProperties
<1>1. PICK f : /\ f = [at \in S |-> FnmatchAt(pattern, string, at, f)]
               /\ Fnmatch(pattern, string) = f[<<0, 0>>]
  BY FnmatchExists
<1>2. PICK h : /\ h = [at \in S |-> MatchesAt(pattern, string, at, h)]
               /\ Matches(pattern, string) = h[<<0, 0>>]
  BY MatchesExists
<1> DEFINE Agree(at) == (f[at] => h[at]) /\ (Plain => (h[at] => f[at]))
           T == {at \in S : Agree(at)}
<1>3. m \in [S -> Nat]
  BY <1>0 DEF Places
<1>4. ASSUME NEW r \in 0 .. Len(pattern), NEW s \in 0 .. Len(string)
      PROVE  MatchStep(pattern, string, r, s, f, h, f[<<r, s>>], h[<<r, s>>])
  <2>1. <<r, s>> \in S
    BY DEF Places
  <2>2. /\ f[<<r, s>>] = FnmatchAt(pattern, string, <<r, s>>, f)
        /\ h[<<r, s>>] = MatchesAt(pattern, string, <<r, s>>, h)
    <3> HIDE DEF S
    <3> QED
      BY <1>1, <1>2, <2>1
  <2>3. MatchStep(pattern, string, r, s, f, h,
                  FnmatchAt(pattern, string, <<r, s>>, f), MatchesAt(pattern, string, <<r, s>>, h))
    BY MatchSteps
  <2> QED
    BY <2>2, <2>3
<1>5. ASSUME NEW r \in 0 .. Len(pattern), NEW s \in 0 .. Len(string),
             \A q \in r + 1 .. Len(pattern), k \in 0 .. Len(string) : Agree(<<q, k>>)
      PROVE  Agree(<<r, s>>)
  <2> HIDE DEF S, T, m
  <2>0. MatchStep(pattern, string, r, s, f, h, f[<<r, s>>], h[<<r, s>>])
    BY <1>4
  <2>1. r + 1 \in Nat /\ (r = Len(pattern) \/ (r < Len(pattern) /\ r + 1 \in r + 1 .. Len(pattern)))
    BY <1>0
  <2>2. s < Len(string) \/ s = Len(string)
    BY <1>0
  <2>3. CASE r = Len(pattern)
    <3>1. h[<<r, s>>] = (s = Len(string)) /\ f[<<r, s>>] = (s = Len(string))
      BY <2>0, <2>3 DEF MatchStep
    <3> QED
      BY <3>1
  <2>4. CASE r < Len(pattern) /\ pattern[r + 1] = "*"
    <3> DEFINE stars == AfterStars(pattern, r)
               hits == Hits(pattern, string, stars, s)
    <3>1. /\ s < Len(string) =>
               f[<<r, s>>] = (stars = Len(pattern) \/ (hits # {} /\ f[<<stars, Min(hits)>>]))
          /\ s = Len(string) => f[<<r, s>>] = (r = Len(pattern))
          /\ h[<<r, s>>] = \E k \in s .. Len(string) : h[<<r + 1, k>>]
      BY <2>0, <2>4 DEF MatchStep
    <3>2. r # Len(pattern) /\ r + 1 \in r + 1 .. Len(pattern) /\ r + 1 \in 0 .. Len(pattern)
      BY <1>0, <2>4
    <3>3. stars = AfterStars(pattern, r + 1)
      BY <1>0, <2>1, <2>4, <3>2, StarsAhead, SMTT(30)
    <3>4. ~Plain
      <4>1. r + 1 \in 1 .. Len(pattern)
        BY <1>0, <2>4
      <4> QED
        BY <2>4, <4>1
    <3>5. ASSUME f[<<r, s>>], s < Len(string) PROVE h[<<r, s>>]
      <4>1. h[<<Len(pattern), Len(string)>>]
        <5>1. Len(pattern) \in 0 .. Len(pattern) /\ Len(string) \in 0 .. Len(string)
          BY <1>0
        <5>2. h[<<Len(pattern), Len(string)>>] = (Len(string) = Len(string))
          BY <1>4, <5>1 DEF MatchStep
        <5> QED
          BY <5>2
      <4>2. CASE r + 1 = Len(pattern)
        <5>1. Len(string) \in s .. Len(string)
          BY <1>0
        <5> QED
          BY <3>1, <4>1, <4>2, <5>1
      <4>3. CASE r + 1 < Len(pattern) /\ pattern[r + 1 + 1] = "*"
        <5>1. f[<<r + 1, s>>] = (stars = Len(pattern) \/ (hits # {} /\ f[<<stars, Min(hits)>>]))
          <6>1. MatchStep(pattern, string, r + 1, s, f, h, f[<<r + 1, s>>], h[<<r + 1, s>>])
            BY <1>4, <3>2
          <6> QED
            BY <3>3, <3>5, <4>3, <6>1 DEF MatchStep
        <5>2. f[<<r + 1, s>>]
          BY <3>1, <3>5, <5>1
        <5>3. h[<<r + 1, s>>] /\ s \in s .. Len(string)
          BY <1>0, <1>5, <3>2, <5>2
        <5> QED
          BY <3>1, <5>3
      <4>4. CASE r + 1 < Len(pattern) /\ pattern[r + 1 + 1] # "*"
        <5>1. stars = r + 1
          <6>1. PICK q \in Nat : q = r + 1 /\ q <= Len(pattern) /\ pattern[q + 1] # "*"
            BY <1>0, <3>2, <4>4
          <6>2. AfterStars(pattern, q) = q
            BY <6>1, StarsAhead
          <6> HIDE DEF stars
          <6> QED
            BY <3>3, <6>1, <6>2
        <5>2. hits # {} /\ f[<<r + 1, Min(hits)>>]
          <6>1. stars # Len(pattern)
            BY <1>0, <4>4, <5>1
          <6> HIDE DEF hits
          <6> QED
            BY <3>1, <3>5, <5>1, <6>1
        <5>3. Min(hits) \in s .. Len(string)
          BY <5>2, HitsInside
        <5>4. Min(hits) \in 0 .. Len(string)
          BY <1>0, <5>3
        <5>5. h[<<r + 1, Min(hits)>>]
          BY <1>5, <3>2, <5>2, <5>4
        <5> QED
          BY <3>1, <5>3, <5>5
      <4> QED
        BY <1>0, <2>1, <3>2, <4>2, <4>3, <4>4
    <3> HIDE DEF Plain
    <3> QED
      BY <2>2, <3>1, <3>2, <3>4, <3>5
  <2>5. CASE r < Len(pattern) /\ pattern[r + 1] # "*" /\ s = Len(string)
    <3>1. r # Len(pattern) /\ ~(s < Len(string))
      BY <1>0, <2>5
    <3>2. f[<<r, s>>] = FALSE
      BY <2>0, <2>5, <3>1 DEF MatchStep
    <3>3. h[<<r, s>>] = FALSE
      BY <2>0, <2>5, <3>1 DEF MatchStep
    <3> QED
      BY <3>2, <3>3
  <2>6. CASE r < Len(pattern) /\ pattern[r + 1] = "[" /\ s < Len(string)
    <3> DEFINE close == Class(pattern, r).close
               listed == Listed(pattern, string, r, s)
    <3>1. f[<<r, s>>] = (close < Len(pattern) /\ listed /\ f[<<close + 1, s + 1>>])
      BY <2>0, <2>6 DEF MatchStep
    <3>2. h[<<r, s>>] = (/\ s < Len(string) /\ close < Len(pattern) /\ listed
                         /\ h[<<close + 1, s + 1>>])
      BY <2>0, <2>6 DEF MatchStep
    <3>3. close \in r + 1 .. Len(pattern)
      <4>1. r \in Nat
        BY <1>0
      <4> QED
        BY <2>6, <4>1, ClassAhead
    <3> HIDE DEF close, listed
    <3>4. s + 1 \in 0 .. Len(string) /\ (close < Len(pattern) => close + 1 \in r + 1 .. Len(pattern))
      BY <1>0, <2>6, <3>3
    <3>5. close < Len(pattern) => Agree(<<close + 1, s + 1>>)
      BY <1>5, <3>4
    <3> HIDE DEF Plain
    <3> QED
      BY <2>6, <3>1, <3>2, <3>5
  <2>7. CASE r < Len(pattern) /\ pattern[r + 1] \notin {"*", "["} /\ s < Len(string)
    <3>1. s + 1 \in 0 .. Len(string)
      BY <1>0, <2>7
    <3>2. Agree(<<r + 1, s + 1>>)
      BY <1>5, <2>1, <2>7, <3>1
    <3>3. CASE pattern[r + 1] = "?"
      <4>1. f[<<r, s>>] = f[<<r + 1, s + 1>>]
        BY <2>0, <2>7, <3>3 DEF MatchStep
      <4>2. h[<<r, s>>] = (s < Len(string) /\ h[<<r + 1, s + 1>>])
        BY <2>0, <2>7, <3>3 DEF MatchStep
      <4> HIDE DEF Plain
      <4> QED
        BY <2>7, <3>2, <4>1, <4>2
    <3>4. CASE pattern[r + 1] # "?"
      <4>0. pattern[r + 1] \notin {"*", "[", "?"}
        BY <2>7, <3>4
      <4>1. f[<<r, s>>] = (pattern[r + 1] = string[s + 1] /\ f[<<r + 1, s + 1>>])
        BY <2>0, <2>7, <4>0 DEF MatchStep
      <4>2. h[<<r, s>>] = (s < Len(string) /\ pattern[r + 1] = string[s + 1] /\ h[<<r + 1, s + 1>>])
        BY <2>0, <2>7, <4>0 DEF MatchStep
      <4> HIDE DEF Plain
      <4> QED
        BY <2>7, <3>2, <4>1, <4>2
    <3> QED
      BY <3>3, <3>4
  <2> HIDE DEF Agree
  <2> QED
    BY <2>1, <2>2, <2>3, <2>4, <2>5, <2>6, <2>7
<1> HIDE DEF Agree
<1>6. ASSUME NEW at \in S, \A q \in S : m[q] < m[at] => q \in T PROVE at \in T
  <2>1. PICK r \in 0 .. Len(pattern), s \in 0 .. Len(string) : at = <<r, s>>
    BY DEF Places
  <2>2. ASSUME NEW q \in r + 1 .. Len(pattern), NEW k \in 0 .. Len(string) PROVE Agree(<<q, k>>)
    <3>1. <<q, k>> \in S /\ m[<<q, k>>] = Len(pattern) - q /\ m[at] = Len(pattern) - r
      BY <1>0, <2>1 DEF Places
    <3>2. m[<<q, k>>] < m[at]
      BY <1>0, <3>1
    <3> QED
      BY <1>6, <3>1, <3>2
  <2>3. Agree(at)
    BY <1>5, <2>1, <2>2
  <2> QED
    BY <2>3
<1>7. <<0, 0>> \in S
  BY <1>0 DEF Places
<1> HIDE DEF S, m, T
<1>8. \A at \in S : at \in T
  BY <1>3, <1>6, MeasureInduction DEF Inherits
<1>9. Agree(<<0, 0>>)
  BY <1>7, <1>8 DEF T
<1> QED
  BY <1>1, <1>2, <1>9 DEF Plain, Agree
-----------------------------------------------------------------------------
(* strtol.                                                                 *)

\* A run of digits of a text.
Numeral(t, from, to, base) ==
  /\ from \in Nat /\ to \in Nat /\ from <= to /\ base \in 2 .. 36
  /\ \A p \in from .. to - 1 : DigitValue[Char(t, p)] \in 0 .. base - 1

\* The equations that define the accumulator and the exact value.
AccumulateAt(t, from, base, bound, p, loop) ==
  IF p = from THEN [acc |-> 0, any |-> 0]
  ELSE LET before == loop[p - 1]
           d == DigitValue[Char(t, p - 1)]
       IN  IF before.any < 0 \/ TooBig(before.acc, d, base, bound)
           THEN [before EXCEPT !.any = -1]
           ELSE [acc |-> (before.acc * base + d) % Base, any |-> 1]
ExactAt(t, from, base, p, value) ==
  IF p = from THEN 0 ELSE value[p - 1] * base + DigitValue[Char(t, p - 1)]

LEMMA DigitBefore ==
  ASSUME NEW t, NEW from, NEW to, NEW base, Numeral(t, from, to, base),
         NEW p \in from .. to, p # from
  PROVE  p - 1 \in from .. to /\ DigitValue[Char(t, p - 1)] \in 0 .. base - 1
<1>1. p - 1 \in from .. to - 1
  BY DEF Numeral
<1>2. p - 1 \in from .. to
  BY DEF Numeral
<1> QED
  BY <1>1, <1>2 DEF Numeral

LEMMA AccumulateExists ==
  ASSUME NEW t, NEW from, NEW to, NEW base, Numeral(t, from, to, base), NEW bound
  PROVE  \E loop : /\ loop = [p \in from .. to |-> AccumulateAt(t, from, base, bound, p, loop)]
                   /\ Accumulate(t, from, to, base, bound) = loop[to]
<1> DEFINE S == from .. to
           V == [acc : Nat, any : Int]
           Body(p, g) == AccumulateAt(t, from, base, bound, p, g)
           m == [p \in S |-> p - from]
           F == [z \in S \X [S -> V] |-> Body(z[1], z[2])]
           loop == CHOOSE f : f = [p \in S |-> Body(p, f)]
<1>0. from \in Nat /\ to \in Nat /\ from <= to /\ base \in 2 .. 36
  BY DEF Numeral
<1>1. m \in [S -> Nat]
  BY <1>0
<1>2. ASSUME NEW p \in S, NEW g \in [S -> V] PROVE Body(p, g) \in V
  <2>1. CASE p = from
    BY <2>1 DEF AccumulateAt
  <2>2. CASE p # from
    <3> DEFINE before == g[p - 1]
               d == DigitValue[Char(t, p - 1)]
    <3>1. p - 1 \in S /\ d \in 0 .. base - 1
      BY <2>2, DigitBefore
    <3>2. before \in V
      BY <3>1
    <3>3. [before EXCEPT !.any = -1] \in V
      BY <3>2
    <3>4. before.acc * base + d \in Nat
      <4>1. before.acc \in Nat /\ d \in Nat /\ base \in Nat
        BY <1>0, <3>1, <3>2
      <4> HIDE DEF before, d
      <4> QED
        BY <4>1
    <3>5. (before.acc * base + d) % Base \in Nat
      <4>1. Base \in Nat \ {0}
        BY Widths
      <4> HIDE DEF before, d
      <4> QED
        BY <3>4, <4>1
    <3>6. [acc |-> (before.acc * base + d) % Base, any |-> 1] \in V
      BY <3>5
    <3>7. Body(p, g) = IF before.any < 0 \/ TooBig(before.acc, d, base, bound)
                       THEN [before EXCEPT !.any = -1]
                       ELSE [acc |-> (before.acc * base + d) % Base, any |-> 1]
      BY <2>2 DEF AccumulateAt
    <3> HIDE DEF V, Body, before, d
    <3> QED
      BY <3>3, <3>6, <3>7
  <2> QED
    BY <2>1, <2>2
<1>3. ASSUME NEW p \in S, NEW g, NEW h, \A r \in S : m[r] < m[p] => g[r] = h[r]
      PROVE  Body(p, g) = Body(p, h)
  <2>1. CASE p = from
    BY <2>1 DEF AccumulateAt
  <2>2. CASE p # from
    <3>1. p - 1 \in S /\ m[p - 1] < m[p]
      BY <1>0, <2>2
    <3>2. g[p - 1] = h[p - 1]
      BY <1>3, <3>1
    <3> QED
      BY <2>2, <3>2 DEF AccumulateAt
  <2> QED
    BY <2>1, <2>2
<1>4. \A p \in S, g \in [S -> V] : F[<<p, g>>] = Body(p, g)
  <2> HIDE DEF Body, V, S
  <2> QED
    OBVIOUS
<1>5. V # {}
  <2>1. [acc |-> 0, any |-> 0] \in V
    OBVIOUS
  <2> QED
    BY <2>1
<1>6. Accumulate(t, from, to, base, bound) = loop[to]
  BY DEF Accumulate, AccumulateAt, loop, S, Body
<1> HIDE DEF S, V, Body, m, F, loop
<1>7. Descends(F, S, V, m)
  <2>1. \A x \in S : \A g \in [S -> V] : F[<<x, g>>] \in V
    BY <1>2, <1>4
  <2>2. Local(F, S, V, m)
    BY <1>3, <1>4 DEF Local
  <2> QED
    BY <1>1, <1>5, <2>1, <2>2 DEF Descends
<1>8. \E f : f = [p \in S |-> Body(p, f)]
  <2>1. PICK f \in [S -> V] : \A p \in S : f[p] = F[<<p, f>>]
    BY <1>7, Recursion DEF Solves
  <2>2. \A p \in S : f[p] = Body(p, f)
    BY <1>4, <2>1
  <2> QED
    BY <2>1, <2>2
<1>9. loop = [p \in S |-> Body(p, loop)]
  BY <1>8 DEF loop
<1> QED
  BY <1>6, <1>9 DEF S, Body

LEMMA ExactExists ==
  ASSUME NEW t, NEW from, NEW to, NEW base, Numeral(t, from, to, base)
  PROVE  \E value : /\ value = [p \in from .. to |-> ExactAt(t, from, base, p, value)]
                    /\ ExactValue(t, from, to, base) = value[to]
<1> DEFINE S == from .. to
           Body(p, g) == ExactAt(t, from, base, p, g)
           m == [p \in S |-> p - from]
           F == [z \in S \X [S -> Nat] |-> Body(z[1], z[2])]
           value == CHOOSE f : f = [p \in S |-> Body(p, f)]
<1>0. from \in Nat /\ to \in Nat /\ from <= to /\ base \in 2 .. 36
  BY DEF Numeral
<1>1. m \in [S -> Nat]
  BY <1>0
<1>2. ASSUME NEW p \in S, NEW g \in [S -> Nat] PROVE Body(p, g) \in Nat
  <2>1. CASE p = from
    BY <2>1 DEF ExactAt
  <2>2. CASE p # from
    <3> DEFINE before == g[p - 1]
               d == DigitValue[Char(t, p - 1)]
    <3>1. p - 1 \in S /\ d \in 0 .. base - 1
      BY <2>2, DigitBefore
    <3>2. before \in Nat /\ d \in Nat /\ base \in Nat
      BY <1>0, <3>1
    <3>3. Body(p, g) = before * base + d
      BY <2>2 DEF ExactAt
    <3> HIDE DEF before, d, Body
    <3> QED
      BY <3>2, <3>3
  <2> QED
    BY <2>1, <2>2
<1>3. ASSUME NEW p \in S, NEW g, NEW h, \A r \in S : m[r] < m[p] => g[r] = h[r]
      PROVE  Body(p, g) = Body(p, h)
  <2>1. CASE p = from
    BY <2>1 DEF ExactAt
  <2>2. CASE p # from
    <3>1. p - 1 \in S /\ m[p - 1] < m[p]
      BY <1>0, <2>2
    <3>2. g[p - 1] = h[p - 1]
      BY <1>3, <3>1
    <3> QED
      BY <2>2, <3>2 DEF ExactAt
  <2> QED
    BY <2>1, <2>2
<1>4. \A p \in S, g \in [S -> Nat] : F[<<p, g>>] = Body(p, g)
  <2> HIDE DEF Body, S
  <2> QED
    OBVIOUS
<1>6. ExactValue(t, from, to, base) = value[to]
  BY DEF ExactValue, ExactAt, value, S, Body
<1> HIDE DEF S, Body, m, F, value
<1>7. Descends(F, S, Nat, m)
  <2>1. \A x \in S : \A g \in [S -> Nat] : F[<<x, g>>] \in Nat
    BY <1>2, <1>4
  <2>2. Local(F, S, Nat, m)
    BY <1>3, <1>4 DEF Local
  <2>3. Nat # {}
    OBVIOUS
  <2> QED
    BY <1>1, <2>1, <2>2, <2>3 DEF Descends
<1>8. \E f : f = [p \in S |-> Body(p, f)]
  <2>1. PICK f \in [S -> Nat] : \A p \in S : f[p] = F[<<p, f>>]
    BY <1>7, Recursion DEF Solves
  <2>2. \A p \in S : f[p] = Body(p, f)
    BY <1>4, <2>1
  <2> QED
    BY <2>1, <2>2
<1>9. value = [p \in S |-> Body(p, value)]
  BY <1>8 DEF value
<1> QED
  BY <1>6, <1>9 DEF S, Body

\* The test against cutoff and cutlim tells exactly when the next digit does
\* not fit under the bound.
LEMMA TooBigIsTooBig ==
  ASSUME NEW acc \in Nat, NEW base \in Nat \ {0}, NEW d \in 0 .. base - 1, NEW bound \in Nat
  PROVE  TooBig(acc, d, base, bound) <=> acc * base + d > bound
<1>1. PICK q \in Nat, r \in 0 .. base - 1, qb \in Nat, ab \in Nat :
        /\ q = bound \div base /\ r = bound % base /\ qb = q * base /\ ab = acc * base
        /\ bound = qb + r
  <2>1. (bound \div base) \in Nat /\ (bound % base) \in 0 .. base - 1
        /\ bound = (bound \div base) * base + (bound % base)
    BY Division
  <2> DEFINE q == bound \div base
  <2>2. q * base \in Nat /\ acc * base \in Nat
    <3>1. q \in Nat
      BY <2>1
    <3> HIDE DEF q
    <3> QED
      BY <3>1
  <2> QED
    BY <2>1, <2>2
<1>2. CASE acc > q
  <2>1. ab >= qb + base
    <3>1. (q + 1) * base = q * base + base
      OBVIOUS
    <3>2. (q + 1) * base <= acc * base
      BY <1>2
    <3> QED
      BY <1>1, <3>1, <3>2
  <2> QED
    BY <1>1, <1>2, <2>1 DEF TooBig
<1>3. CASE acc = q
  BY <1>1, <1>3 DEF TooBig
<1>4. CASE acc < q
  <2>1. ab + base <= qb
    <3>1. (acc + 1) * base = acc * base + base
      OBVIOUS
    <3>2. (acc + 1) * base <= q * base
      BY <1>4
    <3> QED
      BY <1>1, <3>1, <3>2
  <2> QED
    BY <1>1, <1>4, <2>1 DEF TooBig
<1> QED
  BY <1>2, <1>3, <1>4

\* The accumulator is the exact value as long as that fits, and "any" is
\* negative from the first digit on that does not.
LEMMA AccumulateClamps ==
  ASSUME NEW t, NEW from, NEW to, NEW base, Numeral(t, from, to, base),
         NEW bound \in 0 .. Base - 1
  PROVE  LET num == Accumulate(t, from, to, base, bound)
             exact == ExactValue(t, from, to, base)
         IN  /\ exact \in Nat /\ num.any \in {-1, 0, 1}
             /\ num.any = 0 <=> from = to
             /\ num.any < 0 <=> exact > bound
             /\ num.any >= 0 => num.acc = exact
<1>0. /\ from \in Nat /\ to \in Nat /\ from <= to /\ base \in 2 .. 36
      /\ bound \in Nat /\ Base \in Nat \ {0} /\ bound < Base
  BY Widths DEF Numeral
<1>1. PICK loop : /\ loop = [p \in from .. to |-> AccumulateAt(t, from, base, bound, p, loop)]
                  /\ Accumulate(t, from, to, base, bound) = loop[to]
  BY AccumulateExists
<1>2. PICK value : /\ value = [p \in from .. to |-> ExactAt(t, from, base, p, value)]
                   /\ ExactValue(t, from, to, base) = value[to]
  BY ExactExists
<1> DEFINE S == from .. to
           m == [p \in S |-> p - from]
           Good(p) == /\ value[p] \in Nat /\ loop[p].any \in {-1, 0, 1}
                      /\ loop[p].any = 0 <=> p = from
                      /\ loop[p].any < 0 <=> value[p] > bound
                      /\ loop[p].any >= 0 => loop[p].acc = value[p]
           T == {p \in S : Good(p)}
<1>3. m \in [S -> Nat]
  BY <1>0
<1>4. ASSUME NEW p \in S, p # from, Good(p - 1) PROVE Good(p)
  <2> DEFINE before == loop[p - 1]
             d == DigitValue[Char(t, p - 1)]
             v == value[p - 1]
             acc == before.acc
             vb == v * base
  <2>1. p - 1 \in S /\ d \in 0 .. base - 1
    BY <1>4, DigitBefore
  <2>2. loop[p] = IF before.any < 0 \/ TooBig(before.acc, d, base, bound)
                  THEN [before EXCEPT !.any = -1]
                  ELSE [acc |-> (before.acc * base + d) % Base, any |-> 1]
    <3>1. loop[p] = AccumulateAt(t, from, base, bound, p, loop)
      BY <1>1
    <3> QED
      BY <1>4, <3>1 DEF AccumulateAt
  <2>3. value[p] = vb + d
    <3>1. value[p] = ExactAt(t, from, base, p, value)
      BY <1>2
    <3> QED
      BY <1>4, <3>1 DEF ExactAt
  <2>4. v \in Nat /\ before.any \in {-1, 0, 1} /\ (before.any < 0 <=> v > bound)
        /\ (before.any >= 0 => acc = v)
    BY <1>4
  <2>5. loop[p - 1] = AccumulateAt(t, from, base, bound, p - 1, loop)
    BY <1>1, <2>1
  <2>6. [before EXCEPT !.any = -1].any = -1
    <3>1. \E x, y : before = [acc |-> x, any |-> y]
      <4>1. \A q \in S : \E x, y : loop[q] = [acc |-> x, any |-> y]
        <5> DEFINE Record(q) == \E x, y : loop[q] = [acc |-> x, any |-> y]
                   R == {q \in S : Record(q)}
        <5>1. ASSUME NEW q \in S, \A r \in S : m[r] < m[q] => r \in R PROVE q \in R
          <6>1. loop[q] = AccumulateAt(t, from, base, bound, q, loop)
            BY <1>1
          <6>2. CASE q = from
            BY <6>1, <6>2 DEF AccumulateAt
          <6>3. CASE q # from
            <7>1. q - 1 \in S /\ m[q - 1] < m[q]
              BY <1>0, <6>3
            <7>2. Record(q - 1)
              BY <5>1, <7>1
            <7>3. \/ loop[q] = [loop[q - 1] EXCEPT !.any = -1]
                  \/ loop[q] = [acc |-> (loop[q - 1].acc * base + DigitValue[Char(t, q - 1)]) % Base,
                                any |-> 1]
              BY <6>1, <6>3 DEF AccumulateAt
            <7> QED
              BY <7>2, <7>3
          <6> QED
            BY <6>2, <6>3
        <5> HIDE DEF R, m, S
        <5>2. \A q \in S : q \in R
          BY <1>3, <5>1, MeasureInduction DEF Inherits
        <5> QED
          BY <5>2 DEF R
      <4> QED
        BY <2>1, <4>1
    <3> HIDE DEF before
    <3> QED
      BY <3>1
  <2> HIDE DEF before, d, v, S, m
  <2>7. base \in Nat \ {0} /\ d \in Nat /\ vb \in Nat
    <3>1. base \in Nat \ {0} /\ d \in Nat
      BY <1>0, <2>1
    <3> QED
      BY <2>4, <3>1
  <2>8. p # from
    BY <1>4
  <2>9. CASE before.any < 0
    <3>1. loop[p].any = -1
      BY <2>2, <2>6, <2>9
    <3>2. vb >= v
      BY <2>4, <2>7
    <3> HIDE DEF vb
    <3>3. value[p] \in Nat /\ value[p] > bound
      BY <1>0, <2>3, <2>4, <2>7, <2>9, <3>2
    <3> QED
      BY <2>8, <3>1, <3>3
  <2>10. CASE before.any >= 0
    <3>1. acc = v /\ ~(before.any < 0)
      BY <2>4, <2>10
    <3>2. TooBig(before.acc, d, base, bound) <=> vb + d > bound
      BY <1>0, <2>1, <2>4, <2>7, <3>1, TooBigIsTooBig
    <3>3. CASE TooBig(before.acc, d, base, bound)
      <4>1. loop[p].any = -1
        BY <2>2, <2>6, <3>3
      <4> HIDE DEF vb
      <4>2. value[p] \in Nat /\ value[p] > bound
        BY <2>3, <2>7, <3>2, <3>3
      <4> QED
        BY <2>8, <4>1, <4>2
    <3>4. CASE ~TooBig(before.acc, d, base, bound)
      <4>1. loop[p] = [acc |-> (vb + d) % Base, any |-> 1]
        BY <2>2, <3>1, <3>4
      <4> HIDE DEF vb
      <4>2. vb + d \in 0 .. Base - 1 /\ vb + d \in Int
        BY <1>0, <2>7, <3>2, <3>4
      <4>3. (vb + d) % Base = vb + d
        BY <1>0, <4>2, WordWraps
      <4>4. loop[p].any = 1 /\ loop[p].acc = vb + d
        BY <4>1, <4>3
      <4>5. ~(vb + d > bound)
        BY <3>2, <3>4
      <4> QED
        BY <2>3, <2>8, <4>2, <4>4, <4>5
    <3> QED
      BY <3>3, <3>4
  <2>11. before.any < 0 \/ before.any >= 0
    BY <2>4
  <2> QED
    BY <2>9, <2>10, <2>11
<1>5. Good(from)
  <2>1. from \in from .. to
    BY <1>0
  <2>2. loop[from] = AccumulateAt(t, from, base, bound, from, loop)
    BY <1>1, <2>1
  <2>3. value[from] = ExactAt(t, from, base, from, value)
    BY <1>2, <2>1
  <2>4. loop[from] = [acc |-> 0, any |-> 0] /\ value[from] = 0
    BY <2>2, <2>3 DEF AccumulateAt, ExactAt
  <2> QED
    BY <1>0, <2>4
<1> HIDE DEF Good
<1>6. ASSUME NEW p \in S, \A r \in S : m[r] < m[p] => r \in T PROVE p \in T
  <2>1. CASE p = from
    BY <1>5, <2>1
  <2>2. CASE p # from
    <3>1. p - 1 \in S /\ m[p - 1] < m[p]
      BY <1>0, <2>2
    <3> QED
      BY <1>4, <1>6, <2>2, <3>1
  <2> QED
    BY <2>1, <2>2
<1>7. to \in S
  BY <1>0
<1> HIDE DEF S, m, T
<1>8. \A p \in S : p \in T
  BY <1>3, <1>6, MeasureInduction DEF Inherits
<1>9. Good(to)
  BY <1>7, <1>8 DEF T
<1> QED
  BY <1>1, <1>2, <1>9 DEF Good

\* The digits, each by its value.
LEMMA DigitValues ==
  /\ "nul" \notin DOMAIN DigitValue
  /\ \A c \in DOMAIN DigitValue : DigitValue[c] \in 0 .. 35
<1>1. DOMAIN Digits = 1 .. 36
  BY DEF Digits
<1>2. \A k \in DOMAIN Digits : Digits[k] # "nul"
  BY DEF Digits
<1>3. ASSUME NEW c \in {Digits[k] : k \in DOMAIN Digits}
      PROVE  (CHOOSE d \in 0 .. 35 : Digits[d + 1] = c) \in 0 .. 35
  <2>1. PICK k \in DOMAIN Digits : c = Digits[k]
    OBVIOUS
  <2>2. k - 1 \in 0 .. 35 /\ Digits[(k - 1) + 1] = c
    BY <1>1, <2>1
  <2> QED
    BY <2>2
<1> QED
  BY <1>2, <1>3 DEF DigitValue

\* Where a run of digits ends, and what stands before it.
LEMMA DigitsEndProperties ==
  ASSUME NEW C, NEW t \in Seq(C), NEW pos \in 0 .. Len(t), NEW base \in 2 .. 36
  PROVE  Numeral(t, pos, DigitsEnd(t, pos, base), base)
<1> DEFINE B == {p \in pos .. Len(t) : ~IsDigit(Char(t, p), base)}
<1>0. Len(t) \in Nat
  BY LenProperties
<1>1. Len(t) \in B
  BY <1>0, DigitValues DEF IsDigit, Char, NUL
<1>2. B \in SUBSET Nat /\ B # {}
  BY <1>0, <1>1
<1>3. PICK least \in B : \A x \in B : least <= x
  <2> HIDE DEF B
  <2> QED
    BY <1>2, Minimum
<1>4. DigitsEnd(t, pos, base) \in B /\ \A x \in B : DigitsEnd(t, pos, base) <= x
  <2>1. Min(B) \in B /\ \A x \in B : Min(B) <= x
    <3> HIDE DEF B
    <3> QED
      BY <1>3 DEF Min
  <2> QED
    BY <2>1 DEF DigitsEnd
<1> DEFINE end == DigitsEnd(t, pos, base)
<1>5. ASSUME NEW p \in pos .. end - 1 PROVE DigitValue[Char(t, p)] \in 0 .. base - 1
  <2>1. p \in pos .. Len(t) /\ ~(end <= p)
    <3>1. end \in pos .. Len(t)
      BY <1>4
    <3> HIDE DEF end, B
    <3> QED
      BY <1>0, <3>1
  <2>2. p \notin B
    BY <1>4, <2>1
  <2>3. IsDigit(Char(t, p), base)
    BY <2>1, <2>2
  <2>4. Char(t, p) \in DOMAIN DigitValue /\ DigitValue[Char(t, p)] < base
    BY <2>3 DEF IsDigit
  <2>5. PICK d \in 0 .. 35 : d = DigitValue[Char(t, p)]
    BY <2>4, DigitValues
  <2>6. d < base
    BY <2>4, <2>5, Zenon
  <2>7. d \in 0 .. base - 1
    BY <2>6
  <2> QED
    BY <2>5, <2>7, Zenon
<1>6. end \in Nat /\ pos \in Nat /\ pos <= end
  <2>1. end \in pos .. Len(t)
    BY <1>4
  <2> HIDE DEF end, B
  <2> QED
    BY <1>0, <2>1
<1> QED
  BY <1>5, <1>6 DEF Numeral

\* The number starts inside the text, in a base that has digits.
LEMMA PrefixProperties ==
  ASSUME NEW C, NEW t \in Seq(C), NEW base \in {0} \cup 2 .. 36
  PROVE  /\ Prefix(t, base, [x |-> 16]).pos \in 0 .. Len(t)
         /\ Prefix(t, base, [x |-> 16]).base \in 2 .. 36
<1> DEFINE blank == " "
           B == {p \in 0 .. Len(t) : Char(t, p) # blank}
<1>0. Len(t) \in Nat
  BY LenProperties
<1>1. AfterBlanks(t) = Min(B)
  BY Zenon DEF AfterBlanks
<1>2. blank # NUL
  BY Zenon DEF NUL
<1> HIDE DEF blank
<1>3. AfterBlanks(t) \in B
  <2>1. Len(t) \in B
    BY <1>0, <1>2 DEF Char
  <2>2. B \in SUBSET Nat /\ B # {}
    BY <1>0, <2>1
  <2> HIDE DEF B
  <2>3. \E least \in B : \A x \in B : least <= x
    BY <2>2, Minimum
  <2>4. Min(B) \in B
    BY <2>3 DEF Min
  <2> QED
    BY <1>1, <2>4
<1>4. \A p : Char(t, p) # NUL => p < Len(t)
  BY DEF Char
<1>5. AfterBlanks(t) \in 0 .. Len(t)
  BY <1>3
<1> HIDE DEF B
<1>6. AfterSign(t) \in 0 .. Len(t)
  <2>1. SignOf(t) \in {"-", "+"} => AfterBlanks(t) < Len(t)
    BY <1>4 DEF SignOf, NUL
  <2> QED
    BY <1>0, <1>5, <2>1 DEF AfterSign
<1> DEFINE p == AfterSign(t)
           letters == [x |-> 16]
<1>7. /\ Char(t, p) = "0" => p < Len(t)
      /\ Char(t, p + 1) \in DOMAIN letters => p + 1 < Len(t) /\ letters[Char(t, p + 1)] = 16
  BY <1>4 DEF NUL
<1>8. CASE base # 0
  <2>1. Prefix(t, base, letters) = [base |-> base, pos |-> p]
    BY <1>8 DEF Prefix
  <2>2. base \in 2 .. 36
    BY <1>8
  <2> HIDE DEF p, letters
  <2>3. p \in 0 .. Len(t)
    BY <1>6 DEF p
  <2>4. Prefix(t, base, letters).pos = p /\ Prefix(t, base, letters).base = base
    BY <2>1
  <2>5. Prefix(t, base, letters).pos \in 0 .. Len(t) /\ Prefix(t, base, letters).base \in 2 .. 36
    BY <2>2, <2>3, <2>4, Zenon
  <2> QED
    BY <2>5, Zenon DEF letters
<1>9. CASE base = 0 /\ Char(t, p) # "0"
  <2>1. Prefix(t, base, letters) = [base |-> 10, pos |-> p]
    BY <1>9 DEF Prefix
  <2> QED
    BY <1>6, <2>1
<1>10. CASE base = 0 /\ Char(t, p) = "0"
  <2>1. Prefix(t, base, letters) =
          IF Char(t, p + 1) \in DOMAIN letters
          THEN [base |-> letters[Char(t, p + 1)], pos |-> p + 2]
          ELSE [base |-> 8, pos |-> p + 1]
    BY <1>10 DEF Prefix
  <2> HIDE DEF p, letters
  <2>2. p \in Nat /\ p <= Len(t)
    BY <1>0, <1>6 DEF p
  <2>3. CASE Char(t, p + 1) \in DOMAIN letters
    <3>1. Prefix(t, base, letters) = [base |-> 16, pos |-> p + 2]
      BY <1>7, <2>1, <2>3
    <3>2. p + 2 \in 0 .. Len(t)
      BY <1>0, <1>7, <2>2, <2>3
    <3> QED
      BY <3>1, <3>2 DEF letters
  <2>4. CASE Char(t, p + 1) \notin DOMAIN letters
    <3>1. Prefix(t, base, letters) = [base |-> 8, pos |-> p + 1]
      BY <2>1, <2>4
    <3>2. p + 1 \in 0 .. Len(t)
      BY <1>0, <1>7, <1>10, <2>2
    <3> QED
      BY <3>1, <3>2 DEF letters
  <2> QED
    BY <2>3, <2>4
<1> QED
  BY <1>8, <1>9, <1>10

\* The bits of a long are the long, and of one it cannot hold the wrapped one.
LEMMA LongOfBits ==
  ASSUME NEW v \in -SignBit .. SignBit - 1
  PROVE  AsLong(v % Base) = v
<1>1. PICK B \in Nat \ {0}, S \in Nat \ {0} : B = Base /\ S = SignBit /\ B = 2 * S
  BY Widths
<1>2. v \in Int /\ v \in -S .. S - 1
  BY <1>1
<1>3. CASE v >= 0
  <2>1. v % B = v
    BY <1>1, <1>2, <1>3, WordWraps
  <2> QED
    BY <1>1, <1>2, <1>3, <2>1 DEF AsLong
<1>4. CASE v < 0
  <2>1. v % B = v + B
    <3>1. v \in -B .. -1
      BY <1>1, <1>2, <1>4
    <3> QED
      BY <1>2, <3>1, WordWraps
  <2> QED
    BY <1>1, <1>2, <1>4, <2>1 DEF AsLong
<1> QED
  BY <1>2, <1>3, <1>4

LEMMA StrtolIsClamped ==
  ASSUME NEW C, NEW t \in Seq(C), NEW base \in {0} \cup 2 .. 36
  PROVE  LET got == Strtol(t, base)
             exact == SignedValue(t, base, [x |-> 16])
             p == Prefix(t, base, [x |-> 16])
             end == DigitsEnd(t, p.pos, p.base)
         IN  /\ end > p.pos => /\ got.value = Clamped(exact, LongMin, LongMax)
                               /\ got.end = end
                               /\ got.errno = "ERANGE" <=> exact \notin LongMin .. LongMax
             /\ end = p.pos => got.value = 0 /\ got.end = 0
<1> DEFINE got == Strtol(t, base)
           exact == SignedValue(t, base, [x |-> 16])
           p == Prefix(t, base, [x |-> 16])
           end == DigitsEnd(t, p.pos, p.base)
           neg == SignOf(t) = "-"
           bound == IF neg THEN -LongMin ELSE LongMax
           num == Accumulate(t, p.pos, end, p.base, bound)
           v == ExactValue(t, p.pos, end, p.base)
<1>1. PICK B \in Nat \ {0}, S \in Nat \ {0} : B = Base /\ S = SignBit /\ B = 2 * S
  BY Widths
<1>2. LongMin = -S /\ LongMax = S - 1
  BY <1>1 DEF LongMin, LongMax
<1>3. p.pos \in 0 .. Len(t) /\ p.base \in 2 .. 36
  BY PrefixProperties
<1>4. Numeral(t, p.pos, end, p.base)
  <2> HIDE DEF p
  <2> QED
    BY <1>3, DigitsEndProperties
<1>5. bound \in 0 .. Base - 1
  BY <1>1, <1>2
<1>6. got = CASE num.any < 0 -> [value |-> IF neg THEN LongMin ELSE LongMax, end |-> end, errno |-> "ERANGE"]
              [] num.any = 0 -> [value |-> 0, end |-> 0, errno |-> "ok"]
              [] num.any > 0 -> [value |-> AsLong((IF neg THEN -num.acc ELSE num.acc) % Base),
                                 end |-> end, errno |-> "ok"]
  <2> DEFINE R == CASE p.base \notin 2 .. 36 -> [value |-> 0, end |-> 0, errno |-> "EINVAL"]
                    [] p.base \in 2 .. 36 /\ num.any < 0 ->
                          [value |-> IF neg THEN LongMin ELSE LongMax, end |-> end, errno |-> "ERANGE"]
                    [] p.base \in 2 .. 36 /\ num.any = 0 -> [value |-> 0, end |-> 0, errno |-> "ok"]
                    [] p.base \in 2 .. 36 /\ num.any > 0 ->
                          [value |-> AsLong((IF neg THEN -num.acc ELSE num.acc) % Base),
                           end |-> end, errno |-> "ok"]
  <2>1. got = R
    BY DEF Strtol
  <2>2. num.any \in {-1, 0, 1}
    <3> HIDE DEF bound, end, p
    <3> QED
      BY <1>4, <1>5, AccumulateClamps
  <2> HIDE DEF got, num, end, p, neg
  <2> QED
    BY <1>3, <2>1, <2>2
<1>7. exact = IF neg THEN -v ELSE v
  BY DEF SignedValue
<1> HIDE DEF got, exact, neg, p, end, bound
<1>8. /\ v \in Nat /\ num.any \in {-1, 0, 1}
      /\ num.any = 0 <=> p.pos = end
      /\ num.any < 0 <=> v > bound
      /\ num.any >= 0 => num.acc = v
  BY <1>4, <1>5, AccumulateClamps
<1>9. p.pos \in Nat /\ end \in Nat
  BY <1>4 DEF Numeral
<1> HIDE DEF v, num
<1>10. CASE num.any < 0
  <2>1. got.value = (IF neg THEN LongMin ELSE LongMax) /\ got.end = end /\ got.errno = "ERANGE"
    BY <1>6, <1>8, <1>10
  <2>2. v > bound /\ end # p.pos
    BY <1>8, <1>10
  <2>3. Clamped(exact, LongMin, LongMax) = (IF neg THEN LongMin ELSE LongMax)
          /\ exact \notin LongMin .. LongMax
    BY <1>1, <1>2, <1>7, <1>8, <2>2 DEF Clamped, bound
  <2> QED
    BY <2>1, <2>2, <2>3 DEF got, exact, end, p
<1>11. CASE num.any = 0
  <2>1. got.value = 0 /\ got.end = 0 /\ end = p.pos
    BY <1>6, <1>8, <1>11
  <2> QED
    BY <1>9, <2>1 DEF got, end, p
<1>12. CASE num.any > 0
  <2>1. /\ got.value = AsLong((IF neg THEN -v ELSE v) % Base)
        /\ got.end = end /\ got.errno = "ok"
    BY <1>6, <1>8, <1>12
  <2>2. ~(v > bound) /\ end # p.pos
    BY <1>8, <1>12
  <2>3. exact \in -S .. S - 1
    BY <1>1, <1>2, <1>7, <1>8, <2>2 DEF bound
  <2>4. Clamped(exact, LongMin, LongMax) = exact /\ exact \in LongMin .. LongMax
    BY <1>1, <1>2, <2>3 DEF Clamped
  <2>5. got.value = exact
    BY <1>1, <1>7, <2>1, <2>3, LongOfBits
  <2> QED
    BY <2>1, <2>2, <2>4, <2>5 DEF got, exact, end, p
<1> QED
  BY <1>8, <1>10, <1>11, <1>12
-----------------------------------------------------------------------------
(* From exec's arguments to main's: what exec writes for an argument is    *)
(* read back as that argument.                                             *)

Quote == "\""
Blank == " "
Marked == {Quote, "*"}
Escape(c) == IF c \in Marked THEN <<"*", c>> ELSE <<c>>
Escapeds(arg) == [k \in DOMAIN arg |-> Escape(arg[k])]

LEMMA Literals ==
  /\ Quote # "*" /\ Quote # "nul" /\ Quote \notin Space /\ Blank \in Space
  /\ "nul" \notin Space /\ "c" \notin Space /\ "c" # "\\" /\ "c" \notin {Quote, "'"}
  /\ \A c \in Marked : c # "nul" /\ EscapedDouble(c) = <<c>>
<1>1. /\ Quote # "*" /\ Quote # "nul" /\ Quote # "n" /\ Quote # "e"
      /\ Quote # "\t" /\ Quote # "\n" /\ Quote # Blank /\ "c" # Quote
  BY Zenon DEF Quote, Blank
<1>2. "nul" # Blank /\ "c" # Blank /\ "nul" # "\t" /\ "nul" # "\n" /\ "c" # "\t" /\ "c" # "\n"
  BY Zenon DEF Blank
<1>3. "*" # "n" /\ "*" # "e" /\ "*" # "nul" /\ "c" # "'" /\ "c" # "\\"
  OBVIOUS
<1>4. Space = {Blank, "\t", "\n"}
  BY Zenon DEF Space, Blank
<1>5. \A c : c # "n" /\ c # "e" => EscapedDouble(c) = <<c>>
  BY DEF EscapedDouble
<1> QED
  BY <1>1, <1>2, <1>3, <1>4, <1>5, Zenon DEF Marked

LEMMA QuoteArgIs ==
  ASSUME NEW arg
  PROVE  QuoteArg(arg) = <<Blank, Quote>> \o FlattenSeq(Escapeds(arg)) \o <<Quote>>
  BY Zenon DEF QuoteArg, Escapeds, Escape, Marked, Quote, Blank

LEMMA NextWordQuoted ==
  ASSUME NEW line, NEW p, CharAt(line, p) = Quote
  PROVE  LET end == WordEnd(line, p + 1, {Quote}, "*")
         IN  NextWord(line, p) = [start |-> p + 1, end |-> end, type |-> "double",
                                  next |-> IF CharAt(line, end) = Quote THEN end + 1 ELSE end]
  BY Zenon DEF NextWord, Quote

LEMMA NextWordPlain ==
  ASSUME NEW line, NEW p, CharAt(line, p) = "c"
  PROVE  LET end == WordEnd(line, p, Space, "\\")
         IN  NextWord(line, p) = [start |-> p, end |-> end, type |-> "none", next |-> end]
<1>1. "c" # "\"" /\ "c" # "'"
  BY Zenon
<1> QED
  BY <1>1, Zenon DEF NextWord
-----------------------------------------------------------------------------
\* A line holds a quoted argument from place p on; e[k] is the place before
\* which its first k characters stand.
Quoted(line, p, arg, e) ==
  /\ e \in [0 .. Len(arg) -> Nat] /\ e[0] = p + 2
  /\ CharAt(line, p) = Blank /\ CharAt(line, p + 1) = Quote
  /\ \A k \in 1 .. Len(arg) :
       IF arg[k] \in Marked
       THEN CharAt(line, e[k - 1]) = "*" /\ CharAt(line, e[k - 1] + 1) = arg[k] /\ e[k] = e[k - 1] + 2
       ELSE CharAt(line, e[k - 1]) = arg[k] /\ e[k] = e[k - 1] + 1
  /\ \A k \in 0 .. Len(arg) : e[k] \in p + 2 .. e[Len(arg)]
  /\ CharAt(line, e[Len(arg)]) = Quote
  /\ e[Len(arg)] < Len(line)

Holds(line, p, t) ==
  /\ p \in Nat /\ p + Len(t) <= Len(line)
  /\ \A k \in 1 .. Len(t) : line[p + k] = t[k]

AllChars(C) == C \cup {"*", Quote, Blank}

LEMMA EscapePlaces ==
  ASSUME NEW C, NEW arg \in Seq(C)
  PROVE  /\ FlattenSeq(Escapeds(arg)) \in Seq(AllChars(C))
         /\ \E off : /\ Strung(off, Escapeds(arg), FlattenSeq(Escapeds(arg)))
                     /\ Len(Escapeds(arg)) = Len(arg)
                     /\ \A k \in 1 .. Len(arg) : Escapeds(arg)[k] = Escape(arg[k])
<1> DEFINE n == Len(arg)
<1>1. n \in Nat /\ DOMAIN arg = 1 .. n /\ \A k \in 1 .. n : arg[k] \in C
  BY LenProperties, ElementOfSeq
<1>2. \A c \in C : Escape(c) \in Seq(AllChars(C))
  <2>1. \A c \in C : <<"*", c>> \in Seq(AllChars(C)) /\ <<c>> \in Seq(AllChars(C))
    <3>1. "*" \in AllChars(C) /\ \A c \in C : c \in AllChars(C)
      BY DEF AllChars
    <3> QED
      BY <3>1
  <2> QED
    BY <2>1 DEF Escape
<1>3. Escapeds(arg) \in Seq(Seq(AllChars(C)))
  BY <1>1, <1>2 DEF Escapeds
<1>4. /\ Len(Escapeds(arg)) = n
      /\ \A k \in 1 .. n : Escapeds(arg)[k] = Escape(arg[k])
  BY <1>1 DEF Escapeds
<1> QED
  BY <1>3, <1>4, FlattenPlaces

LEMMA QuotedHolds ==
  ASSUME NEW C, NEW arg \in Seq(C), NEW D, NEW line \in Seq(D), NEW p,
         Holds(line, p, QuoteArg(arg))
  PROVE  \E e : Quoted(line, p, arg, e) /\ e[Len(arg)] + 1 = p + Len(QuoteArg(arg))
<1> DEFINE n == Len(arg)
           s == FlattenSeq(Escapeds(arg))
           q == QuoteArg(arg)
           A == AllChars(C)
<1>0. n \in Nat /\ Len(line) \in Nat
  BY LenProperties
<1>1. PICK off : /\ Strung(off, Escapeds(arg), s)
                 /\ Len(Escapeds(arg)) = n
                 /\ \A k \in 1 .. n : Escapeds(arg)[k] = Escape(arg[k])
  BY EscapePlaces
<1>2. s \in Seq(A) /\ Len(s) \in Nat
  BY EscapePlaces, LenProperties
<1>3. /\ off \in [0 .. n -> Nat] /\ off[0] = 0 /\ Len(s) = off[n]
      /\ \A k \in 1 .. n : /\ off[k] = off[k - 1] + Len(Escape(arg[k]))
                           /\ \A l \in 1 .. Len(Escape(arg[k])) : s[off[k - 1] + l] = Escape(arg[k])[l]
  BY <1>1, SMTT(30) DEF Strung
<1>4. \A c : IF c \in Marked THEN Len(Escape(c)) = 2 /\ Escape(c)[1] = "*" /\ Escape(c)[2] = c
             ELSE Len(Escape(c)) = 1 /\ Escape(c)[1] = c
  BY DEF Escape
<1>5. /\ Len(q) = Len(s) + 3 /\ q[1] = Blank /\ q[2] = Quote /\ q[Len(s) + 3] = Quote
      /\ \A l \in 1 .. Len(s) : q[2 + l] = s[l]
  <2> DEFINE x == <<Blank, Quote>>
             y == <<Quote>>
  <2>1. q = x \o s \o y
    BY QuoteArgIs
  <2>2. x \in Seq(A) /\ Len(x) = 2 /\ x[1] = Blank /\ x[2] = Quote /\ y \in Seq(A) /\ Len(y) = 1 /\ y[1] = Quote
    <3>1. Blank \in A /\ Quote \in A
      BY DEF AllChars
    <3> QED
      BY <3>1
  <2> HIDE DEF x, y, s, q, A
  <2>8. ASSUME NEW t \in Seq(A), NEW u \in Seq(A)
        PROVE  /\ t \o u \in Seq(A) /\ Len(t \o u) = Len(t) + Len(u)
               /\ \A l \in 1 .. Len(t) + Len(u) : (t \o u)[l] = IF l <= Len(t) THEN t[l] ELSE u[l - Len(t)]
    BY ConcatProperties
  <2> DEFINE z == x \o s
  <2>9. /\ z \in Seq(A) /\ Len(z) = Len(x) + Len(s)
        /\ \A l \in 1 .. Len(x) + Len(s) : z[l] = IF l <= Len(x) THEN x[l] ELSE s[l - Len(x)]
    BY <1>2, <2>2, <2>8
  <2> HIDE DEF z
  <2>10. /\ Len(z \o y) = Len(z) + Len(y)
         /\ \A l \in 1 .. Len(z) + Len(y) : (z \o y)[l] = IF l <= Len(z) THEN z[l] ELSE y[l - Len(z)]
    BY <2>2, <2>8, <2>9
  <2>3. \A l \in 1 .. 2 + Len(s) : (x \o s)[l] = IF l <= 2 THEN x[l] ELSE s[l - 2]
    BY <2>2, <2>9 DEF z
  <2>11. Len(z) = 2 + Len(s)
    BY <2>2, <2>9
  <2>12. Len(z \o y) = 2 + Len(s) + 1
    BY <2>2, <2>10, <2>11
  <2>13. \A l \in 1 .. 2 + Len(s) + 1 :
           (z \o y)[l] = IF l <= 2 + Len(s) THEN z[l] ELSE y[l - (2 + Len(s))]
    BY <2>2, <2>10, <2>11
  <2>4. /\ Len((x \o s) \o y) = 2 + Len(s) + 1
        /\ \A l \in 1 .. 2 + Len(s) + 1 :
             ((x \o s) \o y)[l] = IF l <= 2 + Len(s) THEN (x \o s)[l] ELSE y[l - (2 + Len(s))]
    BY <2>12, <2>13 DEF z
  <2>5. ASSUME NEW l \in 1 .. Len(s) PROVE q[2 + l] = s[l]
    <3>1. 2 + l \in 1 .. 2 + Len(s) + 1 /\ 2 + l \in 1 .. 2 + Len(s) /\ ~(2 + l <= 2) /\ (2 + l) - 2 = l /\ 2 + l <= 2 + Len(s)
      BY <1>2
    <3> QED
      BY <2>1, <2>3, <2>4, <3>1
  <2>6. q[1] = Blank /\ q[2] = Quote
    <3>1. \A l \in {1, 2} : l \in 1 .. 2 + Len(s) + 1 /\ l \in 1 .. 2 + Len(s) /\ l <= 2 /\ l <= 2 + Len(s)
      BY <1>2
    <3> QED
      BY <2>1, <2>2, <2>3, <2>4, <3>1
  <2>7. q[Len(s) + 3] = Quote
    <3>1. /\ Len(s) + 3 \in 1 .. 2 + Len(s) + 1 /\ ~(Len(s) + 3 <= 2 + Len(s))
          /\ (Len(s) + 3) - (2 + Len(s)) = 1
      BY <1>2
    <3> QED
      BY <2>1, <2>2, <2>4, <3>1
  <2> QED
    BY <1>2, <2>1, <2>4, <2>5, <2>6, <2>7, SMTT(30)
<1>6. /\ p \in Nat /\ p + (off[n] + 3) <= Len(line)
      /\ \A l \in 1 .. off[n] + 3 : line[p + l] = q[l]
  BY <1>3, <1>5 DEF Holds
<1>18. p \in Nat
  BY <1>6
<1> HIDE DEF s, q, A
<1>7. \A l \in 0 .. off[n] + 2 : CharAt(line, p + l) = q[l + 1]
  <2>1. off[n] \in Nat
    BY <1>2, <1>3
  <2>2. ASSUME NEW l \in 0 .. off[n] + 2 PROVE CharAt(line, p + l) = q[l + 1]
    <3>1. l + 1 \in 1 .. off[n] + 3 /\ p + l < Len(line) /\ p + (l + 1) = (p + l) + 1
      BY <1>0, <1>6, <2>1
    <3> QED
      BY <1>6, <3>1 DEF CharAt
  <2> QED
    BY <2>2
<1>8. \A k, l \in 0 .. n : k <= l => off[k] <= off[l]
  <2>1. \A k \in 1 .. n : off[k - 1] <= off[k]
    <3>1. \A k \in 1 .. n : k \in 0 .. n /\ k - 1 \in 0 .. n
      BY <1>0
    <3>2. \A k \in 1 .. n : off[k] \in Nat /\ off[k - 1] \in Nat
      BY <1>3, <3>1
    <3>3. \A c : Len(Escape(c)) \in {1, 2}
      BY <1>4
    <3> QED
      BY <1>3, <3>2, <3>3
  <2> QED
    BY <1>0, <1>3, <2>1, Ascends
<1> DEFINE e == [k \in 0 .. n |-> p + 2 + off[k]]
<1>9. \A k \in 0 .. n : e[k] = p + 2 + off[k] /\ off[k] \in Nat /\ off[k] <= off[n] /\ 0 <= off[k]
  <2>1. n \in 0 .. n /\ 0 \in 0 .. n
    BY <1>0
  <2>2. \A k \in 0 .. n : k <= n
    BY <1>0
  <2>3. \A k \in 0 .. n : off[k] \in Nat
    BY <1>3
  <2> QED
    BY <1>8, <2>1, <2>2, <2>3
<1>10. e \in [0 .. n -> Nat] /\ e[0] = p + 2
  BY <1>0, <1>3, <1>6, <1>9
<1> HIDE DEF e
<1>11. CharAt(line, p) = Blank /\ CharAt(line, p + 1) = Quote
  <2>1. 0 \in 0 .. off[n] + 2 /\ 1 \in 0 .. off[n] + 2 /\ p + 0 = p
    BY <1>2, <1>3, <1>6
  <2>2. CharAt(line, p + 0) = q[0 + 1] /\ CharAt(line, p + 1) = q[1 + 1]
    BY <1>7, <2>1
  <2> QED
    BY <1>5, <2>1, <2>2
<1>12. ASSUME NEW k \in 1 .. n
       PROVE  IF arg[k] \in Marked
              THEN CharAt(line, e[k - 1]) = "*" /\ CharAt(line, e[k - 1] + 1) = arg[k] /\ e[k] = e[k - 1] + 2
              ELSE CharAt(line, e[k - 1]) = arg[k] /\ e[k] = e[k - 1] + 1
  <2>1. k \in 0 .. n /\ k - 1 \in 0 .. n
    BY <1>0
  <2>2. /\ e[k] = p + 2 + off[k] /\ off[k] \in Nat /\ off[k] <= off[n] /\ off[n] \in Nat
        /\ e[k - 1] = p + 2 + off[k - 1] /\ off[k - 1] \in Nat
    BY <1>2, <1>3, <1>9, <2>1
  <2>3. off[k] = off[k - 1] + Len(Escape(arg[k]))
    BY <1>3
  <2> DEFINE m == Len(Escape(arg[k]))
  <2>4. m \in {1, 2}
    BY <1>4
  <2>5. ASSUME NEW l \in 1 .. m PROVE CharAt(line, e[k - 1] + (l - 1)) = Escape(arg[k])[l]
    <3> DEFINE r == off[k - 1] + l
    <3> HIDE DEF m
    <3>1. r \in 1 .. off[n] /\ r + 1 \in 0 .. off[n] + 2 /\ p + (r + 1) = e[k - 1] + (l - 1)
      <4>1. l \in Nat \ {0} /\ l <= m /\ off[k] = off[k - 1] + m
        BY <2>3, <2>4 DEF m
      <4>2. PICK x \in Nat, y \in Nat, z \in Nat : x = off[k - 1] /\ y = off[k] /\ z = off[n] /\ y <= z
        BY <2>2
      <4>3. m \in Nat
        BY <2>4
      <4>4. r = x + l /\ y = x + m /\ e[k - 1] = p + 2 + x /\ off[n] = z
        BY <2>2, <4>1, <4>2
      <4> HIDE DEF r
      <4>7. r = x + l
        BY <4>4
      <4>8. l \in Nat /\ l >= 1 /\ l <= m
        BY <4>1
      <4>9. x + m <= z
        BY <4>2, <4>4
      <4>5. r \in Nat /\ r >= 1 /\ r <= z
        BY <4>3, <4>7, <4>8, <4>9
      <4>6. p + (r + 1) = e[k - 1] + (l - 1)
        <5>1. e[k - 1] = p + 2 + x
          BY <4>4
        <5>2. p + (r + 1) = (p + 2 + x) + (l - 1)
          BY <1>18, <4>7, <4>8
        <5> QED
          BY <5>1, <5>2
      <4>10. off[n] = z
        BY <4>4
      <4>11. r \in 1 .. z /\ r + 1 \in 0 .. z + 2
        BY <4>5
      <4> QED
        BY <4>6, <4>10, <4>11
    <3>2. CharAt(line, p + (r + 1)) = q[(r + 1) + 1]
      BY <1>7, <3>1
    <3>3. q[2 + r] = s[r] /\ 2 + r = (r + 1) + 1
      <4>1. r \in 1 .. Len(s)
        BY <1>3, <3>1
      <4>2. q[2 + r] = s[r]
        BY <1>5, <4>1
      <4> HIDE DEF r
      <4> QED
        BY <2>2, <3>1, <4>2
    <3>4. s[r] = Escape(arg[k])[l]
      BY <1>3 DEF m
    <3> QED
      BY <3>1, <3>2, <3>3, <3>4
  <2>6. e[k - 1] \in Nat /\ e[k - 1] + (1 - 1) = e[k - 1] /\ e[k - 1] + (2 - 1) = e[k - 1] + 1
    BY <1>6, <2>2
  <2>7. CASE arg[k] \in Marked
    <3>1. m = 2 /\ Escape(arg[k])[1] = "*" /\ Escape(arg[k])[2] = arg[k]
      BY <1>4, <2>7
    <3>2. CharAt(line, e[k - 1] + (1 - 1)) = Escape(arg[k])[1] /\ CharAt(line, e[k - 1] + (2 - 1)) = Escape(arg[k])[2]
      <4>1. 1 \in 1 .. m /\ 2 \in 1 .. m
        BY <3>1
      <4> HIDE DEF m
      <4> QED
        BY <2>5, <4>1
    <3>3. e[k] = e[k - 1] + 2
      BY <1>6, <2>2, <2>3, <3>1
    <3> QED
      BY <2>6, <2>7, <3>1, <3>2, <3>3
  <2>8. CASE arg[k] \notin Marked
    <3>1. m = 1 /\ Escape(arg[k])[1] = arg[k]
      BY <1>4, <2>8
    <3>2. CharAt(line, e[k - 1] + (1 - 1)) = Escape(arg[k])[1]
      <4>1. 1 \in 1 .. m
        BY <3>1
      <4> HIDE DEF m
      <4> QED
        BY <2>5, <4>1
    <3>3. e[k] = e[k - 1] + 1
      BY <1>6, <2>2, <2>3, <3>1
    <3> QED
      BY <2>6, <2>8, <3>1, <3>2, <3>3
  <2> QED
    BY <2>7, <2>8
<1>13. n \in 0 .. n /\ off[n] \in Nat
  BY <1>0, <1>9
<1>14. \A k \in 0 .. n : e[k] \in p + 2 .. e[n]
  BY <1>6, <1>9, <1>13
<1>15. CharAt(line, e[n]) = Quote /\ e[n] < Len(line)
  <2>1. off[n] + 2 \in 0 .. off[n] + 2 /\ e[n] = p + (off[n] + 2) /\ (off[n] + 2) + 1 = off[n] + 3
    <3>1. e[n] = p + 2 + off[n]
      BY <1>9, <1>13
    <3>2. \A x, y \in Nat : /\ p + 2 + x = p + (x + 2) /\ x + 2 \in 0 .. x + 2
                            /\ (x + 2) + 1 = x + 3 /\ (p + 2 + x) + 1 = p + (x + 3)
      BY <1>18
    <3> QED
      BY <1>13, <3>1, <3>2
  <2>2. CharAt(line, p + (off[n] + 2)) = q[(off[n] + 2) + 1]
    BY <1>7, <2>1
  <2> QED
    BY <1>0, <1>3, <1>5, <1>6, <1>13, <2>1, <2>2, SMTT(30)
<1>16. Quoted(line, p, arg, e)
  BY <1>10, <1>11, <1>12, <1>14, <1>15 DEF Quoted
<1>17. e[n] + 1 = p + Len(q)
  <2>1. e[n] = p + 2 + off[n] /\ Len(q) = off[n] + 3
    BY <1>3, <1>5, <1>9, <1>13
  <2>2. \A x \in Nat : (p + 2 + x) + 1 = p + (x + 3)
    BY <1>18
  <2> QED
    BY <1>13, <2>1, <2>2
<1> QED
  BY <1>16, <1>17 DEF q

\* The scan for the closing quote steps over every escaped character.
LEMMA ScanQuoted ==
  ASSUME NEW C, NEW arg \in Seq(C), NEW D, NEW line \in Seq(D), NEW p \in Nat, NEW e,
         Quoted(line, p, arg, e)
  PROVE  WordEnd(line, p + 2, {Quote}, "*") = e[Len(arg)]
<1> DEFINE n == Len(arg)
           P == p + 2
<1>0. n \in Nat /\ Len(line) \in Nat
  BY LenProperties
<1>1. /\ e \in [0 .. n -> Nat] /\ e[0] = P /\ e[n] < Len(line)
      /\ \A k \in 0 .. n : e[k] \in P .. e[n]
  BY DEF Quoted
<1>2. P \in 0 .. Len(line) /\ n \in 0 .. n
  BY <1>0, <1>1
<1>3. PICK scan : Scans(scan, line, P, {Quote}, "*") /\ WordEnd(line, P, {Quote}, "*") = scan[P]
  BY <1>2, ScanExists
<1> HIDE DEF P
<1>4. ASSUME NEW q \in P .. Len(line), q < Len(line)
      PROVE  scan[q] = IF CharAt(line, q) = Quote THEN q
                       ELSE IF CharAt(line, q) = "*" /\ CharAt(line, q + 1) # "nul"
                            THEN scan[q + 2] ELSE scan[q + 1]
  <2>1. q \in P .. Len(line) + 1 /\ ~(q >= Len(line))
    BY <1>0, <1>2, <1>4
  <2>2. scan[q] = CASE q >= Len(line) \/ CharAt(line, q) \in {Quote} -> q
                    [] OTHER ->
                          IF CharAt(line, q) = "*" /\ CharAt(line, q + 1) # "nul"
                          THEN scan[q + 2] ELSE scan[q + 1]
    BY <1>3, <2>1 DEF Scans
  <2> QED
    BY <2>1, <2>2
<1>5. \A k \in 0 .. n : e[k] \in P .. Len(line) /\ e[k] < Len(line)
  BY <1>0, <1>1, <1>2
<1> DEFINE T == {d \in Nat : d <= n => scan[e[n - d]] = e[n]}
<1>6. 0 \in T
  <2>1. CharAt(line, e[n]) = Quote
    BY DEF Quoted
  <2>2. scan[e[n]] = e[n]
    BY <1>2, <1>4, <1>5, <2>1
  <2> QED
    BY <1>0, <2>2
<1>7. ASSUME NEW d \in Nat, d \in T PROVE d + 1 \in T
  <2> SUFFICES ASSUME d + 1 <= n PROVE scan[e[n - (d + 1)]] = e[n]
    OBVIOUS
  <2> DEFINE k == n - d
  <2>1. k \in 1 .. n /\ k - 1 = n - (d + 1) /\ k \in 0 .. n /\ k - 1 \in 0 .. n
    BY <1>0
  <2>2. scan[e[k]] = e[n]
    BY <1>0, <1>7
  <2> HIDE DEF k
  <2>3. e[k - 1] \in P .. Len(line) /\ e[k - 1] < Len(line)
    BY <1>5, <2>1
  <2>4. IF arg[k] \in Marked
        THEN CharAt(line, e[k - 1]) = "*" /\ CharAt(line, e[k - 1] + 1) = arg[k] /\ e[k] = e[k - 1] + 2
        ELSE CharAt(line, e[k - 1]) = arg[k] /\ e[k] = e[k - 1] + 1
    BY <2>1 DEF Quoted
  <2>5. CASE arg[k] \in Marked
    <3>1. CharAt(line, e[k - 1] + 1) # "nul" /\ CharAt(line, e[k - 1]) # Quote
      BY <2>4, <2>5, Literals
    <3>2. scan[e[k - 1]] = scan[e[k - 1] + 2]
      BY <1>4, <2>3, <2>4, <2>5, <3>1
    <3> QED
      BY <2>1, <2>2, <2>4, <2>5, <3>2
  <2>6. CASE arg[k] \notin Marked
    <3>1. CharAt(line, e[k - 1]) # Quote /\ CharAt(line, e[k - 1]) # "*"
      BY <2>4, <2>6 DEF Marked
    <3>2. scan[e[k - 1]] = scan[e[k - 1] + 1]
      BY <1>4, <2>3, <3>1
    <3> QED
      BY <2>1, <2>2, <2>4, <2>6, <3>2
  <2> QED
    BY <2>5, <2>6
<1> HIDE DEF T
<1>8. \A d \in Nat : d \in T
  BY <1>6, <1>7, Induction
<1>9. n \in T /\ n - n = 0 /\ n <= n
  BY <1>0, <1>8
<1>10. scan[e[0]] = e[n]
  BY <1>9 DEF T
<1> QED
  BY <1>1, <1>3, <1>10 DEF P

\* What is extracted from the quotes is the argument, whatever it is for.
LEMMA ExtractQuoted ==
  ASSUME NEW C, NEW arg \in Seq(C), NEW D, NEW line \in Seq(D), NEW p \in Nat, NEW e,
         Quoted(line, p, arg, e), NEW word, NEW mode,
         word.type = "double", word.start = p + 2, word.end = e[Len(arg)]
  PROVE  Extract(line, word, mode) = arg
<1> DEFINE n == Len(arg)
           P == p + 2
<1>0. n \in Nat /\ Len(line) \in Nat
  BY LenProperties
<1>1. /\ e \in [0 .. n -> Nat] /\ e[0] = P /\ e[n] < Len(line)
      /\ \A k \in 0 .. n : e[k] \in P .. e[n]
  BY DEF Quoted
<1>2. word.end \in 0 .. Len(line) /\ n \in 0 .. n
  BY <1>0, <1>1
<1>3. PICK from : Extracts(from, line, word, mode) /\ Extract(line, word, mode) = from[P]
  <2>1. PICK from : /\ Extracts(from, line, word, mode)
                    /\ word.type # "single" => Extract(line, word, mode) = from[word.start]
    BY <1>2, ExtractExists
  <2> QED
    BY <2>1
<1> HIDE DEF P
<1>4. ASSUME NEW q \in 0 .. Len(line)
      PROVE  from[q] = IF q >= e[n] THEN <<>>
                       ELSE IF CharAt(line, q) = "*" /\ CharAt(line, q + 1) # "nul"
                            THEN EscapedDouble(CharAt(line, q + 1)) \o from[q + 2]
                            ELSE <<CharAt(line, q)>> \o from[q + 1]
  <2>1. q \in 0 .. Len(line) + 1 /\ (q < e[n] <=> ~(q >= e[n]))
    BY <1>0, <1>2
  <2>2. from[q] = CASE q >= word.end -> <<>>
                    [] q < word.end /\ CharAt(line, q) = EscapeOf(word) /\ CharAt(line, q + 1) # "nul" ->
                          Escaped(line, word, mode, q) \o from[q + 2]
                    [] OTHER -> <<CharAt(line, q)>> \o from[q + 1]
    BY <1>3, <2>1 DEF Extracts
  <2>3. EscapeOf(word) = "*" /\ Escaped(line, word, mode, q) = EscapedDouble(CharAt(line, q + 1))
    BY DEF EscapeOf, Escaped
  <2> QED
    BY <2>1, <2>2, <2>3
<1>5. \A k \in 0 .. n : e[k] \in 0 .. Len(line)
  <2>1. \A k \in 0 .. n : e[k] \in Nat /\ e[n] \in Nat /\ e[k] <= e[n]
    <3>1. P \in Nat
      BY DEF P
    <3> QED
      BY <1>1, <1>2, <3>1
  <2>2. \A x, y, z \in Nat : x <= y /\ y < z => x \in 0 .. z
    OBVIOUS
  <2> QED
    BY <1>0, <1>1, <2>1, <2>2
<1> DEFINE T == {d \in Nat : d <= n => from[e[n - d]] = SubSeq(arg, (n - d) + 1, n)}
<1>6. 0 \in T
  <2>1. from[e[n]] = <<>>
    <3>1. e[n] >= e[n]
      BY <1>1, <1>2
    <3> QED
      BY <1>2, <1>4, <1>5, <3>1
  <2>2. SubSeq(arg, n + 1, n) = <<>>
    BY <1>0, SubSeqEmpty
  <2>3. n - 0 = n
    BY <1>0
  <2> QED
    BY <2>1, <2>2, <2>3
<1>7. ASSUME NEW d \in Nat, d \in T PROVE d + 1 \in T
  <2> SUFFICES ASSUME d + 1 <= n PROVE from[e[n - (d + 1)]] = SubSeq(arg, (n - (d + 1)) + 1, n)
    OBVIOUS
  <2> DEFINE k == n - d
  <2>1. k \in 1 .. n /\ k - 1 = n - (d + 1) /\ (k - 1) + 1 = k /\ k \in 0 .. n /\ k - 1 \in 0 .. n /\ n \in k .. n
    BY <1>0
  <2>2. from[e[k]] = SubSeq(arg, k + 1, n)
    BY <1>0, <1>7
  <2> HIDE DEF k
  <2>3. SubSeq(arg, k, n) = <<arg[k]>> \o SubSeq(arg, k + 1, n)
    BY <2>1, SubSeqRecursiveFirst
  <2>4. IF arg[k] \in Marked
        THEN CharAt(line, e[k - 1]) = "*" /\ CharAt(line, e[k - 1] + 1) = arg[k] /\ e[k] = e[k - 1] + 2
        ELSE CharAt(line, e[k - 1]) = arg[k] /\ e[k] = e[k - 1] + 1
    BY <2>1 DEF Quoted
  <2>5. e[k - 1] \in 0 .. Len(line) /\ ~(e[k - 1] >= e[n])
    <3>1. e[k] \in P .. e[n] /\ e[k] \in Nat /\ e[k - 1] \in Nat /\ e[n] \in Nat
      BY <1>1, <1>2, <2>1
    <3>2. e[k] = e[k - 1] + 2 \/ e[k] = e[k - 1] + 1
      BY <2>4
    <3>3. e[k] <= e[n]
      BY <3>1
    <3>4. e[k - 1] \in 0 .. Len(line)
      BY <1>5, <2>1
    <3> QED
      BY <3>1, <3>2, <3>3, <3>4
  <2>6. from[e[k - 1]] = <<arg[k]>> \o from[e[k]]
    <3>1. CASE arg[k] \in Marked
      <4>1. CharAt(line, e[k - 1] + 1) # "nul" /\ EscapedDouble(CharAt(line, e[k - 1] + 1)) = <<arg[k]>>
        BY <2>4, <3>1, Literals
      <4> QED
        BY <1>4, <2>4, <2>5, <3>1, <4>1
    <3>2. CASE arg[k] \notin Marked
      <4>1. CharAt(line, e[k - 1]) # "*"
        BY <2>4, <3>2 DEF Marked
      <4> QED
        BY <1>4, <2>4, <2>5, <3>2, <4>1
    <3> QED
      BY <3>1, <3>2
  <2> QED
    BY <2>1, <2>2, <2>3, <2>6
<1> HIDE DEF T
<1>8. \A d \in Nat : d \in T
  BY <1>6, <1>7, Induction
<1>9. n \in T /\ n - n = 0 /\ n <= n /\ 0 + 1 = 1
  BY <1>0, <1>8
<1>10. from[e[0]] = SubSeq(arg, 1, n)
  BY <1>9 DEF T
<1>11. SubSeq(arg, 1, n) = arg
  BY SubSeqFull
<1> QED
  BY <1>1, <1>3, <1>10, <1>11
-----------------------------------------------------------------------------
\* The word that starts where an argument was put, and what is extracted.
LEMMA QuotedAgain ==
  ASSUME NEW C, NEW arg \in Seq(C), NEW D, NEW line \in Seq(D), NEW p, NEW next \in Nat,
         Holds(line, p, QuoteArg(arg)), p + Len(QuoteArg(arg)) = next
  PROVE  LET word == NextWord(line, Blanks(line, p))
         IN  /\ Blanks(line, p) # Len(line)
             /\ word = [start |-> p + 2, end |-> next - 1, type |-> "double", next |-> next]
             /\ \A mode : Extract(line, word, mode) = arg
<1> DEFINE n == Len(arg)
<1>0. n \in Nat /\ Len(line) \in Nat /\ p \in Nat
  BY LenProperties DEF Holds
<1>1. PICK e : Quoted(line, p, arg, e) /\ e[n] + 1 = p + Len(QuoteArg(arg))
  BY QuotedHolds
<1>2. /\ CharAt(line, p) = Blank /\ CharAt(line, p + 1) = Quote /\ CharAt(line, e[n]) = Quote
      /\ e[n] \in Nat /\ e[n] < Len(line) /\ e[n] >= p + 2
  <2>1. n \in 0 .. n /\ 0 \in 0 .. n
    BY <1>0
  <2>2. e[n] \in Nat /\ e[n] \in p + 2 .. e[n] /\ e[n] < Len(line)
    BY <1>1, <2>1 DEF Quoted
  <2> QED
    BY <1>0, <1>1, <2>2 DEF Quoted
<1>3. e[n] = next - 1 /\ e[n] + 1 = next
  BY <1>1, <1>2
<1>4. p \in 0 .. Len(line) /\ p + 1 \in p .. Len(line) /\ p + 1 < Len(line)
  BY <1>0, <1>2
<1>5. Blanks(line, p) = p + 1
  <2>1. /\ Blanks(line, p) \in p .. Len(line) /\ CharAt(line, Blanks(line, p)) \notin Space
        /\ \A q \in p .. Len(line) : CharAt(line, q) \notin Space => Blanks(line, p) <= q
    BY <1>4, BlanksEnd
  <2>2. Blanks(line, p) # p
    BY <1>2, <2>1, Literals
  <2>3. Blanks(line, p) <= p + 1
    BY <1>2, <1>4, <2>1, Literals
  <2> QED
    BY <1>0, <2>1, <2>2, <2>3
<1> DEFINE word == NextWord(line, p + 1)
<1>6. WordEnd(line, p + 2, {Quote}, "*") = e[n]
  BY <1>0, <1>1, ScanQuoted
<1>7. (p + 1) + 1 = p + 2
  BY <1>0
<1>8. word = [start |-> (p + 1) + 1, end |-> WordEnd(line, (p + 1) + 1, {Quote}, "*"), type |-> "double",
              next |-> IF CharAt(line, WordEnd(line, (p + 1) + 1, {Quote}, "*")) = Quote
                       THEN WordEnd(line, (p + 1) + 1, {Quote}, "*") + 1
                       ELSE WordEnd(line, (p + 1) + 1, {Quote}, "*")]
  BY <1>2, NextWordQuoted
<1>9. word = [start |-> p + 2, end |-> e[n], type |-> "double", next |-> e[n] + 1]
  BY <1>2, <1>6, <1>7, <1>8
<1>10. ASSUME NEW mode PROVE Extract(line, word, mode) = arg
  <2>1. word.type = "double" /\ word.start = p + 2 /\ word.end = e[n]
    BY <1>9
  <2> HIDE DEF word
  <2> QED
    BY <1>0, <1>1, <2>1, ExtractQuoted
<1> HIDE DEF word
<1>11. word = [start |-> p + 2, end |-> next - 1, type |-> "double", next |-> next]
  BY <1>3, <1>9
<1>12. Blanks(line, p) # Len(line)
  BY <1>0, <1>4, <1>5
<1> QED
  BY <1>5, <1>10, <1>11, <1>12 DEF word
-----------------------------------------------------------------------------
\* A command line: its name, and from B[k - 1] to B[k] its k-th argument.
Commanded(line, args, B) ==
  /\ B \in [0 .. Len(args) -> Nat] /\ B[0] = 1 /\ B[Len(args)] = Len(line)
  /\ CharAt(line, 0) = "c"
  /\ \A k \in 1 .. Len(args) : /\ Holds(line, B[k - 1], QuoteArg(args[k]))
                               /\ B[k - 1] + Len(QuoteArg(args[k])) = B[k]
CommandChars(C) == AllChars(C) \cup {"c"}

LEMMA CommandHolds ==
  ASSUME NEW C, NEW args \in Seq(Seq(C))
  PROVE  /\ Name \o CommandOf(args) \in Seq(CommandChars(C))
         /\ \E B : Commanded(Name \o CommandOf(args), args, B)
<1> DEFINE n == Len(args)
           D == CommandChars(C)
           seqs == [k \in DOMAIN args |-> QuoteArg(args[k])]
           s == CommandOf(args)
           line == Name \o s
<1>0. n \in Nat /\ DOMAIN args = 1 .. n /\ \A k \in 1 .. n : args[k] \in Seq(C)
  BY LenProperties, ElementOfSeq
<1>1. ASSUME NEW arg \in Seq(C) PROVE QuoteArg(arg) \in Seq(D)
  <2> DEFINE t == FlattenSeq(Escapeds(arg))
  <2>1. t \in Seq(D)
    <3>1. t \in Seq(AllChars(C))
      BY EscapePlaces
    <3> QED
      BY <3>1 DEF CommandChars
  <2>2. <<Blank, Quote>> \in Seq(D) /\ <<Quote>> \in Seq(D)
    <3>1. Blank \in D /\ Quote \in D
      BY DEF CommandChars, AllChars
    <3> QED
      BY <3>1
  <2> HIDE DEF t, D
  <2>3. <<Blank, Quote>> \o t \in Seq(D)
    BY <2>1, <2>2, ConcatProperties
  <2>4. (<<Blank, Quote>> \o t) \o <<Quote>> \in Seq(D)
    BY <2>2, <2>3, ConcatProperties
  <2> QED
    BY <2>4, QuoteArgIs DEF t
<1> HIDE DEF D
<1>2. seqs \in Seq(Seq(D)) /\ Len(seqs) = n /\ \A k \in 1 .. n : seqs[k] = QuoteArg(args[k])
  BY <1>0, <1>1
<1>3. s = FlattenSeq(seqs)
  BY DEF CommandOf
<1> HIDE DEF seqs, s
<1>4. s \in Seq(D) /\ Len(s) \in Nat
  BY <1>2, <1>3, FlattenPlaces, LenProperties
<1>5. PICK off : Strung(off, seqs, s)
  BY <1>2, <1>3, FlattenPlaces
<1>6. Name \in Seq(D) /\ Len(Name) = 1 /\ Name[1] = "c"
  <2>1. "c" \in D
    BY DEF D, CommandChars
  <2> QED
    BY <2>1 DEF Name
<1>7. /\ line \in Seq(D) /\ Len(line) = 1 + Len(s)
      /\ line[1] = "c" /\ \A l \in 1 .. Len(s) : line[1 + l] = s[l]
  <2>1. /\ Name \o s \in Seq(D) /\ Len(Name \o s) = Len(Name) + Len(s)
        /\ \A l \in 1 .. Len(Name) + Len(s) :
             (Name \o s)[l] = IF l <= Len(Name) THEN Name[l] ELSE s[l - Len(Name)]
    BY <1>4, <1>6, ConcatProperties
  <2>2. ASSUME NEW l \in 1 .. Len(s) PROVE line[1 + l] = s[l]
    <3>1. 1 + l \in 1 .. 1 + Len(s) /\ ~(1 + l <= 1) /\ (1 + l) - 1 = l
      BY <1>4
    <3> QED
      BY <1>6, <2>1, <3>1
  <2>3. 1 \in 1 .. 1 + Len(s) /\ 1 <= 1
    BY <1>4
  <2> QED
    BY <1>6, <2>1, <2>2, <2>3
<1> HIDE DEF line
<1>8. /\ off \in [0 .. n -> Nat] /\ off[0] = 0 /\ Len(s) = off[n]
      /\ \A k \in 1 .. n : /\ off[k] = off[k - 1] + Len(QuoteArg(args[k]))
                           /\ \A l \in 1 .. Len(QuoteArg(args[k])) : s[off[k - 1] + l] = QuoteArg(args[k])[l]
  <2>1. /\ off \in [0 .. Len(seqs) -> Nat] /\ off[0] = 0 /\ Len(s) = off[Len(seqs)]
        /\ \A k \in 1 .. Len(seqs) : /\ off[k] = off[k - 1] + Len(seqs[k])
                                     /\ \A l \in 1 .. Len(seqs[k]) : s[off[k - 1] + l] = seqs[k][l]
    BY <1>5 DEF Strung
  <2>2. ASSUME NEW k \in 1 .. n
        PROVE  /\ off[k] = off[k - 1] + Len(QuoteArg(args[k]))
               /\ \A l \in 1 .. Len(QuoteArg(args[k])) : s[off[k - 1] + l] = QuoteArg(args[k])[l]
    <3>1. seqs[k] = QuoteArg(args[k]) /\ k \in 1 .. Len(seqs)
      BY <1>2
    <3>2. /\ off[k] = off[k - 1] + Len(seqs[k])
          /\ \A l \in 1 .. Len(seqs[k]) : s[off[k - 1] + l] = seqs[k][l]
      BY <2>1, <3>1
    <3> QED
      BY <3>1, <3>2, Zenon
  <2>3. Len(seqs) = n
    BY <1>2
  <2> QED
    BY <2>1, <2>2, <2>3, Zenon
<1> DEFINE B == [k \in 0 .. n |-> 1 + off[k]]
<1>9. \A k \in 0 .. n : B[k] = 1 + off[k] /\ off[k] \in Nat /\ B[k] \in Nat
  BY <1>8
<1>10. B \in [0 .. n -> Nat]
  BY <1>9
<1> HIDE DEF B
<1>11. B[0] = 1 /\ B[n] = Len(line)
  <2>1. 0 \in 0 .. n /\ n \in 0 .. n
    BY <1>0
  <2> QED
    BY <1>7, <1>8, <1>9, <2>1
<1>12. CharAt(line, 0) = "c"
  <2>1. 0 < Len(line) /\ 0 + 1 = 1
    BY <1>4, <1>7
  <2> QED
    BY <1>7, <2>1 DEF CharAt
<1>13. \A k, l \in 0 .. n : k <= l => off[k] <= off[l]
  <2>1. \A k \in 1 .. n : off[k - 1] <= off[k]
    <3>1. \A k \in 1 .. n : k \in 0 .. n /\ k - 1 \in 0 .. n
      BY <1>0
    <3>2. \A k \in 1 .. n : off[k] \in Nat /\ off[k - 1] \in Nat
      BY <1>8, <3>1
    <3>3. \A k \in 1 .. n : Len(QuoteArg(args[k])) \in Nat
      BY <1>0, <1>1, LenProperties
    <3>4. \A x, y, z \in Nat : x = y + z => y <= x
      OBVIOUS
    <3> QED
      BY <1>8, <3>2, <3>3, <3>4
  <2> QED
    BY <1>0, <1>8, <2>1, Ascends
<1>14. ASSUME NEW k \in 1 .. n
       PROVE  /\ Holds(line, B[k - 1], QuoteArg(args[k]))
              /\ B[k - 1] + Len(QuoteArg(args[k])) = B[k]
  <2> DEFINE q == QuoteArg(args[k])
             m == Len(q)
  <2>1. k \in 0 .. n /\ k - 1 \in 0 .. n /\ n \in 0 .. n /\ k <= n
    BY <1>0
  <2>2. m \in Nat
    BY <1>0, <1>1, LenProperties
  <2> HIDE DEF q
  <2>3. PICK x \in Nat, y \in Nat, z \in Nat : x = off[k - 1] /\ y = off[k] /\ z = off[n] /\ y <= z
    BY <1>9, <1>13, <2>1
  <2>4. y = x + m /\ B[k - 1] = 1 + x /\ B[k] = 1 + y /\ Len(line) = 1 + z /\ Len(s) = z
    BY <1>7, <1>8, <1>9, <2>1, <2>3 DEF q
  <2>5. ASSUME NEW l \in 1 .. m PROVE line[B[k - 1] + l] = q[l]
    <3>1. x + l \in 1 .. z /\ (1 + x) + l = 1 + (x + l)
      <4>1. l \in Nat /\ l >= 1 /\ l <= m
        BY <2>2
      <4>2. x + m <= z
        BY <2>3, <2>4
      <4> QED
        BY <2>2, <4>1, <4>2
    <3>2. line[1 + (x + l)] = s[x + l]
      BY <1>7, <2>4, <3>1
    <3>3. s[x + l] = q[l]
      BY <1>8, <2>3 DEF q
    <3> QED
      BY <2>4, <3>1, <3>2, <3>3
  <2>6. (1 + x) + m = 1 + y /\ (1 + x) + m <= 1 + z /\ 1 + x \in Nat
    <3>1. y = x + m /\ y <= z
      BY <2>3, <2>4
    <3> QED
      BY <2>2, <3>1
  <2>7. Holds(line, B[k - 1], q)
    BY <2>4, <2>5, <2>6 DEF Holds
  <2> QED
    BY <2>4, <2>6, <2>7 DEF q
<1>15. Commanded(line, args, B)
  BY <1>10, <1>11, <1>12, <1>14 DEF Commanded
<1> QED
  BY <1>7, <1>15 DEF line, s, D

\* The words of a command line: its name, and one for every argument.
NameWord == [start |-> 0, end |-> 1, type |-> "none", next |-> 1]
ArgWord(B, k) == [start |-> B[k - 1] + 2, end |-> B[k] - 1, type |-> "double", next |-> B[k]]
ArgWords(args, B) == [k \in 1 .. Len(args) |-> ArgWord(B, k)]

LEMMA ArgAgain ==
  ASSUME NEW C, NEW args \in Seq(Seq(C)), NEW D, NEW line \in Seq(D), NEW B,
         Commanded(line, args, B), NEW k \in 1 .. Len(args)
  PROVE  /\ Blanks(line, B[k - 1]) # Len(line)
         /\ NextWord(line, Blanks(line, B[k - 1])) = ArgWord(B, k)
         /\ \A mode : Extract(line, ArgWord(B, k), mode) = args[k]
<1>1. Len(args) \in Nat /\ args[k] \in Seq(C)
  BY LenProperties, ElementOfSeq
<1>2. k \in 0 .. Len(args) /\ k - 1 \in 0 .. Len(args)
  BY <1>1
<1>3. /\ B[k] \in Nat /\ Holds(line, B[k - 1], QuoteArg(args[k]))
      /\ B[k - 1] + Len(QuoteArg(args[k])) = B[k]
  BY <1>2 DEF Commanded
<1>4. /\ Blanks(line, B[k - 1]) # Len(line)
      /\ NextWord(line, Blanks(line, B[k - 1]))
             = [start |-> B[k - 1] + 2, end |-> B[k] - 1, type |-> "double", next |-> B[k]]
      /\ \A mode : Extract(line, NextWord(line, Blanks(line, B[k - 1])), mode) = args[k]
  BY <1>1, <1>3, QuotedAgain
<1>5. NextWord(line, Blanks(line, B[k - 1])) = ArgWord(B, k)
  BY <1>4, Zenon DEF ArgWord
<1> QED
  BY <1>4, <1>5, Zenon

\* Where a command's name ends: at its first argument, or where the line does.
LEMMA NameEnds ==
  ASSUME NEW C, NEW args \in Seq(Seq(C)), NEW D, NEW line \in Seq(D), NEW B, Commanded(line, args, B)
  PROVE  /\ 0 < Len(line) /\ Blanks(line, 0) = 0
         /\ NextWord(line, 0) = NameWord
<1> DEFINE n == Len(args)
<1>0. n \in Nat /\ Len(line) \in Nat
  BY LenProperties
<1>1. B[0] = 1 /\ B[n] = Len(line) /\ CharAt(line, 0) = "c" /\ B \in [0 .. n -> Nat]
  BY DEF Commanded
<1>2. 0 < Len(line)
  <2>1. ~(0 < Len(line)) => CharAt(line, 0) = "nul"
    BY DEF CharAt
  <2>2. "c" # "nul"
    OBVIOUS
  <2> QED
    BY <1>1, <2>1, <2>2
<1>3. Blanks(line, 0) = 0
  <2>1. 0 \in 0 .. Len(line) /\ CharAt(line, 0) \notin Space
    BY <1>0, <1>1, Literals
  <2>2. Blanks(line, 0) \in 0 .. Len(line) /\ Blanks(line, 0) <= 0
    BY <2>1, BlanksEnd
  <2> QED
    BY <1>0, <2>2
<1>4. 1 < Len(line) => CharAt(line, 1) = Blank
  <2>1. CASE n = 0
    BY <1>1, <2>1
  <2>2. CASE n # 0
    <3>1. 1 \in 1 .. n /\ 1 - 1 = 0 /\ args[1] \in Seq(C)
      BY <1>0, <2>2, ElementOfSeq
    <3>2. Holds(line, B[1 - 1], QuoteArg(args[1]))
      BY <3>1 DEF Commanded
    <3>3. Holds(line, 1, QuoteArg(args[1]))
      BY <1>1, <3>1, <3>2
    <3>4. PICK e : Quoted(line, 1, args[1], e)
      BY <3>1, <3>3, QuotedHolds
    <3> QED
      BY <3>4 DEF Quoted
  <2> QED
    BY <2>1, <2>2
<1>5. WordEnd(line, 0, Space, "\\") = 1
  <2>1. 0 \in 0 .. Len(line)
    BY <1>0
  <2>2. PICK scan : Scans(scan, line, 0, Space, "\\") /\ WordEnd(line, 0, Space, "\\") = scan[0]
    BY <2>1, ScanExists
  <2>3. 0 \in 0 .. Len(line) + 1 /\ 1 \in 0 .. Len(line) + 1 /\ 0 + 1 = 1 /\ ~(0 >= Len(line))
    BY <1>0, <1>2
  <2>4. \A q \in 0 .. Len(line) + 1 :
          scan[q] = CASE q >= Len(line) \/ CharAt(line, q) \in Space -> q
                      [] OTHER ->
                            IF CharAt(line, q) = "\\" /\ CharAt(line, q + 1) # "nul"
                            THEN scan[q + 2] ELSE scan[q + 1]
    BY <2>2 DEF Scans
  <2>5. scan[0] = scan[0 + 1]
    BY <1>1, <2>3, <2>4, Literals
  <2>6. 1 >= Len(line) \/ CharAt(line, 1) \in Space
    BY <1>0, <1>4, Literals
  <2>7. scan[1] = 1
    BY <2>3, <2>4, <2>6
  <2> QED
    BY <2>2, <2>3, <2>5, <2>7
<1>6. NextWord(line, 0) = [start |-> 0, end |-> WordEnd(line, 0, Space, "\\"), type |-> "none",
                           next |-> WordEnd(line, 0, Space, "\\")]
  BY <1>1, NextWordPlain
<1>7. NextWord(line, 0) = NameWord
  BY <1>5, <1>6 DEF NameWord
<1> QED
  BY <1>2, <1>3, <1>7

LEMMA WordsOfCommand ==
  ASSUME NEW C, NEW args \in Seq(Seq(C)), NEW D, NEW line \in Seq(D), NEW B, Commanded(line, args, B)
  PROVE  Words(line) = <<NameWord>> \o ArgWords(args, B)
<1> DEFINE n == Len(args)
           wds == ArgWords(args, B)
<1>0. n \in Nat /\ Len(line) \in Nat
  BY LenProperties
<1>1. PICK from : Cuts(from, line) /\ Words(line) = from[0]
  BY CutsExist
<1>2. \A p \in 0 .. Len(line) : from[p] = CutsAt(line, p, from)
  BY <1>1 DEF Cuts
<1>3. wds \in Seq({ArgWord(B, k) : k \in 1 .. n}) /\ Len(wds) = n /\ \A k \in 1 .. n : wds[k] = ArgWord(B, k)
  BY <1>0 DEF ArgWords
<1>4. /\ B \in [0 .. n -> Nat] /\ B[0] = 1 /\ B[n] = Len(line)
      /\ \A k \in 1 .. n : Holds(line, B[k - 1], QuoteArg(args[k]))
  BY DEF Commanded
<1> HIDE DEF wds
<1>5. ASSUME NEW k \in 1 .. n
      PROVE  from[B[k - 1]] = <<ArgWord(B, k)>> \o from[B[k]]
  <2>1. B[k - 1] \in 0 .. Len(line)
    <3>1. args[k] \in Seq(C)
      BY ElementOfSeq
    <3>2. Holds(line, B[k - 1], QuoteArg(args[k]))
      BY <1>4
    <3>3. PICK e : Quoted(line, B[k - 1], args[k], e)
      BY <3>1, <3>2, QuotedHolds
    <3>4. CharAt(line, B[k - 1]) # "nul" /\ B[k - 1] \in Nat
      <4>1. CharAt(line, B[k - 1]) = Blank
        BY <3>3 DEF Quoted
      <4> QED
        BY <3>2, <4>1, Literals DEF Holds
    <3>5. B[k - 1] < Len(line)
      BY <3>4 DEF CharAt
    <3> QED
      BY <1>0, <3>4, <3>5
  <2>2. from[B[k - 1]] = CutsAt(line, B[k - 1], from)
    BY <1>2, <2>1
  <2>3. /\ Blanks(line, B[k - 1]) # Len(line)
        /\ NextWord(line, Blanks(line, B[k - 1])) = ArgWord(B, k)
    BY ArgAgain
  <2>4. ArgWord(B, k).next = B[k]
    BY DEF ArgWord
  <2> QED
    BY <2>2, <2>3, <2>4, Zenon DEF CutsAt
<1> DEFINE T == {d \in Nat : d <= n => from[B[n - d]] = SubSeq(wds, (n - d) + 1, n)}
<1>6. 0 \in T
  <2>1. from[B[n]] = <<>>
    <3>1. Len(line) \in 0 .. Len(line)
      BY <1>0
    <3>2. Blanks(line, Len(line)) \in Len(line) .. Len(line)
      BY <3>1, BlanksEnd
    <3>3. Blanks(line, Len(line)) = Len(line)
      BY <1>0, <3>2
    <3> QED
      BY <1>2, <1>4, <3>1, <3>3 DEF CutsAt
  <2>2. SubSeq(wds, n + 1, n) = <<>>
    BY <1>0, <1>3, SubSeqEmpty
  <2>3. n - 0 = n
    BY <1>0
  <2> QED
    BY <2>1, <2>2, <2>3
<1>7. ASSUME NEW d \in Nat, d \in T PROVE d + 1 \in T
  <2> SUFFICES ASSUME d + 1 <= n PROVE from[B[n - (d + 1)]] = SubSeq(wds, (n - (d + 1)) + 1, n)
    OBVIOUS
  <2> DEFINE k == n - d
  <2>1. k \in 1 .. n /\ k - 1 = n - (d + 1) /\ (k - 1) + 1 = k /\ n \in k .. n
    BY <1>0
  <2>2. from[B[k]] = SubSeq(wds, k + 1, n)
    BY <1>0, <1>7
  <2> HIDE DEF k
  <2>3. SubSeq(wds, k, n) = <<wds[k]>> \o SubSeq(wds, k + 1, n)
    BY <1>3, <2>1, SubSeqRecursiveFirst
  <2>4. from[B[k - 1]] = <<wds[k]>> \o from[B[k]]
    BY <1>3, <1>5, <2>1
  <2> QED
    BY <2>1, <2>2, <2>3, <2>4
<1> HIDE DEF T
<1>8. \A d \in Nat : d \in T
  BY <1>6, <1>7, Induction
<1>9. n \in T /\ n - n = 0 /\ n <= n /\ 0 + 1 = 1
  BY <1>0, <1>8
<1>10. from[1] = wds
  <2>1. from[B[0]] = SubSeq(wds, 1, n)
    BY <1>9 DEF T
  <2>2. SubSeq(wds, 1, n) = wds
    BY <1>3, SubSeqFull
  <2> QED
    BY <1>4, <2>1, <2>2
<1>11. from[0] = <<NameWord>> \o from[1]
  <2>1. 0 < Len(line) /\ Blanks(line, 0) = 0 /\ NextWord(line, 0) = NameWord
    BY NameEnds
  <2>2. 0 \in 0 .. Len(line) /\ 0 # Len(line) /\ NameWord.next = 1
    BY <1>0, <2>1 DEF NameWord
  <2>3. from[0] = CutsAt(line, 0, from)
    BY <1>2, <2>2
  <2> QED
    BY <2>1, <2>2, <2>3, Zenon DEF CutsAt
<1> QED
  BY <1>1, <1>10, <1>11 DEF wds

\* What an argument is expanded to, and the vector that comes out of a line.
FilesOf(arg) == IF arg \in DOMAIN Matching THEN Matching[arg] ELSE <<>>
Expanded(arg) == IF IsWild(arg) /\ FilesOf(arg) # <<>> THEN FilesOf(arg) ELSE <<arg>>
ExpandedAll(args) == [k \in DOMAIN args |-> Expanded(args[k])]

\* An argument that ends the program that gets it before its main.
Fatal(arg) == Invalid(arg) \/ (IsWild(arg) /\ arg \in Unreadable)

LEMMA ArgvOfCommand ==
  ASSUME NEW C, NEW args \in Seq(Seq(C))
  PROVE  /\ Argv(Name \o CommandOf(args)) = <<Name>> \o FlattenSeq(ExpandedAll(args))
         /\ StartFails(Name \o CommandOf(args)) <=> \E k \in DOMAIN args : Fatal(args[k])
<1> DEFINE n == Len(args)
           line == Name \o CommandOf(args)
           D == CommandChars(C)
<1>0. n \in Nat /\ DOMAIN args = 1 .. n
  BY LenProperties
<1>1. line \in Seq(D)
  BY CommandHolds
<1>2. PICK B : Commanded(line, args, B)
  BY CommandHolds
<1>3. Name = <<"c">>
  BY DEF Name
<1>4. SubSeq(line, 1, 1) = Name
  <2> HIDE DEF D
  <2>2. 0 < Len(line) /\ Len(line) \in Nat
    BY <1>1, <1>2, NameEnds, LenProperties
  <2>3. line[1] = "c"
    <3>1. CharAt(line, 0) = "c" /\ 0 + 1 = 1
      BY <1>2 DEF Commanded
    <3> HIDE DEF line
    <3> QED
      BY <2>2, <3>1 DEF CharAt
  <2> HIDE DEF line
  <2>4. SubSeq(line, 1, 1) = <<line[1]>>
    <3>1. 1 \in 1 .. Len(line) /\ 1 \in 1 .. 1 /\ 1 < 1 + 1 /\ line[1] \in D
      BY <1>1, <2>2, ElementOfSeq
    <3>2. SubSeq(line, 1, 1) = <<line[1]>> \o SubSeq(line, 1 + 1, 1)
      BY <1>1, <3>1, SubSeqRecursiveFirst
    <3>3. SubSeq(line, 1 + 1, 1) = <<>>
      BY SubSeqEmpty
    <3>4. <<line[1]>> \in Seq(D)
      BY <3>1
    <3> QED
      BY <3>2, <3>3, <3>4, ConcatEmptySeq
  <2> QED
    BY <1>3, <2>3, <2>4
<1> HIDE DEF line, D
<1> DEFINE wds == ArgWords(args, B)
           words == Words(line)
<1>5. words = <<NameWord>> \o wds
  BY <1>1, <1>2, WordsOfCommand
<1>6. /\ wds \in Seq({NameWord} \cup {ArgWord(B, k) : k \in 1 .. n}) /\ Len(wds) = n
      /\ \A k \in 1 .. n : wds[k] = ArgWord(B, k)
  BY <1>0 DEF ArgWords
<1> HIDE DEF wds, words
<1>7. /\ Len(words) = n + 1 /\ words[1] = NameWord /\ words # <<>>
      /\ \A k \in 1 .. n : words[k + 1] = ArgWord(B, k)
  <2> DEFINE E == {NameWord} \cup {ArgWord(B, k) : k \in 1 .. n}
  <2>1. <<NameWord>> \in Seq(E) /\ Len(<<NameWord>>) = 1 /\ <<NameWord>>[1] = NameWord
    OBVIOUS
  <2> HIDE DEF E
  <2>2. wds \in Seq(E)
    BY <1>6 DEF E
  <2> DEFINE nw == <<NameWord>>
  <2> HIDE DEF nw
  <2>3. nw \in Seq(E) /\ Len(nw) = 1 /\ nw[1] = NameWord /\ words = nw \o wds
    BY <1>5, <2>1 DEF nw
  <2>4. /\ Len(words) = 1 + n
        /\ \A l \in 1 .. 1 + n : words[l] = IF l <= 1 THEN nw[l] ELSE wds[l - 1]
    <3>1. Len(wds) = n
      BY <1>6
    <3>2. words = nw \o wds /\ nw \in Seq(E) /\ wds \in Seq(E) /\ Len(nw) = 1
      BY <2>2, <2>3
    <3> HIDE DEF E
    <3>3. /\ Len(words) = Len(nw) + Len(wds)
          /\ \A l \in 1 .. Len(nw) + Len(wds) :
               words[l] = IF l <= Len(nw) THEN nw[l] ELSE wds[l - Len(nw)]
      BY <3>2, ConcatProperties
    <3> QED
      BY <3>1, <3>2, <3>3
  <2>5. ASSUME NEW k \in 1 .. n PROVE words[k + 1] = ArgWord(B, k)
    <3>1. k + 1 \in 1 .. 1 + n /\ ~(k + 1 <= 1) /\ (k + 1) - 1 = k
      BY <1>0
    <3> QED
      BY <1>6, <2>4, <3>1
  <2>6. words[1] = NameWord
    BY <1>0, <2>3, <2>4
  <2>7. words # <<>>
    BY <1>0, <2>4
  <2>8. Len(words) = n + 1
    BY <1>0, <2>4
  <2> QED
    BY <2>5, <2>6, <2>7, <2>8
<1>8. ASSUME NEW k \in 1 .. n
      PROVE  /\ Arguments(line, words[k + 1]) = Expanded(args[k])
             /\ WordFails(line, words[k + 1]) <=> Fatal(args[k])
  <2>1. \A mode : Extract(line, words[k + 1], mode) = args[k]
    BY <1>1, <1>2, <1>7, ArgAgain
  <2>2. Arguments(line, words[k + 1]) = Expanded(args[k])
    BY <2>1 DEF Arguments, Expanded, FilesOf
  <2>3. WordFails(line, words[k + 1]) <=> Fatal(args[k])
    BY <2>1 DEF WordFails, Fatal
  <2> QED
    BY <2>2, <2>3
<1>9. [k \in 1 .. Len(words) - 1 |-> Arguments(line, words[k + 1])] = ExpandedAll(args)
  <2>1. Len(words) - 1 = n
    BY <1>0, <1>7
  <2> QED
    BY <1>0, <1>8, <2>1 DEF ExpandedAll
<1>10. words[1].start + 1 = 1 /\ words[1].end = 1
  BY <1>7 DEF NameWord
<1>11. Argv(line) = IF words = <<>> THEN <<>>
                    ELSE <<SubSeq(line, words[1].start + 1, words[1].end)>>
                         \o FlattenSeq([k \in 1 .. Len(words) - 1 |-> Arguments(line, words[k + 1])])
  BY DEF Argv, words
<1>12. Argv(line) = <<Name>> \o FlattenSeq(ExpandedAll(args))
  BY <1>4, <1>7, <1>9, <1>10, <1>11
<1>13. StartFails(line) <=> \E k \in 1 .. n : WordFails(line, words[k + 1])
  <2>1. Len(words) - 1 = n
    BY <1>0, <1>7
  <2> QED
    BY <2>1 DEF StartFails, words
<1>14. (\E k \in 1 .. n : WordFails(line, words[k + 1])) <=> \E k \in DOMAIN args : Fatal(args[k])
  BY <1>0, <1>8
<1> QED
  BY <1>12, <1>13, <1>14 DEF line
-----------------------------------------------------------------------------
(* The room exec makes sure of, and the arguments a text is cut into.      *)

Cost(c) == IF c = Quote THEN 3 ELSE 1
RoomBody(arg, s, g) == IF s = {} THEN 0 ELSE g[s \ {Max(s)}] + Cost(arg[Max(s)])
Rooms(h, arg) ==
  /\ h \in [0 .. Len(arg) -> Nat] /\ h[0] = 0 /\ RoomFor(arg) = 3 + h[Len(arg)]
  /\ \A k \in 1 .. Len(arg) : h[k] = h[k - 1] + Cost(arg[k])

SplitStep(words, c) == IF c = "|" THEN Append(words, <<>>) ELSE [words EXCEPT ![Len(words)] = Append(@, c)]
SplitBody(t, s, g) == IF s = {} THEN <<<<>>>> ELSE SplitStep(g[s \ {Max(s)}], t[Max(s)])

LEMMA RoomSteps ==
  ASSUME NEW C, NEW arg \in Seq(C)
  PROVE  \E h : Rooms(h, arg)
<1> DEFINE n == Len(arg)
           V == Nat
           G == [z \in (1 .. n) \X Nat |-> z[2] + Cost(arg[z[1]])]
           iter == CHOOSE g : g = [s \in SUBSET DOMAIN arg |-> RoomBody(arg, s, g)]
<1>0. n \in Nat /\ DOMAIN arg = 1 .. n
  BY LenProperties
<1>1. RoomFor(arg) = 3 + iter[DOMAIN arg]
  BY Zenon DEF RoomFor, FoldLeft, MapThenFoldSet, RoomBody, Cost, Quote
<1>2. \A c : Cost(c) \in Nat
  BY DEF Cost
<1>4. \A k \in 1 .. n : \A v \in V : G[<<k, v>>] = v + Cost(arg[k])
  <2> HIDE DEF n
  <2> QED
    OBVIOUS
<1> HIDE DEF G
<1>5. Foldable(G, 0, n, V)
  BY <1>0, <1>2, <1>4 DEF Foldable
<1> HIDE DEF V
<1>6. PICK g : FoldsUp(g, G, 0, n, V)
  BY <1>5, FoldUp
<1>7. g = [s \in SUBSET (1 .. n) |-> RoomBody(arg, s, g)]
  <2>1. /\ g = [s \in SUBSET (1 .. n) |-> FoldStep(G, 0, s, g)]
        /\ g \in [SUBSET (1 .. n) -> V]
    BY <1>6 DEF FoldsUp
  <2>2. \A s : Highest(s) = Max(s)
    BY DEF Highest, Max
  <2>3. ASSUME NEW s \in SUBSET (1 .. n) PROVE FoldStep(G, 0, s, g) = RoomBody(arg, s, g)
    <3>1. CASE s = {}
      BY <3>1 DEF FoldStep, RoomBody
    <3>2. CASE s # {}
      <4>1. Highest(s) \in 1 .. n /\ s \ {Highest(s)} \in SUBSET (1 .. n)
        BY <1>0, <3>2, HighestOf
      <4>2. g[s \ {Highest(s)}] \in V
        BY <2>1, <4>1
      <4>3. FoldStep(G, 0, s, g) = G[<<Highest(s), g[s \ {Highest(s)}]>>]
        BY <3>2 DEF FoldStep
      <4> QED
        BY <1>4, <2>2, <3>2, <4>1, <4>2, <4>3 DEF RoomBody
    <3> QED
      BY <3>1, <3>2
  <2> QED
    BY <2>1, <2>3
<1>8. iter = [s \in SUBSET (1 .. n) |-> RoomBody(arg, s, iter)]
  <2>1. \E f : f = [s \in SUBSET (1 .. n) |-> RoomBody(arg, s, f)]
    BY <1>7
  <2> HIDE DEF n
  <2> QED
    BY <1>0, <2>1 DEF iter
<1> HIDE DEF iter
<1>9. ASSUME NEW k \in 1 .. n
      PROVE  iter[1 .. k] = iter[1 .. k - 1] + Cost(arg[k])
  <2>1. k \in Nat \ {0} /\ 1 .. k \in SUBSET (1 .. n) /\ 1 .. k # {}
    <3>1. k \in Nat \ {0} /\ k \in 1 .. k
      BY <1>0
    <3> HIDE DEF n
    <3>2. 1 .. k \subseteq 1 .. n
      BY <1>0, <3>1
    <3> QED
      BY <3>1, <3>2
  <2>2. Max(1 .. k) = k /\ (1 .. k) \ {k} = 1 .. k - 1
    BY <2>1, HighestOfInterval DEF Highest, Max
  <2>3. iter[1 .. k] = RoomBody(arg, 1 .. k, iter)
    BY <1>8, <2>1
  <2> QED
    BY <2>1, <2>2, <2>3 DEF RoomBody
<1>10. 1 .. 0 = {} /\ iter[{}] = 0
  BY <1>8 DEF RoomBody
<1> DEFINE h == [k \in 0 .. n |-> iter[1 .. k]]
<1>11. \A k \in 0 .. n : h[k] = iter[1 .. k]
  OBVIOUS
<1> HIDE DEF h
<1>12. h[0] = 0 /\ \A k \in 1 .. n : h[k] = h[k - 1] + Cost(arg[k])
  <2>1. 0 \in 0 .. n /\ \A k \in 1 .. n : k \in 0 .. n /\ k - 1 \in 0 .. n
    BY <1>0
  <2> QED
    BY <1>9, <1>10, <1>11, <2>1
<1> DEFINE T == {k \in Nat : k <= n => h[k] \in Nat}
<1>13. 0 \in T
  BY <1>12
<1>14. ASSUME NEW k \in Nat, k \in T PROVE k + 1 \in T
  <2> SUFFICES ASSUME k + 1 <= n PROVE h[k + 1] \in Nat
    OBVIOUS
  <2>1. k + 1 \in 1 .. n /\ (k + 1) - 1 = k /\ h[k] \in Nat
    BY <1>0, <1>14
  <2> QED
    BY <1>2, <1>12, <2>1
<1> HIDE DEF T
<1>15. \A k \in Nat : k \in T
  BY <1>13, <1>14, Induction
<1>16. \A k \in 0 .. n : h[k] \in Nat
  BY <1>0, <1>15 DEF T
<1>17. h \in [0 .. n -> Nat]
  BY <1>16 DEF h
<1>18. RoomFor(arg) = 3 + h[n]
  BY <1>0, <1>1, <1>11
<1>19. Rooms(h, arg)
  BY <1>12, <1>17, <1>18 DEF Rooms
<1> QED
  BY <1>19

LEMMA SplitStays ==
  ASSUME NEW C, NEW words \in Seq(Seq(C)), words # <<>>, NEW c \in C
  PROVE  SplitStep(words, c) \in Seq(Seq(C)) /\ SplitStep(words, c) # <<>>
<1> DEFINE n == Len(words)
<1>0. n \in Nat /\ n \in 1 .. n
  BY EmptySeq, LenProperties
<1>1. CASE c = "|"
  <2>1. <<>> \in Seq(C)
    OBVIOUS
  <2>2. Append(words, <<>>) \in Seq(Seq(C)) /\ Append(words, <<>>) # <<>>
    BY <2>1, AppendProperties
  <2> QED
    BY <1>1, <2>2 DEF SplitStep
<1>2. CASE c # "|"
  <2>1. words[n] \in Seq(C)
    BY <1>0, ElementOfSeq
  <2>2. Append(words[n], c) \in Seq(C)
    BY <2>1, AppendProperties
  <2> DEFINE last == Append(words[n], c)
  <2>3. SplitStep(words, c) = [words EXCEPT ![n] = last]
    BY <1>2 DEF SplitStep
  <2> HIDE DEF last
  <2>4. last \in Seq(C)
    BY <2>2 DEF last
  <2>5. [words EXCEPT ![n] = last] \in Seq(Seq(C)) /\ Len([words EXCEPT ![n] = last]) = n
    BY <1>0, <2>4, ExceptSeq
  <2>6. [words EXCEPT ![n] = last] # <<>>
    BY <1>0, <2>5, EmptySeq
  <2> QED
    BY <2>3, <2>5, <2>6
<1> QED
  BY <1>1, <1>2

LEMMA SplitWords ==
  ASSUME NEW C, NEW t \in Seq(C)
  PROVE  Split(t) \in Seq(Seq(C))
<1> DEFINE n == Len(t)
           V == {words \in Seq(Seq(C)) : words # <<>>}
           base == <<<<>>>>
           G == [z \in (1 .. n) \X V |-> SplitStep(z[2], t[z[1]])]
           iter == CHOOSE g : g = [s \in SUBSET DOMAIN t |-> SplitBody(t, s, g)]
<1>0. n \in Nat /\ DOMAIN t = 1 .. n /\ \A k \in 1 .. n : t[k] \in C
  BY LenProperties, ElementOfSeq
<1>1. Split(t) = iter[DOMAIN t]
  BY DEF Split, FoldLeft, MapThenFoldSet, SplitBody, SplitStep
<1>2. ASSUME NEW k \in 1 .. n, NEW v \in V PROVE SplitStep(v, t[k]) \in V
  BY <1>0, SplitStays
<1>3. base \in V
  OBVIOUS
<1>4. \A k \in 1 .. n : \A v \in V : G[<<k, v>>] = SplitStep(v, t[k])
  <2> HIDE DEF V, n
  <2> QED
    OBVIOUS
<1> HIDE DEF V, G, base
<1>5. Foldable(G, base, n, V)
  BY <1>0, <1>2, <1>3, <1>4 DEF Foldable
<1>6. PICK g : FoldsUp(g, G, base, n, V)
  BY <1>5, FoldUp
<1>7. g = [s \in SUBSET (1 .. n) |-> SplitBody(t, s, g)]
  <2>1. /\ g = [s \in SUBSET (1 .. n) |-> FoldStep(G, base, s, g)]
        /\ g \in [SUBSET (1 .. n) -> V]
    BY <1>6 DEF FoldsUp
  <2>2. \A s : Highest(s) = Max(s)
    BY DEF Highest, Max
  <2>3. ASSUME NEW s \in SUBSET (1 .. n) PROVE FoldStep(G, base, s, g) = SplitBody(t, s, g)
    <3>1. CASE s = {}
      BY <3>1 DEF FoldStep, SplitBody, base
    <3>2. CASE s # {}
      <4>1. Highest(s) \in 1 .. n /\ s \ {Highest(s)} \in SUBSET (1 .. n)
        BY <1>0, <3>2, HighestOf
      <4>2. g[s \ {Highest(s)}] \in V
        BY <2>1, <4>1
      <4>3. FoldStep(G, base, s, g) = G[<<Highest(s), g[s \ {Highest(s)}]>>]
        BY <3>2 DEF FoldStep
      <4> QED
        BY <1>4, <2>2, <3>2, <4>1, <4>2, <4>3 DEF SplitBody
    <3> QED
      BY <3>1, <3>2
  <2> QED
    BY <2>1, <2>3
<1>8. iter = [s \in SUBSET (1 .. n) |-> SplitBody(t, s, iter)]
  <2>1. \E f : f = [s \in SUBSET (1 .. n) |-> SplitBody(t, s, f)]
    BY <1>7
  <2> HIDE DEF n
  <2> QED
    BY <1>0, <2>1 DEF iter
<1> HIDE DEF iter
<1> DEFINE T == {k \in Nat : k <= n => iter[1 .. k] \in V}
<1>9. 0 \in T
  <2>1. 1 .. 0 = {} /\ iter[{}] = base
    BY <1>8 DEF SplitBody, base
  <2> QED
    BY <1>3, <2>1
<1>10. ASSUME NEW l \in Nat, l \in T PROVE l + 1 \in T
  <2> SUFFICES ASSUME l + 1 <= n PROVE iter[1 .. l + 1] \in V
    OBVIOUS
  <2> DEFINE k == l + 1
  <2>1. k \in 1 .. n /\ k \in Nat \ {0} /\ k - 1 = l /\ iter[1 .. l] \in V
    BY <1>0, <1>10
  <2> HIDE DEF k
  <2>2. 1 .. k \in SUBSET (1 .. n) /\ 1 .. k # {}
    <3>1. k \in 1 .. k
      BY <2>1
    <3> HIDE DEF n
    <3>2. 1 .. k \subseteq 1 .. n
      BY <1>0, <2>1
    <3> QED
      BY <3>1, <3>2
  <2>3. Max(1 .. k) = k /\ (1 .. k) \ {k} = 1 .. k - 1
    BY <2>1, HighestOfInterval DEF Highest, Max
  <2>4. iter[1 .. k] = SplitBody(t, 1 .. k, iter)
    BY <1>8, <2>2
  <2>5. iter[1 .. k] = SplitStep(iter[1 .. k - 1], t[k])
    BY <2>2, <2>3, <2>4 DEF SplitBody
  <2>6. iter[1 .. k] \in V
    BY <1>2, <2>1, <2>5
  <2> QED
    BY <2>6 DEF k
<1> HIDE DEF T
<1>11. n \in T /\ n <= n
  BY <1>0, <1>9, <1>10, Induction
<1> QED
  BY <1>0, <1>1, <1>11 DEF T, V

\* How often a character has come up after each place.
Counts(cnt, arg, c) ==
  /\ cnt \in [0 .. Len(arg) -> Nat] /\ cnt[0] = 0 /\ cnt[Len(arg)] = CountOf(arg, c)
  /\ \A k \in 1 .. Len(arg) : cnt[k] = cnt[k - 1] + (IF arg[k] = c THEN 1 ELSE 0)

LEMMA CountUp ==
  ASSUME NEW C, NEW arg \in Seq(C), NEW c
  PROVE  \E cnt : Counts(cnt, arg, c)
<1> DEFINE n == Len(arg)
           At(k) == {l \in 1 .. k : arg[l] = c}
           cnt == [k \in 0 .. n |-> Cardinality(At(k))]
<1>0. n \in Nat /\ DOMAIN arg = 1 .. n
  BY LenProperties
<1>1. \A k \in 0 .. n : IsFiniteSet(At(k)) /\ Cardinality(At(k)) \in Nat
  <2>1. ASSUME NEW k \in 0 .. n PROVE IsFiniteSet(At(k)) /\ Cardinality(At(k)) \in Nat
    <3>1. IsFiniteSet(1 .. k) /\ At(k) \subseteq 1 .. k
      BY FS_Interval
    <3> QED
      BY <3>1, FS_Subset, FS_CardinalityType
  <2> QED
    BY <2>1
<1>2. \A k \in 0 .. n : cnt[k] = Cardinality(At(k))
  OBVIOUS
<1>3. cnt \in [0 .. n -> Nat]
  BY <1>1
<1>4. CountOf(arg, c) = Cardinality(At(n))
  BY <1>0 DEF CountOf
<1> HIDE DEF cnt
<1>5. ASSUME NEW k \in 1 .. n PROVE cnt[k] = cnt[k - 1] + (IF arg[k] = c THEN 1 ELSE 0)
  <2>1. k \in 0 .. n /\ k - 1 \in 0 .. n
    BY <1>0
  <2>2. cnt[k] = Cardinality(At(k)) /\ cnt[k - 1] = Cardinality(At(k - 1)) /\ cnt[k - 1] \in Nat
    BY <1>1, <1>2, <2>1
  <2>3. k \notin At(k - 1) /\ \A l : l \in 1 .. k <=> l \in 1 .. k - 1 \/ l = k
    BY <1>0
  <2>4. CASE arg[k] = c
    <3>1. At(k) = At(k - 1) \cup {k}
      BY <2>3, <2>4
    <3> HIDE DEF At
    <3>2. Cardinality(At(k - 1) \cup {k}) = Cardinality(At(k - 1)) + 1
      BY <1>1, <2>1, <2>3, FS_AddElement
    <3> QED
      BY <2>2, <2>4, <3>1, <3>2
  <2>5. CASE arg[k] # c
    <3>1. At(k) = At(k - 1)
      BY <2>3, <2>5
    <3>2. cnt[k] = cnt[k - 1]
      <4> HIDE DEF At
      <4> QED
        BY <2>2, <3>1
    <3>3. cnt[k - 1] + 0 = cnt[k - 1]
      BY <2>2
    <3> QED
      BY <2>5, <3>2, <3>3
  <2> QED
    BY <2>4, <2>5
<1>6. cnt[0] = 0
  <2>1. At(0) = {} /\ 0 \in 0 .. n
    BY <1>0
  <2> QED
    BY <1>2, <2>1, FS_EmptySet
<1>7. cnt[n] = CountOf(arg, c)
  <2>1. n \in 0 .. n
    BY <1>0
  <2> QED
    BY <1>2, <1>4, <2>1
<1> HIDE DEF At
<1>8. Counts(cnt, arg, c)
  BY <1>3, <1>5, <1>6, <1>7 DEF Counts
<1> QED
  BY <1>8

LEMMA QuoteArgLength ==
  ASSUME NEW C, NEW arg \in Seq(C)
  PROVE  /\ Len(FlattenSeq(Escapeds(arg))) \in Nat
         /\ Len(QuoteArg(arg)) = 3 + Len(FlattenSeq(Escapeds(arg)))
<1> DEFINE A == AllChars(C)
           s == FlattenSeq(Escapeds(arg))
           x == <<Blank, Quote>>
           y == <<Quote>>
<1>1. s \in Seq(A) /\ Len(s) \in Nat
  BY EscapePlaces, LenProperties
<1>2. x \in Seq(A) /\ Len(x) = 2 /\ y \in Seq(A) /\ Len(y) = 1
  <2>1. Blank \in A /\ Quote \in A
    BY DEF AllChars
  <2> QED
    BY <2>1
<1>3. QuoteArg(arg) = (x \o s) \o y
  BY QuoteArgIs
<1> HIDE DEF A, s, x, y
<1>6. ASSUME NEW t \in Seq(A), NEW u \in Seq(A)
      PROVE  t \o u \in Seq(A) /\ Len(t \o u) = Len(t) + Len(u)
  BY ConcatProperties
<1>4. x \o s \in Seq(A) /\ Len(x \o s) = 2 + Len(s)
  BY <1>1, <1>2, <1>6
<1> DEFINE z == x \o s
<1>7. z \in Seq(A) /\ Len(z) = 2 + Len(s)
  BY <1>4
<1> HIDE DEF z
<1>8. Len(z \o y) = (2 + Len(s)) + 1
  BY <1>2, <1>6, <1>7
<1>5. Len((x \o s) \o y) = (2 + Len(s)) + 1
  BY <1>8 DEF z
<1> QED
  BY <1>1, <1>3, <1>5 DEF s

\* What exec writes takes a byte more for each quote and each star, what it
\* counts on two more for each quote.
LEMMA RoomIsEnough ==
  ASSUME NEW C, NEW arg \in Seq(C), CountOf(arg, "*") <= CountOf(arg, Quote)
  PROVE  Len(QuoteArg(arg)) <= RoomFor(arg)
<1> DEFINE n == Len(arg)
           s == FlattenSeq(Escapeds(arg))
<1>0. n \in Nat
  BY LenProperties
<1>1. PICK off : /\ Strung(off, Escapeds(arg), s)
                 /\ Len(Escapeds(arg)) = n
                 /\ \A k \in 1 .. n : Escapeds(arg)[k] = Escape(arg[k])
  BY EscapePlaces
<1>2. /\ off \in [0 .. n -> Nat] /\ off[0] = 0 /\ Len(s) = off[n]
      /\ \A k \in 1 .. n : off[k] = off[k - 1] + Len(Escape(arg[k]))
  BY <1>1 DEF Strung
<1>3. PICK h : Rooms(h, arg)
  BY RoomSteps
<1>4. PICK stars : Counts(stars, arg, "*")
  BY CountUp
<1>5. PICK quotes : Counts(quotes, arg, Quote)
  BY CountUp
<1>6. \A c : Len(Escape(c)) = IF c = Quote \/ c = "*" THEN 2 ELSE 1
  BY DEF Escape, Marked
<1> HIDE DEF s
<1> DEFINE T == {k \in Nat : k <= n => off[k] + quotes[k] = h[k] + stars[k]}
<1>7. 0 \in T
  BY <1>2, <1>3, <1>4, <1>5 DEF Rooms, Counts
<1>8. ASSUME NEW l \in Nat, l \in T PROVE l + 1 \in T
  <2> SUFFICES ASSUME l + 1 <= n PROVE off[l + 1] + quotes[l + 1] = h[l + 1] + stars[l + 1]
    OBVIOUS
  <2> DEFINE k == l + 1
  <2>1. k \in 1 .. n /\ k - 1 = l /\ l \in 0 .. n /\ off[l] + quotes[l] = h[l] + stars[l]
    BY <1>0, <1>8
  <2> HIDE DEF k
  <2>2. PICK o \in Nat, u \in Nat, r \in Nat, z \in Nat :
             o = off[l] /\ u = quotes[l] /\ r = h[l] /\ z = stars[l]
    BY <1>2, <1>3, <1>4, <1>5, <2>1 DEF Rooms, Counts
  <2>3. /\ off[k] = o + Len(Escape(arg[k])) /\ h[k] = r + Cost(arg[k])
        /\ quotes[k] = u + (IF arg[k] = Quote THEN 1 ELSE 0)
        /\ stars[k] = z + (IF arg[k] = "*" THEN 1 ELSE 0)
    BY <1>2, <1>3, <1>4, <1>5, <2>1, <2>2 DEF Rooms, Counts
  <2>4. o + u = r + z
    BY <2>1, <2>2
  <2>5. CASE arg[k] = Quote
    <3>1. Len(Escape(arg[k])) = 2 /\ Cost(arg[k]) = 3 /\ arg[k] # "*"
      BY <1>6, <2>5, Literals DEF Cost
    <3>2. off[k] = o + 2 /\ h[k] = r + 3 /\ quotes[k] = u + 1 /\ stars[k] = z + 0
      BY <2>3, <2>5, <3>1
    <3>3. off[k] + quotes[k] = h[k] + stars[k]
      BY <2>4, <3>2
    <3> QED
      BY <3>3 DEF k
  <2>6. CASE arg[k] = "*"
    <3>1. Len(Escape(arg[k])) = 2 /\ Cost(arg[k]) = 1 /\ arg[k] # Quote
      BY <1>6, <2>6, Literals DEF Cost
    <3>2. off[k] = o + 2 /\ h[k] = r + 1 /\ quotes[k] = u + 0 /\ stars[k] = z + 1
      BY <2>3, <2>6, <3>1
    <3>3. off[k] + quotes[k] = h[k] + stars[k]
      BY <2>4, <3>2
    <3> QED
      BY <3>3 DEF k
  <2>7. CASE arg[k] # Quote /\ arg[k] # "*"
    <3>1. Len(Escape(arg[k])) = 1 /\ Cost(arg[k]) = 1
      BY <1>6, <2>7 DEF Cost
    <3>2. off[k] = o + 1 /\ h[k] = r + 1 /\ quotes[k] = u + 0 /\ stars[k] = z + 0
      BY <2>3, <2>7, <3>1
    <3>3. off[k] + quotes[k] = h[k] + stars[k]
      BY <2>4, <3>2
    <3> QED
      BY <3>3 DEF k
  <2> QED
    BY <2>5, <2>6, <2>7
<1> HIDE DEF T
<1>9. n \in T
  BY <1>0, <1>7, <1>8, Induction
<1>10. off[n] + quotes[n] = h[n] + stars[n]
  BY <1>0, <1>9 DEF T
<1>11. PICK o \in Nat, u \in Nat, r \in Nat, z \in Nat :
            o = off[n] /\ u = quotes[n] /\ r = h[n] /\ z = stars[n] /\ z <= u
  <2>1. n \in 0 .. n
    BY <1>0
  <2> QED
    BY <1>2, <1>3, <1>4, <1>5, <2>1 DEF Rooms, Counts
<1>12. o + u = r + z
  BY <1>10, <1>11
<1>13. 3 + o <= 3 + r
  <2>1. z <= u
    BY <1>11
  <2> QED
    BY <1>12, <2>1
<1>14. RoomFor(arg) = 3 + r /\ Len(QuoteArg(arg)) = 3 + o
  <2>1. RoomFor(arg) = 3 + h[n]
    BY <1>3 DEF Rooms
  <2>2. Len(QuoteArg(arg)) = 3 + off[n]
    BY <1>2, QuoteArgLength DEF s
  <2> QED
    BY <1>11, <2>1, <2>2
<1> QED
  BY <1>13, <1>14
-----------------------------------------------------------------------------
(* A text is a sequence over some alphabet.                                *)

AnyChar == UNION {Alphabet[p] : p \in DOMAIN Alphabet}
TextInv == text \in Seq(AnyChar)

LEMMA TextInductive == Spec => []TextInv
<1>1. Init => TextInv
  <2>1. <<>> \in Seq(AnyChar)
    OBVIOUS
  <2> QED
    BY <2>1 DEF Init, TextInv
<1>2. TextInv /\ [Next]_vars => TextInv'
  <2> SUFFICES ASSUME TextInv, [Next]_vars PROVE TextInv'
    OBVIOUS
  <2>1. CASE Type
    <3>1. PICK c \in Alphabet[part] : text' = Append(text, c)
      BY <2>1 DEF Type
    <3>2. c \in AnyChar
      BY <2>1, <3>1 DEF Type, Texts, AnyChar
    <3>3. Append(text, c) \in Seq(AnyChar)
      BY <3>2, AppendProperties DEF TextInv
    <3> QED
      BY <3>1, <3>3 DEF TextInv
  <2>2. CASE text' = text
    BY <2>2 DEF TextInv
  <2> QED
    BY <2>1, <2>2 DEF Next, NextA, NextB, AddBit, vars
<1> QED
  BY <1>1, <1>2, PTL DEF Spec

(* _main's words: for command lines of every length and over every         *)
(* alphabet, the text that extract writes for a word fits the memory that  *)
(* is allocated for the word, whichever of the three ways it is extracted. *)

THEOREM ExtractsSafe == Spec => []ExtractsFit
<1>1. TextInv => ExtractsFit
  <2> SUFFICES ASSUME TextInv, NEW k \in DOMAIN Words(text), NEW mode,
                      Words(text)[k].type = "single" => Words(text)[k].end > Words(text)[k].start
               PROVE  LET word == Words(text)[k]
                      IN  Len(Extract(text, word, mode)) <= word.end - word.start
    BY DEF ExtractsFit
  <2>1. Words(text) \in Seq(WordsOf(text))
    BY WordsAreWords DEF TextInv
  <2>2. k \in 1 .. Len(Words(text))
    BY <2>1, LenProperties
  <2>3. Words(text)[k] \in WordsOf(text)
    BY <2>1, <2>2, ElementOfSeq
  <2> QED
    BY <2>3, WordFits DEF TextInv
<1> QED
  BY <1>1, TextInductive, PTL
(* fnmatch: for patterns of every length and over every alphabet, what it  *)
(* accepts the pattern means, and a pattern without a star accepts all of  *)
(* what it means.  (The lemma says it of strings of every length as well.) *)

THEOREM FnmatchSafe == Spec => []FnmatchSound
<1>1. TextInv => FnmatchSound
  <2> SUFFICES ASSUME TextInv, NEW string \in BoundedSeq({"a", "b"}, 3)
               PROVE  /\ Fnmatch(text, string) => Matches(text, string)
                      /\ (~Contains(text, "*") /\ Matches(text, string)) => Fnmatch(text, string)
    BY DEF FnmatchSound
  <2>1. string \in Seq({"a", "b"})
    <3>1. PICK n \in 0 .. 3 : string \in [1 .. n -> {"a", "b"}]
      BY DEF BoundedSeq, SeqOf
    <3> QED
      BY <3>1
  <2>2. text \in Seq(AnyChar)
    BY DEF TextInv
  <2>3. ~Contains(text, "*") => \A r \in 1 .. Len(text) : text[r] # "*"
    BY DEF Contains
  <2> QED
    BY <2>1, <2>2, <2>3, FnmatchAgrees
<1> QED
  BY <1>1, TextInductive, PTL
(* strtol: for texts of every length and longs of every width, the number  *)
(* that is returned is the digits' value clamped to a long, with ERANGE    *)
(* exactly when it was clamped, and the end is the end of the digits.      *)

THEOREM StrtolSafe == Spec => []StrtolClamps
<1>1. TextInv => StrtolClamps
  <2> SUFFICES ASSUME TextInv, NEW base \in Bases
               PROVE  LET got == Strtol(text, base)
                          exact == SignedValue(text, base, [x |-> 16])
                          p == Prefix(text, base, [x |-> 16])
                          end == DigitsEnd(text, p.pos, p.base)
                      IN  /\ end > p.pos => /\ got.value = Clamped(exact, LongMin, LongMax)
                                            /\ got.end = end
                                            /\ got.errno = "ERANGE" <=> exact \notin LongMin .. LongMax
                          /\ end = p.pos => got.value = 0 /\ got.end = 0
    BY DEF StrtolClamps
  <2>1. base \in {0} \cup 2 .. 36
    BY BasesAssumption
  <2>2. text \in Seq(AnyChar)
    BY DEF TextInv
  <2> QED
    BY <2>1, <2>2, StrtolIsClamped
<1> QED
  BY <1>1, TextInductive, PTL

(* exec's command line and _main's vector: whatever the arguments, however *)
(* many and however long, each comes out as it went in or, being wild, as  *)
(* the files it matches, unless one of them ends the program before main,  *)
(* which it does exactly when it is no valid pattern or its files cannot be*)
(* read; and the room that exec makes sure of is enough for every argument *)
(* that has no more stars than quotes.                                     *)

THEOREM ArgumentsSafe == Spec => []ArgumentsSurvive
<1>1. TextInv => ArgumentsSurvive
  <2> SUFFICES ASSUME TextInv PROVE ArgumentsSurvive
    OBVIOUS
  <2> DEFINE args == Split(text)
  <2>1. args \in Seq(Seq(AnyChar))
    BY SplitWords DEF TextInv
  <2>2. DOMAIN args = 1 .. Len(args)
    BY <2>1, LenProperties
  <2>3. /\ Argv(Name \o CommandOf(args)) = <<Name>> \o FlattenSeq(ExpandedAll(args))
        /\ StartFails(Name \o CommandOf(args)) <=> \E k \in DOMAIN args : Fatal(args[k])
    BY <2>1, ArgvOfCommand
  <2>4. ASSUME NEW k \in DOMAIN args, CountOf(args[k], "*") <= CountOf(args[k], Quote)
        PROVE  Len(QuoteArg(args[k])) <= RoomFor(args[k])
    <3>1. args[k] \in Seq(AnyChar)
      BY <2>1, <2>2, ElementOfSeq
    <3> HIDE DEF args
    <3> QED
      BY <2>4, <3>1, RoomIsEnough
  <2> QED
    BY <2>3, <2>4, Zenon DEF ArgumentsSurvive, ExpandedAll, Expanded, FilesOf, Fatal, Quote
<1> QED
  BY <1>1, TextInductive, PTL
=============================================================================
