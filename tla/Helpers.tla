------------------------------ MODULE Helpers -------------------------------
(***************************************************************************)
(* The library's pure functions, each against a reference definition over  *)
(* bounded inputs.  An input is grown step by step: a pair of long longs   *)
(* by walking through sample words, a text by appending a character, a mode*)
(* by adding a bit.  "part" says which functions an input is for.          *)
(***************************************************************************)
EXTENDS StrTol, FnMatch, Protection, CommandLine, GetOpt

CONSTANTS
    WordSamples,   \* the sample words long longs are made of, a sequence
    Alphabet,      \* by part, the characters of its texts
    MaxText,       \* by part, the length of the longest text
    Bases,         \* the bases numbers are read in
    ShortOpts, LongOpts

ASSUME SamplesAssumption ==
    WordSamples \in Seq(0 .. Base - 1) /\ WordSamples # <<>>
ASSUME BasesAssumption == Bases \subseteq {0} \cup 2 .. 36

Parts == {"numbers", "strtol", "fnmatch", "command", "getopt", "mode"}
Texts == DOMAIN Alphabet

VARIABLES part, i, j, text, bits
vars == <<part, i, j, text, bits>>

LLs == Len(WordSamples) * Len(WordSamples)
LLAt(k) == [hi |-> WordSamples[(k \div Len(WordSamples)) + 1], lo |-> WordSamples[(k % Len(WordSamples)) + 1]]
a == LLAt(i)
b == LLAt(j)

Init ==
    /\ part \in Parts
    /\ i = 0 /\ j = 0 /\ text = <<>> /\ bits = {}

NextA == /\ part = "numbers" /\ i + 1 < LLs
         /\ i' = i + 1 /\ UNCHANGED <<part, j, text, bits>>
NextB == /\ part = "numbers" /\ j + 1 < LLs
         /\ j' = j + 1 /\ UNCHANGED <<part, i, text, bits>>
Type == /\ part \in Texts /\ Len(text) < MaxText[part]
        /\ \E c \in Alphabet[part] : text' = Append(text, c)
        /\ UNCHANGED <<part, i, j, bits>>
AddBit == /\ part = "mode"
          /\ \E bit \in (ModeBits \cup ProtectionBits) \ bits : bits' = bits \cup {bit}
          /\ UNCHANGED <<part, i, j, text>>
Next == NextA \/ NextB \/ Type \/ AddBit
Spec == Init /\ [][Next]_vars
-----------------------------------------------------------------------------
Wrapped(v) == OfValue(v)

(* Sums, differences and negations of the emulated integers wrap as 2W-bit *)
(* two's complement does, and comparisons order them by value: the carry,  *)
(* the borrow and the sign rules of longlong.c over two words.             *)
SumsWrap ==
    part = "numbers" =>
        /\ Add(a, b) = Wrapped(Value(a) + Value(b))
        /\ Sub(a, b) = Wrapped(Value(a) - Value(b))
        /\ Negate(a) = Wrapped(-Value(a))
        /\ Lt(a, b) <=> Value(a) < Value(b)
        /\ Le(a, b) <=> Value(a) <= Value(b)
        /\ Ge(a, b) <=> Value(a) >= Value(b)
        /\ IsPositive(a) <=> Value(a) > 0
        /\ Add(Not(a), FromLong(1)) = Negate(a)
        /\ FromLong(ToLong(a)) = a <=> Value(a) \in LongMin .. LongMax

(* Shifts multiply and divide by powers of two across the word boundary,   *)
(* the arithmetic one rounding down, and the bit counts agree with them.   *)
ShiftsScale ==
    part = "numbers" =>
        /\ \A n \in 0 .. 2 * W - 1 :
            /\ Unsigned(Shr(a, n)) = Unsigned(a) \div 2^n
            /\ Value(Sar(a, n)) = Value(a) \div 2^n
            /\ Shl(a, n) = [hi |-> IF n >= W THEN (a.lo * 2^(n - W)) % Base
                                   ELSE ((a.hi * 2^n) + (a.lo \div 2^(W - n))) % Base,
                            lo |-> IF n >= W THEN 0 ELSE (a.lo * 2^n) % Base]
        /\ ~IsZero(a) => /\ Unsigned(Shr(a, 2 * W - 1 - Clz(a))) = 1
                         /\ Shl(Shr(a, Ctz(a)), Ctz(a)) = a /\ Shr(a, Ctz(a)).lo % 2 = 1
        /\ And(a, b).lo + Or(a, b).lo = a.lo + b.lo
        /\ Popcount(Xor(a, b)) = Popcount(a) + Popcount(b) - 2 * Popcount(And(a, b))

(* Division truncates towards zero and the remainder has the dividend's    *)
(* sign, for every dividend below half of the largest one and every divisor*)
(* but the least; the product of two longs is exact.  Beyond, the code     *)
(* differs: see the findings.                                              *)
SmallDividend == Abs(Value(a)) < 2^(2 * W - 2)
BothLongs == Value(a) \in LongMin .. LongMax /\ Value(b) \in LongMin .. LongMax
DivisionTruncates ==
    part = "numbers" =>
        /\ (SmallDividend /\ ~IsZero(b) /\ b # MinLL) =>
              /\ Value(Div(a, b)) = Truncated(Value(a), Value(b))
              /\ Value(Mod(a, b)) = Value(a) - Truncated(Value(a), Value(b)) * Value(b)
        /\ BothLongs => Value(Mul(a, b)) = Value(a) * Value(b)

(* strtol returns the number's value, clamped to a long with ERANGE, and   *)
(* the end of its digits, however long the digits: its test against cutoff *)
(* comes before the multiplication that would wrap.                        *)
StrtolClamps ==
    part = "strtol" =>
        \A base \in Bases :
            LET got == Strtol(text, base)
                exact == SignedValue(text, base, [x |-> 16])
                p == Prefix(text, base, [x |-> 16])
                end == DigitsEnd(text, p.pos, p.base)
            IN  /\ end > p.pos => /\ got.value = Clamped(exact, LongMin, LongMax)
                                  /\ got.end = end
                                  /\ got.errno = "ERANGE" <=> exact \notin LongMin .. LongMax
                /\ end = p.pos => got.value = 0 /\ got.end = 0

(* strtoll's comment: it parses negative numbers so that the least one can *)
(* be read.  A text whose value fits a long long is converted to it.       *)
StrtollConverts ==
    part = "strtol" =>
        \A base \in Bases :
            LET exact == SignedValue(text, base, [x |-> 16, b |-> 2])
            IN  InRange(exact) => Value(Strtoll(text, base).value) = exact

(* fnmatch accepts only what the pattern means, and without a star all of  *)
(* it.  With a star it misses strings: see the findings.                   *)
FnmatchSound ==
    part = "fnmatch" =>
        \A string \in BoundedSeq({"a", "b"}, 3) :
            /\ Fnmatch(text, string) => Matches(text, string)
            /\ (~Contains(text, "*") /\ Matches(text, string)) => Fnmatch(text, string)
-----------------------------------------------------------------------------
\* A text cut at "|" into words.
Split(t) ==
    FoldLeft(LAMBDA words, c : IF c = "|" THEN Append(words, <<>>)
                               ELSE [words EXCEPT ![Len(words)] = Append(@, c)],
             <<<<>>>>, t)
Name == <<"c">>
CountOf(t, c) == Cardinality({k \in DOMAIN t : t[k] = c})

(* What a program passes to exec reaches the child's main as it was, blanks,*)
(* quotes and escapes included; only a word with wildcards that match files *)
(* is expanded, quoted or not.  The child ends before main exactly when an *)
(* argument is no valid pattern, though it need not be meant as one, or is *)
(* wild and its files cannot be read.  exec's estimate of the room an      *)
(* argument needs is enough while it has no more stars than quotes.        *)
ArgumentsSurvive ==
    part = "command" =>
        LET args == Split(text)
            files(arg) == IF arg \in DOMAIN Matching THEN Matching[arg] ELSE <<>>
            expanded(arg) == IF IsWild(arg) /\ files(arg) # <<>> THEN files(arg) ELSE <<arg>>
            fatal(arg) == Invalid(arg) \/ (IsWild(arg) /\ arg \in Unreadable)
            line == Name \o CommandOf(args)
        IN  /\ StartFails(line) <=> \E k \in DOMAIN args : fatal(args[k])
            /\ ~StartFails(line) =>
                   Argv(line) = <<Name>> \o FlattenSeq([k \in DOMAIN args |-> expanded(args[k])])
            /\ \A k \in DOMAIN args :
                   CountOf(args[k], "*") <= CountOf(args[k], "\"") =>
                       Len(QuoteArg(args[k])) <= RoomFor(args[k])

(* However a command line is written, the text that stands for a word fits *)
(* the memory allocated for it, one byte more than the word, for each of   *)
(* the three ways to extract it.  An empty word in single quotes is tested *)
(* as "a", which does not fit: see the findings.                           *)
ExtractsFit ==
    part = "command" =>
        \A k \in DOMAIN Words(text) :
            LET word == Words(text)[k]
            IN  (word.type = "single" => word.end > word.start) =>
                    \A mode \in {"normal", "test", "pattern"} :
                        Len(Extract(text, word, mode)) <= word.end - word.start
-----------------------------------------------------------------------------
\* The options of words from the k-th on, one word after the other.
ClusterOf(words, k) ==
    LET word == words[k]
        taking == {n \in 2 .. Len(word) : word[n] \in DOMAIN ShortOpts /\ ShortOpts[word[n]]}
        last == IF taking = {} THEN Len(word) ELSE Min(taking)
        found(n) == IF word[n] \in DOMAIN ShortOpts THEN <<word[n], None>> ELSE <<"?", None>>
        end == CASE taking = {} -> <<found(last)>>
                 [] taking # {} /\ last < Len(word) -> <<<<word[last], <<Rest(word, last)>>>>>>
                 [] taking # {} /\ last = Len(word) /\ k < Len(words) ->
                       <<<<word[last], <<words[k + 1]>>>>>>
                 [] OTHER -> <<<<"?", None>>>>
        takesNext == taking # {} /\ last = Len(word) /\ k < Len(words)
    IN  [found |-> [n \in 1 .. last - 2 |-> found(n + 1)] \o end,
         next |-> IF takesNext THEN k + 2 ELSE k + 1]

LongOf(words, k) ==
    LET word == words[k]
        equals == {n \in DOMAIN word : word[n] = "="}
        name == SubSeq(word, 3, Min(equals \cup {Len(word) + 1}) - 1)
        known == name \in DOMAIN LongOpts
        takesNext == known /\ LongOpts[name] = "required" /\ equals = {}
        value == CASE takesNext /\ k < Len(words) -> <<words[k + 1]>>
                   [] takesNext /\ k = Len(words) -> None
                   [] ~takesNext /\ (equals = {} \/ ~known \/ LongOpts[name] = "no") -> None
                   [] OTHER -> <<Rest(word, Min(equals))>>
    IN  [found |-> <<<<IF known THEN name ELSE "?", value>>>>,
         next |-> IF takesNext THEN k + 2 ELSE k + 1,
         cut |-> takesNext /\ k = Len(words)]

OptionsOf(words) ==
    LET from[k \in 1 .. Len(words) + 1] ==
            LET word == words[k]
                long == LongOf(words, k)
                one == IF word[2] = "-" THEN long ELSE ClusterOf(words, k)
                rest == from[one.next]
            IN  CASE k > Len(words) -> [found |-> <<>>, next |-> k, cut |-> FALSE]
                  [] k <= Len(words) /\ (Len(word) < 2 \/ word[1] # "-") ->
                        [found |-> <<>>, next |-> k, cut |-> FALSE]
                  [] k <= Len(words) /\ word = <<"-", "-">> ->
                        [found |-> <<>>, next |-> k + 1, cut |-> FALSE]
                  [] k <= Len(words) /\ Len(word) > 2 /\ SubSeq(word, 1, 2) = <<"-", "-">> /\ long.cut ->
                        [found |-> <<>>, next |-> k, cut |-> TRUE]
                  [] OTHER -> [rest EXCEPT !.found = one.found \o @]
    IN  from[1]

(* getopt and getopt_long, called until they say EOF, return the options   *)
(* of each word with their arguments, in their order, and leave optind at  *)
(* the first operand: sp and optind move together through clusters, glued  *)
(* and separate arguments.  A command line that ends with a long option    *)
(* whose argument is missing never ends: see the findings.                 *)
GetoptReadsAll ==
    part = "getopt" =>
        LET words == Split(text)
            most == Len(text) + 2
            calls == Options(<<Name>> \o words, ShortOpts, LongOpts, most)
            ref == OptionsOf(words)
            got == SelectSeq(calls, LAMBDA r : r.c # "EOF")
        IN  ~ref.cut =>
                /\ calls[most].c = "EOF" /\ calls[most].scan = [optind |-> ref.next, sp |-> 1]
                /\ [k \in DOMAIN got |-> <<got[k].c, got[k].optarg>>] = ref.found
-----------------------------------------------------------------------------
(* chmod followed by stat shows every permission asked for its owner, and  *)
(* access agrees; a protection that is read as a mode and set again is the *)
(* same but for the archive bit; what access allows, open allows as well.  *)
ModesSurvive ==
    part = "mode" =>
        LET mode == bits \cap ModeBits
            protection == bits \cap ProtectionBits
            set == MakeProtection(mode)
        IN  /\ mode \cap {"RUSR", "WUSR", "XUSR"} \subseteq StatMode(set, FALSE)
            /\ MakeProtection(MakeMode(protection)) = protection \ {"ARCHIVE"}
            /\ \A wish \in SUBSET {"R", "W", "X"} :
                   AccessOk(protection, FALSE, wish) => OpenOk(protection, wish)
=============================================================================
