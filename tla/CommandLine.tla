---------------------------- MODULE CommandLine -----------------------------
(***************************************************************************)
(* From an argument vector to a command line (exec.c) and back (_main.c).  *)
(* A text is a sequence of characters without its NUL; a position counts   *)
(* the characters before it.                                               *)
(*                                                                         *)
(* External: AmigaDOS's ParsePattern and MatchFirst/MatchNext.  A text is  *)
(* wild when it holds one of WildChars that no ' quotes, and matches the   *)
(* files of Matching[text], in the order tqsort leaves them in.  A text    *)
(* that is Invalid is no pattern at all (an open parenthesis, say), and    *)
(* looking for the files of one in Unreadable ends in an error.            *)
(***************************************************************************)
EXTENDS Integers, Sequences, SequencesExt, FiniteSetsExt

CONSTANTS WildChars, Matching, Unreadable, Invalid(_)

CharAt(line, p) == IF p < Len(line) THEN line[p + 1] ELSE "nul"
Space == {" ", "\t", "\n"}
-----------------------------------------------------------------------------
(* exec: every argument in double quotes, its quotes and stars escaped.    *)
\* mutant: only quotes are escaped
QuoteArgNoStar(arg) ==
    <<" ", "\"">> \o FlattenSeq([i \in DOMAIN arg |-> IF arg[i] = "\"" THEN <<"*", "\"">> ELSE <<arg[i]>>])
        \o <<"\"">>

QuoteArg(arg) ==
    <<" ", "\"">>
        \o FlattenSeq([i \in DOMAIN arg |->
               IF arg[i] \in {"\"", "*"} THEN <<"*", arg[i]>> ELSE <<arg[i]>>])
        \o <<"\"">>
CommandOf(argv) == FlattenSeq([i \in DOMAIN argv |-> QuoteArg(argv[i])])

\* The room exec makes sure of before it copies an argument: quotes count
\* three, stars one.
RoomFor(arg) == 3 + FoldLeft(LAMBDA n, c : n + (IF c = "\"" THEN 3 ELSE 1), 0, arg)
-----------------------------------------------------------------------------
(* _main: one word of the line, from its first character to the end.       *)
\* Where a word ends that starts at p, an escape character taking the one
\* after it along, unless the line ends there.
WordEnd(line, p, stops, escape) ==
    LET scan[q \in p .. Len(line) + 1] ==
            CASE q >= Len(line) \/ CharAt(line, q) \in stops -> q
              [] OTHER ->
                    IF CharAt(line, q) = escape /\ CharAt(line, q + 1) # "nul"
                    THEN scan[q + 2] ELSE scan[q + 1]
    IN  scan[p]

NextWord(line, p) ==
    LET quoted(type, quote, escape) ==
            LET end == WordEnd(line, p + 1, {quote}, escape)
            IN  [start |-> p + 1, end |-> end, type |-> type,
                 next |-> IF CharAt(line, end) = quote THEN end + 1 ELSE end]
        end == WordEnd(line, p, Space, "\\")
    IN  CASE CharAt(line, p) = "\"" -> quoted("double", "\"", "*")
          [] CharAt(line, p) = "'" -> quoted("single", "'", "none")
          [] OTHER -> [start |-> p, end |-> end, type |-> "none", next |-> end]

Words(line) ==
    LET blanks(p) == Min({q \in p .. Len(line) : CharAt(line, q) \notin Space})
        from[p \in 0 .. Len(line)] ==
            LET word == NextWord(line, blanks(p))
            IN  IF blanks(p) = Len(line) THEN <<>> ELSE <<word>> \o from[word.next]
    IN  from[0]

\* extract: the text a word stands for.  To "test" whether it is wild, escaped
\* characters are hidden; as a "pattern", escaped wildcards are quoted with '.
\* mutant: in a pattern the escape character stays as well
EscapedNoneKept(c, mode) ==
    IF mode = "test" THEN <<"a">> ELSE IF mode = "pattern" THEN <<"\\", "'", c>> ELSE <<c>>

EscapedNone(c, mode) ==
    CASE mode = "test" -> <<"a">>
      [] mode = "pattern" /\ c \in WildChars \cup {"'"} -> <<"'", c>>
      [] OTHER -> <<c>>

EscapedDouble(c) == CASE c = "n" -> <<"\n">> [] c = "e" -> <<"esc">> [] OTHER -> <<c>>

Extract(line, word, mode) ==
    LET escape == IF word.type = "double" THEN "*" ELSE "\\"
        from[p \in 0 .. Len(line) + 1] ==
            CASE p >= word.end -> <<>>
              [] p < word.end /\ CharAt(line, p) = escape /\ CharAt(line, p + 1) # "nul" ->
                    (IF word.type = "double" THEN EscapedDouble(CharAt(line, p + 1))
                     ELSE EscapedNone(CharAt(line, p + 1), mode)) \o from[p + 2]
              [] OTHER -> <<CharAt(line, p)>> \o from[p + 1]
    IN  IF word.type = "single"
        THEN IF mode = "test" THEN <<"a">> ELSE SubSeq(line, word.start + 1, word.end)
        ELSE from[word.start]

IsWild(text) ==
    \E i \in DOMAIN text : text[i] \in WildChars /\ (i = 1 \/ text[i - 1] # "'")

\* One word's arguments: the files a wild word matches, or the word itself.
Arguments(line, word) ==
    LET pattern == Extract(line, word, "pattern")
        files == IF pattern \in DOMAIN Matching THEN Matching[pattern] ELSE <<>>
    IN  IF IsWild(Extract(line, word, "test")) /\ files # <<>> THEN files
        ELSE <<Extract(line, word, "normal")>>

\* A word that ends the program in _fail, before main.
WordFails(line, word) ==
    LET text == Extract(line, word, "test")
    IN  Invalid(text) \/ (IsWild(text) /\ Extract(line, word, "pattern") \in Unreadable)

StartFails(line) ==
    \E i \in 1 .. Len(Words(line)) - 1 : WordFails(line, Words(line)[i + 1])

\* What main is called with, unless StartFails.
\* The command's name is left as it stands.  No NULL is put after the last.
Argv(line) ==
    LET words == Words(line)
        rest == FlattenSeq([i \in 1 .. Len(words) - 1 |-> Arguments(line, words[i + 1])])
    IN  IF words = <<>> THEN <<>>
        ELSE <<SubSeq(line, words[1].start + 1, words[1].end)>> \o rest
=============================================================================
