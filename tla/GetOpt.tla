------------------------------- MODULE GetOpt -------------------------------
(***************************************************************************)
(* getopt and getopt_long.  A scan is what the library keeps between calls: *)
(* optind and getopt's static sp.  Both count from 0 as in C, and so do the *)
(* places of argv, a sequence of texts whose first is the program's name.   *)
(* opts maps an option's letter to TRUE when it takes an argument; long     *)
(* maps a name to "no", "required" or "optional".                           *)
(***************************************************************************)
EXTENDS Integers, Sequences, FiniteSetsExt

Start == [optind |-> 1, sp |-> 1]
None == <<>>

Letter(text, i) == IF i < Len(text) THEN text[i + 1] ELSE "nul"
Arg(argv, i) == argv[i + 1]
Rest(text, i) == SubSeq(text, i + 1, Len(text))

\* mutant: the place in the word is kept for the next word
AdvanceKeepsPlace(argv, s) ==
    IF Letter(Arg(argv, s.optind), s.sp + 1) = "nul" THEN [s EXCEPT !.optind = @ + 1]
    ELSE [s EXCEPT !.sp = @ + 1]

\* After a letter without argument: the next letter, or the next word.
Advance(argv, s) ==
    IF Letter(Arg(argv, s.optind), s.sp + 1) = "nul"
    THEN [optind |-> s.optind + 1, sp |-> 1]
    ELSE [s EXCEPT !.sp = @ + 1]

\* optarg is a sequence that is empty when it is NULL or left as it was.
Result(scan, c, optarg) == [scan |-> scan, c |-> c, optarg |-> optarg]

Getopt(argv, opts, s) ==
    LET argc == Len(argv)
        word == Arg(argv, s.optind)
        c == Letter(word, s.sp)
        next == [optind |-> s.optind + 1, sp |-> 1]
        after == [optind |-> s.optind + 2, sp |-> 1]
    IN  CASE s.sp = 1 /\ s.optind >= argc -> Result(s, "EOF", None)
          [] s.sp = 1 /\ s.optind < argc /\ (Letter(word, 0) # "-" \/ Len(word) = 1) ->
                Result(s, "EOF", None)
          [] s.sp = 1 /\ s.optind < argc /\ word = <<"-", "-">> -> Result(next, "EOF", None)
          [] OTHER ->
             CASE c \notin DOMAIN opts -> Result(Advance(argv, s), "?", None)
               [] c \in DOMAIN opts /\ ~opts[c] -> Result(Advance(argv, s), c, None)
               [] c \in DOMAIN opts /\ opts[c] ->
                  CASE Letter(word, s.sp + 1) # "nul" -> Result(next, c, <<Rest(word, s.sp + 1)>>)
                    [] Letter(word, s.sp + 1) = "nul" /\ next.optind >= argc -> Result(next, "?", None)
                    [] OTHER -> Result(after, c, <<Arg(argv, next.optind)>>)

\* A long option is taken when it is spelled out.  One whose argument is
\* missing is reported and stays where it is.
GetoptLong(argv, opts, long, s) ==
    LET argc == Len(argv)
        word == Arg(argv, s.optind)
        text == Rest(word, 2)
        equals == {i \in 0 .. Len(text) - 1 : text[i + 1] = "="}
        name == IF equals = {} THEN text ELSE SubSeq(text, 1, Min(equals))
        value == IF equals = {} THEN None ELSE <<Rest(text, Min(equals) + 1)>>
        next == [s EXCEPT !.optind = @ + 1]
        missing == name \in DOMAIN long /\ long[name] = "required" /\ value = None
    IN  CASE s.optind >= argc -> Result(s, "EOF", None)
          [] s.optind < argc /\ Len(word) > 2 /\ word[1] = "-" /\ word[2] = "-" ->
             CASE name \notin DOMAIN long -> Result(next, "?", None)
               [] missing /\ s.optind + 1 >= argc -> Result(s, "?", None)
               [] missing /\ s.optind + 1 < argc ->
                     Result([s EXCEPT !.optind = @ + 2], name, <<Arg(argv, s.optind + 1)>>)
               [] OTHER -> Result(next, name, IF long[name] = "no" THEN None ELSE value)
          [] OTHER -> Getopt(argv, opts, s)

\* A program's loop: every result up to the end, and the operands after it.
\* It gives up after "most" calls, so that a call that stands still shows.
Options(argv, opts, long, most) ==
    LET call[n \in 0 .. most] ==
            IF n = 0 THEN Result(Start, "start", None)
            ELSE IF call[n - 1].c = "EOF" THEN call[n - 1]
            ELSE GetoptLong(argv, opts, long, call[n - 1].scan)
    IN  [n \in 1 .. most |-> call[n]]
=============================================================================
