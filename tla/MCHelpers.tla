----------------------------- MODULE MCHelpers ------------------------------
(* Small instances of Helpers for TLC.  Words of 8 bits.                   *)
EXTENDS Helpers, TLC

MCWordSamples == <<0, 1, 2, 16, 100, 127, 128, 254, 255>>
MCAlphabet ==
    [strtol |-> {" ", "-", "0", "1", "2", "8", "x"},
     fnmatch |-> {"a", "b", "*", "?", "[", "]", "!"},
     command |-> {"(", "n", " ", "\"", "'", "*", "?", "\\", "|"},
     getopt |-> {"-", "a", "b", "z", "=", "|"}]
MCMaxText == [strtol |-> 5, fnmatch |-> 4, command |-> 5, getopt |-> 5]
MCWildChars == {"?", "("}
MCMatching == (<<"n", "?">> :> <<<<"n", "a">>, <<"n", "b">>>>)
MCUnreadable == {<<"?", "?">>}
\* A parenthesis that nothing closes.
MCInvalid(t) == \E k \in DOMAIN t : t[k] = "(" /\ (k = 1 \/ t[k - 1] # "'")
MCShortOpts == [a |-> FALSE, b |-> TRUE]
MCLongOpts == (<<"a">> :> "no") @@ (<<"b">> :> "required") @@ (<<"a", "b">> :> "optional")
=============================================================================
