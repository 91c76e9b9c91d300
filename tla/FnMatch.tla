------------------------------ MODULE FnMatch -------------------------------
(***************************************************************************)
(* fnmatch: a shell pattern against a string, both sequences of characters *)
(* without the NUL that ends them.  The flags are ignored by the code.     *)
(***************************************************************************)
EXTENDS Integers, Sequences, FiniteSetsExt

\* A bracketed class that starts at position i: whether it is negated, the
\* characters it lists, and where it is closed (Len(pattern) when it is not).
Class(pattern, i) ==
    LET negate == i + 1 < Len(pattern) /\ pattern[i + 2] \in {"^", "!"}
        first == IF negate THEN i + 2 ELSE i + 1
        close == Min({Len(pattern)} \cup {k \in first .. Len(pattern) - 1 : pattern[k + 1] = "]"})
    IN  [negate |-> negate, members |-> {pattern[k + 1] : k \in first .. close - 1}, close |-> close]

\* mutant: characters left in the string are not seen
EndedEarly(pattern, string, i, j) == i = Len(pattern)

Ended(pattern, string, i, j) == i = Len(pattern) /\ j = Len(string)

\* A position of the pattern and one of the string.
Places(pattern, string) == (0 .. Len(pattern)) \X (0 .. Len(string))

\* The one loop, from position i of the pattern and j of the string.  After a
\* run of stars the string is moved to the first occurrence of the character
\* that follows them, whatever that character means, and never further.
Fnmatch(pattern, string) ==
    LET from[at \in Places(pattern, string)] ==
            LET i == at[1]
                j == at[2]
            IN  IF i = Len(pattern) \/ j = Len(string)
                THEN Ended(pattern, string, i, j)
                ELSE CASE pattern[i + 1] = "*" ->
                          LET after == Min({k \in i .. Len(pattern) :
                                              k = Len(pattern) \/ pattern[k + 1] # "*"})
                              hits == {k \in j .. Len(string) - 1 :
                                         after < Len(pattern) /\ string[k + 1] = pattern[after + 1]}
                          IN  after = Len(pattern) \/ (hits # {} /\ from[<<after, Min(hits)>>])
                       [] pattern[i + 1] = "?" -> from[<<i + 1, j + 1>>]
                       [] pattern[i + 1] = "[" ->
                          LET class == Class(pattern, i)
                          IN  /\ class.close < Len(pattern)
                              /\ (string[j + 1] \in class.members) # class.negate
                              /\ from[<<class.close + 1, j + 1>>]
                       [] OTHER -> pattern[i + 1] = string[j + 1] /\ from[<<i + 1, j + 1>>]
    IN  from[<<0, 0>>]

\* The reference: a star stands for any characters, none included.  An
\* unclosed bracket matches nothing, as in the code.
Matches(pattern, string) ==
    LET from[at \in Places(pattern, string)] ==
            LET i == at[1]
                j == at[2]
            IN  IF i = Len(pattern) THEN j = Len(string)
                ELSE CASE pattern[i + 1] = "*" -> \E k \in j .. Len(string) : from[<<i + 1, k>>]
                       [] pattern[i + 1] = "[" ->
                          LET class == Class(pattern, i)
                          IN  /\ j < Len(string) /\ class.close < Len(pattern)
                              /\ (string[j + 1] \in class.members) # class.negate
                              /\ from[<<class.close + 1, j + 1>>]
                       [] OTHER ->
                          j < Len(string) /\ pattern[i + 1] \in {"?", string[j + 1]}
                             /\ from[<<i + 1, j + 1>>]
    IN  from[<<0, 0>>]
=============================================================================
