--------------------------- MODULE SignalsProofs ---------------------------
(***************************************************************************)
(* Proofs about Signals, for every set of signals, masks and children, and *)
(* for C stacks of any depth.                                              *)
(***************************************************************************)
EXTENDS Signals, Numbers, SequenceTheorems, TLAPS

----------------------------------------------------------------------------
(* Stacks: sequences that grow and shrink at their end.                    *)

LEMMA Popped ==
  ASSUME NEW S, NEW s \in Seq(S), s # <<>>
  PROVE  /\ Front(s) \in Seq(S) /\ Last(s) \in S /\ Last(s) = s[Len(s)]
         /\ Len(s) \in Nat \ {0} /\ Len(Front(s)) = Len(s) - 1
         /\ \A i \in 1 .. Len(s) - 1 : Front(s)[i] = s[i]
         /\ s = Append(Front(s), Last(s))
<1>1. Len(s) \in Nat \ {0}
  BY EmptySeq, LenProperties
<1>2. /\ Front(s) \in Seq(S) /\ Len(Front(s)) = Len(s) - 1
      /\ \A i \in 1 .. Len(s) - 1 : Front(s)[i] = s[i]
  <2>1. PICK n \in Nat : n = Len(s) - 1
    BY <1>1
  <2>2. 1 \in Int /\ n \in Int /\ \A i \in 1 .. n : s[i] \in S
    BY <1>1, <2>1, ElementOfSeq
  <2>3. Front(s) = SubSeq(s, 1, n)
    BY <2>1 DEF Front
  <2>4. /\ SubSeq(s, 1, n) \in Seq(S)
        /\ Len(SubSeq(s, 1, n)) = IF 1 <= n THEN n - 1 + 1 ELSE 0
        /\ \A i \in 1 .. n - 1 + 1 : SubSeq(s, 1, n)[i] = s[1 + i - 1]
    BY <2>2, SubSeqProperties
  <2>5. n - 1 + 1 = n /\ \A i \in 1 .. n : 1 + i - 1 = i
    BY <2>2
  <2>6. Len(SubSeq(s, 1, n)) = n
    BY <2>1, <2>4, <2>5
  <2> QED
    BY <1>1, <2>1, <2>3, <2>4, <2>5, <2>6
<1>3. Last(s) \in S /\ Last(s) = s[Len(s)]
  BY <1>1, ElementOfSeq DEF Last
<1>4. s = Append(Front(s), Last(s))
  <2>1. /\ Append(Front(s), Last(s)) \in Seq(S) /\ Len(Append(Front(s), Last(s))) = Len(s)
        /\ \A i \in 1 .. Len(s) : Append(Front(s), Last(s))[i] = s[i]
    BY <1>1, <1>2, <1>3, AppendProperties
  <2> QED
    BY <1>1, <2>1, SeqEqual
<1> QED
  BY <1>1, <1>2, <1>3, <1>4

LEMMA Pushed ==
  ASSUME NEW S, NEW s \in Seq(S), NEW e \in S
  PROVE  /\ Append(s, e) \in Seq(S) /\ Append(s, e) # <<>>
         /\ Len(Append(s, e)) = Len(s) + 1 /\ Len(s) \in Nat
         /\ \A i \in 1 .. Len(s) : Append(s, e)[i] = s[i]
         /\ Append(s, e)[Len(s) + 1] = e
         /\ Front(Append(s, e)) = s /\ Last(Append(s, e)) = e
<1> DEFINE t == Append(s, e)
<1>1. /\ t \in Seq(S) /\ t # <<>> /\ Len(t) = Len(s) + 1 /\ Len(s) \in Nat
      /\ \A i \in 1 .. Len(s) : t[i] = s[i]
      /\ t[Len(s) + 1] = e
  BY AppendProperties, LenProperties
<1>2. /\ Front(t) \in Seq(S) /\ Len(Front(t)) = Len(s) /\ Last(t) = e
      /\ \A i \in 1 .. Len(s) : Front(t)[i] = s[i]
  <2>1. t \in Seq(S) /\ t # <<>>
    BY <1>1
  <2>2. /\ Front(t) \in Seq(S) /\ Last(t) = t[Len(t)] /\ Len(Front(t)) = Len(t) - 1
        /\ \A i \in 1 .. Len(t) - 1 : Front(t)[i] = t[i]
    <3> HIDE DEF t
    <3> QED
      BY <2>1, Popped
  <2>3. Len(t) - 1 = Len(s)
    BY <1>1
  <2> QED
    BY <1>1, <2>2, <2>3
<1>3. Front(t) = s
  BY <1>1, <1>2, SeqEqual
<1> QED
  BY <1>1, <1>2, <1>3

LEMMA PushedMany ==
  ASSUME NEW S, NEW s \in Seq(S), NEW a \in S, NEW b \in S
  PROVE  /\ s \o <<a>> = Append(s, a)
         /\ s \o <<a, b>> = Append(Append(s, a), b)
<1>1. s \o <<a>> = Append(s, a)
  BY AppendIsConcat
<1>2. s \o <<a, b>> = Append(Append(s, a), b)
  <2>1. <<a>> \in Seq(S) /\ <<b>> \in Seq(S)
    OBVIOUS
  <2>4. <<a, b>> = Append(<<a>>, b)
    OBVIOUS
  <2>5. Append(<<a>>, b) = <<a>> \o <<b>>
    BY <2>1, AppendIsConcat
  <2>2. (s \o <<a>>) \o <<b>> = s \o (<<a>> \o <<b>>)
    BY <2>1, ConcatAssociative
  <2>3. Append(Append(s, a), b) = Append(s, a) \o <<b>>
    BY Pushed, AppendIsConcat
  <2> QED
    BY <1>1, <2>1, <2>2, <2>3, <2>4, <2>5
<1> QED
  BY <1>1, <1>2

----------------------------------------------------------------------------
(* The shape of the C stack.                                               *)

Frames ==
  [k : {"user"}, sig : Sigs \cup {0}, asked : SUBSET Sigs]
  \cup [k : {"handle"}, at : 1 .. 5, sigs : SUBSET {"ctrlC", "ctrlD"}, hit : BOOLEAN]
  \cup [k : {"setmask"}, new : SUBSET Sigs, at : -1 .. NSIG]
  \cup [k : {"pause"}, old : SUBSET Sigs, at : {"set", "check", "wait", "restore", "done"}]
  \cup [k : {"signal"}, arg : Catchable \X {"DFL", "IGN", "CATCH"}]
  \cup [k : {"killself"}, arg : Sigs] \cup [k : {"killchild"}, arg : Kids]
  \cup [k : {"abort"}, arg : 0 .. NumFds] \cup [k : {"longjmp"}, arg : SUBSET Sigs]
  \cup [k : {"exit"}, fd : 0 .. NumFds]

IsMain(f) == f.k = "user" /\ f.sig = 0

\* CallerOK, and what the callers of sigsetmask and longjmp have prepared.
Standing(f, c) ==
  /\ CallerOK(f, c)
  /\ f.k = "setmask" /\ c.k = "user" /\ "sigsetmask" \notin HandlerCalls => c.sig = 0
  /\ f.k = "longjmp" /\ "longjmp" \notin HandlerCalls => c.sig = 0
  /\ f.k = "setmask" /\ c.k = "pause" =>
       c.at = "set" \/ (c.at = "done" /\ f.new = c.old)

WellFormed(s) ==
  /\ s \in Seq(Frames)
  /\ s # <<>> => IsMain(s[1])
  /\ \A i \in 2 .. Len(s) : Standing(s[i], s[i - 1])

Shape ==
  /\ WellFormed(stack)
  /\ mask \subseteq Sigs /\ pending \subseteq Sigs \ {SIGKILL}
  /\ handlers \in [Sigs -> {"DFL", "IGN", "CATCH"}]
  /\ \A s \in Sigs : handlers[s] = "CATCH" => s \in Catchable
  /\ bits \subseteq ExecBits
  /\ alarm \in {"idle", "sent", "replied"}
  /\ port \subseteq Kids /\ alive \subseteq Kids /\ unsent \subseteq Kids
  /\ jmp \subseteq SUBSET Sigs
  /\ typed \subseteq {"ctrlC", "ctrlD"}

\* What is known of the running frame and of the stack below it.
LEMMA Unwound ==
  ASSUME NEW s, WellFormed(s), s # <<>>
  PROVE  /\ WellFormed(Front(s)) /\ Last(s) \in Frames /\ s = Append(Front(s), Last(s))
         /\ Front(s) \in Seq(Frames) /\ Len(Front(s)) \in Nat /\ Len(s) = Len(Front(s)) + 1
         /\ Front(s) = <<>> => IsMain(Last(s))
         /\ Front(s) # <<>> => Standing(Last(s), Last(Front(s)))
<1>1. /\ Front(s) \in Seq(Frames) /\ Last(s) \in Frames /\ Last(s) = s[Len(s)]
      /\ Len(s) \in Nat \ {0} /\ Len(Front(s)) = Len(s) - 1
      /\ \A i \in 1 .. Len(s) - 1 : Front(s)[i] = s[i]
      /\ s = Append(Front(s), Last(s))
  BY Popped DEF WellFormed
<1>2. CASE Len(s) = 1
  <2>1. Front(s) = <<>>
    BY <1>1, <1>2, EmptySeq
  <2> QED
    BY <1>1, <1>2, <2>1 DEF WellFormed
<1>3. CASE Len(s) > 1
  <2>1. Front(s) # <<>>
    BY <1>1, <1>3, EmptySeq
  <2>2. Last(Front(s)) = s[Len(s) - 1]
    <3>1. Last(Front(s)) = Front(s)[Len(Front(s))]
      BY DEF Last
    <3>2. Len(s) - 1 \in 1 .. Len(s) - 1
      BY <1>1, <1>3
    <3> QED
      BY <1>1, <3>1, <3>2
  <2>3. \A i \in 2 .. Len(Front(s)) : Front(s)[i] = s[i] /\ Front(s)[i - 1] = s[i - 1]
    BY <1>1
  <2>4. Front(s)[1] = s[1]
    BY <1>1, <1>3
  <2>5. WellFormed(Front(s))
    BY <1>1, <2>3, <2>4 DEF WellFormed
  <2>6. Standing(Last(s), Last(Front(s)))
    BY <1>1, <1>3, <2>2 DEF WellFormed
  <2> QED
    BY <1>1, <2>1, <2>5, <2>6
<1> QED
  BY <1>1, <1>2, <1>3

LEMMA Wound ==
  ASSUME NEW s, WellFormed(s), NEW f \in Frames,
         s = <<>> => IsMain(f), s # <<>> => Standing(f, Last(s))
  PROVE  WellFormed(Append(s, f)) /\ Last(Append(s, f)) = f /\ Front(Append(s, f)) = s
         /\ Append(s, f) # <<>> /\ Append(s, f) \in Seq(Frames)
<1> DEFINE t == Append(s, f)
<1>1. s \in Seq(Frames)
  BY DEF WellFormed
<1>2. /\ t \in Seq(Frames) /\ t # <<>> /\ Len(t) = Len(s) + 1 /\ Len(s) \in Nat
      /\ \A i \in 1 .. Len(s) : t[i] = s[i]
      /\ t[Len(s) + 1] = f /\ Front(t) = s /\ Last(t) = f
  BY <1>1, Pushed
<1>3. CASE s = <<>>
  BY <1>2, <1>3, EmptySeq DEF WellFormed
<1>4. CASE s # <<>>
  <2>1. Len(s) >= 1 /\ Last(s) = s[Len(s)]
    BY <1>1, <1>4, EmptySeq DEF Last
  <2>2. ASSUME NEW i \in 2 .. Len(t) PROVE Standing(t[i], t[i - 1])
    <3>1. CASE i = Len(s) + 1
      BY <1>2, <1>4, <2>1, <3>1
    <3>2. CASE i \in 2 .. Len(s)
      BY <1>2, <3>2 DEF WellFormed
    <3> QED
      BY <1>2, <3>1, <3>2
  <2>3. t[1] = s[1]
    BY <1>2, <2>1
  <2> QED
    BY <1>2, <1>4, <2>2, <2>3 DEF WellFormed
<1> QED
  BY <1>2, <1>3, <1>4

LEMMA SignalsTypes ==
  /\ Sigs \subseteq 0 .. NSIG - 1 /\ NSIG \in Nat /\ 0 \notin Catchable /\ Catchable \subseteq Sigs
  /\ {SIGINT, SIGQUIT, SIGIOT, SIGFPE, SIGALRM, SIGCHLD, SIGKILL} \subseteq Sigs
  /\ Masks \subseteq SUBSET Sigs /\ NumFds \in Nat
BY SignalsAssumption DEF NSIG

\* Every frame the code pushes, with its fields.
LEMMA NewFrames ==
  /\ \A sig \in Sigs \cup {0}, m \in SUBSET Sigs :
       /\ User(sig, m) \in Frames /\ User(sig, m).k = "user"
       /\ User(sig, m).sig = sig /\ User(sig, m).asked = m
  /\ \A at \in 1 .. 5, keys \in SUBSET {"ctrlC", "ctrlD"}, hit \in BOOLEAN :
       /\ Handle(at, keys, hit) \in Frames /\ Handle(at, keys, hit).k = "handle"
       /\ Handle(at, keys, hit).at = at /\ Handle(at, keys, hit).sigs = keys
  /\ \A m \in SUBSET Sigs, at \in -1 .. NSIG :
       /\ SetMask(m, at) \in Frames /\ SetMask(m, at).k = "setmask"
       /\ SetMask(m, at).new = m /\ SetMask(m, at).at = at
  /\ \A m \in SUBSET Sigs, at \in {"set", "check", "wait", "restore", "done"} :
       /\ Pause(m, at) \in Frames /\ Pause(m, at).k = "pause"
       /\ Pause(m, at).old = m /\ Pause(m, at).at = at
  /\ \A fd \in 0 .. NumFds : /\ Exit(fd) \in Frames /\ Exit(fd).k = "exit"
                            /\ Exit(fd).fd = fd
BY DEF User, Handle, SetMask, Pause, Exit, Frames

LEMMA NewCalls ==
  /\ \A s \in Catchable, fn \in {"DFL", "IGN", "CATCH"} :
       Call("signal", <<s, fn>>) \in Frames /\ Call("signal", <<s, fn>>).k = "signal"
  /\ \A s \in Sigs : Call("killself", s) \in Frames /\ Call("killself", s).k = "killself"
  /\ \A c \in Kids : Call("killchild", c) \in Frames /\ Call("killchild", c).k = "killchild"
  /\ \A n \in 0 .. NumFds : Call("abort", n) \in Frames /\ Call("abort", n).k = "abort"
  /\ \A m \in SUBSET Sigs :
       /\ Call("longjmp", m) \in Frames /\ Call("longjmp", m).k = "longjmp"
       /\ Call("longjmp", m).arg = m
BY DEF Call, Frames

\* The fields of a frame of each kind.
LEMMA FrameFields ==
  ASSUME NEW f \in Frames
  PROVE  /\ f.k = "user" => f.sig \in Sigs \cup {0} /\ f.asked \subseteq Sigs
         /\ f.k = "handle" => f.at \in 1 .. 5 /\ f.sigs \subseteq {"ctrlC", "ctrlD"} /\ f.hit \in BOOLEAN
         /\ f.k = "setmask" => f.new \subseteq Sigs /\ f.at \in -1 .. NSIG
         /\ f.k = "pause" => /\ f.old \subseteq Sigs
                            /\ f.at \in {"set", "check", "wait", "restore", "done"}
         /\ f.k = "signal" => f.arg \in Catchable \X {"DFL", "IGN", "CATCH"}
         /\ f.k = "killself" => f.arg \in Sigs
         /\ f.k = "killchild" => f.arg \in Kids
         /\ f.k = "abort" => f.arg \in 0 .. NumFds
         /\ f.k = "longjmp" => f.arg \subseteq Sigs
         /\ f.k = "exit" => f.fd \in 0 .. NumFds
         /\ f.k \in {"user", "handle", "setmask", "pause", "longjmp", "exit"} \cup Calls
BY DEF Frames, Calls

----------------------------------------------------------------------------
(* Shape, action by action.                                                *)

\* Where a poll and where a dispatch may happen.
Polling(c) == c.k \in {"user", "pause", "exit"} \cup Calls \/ (c.k = "setmask" /\ c.at = -1)
Dispatching(c) == c.k \in {"user", "handle", "setmask"}

LEMMA PollFrame ==
  ASSUME NEW rest, WellFormed(rest), rest # <<>>, Polling(Last(rest)), Poll(rest)
  PROVE  /\ WellFormed(stack') /\ stack' = Append(rest, Collected) /\ Collected \in Frames
         /\ Collected.k = "handle" /\ Collected.at = 1
         /\ Collected.sigs = bits \cap {"ctrlC", "ctrlD"} /\ bits' = {}
<1>1. /\ Collected \in Frames /\ Collected.k = "handle" /\ Collected.at = 1
      /\ Collected.sigs = bits \cap {"ctrlC", "ctrlD"}
  <2> DEFINE keys == bits \cap {"ctrlC", "ctrlD"}
  <2>1. keys \in SUBSET {"ctrlC", "ctrlD"} /\ 1 \in 1 .. 5 /\ FALSE \in BOOLEAN
    OBVIOUS
  <2>2. Collected = Handle(1, keys, FALSE)
    BY DEF Collected
  <2> HIDE DEF keys
  <2>3. /\ Collected \in Frames /\ Collected.k = "handle" /\ Collected.at = 1
        /\ Collected.sigs = keys
    BY <2>1, <2>2 DEF Handle, Frames
  <2> QED
    BY <2>3 DEF keys
<1>2. Standing(Collected, Last(rest))
  BY <1>1 DEF Standing, CallerOK, Polling
<1>3. stack' = Append(rest, Collected) /\ bits' = {}
  BY DEF Poll
<1> QED
  BY <1>1, <1>2, <1>3, Wound

\* A dispatch pushes nothing, a handler or the exit of the program.
LEMMA DispatchFrame ==
  ASSUME Shape, NEW s \in Sigs, NEW m \in SUBSET Sigs, NEW rest,
         WellFormed(rest), rest # <<>>, Dispatching(Last(rest)),
         \/ m = mask /\ Dispatch(s, rest)
         \/ s # SIGKILL /\ Deliver(s, m, rest)
  PROVE  /\ WellFormed(stack') /\ mask' \subseteq Sigs /\ pending' \subseteq Sigs \ {SIGKILL}
         /\ \/ stack' = rest /\ mask' = m
            \/ stack' = Append(rest, Exit(0)) /\ mask' = m
            \/ /\ stack' = Append(rest, User(s, m \cup {s})) /\ mask' = m \cup {s}
               /\ s \in Catchable /\ s # SIGKILL
         /\ \/ s = SIGKILL /\ pending' = pending
            \/ s # SIGKILL /\ s \in mask' /\ pending' = pending \cup {s}
            \/ s # SIGKILL /\ pending' = pending \ {s}
<1> USE SignalsTypes
<1>1. WellFormed(Append(rest, Exit(0)))
  <2>1. Exit(0) \in Frames /\ Exit(0).k = "exit" /\ Exit(0).fd = 0 /\ 0 \in 0 .. NumFds
    BY NewFrames
  <2>2. Standing(Exit(0), Last(rest))
    BY <2>1 DEF Standing, CallerOK, Dispatching
  <2> QED
    BY <2>1, <2>2, Wound
<1>4. ASSUME s \in Catchable PROVE WellFormed(Append(rest, User(s, m \cup {s})))
  <2> DEFINE f == User(s, m \cup {s})
  <2>1. m \cup {s} \in SUBSET Sigs
    OBVIOUS
  <2>2. f \in Frames /\ f.k = "user" /\ f.sig = s
    BY <2>1, NewFrames
  <2>3. Standing(f, Last(rest))
    BY <1>4, <2>2 DEF Standing, CallerOK, Dispatching
  <2> QED
    BY <2>2, <2>3, Wound
<1>2. CASE m = mask /\ Dispatch(s, rest) /\ (s = SIGKILL \/ s \in mask)
  BY <1>1, <1>2 DEF Dispatch, Shape
<1>3. CASE s # SIGKILL /\ Deliver(s, m, rest)
  <2>1. handlers[s] = "CATCH" => s \in Catchable
    BY DEF Shape
  <2> QED
    BY <1>1, <1>3, <1>4, <2>1 DEF Deliver, Shape
<1> QED
  BY <1>2, <1>3 DEF Dispatch

\* The running frame, its caller, and what may take its place.
LEMMA RunningFrame ==
  ASSUME Shape, stack # <<>>
  PROVE  /\ WellFormed(Below) /\ Below \in Seq(Frames) /\ Top \in Frames
         /\ stack \in Seq(Frames) /\ WellFormed(stack) /\ stack = Append(Below, Top)
         /\ Len(Below) \in Nat /\ Len(stack) = Len(Below) + 1
         /\ Below = <<>> => IsMain(Top)
         /\ Below # <<>> => Standing(Top, Last(Below))
BY Unwound DEF Shape, Below, Top, WellFormed

\* The steps that poll, by what they put below the poll.
PollActions ==
  \/ CallLibrary \/ CallSignal \/ CallSetMask \/ CallPause \/ CallKill \/ CallLongjmp
  \/ CallAbort \/ PauseCheck \/ PauseWait \/ PauseRestore \/ DoAbort
  \/ DoExit /\ stack' # <<>>
AsksAgain(f) == f.k = "setmask" /\ f.at = -1
PolledCall(f) == f.k \in Calls \/ AsksAgain(f)
NewBelow(rest) ==
  \/ rest = stack /\ Top.k \in {"user", "pause"}
  \/ \E f \in Frames : PolledCall(f) /\ Top.k = "user" /\ rest = Append(stack, f)
  \/ \E f \in Frames : /\ f.k \in Calls \cup {"exit"} /\ Top.k \in {"abort", "exit"}
                       /\ rest = Append(Below, f)
  \/ \E c, f \in Frames : /\ Top.k = "user" /\ AsksAgain(f) /\ rest = Append(Append(stack, c), f)
                          /\ (c.k = "pause" /\ c.old = mask) \/ c.k = "longjmp"
  \/ \E c, f \in Frames : /\ Top.k = "pause" /\ AsksAgain(f) /\ rest = Append(Append(Below, c), f)
                          /\ c.k = "pause" /\ c.old = Top.old

LEMMA PollMoves ==
  ASSUME Shape, PollActions
  PROVE  /\ stack # <<>> /\ UNCHANGED <<mask, pending, handlers, alarm, port, alive, unsent, jmp, typed>>
         /\ \E rest : /\ WellFormed(rest) /\ rest # <<>> /\ Polling(Last(rest))
                     /\ Poll(rest) /\ NewBelow(rest)
<1> USE SignalsTypes
<1>1. stack # <<>> /\ UNCHANGED <<mask, pending, handlers, alarm, port, alive, unsent, jmp, typed>>
  BY DEF PollActions, Running, MayCall, CallLibrary, CallSignal, CallSetMask, CallPause, CallKill,
    CallLongjmp, CallAbort, PauseCheck, PauseWait, PauseRestore, DoAbort, DoExit
<1>2. /\ WellFormed(Below) /\ Below \in Seq(Frames) /\ Top \in Frames
      /\ stack \in Seq(Frames) /\ WellFormed(stack) /\ stack = Append(Below, Top)
      /\ Below = <<>> => IsMain(Top)
      /\ Below # <<>> => Standing(Top, Last(Below))
      /\ mask \in SUBSET Sigs /\ Top = Last(stack)
  BY <1>1, RunningFrame DEF Shape, Top
<1>3. ASSUME NEW f \in Frames, PolledCall(f), Poll(Append(stack, f)), Top.k = "user",
             AsksAgain(f) /\ "sigsetmask" \notin HandlerCalls => Top.sig = 0
      PROVE  \E rest : /\ WellFormed(rest) /\ rest # <<>> /\ Polling(Last(rest))
                     /\ Poll(rest) /\ NewBelow(rest)
  <2>1. Standing(f, Top)
    BY <1>2, <1>3, FrameFields DEF Standing, CallerOK, PolledCall, AsksAgain, Calls
  <2>2. /\ WellFormed(Append(stack, f)) /\ Append(stack, f) # <<>>
        /\ Last(Append(stack, f)) = f
    BY <1>1, <1>2, <2>1, Wound
  <2>3. Polling(f)
    BY <1>3 DEF Polling, PolledCall, AsksAgain
  <2>4. NewBelow(Append(stack, f))
    BY <1>3 DEF NewBelow
  <2> QED
    BY <1>3, <2>2, <2>3, <2>4
<1>4. CASE CallLibrary \/ PauseCheck \/ PauseWait
  <2>1. Top.k \in {"user", "pause"} /\ Poll(stack)
    BY <1>4 DEF CallLibrary, PauseCheck, PauseWait, MayCall, Running
  <2> QED
    BY <1>1, <1>2, <2>1 DEF Polling, NewBelow
<1>5. CASE CallSignal \/ CallKill \/ CallAbort \/ CallSetMask
  <2>1. Top.k = "user"
    BY <1>5 DEF CallSignal, CallKill, CallAbort, CallSetMask, MayCall, Running
  <2>2. PICK f \in Frames : /\ PolledCall(f) /\ Poll(Append(stack, f))
                            /\ AsksAgain(f) => CallSetMask
    <3>1. CASE CallSignal
      BY <3>1, NewCalls, ZenonT(40) DEF CallSignal, PolledCall, Calls, AsksAgain
    <3>2. CASE CallKill
      <4>1. \A s \in Catchable \cup {SIGKILL} : s \in Sigs
        OBVIOUS
      <4>3. ASSUME NEW s \in Catchable \cup {SIGKILL}, Poll(Append(stack, Call("killself", s)))
            PROVE  \E f \in Frames : f.k \in Calls /\ Poll(Append(stack, f))
        BY <4>1, <4>3, NewCalls DEF Calls
      <4>4. ASSUME NEW c \in Kids, Poll(Append(stack, Call("killchild", c)))
            PROVE  \E f \in Frames : f.k \in Calls /\ Poll(Append(stack, f))
        BY <4>4, NewCalls DEF Calls
      <4>2. \E f \in Frames : f.k \in Calls /\ Poll(Append(stack, f))
        BY <3>2, <4>3, <4>4 DEF CallKill
      <4> QED
        BY <4>2 DEF PolledCall, Calls, AsksAgain
    <3>3. CASE CallAbort
      <4>1. 0 \in 0 .. NumFds
        OBVIOUS
      <4> QED
        BY <3>3, <4>1, NewCalls DEF CallAbort, PolledCall, Calls, AsksAgain
    <3>4. CASE CallSetMask
      <4>1. -1 \in -1 .. NSIG
        BY DEF NSIG
      <4> QED
        BY <3>4, <4>1, NewFrames DEF CallSetMask, PolledCall, AsksAgain
    <3> QED
      BY <1>5, <3>1, <3>2, <3>3, <3>4
  <2>3. CallSetMask /\ "sigsetmask" \notin HandlerCalls => Top.sig = 0
    BY DEF CallSetMask, MayCall
  <2> QED
    BY <1>1, <1>3, <2>1, <2>2, <2>3
<1>6. ASSUME NEW s \in {stack, Below}, s # <<>>, WellFormed(s), NEW c \in Frames, NEW f \in Frames,
             Standing(c, Last(s)), AsksAgain(f), c.k \in {"pause", "longjmp"},
             c.k = "pause" => c.at = "set" \/ (c.at = "done" /\ f.new = c.old),
             Poll(s \o <<c, f>>), NewBelow(Append(Append(s, c), f))
      PROVE  \E rest : /\ WellFormed(rest) /\ rest # <<>> /\ Polling(Last(rest))
                     /\ Poll(rest) /\ NewBelow(rest)
  <2>1. s \o <<c, f>> = Append(Append(s, c), f)
    BY <1>2, PushedMany
  <2>2. /\ WellFormed(Append(s, c)) /\ Append(s, c) # <<>> /\ Last(Append(s, c)) = c
    BY <1>6, Wound
  <2>3. Standing(f, c) /\ Polling(f)
    BY <1>6, FrameFields DEF Standing, CallerOK, AsksAgain, Polling
  <2>4. /\ WellFormed(Append(Append(s, c), f)) /\ Append(Append(s, c), f) # <<>>
        /\ Last(Append(Append(s, c), f)) = f
    BY <2>2, <2>3, Wound
  <2> QED
    BY <1>6, <2>1, <2>3, <2>4
<1>7. CASE CallPause
  <2>1. PICK m \in Masks : Poll(stack \o <<Pause(mask, "set"), SetMask(m, -1)>>)
    BY <1>7 DEF CallPause
  <2> DEFINE c == Pause(mask, "set")
             f == SetMask(m, -1)
  <2>2. /\ c \in Frames /\ c.k = "pause" /\ c.old = mask /\ c.at = "set"
        /\ f \in Frames /\ AsksAgain(f)
    <3>1. -1 \in -1 .. NSIG
      BY DEF NSIG
    <3> QED
      BY <1>2, <3>1, NewFrames DEF AsksAgain
  <2>3. Top.k = "user"
    BY <1>7 DEF CallPause, MayCall, Running
  <2> HIDE DEF c, f
  <2>4. Standing(c, Last(stack))
    BY <1>2, <2>2, <2>3 DEF Standing, CallerOK
  <2>5. NewBelow(Append(Append(stack, c), f))
    BY <2>2, <2>3 DEF NewBelow
  <2> QED
    BY <1>1, <1>2, <1>6, <2>1, <2>2, <2>4, <2>5 DEF c, f
<1>8. CASE CallLongjmp
  <2>1. PICK m \in jmp : Poll(stack \o <<Call("longjmp", m), SetMask(m, -1)>>)
    BY <1>8 DEF CallLongjmp
  <2> DEFINE c == Call("longjmp", m)
             f == SetMask(m, -1)
  <2>2. /\ c \in Frames /\ c.k = "longjmp" /\ f \in Frames /\ AsksAgain(f)
    <3>1. -1 \in -1 .. NSIG /\ m \in SUBSET Sigs
      BY DEF NSIG, Shape
    <3> QED
      BY <3>1, NewFrames, NewCalls DEF AsksAgain
  <2>3. Top.k = "user" /\ ("longjmp" \notin HandlerCalls => Top.sig = 0)
    BY <1>8 DEF CallLongjmp, MayCall, Running
  <2> HIDE DEF c, f
  <2>4. Standing(c, Last(stack))
    BY <1>2, <2>2, <2>3 DEF Standing, CallerOK
  <2>5. NewBelow(Append(Append(stack, c), f))
    BY <2>2, <2>3 DEF NewBelow
  <2> QED
    BY <1>1, <1>2, <1>6, <2>1, <2>2, <2>4, <2>5 DEF c, f
<1>9. CASE PauseRestore
  <2> DEFINE c == Pause(Top.old, "done")
             f == SetMask(Top.old, -1)
  <2>1. Top.k = "pause" /\ Top.old \in SUBSET Sigs /\ Below # <<>>
    BY <1>2, <1>9, FrameFields DEF PauseRestore, Running, IsMain
  <2>2. /\ c \in Frames /\ c.k = "pause" /\ c.old = Top.old /\ c.at = "done"
        /\ f \in Frames /\ AsksAgain(f) /\ f.new = c.old
    <3>1. -1 \in -1 .. NSIG
      BY DEF NSIG
    <3> QED
      BY <2>1, <3>1, NewFrames DEF AsksAgain
  <2>3. Standing(c, Last(Below))
    <3> HIDE DEF c
    <3> QED
      BY <1>2, <2>1, <2>2 DEF Standing, CallerOK
  <2>4. NewBelow(Append(Append(Below, c), f))
    <3> HIDE DEF c, f
    <3> QED
      BY <2>1, <2>2 DEF NewBelow
  <2>5. Poll(Below \o <<c, f>>)
    <3>1. bits' = {} /\ stack' = Append(Below, c) \o <<f, Collected>>
      BY <1>9 DEF PauseRestore, Becomes
    <3>2. Collected \in Frames
      BY DEF Collected, Handle, Frames
    <3>3. Append(Below, c) \in Seq(Frames) /\ Below \o <<c, f>> = Append(Append(Below, c), f)
      <4> HIDE DEF c, f
      <4> QED
        BY <1>2, <2>2, Pushed, PushedMany
    <3>4. Append(Below, c) \o <<f, Collected>> = Append(Append(Append(Below, c), f), Collected)
      <4> HIDE DEF c, f
      <4> QED
        BY <2>2, <3>2, <3>3, PushedMany
    <3> QED
      BY <3>1, <3>3, <3>4 DEF Poll
  <2> HIDE DEF c, f
  <2> QED
    BY <1>1, <1>2, <1>6, <2>1, <2>2, <2>3, <2>4, <2>5
<1>10. CASE DoAbort \/ (DoExit /\ stack' # <<>>)
  <2>1. PICK f \in Frames : /\ f.k \in Calls \cup {"exit"} /\ (f.k = "exit" => Top.k = "exit")
                            /\ Top.k \in {"abort", "exit"} /\ Poll(Append(Below, f))
                            /\ Top.k = "exit" => f.k = "exit"
    <3>1. CASE DoAbort
      <4>1. Top.k = "abort" /\ Top.arg \in 0 .. NumFds
        BY <1>2, <3>1, FrameFields DEF DoAbort, Running
      <4>2. CASE Top.arg < NumFds
        <5>1. Top.arg + 1 \in 0 .. NumFds
          BY <4>1, <4>2
        <5> QED
          BY <3>1, <4>1, <4>2, <5>1, NewCalls DEF DoAbort, Becomes, Calls
      <4>3. CASE ~(Top.arg < NumFds)
        BY <3>1, <4>1, <4>3, NewCalls DEF DoAbort, Becomes, Calls
      <4> QED
        BY <4>2, <4>3
    <3>2. CASE DoExit /\ stack' # <<>>
      <4>1. Top.k = "exit" /\ Top.fd \in 0 .. NumFds /\ Top.fd < NumFds
        BY <1>2, <3>2, FrameFields DEF DoExit, Running
      <4>2. Top.fd + 1 \in 0 .. NumFds
        BY <4>1
      <4> QED
        BY <3>2, <4>1, <4>2, NewFrames DEF DoExit, Becomes
    <3> QED
      BY <1>10, <3>1, <3>2
  <2>2. Below # <<>>
    BY <1>2, <2>1 DEF IsMain
  <2>3. Standing(f, Last(Below))
    <3>1. CASE f.k = "exit"
      BY <1>2, <2>1, <2>2, <3>1, FrameFields DEF Standing, CallerOK
    <3>2. CASE f.k \in Calls
      BY <1>2, <2>1, <2>2, <3>2 DEF Standing, CallerOK, Calls
    <3> QED
      BY <2>1, <3>1, <3>2
  <2>4. /\ WellFormed(Append(Below, f)) /\ Append(Below, f) # <<>>
        /\ Last(Append(Below, f)) = f
    BY <1>2, <2>2, <2>3, Wound
  <2> QED
    BY <1>1, <2>1, <2>4 DEF Polling, NewBelow
<1> QED
  BY <1>1, <1>4, <1>5, <1>7, <1>8, <1>9, <1>10 DEF PollActions

\* A source is looked at: its poll goes on to the next one, after the dispatch.
Looked(h, at) ==
  /\ Top.k = "handle" /\ Top.at = at
  /\ h.k = "handle" /\ h.at = at + 1 /\ h.sigs = Left(at)
  /\ WellFormed(Append(Below, h)) /\ Append(Below, h) # <<>> /\ Last(Append(Below, h)) = h

LEMMA SourceMoves ==
  ASSUME Shape, NEW at \in 1 .. 4, NEW hit, NEW s \in Sigs, Source(at, hit, s)
  PROVE  /\ stack # <<>>
         /\ \E h \in Frames :
              /\ Looked(h, at)
              /\ \/ hit /\ Dispatch(s, Append(Below, h))
                 \/ ~hit /\ stack' = Append(Below, h) /\ UNCHANGED <<mask, pending>>
<1>1. stack # <<>> /\ Top.k = "handle" /\ Top.at = at
  BY DEF Source, Running
<1>2. /\ WellFormed(Below) /\ Top \in Frames /\ Below # <<>> /\ Standing(Top, Last(Below))
  BY <1>1, RunningFrame DEF IsMain
<1>3. ASSUME NEW h \in Frames, h.k = "handle", h.at = at + 1, h.sigs = Left(at)
      PROVE  Looked(h, at)
  <2>1. Standing(h, Last(Below))
    BY <1>1, <1>2, <1>3, FrameFields DEF Standing, CallerOK, Left
  <2> QED
    BY <1>1, <1>2, <1>3, <2>1, Wound DEF Looked
<1>4. ASSUME NEW b \in BOOLEAN
      PROVE  /\ Handle(at + 1, Left(at), b) \in Frames
             /\ Looked(Handle(at + 1, Left(at), b), at)
  <2>1. at + 1 \in 1 .. 5 /\ Left(at) \in SUBSET {"ctrlC", "ctrlD"}
    BY <1>1, <1>2, FrameFields DEF Left
  <2>2. /\ Handle(at + 1, Left(at), b) \in Frames /\ Handle(at + 1, Left(at), b).k = "handle"
        /\ Handle(at + 1, Left(at), b).at = at + 1 /\ Handle(at + 1, Left(at), b).sigs = Left(at)
    BY <2>1 DEF Handle, Frames
  <2> QED
    BY <1>3, <2>2
<1>5. Top.hit \in BOOLEAN
  BY <1>1, <1>2, FrameFields
<1>6. \/ hit /\ Dispatch(s, Append(Below, Handle(at + 1, Left(at), TRUE)))
      \/ /\ ~hit /\ stack' = Append(Below, Handle(at + 1, Left(at), Top.hit))
         /\ UNCHANGED <<mask, pending>>
  BY DEF Source, Becomes
<1> QED
  BY <1>1, <1>4, <1>5, <1>6

\* The loop of sigsetmask dispatches the next released signal in turn.
LEMMA SetMaskMoves ==
  ASSUME Shape, SetMaskLoop
  PROVE  /\ stack # <<>> /\ Top.k = "setmask" /\ Top.at \in 0 .. NSIG
         /\ \E s \in pending \ mask, f \in Frames :
              /\ s >= Top.at /\ \A x \in pending \ mask : x >= Top.at => s <= x
              /\ f.k = "setmask" /\ f.new = Top.new /\ f.at = s + 1
              /\ WellFormed(Append(Below, f)) /\ Append(Below, f) # <<>>
              /\ Last(Append(Below, f)) = f /\ Dispatch(s, Append(Below, f))
<1> USE SignalsTypes
<1>1. stack # <<>> /\ Top.k = "setmask" /\ Top.at >= 0 /\ Unheld(Top.at) # {}
  BY DEF SetMaskLoop, Running
<1>2. /\ WellFormed(Below) /\ Top \in Frames /\ Below # <<>> /\ Standing(Top, Last(Below))
  BY <1>1, RunningFrame DEF IsMain
<1>3. Top.at \in 0 .. NSIG /\ Top.new \subseteq Sigs
  BY <1>1, <1>2, FrameFields
<1> DEFINE s == CHOOSE x \in Unheld(Top.at) : \A y \in Unheld(Top.at) : x <= y
           f == SetMask(Top.new, s + 1)
<1>4. Unheld(Top.at) \in SUBSET Nat /\ pending \subseteq Sigs /\ \A x \in Sigs : x \in Nat /\ x < NSIG
  <2>1. \A x \in Sigs : x \in Nat /\ x < NSIG
    OBVIOUS
  <2>2. Unheld(Top.at) \subseteq Sigs /\ pending \subseteq Sigs
    BY DEF Unheld, Shape
  <2> QED
    BY <2>1, <2>2
<1>5. s \in Unheld(Top.at) /\ \A y \in Unheld(Top.at) : s <= y
  BY <1>1, <1>4, Minimum
<1>6. s \in pending \ mask /\ s >= Top.at /\ s \in Sigs /\ s + 1 \in 0 .. NSIG
  <2>1. s \in pending \ mask /\ s >= Top.at
    BY <1>5 DEF Unheld
  <2> HIDE DEF s
  <2>2. s \in Nat /\ s < NSIG /\ s \in Sigs
    BY <1>4, <2>1
  <2> QED
    BY <2>1, <2>2
<1>7. \A x \in pending \ mask : x >= Top.at => s <= x
  BY <1>5 DEF Unheld
<1>8. Dispatch(s, Append(Below, f))
  BY DEF SetMaskLoop, Becomes
<1> HIDE DEF s
<1>9. f \in Frames /\ f.k = "setmask" /\ f.new = Top.new /\ f.at = s + 1
  BY <1>3, <1>6 DEF SetMask, Frames
<1> HIDE DEF f
<1>10. Standing(f, Last(Below))
  BY <1>1, <1>2, <1>6, <1>9, FrameFields DEF Standing, CallerOK
<1> QED
  BY <1>1, <1>2, <1>3, <1>6, <1>7, <1>8, <1>9, <1>10, Wound

\* _handle_signals returns to c, which goes on as f or is left as it was.
LEMMA HandleMoves ==
  ASSUME Shape, HandleReturns
  PROVE  /\ stack # <<>> /\ Top.k = "handle" /\ Top.at = 5 /\ Below # <<>>
         /\ WellFormed(stack') /\ mask' \subseteq Sigs
         /\ LET c == Last(Below) IN
              \/ /\ c.k \notin {"pause", "setmask"} /\ stack' = Below /\ mask' = mask
              \/ \E f \in Frames :
                   /\ stack' = Append(Front(Below), f) /\ c.k = f.k
                   /\ \/ f.k = "pause" /\ f.old = c.old /\ mask' = mask
                      \/ f.k = "setmask" /\ f.new = c.new /\ f.at = 0 /\ mask' = f.new
<1> USE SignalsTypes
<1>1. stack # <<>> /\ Top.k = "handle" /\ Top.at = 5
  BY DEF HandleReturns, Running
<1>2. /\ WellFormed(Below) /\ Top \in Frames /\ Below # <<>> /\ Standing(Top, Last(Below))
  BY <1>1, RunningFrame DEF IsMain
<1> DEFINE c == Last(Below)
<1>3. /\ c \in Frames /\ WellFormed(Front(Below))
      /\ Front(Below) = <<>> => IsMain(c)
      /\ Front(Below) # <<>> => Standing(c, Last(Front(Below)))
  BY <1>2, Unwound
<1>4. ASSUME NEW f \in Frames, c.k = f.k,
             \/ f.k = "pause" /\ f.old = c.old
             \/ f.k = "setmask" /\ f.new = c.new /\ f.at = 0
      PROVE  WellFormed(Append(Front(Below), f))
  <2>1. Front(Below) # <<>> /\ Standing(c, Last(Front(Below)))
    BY <1>3, <1>4 DEF IsMain
  <2>2. Standing(f, Last(Front(Below)))
    BY <1>4, <2>1 DEF Standing, CallerOK, NSIG
  <2> QED
    BY <1>3, <2>1, <2>2, Wound
<1>5. CASE c.k = "pause"
  <2>1. PICK at \in {"restore", "wait"} : stack' = Append(Front(Below), Pause(c.old, at))
    BY <1>5 DEF HandleReturns
  <2>2. mask' = mask /\ mask \subseteq Sigs /\ c.old \in SUBSET Sigs
    BY <1>3, <1>5, FrameFields DEF HandleReturns, Shape
  <2>3. /\ Pause(c.old, at) \in Frames /\ Pause(c.old, at).k = "pause"
        /\ Pause(c.old, at).old = c.old
    BY <2>2, NewFrames
  <2> QED
    BY <1>1, <1>2, <1>4, <1>5, <2>1, <2>2, <2>3
<1>6. CASE c.k = "setmask"
  <2>1. stack' = Append(Front(Below), SetMask(c.new, 0)) /\ mask' = c.new /\ c.new \in SUBSET Sigs
    BY <1>3, <1>6, FrameFields DEF HandleReturns
  <2>2. /\ SetMask(c.new, 0) \in Frames /\ SetMask(c.new, 0).k = "setmask"
        /\ SetMask(c.new, 0).new = c.new /\ SetMask(c.new, 0).at = 0
    BY <2>1, NewFrames
  <2> QED
    BY <1>1, <1>2, <1>4, <1>6, <2>1, <2>2
<1>7. CASE c.k \notin {"pause", "setmask"}
  BY <1>1, <1>2, <1>7 DEF HandleReturns, Shape
<1> QED
  BY <1>5, <1>6, <1>7

\* sigsetmask returns to c: the code that called it, or sigpause or longjmp.
LEMMA SetMaskReturnMoves ==
  ASSUME Shape, SetMaskReturns
  PROVE  /\ stack # <<>> /\ Top.k = "setmask" /\ Top.at \in 0 .. NSIG /\ Below # <<>>
         /\ WellFormed(stack') /\ Unheld(Top.at) = {}
         /\ Standing(Top, Last(Below))
         /\ LET c == Last(Below) IN
              \/ c.k = "pause" /\ c.at = "done" /\ stack' = Front(Below)
              \/ \E f \in Frames :
                   \/ /\ c.k = "pause" /\ stack' = Append(Front(Below), f)
                      /\ f.k = "pause" /\ f.old = c.old
                   \/ /\ c.k = "user" /\ stack' = Append(Front(Below), f)
                      /\ f.k = "user" /\ f.sig = c.sig /\ f.asked = Top.new
                   \/ /\ c.k = "longjmp" /\ stack' = Append(<<>>, f)
                      /\ IsMain(f) /\ f.asked = Top.new
<1> USE SignalsTypes
<1>1. stack # <<>> /\ Top.k = "setmask" /\ Top.at >= 0 /\ Unheld(Top.at) = {}
  BY DEF SetMaskReturns, Running
<1>2. /\ WellFormed(Below) /\ Top \in Frames /\ Below # <<>> /\ Standing(Top, Last(Below))
  BY <1>1, RunningFrame DEF IsMain
<1>3. Top.at \in 0 .. NSIG /\ Top.new \in SUBSET Sigs
  BY <1>1, <1>2, FrameFields
<1> DEFINE c == Last(Below)
<1>4. /\ c \in Frames /\ WellFormed(Front(Below))
      /\ Front(Below) = <<>> => IsMain(c)
      /\ Front(Below) # <<>> => Standing(c, Last(Front(Below)))
  BY <1>2, Unwound
<1>5. c.k \in {"user", "pause", "longjmp"}
  BY <1>1, <1>2 DEF Standing, CallerOK
<1>6. CASE c.k = "pause"
  <2>1. c.at \in {"set", "done"} /\ Front(Below) # <<>> /\ c.old \in SUBSET Sigs
    BY <1>1, <1>2, <1>4, <1>6, FrameFields DEF Standing, IsMain
  <2>2. CASE c.at = "done"
    BY <1>1, <1>2, <1>3, <1>4, <1>6, <2>2 DEF SetMaskReturns
  <2>3. CASE c.at = "set"
    <3> DEFINE f == Pause(c.old, "check")
    <3>1. f \in Frames /\ f.k = "pause" /\ f.old = c.old
      BY <2>1, NewFrames
    <3>2. stack' = Append(Front(Below), f)
      BY <1>6, <2>3 DEF SetMaskReturns
    <3> HIDE DEF f
    <3>3. Standing(f, Last(Front(Below)))
      BY <1>4, <1>6, <2>1, <3>1 DEF Standing, CallerOK
    <3> QED
      BY <1>1, <1>2, <1>3, <1>4, <1>6, <2>1, <3>1, <3>2, <3>3, Wound
  <2> QED
    BY <2>1, <2>2, <2>3
<1>7. CASE c.k = "user"
  <2> DEFINE f == User(c.sig, Top.new)
  <2>1. f \in Frames /\ f.k = "user" /\ f.sig = c.sig /\ f.asked = Top.new
    <3>1. c.sig \in Sigs \cup {0}
      BY <1>4, <1>7, FrameFields
    <3> QED
      BY <1>3, <3>1 DEF User, Frames
  <2>2. stack' = Append(Front(Below), f)
    BY <1>7 DEF SetMaskReturns
  <2> HIDE DEF f
  <2>3. /\ Front(Below) = <<>> => IsMain(f)
        /\ Front(Below) # <<>> => Standing(f, Last(Front(Below)))
    BY <1>4, <1>7, <2>1 DEF Standing, CallerOK, IsMain
  <2> QED
    BY <1>1, <1>2, <1>3, <1>4, <1>7, <2>1, <2>2, <2>3, Wound
<1>8. CASE c.k = "longjmp"
  <2> DEFINE f == User(0, Top.new)
  <2>1. f \in Frames /\ f.k = "user" /\ f.sig = 0 /\ f.asked = Top.new
    BY <1>3, NewFrames
  <2>2. stack' = <<f>>
    BY <1>8 DEF SetMaskReturns
  <2> HIDE DEF f
  <2>3. <<f>> = Append(<<>>, f) /\ WellFormed(<<>>)
    BY EmptySeq DEF WellFormed
  <2> QED
    BY <1>1, <1>2, <1>3, <1>8, <2>1, <2>2, <2>3, Wound DEF IsMain
<1> QED
  BY <1>5, <1>6, <1>7, <1>8

\* A call that has polled is done: it returns, or dispatches, to its caller.
LEMMA CallDone ==
  ASSUME Shape, stack # <<>>, Top.k \in Calls
  PROVE  WellFormed(Below) /\ Below # <<>> /\ Last(Below).k = "user" /\ Dispatching(Last(Below))
<1>1. Below # <<>>
  BY RunningFrame DEF IsMain, Calls
<1> QED
  BY <1>1, RunningFrame DEF Standing, CallerOK, Calls, Dispatching

\* A handler returns to the stack that was there when it was called.
LEMMA HandlerDone ==
  ASSUME Shape, HandlerReturns
  PROVE  /\ stack # <<>> /\ Top.k = "user" /\ Top.sig \in Catchable
         /\ WellFormed(Below) /\ Below # <<>> /\ Dispatching(Last(Below))
         /\ \/ /\ Top.sig \in pending /\ Top.sig # SIGKILL
               /\ Deliver(Top.sig, mask \ {Top.sig}, Below)
            \/ /\ Top.sig \notin pending /\ UNCHANGED pending
               /\ mask' = mask \ {Top.sig} /\ stack' = Below
<1>1. stack # <<>> /\ Top.k = "user" /\ Top.sig # 0
  BY DEF HandlerReturns, Running
<1>2. WellFormed(Below) /\ Below # <<>> /\ Standing(Top, Last(Below))
  BY <1>1, RunningFrame DEF IsMain
<1>3. Top.sig \in Catchable /\ Dispatching(Last(Below))
  BY <1>1, <1>2 DEF Standing, CallerOK, Dispatching
<1>4. Top.sig \in pending => Top.sig # SIGKILL
  BY DEF Shape
<1> QED
  BY <1>1, <1>2, <1>3, <1>4 DEF HandlerReturns

\* The rest of Shape: what does not concern the stack.
DataOK ==
  /\ handlers \in [Sigs -> {"DFL", "IGN", "CATCH"}]
  /\ \A s \in Sigs : handlers[s] = "CATCH" => s \in Catchable
  /\ bits \subseteq ExecBits /\ alarm \in {"idle", "sent", "replied"}
  /\ port \subseteq Kids /\ alive \subseteq Kids /\ unsent \subseteq Kids
  /\ jmp \subseteq SUBSET Sigs /\ typed \subseteq {"ctrlC", "ctrlD"}

LEMMA DataStep == ASSUME Shape, [Next]_vars PROVE DataOK'
<1>1. CASE DoSignal
  <2>1. Top.arg \in Catchable \X {"DFL", "IGN", "CATCH"}
    BY <1>1, RunningFrame, FrameFields DEF DoSignal, Running
  <2> QED
    BY <1>1, <2>1 DEF DoSignal, DataOK, Shape
<1>2. CASE PollActions
  BY <1>2, PollMoves DEF Poll, DataOK, Shape
<1>3. CASE CheckAlarm \/ CheckSigint \/ CheckSigquit \/ CheckChildren
  BY <1>3 DEF CheckAlarm, CheckSigint, CheckSigquit, CheckChildren, DataOK, Shape
<1>4. CASE HandleReturns \/ SetMaskLoop \/ SetMaskReturns \/ DoKillSelf \/ HandlerReturns
           \/ CallExit \/ FloatingTrap
  BY <1>4 DEF HandleReturns, SetMaskLoop, SetMaskReturns, DoKillSelf, HandlerReturns, CallExit,
    FloatingTrap, DataOK, Shape
<1>5. CASE DoKillChild
  BY <1>5 DEF DoKillChild, DataOK, Shape, ExecBits
<1>6. CASE DoExit /\ stack' = <<>>
  BY <1>6, PollMoves DEF DoExit, DataOK, Shape, Poll
<1>7. CASE CallAlarm \/ CallSetjmp
  BY <1>7 DEF CallAlarm, CallSetjmp, DataOK, Shape
<1>8. CASE TypeBreak
  BY <1>8, SignalsAssumption DEF TypeBreak, DataOK, Shape, ExecBits
<1>9. CASE TimerReplies \/ ChildExits
  BY <1>9 DEF TimerReplies, ChildExits, DataOK, Shape, ExecBits
<1>10. CASE UNCHANGED vars
  BY <1>10 DEF vars, DataOK, Shape
<1> QED
  BY <1>1, <1>2, <1>3, <1>4, <1>5, <1>6, <1>7, <1>8, <1>9, <1>10
  DEF Next, LibraryStep, UserStep, Environment, Terminated, PollActions

LEMMA StackStep ==
  ASSUME Shape, [Next]_vars
  PROVE  WellFormed(stack') /\ mask' \subseteq Sigs /\ pending' \subseteq Sigs \ {SIGKILL}
<1> USE SignalsTypes
<1>1. WellFormed(stack) /\ mask \in SUBSET Sigs /\ pending \subseteq Sigs \ {SIGKILL}
  BY DEF Shape
<1>2. CASE PollActions
  BY <1>1, <1>2, PollMoves, PollFrame
<1>3. ASSUME NEW s \in Sigs, NEW at \in 1 .. 4, NEW hit, Source(at, hit, s)
      PROVE  WellFormed(stack') /\ mask' \subseteq Sigs /\ pending' \subseteq Sigs \ {SIGKILL}
  <2>1. PICK h \in Frames :
          /\ Looked(h, at)
          /\ \/ hit /\ Dispatch(s, Append(Below, h))
             \/ ~hit /\ stack' = Append(Below, h) /\ UNCHANGED <<mask, pending>>
    BY <1>3, SourceMoves
  <2>2. /\ WellFormed(Append(Below, h)) /\ Append(Below, h) # <<>>
        /\ Dispatching(Last(Append(Below, h)))
    BY <2>1 DEF Looked, Dispatching
  <2> QED
    BY <1>1, <2>1, <2>2, DispatchFrame
<1>4. CASE CheckAlarm \/ CheckSigint \/ CheckSigquit \/ CheckChildren
  <2>1. {SIGALRM, SIGINT, SIGQUIT, SIGCHLD} \subseteq Sigs /\ {1, 2, 3, 4} \subseteq 1 .. 4
    OBVIOUS
  <2> QED
    BY <1>3, <1>4, <2>1 DEF CheckAlarm, CheckSigint, CheckSigquit, CheckChildren
<1>5. CASE HandleReturns
  BY <1>1, <1>5, HandleMoves DEF HandleReturns
<1>6. CASE SetMaskLoop
  <2>1. PICK s \in pending \ mask, f \in Frames :
          /\ f.k = "setmask" /\ WellFormed(Append(Below, f)) /\ Append(Below, f) # <<>>
          /\ Last(Append(Below, f)) = f /\ Dispatch(s, Append(Below, f))
    BY <1>6, SetMaskMoves
  <2>2. s \in Sigs /\ Dispatching(Last(Append(Below, f)))
    BY <1>1, <2>1 DEF Dispatching
  <2> QED
    BY <1>1, <2>1, <2>2, DispatchFrame
<1>7. CASE SetMaskReturns
  BY <1>1, <1>7, SetMaskReturnMoves DEF SetMaskReturns
<1>8. CASE DoSignal
  BY <1>1, <1>8, CallDone DEF DoSignal, Running, Calls
<1>9. CASE DoKillSelf \/ DoKillChild
  <2>1. stack # <<>> /\ Top.k \in Calls
    BY <1>9 DEF DoKillSelf, DoKillChild, Running, Calls
  <2>2. CASE stack' = Below /\ UNCHANGED <<mask, pending>>
    BY <1>1, <2>1, <2>2, CallDone
  <2>3. ASSUME NEW s \in Sigs, Dispatch(s, Below)
        PROVE  WellFormed(stack') /\ mask' \subseteq Sigs /\ pending' \subseteq Sigs \ {SIGKILL}
    BY <1>1, <2>1, <2>3, CallDone, DispatchFrame
  <2>4. Top.k = "killself" => Top.arg \in Sigs
    BY <2>1, RunningFrame, FrameFields
  <2> QED
    BY <1>9, <2>2, <2>3, <2>4 DEF DoKillSelf, DoKillChild, Running
<1>10. CASE HandlerReturns
  <2>1. mask \ {Top.sig} \in SUBSET Sigs
    BY <1>1
  <2> QED
    BY <1>1, <1>10, <2>1, HandlerDone, DispatchFrame
<1>11. CASE FloatingTrap
  <2>1. stack # <<>> /\ Dispatching(Last(stack)) /\ SIGFPE \in Sigs
    BY <1>11 DEF FloatingTrap, MayCall, Running, Dispatching, Top
  <2> QED
    BY <1>1, <1>11, <2>1, DispatchFrame DEF FloatingTrap
<1>12. CASE CallExit
  <2>1. stack # <<>> /\ Last(stack).k = "user" /\ UNCHANGED <<mask, pending>>
    BY <1>12 DEF CallExit, MayCall, Running, Top
  <2>2. Exit(0) \in Frames /\ Exit(0).k = "exit" /\ Exit(0).fd = 0 /\ 0 \in 0 .. NumFds
    BY NewFrames
  <2>3. Standing(Exit(0), Last(stack))
    BY <2>1, <2>2 DEF Standing, CallerOK
  <2> QED
    BY <1>1, <1>12, <2>1, <2>2, <2>3, Wound DEF CallExit
<1>13. CASE DoExit /\ stack' = <<>>
  <2>1. WellFormed(<<>>)
    BY EmptySeq DEF WellFormed
  <2> QED
    BY <1>1, <1>13, <2>1 DEF DoExit
<1>14. CASE CallAlarm \/ CallSetjmp \/ TypeBreak \/ TimerReplies \/ ChildExits \/ UNCHANGED vars
  BY <1>1, <1>14 DEF CallAlarm, CallSetjmp, TypeBreak, TimerReplies, ChildExits, vars
<1> QED
  BY <1>2, <1>4, <1>5, <1>6, <1>7, <1>8, <1>9, <1>10, <1>11, <1>12, <1>13, <1>14
  DEF Next, LibraryStep, UserStep, Environment, Terminated, PollActions

LEMMA ShapeStep == Shape /\ [Next]_vars => Shape'
BY StackStep, DataStep DEF Shape, DataOK

LEMMA ShapeInit == Init => Shape
<1> SUFFICES ASSUME Init PROVE Shape
  OBVIOUS
<1>1. User(0, {}) \in Frames /\ IsMain(User(0, {})) /\ stack = Append(<<>>, User(0, {}))
  BY DEF User, Frames, IsMain, Init
<1>2. WellFormed(<<>>)
  BY EmptySeq DEF WellFormed
<1>3. WellFormed(stack)
  BY <1>1, <1>2, Wound
<1> QED
  BY <1>3 DEF Init, Shape

LEMMA ShapeAlways == Spec => []Shape
BY ShapeInit, ShapeStep, PTL DEF Spec

\* The state is well-formed and every frame of the C stack stands on one that
\* can have called it, or that it can have interrupted, at any depth of calls
\* and handlers.
THEOREM TypeCorrect == Spec => []TypeOK
<1>1. Shape => TypeOK
  BY DEF Shape, WellFormed, Standing, IsMain, TypeOK
<1> QED
  BY <1>1, ShapeAlways, PTL

----------------------------------------------------------------------------
(* No released signal is left behind.                                      *)

\* The running loop of sigsetmask, the last one on the stack, reaches x.
IsLoop(f) == f.k = "setmask" /\ f.at >= 0
Reaches(s, x) ==
  \E i \in 1 .. Len(s) : /\ IsLoop(s[i]) /\ s[i].at <= x
                        /\ \A j \in i + 1 .. Len(s) : ~IsLoop(s[j])

Released == stack # <<>> => \A x \in pending \ mask : Reaches(stack, x)

LEMMA ReachesPushed ==
  ASSUME NEW s \in Seq(Frames), NEW f \in Frames, NEW x
  PROVE  Reaches(Append(s, f), x) <=> IF IsLoop(f) THEN f.at <= x ELSE Reaches(s, x)
<1> DEFINE t == Append(s, f)
<1>1. /\ Len(t) = Len(s) + 1 /\ Len(s) \in Nat /\ t[Len(s) + 1] = f
      /\ \A i \in 1 .. Len(s) : t[i] = s[i]
  BY Pushed
<1> HIDE DEF t
<1>2. CASE IsLoop(f)
  <2>1. ASSUME NEW i \in 1 .. Len(t), \A j \in i + 1 .. Len(t) : ~IsLoop(t[j])
        PROVE  i = Len(s) + 1
    BY <1>1, <1>2, <2>1
  <2> QED
    BY <1>1, <1>2, <2>1 DEF Reaches, t
<1>3. CASE ~IsLoop(f)
  <2>1. ASSUME NEW i \in 1 .. Len(t), IsLoop(t[i]) PROVE i \in 1 .. Len(s)
    BY <1>1, <1>3, <2>1
  <2>2. ASSUME NEW i \in 1 .. Len(s)
        PROVE  (\A j \in i + 1 .. Len(t) : ~IsLoop(t[j])) <=> \A j \in i + 1 .. Len(s) : ~IsLoop(s[j])
    BY <1>1, <1>3
  <2>3. Reaches(t, x) <=> Reaches(s, x)
    BY <1>1, <2>1, <2>2 DEF Reaches
  <2> QED
    BY <1>3, <2>3 DEF t
<1> QED
  BY <1>2, <1>3

\* Frames of which the loops of sigsetmask and the polls know nothing.
Inert(f) == f.k \notin {"handle", "setmask"} \/ AsksAgain(f)

\* What a call leaves below its poll.
InertBelow(rest) ==
  \/ rest = stack
  \/ \E f \in Frames : Inert(f) /\ rest = Append(stack, f)
  \/ \E c, f \in Frames : Inert(c) /\ Inert(f) /\ rest = Append(Append(stack, c), f)
  \/ \E f \in Frames : Inert(Top) /\ Inert(f) /\ rest = Append(Below, f)
  \/ \E c, f \in Frames : Inert(Top) /\ Inert(c) /\ Inert(f) /\ rest = Append(Append(Below, c), f)

LEMMA PollOnInert ==
  ASSUME Shape, PollActions
  PROVE  \E rest \in Seq(Frames) :
           /\ rest # <<>> /\ Collected \in Frames /\ Collected.k = "handle" /\ Collected.at = 1
           /\ Collected.sigs = bits \cap {"ctrlC", "ctrlD"} /\ bits' = {}
           /\ stack' = Append(rest, Collected)
           /\ InertBelow(rest)
<1>1. PICK rest : /\ WellFormed(rest) /\ rest # <<>> /\ Polling(Last(rest))
                  /\ Poll(rest) /\ NewBelow(rest)
  BY PollMoves
<1>2. /\ stack' = Append(rest, Collected) /\ rest \in Seq(Frames) /\ Collected \in Frames
      /\ Collected.k = "handle" /\ Collected.at = 1
      /\ Collected.sigs = bits \cap {"ctrlC", "ctrlD"} /\ bits' = {}
  BY <1>1, PollFrame DEF WellFormed
<1>4. \A f : PolledCall(f) => Inert(f)
  BY DEF PolledCall, Inert, AsksAgain, Calls
<1>6. InertBelow(rest)
  <2>1. ASSUME NEW f \in Frames, PolledCall(f), rest = Append(stack, f) PROVE InertBelow(rest)
    BY <1>4, <2>1 DEF InertBelow
  <2>2. ASSUME NEW f \in Frames, f.k \in Calls \cup {"exit"}, Top.k \in {"abort", "exit"},
               rest = Append(Below, f)
        PROVE  InertBelow(rest)
    <3>1. Inert(f) /\ Inert(Top)
      BY <2>2 DEF Inert, Calls
    <3> QED
      BY <2>2, <3>1 DEF InertBelow
  <2>3. ASSUME NEW c \in Frames, NEW f \in Frames, c.k = "pause" \/ c.k = "longjmp",
               AsksAgain(f), rest = Append(Append(stack, c), f)
        PROVE  InertBelow(rest)
    <3>1. Inert(f) /\ Inert(c)
      BY <2>3 DEF Inert
    <3> QED
      BY <2>3, <3>1 DEF InertBelow
  <2>4. ASSUME NEW c \in Frames, NEW f \in Frames, c.k = "pause", Top.k = "pause",
               AsksAgain(f), rest = Append(Append(Below, c), f)
        PROVE  InertBelow(rest)
    <3>1. Inert(f) /\ Inert(c) /\ Inert(Top)
      BY <2>4 DEF Inert
    <3> QED
      BY <2>4, <3>1 DEF InertBelow
  <2>5. CASE rest = stack
    BY <2>5 DEF InertBelow
  <2>6. CASE \E c, f \in Frames :
               /\ Top.k = "user" /\ AsksAgain(f) /\ rest = Append(Append(stack, c), f)
               /\ (c.k = "pause" /\ c.old = mask) \/ c.k = "longjmp"
    BY <2>3, <2>6
  <2>7. CASE \E c, f \in Frames :
               /\ Top.k = "pause" /\ AsksAgain(f) /\ rest = Append(Append(Below, c), f)
               /\ c.k = "pause" /\ c.old = Top.old
    BY <2>4, <2>7
  <2>8. NewBelow(rest)
    BY <1>1
  <2> QED
    BY <2>1, <2>2, <2>5, <2>6, <2>7, <2>8 DEF NewBelow
<1> QED
  BY <1>1, <1>2, <1>6

\* rest, or an inert frame on rest.
Onto(rest) == stack' = rest \/ \E f \in Frames : Inert(f) /\ stack' = Append(rest, f)

\* What a dispatch leaves on the stack is inert, and masks what it holds back.
LEMMA DispatchInert ==
  ASSUME Shape, NEW s \in Sigs, NEW m \in SUBSET Sigs, NEW rest,
         WellFormed(rest), rest # <<>>, Dispatching(Last(rest)),
         \/ m = mask /\ Dispatch(s, rest)
         \/ s # SIGKILL /\ Deliver(s, m, rest)
  PROVE  /\ rest \in Seq(Frames) /\ Onto(rest)
         /\ pending' \ mask' \subseteq pending \ m
         /\ s # SIGKILL => s \notin pending' \ mask'
<1>1. Exit(0) \in Frames /\ Exit(0).k = "exit"
  <2>1. 0 \in 0 .. NumFds
    BY SignalsTypes
  <2> QED
    BY <2>1, NewFrames
<1>2. User(s, m \cup {s}) \in Frames /\ User(s, m \cup {s}).k = "user"
  BY DEF User, Frames
<1>3. /\ \/ stack' = rest /\ mask' = m
         \/ stack' = Append(rest, Exit(0)) /\ mask' = m
         \/ stack' = Append(rest, User(s, m \cup {s})) /\ mask' = m \cup {s}
      /\ \/ s = SIGKILL /\ pending' = pending
         \/ s # SIGKILL /\ s \in mask' /\ pending' = pending \cup {s}
         \/ s # SIGKILL /\ pending' = pending \ {s}
  BY DispatchFrame
<1>4. rest \in Seq(Frames)
  BY DEF WellFormed
<1>5. Onto(rest)
  <2>1. Inert(Exit(0)) /\ Inert(User(s, m \cup {s}))
    BY <1>1, <1>2 DEF Inert
  <2> QED
    BY <1>1, <1>2, <1>3, <2>1 DEF Onto
<1> QED
  BY <1>3, <1>4, <1>5

LEMMA ReleasedStep == Shape /\ Released /\ [Next]_vars => Released'
<1> SUFFICES ASSUME Shape, Released, [Next]_vars PROVE Released'
  OBVIOUS
<1> USE SignalsTypes
<1>1. pending \subseteq Sigs \ {SIGKILL} /\ mask \in SUBSET Sigs /\ stack \in Seq(Frames) /\ WellFormed(stack)
      /\ \A x \in Sigs : x \in Nat
  <2>1. pending \subseteq Sigs \ {SIGKILL} /\ mask \subseteq Sigs /\ WellFormed(stack)
    BY DEF Shape
  <2>2. stack \in Seq(Frames)
    BY <2>1 DEF WellFormed
  <2> QED
    BY <2>1, <2>2
<1>2. \A f \in Frames : Inert(f) \/ f.k = "handle" => ~IsLoop(f)
  BY FrameFields DEF Inert, AsksAgain, IsLoop
<1>3. ASSUME stack # <<>>
      PROVE  /\ Top \in Frames /\ Below \in Seq(Frames) /\ stack = Append(Below, Top)
             /\ \A x : Reaches(stack, x) <=> IF IsLoop(Top) THEN Top.at <= x ELSE Reaches(Below, x)
  BY <1>3, RunningFrame, ReachesPushed, ZenonT(40)
\* Frames that are not loops come and go.
<1>4. ASSUME stack # <<>>, pending' \ mask' \subseteq pending \ mask,
             \A x : Reaches(stack, x) => Reaches(stack', x)
      PROVE  Released'
  BY <1>4 DEF Released
<1>5. CASE PollActions
  <2>1. stack # <<>> /\ UNCHANGED <<mask, pending>>
    BY <1>5, PollMoves
  <2>2. PICK rest \in Seq(Frames) :
           /\ Collected \in Frames /\ Collected.k = "handle" /\ stack' = Append(rest, Collected)
           /\ InertBelow(rest)
    BY <1>5, PollOnInert
  <2>3. \A x : Reaches(stack', x) <=> Reaches(rest, x)
    BY <1>2, <2>2, ReachesPushed
  <2>4. \A t \in Seq(Frames), f \in Frames :
          Append(t, f) \in Seq(Frames) /\ (Inert(f) => \A x : Reaches(Append(t, f), x) <=> Reaches(t, x))
    BY <1>2, Pushed, ReachesPushed
  <2>5. Inert(Top) => \A x : Reaches(stack, x) <=> Reaches(Below, x)
    BY <1>2, <1>3, <2>1
  <2>6. \A x : Reaches(stack, x) => Reaches(rest, x)
    BY <1>1, <1>3, <2>1, <2>2, <2>4, <2>5 DEF InertBelow
  <2> QED
    BY <1>4, <2>1, <2>3, <2>6
<1>6. ASSUME NEW s \in Sigs, NEW m \in SUBSET Sigs, NEW rest,
             WellFormed(rest), rest # <<>>, Dispatching(Last(rest)),
             \/ m = mask /\ Dispatch(s, rest)
             \/ s # SIGKILL /\ Deliver(s, m, rest)
      PROVE  /\ \A x : Reaches(stack', x) <=> Reaches(rest, x)
             /\ pending' \ mask' \subseteq pending \ m
             /\ s # SIGKILL => s \notin pending' \ mask'
  <2>1. /\ rest \in Seq(Frames)
        /\ Onto(rest)
        /\ pending' \ mask' \subseteq pending \ m
        /\ s # SIGKILL => s \notin pending' \ mask'
    BY <1>6, DispatchInert
  <2>2. ASSUME NEW f \in Frames, Inert(f), stack' = Append(rest, f), NEW x
        PROVE  Reaches(stack', x) <=> Reaches(rest, x)
    BY <1>2, <2>1, <2>2, ReachesPushed
  <2> QED
    BY <2>1, <2>2 DEF Onto
<1>7. ASSUME NEW s \in Sigs, NEW at \in 1 .. 4, NEW hit, Source(at, hit, s) PROVE Released'
  <2>1. PICK h \in Frames :
          /\ Looked(h, at)
          /\ \/ hit /\ Dispatch(s, Append(Below, h))
             \/ ~hit /\ stack' = Append(Below, h) /\ UNCHANGED <<mask, pending>>
    BY <1>7, SourceMoves
  <2>2. /\ WellFormed(Append(Below, h)) /\ Append(Below, h) # <<>> /\ stack # <<>>
        /\ Dispatching(Last(Append(Below, h)))
    BY <1>7, <2>1, SourceMoves DEF Looked, Dispatching
  <2>3. \A x : Reaches(stack, x) <=> Reaches(Append(Below, h), x)
    BY <1>2, <1>3, <2>1, <2>2, ReachesPushed DEF Looked
  <2>4. CASE stack' = Append(Below, h) /\ UNCHANGED <<mask, pending>>
    BY <1>4, <2>2, <2>3, <2>4
  <2>5. CASE Dispatch(s, Append(Below, h))
    BY <1>1, <1>4, <1>6, <2>2, <2>3, <2>5, ZenonT(40)
  <2> QED
    BY <2>1, <2>4, <2>5
<1>8. CASE CheckAlarm \/ CheckSigint \/ CheckSigquit \/ CheckChildren
  <2>1. {SIGALRM, SIGINT, SIGQUIT, SIGCHLD} \subseteq Sigs /\ {1, 2, 3, 4} \subseteq 1 .. 4
    OBVIOUS
  <2> QED
    BY <1>7, <1>8, <2>1 DEF CheckAlarm, CheckSigint, CheckSigquit, CheckChildren
<1>9. CASE HandleReturns
  <2> DEFINE c == Last(Below)
  <2>1. /\ stack # <<>> /\ Top.k = "handle" /\ Below # <<>> /\ pending' = pending
        /\ \/ c.k \notin {"pause", "setmask"} /\ stack' = Below /\ mask' = mask
           \/ \E f \in Frames :
                /\ stack' = Append(Front(Below), f) /\ c.k = f.k
                /\ \/ f.k = "pause" /\ f.old = c.old /\ mask' = mask
                   \/ f.k = "setmask" /\ f.new = c.new /\ f.at = 0 /\ mask' = f.new
    BY <1>9, HandleMoves DEF HandleReturns
  <2>2. /\ WellFormed(Below) /\ \A x : Reaches(stack, x) <=> Reaches(Below, x)
    BY <1>2, <1>3, <2>1, RunningFrame
  <2>3. /\ Front(Below) \in Seq(Frames) /\ c \in Frames /\ Below = Append(Front(Below), c)
    BY <2>1, <2>2, Unwound
  <2> HIDE DEF c
  <2>4. CASE stack' = Below /\ mask' = mask
    BY <1>4, <2>1, <2>2, <2>4
  <2>5. ASSUME NEW f \in Frames, stack' = Append(Front(Below), f), c.k = "pause", f.k = "pause", mask' = mask
        PROVE  Released'
    <3>1. ~IsLoop(c) /\ ~IsLoop(f)
      BY <2>5 DEF IsLoop
    <3>2. \A x : Reaches(Append(Front(Below), c), x) <=> Reaches(Front(Below), x)
      BY <2>3, <3>1, ReachesPushed
    <3>3. \A x : Reaches(stack', x) <=> Reaches(Front(Below), x)
      BY <2>3, <2>5, <3>1, ReachesPushed
    <3>4. pending' \ mask' \subseteq pending \ mask
      BY <2>1, <2>5
    <3>5. \A x : Reaches(stack, x) => Reaches(stack', x)
      BY <2>2, <2>3, <3>2, <3>3
    <3> QED
      BY <1>4, <2>1, <3>4, <3>5
  <2>6. ASSUME NEW f \in Frames, stack' = Append(Front(Below), f), f.k = "setmask", f.at = 0
        PROVE  Released'
    <3>1. IsLoop(f)
      BY <2>6 DEF IsLoop
    <3>2. \A x \in pending : 0 <= x
      BY <1>1
    <3>3. \A x \in pending : Reaches(stack', x)
      BY <2>3, <2>6, <3>1, <3>2, ReachesPushed
    <3> QED
      BY <2>1, <3>3 DEF Released
  <2> QED
    BY <2>1, <2>4, <2>5, <2>6
<1>10. CASE SetMaskLoop
  <2>1. PICK s \in pending \ mask, f \in Frames :
          /\ s >= Top.at /\ \A x \in pending \ mask : x >= Top.at => s <= x
          /\ f.k = "setmask" /\ f.at = s + 1
          /\ WellFormed(Append(Below, f)) /\ Append(Below, f) # <<>>
          /\ Last(Append(Below, f)) = f /\ Dispatch(s, Append(Below, f))
    BY <1>10, SetMaskMoves
  <2>2. stack # <<>> /\ Top.k = "setmask" /\ Top.at \in 0 .. NSIG /\ IsLoop(Top)
    BY <1>10, SetMaskMoves DEF IsLoop
  <2>3. s \in Sigs /\ s # SIGKILL /\ s \in Nat /\ Dispatching(Last(Append(Below, f))) /\ IsLoop(f)
    BY <1>1, <2>1 DEF Dispatching, IsLoop
  <2>4. /\ \A x : Reaches(stack', x) <=> Reaches(Append(Below, f), x)
        /\ pending' \ mask' \subseteq pending \ mask /\ s \notin pending' \ mask'
    BY <1>1, <1>6, <2>1, <2>3
  <2>5. \A x : Reaches(Append(Below, f), x) <=> s + 1 <= x
    BY <1>3, <2>1, <2>2, <2>3, ReachesPushed
  <2>6. ASSUME NEW x \in pending' \ mask' PROVE Reaches(stack', x)
    <3>1. x \in pending \ mask /\ x # s /\ x \in Nat
      BY <1>1, <2>4
    <3>2. Top.at <= x
      BY <1>3, <2>2, <3>1 DEF Released
    <3>3. s <= x
      BY <2>1, <2>2, <3>1, <3>2
    <3>4. s + 1 <= x
      BY <2>3, <3>1, <3>3
    <3> QED
      BY <2>4, <2>5, <3>4
  <2> QED
    BY <2>6 DEF Released
<1>11. CASE SetMaskReturns
  <2>1. /\ stack # <<>> /\ Top.k = "setmask" /\ Top.at \in 0 .. NSIG
        /\ Unheld(Top.at) = {} /\ UNCHANGED <<mask, pending>>
    BY <1>11, SetMaskReturnMoves DEF SetMaskReturns
  <2>2. ASSUME NEW x \in pending \ mask PROVE FALSE
    <3>1. Top.at <= x /\ x \in Nat
      BY <1>1, <1>3, <2>1 DEF Released, IsLoop
    <3>2. x \in Unheld(Top.at)
      BY <2>1, <3>1 DEF Unheld
    <3> QED
      BY <2>1, <3>2
  <2> QED
    BY <2>1, <2>2 DEF Released
<1>12. CASE DoSignal \/ DoKillSelf \/ DoKillChild
  <2>1. stack # <<>> /\ Top.k \in Calls
    BY <1>12 DEF DoSignal, DoKillSelf, DoKillChild, Running, Calls
  <2>2. \A x : Reaches(stack, x) <=> Reaches(Below, x)
    BY <1>3, <2>1 DEF IsLoop, Calls
  <2>3. CASE stack' = Below /\ UNCHANGED <<mask, pending>>
    BY <1>4, <2>1, <2>2, <2>3
  <2>4. ASSUME NEW s \in Sigs, Dispatch(s, Below) PROVE Released'
    BY <1>1, <1>4, <1>6, <2>1, <2>2, <2>4, CallDone
  <2>5. Top.k = "killself" => Top.arg \in Sigs
    BY <2>1, RunningFrame, FrameFields
  <2> QED
    BY <1>12, <2>3, <2>4, <2>5 DEF DoSignal, DoKillSelf, DoKillChild, Running
<1>13. CASE HandlerReturns
  <2> DEFINE s == Top.sig
  <2>1. /\ stack # <<>> /\ Top.k = "user" /\ s \in Catchable
        /\ WellFormed(Below) /\ Below # <<>> /\ Dispatching(Last(Below))
        /\ \/ s \in pending /\ s # SIGKILL /\ Deliver(s, mask \ {s}, Below)
           \/ /\ s \notin pending /\ UNCHANGED pending
              /\ mask' = mask \ {s} /\ stack' = Below
    BY <1>13, HandlerDone
  <2>2. \A x : Reaches(stack, x) <=> Reaches(Below, x)
    BY <1>3, <2>1 DEF IsLoop
  <2> HIDE DEF s
  <2>3. CASE s \notin pending /\ UNCHANGED pending /\ mask' = mask \ {s} /\ stack' = Below
    BY <1>4, <2>1, <2>2, <2>3
  <2>4. CASE s # SIGKILL /\ Deliver(s, mask \ {s}, Below)
    <3>1. mask \ {s} \in SUBSET Sigs /\ s \in Sigs
      BY <1>1, <2>1
    <3>2. /\ \A x : Reaches(stack', x) <=> Reaches(Below, x)
          /\ pending' \ mask' \subseteq pending \ (mask \ {s}) /\ s \notin pending' \ mask'
      BY <1>6, <2>1, <2>4, <3>1
    <3>3. pending' \ mask' \subseteq pending \ mask
      BY <3>2
    <3> QED
      BY <1>4, <2>1, <2>2, <3>2, <3>3
  <2> QED
    BY <2>1, <2>3, <2>4
<1>14. CASE FloatingTrap
  <2>1. stack # <<>> /\ Dispatching(Last(stack)) /\ SIGFPE \in Sigs
    BY <1>14 DEF FloatingTrap, MayCall, Running, Dispatching, Top
  <2>2. /\ \A x : Reaches(stack', x) <=> Reaches(stack, x)
        /\ pending' \ mask' \subseteq pending \ mask
    BY <1>1, <1>6, <1>14, <2>1 DEF FloatingTrap
  <2> QED
    BY <1>4, <2>1, <2>2
<1>15. CASE CallExit
  <2>1. stack # <<>> /\ stack' = Append(stack, Exit(0)) /\ UNCHANGED <<mask, pending>>
    BY <1>15 DEF CallExit, MayCall, Running
  <2>2. Exit(0) \in Frames /\ ~IsLoop(Exit(0))
    BY NewFrames DEF IsLoop
  <2>3. \A x : Reaches(stack', x) <=> Reaches(stack, x)
    BY <1>1, <2>1, <2>2, ReachesPushed
  <2> QED
    BY <1>4, <2>1, <2>3
<1>16. CASE DoExit /\ stack' = <<>>
  BY <1>16 DEF Released
<1>17. CASE CallAlarm \/ CallSetjmp \/ TypeBreak \/ TimerReplies \/ ChildExits \/ UNCHANGED vars
  BY <1>17 DEF CallAlarm, CallSetjmp, TypeBreak, TimerReplies, ChildExits, vars, Released
<1> QED
  BY <1>5, <1>8, <1>9, <1>10, <1>11, <1>12, <1>13, <1>14, <1>15, <1>16, <1>17
  DEF Next, LibraryStep, UserStep, Environment, Terminated, PollActions

\* No signal is left behind: whatever handlers and masks do to each other, at
\* any depth, a signal that is pending but not masked is one that the running
\* loop of sigsetmask has yet to reach.
THEOREM PendingSafe == Spec => []PendingAreMasked
<1>1. Init => Released
  BY DEF Init, Released
<1>2. Shape /\ Released => PendingAreMasked
  <2> SUFFICES ASSUME Shape, Released, Running("user"), NEW x \in pending \ mask
               PROVE  \E i \in DOMAIN stack : stack[i].k = "setmask" /\ stack[i].at \in 0 .. x
    BY DEF PendingAreMasked
  <2>1. stack \in Seq(Frames) /\ x \in Nat /\ Reaches(stack, x)
    BY SignalsTypes DEF Shape, WellFormed, Released, Running
  <2>2. PICK i \in 1 .. Len(stack) : IsLoop(stack[i]) /\ stack[i].at <= x
    BY <2>1 DEF Reaches
  <2>3. stack[i] \in Frames /\ DOMAIN stack = 1 .. Len(stack)
    BY <2>1, ElementOfSeq, LenProperties
  <2> QED
    BY <2>1, <2>2, <2>3, FrameFields DEF IsLoop
<1> QED
  BY <1>1, <1>2, ShapeInit, ShapeStep, ReleasedStep, PTL DEF Spec

----------------------------------------------------------------------------
(* How the steps move polls and loops: they come and go singly, with inert  *)
(* frames only above and below them.                                       *)

\* Steps of inert frames: what runs is inert, or stays, or both.
InertActions ==
  DoSignal \/ DoKillSelf \/ DoKillChild \/ HandlerReturns \/ FloatingTrap \/ CallExit

LEMMA InertStep ==
  ASSUME Shape, InertActions
  PROVE  stack # <<>> /\ \E rest \in Seq(Frames) :
           (rest = stack \/ (rest = Below /\ Inert(Top))) /\ Onto(rest)
<1> USE SignalsTypes
<1>1. WellFormed(stack) /\ stack \in Seq(Frames) /\ mask \in SUBSET Sigs
  BY DEF Shape, WellFormed
<1>2. ASSUME NEW s \in Sigs, NEW m \in SUBSET Sigs, NEW rest,
             WellFormed(rest), rest # <<>>, Dispatching(Last(rest)),
             \/ m = mask /\ Dispatch(s, rest)
             \/ s # SIGKILL /\ Deliver(s, m, rest)
      PROVE  rest \in Seq(Frames) /\ Onto(rest)
  BY <1>2, DispatchInert
<1>3. CASE DoSignal \/ DoKillSelf \/ DoKillChild
  <2>1. stack # <<>> /\ Top.k \in Calls
    BY <1>3 DEF DoSignal, DoKillSelf, DoKillChild, Running, Calls
  <2>2. /\ WellFormed(Below) /\ Below # <<>> /\ Dispatching(Last(Below)) /\ Inert(Top)
        /\ Below \in Seq(Frames)
    BY <2>1, CallDone DEF Inert, Calls, WellFormed
  <2>3. Top.k = "killself" => Top.arg \in Sigs
    BY <2>1, RunningFrame, FrameFields
  <2>4. \/ stack' = Below
        \/ \E s \in Sigs : Dispatch(s, Below)
    BY <1>3, <2>3 DEF DoSignal, DoKillSelf, DoKillChild, Running
  <2>5. Onto(Below)
    BY <1>1, <1>2, <2>2, <2>4 DEF Onto
  <2> QED
    BY <2>1, <2>2, <2>5
<1>4. CASE HandlerReturns
  <2> DEFINE s == Top.sig
  <2>1. /\ stack # <<>> /\ Top.k = "user" /\ s \in Catchable
        /\ WellFormed(Below) /\ Below # <<>> /\ Dispatching(Last(Below))
        /\ \/ s \in pending /\ s # SIGKILL /\ Deliver(s, mask \ {s}, Below)
           \/ stack' = Below
    BY <1>4, HandlerDone
  <2>2. mask \ {s} \in SUBSET Sigs /\ s \in Sigs /\ Inert(Top) /\ Below \in Seq(Frames)
    BY <1>1, <2>1 DEF Inert, WellFormed
  <2> HIDE DEF s
  <2>3. Onto(Below)
    BY <1>2, <2>1, <2>2 DEF Onto
  <2> QED
    BY <2>1, <2>2, <2>3
<1>5. CASE FloatingTrap
  <2>1. stack # <<>> /\ Dispatching(Last(stack)) /\ SIGFPE \in Sigs /\ Dispatch(SIGFPE, stack)
    BY <1>5 DEF FloatingTrap, MayCall, Running, Dispatching, Top
  <2> QED
    BY <1>1, <1>2, <2>1
<1>6. CASE CallExit
  <2>1. stack # <<>> /\ stack' = Append(stack, Exit(0))
    BY <1>6 DEF CallExit, MayCall, Running
  <2>2. Exit(0) \in Frames /\ Inert(Exit(0))
    BY NewFrames DEF Inert
  <2> QED
    BY <1>1, <2>1, <2>2 DEF Onto
<1> QED
  BY <1>3, <1>4, <1>5, <1>6 DEF InertActions

\* A poll looks at its next source.
LEMMA SourceStep ==
  ASSUME Shape, NEW at \in 1 .. 4, NEW hit, NEW s \in Sigs, Source(at, hit, s)
  PROVE  stack # <<>> /\ Below \in Seq(Frames) /\ Top.k = "handle" /\ Top.at = at /\ \E h \in Frames :
           /\ h.k = "handle" /\ h.at = at + 1 /\ h.sigs = Left(at)
           /\ Append(Below, h) \in Seq(Frames) /\ Onto(Append(Below, h))
<1>1. stack # <<>> /\ Below \in Seq(Frames)
  BY SourceMoves, RunningFrame
<1>2. PICK h \in Frames :
        /\ Looked(h, at)
        /\ \/ hit /\ Dispatch(s, Append(Below, h))
           \/ ~hit /\ stack' = Append(Below, h) /\ UNCHANGED <<mask, pending>>
  BY SourceMoves
<1>3. /\ WellFormed(Append(Below, h)) /\ Append(Below, h) # <<>>
      /\ Dispatching(Last(Append(Below, h))) /\ Append(Below, h) \in Seq(Frames)
  BY <1>2 DEF Looked, Dispatching, WellFormed
<1>4. mask \in SUBSET Sigs
  BY DEF Shape
<1>5. Onto(Append(Below, h))
  <2>1. CASE stack' = Append(Below, h)
    BY <2>1 DEF Onto
  <2>2. CASE Dispatch(s, Append(Below, h))
    BY <1>3, <1>4, <2>2, DispatchInert
  <2> QED
    BY <1>2, <2>1, <2>2
<1> QED
  BY <1>1, <1>2, <1>3, <1>5 DEF Looked

\* The loop of sigsetmask goes on.
LEMMA LoopStep ==
  ASSUME Shape, SetMaskLoop
  PROVE  stack # <<>> /\ IsLoop(Top) /\ Below \in Seq(Frames) /\ \E f \in Frames :
           IsLoop(f) /\ Append(Below, f) \in Seq(Frames) /\ Onto(Append(Below, f))
<1>1. stack # <<>> /\ IsLoop(Top) /\ Below \in Seq(Frames)
  BY SetMaskMoves, RunningFrame DEF IsLoop
<1>2. PICK s \in pending \ mask, f \in Frames :
        /\ s >= Top.at /\ Top.at \in 0 .. NSIG /\ f.k = "setmask" /\ f.at = s + 1
        /\ WellFormed(Append(Below, f)) /\ Append(Below, f) # <<>>
        /\ Last(Append(Below, f)) = f /\ Dispatch(s, Append(Below, f))
  BY SetMaskMoves
<1>3. s \in Sigs /\ mask \in SUBSET Sigs /\ s \in Nat
  <2>1. \A x \in Sigs : x \in Nat
    BY SignalsTypes
  <2> QED
    BY <2>1 DEF Shape
<1>4. /\ IsLoop(f) /\ Dispatching(Last(Append(Below, f))) /\ Append(Below, f) \in Seq(Frames)
  BY <1>2, <1>3 DEF IsLoop, Dispatching, WellFormed
<1>5. Onto(Append(Below, f))
  BY <1>2, <1>3, <1>4, DispatchInert
<1> QED
  BY <1>1, <1>4, <1>5

\* The end of _exit leaves nothing to announce.
LEMMA ExitEnds ==
  ASSUME Shape, DoExit, stack' = <<>>
  PROVE  port' = {} /\ alarm' = "idle" /\ typed' = {}
<1>1. CASE Top.fd < NumFds /\ Poll(Becomes(Exit(Top.fd + 1)))
  <2>1. stack # <<>> /\ Top.k = "exit"
    BY DEF DoExit, Running
  <2>2. Below \in Seq(Frames) /\ Top.fd + 1 \in 0 .. NumFds
    BY <1>1, <2>1, RunningFrame, FrameFields, SignalsTypes
  <2>3. Exit(Top.fd + 1) \in Frames /\ Collected \in Frames
    BY <2>2, NewFrames DEF Collected, Handle, Frames
  <2>4. Append(Becomes(Exit(Top.fd + 1)), Collected) # <<>>
    BY <2>2, <2>3, Pushed DEF Becomes
  <2> QED
    BY <1>1, <2>4 DEF Poll
<1> QED
  BY <1>1 DEF DoExit

----------------------------------------------------------------------------
(* No exit message and no timer reply goes unannounced.                    *)

\* The last poll or loop on the stack is a poll that has yet to look at k.
Answers(s, k) ==
  \E i \in 1 .. Len(s) :
    /\ s[i].k = "handle" /\ s[i].at <= k
    /\ \A j \in i + 1 .. Len(s) : s[j].k # "handle" /\ ~IsLoop(s[j])

\* Only the last one will do: what is above a poll that longjmp skips must not
\* need it.
Announced ==
  /\ port # {} => "child" \in bits \/ Answers(stack, 4)
  /\ alarm = "replied" => "timer" \in bits \/ Answers(stack, 1)

LEMMA AnswersPushed ==
  ASSUME NEW s \in Seq(Frames), NEW f \in Frames, NEW k
  PROVE  Answers(Append(s, f), k) <=>
           IF f.k = "handle" THEN f.at <= k ELSE ~IsLoop(f) /\ Answers(s, k)
<1> DEFINE t == Append(s, f)
           Marks(g) == g.k = "handle" \/ IsLoop(g)
<1>1. /\ Len(t) = Len(s) + 1 /\ Len(s) \in Nat /\ t[Len(s) + 1] = f
      /\ \A i \in 1 .. Len(s) : t[i] = s[i]
  BY Pushed
<1>2. \A u : Answers(u, k) <=> \E i \in 1 .. Len(u) :
        u[i].k = "handle" /\ u[i].at <= k /\ \A j \in i + 1 .. Len(u) : ~Marks(u[j])
  BY DEF Answers
<1>3. f.k = "handle" => ~IsLoop(f)
  BY DEF IsLoop
<1>4. Marks(f) <=> f.k = "handle" \/ IsLoop(f)
  OBVIOUS
<1>5. \A g : g.k = "handle" => Marks(g)
  OBVIOUS
<1> HIDE DEF t, Marks
<1>6. CASE Marks(f)
  <2>1. ASSUME NEW i \in 1 .. Len(t), \A j \in i + 1 .. Len(t) : ~Marks(t[j])
        PROVE  i = Len(s) + 1
    BY <1>1, <1>6, <2>1
  <2>2. Answers(t, k) <=> f.k = "handle" /\ f.at <= k
    BY <1>1, <1>2, <2>1
  <2> QED
    BY <1>3, <1>4, <1>6, <2>2 DEF t
<1>7. CASE ~Marks(f)
  <2>1. ASSUME NEW i \in 1 .. Len(t), t[i].k = "handle" PROVE i \in 1 .. Len(s)
    BY <1>1, <1>5, <1>7, <2>1
  <2>2. ASSUME NEW i \in 1 .. Len(s)
        PROVE  (\A j \in i + 1 .. Len(t) : ~Marks(t[j])) <=> \A j \in i + 1 .. Len(s) : ~Marks(s[j])
    BY <1>1, <1>7
  <2>3. ASSUME NEW i \in 1 .. Len(s)
        PROVE  /\ t[i] = s[i] /\ i \in 1 .. Len(t)
    BY <1>1
  <2>4. Answers(t, k) => Answers(s, k)
    <3>1. ASSUME NEW i \in 1 .. Len(t), t[i].k = "handle", t[i].at <= k,
                 \A j \in i + 1 .. Len(t) : ~Marks(t[j])
          PROVE  Answers(s, k)
      <4>1. i \in 1 .. Len(s)
        BY <2>1, <3>1
      <4> QED
        BY <1>2, <2>2, <2>3, <3>1, <4>1
    <3> QED
      BY <1>2, <3>1
  <2>5. Answers(s, k) => Answers(t, k)
    BY <1>2, <2>2, <2>3
  <2> QED
    BY <1>4, <1>5, <1>7, <2>4, <2>5 DEF t
<1> QED
  BY <1>6, <1>7

LEMMA AnnouncedStep == Shape /\ Announced /\ [Next]_vars => Announced'
<1> SUFFICES ASSUME Shape, Announced, [Next]_vars PROVE Announced'
  OBVIOUS
<1>1. stack \in Seq(Frames)
  BY DEF Shape, WellFormed
<1>2. \A f : Inert(f) => f.k # "handle" /\ ~IsLoop(f)
  BY DEF Inert, AsksAgain, IsLoop
<1>3. ASSUME stack # <<>>
      PROVE  /\ Top \in Frames /\ Below \in Seq(Frames) /\ stack = Append(Below, Top)
             /\ \A k : Answers(stack, k) <=> IF Top.k = "handle" THEN Top.at <= k
                                           ELSE ~IsLoop(Top) /\ Answers(Below, k)
  BY <1>3, RunningFrame, AnswersPushed, ZenonT(40)
<1>4. ASSUME NEW rest \in Seq(Frames), Onto(rest)
      PROVE  \A k : Answers(stack', k) <=> Answers(rest, k)
  BY <1>2, <1>4, AnswersPushed, ZenonT(40) DEF Onto
<1>5. CASE PollActions
  <2>1. PICK rest \in Seq(Frames) : /\ stack' = Append(rest, Collected) /\ Collected \in Frames
                                   /\ Collected.k = "handle" /\ Collected.at = 1
    BY <1>5, PollOnInert
  <2>2. \A k : Answers(stack', k) <=> 1 <= k
    BY <2>1, AnswersPushed
  <2> QED
    BY <2>2 DEF Announced
<1>6. ASSUME NEW at \in 1 .. 4, NEW hit, NEW s \in Sigs, Source(at, hit, s)
      PROVE  /\ \A k : Answers(stack', k) <=> at + 1 <= k
             /\ Answers(stack, 1) => at <= 1
  <2>1. PICK h \in Frames :
          /\ stack # <<>> /\ Below \in Seq(Frames) /\ Top.k = "handle" /\ Top.at = at
          /\ h.k = "handle" /\ h.at = at + 1
          /\ Append(Below, h) \in Seq(Frames) /\ Onto(Append(Below, h))
    BY <1>6, SourceStep
  <2>2. \A k : Answers(stack', k) <=> Answers(Append(Below, h), k)
    BY <1>4, <2>1
  <2>3. \A k : Answers(Append(Below, h), k) <=> at + 1 <= k
    BY <2>1, AnswersPushed
  <2> QED
    BY <1>3, <2>1, <2>2, <2>3
<1>7. {SIGALRM, SIGINT, SIGQUIT, SIGCHLD} \subseteq Sigs /\ {1, 2, 3, 4} \subseteq 1 .. 4
  BY SignalsTypes
<1>8. CASE CheckAlarm
  <2>1. Answers(stack', 4) <=> 1 + 1 <= 4
    BY <1>6, <1>7, <1>8 DEF CheckAlarm
  <2>2. alarm' # "replied"
    BY <1>8 DEF CheckAlarm
  <2> QED
    BY <2>1, <2>2 DEF Announced
<1>9. CASE CheckSigint \/ CheckSigquit
  <2>1. CASE CheckSigint
    <3>1. /\ Answers(stack', 4) <=> 2 + 1 <= 4
          /\ Answers(stack, 1) => 2 <= 1
      BY <1>6, <1>7, <2>1 DEF CheckSigint
    <3>2. UNCHANGED <<bits, alarm>>
      BY <2>1 DEF CheckSigint
    <3> QED
      BY <3>1, <3>2 DEF Announced
  <2>2. CASE CheckSigquit
    <3>1. /\ Answers(stack', 4) <=> 3 + 1 <= 4
          /\ Answers(stack, 1) => 3 <= 1
      BY <1>6, <1>7, <2>2 DEF CheckSigquit
    <3>2. UNCHANGED <<bits, alarm>>
      BY <2>2 DEF CheckSigquit
    <3> QED
      BY <3>1, <3>2 DEF Announced
  <2> QED
    BY <1>9, <2>1, <2>2
<1>10. CASE CheckChildren
  <2>1. Answers(stack, 1) => 4 <= 1
    BY <1>6, <1>7, <1>10 DEF CheckChildren
  <2>2. port' = {} /\ UNCHANGED <<bits, alarm>>
    BY <1>10 DEF CheckChildren
  <2> QED
    BY <2>1, <2>2 DEF Announced
\* The running frame answers for nothing, so the bits do.
<1>11. CASE HandleReturns \/ SetMaskLoop \/ SetMaskReturns
  <2>1. UNCHANGED <<bits, port, alarm>> /\ stack # <<>>
    BY <1>11 DEF HandleReturns, SetMaskLoop, SetMaskReturns, Running
  <2>2. \/ Top.k = "handle" /\ Top.at = 5
        \/ IsLoop(Top) /\ Top.k = "setmask"
    BY <1>11 DEF HandleReturns, SetMaskLoop, SetMaskReturns, Running, IsLoop
  <2>3. ~Answers(stack, 4) /\ ~Answers(stack, 1)
    BY <1>3, <2>1, <2>2
  <2> QED
    BY <2>1, <2>3 DEF Announced
<1>12. CASE InertActions
  <2>1. UNCHANGED <<port, alarm>> /\ bits \subseteq bits'
    BY <1>12 DEF InertActions, DoSignal, DoKillSelf, DoKillChild, HandlerReturns, FloatingTrap, CallExit
  <2>2. PICK rest \in Seq(Frames) :
          stack # <<>> /\ (rest = stack \/ (rest = Below /\ Inert(Top))) /\ Onto(rest)
    BY <1>12, InertStep
  <2>3. \A k : Answers(stack, k) <=> Answers(rest, k)
    BY <1>2, <1>3, <2>2
  <2>4. \A k : Answers(stack', k) <=> Answers(rest, k)
    BY <1>4, <2>2
  <2> QED
    BY <2>1, <2>3, <2>4 DEF Announced
<1>13. CASE DoExit /\ stack' = <<>>
  BY <1>13, ExitEnds DEF Announced
<1>14. CASE CallAlarm \/ CallSetjmp \/ TypeBreak \/ TimerReplies \/ ChildExits \/ UNCHANGED vars
  BY <1>14 DEF CallAlarm, CallSetjmp, TypeBreak, TimerReplies, ChildExits, vars, Announced
<1> QED
  BY <1>5, <1>8, <1>9, <1>10, <1>11, <1>12, <1>13, <1>14
  DEF Next, LibraryStep, UserStep, Environment, Terminated, PollActions, InertActions

\* A child's exit message or the timer's reply is never left in its port with
\* no bit set and no poll to find it, so that Wait would sleep on: not even
\* when handlers poll inside polls or leave them by longjmp.
THEOREM WakeupSafe == Spec => []NoLostWakeup
<1>1. Init => Announced
  BY DEF Init, Announced
<1>2. Shape /\ Announced => NoLostWakeup
  <2> SUFFICES ASSUME Shape, Announced PROVE NoLostWakeup
    OBVIOUS
  <2>1. DOMAIN stack = 1 .. Len(stack)
    BY LenProperties DEF Shape, WellFormed
  <2>2. \A k : Answers(stack, k) => StillToCheck(k)
    BY <2>1 DEF Answers, StillToCheck
  <2> QED
    BY <2>2 DEF Announced, NoLostWakeup
<1> QED
  BY <1>1, <1>2, ShapeInit, ShapeStep, AnnouncedStep, PTL DEF Spec

----------------------------------------------------------------------------
(* No typed break key is forgotten, unless a handler jumps out of its poll. *)

Due(key) == IF key = "ctrlC" THEN 2 ELSE 3
Keeps(f, key) == f.k = "handle" /\ key \in f.sigs /\ f.at <= Due(key)
Holds(s, key) == \E i \in 1 .. Len(s) : Keeps(s[i], key)
BreaksKept == \A key \in typed : key \in bits \/ Holds(stack, key)

LEMMA HoldsPushed ==
  ASSUME NEW s \in Seq(Frames), NEW f \in Frames, NEW key
  PROVE  Holds(Append(s, f), key) <=> Keeps(f, key) \/ Holds(s, key)
<1>1. /\ Len(Append(s, f)) = Len(s) + 1 /\ Len(s) \in Nat /\ Append(s, f)[Len(s) + 1] = f
      /\ \A i \in 1 .. Len(s) : Append(s, f)[i] = s[i]
  BY Pushed
<1>2. \A i : i \in 1 .. Len(s) + 1 <=> i \in 1 .. Len(s) \/ i = Len(s) + 1
  BY <1>1
<1> QED
  BY <1>1, <1>2 DEF Holds

\* A main program that calls longjmp jumps over nothing.
LEMMA NothingJumped ==
  ASSUME Shape, stack # <<>>, Below # <<>>, Last(Below).k = "longjmp",
         "longjmp" \notin HandlerCalls
  PROVE  \E g \in Frames : g.k = "user" /\ Front(Below) = Append(<<>>, g)
<1>1. WellFormed(Below)
  BY RunningFrame
<1>2. /\ WellFormed(Front(Below))
      /\ Front(Below) = <<>> => IsMain(Last(Below))
      /\ Front(Below) # <<>> => Standing(Last(Below), Last(Front(Below)))
  BY <1>1, Unwound
<1>3. /\ Front(Below) # <<>> /\ IsMain(Last(Front(Below)))
  BY <1>2 DEF IsMain, Standing, CallerOK
<1>4. /\ Last(Front(Below)) \in Frames
      /\ Front(Below) = Append(Front(Front(Below)), Last(Front(Below)))
      /\ Front(Front(Below)) # <<>> => Standing(Last(Front(Below)), Last(Front(Front(Below))))
  BY <1>2, <1>3, Unwound
<1>5. Front(Front(Below)) = <<>>
  BY <1>3, <1>4, SignalsTypes DEF IsMain, Standing, CallerOK
<1> QED
  BY <1>3, <1>4, <1>5 DEF IsMain

LEMMA BreaksStep ==
  ASSUME "longjmp" \notin HandlerCalls, Shape, BreaksKept, [Next]_vars
  PROVE  BreaksKept'
<1>1. stack \in Seq(Frames) /\ typed \subseteq {"ctrlC", "ctrlD"}
  BY DEF Shape, WellFormed
<1>2. \A f, key : f.k # "handle" => ~Keeps(f, key)
  BY DEF Keeps
<1>3. \A f : Inert(f) => f.k # "handle"
  BY DEF Inert, AsksAgain
<1>4. ASSUME stack # <<>>
      PROVE  /\ Top \in Frames /\ Below \in Seq(Frames)
             /\ \A key : Holds(stack, key) <=> Keeps(Top, key) \/ Holds(Below, key)
  BY <1>4, RunningFrame, HoldsPushed
<1>5. ASSUME NEW rest \in Seq(Frames), Onto(rest)
      PROVE  \A key : Holds(rest, key) => Holds(stack', key)
  BY <1>5, HoldsPushed DEF Onto
\* Nothing a poll holds is dropped.
<1>6. ASSUME typed' \ typed \subseteq bits', bits \subseteq bits',
             \A key \in typed' : Holds(stack, key) => Holds(stack', key)
      PROVE  BreaksKept'
  BY <1>6 DEF BreaksKept
<1>7. CASE PollActions
  <2>1. stack # <<>> /\ typed' = typed
    BY <1>7, PollMoves
  <2>2. PICK rest \in Seq(Frames) :
           /\ Collected \in Frames /\ Collected.k = "handle" /\ Collected.at = 1
           /\ Collected.sigs = bits \cap {"ctrlC", "ctrlD"}
           /\ stack' = Append(rest, Collected) /\ InertBelow(rest)
    BY <1>7, PollOnInert
  <2>3. \A key \in typed : key \in bits => Keeps(Collected, key)
    BY <1>1, <2>2 DEF Keeps, Due
  <2>4. \A key : Holds(stack', key) <=> Keeps(Collected, key) \/ Holds(rest, key)
    BY <2>2, HoldsPushed
  <2>5. \A u \in Seq(Frames), f \in Frames :
          Append(u, f) \in Seq(Frames) /\ \A key : Holds(u, key) => Holds(Append(u, f), key)
    BY Pushed, HoldsPushed
  <2>6. Inert(Top) => \A key : Holds(stack, key) <=> Holds(Below, key)
    BY <1>2, <1>3, <1>4, <2>1
  <2>7. \A key : Holds(stack, key) => Holds(rest, key)
    <3>1. Below \in Seq(Frames)
      BY <1>4, <2>1
    <3>2. ASSUME NEW u \in Seq(Frames), NEW c \in Frames, NEW f \in Frames,
                 rest = Append(u, f) \/ rest = Append(Append(u, c), f),
                 \A key : Holds(stack, key) => Holds(u, key)
          PROVE  \A key : Holds(stack, key) => Holds(rest, key)
      BY <2>5, <3>2
    <3> QED
      BY <1>1, <2>2, <2>6, <3>1, <3>2 DEF InertBelow
  <2> QED
    BY <2>1, <2>3, <2>4, <2>7 DEF BreaksKept
<1>8. ASSUME NEW at \in 1 .. 4, NEW hit, NEW s \in Sigs, Source(at, hit, s)
      PROVE  \A key : Holds(stack, key) =>
               Holds(stack', key) \/ (at = Due(key) /\ key \in Top.sigs)
  <2>1. PICK h \in Frames :
          /\ stack # <<>> /\ Below \in Seq(Frames) /\ Top.k = "handle" /\ Top.at = at
          /\ h.k = "handle" /\ h.at = at + 1 /\ h.sigs = Left(at)
          /\ Append(Below, h) \in Seq(Frames) /\ Onto(Append(Below, h))
    BY <1>8, SourceStep
  <2>2. \A key : Keeps(Top, key) => Keeps(h, key) \/ (at = Due(key) /\ key \in Top.sigs)
    BY <2>1 DEF Keeps, Due, Left
  <2>3. \A key : Holds(Append(Below, h), key) => Holds(stack', key)
    BY <1>5, <2>1
  <2> QED
    BY <1>4, <2>1, <2>2, <2>3, HoldsPushed
<1>9. {SIGALRM, SIGINT, SIGQUIT, SIGCHLD} \subseteq Sigs /\ {1, 2, 3, 4} \subseteq 1 .. 4
  BY SignalsTypes
<1>10. /\ \A key \in {"ctrlC", "ctrlD"} : Due(key) # 1 /\ Due(key) # 4
       /\ \A key \in {"ctrlC", "ctrlD"} : /\ 2 = Due(key) => key = "ctrlC"
                                         /\ 3 = Due(key) => key = "ctrlD"
  BY DEF Due
<1>11. CASE CheckAlarm
  <2>1. UNCHANGED <<typed, bits>>
    BY <1>11 DEF CheckAlarm
  <2>2. \A key : Holds(stack, key) => Holds(stack', key) \/ 1 = Due(key)
    BY <1>8, <1>9, <1>11 DEF CheckAlarm
  <2> QED
    BY <1>1, <1>6, <1>10, <2>1, <2>2
<1>12. CASE CheckChildren
  <2>1. UNCHANGED <<typed, bits>>
    BY <1>12 DEF CheckChildren
  <2>2. \A key : Holds(stack, key) => Holds(stack', key) \/ 4 = Due(key)
    BY <1>8, <1>9, <1>12 DEF CheckChildren
  <2> QED
    BY <1>1, <1>6, <1>10, <2>1, <2>2
<1>13. CASE CheckSigint
  <2>1. bits' = bits /\ typed' = typed \ (Top.sigs \cap {"ctrlC"})
    BY <1>13 DEF CheckSigint
  <2>2. \A key : Holds(stack, key) => Holds(stack', key) \/ (2 = Due(key) /\ key \in Top.sigs)
    BY <1>8, <1>9, <1>13 DEF CheckSigint
  <2>3. ASSUME NEW key \in typed', 2 = Due(key) PROVE key \notin Top.sigs
    <3>1. key \in typed /\ key \notin Top.sigs \cap {"ctrlC"}
      BY <2>1
    <3>2. key = "ctrlC"
      BY <2>3 DEF Due
    <3> QED
      BY <3>1, <3>2
  <2> QED
    BY <1>6, <2>1, <2>2, <2>3
<1>14. CASE CheckSigquit
  <2>1. bits' = bits /\ typed' = typed \ (Top.sigs \cap {"ctrlD"})
    BY <1>14 DEF CheckSigquit
  <2>2. \A key : Holds(stack, key) => Holds(stack', key) \/ (3 = Due(key) /\ key \in Top.sigs)
    BY <1>8, <1>9, <1>14 DEF CheckSigquit
  <2>3. ASSUME NEW key \in typed', 3 = Due(key) PROVE key \notin Top.sigs
    <3>1. key \in typed /\ key \notin Top.sigs \cap {"ctrlD"}
      BY <2>1
    <3>2. key = "ctrlD"
      BY <1>1, <1>10, <2>3, <3>1
    <3> QED
      BY <3>1, <3>2
  <2> QED
    BY <1>6, <2>1, <2>2, <2>3
<1>15. CASE HandleReturns
  <2> DEFINE c == Last(Below)
  <2>1. /\ stack # <<>> /\ Top.k = "handle" /\ Top.at = 5 /\ Below # <<>>
        /\ \/ stack' = Below
           \/ \E f \in Frames :
                /\ stack' = Append(Front(Below), f) /\ c.k = f.k /\ f.k # "handle"
    BY <1>15, HandleMoves
  <2>2. Front(Below) \in Seq(Frames) /\ c \in Frames /\ Below = Append(Front(Below), c)
    BY <2>1, RunningFrame, Unwound
  <2> HIDE DEF c
  <2>3. \A key : ~Keeps(Top, key)
    BY <2>1 DEF Keeps, Due
  <2>4. ASSUME NEW f \in Frames, stack' = Append(Front(Below), f), c.k # "handle"
        PROVE  \A key : Holds(Below, key) => Holds(stack', key)
    <3> TAKE key
    <3>1. Holds(Below, key) <=> Keeps(c, key) \/ Holds(Front(Below), key)
      BY <2>2, HoldsPushed
    <3>2. Holds(stack', key) <=> Keeps(f, key) \/ Holds(Front(Below), key)
      BY <2>2, <2>4, HoldsPushed
    <3>3. ~Keeps(c, key)
      BY <2>4 DEF Keeps
    <3> QED
      BY <3>1, <3>2, <3>3
  <2>5. \A key : Holds(stack, key) => Holds(stack', key)
    BY <1>4, <2>1, <2>3, <2>4
  <2>6. UNCHANGED <<typed, bits>>
    BY <1>15 DEF HandleReturns
  <2> QED
    BY <1>6, <2>5, <2>6
<1>16. CASE SetMaskLoop
  <2>1. PICK f \in Frames :
          /\ stack # <<>> /\ IsLoop(Top) /\ Append(Below, f) \in Seq(Frames) /\ Onto(Append(Below, f))
    BY <1>16, LoopStep
  <2>2. \A key : ~Keeps(Top, key)
    BY <2>1 DEF Keeps, IsLoop
  <2>3. \A key : Holds(stack, key) => Holds(stack', key)
    BY <1>4, <1>5, <2>1, <2>2, HoldsPushed
  <2>4. UNCHANGED <<typed, bits>>
    BY <1>16 DEF SetMaskLoop
  <2> QED
    BY <1>6, <2>3, <2>4
<1>17. CASE SetMaskReturns
  <2> DEFINE c == Last(Below)
  <2>1. /\ stack # <<>> /\ Top.k = "setmask" /\ Below # <<>>
        /\ \/ c.k = "longjmp"
           \/ c.k \in {"user", "pause"} /\ stack' = Front(Below)
           \/ c.k \in {"user", "pause"} /\ \E f \in Frames : stack' = Append(Front(Below), f)
    BY <1>17, SetMaskReturnMoves
  <2>2. Front(Below) \in Seq(Frames) /\ c \in Frames /\ Below = Append(Front(Below), c)
    BY <2>1, RunningFrame, Unwound
  <2>3. c.k = "longjmp" => \E g \in Frames : g.k = "user" /\ Front(Below) = Append(<<>>, g)
    BY <2>1, NothingJumped
  <2> HIDE DEF c
  <2>4. c.k # "handle" /\ \A key : Holds(stack, key) <=> Holds(Front(Below), key)
    <3>1. c.k # "handle" /\ \A key : ~Keeps(Top, key) /\ ~Keeps(c, key)
      BY <2>1 DEF Keeps
    <3>2. \A key : Holds(Below, key) <=> Keeps(c, key) \/ Holds(Front(Below), key)
      BY <2>2, HoldsPushed
    <3>3. \A key : Holds(stack, key) <=> Keeps(Top, key) \/ Holds(Below, key)
      BY <1>4, <2>1
    <3> QED
      BY <3>1, <3>2, <3>3
  <2>5. c.k = "longjmp" => \A key : ~Holds(Front(Below), key)
    <3>1. <<>> \in Seq(Frames) /\ \A key : ~Holds(<<>>, key)
      BY EmptySeq DEF Holds
    <3> QED
      BY <1>2, <2>3, <3>1, HoldsPushed
  <2>6. \A key : Holds(stack, key) => Holds(stack', key)
    BY <2>1, <2>2, <2>4, <2>5, HoldsPushed
  <2>7. UNCHANGED <<typed, bits>>
    BY <1>17 DEF SetMaskReturns
  <2> QED
    BY <1>6, <2>6, <2>7
<1>18. CASE InertActions
  <2>1. typed' \ typed \subseteq bits' /\ bits \subseteq bits'
    BY <1>18 DEF InertActions, DoSignal, DoKillSelf, DoKillChild, HandlerReturns, FloatingTrap, CallExit
  <2>2. PICK rest \in Seq(Frames) :
          stack # <<>> /\ (rest = stack \/ (rest = Below /\ Inert(Top))) /\ Onto(rest)
    BY <1>18, InertStep
  <2>3. \A key : Holds(stack, key) => Holds(rest, key)
    BY <1>2, <1>3, <1>4, <2>2
  <2>4. \A key : Holds(rest, key) => Holds(stack', key)
    BY <1>5, <2>2
  <2> QED
    BY <1>6, <2>1, <2>3, <2>4
<1>19. CASE DoExit /\ stack' = <<>>
  BY <1>19, ExitEnds DEF BreaksKept
<1>20. CASE CallAlarm \/ CallSetjmp \/ TypeBreak \/ TimerReplies \/ ChildExits \/ UNCHANGED vars
  BY <1>20 DEF CallAlarm, CallSetjmp, TypeBreak, TimerReplies, ChildExits, vars, BreaksKept
<1> QED
  BY <1>7, <1>11, <1>12, <1>13, <1>14, <1>15, <1>16, <1>17, <1>18, <1>19, <1>20
  DEF Next, LibraryStep, UserStep, Environment, Terminated, PollActions, InertActions

\* In a program whose handlers return, every ctrl-C and ctrl-D typed becomes a
\* SIGINT or SIGQUIT: its bit is still set, or the poll that collected it has
\* yet to look at it, however many handlers that poll runs first.
THEOREM BreakSafe ==
  ASSUME "longjmp" \notin HandlerCalls
  PROVE  Spec => []NoLostBreak
<1>1. Init => BreaksKept
  BY DEF Init, BreaksKept
<1>2. Shape /\ BreaksKept => NoLostBreak
  <2> SUFFICES ASSUME Shape, BreaksKept PROVE NoLostBreak
    OBVIOUS
  <2>1. DOMAIN stack = 1 .. Len(stack)
    BY LenProperties DEF Shape, WellFormed
  <2> QED
    BY <2>1 DEF BreaksKept, NoLostBreak, Holds, Keeps, Due
<1>3. Shape /\ BreaksKept /\ [Next]_vars => BreaksKept'
  BY BreaksStep
<1> QED
  BY <1>1, <1>2, <1>3, ShapeInit, ShapeStep, PTL DEF Spec

----------------------------------------------------------------------------
(* Code runs under the mask it asked for.  Every frame is entered under one *)
(* mask and runs under another; both follow from what the frame has saved.  *)

\* Frame f was entered under the mask b and runs under the mask a.
Fits(f, b, a) ==
  /\ f.k = "user" => a = f.asked
  /\ f.k = "user" /\ f.sig # 0 => f.sig \in f.asked /\ b = f.asked \ {f.sig}
  /\ f.k = "pause" => b = f.old
  /\ IsLoop(f) => a = f.new
  /\ f.k \notin {"user", "pause"} /\ ~IsLoop(f) => a = b

\* g[i]: the mask under which the first i frames of s have left the code.
Explains(g, s, m) ==
  /\ g \in [0 .. Len(s) -> SUBSET Sigs] /\ g[Len(s)] = m
  /\ \A i \in 1 .. Len(s) : Fits(s[i], g[i - 1], g[i])
Consistent(s, m) == \E g : Explains(g, s, m)
MasksAgree == stack # <<>> => Consistent(stack, mask)

LEMMA MaskPushed ==
  ASSUME NEW s \in Seq(Frames), NEW f \in Frames, NEW b, NEW a \in SUBSET Sigs,
         Consistent(s, b), Fits(f, b, a)
  PROVE  Consistent(Append(s, f), a)
<1>1. PICK g : Explains(g, s, b)
  BY DEF Consistent
<1> DEFINE t == Append(s, f)
           h == [i \in 0 .. Len(s) + 1 |-> IF i = Len(s) + 1 THEN a ELSE g[i]]
<1>2. /\ Len(t) = Len(s) + 1 /\ Len(s) \in Nat /\ t[Len(s) + 1] = f
      /\ \A i \in 1 .. Len(s) : t[i] = s[i]
  BY Pushed
<1> HIDE DEF t
<1>3. h \in [0 .. Len(t) -> SUBSET Sigs] /\ h[Len(t)] = a
  BY <1>1, <1>2 DEF Explains
<1>4. /\ h[Len(s) + 1] = a /\ h[Len(s)] = b
      /\ \A i \in 1 .. Len(s) : h[i] = g[i] /\ h[i - 1] = g[i - 1]
  BY <1>1, <1>2 DEF Explains
<1> HIDE DEF h
<1>5. ASSUME NEW i \in 1 .. Len(t) PROVE Fits(t[i], h[i - 1], h[i])
  <2>1. CASE i = Len(s) + 1
    <3>1. i - 1 = Len(s)
      BY <1>2, <2>1
    <3> QED
      BY <1>2, <1>4, <2>1, <3>1
  <2>2. CASE i \in 1 .. Len(s)
    BY <1>1, <1>2, <1>4, <2>2 DEF Explains
  <2> QED
    BY <1>2, <2>1, <2>2
<1>6. Explains(h, t, a)
  BY <1>3, <1>5 DEF Explains
<1> QED
  BY <1>6 DEF Consistent, t

LEMMA MaskPopped ==
  ASSUME NEW s \in Seq(Frames), NEW f \in Frames, NEW a, Consistent(Append(s, f), a)
  PROVE  \E b \in SUBSET Sigs : Consistent(s, b) /\ Fits(f, b, a)
<1> DEFINE t == Append(s, f)
<1>1. PICK g : Explains(g, t, a)
  BY DEF Consistent
<1>2. /\ Len(t) = Len(s) + 1 /\ Len(s) \in Nat /\ t[Len(s) + 1] = f
      /\ \A i \in 1 .. Len(s) : t[i] = s[i]
  BY Pushed
<1> HIDE DEF t
<1> DEFINE h == [i \in 0 .. Len(s) |-> g[i]]
<1>3. /\ h \in [0 .. Len(s) -> SUBSET Sigs] /\ h[Len(s)] = g[Len(s)]
      /\ \A i \in 1 .. Len(s) : h[i] = g[i] /\ h[i - 1] = g[i - 1]
  BY <1>1, <1>2 DEF Explains
<1>4. g[Len(s)] \in SUBSET Sigs
  BY <1>1, <1>2 DEF Explains
<1> HIDE DEF h
<1>5. ASSUME NEW i \in 1 .. Len(s) PROVE Fits(s[i], h[i - 1], h[i])
  <2>1. Fits(t[i], g[i - 1], g[i])
    BY <1>1, <1>2 DEF Explains
  <2> QED
    BY <1>2, <1>3, <2>1
<1>6. Explains(h, s, g[Len(s)])
  BY <1>3, <1>5 DEF Explains
<1>7. Fits(f, g[Len(s)], a)
  <2>1. Len(s) + 1 \in 1 .. Len(t) /\ Len(s) + 1 - 1 = Len(s)
    BY <1>2
  <2>2. Fits(t[Len(s) + 1], g[Len(s) + 1 - 1], g[Len(s) + 1]) /\ g[Len(s) + 1] = a
    BY <1>1, <1>2, <2>1 DEF Explains
  <2> QED
    BY <1>2, <2>1, <2>2
<1> QED
  BY <1>4, <1>6, <1>7 DEF Consistent

\* A dispatch under the mask m leaves what it pushed consistent.
LEMMA DispatchAgrees ==
  ASSUME Shape, NEW s \in Sigs, NEW m \in SUBSET Sigs, NEW rest,
         WellFormed(rest), rest # <<>>, Dispatching(Last(rest)), Consistent(rest, m),
         \/ m = mask /\ Dispatch(s, rest)
         \/ s # SIGKILL /\ s \notin m /\ Deliver(s, m, rest)
  PROVE  Consistent(stack', mask')
<1>1. rest \in Seq(Frames) /\ mask' \in SUBSET Sigs
  BY DispatchFrame DEF WellFormed
<1>2. \/ stack' = rest /\ mask' = m
      \/ stack' = Append(rest, Exit(0)) /\ mask' = m
      \/ /\ stack' = Append(rest, User(s, m \cup {s})) /\ mask' = m \cup {s}
         /\ s \in Catchable /\ s # SIGKILL
  BY DispatchFrame
<1>3. stack' = Append(rest, User(s, m \cup {s})) => s \notin m \/ stack' = rest \/ stack' = Append(rest, Exit(0))
  BY DEF Dispatch, Deliver
<1>4. CASE stack' = rest /\ mask' = m
  BY <1>4
<1>5. CASE stack' = Append(rest, Exit(0)) /\ mask' = m
  <2>1. Exit(0) \in Frames /\ Exit(0).k = "exit"
    <3>1. 0 \in 0 .. NumFds
      BY SignalsTypes
    <3> QED
      BY <3>1, NewFrames
  <2>2. Fits(Exit(0), m, m)
    BY <2>1 DEF Fits, IsLoop
  <2> QED
    BY <1>1, <1>5, <2>1, <2>2, MaskPushed
<1>6. CASE /\ stack' = Append(rest, User(s, m \cup {s})) /\ mask' = m \cup {s}
           /\ s \in Catchable /\ s \notin m
  <2> DEFINE f == User(s, m \cup {s})
  <2>1. f \in Frames /\ f.k = "user" /\ f.sig = s /\ f.asked = m \cup {s}
    <3>1. m \cup {s} \in SUBSET Sigs
      OBVIOUS
    <3> QED
      BY <3>1, NewFrames
  <2> HIDE DEF f
  <2>2. Fits(f, m, m \cup {s})
    BY <1>6, <2>1, SignalsTypes DEF Fits, IsLoop
  <2> QED
    BY <1>1, <1>6, <2>1, <2>2, MaskPushed DEF f
<1> QED
  BY <1>2, <1>3, <1>4, <1>5, <1>6

\* Frames that do not touch the mask.
Plain(f) == f.k \notin {"user", "pause"} /\ ~IsLoop(f)

LEMMA PlainTop ==
  ASSUME NEW s \in Seq(Frames), NEW f \in Frames, NEW m \in SUBSET Sigs, Plain(f)
  PROVE  Consistent(Append(s, f), m) <=> Consistent(s, m)
<1>1. Fits(f, m, m) /\ \A b : Fits(f, b, m) => b = m
  BY DEF Fits, Plain
<1> QED
  BY <1>1, MaskPushed, MaskPopped

LEMMA PollAgrees ==
  ASSUME Shape, MasksAgree, PollActions
  PROVE  MasksAgree'
<1>1. stack # <<>> /\ mask' = mask /\ mask \in SUBSET Sigs /\ Consistent(stack, mask)
  BY PollMoves DEF Shape, MasksAgree
<1>2. PICK rest : /\ WellFormed(rest) /\ rest # <<>> /\ Polling(Last(rest))
                  /\ Poll(rest) /\ NewBelow(rest)
  BY PollMoves
<1>3. /\ stack' = Append(rest, Collected) /\ rest \in Seq(Frames) /\ Collected \in Frames
      /\ Collected.k = "handle"
  BY <1>2, PollFrame DEF WellFormed
<1>4. Top \in Frames /\ Below \in Seq(Frames) /\ stack = Append(Below, Top) /\ stack \in Seq(Frames)
  BY <1>1, RunningFrame
<1>5. \A f : PolledCall(f) \/ f.k \in {"handle", "longjmp", "exit"} => Plain(f)
  BY DEF PolledCall, AsksAgain, Plain, IsLoop, Calls
<1>6. \A f : AsksAgain(f) => PolledCall(f)
  BY DEF PolledCall
<1>7. Consistent(rest, mask)
  <2>1. ASSUME NEW f \in Frames, PolledCall(f), rest = Append(stack, f)
        PROVE  Consistent(rest, mask)
    BY <1>1, <1>4, <1>5, <2>1, PlainTop
  <2>2. ASSUME NEW f \in Frames, f.k \in Calls \cup {"exit"}, Top.k \in {"abort", "exit"},
               rest = Append(Below, f)
        PROVE  Consistent(rest, mask)
    <3>1. Plain(f) /\ Plain(Top)
      BY <1>5, <2>2 DEF PolledCall, Calls
    <3> QED
      BY <1>1, <1>4, <2>2, <3>1, PlainTop
  <2>3. ASSUME NEW c \in Frames, NEW f \in Frames, c.k = "pause", c.old = mask, AsksAgain(f),
               rest = Append(Append(stack, c), f)
        PROVE  Consistent(rest, mask)
    <3>1. Fits(c, mask, mask)
      BY <2>3 DEF Fits, IsLoop
    <3>2. Consistent(Append(stack, c), mask) /\ Append(stack, c) \in Seq(Frames)
      BY <1>1, <1>4, <3>1, MaskPushed, Pushed
    <3> QED
      BY <1>1, <1>5, <1>6, <2>3, <3>2, PlainTop
  <2>4. ASSUME NEW c \in Frames, NEW f \in Frames, c.k = "longjmp", AsksAgain(f),
               rest = Append(Append(stack, c), f)
        PROVE  Consistent(rest, mask)
    <3>1. Consistent(Append(stack, c), mask) /\ Append(stack, c) \in Seq(Frames)
      BY <1>1, <1>4, <1>5, <2>4, PlainTop, Pushed
    <3> QED
      BY <1>1, <1>5, <1>6, <2>4, <3>1, PlainTop
  <2>5. ASSUME NEW c \in Frames, NEW f \in Frames, c.k = "pause", Top.k = "pause", c.old = Top.old,
               AsksAgain(f), rest = Append(Append(Below, c), f)
        PROVE  Consistent(rest, mask)
    <3>1. PICK b \in SUBSET Sigs : Consistent(Below, b) /\ Fits(Top, b, mask)
      BY <1>1, <1>4, MaskPopped
    <3>2. Fits(c, b, mask)
      BY <2>5, <3>1 DEF Fits, IsLoop
    <3>3. Consistent(Append(Below, c), mask) /\ Append(Below, c) \in Seq(Frames)
      BY <1>1, <1>4, <3>1, <3>2, MaskPushed, Pushed
    <3> QED
      BY <1>1, <1>5, <1>6, <2>5, <3>3, PlainTop
  <2>6. CASE rest = stack
    BY <1>1, <2>6
  <2>7. CASE \E c, f \in Frames :
               /\ Top.k = "user" /\ AsksAgain(f) /\ rest = Append(Append(stack, c), f)
               /\ (c.k = "pause" /\ c.old = mask) \/ c.k = "longjmp"
    BY <2>3, <2>4, <2>7
  <2>8. CASE \E c, f \in Frames :
               /\ Top.k = "pause" /\ AsksAgain(f) /\ rest = Append(Append(Below, c), f)
               /\ c.k = "pause" /\ c.old = Top.old
    BY <2>5, <2>8
  <2>9. NewBelow(rest)
    BY <1>2
  <2> QED
    BY <2>1, <2>2, <2>6, <2>7, <2>8, <2>9 DEF NewBelow
<1> QED
  BY <1>1, <1>3, <1>5, <1>7, PlainTop DEF MasksAgree

LEMMA SetMaskReturnAgrees ==
  ASSUME "sigsetmask" \notin HandlerCalls, Shape, MasksAgree, SetMaskReturns
  PROVE  MasksAgree'
<1> DEFINE c == Last(Below)
<1>1. /\ stack # <<>> /\ Top.k = "setmask" /\ Top.at \in 0 .. NSIG /\ Below # <<>>
      /\ Standing(Top, c) /\ mask' = mask /\ mask \in SUBSET Sigs
      /\ \/ c.k = "pause" /\ c.at = "done" /\ stack' = Front(Below)
         \/ \E f \in Frames :
              \/ /\ c.k = "pause" /\ stack' = Append(Front(Below), f)
                 /\ f.k = "pause" /\ f.old = c.old
              \/ /\ c.k = "user" /\ stack' = Append(Front(Below), f)
                 /\ f.k = "user" /\ f.sig = c.sig /\ f.asked = Top.new
              \/ /\ c.k = "longjmp" /\ stack' = Append(<<>>, f)
                 /\ IsMain(f) /\ f.asked = Top.new
  BY SetMaskReturnMoves DEF SetMaskReturns, Shape
<1>2. Top \in Frames /\ Below \in Seq(Frames) /\ stack = Append(Below, Top) /\ WellFormed(Below)
  BY <1>1, RunningFrame
<1>3. Front(Below) \in Seq(Frames) /\ c \in Frames /\ Below = Append(Front(Below), c)
  BY <1>1, <1>2, Unwound
<1> HIDE DEF c
<1>4. PICK n \in SUBSET Sigs : Consistent(Below, n) /\ Fits(Top, n, mask)
  BY <1>1, <1>2, MaskPopped DEF MasksAgree
<1>5. PICK b \in SUBSET Sigs : Consistent(Front(Below), b) /\ Fits(c, b, n)
  BY <1>3, <1>4, MaskPopped
<1>6. mask = Top.new
  BY <1>1, <1>4 DEF Fits, IsLoop
<1>7. CASE c.k = "pause" /\ c.at = "done" /\ stack' = Front(Below)
  <2>1. Top.new = c.old /\ b = c.old
    BY <1>1, <1>5, <1>7 DEF Standing, Fits
  <2> QED
    BY <1>1, <1>5, <1>6, <1>7, <2>1 DEF MasksAgree
<1>8. ASSUME NEW f \in Frames, c.k = "pause", stack' = Append(Front(Below), f),
             f.k = "pause", f.old = c.old
      PROVE  MasksAgree'
  <2>1. Fits(f, b, mask)
    BY <1>5, <1>8 DEF Fits, IsLoop
  <2> QED
    BY <1>1, <1>3, <1>5, <1>8, <2>1, MaskPushed DEF MasksAgree
<1>9. ASSUME NEW f \in Frames, c.k = "user", stack' = Append(Front(Below), f),
             f.k = "user", f.sig = c.sig, f.asked = Top.new
      PROVE  MasksAgree'
  <2>1. c.sig = 0
    BY <1>1, <1>9 DEF Standing
  <2>2. Fits(f, b, mask)
    BY <1>6, <1>9, <2>1 DEF Fits, IsLoop
  <2> QED
    BY <1>1, <1>3, <1>5, <1>9, <2>2, MaskPushed DEF MasksAgree
<1>10. ASSUME NEW f \in Frames, stack' = Append(<<>>, f), IsMain(f), f.asked = Top.new
       PROVE  MasksAgree'
  <2>1. Fits(f, mask, mask)
    BY <1>6, <1>10 DEF Fits, IsLoop, IsMain
  <2>2. Consistent(<<>>, mask) /\ <<>> \in Seq(Frames)
    <3>1. Len(<<>>) = 0 /\ <<>> \in Seq(Frames)
      BY EmptySeq
    <3>2. Explains([i \in 0 .. 0 |-> mask], <<>>, mask)
      BY <1>1, <3>1 DEF Explains
    <3> QED
      BY <3>1, <3>2 DEF Consistent
  <2> QED
    BY <1>1, <1>10, <2>1, <2>2, MaskPushed DEF MasksAgree
<1> QED
  BY <1>1, <1>7, <1>8, <1>9, <1>10

LEMMA AgreesStep ==
  ASSUME "sigsetmask" \notin HandlerCalls, Shape, MasksAgree, [Next]_vars
  PROVE  MasksAgree'
<1> USE SignalsTypes
<1>1. stack \in Seq(Frames) /\ WellFormed(stack) /\ mask \in SUBSET Sigs /\ pending \subseteq Sigs
  BY DEF Shape, WellFormed
<1>2. ASSUME stack # <<>>
      PROVE  /\ Top \in Frames /\ Below \in Seq(Frames) /\ stack = Append(Below, Top)
             /\ Consistent(stack, mask)
             /\ Plain(Top) => Consistent(Below, mask)
             /\ \E b \in SUBSET Sigs : Consistent(Below, b) /\ Fits(Top, b, mask)
  BY <1>1, <1>2, RunningFrame, PlainTop, MaskPopped DEF MasksAgree
<1>3. ASSUME NEW s \in Sigs, NEW rest, WellFormed(rest), rest # <<>>,
             Dispatching(Last(rest)), Consistent(rest, mask), Dispatch(s, rest)
      PROVE  MasksAgree'
  BY <1>1, <1>3, DispatchAgrees DEF MasksAgree
<1>4. ASSUME NEW s \in Sigs, NEW at \in 1 .. 4, NEW hit, Source(at, hit, s) PROVE MasksAgree'
  <2>1. PICK h \in Frames :
          /\ Looked(h, at)
          /\ \/ hit /\ Dispatch(s, Append(Below, h))
             \/ ~hit /\ stack' = Append(Below, h) /\ UNCHANGED <<mask, pending>>
    BY <1>4, SourceMoves
  <2>2. /\ WellFormed(Append(Below, h)) /\ Append(Below, h) # <<>> /\ stack # <<>>
        /\ Dispatching(Last(Append(Below, h))) /\ Plain(h) /\ Plain(Top)
    BY <1>4, <2>1, SourceMoves DEF Looked, Dispatching, Plain, IsLoop
  <2>3. Consistent(Append(Below, h), mask)
    BY <1>1, <1>2, <2>2, PlainTop
  <2>4. CASE stack' = Append(Below, h) /\ mask' = mask
    BY <2>3, <2>4 DEF MasksAgree
  <2>5. CASE Dispatch(s, Append(Below, h))
    BY <1>3, <2>2, <2>3, <2>5
  <2> QED
    BY <2>1, <2>4, <2>5
<1>5. CASE CheckAlarm \/ CheckSigint \/ CheckSigquit \/ CheckChildren
  <2>1. {SIGALRM, SIGINT, SIGQUIT, SIGCHLD} \subseteq Sigs /\ {1, 2, 3, 4} \subseteq 1 .. 4
    OBVIOUS
  <2> QED
    BY <1>4, <1>5, <2>1 DEF CheckAlarm, CheckSigint, CheckSigquit, CheckChildren
<1>6. CASE HandleReturns
  <2> DEFINE c == Last(Below)
  <2>1. /\ stack # <<>> /\ Top.k = "handle" /\ Below # <<>> /\ mask' \subseteq Sigs
        /\ \/ stack' = Below /\ mask' = mask
           \/ \E f \in Frames :
                /\ stack' = Append(Front(Below), f) /\ c.k = f.k
                /\ \/ f.k = "pause" /\ f.old = c.old /\ mask' = mask
                   \/ f.k = "setmask" /\ f.new = c.new /\ f.at = 0 /\ mask' = f.new
    BY <1>6, HandleMoves
  <2>2. Front(Below) \in Seq(Frames) /\ c \in Frames /\ Below = Append(Front(Below), c)
    BY <2>1, RunningFrame, Unwound
  <2> HIDE DEF c
  <2>3. Consistent(Below, mask)
    <3>1. Plain(Top)
      BY <2>1 DEF Plain, IsLoop
    <3> QED
      BY <1>2, <2>1, <3>1
  <2>4. PICK b \in SUBSET Sigs : Consistent(Front(Below), b) /\ Fits(c, b, mask)
    BY <1>1, <2>2, <2>3, MaskPopped
  <2>5. ASSUME NEW f \in Frames, stack' = Append(Front(Below), f), c.k = "pause", f.k = "pause",
               f.old = c.old, mask' = mask
        PROVE  MasksAgree'
    <3>1. Fits(f, b, mask)
      BY <2>4, <2>5 DEF Fits, IsLoop
    <3> QED
      BY <1>1, <2>2, <2>4, <2>5, <3>1, MaskPushed DEF MasksAgree
  <2>6. ASSUME NEW f \in Frames, stack' = Append(Front(Below), f), f.k = "setmask", f.at = 0,
               mask' = f.new
        PROVE  MasksAgree'
    <3>1. Fits(f, b, mask')
      BY <2>6 DEF Fits, IsLoop
    <3> QED
      BY <2>1, <2>2, <2>4, <2>6, <3>1, MaskPushed DEF MasksAgree
  <2>7. CASE stack' = Below /\ mask' = mask
    BY <2>3, <2>7 DEF MasksAgree
  <2> QED
    BY <2>1, <2>5, <2>6, <2>7
<1>7. CASE SetMaskLoop
  <2>1. PICK s \in pending \ mask, f \in Frames :
          /\ Top.k = "setmask" /\ Top.at \in 0 .. NSIG /\ s >= Top.at
          /\ f.k = "setmask" /\ f.new = Top.new /\ f.at = s + 1
          /\ WellFormed(Append(Below, f)) /\ Append(Below, f) # <<>>
          /\ Last(Append(Below, f)) = f /\ Dispatch(s, Append(Below, f))
    BY <1>7, SetMaskMoves
  <2>2. s \in Sigs /\ s \in Nat
    <3>1. \A x \in Sigs : x \in Nat
      OBVIOUS
    <3> QED
      BY <1>1, <2>1, <3>1
  <2>3. stack # <<>> /\ Dispatching(Last(Append(Below, f))) /\ IsLoop(f) /\ IsLoop(Top)
    BY <1>7, <2>1, <2>2, SetMaskMoves DEF Dispatching, IsLoop
  <2>4. PICK b \in SUBSET Sigs : Consistent(Below, b) /\ Fits(Top, b, mask)
    BY <1>2, <2>3
  <2>5. Fits(f, b, mask)
    BY <2>1, <2>3, <2>4 DEF Fits
  <2>6. Consistent(Append(Below, f), mask)
    BY <1>1, <1>2, <2>3, <2>4, <2>5, MaskPushed
  <2> QED
    BY <1>3, <2>1, <2>2, <2>3, <2>6
<1>8. CASE DoSignal \/ DoKillSelf \/ DoKillChild
  <2>1. stack # <<>> /\ Top.k \in Calls
    BY <1>8 DEF DoSignal, DoKillSelf, DoKillChild, Running, Calls
  <2>2. Consistent(Below, mask)
    BY <1>2, <2>1 DEF Plain, IsLoop, Calls
  <2>3. CASE stack' = Below /\ mask' = mask
    BY <2>2, <2>3 DEF MasksAgree
  <2>4. ASSUME NEW s \in Sigs, Dispatch(s, Below) PROVE MasksAgree'
    BY <1>3, <2>1, <2>2, <2>4, CallDone
  <2>5. Top.k = "killself" => Top.arg \in Sigs
    BY <2>1, RunningFrame, FrameFields
  <2> QED
    BY <1>8, <2>3, <2>4, <2>5 DEF DoSignal, DoKillSelf, DoKillChild, Running
<1>9. CASE HandlerReturns
  <2> DEFINE s == Top.sig
  <2>1. /\ stack # <<>> /\ Top.k = "user" /\ s \in Catchable
        /\ WellFormed(Below) /\ Below # <<>> /\ Dispatching(Last(Below))
        /\ \/ s # SIGKILL /\ Deliver(s, mask \ {s}, Below)
           \/ mask' = mask \ {s} /\ stack' = Below
    BY <1>9, HandlerDone
  <2>2. mask \ {s} \in SUBSET Sigs /\ s \in Sigs /\ s # 0 /\ s \notin mask \ {s}
    BY <1>1, <2>1
  <2>3. Consistent(Below, mask \ {s})
    <3>1. PICK b \in SUBSET Sigs : Consistent(Below, b) /\ Fits(Top, b, mask)
      BY <1>2, <2>1
    <3>2. b = mask \ {s}
      BY <2>1, <2>2, <3>1 DEF Fits
    <3> QED
      BY <3>1, <3>2
  <2> HIDE DEF s
  <2>4. CASE mask' = mask \ {s} /\ stack' = Below
    BY <2>3, <2>4 DEF MasksAgree
  <2>5. CASE s # SIGKILL /\ Deliver(s, mask \ {s}, Below)
    BY <2>1, <2>2, <2>3, <2>5, DispatchAgrees DEF MasksAgree
  <2> QED
    BY <2>1, <2>4, <2>5
<1>10. CASE FloatingTrap
  <2>1. stack # <<>> /\ Dispatching(Last(stack)) /\ SIGFPE \in Sigs /\ Dispatch(SIGFPE, stack)
    BY <1>10 DEF FloatingTrap, MayCall, Running, Dispatching, Top
  <2> QED
    BY <1>1, <1>2, <1>3, <2>1
<1>11. CASE CallExit
  <2>1. stack # <<>> /\ stack' = Append(stack, Exit(0)) /\ mask' = mask
    BY <1>11 DEF CallExit, MayCall, Running
  <2>2. Exit(0) \in Frames /\ Exit(0).k = "exit"
    <3>1. 0 \in 0 .. NumFds
      OBVIOUS
    <3> QED
      BY <3>1, NewFrames
  <2>3. Plain(Exit(0))
    BY <2>2 DEF Plain, IsLoop
  <2> QED
    BY <1>1, <1>2, <2>1, <2>2, <2>3, PlainTop DEF MasksAgree
<1>12. CASE DoExit /\ stack' = <<>>
  BY <1>12 DEF MasksAgree
<1>13. CASE CallAlarm \/ CallSetjmp \/ TypeBreak \/ TimerReplies \/ ChildExits \/ UNCHANGED vars
  BY <1>13 DEF CallAlarm, CallSetjmp, TypeBreak, TimerReplies, ChildExits, vars, MasksAgree
<1>14. CASE PollActions
  BY <1>14, PollAgrees
<1>15. CASE SetMaskReturns
  BY <1>15, SetMaskReturnAgrees
<1> QED
  BY <1>5, <1>6, <1>7, <1>8, <1>9, <1>10, <1>11, <1>12, <1>13, <1>14, <1>15
  DEF Next, LibraryStep, UserStep, Environment, Terminated, PollActions

LEMMA AgreesInit == Init => MasksAgree
<1> SUFFICES ASSUME Init PROVE MasksAgree
  OBVIOUS
<1> DEFINE f == User(0, {})
<1>1. f \in Frames /\ Fits(f, {}, {}) /\ stack = Append(<<>>, f) /\ mask = {}
  BY DEF User, Frames, Fits, IsLoop, Init
<1>2. Consistent(<<>>, {}) /\ <<>> \in Seq(Frames)
  <2>1. Len(<<>>) = 0 /\ <<>> \in Seq(Frames)
    BY EmptySeq
  <2>2. Explains([i \in 0 .. 0 |-> {}], <<>>, {})
    BY <2>1 DEF Explains
  <2> QED
    BY <2>1, <2>2 DEF Consistent
<1> HIDE DEF f
<1> QED
  BY <1>1, <1>2, MaskPushed DEF MasksAgree

\* If handlers do not call sigsetmask, all code always runs under the mask it
\* asked for: sigpause, nested handlers, longjmp and interrupted calls of
\* sigsetmask itself give every caller back its own mask.
THEOREM MaskSafe ==
  ASSUME "sigsetmask" \notin HandlerCalls
  PROVE  Spec => []MaskAsAsked
<1>1. Shape /\ MasksAgree /\ [Next]_vars => MasksAgree'
  BY AgreesStep
<1>2. Shape /\ MasksAgree => MaskAsAsked
  <2> SUFFICES ASSUME Shape, MasksAgree, Running("user") PROVE mask = Top.asked
    BY DEF MaskAsAsked
  <2>1. stack # <<>> /\ Top.k = "user" /\ Consistent(stack, mask) /\ mask \in SUBSET Sigs
    BY DEF Running, MasksAgree, Shape
  <2>2. Top \in Frames /\ Below \in Seq(Frames) /\ stack = Append(Below, Top)
    BY <2>1, RunningFrame
  <2>3. PICK b \in SUBSET Sigs : Fits(Top, b, mask)
    BY <2>1, <2>2, MaskPopped
  <2> QED
    BY <2>1, <2>3 DEF Fits
<1> QED
  BY <1>1, <1>2, ShapeInit, ShapeStep, AgreesInit, PTL DEF Spec

\* If handlers do not call sigsetmask, no handler is entered again while it
\* runs: between two activations for one signal on the C stack there is always
\* a sigsetmask or sigpause that released the signal on purpose.
THEOREM ReentrySafe ==
  ASSUME "sigsetmask" \notin HandlerCalls
  PROVE  Spec => []HandlerNotReentered
<1>1. Shape /\ MasksAgree /\ [Next]_vars => MasksAgree'
  BY AgreesStep
<1>2. Shape /\ MasksAgree => HandlerNotReentered
  <2> SUFFICES ASSUME Shape, MasksAgree, NEW i \in UserFrames, NEW j \in UserFrames,
                      i < j, stack[i].sig # 0, stack[i].sig = stack[j].sig,
                      \A n \in i + 1 .. j - 1 : stack[n].k \notin {"setmask", "pause"}
               PROVE  FALSE
    BY DEF HandlerNotReentered
  <2> DEFINE s == stack[i].sig
  <2>1. /\ stack \in Seq(Frames) /\ Len(stack) \in Nat
        /\ i \in 1 .. Len(stack) /\ j \in 1 .. Len(stack)
        /\ stack[i].k = "user" /\ stack[j].k = "user"
        /\ \A n \in 2 .. Len(stack) : Standing(stack[n], stack[n - 1])
    BY LenProperties DEF Shape, WellFormed, UserFrames
  <2>2. stack # <<>>
    BY <2>1, EmptySeq
  <2>3. PICK g : Explains(g, stack, mask)
    BY <2>2 DEF MasksAgree, Consistent
  <2>4. \A n \in 1 .. Len(stack) : Fits(stack[n], g[n - 1], g[n])
    BY <2>3 DEF Explains
  <2> HIDE DEF s
  <2>5. s \in g[i] /\ s \notin g[j - 1]
    BY <2>1, <2>4 DEF Fits, s
  <2> DEFINE Lost == {n \in i .. j - 1 : s \notin g[n]}
  <2>6. Lost \in SUBSET Nat /\ Lost # {}
    BY <2>1, <2>5, SMTT(30)
  <2>7. PICK n \in Lost : \A x \in Lost : n <= x
    <3> HIDE DEF Lost
    <3> QED
      BY <2>6, Minimum
  <2>8. n \in i + 1 .. j - 1 /\ s \notin g[n] /\ n - 1 \in i .. j - 1
    BY <2>1, <2>5, <2>7
  <2>9. s \in g[n - 1]
    BY <2>1, <2>7, <2>8
  <2>10. Fits(stack[n], g[n - 1], g[n]) /\ Standing(stack[n], stack[n - 1])
    BY <2>1, <2>4, <2>8
  <2>11. stack[n].k \notin {"setmask", "pause"}
    BY <2>8
  <2>12. stack[n].k = "user" => stack[n].sig # 0
    BY <2>10, SignalsTypes DEF Standing, CallerOK
  <2> QED
    BY <2>8, <2>9, <2>10, <2>11, <2>12 DEF Fits, IsLoop
<1> QED
  BY <1>1, <1>2, ShapeInit, ShapeStep, AgreesInit, PTL DEF Spec
=============================================================================
