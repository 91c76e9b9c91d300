-------------------------- MODULE ProcessesProofs --------------------------
(***************************************************************************)
(* Proofs about Processes, for any number of children.  IInv strengthens   *)
(* the invariants the runs check with what makes them inductive: exec is   *)
(* the running call and its child's message is still to be drained         *)
(* (Handshake), and the life of an exit message follows the life of the    *)
(* child that holds it (Messages).                                         *)
(***************************************************************************)
EXTENDS Processes, SequenceTheorems, TLAPS

\* While exec waits, it is the running call, the globals are those of its
\* child, which is the newest and not in the table yet.
Handshake ==
  /\ \A i \in DOMAIN stack : stack[i].k = "exec" => i = Len(stack)
  /\ At("exec") =>
       LET p == Top.pid IN
         /\ p \in Pid /\ p + 1 = next /\ globals = p
         /\ kid[p] # "none" /\ table[p] = "none" /\ msg[p] \in {"held", "queued"}
  /\ \A p \in Pid : kid[p] \in {"boot", "copied"} =>
       ~startup /\ At("exec") /\ Top.pid = p
  /\ startup => At("exec")

\* Process numbers not handed out yet are untouched.
Unused ==
  \A p \in Pid : p >= next =>
    kid[p] = "none" /\ table[p] = "none" /\ msg[p] = "none"

\* Where the exit message is, by where its child is.
Messages ==
  \A p \in Pid :
    /\ msg[p] = "held" <=> kid[p] \notin {"none", "gone"}
    /\ frees[p] = IF msg[p] = "freed" THEN 1 ELSE 0
    /\ msg[p] = "queued" => kid[p] = "gone" /\ door
    /\ msg[p] = "lost" => kid[p] = "gone" /\ ~door
    /\ kid[p] = "gone" => msg[p] # "none"
    /\ kid[p] = "noport" => ~door
    /\ table[p] # "none" => kid[p] # "none"

IInv ==
  /\ TypeOK /\ Handshake /\ Unused /\ Messages
  /\ OwnArguments /\ NoForgottenExit /\ QueuedIsSignalled

----------------------------------------------------------------------------
(* Activations.                                                            *)

NoExec == \A i \in DOMAIN stack : stack[i].k # "exec"
SomePoll == \E i \in DOMAIN stack : stack[i].k = "poll"
Announced == SIGCHLD \in bits \/ SomePoll

StackOK ==
  /\ stack \in Seq(Frames)
  /\ \A i \in DOMAIN stack : stack[i].sig = 0 <=> i = 1

\* The running activation goes on as f, perhaps below a new handler.
Turns(f) ==
  \/ Becomes(f)
  \/ \E s \in Signals : stack' = Append(Append(Front(stack), f), Code(s))

LEMMA Popped ==
  ASSUME NEW st \in Seq(Frames), st # <<>>
  PROVE  /\ Front(st) \in Seq(Frames) /\ Len(st) \in Nat \ {0}
         /\ Len(Front(st)) = Len(st) - 1
         /\ \A i \in 1 .. Len(st) - 1 : Front(st)[i] = st[i]
<1>1. Len(st) \in Nat \ {0}
  BY EmptySeq, LenProperties
<1>2. PICK n \in Nat : n = Len(st) - 1
  BY <1>1
<1>3. 1 \in Int /\ n \in Int /\ \A i \in 1 .. n : st[i] \in Frames
  BY <1>1, <1>2, ElementOfSeq
<1>4. Front(st) = SubSeq(st, 1, n)
  BY <1>2 DEF Front
<1>5. /\ SubSeq(st, 1, n) \in Seq(Frames)
      /\ Len(SubSeq(st, 1, n)) = IF 1 <= n THEN n - 1 + 1 ELSE 0
      /\ \A i \in 1 .. n - 1 + 1 : SubSeq(st, 1, n)[i] = st[1 + i - 1]
  BY <1>3, SubSeqProperties
<1>6. n - 1 + 1 = n /\ \A i \in 1 .. n : 1 + i - 1 = i
  BY <1>2
<1>7. Len(SubSeq(st, 1, n)) = n
  BY <1>2, <1>5, <1>6
<1> QED
  BY <1>1, <1>2, <1>4, <1>5, <1>6, <1>7

LEMMA Replaced ==
  ASSUME NEW st \in Seq(Frames), st # <<>>, NEW f \in Frames
  PROVE  /\ Append(Front(st), f) \in Seq(Frames)
         /\ Len(Append(Front(st), f)) = Len(st)
         /\ \A i \in 1 .. Len(st) :
              Append(Front(st), f)[i] = IF i = Len(st) THEN f ELSE st[i]
<1>1. /\ Front(st) \in Seq(Frames) /\ Len(st) \in Nat \ {0} /\ Len(Front(st)) = Len(st) - 1
      /\ \A i \in 1 .. Len(st) - 1 : Front(st)[i] = st[i]
  BY Popped
<1>2. /\ Append(Front(st), f) \in Seq(Frames)
      /\ Len(Append(Front(st), f)) = Len(Front(st)) + 1
      /\ \A i \in 1 .. Len(Front(st)) : Append(Front(st), f)[i] = Front(st)[i]
      /\ Append(Front(st), f)[Len(Front(st)) + 1] = f
  BY <1>1, AppendProperties
<1> QED
  BY <1>1, <1>2

LEMMA Pushed ==
  ASSUME NEW st \in Seq(Frames), st # <<>>, NEW f \in Frames, NEW g \in Frames
  PROVE  /\ Append(Append(Front(st), f), g) \in Seq(Frames)
         /\ Len(Append(Append(Front(st), f), g)) = Len(st) + 1
         /\ \A i \in 1 .. Len(st) + 1 :
              Append(Append(Front(st), f), g)[i] =
                IF i = Len(st) + 1 THEN g ELSE IF i = Len(st) THEN f ELSE st[i]
<1>1. PICK u : u = Append(Front(st), f)
  OBVIOUS
<1>2. /\ u \in Seq(Frames) /\ Len(u) = Len(st)
      /\ \A i \in 1 .. Len(st) : u[i] = IF i = Len(st) THEN f ELSE st[i]
  BY <1>1, Replaced
<1>3. /\ Append(u, g) \in Seq(Frames) /\ Len(Append(u, g)) = Len(u) + 1
      /\ \A i \in 1 .. Len(u) : Append(u, g)[i] = u[i]
      /\ Append(u, g)[Len(u) + 1] = g
  BY <1>2, AppendProperties
<1>4. Len(st) \in Nat
  BY LenProperties
<1>5. \A i \in 1 .. Len(st) + 1 :
        Append(u, g)[i] = IF i = Len(st) + 1 THEN g ELSE IF i = Len(st) THEN f ELSE st[i]
  BY <1>2, <1>3, <1>4
<1> QED
  BY <1>1, <1>2, <1>3, <1>5

\* The running activation is the last one.
LEMMA TopType ==
  ASSUME StackOK, stack # <<>>
  PROVE  /\ Len(stack) \in DOMAIN stack /\ DOMAIN stack = 1 .. Len(stack)
         /\ Top = stack[Len(stack)] /\ Top \in Frames
         /\ Top.sig = 0 <=> Len(stack) = 1
<1>1. Len(stack) \in Nat \ {0} /\ DOMAIN stack = 1 .. Len(stack)
  BY DEF StackOK
<1>2. Top = stack[Len(stack)]
  BY DEF Top, Last
<1>3. stack[Len(stack)] \in Frames
  BY <1>1 DEF StackOK
<1> QED
  BY <1>1, <1>2, <1>3 DEF StackOK

LEMMA TypeMeans == TypeOK => StackOK
BY DEF TypeOK, StackOK

\* Code(s) is an activation: main or the handler of s.
LEMMA CodeType == \A s \in {0} \cup Signals : Code(s) \in Frames /\ Code(s).sig = s
BY ProcessesAssumption DEF Code, Frames

LEMMA SignalsPositive == SIGCHLD \in Signals /\ 0 \notin Signals
BY ProcessesAssumption DEF Signals, SIGCHLD, SIGALRM, SIGINT, SIGQUIT

\* What a turn leaves of the activations.
LEMMA TurnsTo ==
  ASSUME StackOK, stack # <<>>, NEW f \in Frames, f.sig = Top.sig, Turns(f)
  PROVE  /\ StackOK' /\ stack' # <<>>
         /\ Len(stack) \in DOMAIN stack' /\ stack'[Len(stack)] = f
         /\ \A i \in DOMAIN stack' :
              \/ i = Len(stack)
              \/ i \in DOMAIN stack /\ stack'[i] = stack[i]
              \/ stack'[i].k = "user"
         /\ \A i \in DOMAIN stack \ {Len(stack)} :
              i \in DOMAIN stack' /\ stack'[i] = stack[i]
<1>1. /\ Len(stack) \in Nat \ {0} /\ DOMAIN stack = 1 .. Len(stack)
      /\ Top = stack[Len(stack)] /\ stack \in Seq(Frames)
      /\ \A i \in 1 .. Len(stack) : stack[i].sig = 0 <=> i = 1
  BY TopType DEF StackOK
<1>2. PICK n \in Nat \ {0} : n = Len(stack)
  BY <1>1
<1>11. stack[n].sig = 0 <=> n = 1
  BY <1>1, <1>2
<1>3. PICK t : t = stack'
  OBVIOUS
<1>4. /\ t \in Seq(Frames) /\ (\E m \in {n, n + 1} : DOMAIN t = 1 .. m) /\ t[n] = f
      /\ \A i \in 1 .. n : i # n => t[i] = stack[i]
      /\ \A i \in DOMAIN t : i > n => t[i].k = "user" /\ t[i].sig # 0
  <2>1. CASE Becomes(f)
    <3>1. t = Append(Front(stack), f)
      BY <1>3, <2>1 DEF Becomes
    <3>2. /\ t \in Seq(Frames) /\ Len(t) = n
          /\ \A i \in 1 .. n : t[i] = IF i = n THEN f ELSE stack[i]
      BY <1>1, <1>2, <3>1, Replaced
    <3>3. DOMAIN t = 1 .. n
      BY <3>2, LenProperties
    <3> QED
      BY <3>2, <3>3
  <2>2. ASSUME NEW s \in Signals, stack' = Append(Append(Front(stack), f), Code(s))
        PROVE  /\ t \in Seq(Frames) /\ (\E m \in {n, n + 1} : DOMAIN t = 1 .. m) /\ t[n] = f
               /\ \A i \in 1 .. n : i # n => t[i] = stack[i]
               /\ \A i \in DOMAIN t : i > n => t[i].k = "user" /\ t[i].sig # 0
    <3>1. PICK g : g = Code(s)
      OBVIOUS
    <3>2. g \in Frames /\ g.sig # 0 /\ g.k = "user"
      <4>1. g \in Frames /\ g.sig = s
        BY <3>1, CodeType
      <4>2. g.k = "user"
        BY <3>1 DEF Code
      <4> QED
        BY <4>1, <4>2, SignalsPositive
    <3>3. t = Append(Append(Front(stack), f), g)
      BY <1>3, <2>2, <3>1
    <3>4. /\ t \in Seq(Frames) /\ Len(t) = n + 1
          /\ \A i \in 1 .. n + 1 :
               t[i] = IF i = n + 1 THEN g ELSE IF i = n THEN f ELSE stack[i]
      <4>1. stack \in Seq(Frames)
        BY <1>1
      <4>2. /\ t \in Seq(Frames)
            /\ Len(t) = Len(stack) + 1
            /\ \A i \in 1 .. Len(stack) + 1 :
                 t[i] = IF i = Len(stack) + 1 THEN g ELSE IF i = Len(stack) THEN f ELSE stack[i]
        BY <3>2, <3>3, <4>1, Pushed
      <4> QED
        BY <1>2, <4>2
    <3>5. DOMAIN t = 1 .. n + 1
      BY <3>4, LenProperties
    <3> QED
      BY <3>2, <3>4, <3>5
  <2> QED
    BY <2>1, <2>2 DEF Turns
<1>10. PICK m \in {n, n + 1} : DOMAIN t = 1 .. m
  BY <1>4
<1>5. n \in DOMAIN t /\ t # <<>>
  BY <1>10
<1>6. \A i \in DOMAIN t : t[i].sig = 0 <=> i = 1
  <2> TAKE j \in DOMAIN t
  <2>1. CASE j > n
    BY <1>4, <1>10, <2>1
  <2>2. CASE j = n
    <3>1. t[j].sig = stack[n].sig
      BY <1>1, <1>2, <1>4, <2>2
    <3> QED
      BY <1>11, <2>2, <3>1
  <2>3. CASE j \in 1 .. n /\ j # n
    BY <1>1, <1>2, <1>4, <2>3
  <2> QED
    BY <1>10, <2>1, <2>2, <2>3
<1>7. StackOK'
  BY <1>3, <1>4, <1>6 DEF StackOK
<1>8. /\ \A i \in DOMAIN t : i = n \/ (i \in 1 .. n /\ t[i] = stack[i]) \/ t[i].k = "user"
      /\ \A i \in 1 .. n : i # n => i \in DOMAIN t /\ t[i] = stack[i]
  BY <1>4, <1>10
<1> QED
  BY <1>1, <1>2, <1>3, <1>4, <1>5, <1>7, <1>8

\* A turn that starts no exec leaves none, and one that ends no poll ends none.
LEMMA TurnsKeeps ==
  ASSUME IInv, stack # <<>>, NEW f \in Frames, f.sig = Top.sig, Turns(f), f.k # "exec"
  PROVE  /\ NoExec' /\ stack' # <<>>
         /\ f.k = "poll" \/ (SomePoll /\ Top.k # "poll") => SomePoll'
<1>1. StackOK /\ \A i \in DOMAIN stack \ {Len(stack)} : stack[i].k # "exec"
  BY TypeMeans DEF IInv, Handshake
<1>2. NoExec' /\ stack' # <<>>
  BY <1>1, TurnsTo DEF NoExec
<1>3. ASSUME f.k = "poll" \/ (SomePoll /\ Top.k # "poll") PROVE SomePoll'
  <2>1. CASE f.k = "poll"
    BY <1>1, <2>1, TurnsTo DEF SomePoll
  <2>2. CASE SomePoll /\ Top.k # "poll"
    <3>1. PICK i \in DOMAIN stack : stack[i].k = "poll"
      BY <2>2 DEF SomePoll
    <3>2. i # Len(stack)
      BY <1>1, <2>2, <3>1, TopType
    <3> QED
      BY <1>1, <3>1, <3>2, TurnsTo DEF SomePoll
  <2> QED
    BY <1>3, <2>1, <2>2
<1> QED
  BY <1>2, <1>3

----------------------------------------------------------------------------
(* Turns of the actions.                                                   *)

LEMMA DispatchTurns ==
  ASSUME NEW s \in Signals, NEW f, Dispatch(s, f), raised \subseteq Signals
  PROVE  Turns(f) /\ raised' \subseteq Signals
BY DEF Dispatch, Turns

LEMMA CollectTurns ==
  ASSUME StackOK, NEW f \in Frames, Collect(f)
  PROVE  /\ bits' = {} /\ Turns(Polling(f)) /\ Polling(f) \in Frames
         /\ Polling(f).sig = f.sig /\ Polling(f).k = "poll"
BY DEF Collect, Polling, Turns, Frames

\* Where ChecksOther leaves the activation that polls.
LEMMA ChecksOtherTurns ==
  ASSUME StackOK, ChecksOther, raised \subseteq Signals, bits \subseteq Signals
  PROVE  /\ \E f \in Frames : f.sig = Top.sig /\ f.k = "poll" /\ Turns(f)
         /\ raised' \subseteq Signals /\ bits' \subseteq Signals
<1>1. stack # <<>> /\ Top.k = "poll" /\ Top \in Frames
  BY TopType DEF ChecksOther, At
<1>2. PICK s \in Others :
        \/ Dispatch(s, [Top EXCEPT !.due = @ \ {s}]) /\ UNCHANGED bits
        \/ Collect([Top EXCEPT !.then = "exit"]) /\ UNCHANGED raised
  BY DEF ChecksOther
<1>3. CASE Dispatch(s, [Top EXCEPT !.due = @ \ {s}]) /\ UNCHANGED bits
  <2> DEFINE f == [Top EXCEPT !.due = @ \ {s}]
  <2>1. f \in Frames /\ f.sig = Top.sig /\ f.k = "poll"
    BY <1>1 DEF Frames
  <2>2. Turns(f) /\ raised' \subseteq Signals
    BY <1>3, DispatchTurns DEF Signals
  <2> QED
    BY <1>3, <2>1, <2>2
<1>4. CASE Collect([Top EXCEPT !.then = "exit"]) /\ UNCHANGED raised
  <2> DEFINE f == [Top EXCEPT !.then = "exit"]
  <2>1. f \in Frames /\ f.sig = Top.sig
    BY <1>1 DEF Frames
  <2>2. /\ bits' = {} /\ Turns(Polling(f)) /\ Polling(f) \in Frames
        /\ Polling(f).sig = f.sig /\ Polling(f).k = "poll"
    BY <1>4, <2>1, CollectTurns
  <2> QED
    BY <1>4, <2>1, <2>2
<1> QED
  BY <1>2, <1>3, <1>4

\* Where a call that polls leaves its activation.
PollCalls == Poll \/ KillCalled \/ ExitCalled \/ WaitWakes
LEMMA PollTurns ==
  ASSUME StackOK, PollCalls
  PROVE  /\ \E f \in Frames : f.sig = Top.sig /\ f.k = "poll" /\ Turns(f)
         /\ bits' = {} /\ stack # <<>> /\ Top.k \in {"user", "block"}
<1>1. stack # <<>> /\ Top.k \in {"user", "block"} /\ Top \in Frames
  BY TopType DEF PollCalls, Poll, KillCalled, ExitCalled, WaitWakes, Calls, At
<1>2. \E f \in Frames : f.sig = Top.sig /\ Collect(f)
  <2>1. CASE Poll
    BY <1>1, <2>1 DEF Poll
  <2>2. CASE KillCalled
    <3>1. PICK p \in Targets \ {0} : Collect([Top EXCEPT !.then = "kill", !.pid = p])
      BY <2>2 DEF KillCalled
    <3>2. p \in 0 .. MaxPid
      BY ProcessesAssumption
    <3>3. /\ [Top EXCEPT !.then = "kill", !.pid = p] \in Frames
          /\ [Top EXCEPT !.then = "kill", !.pid = p].sig = Top.sig
      BY <1>1, <3>2 DEF Frames
    <3> QED
      BY <3>1, <3>3
  <2>3. CASE ExitCalled
    <3>1. [Top EXCEPT !.then = "exit"] \in Frames /\ [Top EXCEPT !.then = "exit"].sig = Top.sig
      BY <1>1 DEF Frames
    <3> QED
      BY <2>3, <3>1 DEF ExitCalled
  <2>4. CASE WaitWakes
    <3>1. [Top EXCEPT !.then = "scan"] \in Frames /\ [Top EXCEPT !.then = "scan"].sig = Top.sig
      BY <1>1 DEF Frames
    <3> QED
      BY <2>4, <3>1 DEF WaitWakes
  <2> QED
    BY <2>1, <2>2, <2>3, <2>4 DEF PollCalls
<1>3. PICK f \in Frames : f.sig = Top.sig /\ Collect(f)
  BY <1>2
<1>4. /\ bits' = {} /\ Turns(Polling(f)) /\ Polling(f) \in Frames
      /\ Polling(f).sig = f.sig /\ Polling(f).k = "poll"
  BY <1>3, CollectTurns
<1> QED
  BY <1>1, <1>3, <1>4

\* Where check_children leaves it.
LEMMA CheckTurns ==
  ASSUME StackOK, At("poll"), CheckChildren, raised \subseteq Signals
  PROVE  /\ Turns(Resumed) /\ raised' \subseteq Signals
         /\ Resumed \in Frames /\ Resumed.sig = Top.sig /\ Resumed.k # "exec"
<1>1. stack # <<>> /\ Top \in Frames
  BY TopType DEF At
<1>2. Resumed \in Frames /\ Resumed.sig = Top.sig /\ Resumed.k # "exec"
  BY <1>1 DEF Resumed, Frames
<1>3. Turns(Resumed) /\ raised' \subseteq Signals
  BY DispatchTurns, SignalsPositive DEF CheckChildren, Notices, Turns
<1> QED
  BY <1>2, <1>3

\* Where wait4 leaves it.
WaitSteps == WaitCalled \/ WaitScans
LEMMA WaitTurns ==
  ASSUME StackOK, WaitSteps
  PROVE  /\ \E f \in Frames : f.sig = Top.sig /\ f.k # "exec" /\ Turns(f)
         /\ stack # <<>> /\ Top.k \in {"user", "scan"}
<1>1. stack # <<>> /\ Top.k \in {"user", "scan"} /\ Top \in Frames
  BY TopType DEF WaitSteps, WaitCalled, WaitScans, Calls, At
<1>2. CASE WaitCalled
  <2>1. PICK pid \in Targets, hang \in BOOLEAN :
          Becomes([Top EXCEPT !.k = "scan", !.pid = pid, !.hang = hang])
    BY <1>2 DEF WaitCalled
  <2>2. pid \in 0 .. MaxPid
    BY ProcessesAssumption
  <2> DEFINE f == [Top EXCEPT !.k = "scan", !.pid = pid, !.hang = hang]
  <2>3. f \in Frames /\ f.sig = Top.sig /\ f.k = "scan"
    BY <1>1, <2>2 DEF Frames
  <2> QED
    BY <1>1, <2>1, <2>3 DEF Turns
<1>3. CASE WaitScans
  <2>1. Leave \/ Becomes([Top EXCEPT !.k = "block"])
    BY <1>3 DEF WaitScans
  <2>2. Code(Top.sig) \in Frames /\ Code(Top.sig).sig = Top.sig /\ Code(Top.sig).k # "exec"
    BY <1>1, CodeType DEF Frames, Code
  <2>3. /\ [Top EXCEPT !.k = "block"] \in Frames /\ [Top EXCEPT !.k = "block"].sig = Top.sig
        /\ [Top EXCEPT !.k = "block"].k = "block"
    BY <1>1 DEF Frames
  <2> QED
    BY <1>1, <2>1, <2>2, <2>3 DEF Turns, Leave
<1> QED
  BY <1>1, <1>2, <1>3 DEF WaitSteps

\* Where kill leaves it.
LEMMA KillTurns ==
  ASSUME StackOK, KillChild, raised \subseteq Signals, bits \subseteq Signals
  PROVE  /\ Turns(Code(Top.sig)) /\ Code(Top.sig) \in Frames
         /\ Code(Top.sig).sig = Top.sig /\ Code(Top.sig).k = "user"
         /\ stack # <<>> /\ Top.k = "kill"
         /\ raised' \subseteq Signals /\ bits' \subseteq Signals /\ bits \subseteq bits'
<1>1. stack # <<>> /\ Top.k = "kill" /\ Top \in Frames
  BY TopType DEF KillChild, At
<1>2. Code(Top.sig) \in Frames /\ Code(Top.sig).sig = Top.sig /\ Code(Top.sig).k = "user"
  BY <1>1, CodeType DEF Frames, Code
<1>3. bits' = bits
  BY DEF KillChild
<1>4. CASE Dispatch(SIGCHLD, Code(Top.sig))
  BY <1>1, <1>2, <1>3, <1>4, DispatchTurns, SignalsPositive DEF Signals
<1>5. CASE Leave /\ UNCHANGED raised
  BY <1>1, <1>2, <1>3, <1>5 DEF Leave, Turns
<1> QED
  BY <1>4, <1>5 DEF KillChild

\* Where exec leaves it.
LEMMA EntersTurns ==
  ASSUME StackOK, ExecEnters
  PROVE  /\ Turns(Code(Top.sig)) /\ Code(Top.sig) \in Frames
         /\ Code(Top.sig).sig = Top.sig /\ Code(Top.sig).k = "user" /\ stack # <<>>
<1>1. stack # <<>> /\ Top \in Frames
  BY TopType DEF ExecEnters, At
<1>2. Code(Top.sig) \in Frames /\ Code(Top.sig).sig = Top.sig /\ Code(Top.sig).k = "user"
  BY <1>1, CodeType DEF Frames, Code
<1> QED
  BY <1>1, <1>2 DEF ExecEnters, Leave, Turns

\* What a handler that returns leaves below it.
LEMMA ReturnLeaves ==
  ASSUME StackOK, HandlerReturns, bits \subseteq Signals
  PROVE  /\ StackOK' /\ stack' # <<>> /\ bits' \subseteq Signals /\ Top.k = "user"
         /\ \A i \in DOMAIN stack' :
              i \in DOMAIN stack /\ (stack'[i] = stack[i] \/ stack'[i].k = "poll")
         /\ SomePoll => SomePoll'
         /\ bits' # bits => SomePoll'
<1>1. /\ stack \in Seq(Frames) /\ stack # <<>> /\ Top.k = "user" /\ Top.sig # 0
      /\ Len(stack) \in Nat /\ Len(stack) > 1 /\ DOMAIN stack = 1 .. Len(stack)
      /\ Top = stack[Len(stack)]
  BY TopType DEF HandlerReturns, At, StackOK
<1>2. /\ Front(stack) \in Seq(Frames) /\ Len(Front(stack)) = Len(stack) - 1
      /\ \A i \in 1 .. Len(stack) - 1 : Front(stack)[i] = stack[i]
  BY <1>1, Popped
<1>3. CASE stack' = Front(stack) /\ UNCHANGED bits
  <2>1. DOMAIN stack' = 1 .. Len(stack) - 1 /\ stack' # <<>>
    BY <1>1, <1>2, <1>3
  <2>2. SomePoll => SomePoll'
    <3>1. ASSUME NEW i \in DOMAIN stack, stack[i].k = "poll"
          PROVE  i \in DOMAIN stack' /\ stack'[i].k = "poll"
      BY <1>1, <1>2, <1>3, <2>1, <3>1
    <3> QED
      BY <3>1 DEF SomePoll
  <2>3. StackOK'
    BY <1>1, <1>2, <1>3, <2>1 DEF StackOK
  <2> QED
    BY <1>1, <1>2, <1>3, <2>1, <2>2, <2>3
<1>4. CASE UNCHANGED <<stack, bits>>
  BY <1>1, <1>4 DEF StackOK, SomePoll
<1>5. CASE /\ bits' = {}
           /\ stack' = Append(Front(Front(stack)),
                              Polling([Last(Front(stack)) EXCEPT !.then = "exit"]))
  <2> DEFINE below == Last(Front(stack))
             f == Polling([below EXCEPT !.then = "exit"])
  <2>1. below = stack[Len(stack) - 1] /\ below \in Frames
    BY <1>1, <1>2 DEF Last
  <2>2. f \in Frames /\ f.sig = below.sig /\ f.k = "poll"
    BY <2>1 DEF Polling, Frames
  <2>3. Front(stack) # <<>>
    BY <1>1, <1>2
  <2>4. PICK t : t = stack'
    OBVIOUS
  <2>5. PICK n \in Nat \ {0} : n = Len(stack) - 1
    <3>1. Len(stack) - 1 \in Nat \ {0}
      BY <1>1
    <3> QED
      BY <3>1
  <2>6. PICK st \in Seq(Frames) : st = Front(stack)
    BY <1>2
  <2> HIDE DEF f
  <2>7. /\ t \in Seq(Frames) /\ DOMAIN t = 1 .. n
        /\ \A i \in 1 .. n : t[i] = IF i = n THEN f ELSE stack[i]
    <3>1. t = Append(Front(st), f) /\ Len(st) = n /\ \A i \in 1 .. n : st[i] = stack[i]
      BY <1>2, <1>5, <2>4, <2>5, <2>6 DEF f
    <3>2. /\ t \in Seq(Frames) /\ Len(t) = Len(st)
          /\ \A i \in 1 .. Len(st) : t[i] = IF i = Len(st) THEN f ELSE st[i]
      BY <2>2, <2>3, <2>6, <3>1, Replaced
    <3>3. DOMAIN t = 1 .. n
      BY <3>1, <3>2, LenProperties
    <3> QED
      BY <3>1, <3>2, <3>3
  <2>8. n \in DOMAIN t /\ t # <<>> /\ t[n].k = "poll"
    BY <2>2, <2>5, <2>7
  <2>9. /\ \A i \in 1 .. n : i \in DOMAIN stack /\ (t[i].sig = 0 <=> i = 1)
        /\ \A i \in 1 .. n : t[i] = stack[i] \/ t[i].k = "poll"
    <3>1. \A i \in 1 .. n : i \in 1 .. Len(stack)
      BY <1>1, <2>5
    <3>2. \A i \in 1 .. n : t[i].sig = stack[i].sig
      BY <2>1, <2>2, <2>5, <2>7
    <3>3. \A i \in 1 .. Len(stack) : stack[i].sig = 0 <=> i = 1
      BY <1>1 DEF StackOK
    <3>4. \A i \in 1 .. n : t[i] = stack[i] \/ t[i].k = "poll"
      BY <2>2, <2>7
    <3> QED
      BY <1>1, <3>1, <3>2, <3>3, <3>4
  <2>10. StackOK' /\ SomePoll'
    BY <2>4, <2>7, <2>8, <2>9 DEF StackOK, SomePoll
  <2>11. \A i \in DOMAIN t : i \in DOMAIN stack /\ (t[i] = stack[i] \/ t[i].k = "poll")
    BY <2>7, <2>9
  <2> QED
    BY <1>1, <1>5, <2>4, <2>8, <2>10, <2>11
<1> QED
  BY <1>3, <1>4, <1>5 DEF HandlerReturns

----------------------------------------------------------------------------
(* Type correctness.                                                       *)

\* Every type but those of the activations and the signals.
DataOK ==
  /\ next \in 1 .. MaxPid + 1
  /\ table \in [Pid -> {"none", "alive", "exited"}]
  /\ rc \in [Pid -> Nat]
  /\ kid \in [Pid -> {"none", "boot", "copied", "running", "ended", "found",
                      "noport", "gone"}]
  /\ mine \in [Pid -> 0 .. MaxPid]
  /\ globals \in 0 .. MaxPid
  /\ startup \in BOOLEAN
  /\ code \in [Pid -> Nat]
  /\ msg \in [Pid -> {"none", "held", "queued", "freed", "lost"}]
  /\ frees \in [Pid -> Nat]
  /\ door \in BOOLEAN

LEMMA TypeParts ==
  TypeOK <=> /\ DataOK /\ StackOK /\ (door <=> stack # <<>>)
             /\ bits \subseteq Signals /\ raised \subseteq Signals
BY DEF TypeOK, DataOK, StackOK

\* Draining the door keeps the types.
LEMMA DrainType ==
  ASSUME DataOK, CheckChildren
  PROVE  /\ table' \in [Pid -> {"none", "alive", "exited"}]
         /\ rc' \in [Pid -> Nat]
         /\ msg' \in [Pid -> {"none", "held", "queued", "freed", "lost"}]
         /\ frees' \in [Pid -> Nat]
<1>1. /\ table' \in [Pid -> {"none", "alive", "exited"}]
      /\ rc' \in [Pid -> Nat]
  BY DEF DataOK, CheckChildren, Notices
<1>2. /\ msg' \in [Pid -> {"none", "held", "queued", "freed", "lost"}]
      /\ frees' \in [Pid -> Nat]
  BY DEF DataOK, CheckChildren, Free
<1> QED
  BY <1>1, <1>2

LEMMA TypeInit == Init => TypeOK
<1> SUFFICES ASSUME Init PROVE TypeOK
  OBVIOUS
<1>1. next \in 1 .. MaxPid + 1 /\ globals \in 0 .. MaxPid /\ mine \in [Pid -> 0 .. MaxPid]
  BY ProcessesAssumption DEF Init
<1>2. PICK c : c = Code(0)
  OBVIOUS
<1>3. c \in Frames /\ c.sig = 0
  BY <1>2, CodeType
<1>4. stack = <<c>>
  BY <1>2 DEF Init
<1>5. stack \in Seq(Frames) /\ stack # <<>> /\ \A i \in DOMAIN stack : stack[i].sig = 0 <=> i = 1
  BY <1>3, <1>4
<1> QED
  BY <1>1, <1>5 DEF Init, TypeOK

LEMMA TypeStep == TypeOK /\ [Next]_vars => TypeOK'
<1> SUFFICES ASSUME TypeOK, [Next]_vars PROVE TypeOK'
  OBVIOUS
<1> USE ProcessesAssumption
<1>0. /\ DataOK /\ StackOK /\ (door <=> stack # <<>>)
      /\ bits \subseteq Signals /\ raised \subseteq Signals
  BY TypeParts
<1>13. (/\ DataOK' /\ StackOK' /\ (door' <=> stack' # <<>>)
       /\ bits' \subseteq Signals /\ raised' \subseteq Signals) => TypeOK'
  BY DEF TypeOK, DataOK, StackOK
<1>1. CASE ChecksOther
  <2>1. PICK f \in Frames : f.sig = Top.sig /\ f.k = "poll" /\ Turns(f)
    BY <1>0, <1>1, ChecksOtherTurns
  <2>2. StackOK' /\ stack' # <<>> /\ stack # <<>>
    BY <1>0, <1>1, <2>1, TurnsTo DEF ChecksOther, At
  <2>3. raised' \subseteq Signals /\ bits' \subseteq Signals
    BY <1>0, <1>1, ChecksOtherTurns
  <2>4. DataOK' /\ door' = door
    BY <1>0, <1>1 DEF ChecksOther, DataOK, tableVars, childVars, messageVars
  <2> QED
    BY <1>0, <1>13, <2>2, <2>3, <2>4
<1>2. CASE ChecksChildren
  <2>1. At("poll") /\ stack # <<>> /\ CheckChildren
    BY <1>2 DEF ChecksChildren, At
  <2>2. StackOK' /\ stack' # <<>> /\ raised' \subseteq Signals
    BY <1>0, <2>1, CheckTurns, TurnsTo
  <2>3. DataOK' /\ door' = door /\ bits' = bits
    BY <1>0, <1>2, <2>1, DrainType DEF ChecksChildren, DataOK, childVars
  <2> QED
    BY <1>0, <1>13, <2>1, <2>2, <2>3
<1>3. CASE PollCalls
  <2>1. PICK f \in Frames : f.sig = Top.sig /\ f.k = "poll" /\ Turns(f)
    BY <1>0, <1>3, PollTurns
  <2>2. stack # <<>> /\ bits' = {}
    BY <1>0, <1>3, PollTurns
  <2>3. StackOK' /\ stack' # <<>>
    BY <1>0, <2>1, <2>2, TurnsTo
  <2>4. DataOK' /\ door' = door /\ raised' = raised
    BY <1>0, <1>3
    DEF PollCalls, Poll, KillCalled, ExitCalled, WaitWakes, DataOK, tableVars, childVars,
        messageVars
  <2> QED
    BY <1>0, <1>13, <2>2, <2>3, <2>4
<1>4. CASE ExecCreates
  <2>1. next \in Pid /\ next' \in 1 .. MaxPid + 1 /\ globals' \in 0 .. MaxPid
    BY <1>0, <1>4 DEF ExecCreates, DataOK, Pid
  <2>2. /\ kid' \in [Pid -> {"none", "boot", "copied", "running", "ended", "found",
                              "noport", "gone"}]
        /\ msg' \in [Pid -> {"none", "held", "queued", "freed", "lost"}]
        /\ frees' \in [Pid -> Nat]
    <3>1. CASE /\ kid' = [kid EXCEPT ![next] = "boot"]
               /\ msg' = [msg EXCEPT ![next] = "held"]
               /\ UNCHANGED frees
      BY <1>0, <2>1, <3>1 DEF DataOK
    <3>2. CASE /\ msg' = [msg EXCEPT ![next] = "freed"]
               /\ frees' = [frees EXCEPT ![next] = @ + 1]
               /\ UNCHANGED kid
      BY <1>0, <2>1, <3>2 DEF DataOK
    <3> QED
      BY <1>4, <3>1, <3>2 DEF ExecCreates
  <2>3. DataOK' /\ door' = door /\ bits' = bits /\ raised' = raised
    BY <1>0, <1>4, <2>1, <2>2 DEF ExecCreates, DataOK
  <2>4. stack # <<>> /\ Top \in Frames
    BY <1>0, <1>4, TopType DEF ExecCreates, Calls, At
  <2>5. StackOK' /\ stack' # <<>>
    <3>1. CASE Becomes([Top EXCEPT !.k = "exec", !.pid = next])
      <4> DEFINE f == [Top EXCEPT !.k = "exec", !.pid = next]
      <4>1. f \in Frames /\ f.sig = Top.sig
        <5>1. PICK p \in 0 .. MaxPid : p = next
          BY <2>1 DEF Pid
        <5> QED
          BY <2>4, <5>1 DEF Frames
      <4> QED
        BY <1>0, <2>4, <3>1, <4>1, TurnsTo DEF Turns
    <3>2. CASE UNCHANGED stack
      BY <1>0, <2>4, <3>2 DEF StackOK
    <3> QED
      BY <1>4, <3>1, <3>2 DEF ExecCreates
  <2> QED
    BY <1>0, <1>13, <2>3, <2>4, <2>5
<1>5. CASE ExecEnters
  <2>1. StackOK' /\ stack' # <<>> /\ stack # <<>>
    BY <1>0, <1>5, EntersTurns, TurnsTo
  <2>2. Top.pid \in 0 .. MaxPid
    BY <1>0, <2>1, TopType DEF Frames
  <2>3. DataOK' /\ door' = door /\ bits' = bits /\ raised' = raised
    BY <1>0, <1>5, <2>2 DEF ExecEnters, DataOK, childVars, messageVars
  <2> QED
    BY <1>0, <1>13, <2>1, <2>3
<1>6. CASE WaitSteps
  <2>1. PICK f \in Frames : f.sig = Top.sig /\ f.k # "exec" /\ Turns(f)
    BY <1>0, <1>6, WaitTurns
  <2>2. StackOK' /\ stack' # <<>> /\ stack # <<>>
    BY <1>0, <1>6, <2>1, WaitTurns, TurnsTo
  <2>3. DataOK' /\ door' = door /\ bits' = bits /\ raised' = raised
    <3>1. table' \in [Pid -> {"none", "alive", "exited"}]
      BY <1>0, <1>6 DEF WaitSteps, WaitCalled, WaitScans, DataOK, tableVars
    <3> QED
      BY <1>0, <1>6, <3>1
      DEF WaitSteps, WaitCalled, WaitScans, DataOK, tableVars, childVars, messageVars
  <2> QED
    BY <1>0, <1>13, <2>2, <2>3
<1>7. CASE KillChild
  <2>1. StackOK' /\ stack' # <<>> /\ stack # <<>>
    BY <1>0, <1>7, KillTurns, TurnsTo
  <2>2. raised' \subseteq Signals /\ bits' \subseteq Signals
    BY <1>0, <1>7, KillTurns
  <2>3. /\ table' \in [Pid -> {"none", "alive", "exited"}]
        /\ rc' \in [Pid -> Nat]
    <3>1. PICK p : p = Top.pid
      OBVIOUS
    <3>2. CASE /\ table' = [table EXCEPT ![p] = "exited"]
               /\ rc' = [rc EXCEPT ![p] = SIGKILL]
      BY <1>0, <3>2 DEF DataOK, SIGKILL
    <3>3. CASE UNCHANGED <<table, rc>>
      BY <1>0, <3>3 DEF DataOK
    <3> QED
      BY <1>7, <3>1, <3>2, <3>3 DEF KillChild
  <2>4. DataOK' /\ door' = door
    BY <1>0, <1>7, <2>3 DEF KillChild, DataOK, childVars, messageVars
  <2> QED
    BY <1>0, <1>13, <2>1, <2>2, <2>4
<1>8. CASE HandlerReturns
  <2>1. StackOK' /\ stack' # <<>> /\ bits' \subseteq Signals
    BY <1>0, <1>8, ReturnLeaves
  <2>2. stack # <<>> /\ raised' \subseteq Signals
    BY <1>0, <1>8 DEF HandlerReturns, At
  <2>3. DataOK' /\ door' = door
    BY <1>0, <1>8 DEF HandlerReturns, DataOK, tableVars, childVars, messageVars
  <2> QED
    BY <1>0, <1>13, <2>1, <2>2, <2>3
<1>9. CASE ParentExits
  <2>1. /\ msg' \in [Pid -> {"none", "held", "queued", "freed", "lost"}]
        /\ frees' \in [Pid -> Nat]
    BY <1>0, <1>9 DEF ParentExits, DataOK, Free
  <2>2. DataOK' /\ ~door' /\ bits' = bits /\ raised' = raised
    BY <1>0, <1>9, <2>1 DEF ParentExits, DataOK, tableVars, childVars
  <2>3. StackOK' /\ stack' = <<>>
    BY <1>9 DEF ParentExits, StackOK
  <2> QED
    BY <1>0, <1>13, <2>2, <2>3
<1>10. CASE OtherSignal
  BY <1>0, <1>13, <1>10
  DEF OtherSignal, DataOK, StackOK, Signals, tableVars, childVars, messageVars, parentVars
<1>11. ASSUME NEW p \in Pid, ChildStep(p) PROVE TypeOK'
  <2>0. StackOK' /\ stack' = stack /\ door' = door /\ raised' = raised
    BY <1>0, <1>11
    DEF ChildStep, ChildCopies, ChildStarts, CommandEnds, FindsPort, SendsExit, FreesExit,
        parentVars, StackOK
  <2>1. CASE ChildCopies(p)
    BY <1>0, <1>13, <2>0, <2>1 DEF ChildCopies, ChildAt, DataOK, tableVars, messageVars
  <2>2. CASE ChildStarts(p)
    BY <1>0, <1>13, <2>0, <2>2 DEF ChildStarts, ChildAt, DataOK, tableVars, messageVars
  <2>3. CASE CommandEnds(p)
    <3>1. PICK c \in Codes : code' = [code EXCEPT ![mine[p]] = c]
      BY <2>3 DEF CommandEnds
    <3>2. code' \in [Pid -> Nat]
      BY <1>0, <3>1 DEF DataOK
    <3>3. DataOK' /\ bits' = bits
      BY <1>0, <2>0, <2>3, <3>2 DEF CommandEnds, ChildAt, DataOK, tableVars, messageVars
    <3> QED
      BY <1>0, <1>13, <2>0, <3>3
  <2>4. CASE FindsPort(p)
    BY <1>0, <1>13, <2>0, <2>4 DEF FindsPort, ChildAt, DataOK, tableVars, messageVars
  <2>5. CASE SendsExit(p)
    <3>1. msg' \in [Pid -> {"none", "held", "queued", "freed", "lost"}]
      BY <1>0, <2>5 DEF SendsExit, DataOK
    <3>2. DataOK'
      BY <1>0, <2>0, <2>5, <3>1 DEF SendsExit, ChildAt, DataOK, tableVars
    <3>3. bits' \subseteq Signals
      BY <1>0, <2>5, SignalsPositive DEF SendsExit
    <3> QED
      BY <1>0, <1>13, <2>0, <3>2, <3>3
  <2>6. CASE FreesExit(p)
    BY <1>0, <1>13, <2>0, <2>6 DEF FreesExit, ChildAt, Free, DataOK, tableVars
  <2> QED
    BY <1>11, <2>1, <2>2, <2>3, <2>4, <2>5, <2>6 DEF ChildStep
<1>12. CASE UNCHANGED vars
  BY <1>12 DEF vars, tableVars, childVars, messageVars, parentVars, TypeOK
<1> QED
  BY <1>1, <1>2, <1>3, <1>4, <1>5, <1>6, <1>7, <1>8, <1>9, <1>10, <1>11, <1>12
  DEF Next, LibraryStep, ProgramStep, PollCalls, WaitSteps, Terminated

\* Every variable keeps its type: in particular the process numbers stay in
\* range, wait4 reports natural numbers, and main is below all handlers.
THEOREM TypeCorrect == Spec => []TypeOK
BY TypeInit, TypeStep, PTL DEF Spec

----------------------------------------------------------------------------
(* The inductive invariant.                                                *)

LEMMA InvInit == Init => IInv
<1> SUFFICES ASSUME Init PROVE IInv
  OBVIOUS
<1>1. TypeOK
  BY TypeInit
<1>2. PICK c : c = Code(0)
  OBVIOUS
<1>3. stack = <<c>> /\ c.k = "user"
  BY <1>2 DEF Init, Code
<1>4. ~At("exec") /\ \A i \in DOMAIN stack : stack[i].k # "exec"
  BY <1>3 DEF At, Top, Last
<1>5. Handshake
  BY <1>4 DEF Init, Handshake
<1>6. Unused /\ Messages /\ OwnArguments /\ NoForgottenExit /\ QueuedIsSignalled
  BY DEF Init, Unused, Messages, OwnArguments, NoForgottenExit, QueuedIsSignalled, Queued
<1> QED
  BY <1>1, <1>5, <1>6 DEF IInv

\* Without an exec in progress nothing of the handshake is under way.
LEMMA IdleMeans ==
  ASSUME IInv, ~At("exec")
  PROVE  ~startup /\ \A p \in Pid : kid[p] \notin {"boot", "copied"}
BY DEF IInv, Handshake

LEMMA IdleKeeps ==
  ASSUME IInv, ~At("exec"), NoExec', StackOK', UNCHANGED <<kid, startup>>
  PROVE  Handshake' /\ ~At("exec")'
<1>1. ~At("exec")'
  <2> SUFFICES ASSUME At("exec")' PROVE FALSE
    OBVIOUS
  <2>1. PICK t : t = stack'
    OBVIOUS
  <2>2. t \in Seq(Frames) /\ t # <<>> /\ t[Len(t)].k = "exec"
    BY <2>1 DEF At, Top, Last, StackOK
  <2>3. Len(t) \in DOMAIN t
    BY <2>2
  <2> QED
    BY <2>1, <2>2, <2>3 DEF NoExec
<1> QED
  BY <1>1, IdleMeans DEF NoExec, Handshake

\* Steps of the parent's that leave the children's data alone keep the
\* invariant if they keep what announces a message.
LEMMA QuietKeeps ==
  ASSUME IInv, ~At("exec"), NoExec', TypeOK', Announced => Announced',
         UNCHANGED <<next, kid, mine, startup, msg, frees, door>>,
         \A p \in Pid : table'[p] = "alive" => table[p] = "alive",
         \A p \in Pid : table[p] = "none" => table'[p] = "none"
  PROVE  IInv'
<1> USE DEF IInv
<1>1. Handshake'
  <2>1. StackOK'
    BY DEF TypeOK, StackOK
  <2> QED
    BY <2>1, IdleKeeps
<1>2. Messages' /\ Unused' /\ OwnArguments' /\ NoForgottenExit'
  BY DEF Messages, Unused, OwnArguments, NoForgottenExit
<1>3. QueuedIsSignalled'
  BY DEF QueuedIsSignalled, Queued, Announced, SomePoll
<1> QED
  BY <1>1, <1>2, <1>3

\* Draining while no exec is waiting: no exit message stays queued, and every
\* entry whose message was queued has exited.
LEMMA DrainKeeps ==
  ASSUME IInv, CheckChildren, UNCHANGED <<next, kid, mine, door>>
  PROVE  /\ Messages' /\ Unused' /\ OwnArguments'
         /\ NoForgottenExit' /\ QueuedIsSignalled'
<1> USE DEF IInv
<1>1. /\ \A p \in Pid : msg'[p] = IF msg[p] = "queued" THEN "freed" ELSE msg[p]
      /\ \A p \in Pid : frees'[p] = IF msg[p] = "queued" THEN frees[p] + 1 ELSE frees[p]
      /\ \A p \in Pid : table'[p] = IF msg[p] = "queued" /\ table[p] = "alive"
                                   THEN "exited" ELSE table[p]
  BY DEF CheckChildren, Notices, Free, Queued
<1>2. Messages'
  BY <1>1 DEF Messages, TypeOK
<1>3. Unused'
  BY <1>1 DEF Unused
<1>4. OwnArguments'
  BY DEF OwnArguments
<1>5. NoForgottenExit'
  BY <1>1 DEF NoForgottenExit
<1>6. QueuedIsSignalled'
  BY <1>1 DEF QueuedIsSignalled, Queued
<1> QED
  BY <1>2, <1>3, <1>4, <1>5, <1>6

\* A child's step leaves the activations as they are.
LEMMA ChildQuiet ==
  ASSUME NEW p \in Pid, ChildStep(p)
  PROVE  UNCHANGED <<next, table, rc, stack, globals, door>> /\ bits \subseteq bits'
BY DEF ChildStep, ChildCopies, ChildStarts, CommandEnds, FindsPort, SendsExit, FreesExit,
       tableVars, parentVars

LEMMA InvStep == IInv /\ [Next]_vars => IInv'
<1> SUFFICES ASSUME IInv, [Next]_vars PROVE IInv'
  OBVIOUS
<1> USE ProcessesAssumption DEF IInv
<1>0. TypeOK' /\ StackOK /\ StackOK' /\ bits \subseteq Signals /\ raised \subseteq Signals
  BY TypeStep DEF TypeOK, StackOK
<1>1. CASE ChecksOther
  <2>1. PICK f \in Frames : f.sig = Top.sig /\ f.k = "poll" /\ Turns(f)
    BY <1>0, <1>1, ChecksOtherTurns
  <2>2. stack # <<>> /\ ~At("exec")
    BY <1>1 DEF ChecksOther, At
  <2>3. NoExec' /\ Announced'
    BY <2>1, <2>2, TurnsKeeps DEF Announced
  <2> QED
    BY <1>0, <1>1, <2>2, <2>3, QuietKeeps DEF ChecksOther, tableVars, childVars, messageVars
<1>2. CASE ChecksChildren
  <2>1. At("poll") /\ stack # <<>> /\ CheckChildren /\ ~At("exec")
    BY <1>2 DEF ChecksChildren, At
  <2>2. NoExec'
    BY <1>0, <2>1, CheckTurns, TurnsKeeps
  <2>3. Handshake'
    BY <1>0, <1>2, <2>1, <2>2, IdleKeeps DEF ChecksChildren, childVars
  <2> QED
    BY <1>0, <1>2, <2>1, <2>3, DrainKeeps DEF ChecksChildren, childVars
<1>3. CASE PollCalls
  <2>1. PICK f \in Frames : f.sig = Top.sig /\ f.k = "poll" /\ Turns(f)
    BY <1>0, <1>3, PollTurns
  <2>2. stack # <<>> /\ ~At("exec")
    BY <1>0, <1>3, PollTurns DEF At
  <2>3. NoExec' /\ Announced'
    BY <2>1, <2>2, TurnsKeeps DEF Announced
  <2>4. UNCHANGED <<next, table, kid, mine, startup, msg, frees, door>>
    BY <1>3
    DEF PollCalls, Poll, KillCalled, ExitCalled, WaitWakes, tableVars, childVars, messageVars
  <2> QED
    BY <1>0, <2>2, <2>3, <2>4, QuietKeeps
<1>4. CASE ExecCreates
  <2>0. stack # <<>> /\ Top.k = "user" /\ ~At("exec") /\ Top \in Frames
    BY <1>0, <1>4, TopType DEF ExecCreates, Calls, At
  <2>1. next \in Pid /\ next' = next + 1 /\ globals' = next /\ door
    BY <1>4, <2>0 DEF ExecCreates, TypeOK, Pid
  <2>2. \A i \in DOMAIN stack : stack[i].k # "exec"
    BY <1>0, <2>0, TopType DEF Handshake
  <2>3. ~startup /\ \A p \in Pid : kid[p] \notin {"boot", "copied"}
    BY <2>0, IdleMeans
  <2>4. kid[next] = "none" /\ table[next] = "none" /\ msg[next] = "none"
    BY <2>1 DEF Unused, TypeOK
  <2>5. Messages'
    BY <1>4, <2>1, <2>4 DEF ExecCreates, Messages, TypeOK
  <2>6. Unused'
    <3>1. \A p \in Pid : p >= next' => p >= next /\ p # next
      BY <2>1 DEF TypeOK, Pid
    <3>2. \A p \in Pid : p # next => kid'[p] = kid[p] /\ msg'[p] = msg[p]
      BY <1>4 DEF ExecCreates, TypeOK
    <3> QED
      BY <1>4, <3>1, <3>2 DEF ExecCreates, Unused
  <2>7. OwnArguments' /\ NoForgottenExit'
    BY <1>4, <2>1, <2>4 DEF ExecCreates, OwnArguments, NoForgottenExit, TypeOK
  <2>8. CASE UNCHANGED <<stack, kid>>
    <3>1. Handshake'
      BY <1>4, <2>0, <2>2, <2>3, <2>8 DEF ExecCreates, Handshake, At, Top
    <3>2. QueuedIsSignalled'
      BY <1>4, <2>1, <2>8 DEF ExecCreates, QueuedIsSignalled, Queued, TypeOK
    <3> QED
      BY <1>0, <2>5, <2>6, <2>7, <3>1, <3>2
  <2>9. CASE /\ kid' = [kid EXCEPT ![next] = "boot"]
             /\ msg' = [msg EXCEPT ![next] = "held"]
             /\ Becomes([Top EXCEPT !.k = "exec", !.pid = next])
    <3> DEFINE f == [Top EXCEPT !.k = "exec", !.pid = next]
    <3>1. f \in Frames /\ f.sig = Top.sig /\ f.k = "exec" /\ f.pid = next
      <4>1. PICK p \in 0 .. MaxPid : p = next
        BY <2>1 DEF Pid
      <4> QED
        BY <2>0, <4>1 DEF Frames
    <3>2. Turns(f)
      BY <2>9 DEF Turns
    <3> HIDE DEF f
    <3>3. /\ stack' = Append(Front(stack), f)
          /\ Len(stack') = Len(stack) /\ Len(stack) \in Nat \ {0} /\ stack' # <<>>
          /\ \A i \in 1 .. Len(stack) : stack'[i] = IF i = Len(stack) THEN f ELSE stack[i]
      <4>1. stack' = Append(Front(stack), f)
        BY <2>9 DEF Becomes, f
      <4>2. Len(stack) \in Nat \ {0} /\ stack' # <<>>
        BY <1>0, <2>0, <3>1, <3>2, TopType, TurnsTo DEF StackOK
      <4>3. PICK st \in Seq(Frames) : st = stack
        BY <1>0 DEF StackOK
      <4> QED
        BY <2>0, <3>1, <4>1, <4>2, <4>3, Replaced
    <3>4. At("exec")' /\ Top.pid' = next
      BY <3>1, <3>3 DEF At, Top, Last
    <3>5. \A i \in DOMAIN stack' : stack'[i].k = "exec" => i = Len(stack')
      BY <1>0, <2>0, <2>2, <3>3, TurnsTo, <3>1, <3>2
    <3>6. \A p \in Pid : kid'[p] \in {"boot", "copied"} => p = next
      BY <2>3, <2>9 DEF TypeOK
    <3>7. Handshake'
      BY <1>4, <2>1, <2>3, <2>4, <2>9, <3>4, <3>5, <3>6 DEF ExecCreates, Handshake, TypeOK
    <3>8. QueuedIsSignalled'
      <4>1. PICK t : t = stack'
        OBVIOUS
      <4>2. SomePoll => SomePoll'
        <5>1. ASSUME NEW i \in DOMAIN stack, stack[i].k = "poll"
              PROVE  i \in DOMAIN stack' /\ stack'[i].k = "poll"
          BY <1>0, <2>0, <3>1, <3>2, <5>1, TopType, TurnsTo
        <5> QED
          BY <5>1 DEF SomePoll
      <4>3. Queued' = Queued /\ UNCHANGED <<door, bits>>
        BY <1>4, <2>1, <2>4, <2>9 DEF ExecCreates, Queued, TypeOK
      <4> QED
        BY <4>2, <4>3 DEF QueuedIsSignalled, SomePoll
    <3> QED
      BY <1>0, <2>5, <2>6, <2>7, <3>7, <3>8
  <2> QED
    BY <1>4, <2>8, <2>9 DEF ExecCreates
<1>5. CASE ExecEnters
  <2> DEFINE p == Top.pid
  <2>0. At("exec") /\ stack # <<>> /\ Top.k # "poll"
    BY <1>5 DEF ExecEnters, At
  <2>1. /\ p \in Pid /\ p + 1 = next /\ kid[p] # "none" /\ table[p] = "none"
        /\ msg[p] \in {"held", "queued"}
    BY <2>0 DEF Handshake
  <2>2. NoExec' /\ (SomePoll => SomePoll')
    BY <1>0, <1>5, <2>0, EntersTurns, TurnsKeeps
  <2>3. \A q \in Pid : kid[q] \notin {"boot", "copied"}
    BY <1>5 DEF ExecEnters, Handshake
  <2>4. Handshake'
    <3>1. ~At("exec")'
      <4> SUFFICES ASSUME At("exec")' PROVE FALSE
        OBVIOUS
      <4>1. PICK t : t = stack'
        OBVIOUS
      <4>2. t \in Seq(Frames) /\ t # <<>> /\ t[Len(t)].k = "exec"
        BY <1>0, <4>1 DEF At, Top, Last, StackOK
      <4>3. Len(t) \in DOMAIN t
        BY <4>2
      <4> QED
        BY <2>2, <4>1, <4>2, <4>3 DEF NoExec
    <3> QED
      BY <1>5, <2>2, <2>3, <3>1 DEF ExecEnters, Handshake, NoExec, childVars
  <2>5. Messages' /\ Unused' /\ OwnArguments'
    BY <1>5, <2>1
    DEF ExecEnters, Messages, Unused, OwnArguments, TypeOK, Pid, childVars, messageVars
  <2>6. NoForgottenExit'
    BY <1>5, <2>1 DEF ExecEnters, NoForgottenExit, TypeOK, messageVars
  <2>7. QueuedIsSignalled'
    BY <1>5, <2>2 DEF ExecEnters, QueuedIsSignalled, Queued, SomePoll, messageVars
  <2> QED
    BY <1>0, <2>4, <2>5, <2>6, <2>7
<1>6. CASE WaitSteps
  <2>1. PICK f \in Frames : f.sig = Top.sig /\ f.k # "exec" /\ Turns(f)
    BY <1>0, <1>6, WaitTurns
  <2>2. stack # <<>> /\ ~At("exec") /\ Top.k # "poll"
    BY <1>0, <1>6, WaitTurns DEF At
  <2>3. NoExec' /\ (SomePoll => SomePoll')
    BY <2>1, <2>2, TurnsKeeps
  <2>4. UNCHANGED <<next, kid, mine, startup, msg, frees, door, bits>>
    BY <1>6 DEF WaitSteps, WaitCalled, WaitScans, tableVars, childVars, messageVars
  <2>5. \A p \in Pid : table'[p] \in {table[p], "none"}
    BY <1>6 DEF WaitSteps, WaitCalled, WaitScans, tableVars, Matching, TypeOK
  <2> QED
    BY <1>0, <2>2, <2>3, <2>4, <2>5, QuietKeeps DEF Announced
<1>7. CASE KillChild
  <2>1. stack # <<>> /\ ~At("exec") /\ Top.k # "poll"
    BY <1>7 DEF KillChild, At
  <2>2. NoExec' /\ (SomePoll => SomePoll') /\ bits \subseteq bits'
    BY <1>0, <1>7, <2>1, KillTurns, TurnsKeeps
  <2>3. UNCHANGED <<next, kid, mine, startup, msg, frees, door>>
    BY <1>7 DEF KillChild, childVars, messageVars
  <2>4. \A p \in Pid : table'[p] = table[p] \/ (table[p] = "alive" /\ table'[p] = "exited")
    <3>1. PICK p : p = Top.pid
      OBVIOUS
    <3>2. CASE table[p] = "alive" /\ table' = [table EXCEPT ![p] = "exited"]
      BY <3>2 DEF TypeOK
    <3>3. CASE UNCHANGED table
      BY <3>3
    <3> QED
      BY <1>7, <3>1, <3>2, <3>3 DEF KillChild
  <2> QED
    BY <1>0, <2>1, <2>2, <2>3, <2>4, QuietKeeps DEF Announced
<1>8. CASE HandlerReturns
  <2>1. ~At("exec")
    BY <1>8 DEF HandlerReturns, At
  <2>2. NoExec
    BY <1>0, <2>1, <1>8, TopType DEF Handshake, NoExec, At, HandlerReturns
  <2>3. NoExec'
    BY <1>0, <1>8, <2>2, ReturnLeaves DEF NoExec
  <2>4. Announced => Announced'
    BY <1>0, <1>8, ReturnLeaves DEF Announced
  <2> QED
    BY <1>0, <1>8, <2>1, <2>3, <2>4, QuietKeeps
    DEF HandlerReturns, tableVars, childVars, messageVars
<1>9. CASE ParentExits
  <2>1. /\ ~At("exec") /\ NoExec' /\ door /\ ~door'
        /\ ~startup /\ \A p \in Pid : kid[p] \notin {"boot", "copied"}
    <3>1. ~At("exec") /\ door /\ ~door'
      BY <1>9 DEF ParentExits, At, TypeOK
    <3>2. NoExec'
      BY <1>9 DEF ParentExits, NoExec
    <3> QED
      BY <3>1, <3>2, IdleMeans
  <2>2. Handshake'
    BY <1>0, <1>9, <2>1, IdleKeeps DEF ParentExits, childVars
  <2>3. /\ \A p \in Pid : msg'[p] = IF msg[p] = "queued" THEN "freed" ELSE msg[p]
        /\ \A p \in Pid : frees'[p] = IF msg[p] = "queued" THEN frees[p] + 1 ELSE frees[p]
    BY <1>9 DEF ParentExits, Free, Queued
  <2>4. Messages'
    BY <1>9, <2>1, <2>3 DEF ParentExits, tableVars, childVars, Messages, TypeOK
  <2> QED
    BY <1>0, <1>9, <2>1, <2>2, <2>3, <2>4
    DEF ParentExits, tableVars, childVars, Unused, OwnArguments,
        NoForgottenExit, QueuedIsSignalled
<1>10. CASE OtherSignal
  BY <1>0, <1>10
  DEF OtherSignal, tableVars, childVars, messageVars, parentVars, Handshake, Messages,
      Unused, OwnArguments, NoForgottenExit, QueuedIsSignalled, Queued, At, Top
<1>11. ASSUME NEW p \in Pid, ChildStep(p) PROVE IInv'
  <2>0. /\ UNCHANGED <<next, table, stack, globals, door>> /\ bits \subseteq bits'
        /\ At("exec")' = At("exec") /\ Top.pid' = Top.pid
    BY <1>11, ChildQuiet DEF At, Top
  <2>1. CASE ChildCopies(p)
    <3>1. Handshake'
      BY <2>0, <2>1 DEF ChildCopies, ChildAt, Handshake, TypeOK, messageVars
    <3>2. OwnArguments'
      BY <2>0, <2>1 DEF ChildCopies, ChildAt, Handshake, OwnArguments, TypeOK
    <3>3. Messages' /\ Unused' /\ NoForgottenExit' /\ QueuedIsSignalled'
      BY <2>0, <2>1
      DEF ChildCopies, ChildAt, Messages, Unused, NoForgottenExit, QueuedIsSignalled,
          Queued, TypeOK, messageVars
    <3> QED
      BY <1>0, <3>1, <3>2, <3>3
  <2>2. CASE ChildStarts(p)
    <3>1. Handshake'
      BY <2>0, <2>2 DEF ChildStarts, ChildAt, Handshake, TypeOK, messageVars
    <3>2. OwnArguments'
      BY <2>2 DEF ChildStarts, ChildAt, OwnArguments, TypeOK
    <3>3. Messages' /\ Unused' /\ NoForgottenExit' /\ QueuedIsSignalled'
      BY <2>0, <2>2, SMTT(30)
      DEF ChildStarts, ChildAt, Messages, Unused, NoForgottenExit, QueuedIsSignalled,
          Queued, TypeOK, messageVars
    <3> QED
      BY <1>0, <3>1, <3>2, <3>3
  <2>3. CASE CommandEnds(p)
    <3>1. Handshake'
      BY <2>0, <2>3 DEF CommandEnds, ChildAt, Handshake, TypeOK, messageVars
    <3>2. OwnArguments'
      BY <2>3 DEF CommandEnds, ChildAt, OwnArguments, TypeOK
    <3>3. Messages' /\ Unused' /\ NoForgottenExit' /\ QueuedIsSignalled'
      BY <2>0, <2>3
      DEF CommandEnds, ChildAt, Messages, Unused, NoForgottenExit, QueuedIsSignalled,
          Queued, TypeOK, messageVars
    <3> QED
      BY <1>0, <3>1, <3>2, <3>3
  <2>4. CASE FindsPort(p)
    <3>1. Handshake'
      BY <2>0, <2>4 DEF FindsPort, ChildAt, Handshake, TypeOK, messageVars
    <3>2. OwnArguments'
      BY <2>4 DEF FindsPort, ChildAt, OwnArguments, TypeOK
    <3>3. Messages' /\ Unused' /\ NoForgottenExit' /\ QueuedIsSignalled'
      BY <2>0, <2>4
      DEF FindsPort, ChildAt, Messages, Unused, NoForgottenExit, QueuedIsSignalled,
          Queued, TypeOK, messageVars
    <3> QED
      BY <1>0, <3>1, <3>2, <3>3
  <2>5. CASE SendsExit(p)
    <3>1. mine[p] = p /\ msg[p] = "held" /\ kid[p] = "found"
      BY <2>5 DEF SendsExit, ChildAt, OwnArguments, Messages
    <3>2. msg' = [msg EXCEPT ![p] = IF door THEN "queued" ELSE "lost"]
      BY <2>5, <3>1 DEF SendsExit
    <3>3. Handshake'
      <4>1. At("exec") => door
        BY DEF At, TypeOK
      <4>2. \A q \in Pid : door /\ msg[q] \in {"held", "queued"} => msg'[q] \in {"held", "queued"}
        BY <3>2 DEF TypeOK
      <4>3. \A q \in Pid : kid'[q] # "none" <=> kid[q] # "none"
        BY <2>5 DEF SendsExit, ChildAt, TypeOK
      <4>4. \A q \in Pid : kid'[q] \in {"boot", "copied"} => kid[q] \in {"boot", "copied"}
        BY <2>5 DEF SendsExit, ChildAt, TypeOK
      <4>5. startup' = startup
        BY <2>5 DEF SendsExit
      <4> QED
        BY <2>0, <4>1, <4>2, <4>3, <4>4, <4>5 DEF Handshake
    <3>4. OwnArguments'
      BY <2>5 DEF SendsExit, ChildAt, OwnArguments, TypeOK
    <3>5. Messages'
      BY <2>0, <2>5, <3>1, <3>2 DEF SendsExit, ChildAt, Messages, TypeOK
    <3>6. Unused' /\ NoForgottenExit'
      BY <2>0, <2>5, <3>1, <3>2 DEF SendsExit, ChildAt, Unused, NoForgottenExit, TypeOK
    <3>7. QueuedIsSignalled'
      <4>1. CASE door
        BY <2>5, <4>1 DEF SendsExit, QueuedIsSignalled
      <4>2. CASE ~door
        BY <2>5, <4>2 DEF SendsExit, QueuedIsSignalled
      <4> QED
        BY <4>1, <4>2
    <3> QED
      BY <1>0, <3>3, <3>4, <3>5, <3>6, <3>7
  <2>6. CASE FreesExit(p)
    <3>1. mine[p] = p /\ msg[p] = "held" /\ kid[p] = "noport" /\ ~door /\ frees[p] = 0
      BY <2>6 DEF FreesExit, ChildAt, OwnArguments, Messages
    <3>2. /\ \A q \in Pid : msg'[q] = IF q = p THEN "freed" ELSE msg[q]
          /\ \A q \in Pid : frees'[q] = IF q = p THEN 1 ELSE frees[q]
      BY <2>6, <3>1 DEF FreesExit, Free
    <3>3. Handshake'
      <4>1. ~At("exec")
        BY <3>1 DEF At, TypeOK
      <4> QED
        BY <2>0, <2>6, <3>1, <3>2, <4>1 DEF FreesExit, ChildAt, Handshake, TypeOK
    <3>4. OwnArguments'
      BY <2>6 DEF FreesExit, ChildAt, OwnArguments, TypeOK
    <3>5. Messages'
      BY <2>0, <2>6, <3>1, <3>2 DEF FreesExit, ChildAt, Messages, TypeOK
    <3>6. Unused' /\ NoForgottenExit' /\ QueuedIsSignalled'
      BY <2>0, <2>6, <3>1, <3>2
      DEF FreesExit, ChildAt, Unused, NoForgottenExit, QueuedIsSignalled, TypeOK
    <3> QED
      BY <1>0, <3>3, <3>4, <3>5, <3>6
  <2> QED
    BY <1>11, <2>1, <2>2, <2>3, <2>4, <2>5, <2>6 DEF ChildStep
<1>12. CASE UNCHANGED vars
  BY <1>0, <1>12
  DEF vars, tableVars, childVars, messageVars, parentVars, Handshake, Messages,
      Unused, OwnArguments, NoForgottenExit, QueuedIsSignalled, Queued, At, Top
<1> QED
  BY <1>1, <1>2, <1>3, <1>4, <1>5, <1>6, <1>7, <1>8, <1>9, <1>10, <1>11, <1>12
  DEF Next, LibraryStep, ProgramStep, PollCalls, WaitSteps, Terminated

LEMMA InvAlways == Spec => []IInv
BY InvInit, InvStep, PTL DEF Spec

\* A child never works on the arguments of another exec (exec.c, child.asm).
THEOREM ArgumentsSafe == Spec => []OwnArguments
<1>1. IInv => OwnArguments
  BY DEF IInv
<1> QED
  BY <1>1, InvAlways, PTL

\* An exit message is freed exactly once by parent or child, whichever is left
\* with it, or stays on a port, deleted or not (child.asm, processes.c).
THEOREM MessagesSafe == Spec => []MessageFreedOnce
<1>1. IInv => MessageFreedOnce
  <2> SUFFICES ASSUME IInv, NEW p \in Pid
               PROVE  /\ frees[p] <= 1
                      /\ kid[p] = "gone" =>
                           \/ msg[p] = "freed" /\ frees[p] = 1
                           \/ msg[p] = "queued" /\ door /\ frees[p] = 0
                           \/ msg[p] = "lost" /\ ~door /\ frees[p] = 0
    BY DEF MessageFreedOnce
  <2> QED
    BY DEF IInv, Messages, TypeOK
<1> QED
  BY <1>1, InvAlways, PTL

\* The parent never forgets a child's exit, even one that came before the
\* child was in the table (exec.c, check_children).
THEOREM ExitsSafe == Spec => []NoForgottenExit
<1>1. IInv => NoForgottenExit
  BY DEF IInv
<1> QED
  BY <1>1, InvAlways, PTL

\* A message on the door is announced: its bit is set, or a poll that cleared
\* the bit is still to look at the door behind its handlers (signals.c:153-163).
THEOREM WakeupsSafe == Spec => []QueuedIsSignalled
<1>1. IInv => QueuedIsSignalled
  BY DEF IInv
<1> QED
  BY <1>1, InvAlways, PTL

----------------------------------------------------------------------------
(* Processes implements ChildTable.                                        *)

LEMMA AbstractInit == Init => Abstract!CInit
<1> SUFFICES ASSUME Init PROVE Abstract!CInit
  OBVIOUS
<1>1. PICK c : c = Code(0)
  OBVIOUS
<1>2. stack = <<c>> /\ c.k = "user"
  BY <1>1 DEF Init, Code
<1>3. ~At("exec")
  BY <1>2 DEF At, Top, Last
<1>4. \A p \in Pid : ParentView(p) = "unborn" /\ RealCode(p) = -1
  <2> SUFFICES ASSUME NEW p \in Pid PROVE ParentView(p) = "unborn" /\ RealCode(p) = -1
    OBVIOUS
  <2>1. p >= next /\ kid[p] = "none" /\ table[p] = "none" /\ ~Starting(p)
    BY <1>3, ProcessesAssumption DEF Init, Pid, Starting
  <2>2. ParentView(p) = "unborn"
    BY <2>1 DEF ParentView
  <2>3. RealCode(p) = -1
    BY <2>1 DEF RealCode
  <2> QED
    BY <2>2, <2>3
<1> QED
  BY <1>4 DEF Init, Abstract!CInit, Abstract!NoCode

\* A step that changes neither view of any child is a stuttering step.
LEMMA SameView ==
  ASSUME rc' = rc,
         \A p \in Pid : ParentView(p)' = ParentView(p) /\ RealCode(p)' = RealCode(p)
  PROVE  UNCHANGED Abstract!cvars
BY DEF Abstract!cvars

\* Draining the door while no exec waits is one Notice.
LEMMA DrainIsNotice ==
  ASSUME IInv, IInv', CheckChildren, UNCHANGED <<next, kid, code>>,
         ~At("exec"), ~At("exec")'
  PROVE  Abstract!CNext
<1> DEFINE dead == {p \in Queued : table[p] = "alive"}
<1>1. /\ table' = [p \in Pid |-> IF p \in dead THEN "exited" ELSE table[p]]
      /\ rc' = [p \in Pid |-> IF p \in dead THEN code[p] ELSE rc[p]]
  BY DEF CheckChildren, Notices
<1>2. \A p \in Pid : ~Starting(p) /\ ~Starting(p)'
  BY DEF Starting
<1>3. \A p \in dead : /\ ParentView(p) = "running" /\ p \in Pid
                      /\ RealCode(p) = code[p] /\ RealCode(p) # -1
  BY DEF Queued, ParentView, RealCode, IInv, Messages, Unused, TypeOK
<1>4. \A p \in Pid : ParentView(p)' = IF p \in dead THEN "zombie" ELSE ParentView(p)
  BY <1>1, <1>2, <1>3 DEF ParentView, Queued, IInv, Unused, TypeOK
<1>5. \A p \in Pid : RealCode(p)' = RealCode(p)
  BY DEF RealCode
<1>6. dead \in SUBSET Pid
  BY DEF Queued
<1>7. Abstract!Notice(dead)
  BY <1>1, <1>3, <1>4, <1>5, <1>6 DEF Abstract!Notice, Abstract!NoCode
<1> QED
  BY <1>6, <1>7 DEF Abstract!CNext

\* A step that keeps the table, the numbers and the reported codes, and is
\* not about exec, is a stuttering step.
LEMMA QuietStep ==
  ASSUME UNCHANGED <<next, table, rc, kid, code>>, ~At("exec"), ~At("exec")'
  PROVE  UNCHANGED Abstract!cvars
<1>1. \A p \in Pid : ParentView(p)' = ParentView(p) /\ RealCode(p)' = RealCode(p)
  BY DEF ParentView, RealCode, Starting
<1> QED
  BY <1>1, SameView

\* An exec that begins or ends changes where the parent is.
LEMMA NotAtExec ==
  ASSUME StackOK', NoExec'
  PROVE  ~At("exec")'
<1> SUFFICES ASSUME At("exec")' PROVE FALSE
  OBVIOUS
<1>1. PICK t : t = stack'
  OBVIOUS
<1>2. t \in Seq(Frames) /\ t # <<>> /\ t[Len(t)].k = "exec"
  BY <1>1 DEF At, Top, Last, StackOK
<1>3. Len(t) \in DOMAIN t
  BY <1>2
<1> QED
  BY <1>1, <1>2, <1>3 DEF NoExec

LEMMA AbstractStep ==
  ASSUME IInv, IInv', [Next]_vars
  PROVE  [Abstract!CNext]_Abstract!cvars
<1> USE ProcessesAssumption
<1> USE DEF IInv
<1>0. StackOK /\ StackOK' /\ bits \subseteq Signals /\ raised \subseteq Signals
  BY DEF TypeOK, StackOK
<1>1. CASE ChecksOther
  <2>1. PICK f \in Frames : f.sig = Top.sig /\ f.k = "poll" /\ Turns(f)
    BY <1>0, <1>1, ChecksOtherTurns
  <2>2. stack # <<>> /\ ~At("exec")
    BY <1>1 DEF ChecksOther, At
  <2>3. ~At("exec")'
    BY <1>0, <2>1, <2>2, TurnsKeeps, NotAtExec
  <2> QED
    BY <1>1, <2>2, <2>3, QuietStep DEF ChecksOther, tableVars, childVars
<1>2. CASE ChecksChildren
  <2>1. At("poll") /\ stack # <<>> /\ CheckChildren /\ ~At("exec")
    BY <1>2 DEF ChecksChildren, At
  <2>2. ~At("exec")'
    BY <1>0, <2>1, CheckTurns, TurnsKeeps, NotAtExec
  <2> QED
    BY <1>2, <2>1, <2>2, DrainIsNotice DEF ChecksChildren, childVars
<1>3. CASE PollCalls
  <2>1. PICK f \in Frames : f.sig = Top.sig /\ f.k = "poll" /\ Turns(f)
    BY <1>0, <1>3, PollTurns
  <2>2. stack # <<>> /\ ~At("exec")
    BY <1>0, <1>3, PollTurns DEF At
  <2>3. ~At("exec")'
    BY <1>0, <2>1, <2>2, TurnsKeeps, NotAtExec
  <2>4. UNCHANGED <<next, table, rc, kid, code>>
    BY <1>3 DEF PollCalls, Poll, KillCalled, ExitCalled, WaitWakes, tableVars, childVars
  <2> QED
    BY <2>2, <2>3, <2>4, QuietStep
<1>4. CASE ExecCreates
  <2>12. PICK n : n = next
    OBVIOUS
  <2>0. stack # <<>> /\ Top \in Frames /\ ~At("exec")
    BY <1>0, <1>4, TopType DEF ExecCreates, Calls, At
  <2>1. n \in Pid /\ next' = n + 1 /\ table[n] = "none" /\ kid[n] = "none"
    BY <1>4, <2>12 DEF ExecCreates, TypeOK, Pid, Unused
  <2>2. \A p \in Pid : ~Starting(p)
    BY <2>0 DEF Starting
  <2>3. \A p \in Pid : p # n => ~Starting(p)'
    <3> SUFFICES ASSUME At("exec")' PROVE \A p \in Pid : p # n => Top.pid' # p
      BY DEF Starting
    <3>1. Top.pid' + 1 = next' /\ Top.pid' \in Pid
      BY DEF Handshake
    <3> QED
      BY <2>1, <2>12, <3>1 DEF Pid
  <2>4. \A p \in Pid : RealCode(p)' = RealCode(p)
    <3>1. \A p \in Pid : kid'[p] = kid[p] \/ (kid[p] = "none" /\ kid'[p] = "boot")
      <4>1. kid' = kid \/ kid' = [kid EXCEPT ![n] = "boot"]
        BY <1>4, <2>12 DEF ExecCreates
      <4> QED
        BY <2>1, <4>1 DEF TypeOK
    <3>2. code' = code
      BY <1>4 DEF ExecCreates
    <3> QED
      BY <3>1, <3>2 DEF RealCode
  <2>5. \A p \in Pid : p # n => ParentView(p)' = ParentView(p)
    BY <1>4, <2>1, <2>12, <2>2, <2>3, SMTT(30) DEF ExecCreates, ParentView, TypeOK, Pid
  <2>6. ParentView(n) = "unborn"
    BY <2>1, <2>12, <2>2 DEF ParentView, TypeOK
  <2>7. \E s \in {"running", "gone"} : \A p \in Pid : ParentView(p)' = IF p = n THEN s ELSE ParentView(p)
    <3>1. ParentView(n)' \in {"running", "gone"}
      <4>1. ~(n >= next') /\ table'[n] = "none"
        BY <1>4, <2>1, <2>12 DEF ExecCreates, Pid
      <4> QED
        BY <4>1 DEF ParentView
    <3> QED
      BY <2>5, <3>1
  <2>8. Abstract!Start(n)
    BY <1>4, <2>1, <2>4, <2>6, <2>7 DEF ExecCreates, Abstract!Start
  <2> QED
    BY <2>1, <2>8 DEF Abstract!CNext
<1>5. CASE ExecEnters
  <2> DEFINE n == Top.pid
  <2>0. At("exec") /\ stack # <<>> /\ table' = [table EXCEPT ![n] = "alive"]
    BY <1>5 DEF ExecEnters, At
  <2>1. /\ n \in Pid /\ n + 1 = next /\ Starting(n)
        /\ \A p \in Pid : Starting(p) => p = n
    BY <2>0 DEF Handshake, Starting
  <2>2. \A p \in Pid : ~Starting(p)'
    BY <1>0, <1>5, <2>0, EntersTurns, TurnsKeeps, NotAtExec DEF Starting
  <2> HIDE DEF n
  <2>3. \A p \in Pid : ParentView(p)' = ParentView(p)
    <3> SUFFICES ASSUME NEW p \in Pid PROVE ParentView(p)' = ParentView(p)
      OBVIOUS
    <3>1. CASE p = n
      BY <1>5, <2>0, <2>1, <2>2, <3>1 DEF ExecEnters, ParentView, TypeOK
    <3>2. CASE p # n
      BY <1>5, <2>0, <2>1, <2>2, <3>2 DEF ExecEnters, ParentView, TypeOK
    <3> QED
      BY <3>1, <3>2
  <2>4. \A p \in Pid : RealCode(p)' = RealCode(p)
    BY <1>5 DEF ExecEnters, RealCode, childVars
  <2> QED
    BY <1>5, <2>3, <2>4, SameView DEF ExecEnters
<1>6. CASE WaitSteps
  <2>1. PICK f \in Frames : f.sig = Top.sig /\ f.k # "exec" /\ Turns(f)
    BY <1>0, <1>6, WaitTurns
  <2>2. ~At("exec") /\ ~At("exec")'
    BY <1>0, <1>6, <2>1, WaitTurns, TurnsKeeps, NotAtExec DEF At
  <2>3. /\ \A p \in Pid : ~Starting(p) /\ ~Starting(p)' /\ RealCode(p)' = RealCode(p)
        /\ UNCHANGED <<next, rc>>
    BY <1>6, <2>2
    DEF WaitSteps, WaitCalled, WaitScans, Starting, RealCode, tableVars, childVars
  <2>4. CASE table' = table
    <3>1. \A p \in Pid : ParentView(p)' = ParentView(p)
      BY <2>3, <2>4 DEF ParentView
    <3> QED
      BY <2>3, <3>1, SameView
  <2>5. ASSUME NEW p \in Pid, table[p] = "exited", table' = [table EXCEPT ![p] = "none"]
        PROVE  Abstract!Reap(p)
    <3>1. ParentView(p) = "zombie" /\ ParentView(p)' = "gone"
      BY <2>3, <2>5 DEF ParentView, TypeOK, Unused
    <3>2. \A q \in Pid : q # p => ParentView(q)' = ParentView(q)
      BY <2>3, <2>5 DEF ParentView, TypeOK
    <3> QED
      BY <2>3, <3>1, <3>2 DEF Abstract!Reap
  <2>6. \/ table' = table
        \/ \E p \in Pid : table[p] = "exited" /\ table' = [table EXCEPT ![p] = "none"]
    BY <1>6 DEF WaitSteps, WaitCalled, WaitScans, Matching, tableVars
  <2> QED
    BY <2>4, <2>5, <2>6 DEF Abstract!CNext
<1>7. CASE KillChild
  <2>1. stack # <<>> /\ ~At("exec")
    BY <1>7 DEF KillChild, At
  <2>2. ~At("exec")'
    BY <1>0, <1>7, <2>1, KillTurns, TurnsKeeps, NotAtExec
  <2>3. UNCHANGED <<next, kid, code>>
    BY <1>7 DEF KillChild, childVars
  <2>4. CASE UNCHANGED <<table, rc>>
    BY <2>1, <2>2, <2>3, <2>4, QuietStep
  <2>5. ASSUME NEW p, table[p] = "alive", p = Top.pid,
               table' = [table EXCEPT ![p] = "exited"],
               rc' = [rc EXCEPT ![p] = SIGKILL]
        PROVE  [Abstract!CNext]_Abstract!cvars
    <3>0. \A q \in Pid : ~Starting(q) /\ ~Starting(q)' /\ RealCode(q)' = RealCode(q)
      BY <2>1, <2>2, <2>3 DEF Starting, RealCode
    <3>1. CASE p \in Pid
      <4>1. ParentView(p) = "running" /\ ParentView(p)' = "zombie"
        BY <2>3, <2>5, <3>0, <3>1 DEF ParentView, TypeOK, Unused
      <4>2. \A q \in Pid : ParentView(q)' = IF q = p THEN "zombie" ELSE ParentView(q)
        <5> SUFFICES ASSUME NEW q \in Pid, q # p PROVE ParentView(q)' = ParentView(q)
          BY <4>1
        <5>1. table'[q] = table[q]
          BY <2>5 DEF TypeOK
        <5> QED
          BY <2>3, <3>0, <5>1 DEF ParentView
      <4>3. rc' = [rc EXCEPT ![p] = Abstract!SIGKILL]
        BY <2>5 DEF Abstract!SIGKILL, SIGKILL
      <4>4. Abstract!Kill(p)
        BY <3>0, <3>1, <4>1, <4>2, <4>3 DEF Abstract!Kill
      <4> QED
        BY <3>1, <4>4 DEF Abstract!CNext
    <3>2. CASE p \notin Pid
      <4>1. table' = table /\ rc' = rc
        BY <2>5, <3>2 DEF TypeOK
      <4> QED
        BY <2>1, <2>2, <2>3, <4>1, QuietStep
    <3> QED
      BY <3>1, <3>2
  <2>6. \/ UNCHANGED <<table, rc>>
        \/ \E p : /\ table[p] = "alive" /\ p = Top.pid
                  /\ table' = [table EXCEPT ![p] = "exited"]
                  /\ rc' = [rc EXCEPT ![p] = SIGKILL]
    BY <1>7 DEF KillChild
  <2> QED
    BY <2>4, <2>5, <2>6
<1>8. CASE HandlerReturns
  <2>1. ~At("exec") /\ NoExec
    BY <1>0, <1>8, TopType DEF Handshake, NoExec, At, HandlerReturns
  <2>2. ~At("exec")'
    BY <1>0, <1>8, <2>1, ReturnLeaves, NotAtExec DEF NoExec
  <2> QED
    BY <1>8, <2>1, <2>2, QuietStep DEF HandlerReturns, tableVars, childVars
<1>9. CASE ParentExits
  <2>1. ~At("exec") /\ ~At("exec")'
    BY <1>9 DEF ParentExits, At
  <2> QED
    BY <1>9, <2>1, QuietStep DEF ParentExits, tableVars, childVars
<1>10. CASE OtherSignal
  <2>1. \A p \in Pid : ParentView(p)' = ParentView(p) /\ RealCode(p)' = RealCode(p)
    BY <1>10
    DEF OtherSignal, tableVars, childVars, parentVars, Starting, ParentView, RealCode, At, Top
  <2> QED
    BY <1>10, <2>1, SameView DEF OtherSignal, tableVars
<1>11. ASSUME NEW p \in Pid, ChildStep(p) PROVE [Abstract!CNext]_Abstract!cvars
  <2>1. UNCHANGED <<next, table, rc, stack>>
    BY <1>11, ChildQuiet
  <2>2. \A q \in Pid : ParentView(q)' = ParentView(q)
    BY <2>1 DEF ParentView, Starting, At, Top
  <2>3. CASE CommandEnds(p)
    <3>1. PICK c \in Codes : code' = [code EXCEPT ![p] = c]
      BY <2>3 DEF CommandEnds, ChildAt, OwnArguments
    <3>2. kid[p] = "running" /\ kid' = [kid EXCEPT ![p] = "ended"]
      BY <2>3 DEF CommandEnds, ChildAt
    <3>3. ParentView(p) # "unborn"
      BY <3>2 DEF ParentView, Unused
    <3>4. RealCode(p) = -1
      BY <3>2 DEF RealCode
    <3>5. \A q \in Pid : RealCode(q)' = IF q = p THEN c ELSE RealCode(q)
      BY <3>1, <3>2 DEF RealCode, TypeOK
    <3>6. Abstract!End(p)
      BY <2>1, <2>2, <3>3, <3>4, <3>5 DEF Abstract!End, Abstract!NoCode
    <3> QED
      BY <3>6 DEF Abstract!CNext
  <2>4. CASE ~CommandEnds(p)
    <3>1. code' = code
      BY <1>11, <2>4
      DEF ChildStep, ChildCopies, ChildStarts, FindsPort, SendsExit, FreesExit
    <3>2. PICK from, to : /\ ChildAt(p, from, to)
                          /\ from \in {"ended", "found", "noport", "gone"}
                               <=> to \in {"ended", "found", "noport", "gone"}
      BY <1>11, <2>4
      DEF ChildStep, ChildCopies, ChildStarts, FindsPort, SendsExit, FreesExit
    <3>3. \A q \in Pid : RealCode(q)' = RealCode(q)
      BY <3>1, <3>2 DEF ChildAt, RealCode, TypeOK
    <3> QED
      BY <2>1, <2>2, <3>3, SameView
  <2> QED
    BY <2>3, <2>4
<1>12. CASE UNCHANGED vars
  <2>1. \A p \in Pid : ParentView(p)' = ParentView(p) /\ RealCode(p)' = RealCode(p)
    BY <1>12 DEF vars, Starting, ParentView, RealCode, At, Top
  <2> QED
    BY <1>12, <2>1, SameView DEF vars
<1> QED
  BY <1>1, <1>2, <1>3, <1>4, <1>5, <1>6, <1>7, <1>8, <1>9, <1>10, <1>11, <1>12
  DEF Next, LibraryStep, ProgramStep, PollCalls, WaitSteps, Terminated

\* exec, kill, wait4 and the children behave, for any number of children, as
\* ChildTable promises: one report per child, with its true status.
THEOREM Refinement == Spec => ImplementsChildTable
<1>1. IInv /\ IInv' /\ [Next]_vars => [Abstract!CNext]_Abstract!cvars
  BY AbstractStep
<1> QED
  BY <1>1, AbstractInit, InvAlways, PTL DEF Spec, ImplementsChildTable, Abstract!CSpec
=============================================================================
