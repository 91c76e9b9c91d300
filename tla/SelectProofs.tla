---------------------------- MODULE SelectProofs ----------------------------
(***************************************************************************)
(* Proofs about Select, for any number of descriptors, of bytes and of     *)
(* nested handlers.  The inductive invariant says of every request message *)
(* where it is, from where the running call stands (RequestsAsWaited), and *)
(* that a call a handler interrupts has no request out (BelowSettled).     *)
(***************************************************************************)
EXTENDS Select, Numbers, TLAPS

\* The running call has asked for m and not looked at it since.
Asking(m) ==
  \/ At("io", "wait") /\ m = <<Top.fd, Top.dir>>
  \/ /\ Top.k = "select" /\ m \in Asked(Top) /\ m[1] \in Top.todo
     /\ \/ Top.pc \in {"wait", "poll"}
        \/ Top.pc \in {"drain", "next"} /\ m[1] # Current(Top)

\* It has aborted m and waits for it to come back.
Owing(m) ==
  \/ At("io", "abort") /\ m = <<Top.fd, Top.dir>>
  \/ At("select", "drain") /\ m[1] = Current(Top) /\ m[2] \in Top.owed

RequestsAsWaited ==
  \A m \in Msgs :
    req[m] \in IF Asking(m) THEN {"pending", "replied"}
               ELSE IF Owing(m) THEN {"aborted", "replied"} ELSE {"idle"}

\* What a call may be doing while no request of it is out.
Settled(c) ==
  /\ c.k = "io" => c.pc \notin {"wait", "abort"}
  /\ c.k = "select" => c.pc \notin {"wait", "poll", "drain", "next"}

BelowSettled == \A d \in Levels : d < depth => Settled(call[d])

\* read and write are of descriptors open for it.  In the loops of a select,
\* descriptors are left where one is looked at, and a descriptor counts once,
\* when it leaves the loop.
FrameOK(c) ==
  /\ c.k = "io" => c.fd \in IF c.dir = "r" THEN Readers ELSE Writers
  /\ c.k = "select" =>
    /\ c.pc \in {"poll", "drain", "next"} => c.todo # {}
    /\ c.pc \in {"timer", "start", "wait"} => c.count = 0
    /\ c.pc = "wait" => c.todo = SelectFds(c)
    /\ c.count + Cardinality(c.todo) <= Cardinality(Fds)

IInv ==
  /\ TypeOK /\ RequestsAsWaited /\ BelowSettled /\ StreamInOrder
  /\ \A d \in Levels : FrameOK(call[d])

----------------------------------------------------------------------------
(* Frames and descriptors.                                                 *)

\* The descriptor the loop of select looks at is one of those left.
LEMMA CurrentLeft ==
  ASSUME NEW s, s.todo \in SUBSET Fds, s.todo # {}
  PROVE  Current(s) \in s.todo
BY Minimum, SelectAssumption DEF Current

LEMMA FrameFields ==
  ASSUME NEW c \in Frames
  PROVE  /\ c.k \in {"user", "io", "sleep", "select"}
         /\ c.k = "user" => c = User
         /\ c.k = "io" => /\ c.fd \in Fds /\ c.dir \in Dirs
                          /\ c.nd \in BOOLEAN
                          /\ c.pc \in {"try", "eof", "wait", "abort", "signals"}
                          /\ c = Io(c.fd, c.dir, c.nd, c.pc)
         /\ c.k = "sleep" => c = Sleep(c.pc) /\ c.pc \in {"timer", "zero", "check", "wait"}
         /\ c.k = "select" => c \in Selects
BY DEF Frames, User, Selects, Io, Sleep

\* Changing where a call stands keeps it a frame.
LEMMA IoMoves ==
  ASSUME NEW c \in Frames, c.k = "io",
         NEW pc \in {"try", "eof", "wait", "abort", "signals"}
  PROVE  /\ [c EXCEPT !.pc = pc] \in Frames
         /\ [c EXCEPT !.pc = pc] = Io(c.fd, c.dir, c.nd, pc)
<1>1. c \in [k : {"io"}, fd : Fds, dir : Dirs, nd : BOOLEAN,
             pc : {"try", "eof", "wait", "abort", "signals"}]
  BY DEF Frames, User, Selects
<1>2. [c EXCEPT !.pc = pc] = Io(c.fd, c.dir, c.nd, pc)
  BY <1>1 DEF Io
<1> QED
  BY <1>1, <1>2 DEF Frames, Io

LEMMA SleepMoves ==
  ASSUME NEW c \in Frames, c.k = "sleep", NEW pc \in {"timer", "zero", "check", "wait"}
  PROVE  /\ [c EXCEPT !.pc = pc] \in Frames
         /\ [c EXCEPT !.pc = pc] = Sleep(pc)
<1>1. c \in [k : {"sleep"}, pc : {"timer", "zero", "check", "wait"}]
  BY DEF Frames, User, Selects
<1>2. [c EXCEPT !.pc = pc] = Sleep(pc)
  BY <1>1 DEF Sleep
<1> QED
  BY <1>1, <1>2 DEF Frames, Sleep

SelectPcs == {"timer", "start", "wait", "poll", "drain", "next", "signals", "check", "ret"}

LEMMA SelectMoves ==
  ASSUME NEW c \in Selects, NEW pc \in SelectPcs
  PROVE  /\ [c EXCEPT !.pc = pc] \in Selects
         /\ [c EXCEPT !.pc = pc].k = "select" /\ [c EXCEPT !.pc = pc].pc = pc
         /\ [c EXCEPT !.pc = pc].todo = c.todo /\ [c EXCEPT !.pc = pc].count = c.count
         /\ [c EXCEPT !.pc = pc].r = c.r /\ [c EXCEPT !.pc = pc].w = c.w
BY DEF Selects, SelectPcs

----------------------------------------------------------------------------
(* What entering, leaving and interrupting a call does to the frames.      *)

LEMMA MoveKeeps ==
  ASSUME TypeOK, BelowSettled, \A d \in Levels : FrameOK(call[d]),
         NEW c \in Frames, FrameOK(c),
         Becomes(c) \/ (Interrupted(c) /\ Settled(c))
  PROVE  /\ depth' \in Levels /\ call' \in [Levels -> Frames]
         /\ BelowSettled' /\ \A d \in Levels : FrameOK(call'[d])
         /\ Becomes(c) => Top' = c /\ depth' = depth
         /\ Top' \in {c, User}
<1>1. User \in Frames /\ FrameOK(User) /\ depth \in Levels /\ MaxDepth \in Nat
  BY SelectAssumption DEF Frames, User, FrameOK, TypeOK
<1>2. CASE Becomes(c)
  <2>1. depth' = depth /\ call' \in [Levels -> Frames] /\ Top' = c
    BY <1>1, <1>2 DEF Becomes, TypeOK, Top
  <2>2. \A d \in Levels : d # depth => call'[d] = call[d]
    BY <1>2 DEF Becomes, TypeOK
  <2>3. BelowSettled'
    BY <1>1, <2>1, <2>2 DEF BelowSettled, Levels
  <2>4. \A d \in Levels : FrameOK(call'[d])
    BY <2>1, <2>2 DEF Top
  <2> QED
    BY <1>1, <2>1, <2>3, <2>4
<1>3. CASE /\ Settled(c) /\ depth < MaxDepth /\ depth' = depth + 1
           /\ call' = [call EXCEPT ![depth] = c, ![depth + 1] = User]
  <2>1. depth' \in Levels /\ call' \in [Levels -> Frames] /\ Top' = User
    BY <1>1, <1>3 DEF Levels, TypeOK, Top
  <2>2. /\ \A d \in Levels : d \notin {depth, depth + 1} => call'[d] = call[d]
        /\ call'[depth] = c /\ call'[depth + 1] = User
    BY <1>1, <1>3 DEF Levels, TypeOK
  <2>3. BelowSettled'
    BY <1>1, <1>3, <2>1, <2>2 DEF BelowSettled, Levels
  <2>4. \A d \in Levels : FrameOK(call'[d])
    BY <1>1, <2>2
  <2>5. ~Becomes(c)
    BY <1>1, <1>3 DEF Becomes, Levels
  <2> QED
    BY <2>1, <2>3, <2>4, <2>5
<1> QED
  BY <1>2, <1>3 DEF Interrupted

\* While no request of the running call is out, all are idle.
LEMMA SettledMeans ==
  ASSUME Settled(Top), RequestsAsWaited
  PROVE  \A m \in Msgs : req[m] = "idle"
BY DEF Settled, RequestsAsWaited, Asking, Owing, At

LEMMA SettledStays ==
  ASSUME Settled(Top)', \A m \in Msgs : req'[m] = "idle"
  PROVE  RequestsAsWaited'
BY DEF Settled, RequestsAsWaited, Asking, Owing, At

----------------------------------------------------------------------------
(* The inductive invariant, action by action.                              *)

LEMMA InvInit == Init => IInv
<1> SUFFICES ASSUME Init PROVE IInv
  OBVIOUS
<1> USE SelectAssumption
<1>1. depth \in Levels /\ call \in [Levels -> Frames] /\ Top = User
  BY DEF Init, Levels, Frames, Top
<1>2. TypeOK
  BY <1>1 DEF Init, TypeOK
<1>3. RequestsAsWaited
  BY <1>1 DEF Init, RequestsAsWaited, Asking, Owing, At, User
<1>4. BelowSettled /\ \A d \in Levels : FrameOK(call[d])
  BY DEF Init, BelowSettled, Settled, FrameOK, User
<1>5. StreamInOrder
  BY DEF Init, StreamInOrder
<1> QED
  BY <1>2, <1>3, <1>4, <1>5 DEF IInv

\* The steps that touch neither requests nor bytes read.
LEMMA QuietMove ==
  ASSUME IInv, NEW c \in Frames, FrameOK(c), Settled(c), Settled(Top),
         Becomes(c) \/ Interrupted(c),
         UNCHANGED <<sent, ended, gone, dropped, skip, got, req>>,
         room' \subseteq Writers, wopen' \subseteq Writers,
         timer' \in {"idle", "sent", "replied"}, bits' \subseteq {"fifo", "odd", "sig"}
  PROVE  IInv'
<1> USE DEF IInv
<1>1. /\ depth' \in Levels /\ call' \in [Levels -> Frames] /\ BelowSettled'
      /\ (\A d \in Levels : FrameOK(call'[d])) /\ Top' \in {c, User}
  BY MoveKeeps
<1>2. RequestsAsWaited'
  <2>1. Settled(Top)'
    BY <1>1 DEF Settled, User
  <2> QED
    BY <2>1, SettledMeans, SettledStays
<1>3. TypeOK'
  BY <1>1 DEF TypeOK
<1>4. StreamInOrder'
  BY DEF StreamInOrder
<1>5. (\A d \in Levels : FrameOK(call[d]))'
  BY <1>1 DEF FrameOK
<1> QED
  BY <1>1, <1>2, <1>3, <1>4, <1>5

LEMMA EntersKeeps ==
  ASSUME IInv, NEW c \in Frames, FrameOK(c), Settled(c), Top = User, Enters(c)
  PROVE  IInv'
<1>1. Settled(Top)
  BY DEF Settled, User
<1>2. TypeOK
  BY DEF IInv
<1> QED
  BY <1>1, <1>2, QuietMove DEF Enters, fifos, TypeOK

LEMMA CallsKeep ==
  ASSUME IInv, CallRead \/ CallWrite \/ CallWriteEof \/ CallSelect \/ CallSleep
  PROVE  IInv'
<1> USE SelectAssumption
<1>1. Top = User
  BY DEF CallRead, CallWrite, CallWriteEof, CallSelect, CallSleep, MayCall
<1>2. ASSUME NEW dir \in Dirs, NEW f \in IF dir = "r" THEN Readers ELSE Writers,
             NEW nd \in BOOLEAN, NEW pc \in {"try", "eof"}, Enters(Io(f, dir, nd, pc))
      PROVE  IInv'
  <2>1. Io(f, dir, nd, pc) \in Frames
    BY DEF Frames, Io, Dirs
  <2>2. FrameOK(Io(f, dir, nd, pc)) /\ Settled(Io(f, dir, nd, pc))
    BY DEF FrameOK, Settled, Io
  <2> QED
    BY <1>1, <1>2, <2>1, <2>2, EntersKeeps
<1>3. CASE CallRead
  BY <1>2, <1>3 DEF CallRead, Dirs
<1>4. CASE CallWrite
  BY <1>2, <1>4 DEF CallWrite, Dirs
<1>5. CASE CallWriteEof
  BY <1>2, <1>5 DEF CallWriteEof, Dirs, IInv, TypeOK
<1>6. CASE CallSelect
  <2>1. PICK m \in Modes, r \in SUBSET Readers, w \in SUBSET wopen :
          Enters([k |-> "select", mode |-> m, r |-> r, w |-> w, rout |-> r, wout |-> w,
                  count |-> 0, todo |-> {}, found |-> {}, owed |-> {}, pc |-> "timer"])
    BY <1>6 DEF CallSelect
  <2> DEFINE c == [k |-> "select", mode |-> m, r |-> r, w |-> w, rout |-> r, wout |-> w,
                   count |-> 0, todo |-> {}, found |-> {}, owed |-> {}, pc |-> "timer"]
  <2>2. Cardinality({}) = 0 /\ Cardinality(Fds) \in Nat
    BY FS_EmptySet, FS_CardinalityType
  <2>3. c \in Selects
    BY <2>2 DEF Selects, IInv, TypeOK
  <2>4. FrameOK(c) /\ Settled(c)
    BY <2>2 DEF FrameOK, Settled
  <2> QED
    BY <1>1, <2>1, <2>3, <2>4, EntersKeeps DEF Frames
<1>7. CASE CallSleep
  <2>1. PICK pc \in {"timer", "zero"} : Enters(Sleep(pc))
    BY <1>7 DEF CallSleep
  <2>2. Sleep(pc) \in Frames /\ FrameOK(Sleep(pc)) /\ Settled(Sleep(pc))
    BY DEF Sleep, Frames, FrameOK, Settled
  <2> QED
    BY <1>1, <2>1, <2>2, EntersKeeps
<1> QED
  BY <1>3, <1>4, <1>5, <1>6, <1>7

\* TypeOK of everything but the calls.
DataOK ==
  /\ sent \in [Readers -> 0 .. MaxBytes]
  /\ dropped \in [Readers -> Nat] /\ skip \in [Readers -> Nat] /\ got \in [Readers -> Nat]
  /\ ended \subseteq Readers
  /\ room \subseteq Writers /\ gone \subseteq Writers /\ wopen \subseteq Writers
  /\ req \in [Msgs -> {"idle", "pending", "aborted", "replied"}]
  /\ timer \in {"idle", "sent", "replied"}
  /\ bits \subseteq {"fifo", "odd", "sig"}

\* A step that moves the running call on to c and accounts for its requests.
LEMMA MoveTo ==
  ASSUME IInv, NEW c \in Frames, FrameOK(c), Becomes(c),
         DataOK', RequestsAsWaited', StreamInOrder'
  PROVE  IInv'
<1>1. /\ depth' \in Levels /\ call' \in [Levels -> Frames] /\ BelowSettled'
      /\ \A d \in Levels : FrameOK(call'[d])
  BY MoveKeeps DEF IInv
<1>2. TypeOK'
  BY <1>1 DEF DataOK, TypeOK
<1>3. (\A d \in Levels : FrameOK(call[d]))'
  BY <1>1 DEF FrameOK
<1> QED
  BY <1>1, <1>2, <1>3 DEF IInv

\* Where the running call stands after it.
LEMMA MovedTop ==
  ASSUME TypeOK, NEW c, Becomes(c)
  PROVE  Top' = c
BY DEF Becomes, Top, TypeOK

LEMMA UserFrame == User \in Frames /\ FrameOK(User) /\ Settled(User)
BY DEF Frames, User, FrameOK, Settled

LEMMA IoFrames ==
  ASSUME IInv, Top.k = "io", NEW pc \in {"try", "eof", "wait", "abort", "signals"}
  PROVE  /\ Top \in Frames /\ Top.fd \in Fds /\ Top.dir \in Dirs /\ <<Top.fd, Top.dir>> \in Msgs
         /\ Top.fd \in IF Top.dir = "r" THEN Readers ELSE Writers
         /\ [Top EXCEPT !.pc = pc] \in Frames /\ FrameOK([Top EXCEPT !.pc = pc])
         /\ [Top EXCEPT !.pc = pc] = Io(Top.fd, Top.dir, Top.nd, pc)
<1>1. Top \in Frames /\ FrameOK(Top)
  BY DEF IInv, TypeOK, Top
<1>2. /\ [Top EXCEPT !.pc = pc] \in Frames
      /\ [Top EXCEPT !.pc = pc] = Io(Top.fd, Top.dir, Top.nd, pc)
  BY <1>1, IoMoves
<1> QED
  BY <1>1, <1>2, FrameFields DEF FrameOK, Io, Msgs

\* read or write asks for its one message, and waits for it.
LEMMA IoAsks ==
  ASSUME IInv, Top.k = "io", Settled(Top), GoesTo("wait"), Request({<<Top.fd, Top.dir>>})
  PROVE  RequestsAsWaited' /\ req' \in [Msgs -> {"idle", "pending", "aborted", "replied"}]
<1>1. Top' = Io(Top.fd, Top.dir, Top.nd, "wait")
  BY IoFrames, MovedTop DEF GoesTo, IInv
<1>2. \A m \in Msgs : Asking(m)' <=> m = <<Top.fd, Top.dir>>
  BY <1>1 DEF Asking, At, Io
<1>3. \A m \in Msgs : req'[m] = IF m = <<Top.fd, Top.dir>> THEN "pending" ELSE "idle"
  BY SettledMeans DEF Request, IInv
<1>4. \A m \in Msgs : ~Owing(m)'
  BY <1>1 DEF Owing, At, Io
<1>5. req' = [m \in Msgs |-> IF m = <<Top.fd, Top.dir>> THEN "pending" ELSE "idle"]
  BY <1>3 DEF Request
<1> QED
  BY <1>2, <1>3, <1>4, <1>5 DEF RequestsAsWaited

LEMMA ReadKeeps == ASSUME IInv, ReadTries PROVE IInv'
<1> USE DEF IInv
<1> DEFINE f == Top.fd
           left == sent[f] - dropped[f] - skip[f]
<1>1. /\ Top.k = "io" /\ Top.pc = "try" /\ Top.dir = "r" /\ Settled(Top)
      /\ f \in Readers /\ <<f, "r">> \in Msgs
  BY IoFrames DEF ReadTries, At, Settled
<1>2. /\ sent[f] \in Nat /\ dropped[f] \in Nat /\ skip[f] \in Nat /\ got[f] \in Nat
      /\ got[f] = dropped[f] + skip[f] /\ got[f] <= sent[f]
  <2>1. MaxBytes \in Nat /\ f \in Readers
    BY <1>1, SelectAssumption
  <2>2. sent[f] \in Nat /\ dropped[f] \in Nat /\ skip[f] \in Nat /\ got[f] \in Nat
    BY <2>1 DEF TypeOK
  <2>3. got[f] = dropped[f] + skip[f] /\ got[f] <= sent[f]
    BY <2>1 DEF StreamInOrder
  <2> QED
    BY <2>2, <2>3
<1>3. dropped' = [dropped EXCEPT ![f] = dropped[f] + skip[f]] /\ dropped' \in [Readers -> Nat]
  BY <1>1, <1>2 DEF ReadTries, TypeOK
<1>4. CASE /\ Return /\ UNCHANGED req
           /\ \E n \in 0 .. left : /\ skip' = [skip EXCEPT ![f] = n]
                                   /\ got' = [got EXCEPT ![f] = @ + n]
  <2>1. PICK n \in 0 .. left : /\ skip' = [skip EXCEPT ![f] = n]
                               /\ got' = [got EXCEPT ![f] = @ + n]
    BY <1>4
  <2>2. skip' \in [Readers -> Nat] /\ got' \in [Readers -> Nat]
    BY <1>1, <1>2, <2>1 DEF TypeOK
  <2>3. StreamInOrder'
    BY <1>1, <1>2, <1>3, <2>1 DEF ReadTries, StreamInOrder, TypeOK, fifos
  <2>4. RequestsAsWaited'
    BY <1>1, <1>4, UserFrame, MovedTop, SettledMeans, SettledStays DEF Return
  <2> QED
    BY <1>3, <1>4, <2>2, <2>3, <2>4, MoveTo, UserFrame
    DEF ReadTries, DataOK, TypeOK, fifos, Return
<1>5. CASE left = 0 /\ skip' = [skip EXCEPT ![f] = 0] /\ UNCHANGED got
  <2>1. skip' \in [Readers -> Nat]
    BY <1>1, <1>5 DEF TypeOK
  <2>2. StreamInOrder'
    BY <1>1, <1>2, <1>3, <1>5 DEF ReadTries, StreamInOrder, TypeOK, fifos
  <2>3. CASE Return /\ UNCHANGED req
    <3>1. RequestsAsWaited'
      BY <1>1, <2>3, UserFrame, MovedTop, SettledMeans, SettledStays DEF Return
    <3> QED
      BY <1>3, <1>5, <2>1, <2>2, <2>3, <3>1, MoveTo, UserFrame
      DEF ReadTries, DataOK, TypeOK, fifos, Return
  <2>4. CASE GoesTo("wait") /\ Request({<<f, "r">>})
    <3>1. RequestsAsWaited' /\ req' \in [Msgs -> {"idle", "pending", "aborted", "replied"}]
      BY <1>1, <2>4, IoAsks
    <3> QED
      BY <1>1, <1>3, <1>5, <2>1, <2>2, <2>4, <3>1, MoveTo, IoFrames
      DEF ReadTries, DataOK, TypeOK, fifos, GoesTo
  <2> QED
    BY <1>1, <1>5, <2>3, <2>4 DEF ReadTries
<1> QED
  BY <1>1, <1>4, <1>5 DEF ReadTries

LEMMA WriteKeeps == ASSUME IInv, WriteTries PROVE IInv'
<1> USE DEF IInv
<1> DEFINE f == Top.fd
<1>1. Top.k = "io" /\ Top.dir = "w" /\ Settled(Top) /\ <<f, "w">> \in Msgs
  BY IoFrames DEF WriteTries, At, Settled
<1>2. room' \subseteq Writers
  BY DEF WriteTries, TypeOK
<1>3. CASE (Return \/ Interrupted(User)) /\ UNCHANGED req
  BY <1>1, <1>2, <1>3, QuietMove, UserFrame DEF WriteTries, TypeOK, Return
<1>4. CASE GoesTo("wait") /\ Request({<<f, "w">>})
  <2>1. RequestsAsWaited' /\ req' \in [Msgs -> {"idle", "pending", "aborted", "replied"}]
    BY <1>1, <1>4, IoAsks
  <2>2. StreamInOrder'
    BY DEF WriteTries, StreamInOrder
  <2>3. DataOK'
    BY <1>2, <2>1 DEF WriteTries, DataOK, TypeOK
  <2> QED
    BY <1>1, <1>4, <2>1, <2>2, <2>3, MoveTo, IoFrames DEF GoesTo
<1> QED
  BY <1>1, <1>3, <1>4 DEF WriteTries

LEMMA WriteEofKeeps == ASSUME IInv, WriteEof PROVE IInv'
<1>1. Settled(Top)
  BY DEF WriteEof, At, Settled
<1> QED
  BY <1>1, QuietMove, UserFrame DEF WriteEof, IInv, TypeOK, fifos, Return

\* The request of read or write is taken back: its message may be there already.
LEMMA IoWaitsKeeps == ASSUME IInv, IoWaits PROVE IInv'
<1> USE DEF IInv
<1> DEFINE own == <<Top.fd, Top.dir>>
<1>1. Top.k = "io" /\ Top.pc = "wait" /\ own \in Msgs
  BY IoFrames DEF IoWaits, At
<1>2. Top' = Io(Top.fd, Top.dir, Top.nd, "abort")
  BY <1>1, IoFrames, MovedTop DEF IoWaits, GoesTo
<1>3. /\ \A m \in Msgs : m # own => req[m] = "idle"
      /\ req[own] \in {"pending", "replied"}
  BY <1>1 DEF RequestsAsWaited, Asking, Owing, At
<1>4. /\ req' \in [Msgs -> {"idle", "pending", "aborted", "replied"}]
      /\ \A m \in Msgs : m # own => req'[m] = "idle"
      /\ req'[own] \in {"aborted", "replied"}
  BY <1>1, <1>3 DEF IoWaits, Aborted, TypeOK
<1>5. RequestsAsWaited'
  BY <1>2, <1>4 DEF RequestsAsWaited, Asking, Owing, At, Io
<1> QED
  BY <1>1, <1>4, <1>5, MoveTo, IoFrames
  DEF IoWaits, GoesTo, DataOK, TypeOK, StreamInOrder, fifos

LEMMA IoTakesKeeps == ASSUME IInv, IoTakes PROVE IInv'
<1> USE DEF IInv
<1> DEFINE own == <<Top.fd, Top.dir>>
<1>1. Top.k = "io" /\ Top.pc = "abort" /\ own \in Msgs
  BY IoFrames DEF IoTakes, At
<1>2. PICK d \in Dirs : req[<<Top.fd, d>>] = "replied" /\ req' = [req EXCEPT ![<<Top.fd, d>>] = "idle"]
  BY DEF IoTakes, Takes, Replied
<1>3. \A m \in Msgs : m # own => req[m] = "idle"
  BY <1>1 DEF RequestsAsWaited, Asking, Owing, At
<1>4. <<Top.fd, d>> = own
  BY <1>1, <1>2, <1>3, IoFrames DEF Msgs
<1>5. \A m \in Msgs : req'[m] = "idle"
  BY <1>1, <1>2, <1>3, <1>4 DEF TypeOK
<1>6. Top' = Io(Top.fd, Top.dir, Top.nd, "signals")
  BY <1>1, IoFrames, MovedTop DEF IoTakes, GoesTo
<1>7. RequestsAsWaited'
  BY <1>5, <1>6, SettledStays DEF Settled, Io
<1> QED
  BY <1>1, <1>2, <1>7, MoveTo, IoFrames
  DEF IoTakes, GoesTo, DataOK, TypeOK, StreamInOrder, fifos

LEMMA IoSignalsKeeps == ASSUME IInv, IoSignals PROVE IInv'
<1>1. Settled(Top) /\ Top.k = "io"
  BY DEF IoSignals, At, Settled
<1>2. Settled([Top EXCEPT !.pc = "try"])
  BY <1>1, IoFrames DEF Settled, Io
<1> QED
  BY <1>1, <1>2, QuietMove, IoFrames DEF IoSignals, IInv, TypeOK, fifos

----------------------------------------------------------------------------
(* The steps of select.                                                    *)

LEMMA SelectFrames ==
  ASSUME IInv, Top.k = "select"
  PROVE  /\ Top \in Selects /\ FrameOK(Top) /\ Top.pc \in SelectPcs
         /\ Top.todo \in SUBSET Fds /\ SelectFds(Top) \in SUBSET Fds
         /\ Asked(Top) \in SUBSET Msgs
         /\ \A m \in Msgs : m \in Asked(Top) <=> m[2] \in AskedOf(Top, m[1])
         /\ \A m \in Asked(Top) : m[1] \in SelectFds(Top)
<1>1. Top \in Selects /\ FrameOK(Top)
  BY FrameFields DEF IInv, TypeOK, Top
<1>2. /\ Top.todo \in SUBSET Fds /\ Top.r \in SUBSET Fds /\ Top.w \in SUBSET Fds
      /\ Top.pc \in SelectPcs
  BY <1>1, SelectAssumption DEF Selects, SelectPcs
<1>3. \A m \in Msgs : m \in Asked(Top) <=> m[2] \in AskedOf(Top, m[1])
  BY <1>2 DEF Asked, AskedOf, Msgs, Dirs
<1>4. Asked(Top) \in SUBSET Msgs /\ \A m \in Asked(Top) : m[1] \in SelectFds(Top)
  BY <1>2 DEF Asked, SelectFds, Msgs, Dirs
<1> QED
  BY <1>1, <1>2, <1>3, <1>4 DEF SelectFds

LEMMA SelectSetsTimerKeeps == ASSUME IInv, SelectSetsTimer PROVE IInv'
<1> DEFINE c == [Top EXCEPT !.pc = "start"]
<1>1. Settled(Top) /\ Top.k = "select" /\ Top.pc = "timer"
  BY DEF SelectSetsTimer, At, Settled
<1>2. c \in Selects /\ FrameOK(c) /\ Settled(c)
  BY <1>1, SelectFrames, SelectMoves, ZenonT(40) DEF FrameOK, Settled, SelectPcs
<1>3. timer' \in {"idle", "sent", "replied"} /\ bits' \subseteq {"fifo", "odd", "sig"}
  BY DEF SelectSetsTimer, TimerStarts, IInv, TypeOK
<1> QED
  BY <1>1, <1>2, <1>3, QuietMove DEF SelectSetsTimer, GoesTo, IInv, TypeOK, fifos, Frames

LEMMA SelectStartsKeeps == ASSUME IInv, SelectStarts PROVE IInv'
<1> USE DEF IInv
<1> DEFINE c == [Top EXCEPT !.pc = "wait", !.todo = SelectFds(Top)]
<1>1. Top.k = "select" /\ Top.pc = "start" /\ Settled(Top)
  BY DEF SelectStarts, At, Settled
<1>2. Cardinality(SelectFds(Top)) <= Cardinality(Fds) /\ Cardinality(SelectFds(Top)) \in Nat
  BY <1>1, SelectFrames, SelectAssumption, FS_Subset, FS_CardinalityType
<1>3. /\ c \in Selects /\ c.k = "select" /\ c.pc = "wait" /\ c.todo = SelectFds(Top)
      /\ c.count = Top.count /\ c.r = Top.r /\ c.w = Top.w
  BY <1>1, SelectFrames DEF Selects
<1>4. FrameOK(c)
  BY <1>1, <1>2, <1>3, SelectFrames DEF FrameOK, SelectFds
<1>5. Top' = c
  BY MovedTop DEF SelectStarts
<1>6. \A m \in Msgs : (Asking(m)' <=> m \in Asked(Top)) /\ ~Owing(m)'
  BY <1>1, <1>3, <1>5, SelectFrames DEF Asking, Owing, At, Asked
<1>7. /\ \A m \in Msgs : req'[m] = IF m \in Asked(Top) THEN "pending" ELSE "idle"
      /\ req' \in [Msgs -> {"idle", "pending", "aborted", "replied"}]
  BY <1>1, SettledMeans DEF SelectStarts, Request, TypeOK
<1>8. RequestsAsWaited'
  BY <1>6, <1>7 DEF RequestsAsWaited
<1> QED
  BY <1>3, <1>4, <1>7, <1>8, MoveTo
  DEF SelectStarts, DataOK, TypeOK, StreamInOrder, fifos, Frames

LEMMA SelectWaitsKeeps == ASSUME IInv, SelectWaits PROVE IInv'
<1> USE DEF IInv
<1>1. Top.k = "select" /\ Top.pc = "wait" /\ Top.todo = SelectFds(Top) /\ Top.count = 0
  BY SelectFrames DEF SelectWaits, At, FrameOK
<1>2. bits' \subseteq {"fifo", "odd", "sig"}
  BY DEF SelectWaits, TypeOK
<1>3. CASE SelectFds(Top) = {}
  <2> DEFINE c == [Top EXCEPT !.pc = "signals"]
  <2>1. c \in Selects /\ FrameOK(c) /\ Settled(c)
    BY <1>1, SelectFrames, SelectMoves, ZenonT(40) DEF FrameOK, Settled, SelectPcs
  <2>2. \A m \in Msgs : req[m] = "idle"
    BY <1>1, <1>3 DEF RequestsAsWaited, Asking, Owing, At
  <2>3. Becomes(c)
    BY <1>3 DEF SelectWaits, GoesTo
  <2>4. RequestsAsWaited'
    BY <2>1, <2>2, <2>3, MovedTop, SettledStays DEF SelectWaits
  <2> QED
    BY <1>2, <2>1, <2>3, <2>4, MoveTo
    DEF SelectWaits, DataOK, TypeOK, StreamInOrder, fifos, Frames
<1>4. CASE SelectFds(Top) # {}
  <2> DEFINE c == [Top EXCEPT !.pc = "poll"]
  <2>1. /\ c \in Selects /\ c.k = "select" /\ c.pc = "poll" /\ c.todo = Top.todo
        /\ c.count = Top.count /\ c.r = Top.r /\ c.w = Top.w
    BY <1>1, SelectFrames, SelectMoves, ZenonT(40) DEF SelectPcs
  <2>2. FrameOK(c)
    BY <1>1, <1>4, <2>1, SelectFrames DEF FrameOK
  <2>3. Becomes(c)
    BY <1>4 DEF SelectWaits, GoesTo
  <2>4. Top' = c
    BY <2>3, MovedTop
  <2>5. \A m \in Msgs : (Asking(m)' <=> Asking(m)) /\ ~Owing(m)' /\ ~Owing(m)
    BY <1>1, <2>1, <2>4 DEF Asking, Owing, At, Asked
  <2>6. RequestsAsWaited'
    BY <2>5 DEF RequestsAsWaited, SelectWaits
  <2> QED
    BY <1>2, <2>1, <2>2, <2>3, <2>6, MoveTo
    DEF SelectWaits, DataOK, TypeOK, StreamInOrder, fifos, Frames
<1> QED
  BY <1>3, <1>4

\* A direction asked for whose message is there is found ready, the other ones
\* are aborted and owed.
LEMMA SelectPollsKeeps == ASSUME IInv, SelectPolls PROVE IInv'
<1> USE DEF IInv
<1> DEFINE f == Current(Top)
           found == AskedOf(Top, f) \cap Replied(f)
           owed == AskedOf(Top, f) \ found
           c == [Top EXCEPT !.pc = IF owed = {} THEN "next" ELSE "drain",
                            !.found = found, !.owed = owed]
<1>1. Top.k = "select" /\ Top.pc = "poll" /\ Top.todo # {}
  BY SelectFrames DEF SelectPolls, At, FrameOK
<1>2. f \in Top.todo /\ f \in Fds
  BY <1>1, CurrentLeft, SelectFrames
<1>3. found \in SUBSET Dirs /\ owed \in SUBSET Dirs
  BY DEF AskedOf
<1>4. /\ c \in Selects /\ c.k = "select" /\ c.pc \in {"next", "drain"} /\ c.todo = Top.todo
      /\ c.count = Top.count /\ c.r = Top.r /\ c.w = Top.w /\ c.owed = owed
      /\ c.pc = "drain" <=> owed # {}
  BY <1>1, <1>3, SelectFrames DEF Selects
<1>5. FrameOK(c)
  BY <1>1, <1>4, SelectFrames DEF FrameOK
<1>6. Becomes(c) /\ Top' = c
  BY MovedTop DEF SelectPolls
<1>7. Current(Top)' = f
  BY <1>4, <1>6 DEF Current
<1>8. \A m \in Msgs : req[m] \in IF m \in Asked(Top) /\ m[1] \in Top.todo
                                 THEN {"pending", "replied"} ELSE {"idle"}
  BY <1>1 DEF RequestsAsWaited, Asking, Owing, At
<1>9. \A m \in Msgs : req'[m] = IF m[1] # f THEN req[m]
                                ELSE IF m[2] \in owed THEN "aborted" ELSE "idle"
  <2> SUFFICES ASSUME NEW m \in Msgs
               PROVE  req'[m] = IF m[1] # f THEN req[m]
                                ELSE IF m[2] \in owed THEN "aborted" ELSE "idle"
    OBVIOUS
  <2>1. /\ m = <<m[1], m[2]>> /\ m[2] \in Dirs
        /\ m \in Asked(Top) <=> m[2] \in AskedOf(Top, m[1])
    BY <1>1, SelectFrames DEF Msgs
  <2>2. req'[m] = IF m \in {f} \X owed /\ req[m] = "pending" THEN "aborted"
                  ELSE IF m \in {f} \X Replied(f) THEN "idle" ELSE req[m]
    BY DEF SelectPolls
  <2>3. m \in {f} \X Replied(f) <=> m[1] = f /\ req[m] = "replied"
    BY <2>1 DEF Replied
  <2>4. m \in {f} \X owed <=> m[1] = f /\ m[2] \in owed
    BY <2>1
  <2>5. m[1] = f => (m[2] \in owed <=> m \in Asked(Top) /\ req[m] # "replied")
    BY <2>1 DEF Replied
  <2> QED
    BY <1>2, <1>8, <2>2, <2>3, <2>4, <2>5
<1>10. req' \in [Msgs -> {"idle", "pending", "aborted", "replied"}]
  BY <1>9 DEF SelectPolls, TypeOK
<1>11. \A m \in Msgs : /\ Asking(m)' <=> m \in Asked(Top) /\ m[1] \in Top.todo /\ m[1] # f
                       /\ Owing(m)' <=> m[1] = f /\ m[2] \in owed
  BY <1>4, <1>6, <1>7 DEF Asking, Owing, At, Asked
<1>12. RequestsAsWaited'
  BY <1>8, <1>9, <1>11 DEF RequestsAsWaited
<1> QED
  BY <1>4, <1>5, <1>6, <1>10, <1>12, MoveTo
  DEF SelectPolls, DataOK, TypeOK, StreamInOrder, fifos, Frames
LEMMA SelectDrainsKeeps == ASSUME IInv, SelectDrains PROVE IInv'
<1> USE DEF IInv
<1> DEFINE f == Current(Top)
<1>1. Top.k = "select" /\ Top.pc = "drain" /\ Top.todo # {}
  BY SelectFrames DEF SelectDrains, At, FrameOK
<1>2. f \in Top.todo /\ f \in Fds
  BY <1>1, CurrentLeft, SelectFrames
<1>3. PICK d \in Dirs :
        /\ req[<<f, d>>] = "replied" /\ req' = [req EXCEPT ![<<f, d>>] = "idle"]
        /\ Becomes([Top EXCEPT !.pc = IF Top.owed \subseteq {d} THEN "next" ELSE "drain",
                               !.owed = @ \ {d}])
  BY DEF SelectDrains, Takes, Replied
<1> DEFINE c == [Top EXCEPT !.pc = IF Top.owed \subseteq {d} THEN "next" ELSE "drain",
                            !.owed = @ \ {d}]
<1>4. /\ c \in Selects /\ c.k = "select" /\ c.pc \in {"next", "drain"} /\ c.todo = Top.todo
      /\ c.count = Top.count /\ c.r = Top.r /\ c.w = Top.w /\ c.owed = Top.owed \ {d}
      /\ c.pc = "next" => Top.owed \ {d} = {}
  BY <1>1, SelectFrames DEF Selects
<1>5. FrameOK(c)
  BY <1>1, <1>4, SelectFrames DEF FrameOK
<1>6. Top' = c /\ Current(Top)' = f
  BY <1>3, <1>4, MovedTop DEF Current
<1>7. \A m \in Msgs : req[m] \in
        IF m \in Asked(Top) /\ m[1] \in Top.todo /\ m[1] # f THEN {"pending", "replied"}
        ELSE IF m[1] = f /\ m[2] \in Top.owed THEN {"aborted", "replied"} ELSE {"idle"}
  BY <1>1 DEF RequestsAsWaited, Asking, Owing, At
<1>8. d \in Top.owed /\ <<f, d>> \in Msgs
  BY <1>2, <1>3, <1>7 DEF Msgs
<1>9. \A m \in Msgs : req'[m] = IF m[1] = f /\ m[2] = d THEN "idle" ELSE req[m]
  BY <1>3, <1>8 DEF TypeOK, Msgs
<1>10. \A m \in Msgs : /\ Asking(m)' <=> m \in Asked(Top) /\ m[1] \in Top.todo /\ m[1] # f
                       /\ Owing(m)' <=> m[1] = f /\ m[2] \in Top.owed \ {d}
  BY <1>4, <1>6 DEF Asking, Owing, At, Asked
<1>11. RequestsAsWaited'
  BY <1>7, <1>8, <1>9, <1>10 DEF RequestsAsWaited
<1>12. req' \in [Msgs -> {"idle", "pending", "aborted", "replied"}]
  BY <1>3 DEF TypeOK
<1> QED
  BY <1>3, <1>4, <1>5, <1>11, <1>12, MoveTo
  DEF SelectDrains, DataOK, TypeOK, StreamInOrder, fifos, Frames

\* The descriptor leaves the loop: it counts at most once.
LEMMA SelectNextKeeps == ASSUME IInv, SelectNext PROVE IInv'
<1> USE DEF IInv
<1> DEFINE f == Current(Top)
           todo == Top.todo \ {f}
           c == [Top EXCEPT
             !.pc = IF todo = {} THEN "signals" ELSE "poll",
             !.todo = todo,
             !.rout = IF "r" \in Top.found THEN @ ELSE @ \ {f},
             !.wout = IF "w" \in Top.found THEN @ ELSE @ \ {f},
             !.count = IF Top.found = {} THEN @ ELSE @ + 1,
             !.found = {}]
<1>1. Top.k = "select" /\ Top.pc = "next" /\ Top.todo # {}
  BY SelectFrames DEF SelectNext, At, FrameOK
<1>2. f \in Top.todo /\ f \in Fds
  BY <1>1, CurrentLeft, SelectFrames
<1>3. /\ Top.count \in Nat /\ Cardinality(Fds) \in Nat
      /\ Cardinality(todo) \in Nat /\ Cardinality(todo) = Cardinality(Top.todo) - 1
      /\ Top.count + Cardinality(Top.todo) <= Cardinality(Fds)
  <2>1. IsFiniteSet(Top.todo) /\ Cardinality(Fds) \in Nat
    BY <1>1, SelectFrames, SelectAssumption, FS_Subset, FS_CardinalityType
  <2>2. IsFiniteSet(todo) /\ Cardinality(todo) = Cardinality(Top.todo) - 1
    BY <1>2, <2>1, FS_RemoveElement
  <2>3. Cardinality(todo) \in Nat /\ Cardinality(Top.todo) \in Nat
    BY <2>1, <2>2, FS_CardinalityType
  <2> QED
    BY <1>1, <2>1, <2>2, <2>3, SelectFrames DEF FrameOK, Selects
<1> DEFINE count == IF Top.found = {} THEN Top.count ELSE Top.count + 1
<1>4. count \in 0 .. Cardinality(Fds) /\ count + Cardinality(todo) <= Cardinality(Fds)
  <2>1. \A n, left, all \in Nat, was \in Int :
          left = was - 1 /\ n + was <= all
            => n + left <= all /\ (n + 1) + left <= all /\ n + 1 <= all /\ n <= all
    OBVIOUS
  <2>2. Cardinality(Top.todo) \in Int
    BY <1>1, SelectFrames, SelectAssumption, FS_Subset, FS_CardinalityType
  <2> QED
    BY <1>3, <2>1, <2>2
<1>5. /\ c \in Selects /\ c.k = "select" /\ c.todo = todo
      /\ c.count = count
      /\ c.r = Top.r /\ c.w = Top.w /\ c.pc = IF todo = {} THEN "signals" ELSE "poll"
  BY <1>1, <1>4, SelectFrames, ZenonT(40) DEF Selects
<1>6. FrameOK(c)
  <2> HIDE DEF c
  <2> QED
    BY <1>4, <1>5 DEF FrameOK
<1>7. Becomes(c) /\ Top' = c
  BY MovedTop DEF SelectNext
<1>8. \A m \in Msgs : /\ Asking(m)' <=> Asking(m)
                      /\ ~Owing(m)' /\ ~Owing(m)
  BY <1>1, <1>5, <1>7 DEF Asking, Owing, At, Asked
<1>9. RequestsAsWaited'
  BY <1>8 DEF RequestsAsWaited, SelectNext
<1> QED
  BY <1>5, <1>6, <1>7, <1>9, MoveTo
  DEF SelectNext, DataOK, TypeOK, StreamInOrder, fifos, Frames

\* Steps of select with no request out.
LEMMA SelectQuietKeeps ==
  ASSUME IInv, SelectSignals \/ SelectChecks \/ SelectReturns
  PROVE  IInv'
<1>1. Top.k = "select" /\ Top.pc \in {"signals", "check", "ret"} /\ Settled(Top)
  BY DEF SelectSignals, SelectChecks, SelectReturns, At, Settled
<1>2. ASSUME NEW pc \in {"check", "ret", "start"}, pc = "start" => Top.count = 0
      PROVE  /\ [Top EXCEPT !.pc = pc] \in Frames
             /\ FrameOK([Top EXCEPT !.pc = pc]) /\ Settled([Top EXCEPT !.pc = pc])
  <2> DEFINE c == [Top EXCEPT !.pc = pc]
  <2>1. /\ c \in Selects /\ c.k = "select" /\ c.pc = pc /\ c.todo = Top.todo
        /\ c.count = Top.count
    <3>1. pc \in SelectPcs /\ Top \in Selects
      BY <1>1, SelectFrames DEF SelectPcs
    <3> QED
      BY <3>1, SelectMoves
  <2>2. FrameOK(Top)
    BY <1>1, SelectFrames
  <2> HIDE DEF c
  <2>3. FrameOK(c) /\ Settled(c) /\ c \in Frames
    BY <1>1, <1>2, <2>1, <2>2 DEF FrameOK, Settled, Frames
  <2> QED
    BY <2>3 DEF c
<1>3. CASE SelectSignals
  BY <1>1, <1>2, <1>3, QuietMove DEF SelectSignals, IInv, TypeOK, fifos
<1>4. CASE SelectChecks
  <2>1. PICK pc \in {"ret", "start"} :
          GoesTo(pc) /\ (pc = "start" => Top.count = 0) /\ timer' \in {timer, "idle"}
    BY <1>4 DEF SelectChecks
  <2> QED
    BY <1>1, <1>2, <1>4, <2>1, QuietMove DEF SelectChecks, GoesTo, IInv, TypeOK, fifos
<1>5. CASE SelectReturns
  BY <1>1, <1>5, UserFrame, QuietMove DEF SelectReturns, Return, IInv, TypeOK, fifos
<1> QED
  BY <1>3, <1>4, <1>5

LEMMA SleepKeeps ==
  ASSUME IInv, SleepSetsTimer \/ SleepChecks \/ SleepWaits
  PROVE  IInv'
<1>1. Top.k = "sleep" /\ Settled(Top) /\ Top \in Frames
  BY DEF SleepSetsTimer, SleepChecks, SleepWaits, At, Settled, IInv, TypeOK, Top
<1>2. ASSUME NEW pc \in {"check", "wait"}
      PROVE  /\ [Top EXCEPT !.pc = pc] \in Frames
             /\ FrameOK([Top EXCEPT !.pc = pc]) /\ Settled([Top EXCEPT !.pc = pc])
  BY <1>1, SleepMoves DEF FrameOK, Settled, Sleep
<1>3. CASE SleepSetsTimer
  <2>1. timer' \in {"idle", "sent", "replied"} /\ bits' \subseteq {"fifo", "odd", "sig"}
    BY <1>3 DEF SleepSetsTimer, TimerStarts, IInv, TypeOK
  <2> QED
    BY <1>1, <1>2, <1>3, <2>1, QuietMove DEF SleepSetsTimer, GoesTo, IInv, TypeOK, fifos
<1>4. CASE SleepChecks
  BY <1>1, <1>2, <1>4, UserFrame, QuietMove
  DEF SleepChecks, GoesTo, Return, IInv, TypeOK, fifos
<1>5. CASE SleepWaits
  BY <1>1, <1>2, <1>5, QuietMove DEF SleepWaits, IInv, TypeOK, fifos
<1> QED
  BY <1>3, <1>4, <1>5

LEMMA HandlerReturnsKeeps == ASSUME IInv, HandlerReturns PROVE IInv'
<1> USE DEF IInv
<1>1. depth \in Levels /\ depth' = depth - 1 /\ depth' \in Levels /\ Settled(Top)
  BY SelectAssumption DEF HandlerReturns, TypeOK, Levels, Settled, User
<1>2. BelowSettled' /\ Settled(Top)'
  BY <1>1 DEF HandlerReturns, BelowSettled, Levels, Top
<1>3. RequestsAsWaited'
  BY <1>1, <1>2, SettledMeans, SettledStays DEF HandlerReturns
<1>4. TypeOK'
  BY <1>1 DEF HandlerReturns, TypeOK, fifos
<1> QED
  BY <1>1, <1>2, <1>3, <1>4 DEF HandlerReturns, StreamInOrder, FrameOK, fifos

\* The other tasks leave the calls alone.
LEMMA EnvironmentKeeps == ASSUME IInv, Environment \/ SelectWaitsForReply PROVE IInv'
<1> USE DEF IInv
<1>1. UNCHANGED <<depth, call>>
  BY DEF Environment, SelectWaitsForReply, WaitsForReply, Replies, TimerReplies, Signal,
         PeerSends, PeerEnds, PeerReads, PeerLeaves
<1>2. BelowSettled' /\ (\A d \in Levels : FrameOK(call[d]))'
  BY <1>1 DEF BelowSettled, FrameOK
<1>3. \A m \in Msgs : (Asking(m)' <=> Asking(m)) /\ (Owing(m)' <=> Owing(m))
  BY <1>1 DEF Asking, Owing, At, Top, Asked, Current
<1>4. CASE Replies
  <2>1. PICK m \in Msgs : /\ req[m] \in {"aborted", "pending"}
                          /\ req' = [req EXCEPT ![m] = "replied"]
    BY <1>4 DEF Replies
  <2>2. RequestsAsWaited'
    BY <1>3, <2>1 DEF RequestsAsWaited, TypeOK
  <2> QED
    BY <1>1, <1>2, <1>4, <2>1, <2>2 DEF Replies, TypeOK, StreamInOrder, fifos
<1>5. CASE TimerReplies \/ Signal \/ SelectWaitsForReply
  <2>1. UNCHANGED <<fifos, dropped, skip, got, wopen, req>>
    BY <1>5 DEF TimerReplies, Signal, SelectWaitsForReply, WaitsForReply
  <2>2. RequestsAsWaited'
    BY <1>3, <2>1 DEF RequestsAsWaited
  <2>3. timer' \in {"idle", "sent", "replied"} /\ bits' \subseteq {"fifo", "odd", "sig"}
    BY <1>5 DEF TimerReplies, Signal, SelectWaitsForReply, WaitsForReply, TypeOK
  <2> QED
    BY <1>1, <1>2, <2>1, <2>2, <2>3 DEF TypeOK, StreamInOrder, fifos
<1>6. CASE PeerSends
  <2>1. PICK f \in Readers : sent[f] < MaxBytes /\ sent' = [sent EXCEPT ![f] = @ + 1]
    BY <1>6 DEF PeerSends
  <2>2. sent' \in [Readers -> 0 .. MaxBytes]
    BY <2>1, SelectAssumption DEF TypeOK
  <2>3. \A g \in Readers : sent[g] \in Nat /\ sent'[g] \in Nat /\ sent[g] <= sent'[g]
    BY <2>1, <2>2, SelectAssumption DEF TypeOK
  <2>4. StreamInOrder'
    BY <1>6, <2>3 DEF PeerSends, StreamInOrder, TypeOK
  <2>5. RequestsAsWaited'
    BY <1>3, <1>6 DEF RequestsAsWaited, PeerSends
  <2> QED
    BY <1>1, <1>2, <1>6, <2>2, <2>4, <2>5 DEF PeerSends, TypeOK
<1>7. CASE PeerEnds \/ PeerReads \/ PeerLeaves
  <2>1. UNCHANGED <<sent, dropped, skip, got, wopen, req, timer, bits>>
    BY <1>7 DEF PeerEnds, PeerReads, PeerLeaves
  <2>2. ended' \subseteq Readers /\ room' \subseteq Writers /\ gone' \subseteq Writers
    BY <1>7 DEF PeerEnds, PeerReads, PeerLeaves, TypeOK
  <2>3. RequestsAsWaited'
    BY <1>3, <2>1 DEF RequestsAsWaited
  <2> QED
    BY <1>1, <1>2, <2>1, <2>2, <2>3 DEF TypeOK, StreamInOrder
<1> QED
  BY <1>4, <1>5, <1>6, <1>7 DEF Environment

LEMMA InvStep == IInv /\ [Next]_vars => IInv'
<1> SUFFICES ASSUME IInv, [Next]_vars PROVE IInv'
  OBVIOUS
<1>1. CASE LibraryStep
  BY <1>1, ReadKeeps, WriteKeeps, WriteEofKeeps, IoWaitsKeeps, IoTakesKeeps, IoSignalsKeeps,
     SelectSetsTimerKeeps, SelectStartsKeeps, SelectWaitsKeeps, SelectPollsKeeps,
     SelectDrainsKeeps, EnvironmentKeeps, SelectNextKeeps, SelectQuietKeeps, SleepKeeps
  DEF LibraryStep
<1>2. CASE UserStep
  BY <1>2, CallsKeep, HandlerReturnsKeeps DEF UserStep
<1>3. CASE Environment
  BY <1>3, EnvironmentKeeps
<1>4. CASE UNCHANGED vars
  BY <1>4
  DEF vars, fifos, IInv, TypeOK, RequestsAsWaited, Asking, Owing, At, Top, Asked, Current,
      BelowSettled, StreamInOrder, FrameOK
<1> QED
  BY <1>1, <1>2, <1>3, <1>4 DEF Next

LEMMA InvAlways == Spec => []IInv
BY InvInit, InvStep, PTL DEF Spec

----------------------------------------------------------------------------
(* The theorems.                                                           *)

\* Every variable keeps its type: a call stack as deep as handlers may nest, and
\* every request in one of its states.
THEOREM TypeCorrect == Spec => []TypeOK
<1>1. IInv => TypeOK
  BY DEF IInv
<1> QED
  BY <1>1, InvAlways, PTL

\* A call never goes on with a descriptor that is not open for it, and select
\* looks at no descriptor twice: those counted and those left are never more
\* than there are, and it waits with none counted (select.c:20-118).
THEOREM CallsSafe == Spec => [](\A d \in Levels : FrameOK(call[d]))
<1>1. IInv => \A d \in Levels : FrameOK(call[d])
  BY DEF IInv
<1> QED
  BY <1>1, InvAlways, PTL

\* When program code runs, no request is with fifo.library (pipe.c, select.c):
\* a handler may use any descriptor, however deep handlers are nested.
THEOREM RequestsSafe == Spec => []RequestsQuiet
<1>1. IInv => RequestsQuiet
  BY SettledMeans DEF IInv, RequestsQuiet, Settled, User
<1> QED
  BY <1>1, InvAlways, PTL

\* What fifo reads return is a stream, also when a handler reads the descriptor
\* that an interrupted read waits for (pipe.c).
THEOREM StreamSafe == Spec => []StreamInOrder
<1>1. IInv => StreamInOrder
  BY DEF IInv
<1> QED
  BY <1>1, InvAlways, PTL

\* read, write and select never wait for a message that has been taken from the
\* reply port already (pipe.c, select.c).
THEOREM OwedSafe == Spec => []OwedIsComing
<1>1. IInv => OwedIsComing
  <2> SUFFICES ASSUME IInv PROVE OwedIsComing
    OBVIOUS
  <2>1. ASSUME At("io", "abort") PROVE req[<<Top.fd, Top.dir>>] \in {"aborted", "replied"}
    BY <2>1, IoFrames DEF IInv, RequestsAsWaited, Asking, Owing, At
  <2>2. ASSUME At("select", "drain"), NEW d \in Top.owed
        PROVE  req[<<Current(Top), d>>] \in {"aborted", "replied"}
    <3>1. Top.owed \subseteq Dirs /\ Current(Top) \in Fds
      BY <2>2, SelectFrames, CurrentLeft DEF At, FrameOK, Selects
    <3> QED
      BY <2>2, <3>1 DEF IInv, RequestsAsWaited, Asking, Owing, At, Msgs
  <2> QED
    BY <2>1, <2>2 DEF OwedIsComing
<1> QED
  BY <1>1, InvAlways, PTL
=============================================================================
