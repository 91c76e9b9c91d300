------------------------------- MODULE Select -------------------------------
(***************************************************************************)
(* Blocking input and output of one task on fifos (src/src/pipe.c), with   *)
(* select (select.c), sleep (sleep.c) and the timer these two share        *)
(* (timers.c).  A blocked call polls for signals, and the handlers it runs *)
(* may read, write and select themselves.  When a handler runs is the      *)
(* matter of Signals: here any poll may run one.                           *)
(*                                                                         *)
(* A fifo is asked for data or room with a message: RequestFifo gives it   *)
(* to fifo.library, which replies it, once, when the fifo is ready or the  *)
(* request is aborted; until then its memory must not be used.             *)
(***************************************************************************)
EXTENDS Integers, FiniteSets

CONSTANTS
  Fds,          \* descriptors, all of them fifos
  Readers,      \* those open for reading
  Writers,      \* those open for writing
  Modes,        \* select's timeouts used: "none" (NULL), "zero" and "some"
  MainCalls,    \* the calls the main program makes
  HandlerCalls, \* the calls a signal handler makes
  MaxBytes,     \* bound: bytes sent to a reader
  MaxDepth      \* bound: activations of program code, 1 is the main program

ASSUME SelectAssumption ==
  /\ Fds \subseteq Nat /\ IsFiniteSet(Fds)
  /\ Readers \subseteq Fds /\ Writers \subseteq Fds
  /\ Modes \subseteq {"none", "zero", "some"}
  /\ MaxBytes \in Nat /\ MaxDepth \in Nat \ {0}

VARIABLES
  sent,    \* bytes the other end has written to each reader
  dropped, \* bytes ReadFifo was told to discard
  skip,    \* skip field: bytes of the last read, not discarded yet
  got,     \* ghost: bytes read returned to the program so far
  ended,   \* readers whose other end sent end-of-file
  room,    \* writers whose fifo has room
  gone,    \* writers whose other end has no reader any more
  wopen,   \* writers with wfifo # 0
  req,     \* each rmsg and wmsg: "idle", "pending" in the fifo, "aborted",
           \* or "replied", that is, on the reply port of its descriptor
  timer,   \* _odd_timer: "idle", "sent" or "replied"
  bits,    \* Exec bits set: "fifo", "odd" and "sig" for those of signalsigs
  depth,   \* the activation that runs
  call     \* the call in progress at each depth

fifos == <<sent, ended, room, gone>>
vars == <<fifos, dropped, skip, got, wopen, req, timer, bits, depth, call>>

Levels == 1 .. MaxDepth
Dirs == {"r", "w"}
Msgs == Fds \X Dirs

----------------------------------------------------------------------------
(* Calls in progress.                                                      *)

User == [k |-> "user"]
\* read or write on fd; nd: O_NDELAY.
Io(fd, dir, nd, pc) == [k |-> "io", fd |-> fd, dir |-> dir, nd |-> nd, pc |-> pc]
Sleep(pc) == [k |-> "sleep", pc |-> pc]
\* select: r and w are orfds and owfds, rout and wout *rfds and *wfds, todo the
\* descriptors the polling loop has not reached, owed the aborted requests it
\* waits for, found the directions it found ready.
Selects ==
  [k : {"select"}, mode : Modes, r : SUBSET Readers, w : SUBSET Writers,
   rout : SUBSET Readers, wout : SUBSET Writers, count : 0 .. Cardinality(Fds),
   todo : SUBSET Fds, found : SUBSET Dirs, owed : SUBSET Dirs,
   pc : {"timer", "start", "wait", "poll", "drain", "next", "signals", "check", "ret"}]

Frames ==
  {User} \cup Selects
  \cup [k : {"io"}, fd : Fds, dir : Dirs, nd : BOOLEAN,
        pc : {"try", "eof", "wait", "abort", "signals"}]
  \cup [k : {"sleep"}, pc : {"timer", "zero", "check", "wait"}]

TypeOK ==
  /\ sent \in [Readers -> 0 .. MaxBytes]
  /\ dropped \in [Readers -> Nat] /\ skip \in [Readers -> Nat] /\ got \in [Readers -> Nat]
  /\ ended \subseteq Readers
  /\ room \subseteq Writers /\ gone \subseteq Writers /\ wopen \subseteq Writers
  /\ req \in [Msgs -> {"idle", "pending", "aborted", "replied"}]
  /\ timer \in {"idle", "sent", "replied"}
  /\ bits \subseteq {"fifo", "odd", "sig"}
  /\ depth \in Levels
  /\ call \in [Levels -> Frames]

Init ==
  /\ sent = [f \in Readers |-> 0] /\ dropped = sent /\ skip = sent /\ got = sent
  /\ ended = {} /\ room = Writers /\ gone = {} /\ wopen = Writers
  /\ req = [m \in Msgs |-> "idle"]
  /\ timer = "idle" /\ bits = {}
  /\ depth = 1 /\ call = [d \in Levels |-> User]

Top == call[depth]
At(kind, pc) == Top.k = kind /\ Top.pc = pc
Becomes(c) == call' = [call EXCEPT ![depth] = c] /\ UNCHANGED depth
GoesTo(pc) == Becomes([Top EXCEPT !.pc = pc])
Return == Becomes(User)

\* _handle_signals, after which the call goes on as c; a handler may run first.
Interrupted(c) ==
  \/ Becomes(c)
  \/ /\ depth < MaxDepth
     /\ depth' = depth + 1
     /\ call' = [call EXCEPT ![depth] = c, ![depth + 1] = User]

----------------------------------------------------------------------------
(* Requests.                                                               *)

Request(S) == req' = [m \in Msgs |-> IF m \in S THEN "pending" ELSE req[m]]
\* FREQ_ABORT: the message comes back, unless it has come already.
Aborted(S) == [m \in Msgs |-> IF m \in S /\ req[m] = "pending" THEN "aborted" ELSE req[m]]

Replied(f) == {d \in Dirs : req[<<f, d>>] = "replied"}
\* GetMsg(fi->reply): some message of this descriptor.
Takes(f, d) == d \in Replied(f) /\ req' = [req EXCEPT ![<<f, d>>] = "idle"]

\* Wait(1 << _fifo_sig) when the reply port of f is empty; the bit may have been
\* set for another fifo.
WaitsForReply(f) ==
  /\ Replied(f) = {} /\ "fifo" \in bits
  /\ bits' = bits \ {"fifo"}
  /\ UNCHANGED <<fifos, dropped, skip, got, wopen, req, timer, depth, call>>

----------------------------------------------------------------------------
(* read and write.                                                         *)

\* chkabort and a look at the table, then the call proper.
Enters(c) ==
  /\ bits' = bits \ {"sig"}
  /\ Interrupted(c)
  /\ UNCHANGED <<fifos, dropped, skip, got, wopen, req, timer>>

MayCall(op) == Top = User /\ op \in (IF depth = 1 THEN MainCalls ELSE HandlerCalls)

CallRead ==
  /\ MayCall("read")
  /\ \E f \in Readers, nd \in BOOLEAN : Enters(Io(f, "r", nd, "try"))

CallWrite ==
  /\ MayCall("write")
  /\ \E f \in Writers, nd \in BOOLEAN : Enters(Io(f, "w", nd, "try"))

CallWriteEof ==
  /\ MayCall("eof")
  /\ \E f \in wopen : Enters(Io(f, "w", FALSE, "eof"))

\* Variant for checking: read discards once more what it discarded already.
ReadTriesKeepingSkip ==
  /\ At("io", "try") /\ Top.dir = "r"
  /\ LET f == Top.fd
         left == sent[f] - dropped[f] - skip[f]
     IN  /\ dropped' = [dropped EXCEPT ![f] = @ + skip[f]]
         /\ \/ \E n \in 0 .. left :
                 /\ left > 0
                 /\ skip' = [skip EXCEPT ![f] = n]
                 /\ got' = [got EXCEPT ![f] = @ + n]
                 /\ Return /\ UNCHANGED req
            \/ /\ left <= 0
               /\ IF f \in ended \/ Top.nd
                  THEN Return /\ UNCHANGED req
                  ELSE GoesTo("wait") /\ Request({<<f, "r">>})
               /\ UNCHANGED <<got, skip>>
  /\ UNCHANGED <<fifos, wopen, timer, bits>>

\* ReadFifo discards the bytes of the last read and shows the next ones; the
\* count asked for limits how many of them read returns.
ReadTries ==
  /\ At("io", "try") /\ Top.dir = "r"
  /\ LET f == Top.fd
         left == sent[f] - dropped[f] - skip[f]
     IN  /\ dropped' = [dropped EXCEPT ![f] = @ + skip[f]]
         /\ \/ \E n \in 0 .. left :
                 /\ left > 0
                 /\ skip' = [skip EXCEPT ![f] = n]
                 /\ got' = [got EXCEPT ![f] = @ + n]
                 /\ Return /\ UNCHANGED req
            \/ /\ left = 0
               /\ skip' = [skip EXCEPT ![f] = 0]
               /\ IF f \in ended \/ Top.nd
                  THEN Return /\ UNCHANGED req
                  ELSE GoesTo("wait") /\ Request({<<f, "r">>})
               /\ UNCHANGED got
  /\ UNCHANGED <<fifos, wopen, timer, bits>>

\* WriteFifo; without a reader SIGPIPE is raised and write returns EPIPE.
WriteTries ==
  /\ At("io", "try") /\ Top.dir = "w"
  /\ LET f == Top.fd IN
       \/ /\ f \in wopen \ gone /\ f \in room
          /\ room' \in {room, room \ {f}}
          /\ Return /\ UNCHANGED req
       \/ /\ f \in wopen \ gone /\ f \notin room
          /\ IF Top.nd
             THEN Return /\ UNCHANGED req
             ELSE GoesTo("wait") /\ Request({<<f, "w">>})
          /\ UNCHANGED room
       \/ /\ f \notin wopen \ gone
          /\ Interrupted(User)
          /\ UNCHANGED <<room, req>>
  /\ UNCHANGED <<sent, ended, gone, dropped, skip, got, wopen, timer, bits>>

\* write(fd, buffer, 0): end-of-file; the fifo is closed and opened again,
\* which fails when nobody reads it.
WriteEof ==
  /\ At("io", "eof")
  /\ \/ Top.fd \notin gone /\ Return /\ UNCHANGED wopen
     \/ Top.fd \in gone /\ Interrupted(User) /\ wopen' = wopen \ {Top.fd}
  /\ UNCHANGED <<fifos, dropped, skip, got, req, timer, bits>>

\* Variant for checking: handlers run before the request is taken back.
IoWaitsHandling ==
  /\ At("io", "wait") /\ bits \cap {"fifo", "sig"} # {}
  /\ bits' = bits \ {"fifo", "sig"}
  /\ req' = Aborted({<<Top.fd, Top.dir>>})
  /\ Interrupted([Top EXCEPT !.pc = "abort"])
  /\ UNCHANGED <<fifos, dropped, skip, got, wopen, timer>>

\* _wait_signals returns and the request is aborted.
IoWaits ==
  /\ At("io", "wait") /\ bits \cap {"fifo", "sig"} # {}
  /\ bits' = bits \ {"fifo", "sig"}
  /\ req' = Aborted({<<Top.fd, Top.dir>>})
  /\ GoesTo("abort")
  /\ UNCHANGED <<fifos, dropped, skip, got, wopen, timer>>

\* A message of the reply port is taken; a Wait for it, when it was not there
\* yet, has consumed the bit (no other request is out that could set it).
IoTakes ==
  /\ At("io", "abort")
  /\ \E d \in Dirs : Takes(Top.fd, d)
  /\ bits' \in {bits, bits \ {"fifo"}}
  /\ GoesTo("signals")
  /\ UNCHANGED <<fifos, dropped, skip, got, wopen, timer>>

IoSignals ==
  /\ At("io", "signals")
  /\ Interrupted([Top EXCEPT !.pc = "try"])
  /\ UNCHANGED <<fifos, dropped, skip, got, wopen, req, timer, bits>>

----------------------------------------------------------------------------
(* select.                                                                 *)

Asked(s) == (s.r \X {"r"}) \cup (s.w \X {"w"})
SelectFds(s) == s.r \cup s.w

\* The checks before the loop; wr is asked only of fifos still open.
CallSelect ==
  /\ MayCall("select")
  /\ \E m \in Modes, r \in SUBSET Readers, w \in SUBSET wopen :
       Enters([k |-> "select", mode |-> m, r |-> r, w |-> w, rout |-> r, wout |-> w,
               count |-> 0, todo |-> {}, found |-> {}, owed |-> {}, pc |-> "timer"])

\* _timer_start: the timer is stopped and, for a time that is not zero, sent
\* again.  The aborted request leaves its signal bit behind.
TimerStarts(timed) ==
  /\ bits' = IF timer = "sent" THEN bits \cup {"odd"} ELSE bits
  /\ timer' = IF timed THEN "sent" ELSE "idle"

SelectSetsTimer ==
  /\ At("select", "timer")
  /\ TimerStarts(Top.mode = "some")
  /\ GoesTo("start")
  /\ UNCHANGED <<fifos, dropped, skip, got, wopen, req>>

\* Variant for checking: the timeout starts anew in every round.
SelectStartsTimed ==
  /\ At("select", "start")
  /\ IF Top.mode = "some" THEN TimerStarts(TRUE) ELSE UNCHANGED <<timer, bits>>
  /\ Request(Asked(Top))
  /\ Becomes([Top EXCEPT !.pc = "wait", !.todo = SelectFds(Top)])
  /\ UNCHANGED <<fifos, dropped, skip, got, wopen>>

\* fifo_select_start of each descriptor.
SelectStarts ==
  /\ At("select", "start")
  /\ Request(Asked(Top))
  /\ Becomes([Top EXCEPT !.pc = "wait", !.todo = SelectFds(Top)])
  /\ UNCHANGED <<fifos, dropped, skip, got, wopen, timer, bits>>

\* Variant for checking: select does not wait for the fifos' bit.
SelectWaitsBlind ==
  /\ At("select", "wait")
  /\ LET watched == IF Top.mode = "zero" THEN {"sig"} ELSE {"sig", "odd"}
     IN  /\ Top.mode = "zero" \/ bits \cap watched # {}
         /\ bits' = bits \ watched
  /\ GoesTo(IF SelectFds(Top) = {} THEN "signals" ELSE "poll")
  /\ UNCHANGED <<fifos, dropped, skip, got, wopen, req, timer>>

\* _check_signals for a zero timeout, else _wait_signals.
SelectWaits ==
  /\ At("select", "wait")
  /\ LET watched == IF Top.mode = "zero" THEN {"sig"}
                    ELSE {"sig", "odd"} \cup (IF SelectFds(Top) = {} THEN {} ELSE {"fifo"})
     IN  /\ Top.mode = "zero" \/ bits \cap watched # {}
         /\ bits' = bits \ watched
  /\ GoesTo(IF SelectFds(Top) = {} THEN "signals" ELSE "poll")
  /\ UNCHANGED <<fifos, dropped, skip, got, wopen, req, timer>>

\* The loop over descriptors is at the lowest one left.
Current(s) == CHOOSE f \in s.todo : \A g \in s.todo : f <= g
AskedOf(s, f) == {d \in Dirs : f \in (IF d = "r" THEN s.r ELSE s.w)}

\* Variant for checking: the direction is waited for although its message came.
SelectPollsOwing ==
  /\ At("select", "poll")
  /\ LET f == Current(Top)
         found == AskedOf(Top, f) \cap Replied(f)
         owed == AskedOf(Top, f)
         taken == [m \in Msgs |-> IF m \in {f} \X Replied(f) THEN "idle" ELSE req[m]]
     IN  /\ req' = [m \in Msgs |-> IF m \in {f} \X owed /\ req[m] = "pending"
                                    THEN "aborted" ELSE taken[m]]
         /\ Becomes([Top EXCEPT !.pc = "drain", !.found = found, !.owed = owed])
  /\ UNCHANGED <<fifos, dropped, skip, got, wopen, timer, bits>>

\* fifo_select_poll takes the messages replied; a direction asked for whose
\* message is not there is not ready, and its request is aborted.
SelectPolls ==
  /\ At("select", "poll")
  /\ LET f == Current(Top)
         found == AskedOf(Top, f) \cap Replied(f)
         owed == AskedOf(Top, f) \ found
         taken == [m \in Msgs |-> IF m \in {f} \X Replied(f) THEN "idle" ELSE req[m]]
     IN  /\ req' = [m \in Msgs |-> IF m \in {f} \X owed /\ req[m] = "pending"
                                    THEN "aborted" ELSE taken[m]]
         /\ Becomes([Top EXCEPT !.pc = IF owed = {} THEN "next" ELSE "drain",
                                !.found = found, !.owed = owed])
  /\ UNCHANGED <<fifos, dropped, skip, got, wopen, timer, bits>>

\* The aborted requests come back one by one.
SelectDrains ==
  /\ At("select", "drain")
  /\ \E d \in Dirs :
       /\ Takes(Current(Top), d)
       /\ Becomes([Top EXCEPT !.pc = IF Top.owed \subseteq {d} THEN "next" ELSE "drain",
                              !.owed = @ \ {d}])
  /\ UNCHANGED <<fifos, dropped, skip, got, wopen, timer, bits>>

SelectWaitsForReply == At("select", "drain") /\ WaitsForReply(Current(Top))

\* Variant for checking: a descriptor ready both ways counts twice.
SelectNextCountingDirections ==
  /\ At("select", "next")
  /\ bits' = bits \ {"fifo"}
  /\ LET f == Current(Top)
         todo == Top.todo \ {f}
     IN  Becomes([Top EXCEPT
           !.pc = IF todo = {} THEN "signals" ELSE "poll",
           !.todo = todo,
           !.rout = IF "r" \in Top.found THEN @ ELSE @ \ {f},
           !.wout = IF "w" \in Top.found THEN @ ELSE @ \ {f},
           !.count = @ + Cardinality(Top.found),
           !.found = {}])
  /\ UNCHANGED <<fifos, dropped, skip, got, wopen, req, timer>>

\* The fifo bit is cleared and the caller's sets and the count updated.
SelectNext ==
  /\ At("select", "next")
  /\ bits' = bits \ {"fifo"}
  /\ LET f == Current(Top)
         todo == Top.todo \ {f}
     IN  Becomes([Top EXCEPT
           !.pc = IF todo = {} THEN "signals" ELSE "poll",
           !.todo = todo,
           !.rout = IF "r" \in Top.found THEN @ ELSE @ \ {f},
           !.wout = IF "w" \in Top.found THEN @ ELSE @ \ {f},
           !.count = IF Top.found = {} THEN @ ELSE @ + 1,
           !.found = {}])
  /\ UNCHANGED <<fifos, dropped, skip, got, wopen, req, timer>>

SelectSignals ==
  /\ At("select", "signals")
  /\ Interrupted([Top EXCEPT !.pc = "check"])
  /\ UNCHANGED <<fifos, dropped, skip, got, wopen, req, timer, bits>>

\* The loop goes on while nothing is ready and the time is not up.
SelectChecks ==
  /\ At("select", "check")
  /\ \/ Top.count > 0 /\ GoesTo("ret") /\ UNCHANGED timer
     \/ /\ Top.count = 0 /\ timer = "replied"
        /\ timer' = "idle" /\ GoesTo("ret")
     \/ /\ Top.count = 0 /\ timer # "replied"
        /\ GoesTo(IF Top.mode = "zero" THEN "ret" ELSE "start")
        /\ UNCHANGED timer
  /\ UNCHANGED <<fifos, dropped, skip, got, wopen, req, bits>>

SelectReturns ==
  /\ At("select", "ret")
  /\ Return
  /\ UNCHANGED <<fifos, dropped, skip, got, wopen, req, timer, bits>>

----------------------------------------------------------------------------
(* sleep.                                                                  *)

CallSleep ==
  \/ MayCall("sleep") /\ Enters(Sleep("timer"))
  \/ MayCall("sleep0") /\ Enters(Sleep("zero"))

\* _timer_start(_odd_timer, seconds, 0), with or without seconds.
SleepSetsTimer ==
  /\ At("sleep", "timer") \/ At("sleep", "zero")
  /\ TimerStarts(Top.pc = "timer")
  /\ GoesTo("check")
  /\ UNCHANGED <<fifos, dropped, skip, got, wopen, req>>

SleepChecks ==
  /\ At("sleep", "check")
  /\ IF timer = "replied" THEN Return /\ timer' = "idle"
                          ELSE GoesTo("wait") /\ UNCHANGED timer
  /\ UNCHANGED <<fifos, dropped, skip, got, wopen, req, bits>>

SleepWaits ==
  /\ At("sleep", "wait") /\ bits \cap {"odd", "sig"} # {}
  /\ bits' = bits \ {"odd", "sig"}
  /\ Interrupted([Top EXCEPT !.pc = "check"])
  /\ UNCHANGED <<fifos, dropped, skip, got, wopen, req, timer>>

HandlerReturns ==
  /\ depth > 1 /\ Top = User
  /\ depth' = depth - 1
  /\ UNCHANGED <<fifos, dropped, skip, got, wopen, req, timer, bits, call>>

----------------------------------------------------------------------------
(* fifo.library, timer.device, other tasks.                                *)

Ready(m) == IF m[2] = "r" THEN sent[m[1]] > dropped[m[1]] \/ m[1] \in ended
                          ELSE m[1] \in room \cup gone

Replies ==
  /\ \E m \in Msgs :
       /\ \/ req[m] = "aborted"
          \/ req[m] = "pending" /\ Ready(m)
       /\ req' = [req EXCEPT ![m] = "replied"]
  /\ bits' = bits \cup {"fifo"}
  /\ UNCHANGED <<fifos, dropped, skip, got, wopen, timer, depth, call>>

TimerReplies ==
  /\ timer = "sent"
  /\ timer' = "replied" /\ bits' = bits \cup {"odd"}
  /\ UNCHANGED <<fifos, dropped, skip, got, wopen, req, depth, call>>

Signal ==
  /\ bits' = bits \cup {"sig"}
  /\ UNCHANGED <<fifos, dropped, skip, got, wopen, req, timer, depth, call>>

PeerSends ==
  /\ \E f \in Readers \ ended :
       sent[f] < MaxBytes /\ sent' = [sent EXCEPT ![f] = @ + 1]
  /\ UNCHANGED <<ended, room, gone, dropped, skip, got, wopen, req, timer, bits, depth, call>>

PeerEnds ==
  /\ \E f \in Readers : ended' = ended \cup {f}
  /\ UNCHANGED <<sent, room, gone, dropped, skip, got, wopen, req, timer, bits, depth, call>>

PeerReads ==
  /\ \E f \in Writers \ gone : room' = room \cup {f}
  /\ UNCHANGED <<sent, ended, gone, dropped, skip, got, wopen, req, timer, bits, depth, call>>

PeerLeaves ==
  /\ \E f \in Writers : gone' = gone \cup {f}
  /\ UNCHANGED <<sent, ended, room, dropped, skip, got, wopen, req, timer, bits, depth, call>>

Environment ==
  Replies \/ TimerReplies \/ Signal \/ PeerSends \/ PeerEnds \/ PeerReads \/ PeerLeaves

LibraryStep ==
  \/ ReadTries \/ WriteTries \/ WriteEof \/ IoWaits \/ IoTakes \/ IoSignals
  \/ SelectSetsTimer \/ SelectStarts \/ SelectWaits \/ SelectPolls \/ SelectDrains
  \/ SelectWaitsForReply \/ SelectNext \/ SelectSignals \/ SelectChecks \/ SelectReturns
  \/ SleepSetsTimer \/ SleepChecks \/ SleepWaits

UserStep ==
  CallRead \/ CallWrite \/ CallWriteEof \/ CallSelect \/ CallSleep \/ HandlerReturns

Next == LibraryStep \/ UserStep \/ Environment

Spec == Init /\ [][Next]_vars

\* The task is scheduled and runs on until it blocks; fifo.library replies what
\* it is to reply; timer.device replies when the time is up.
FairSpec == Spec /\ WF_vars(LibraryStep) /\ WF_vars(Replies) /\ WF_vars(TimerReplies)

----------------------------------------------------------------------------
(* Properties.                                                             *)

\* When program code runs, of the main program or of a handler inside another
\* call, every request is back: it may read, select or close any descriptor,
\* and no message is ever requested while fifo.library still holds it.
RequestsQuiet == Top = User => \A m \in Msgs : req[m] = "idle"

\* Reading is a stream: what read has returned is exactly what was discarded
\* and what will be, so no byte is returned twice or dropped unread, also when
\* a handler reads the descriptor its interrupted read waits for.
StreamInOrder ==
  \A f \in Readers : got[f] = dropped[f] + skip[f] /\ got[f] <= sent[f]

\* A call that waits for a message to come back waits for one that is still to
\* come: nobody has taken it already.
OwedIsComing ==
  /\ At("io", "abort") => req[<<Top.fd, Top.dir>>] \in {"aborted", "replied"}
  /\ At("select", "drain") =>
       \A d \in Top.owed : req[<<Current(Top), d>>] \in {"aborted", "replied"}

\* select returns the number of descriptors in the sets it returns.
SelectCounts == At("select", "ret") => Top.count = Cardinality(Top.rout \cup Top.wout)

\* Code that waits for a timeout has a timer that will end it.
Timed(c) ==
  \/ c.k = "sleep" /\ c.pc = "wait"
  \/ c.k = "select" /\ c.mode = "some" /\ c.pc = "wait"
WaitIsTimed == Timed(Top) => timer # "idle"

\* However often signals interrupt it, a sleep or a select with a timeout of the
\* main program returns (when the handlers it runs do).
HandlersEnd == []<>(depth = 1)
InTimed ==
  \/ call[1].k = "sleep"
  \/ call[1].k = "select" /\ call[1].mode # "none"
TimedReturns == HandlersEnd => (InTimed ~> ~InTimed)

\* Once no more signals come, a select or read that waits for a descriptor with
\* something to read ends: the wake-up is not lost, though all fifos share one
\* signal bit, which other calls clear and wait for as well.
AwaitsData(f) ==
  /\ \/ call[1].k = "select" /\ f \in call[1].r
     \/ call[1].k = "io" /\ call[1].fd = f /\ call[1].dir = "r"
  /\ sent[f] > dropped[f] + skip[f]
SignalsEnd == <>[]("sig" \notin bits)
DataWakes == HandlersEnd /\ SignalsEnd => \A f \in Readers : AwaitsData(f) ~> ~AwaitsData(f)
=============================================================================
