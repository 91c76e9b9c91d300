------------------------------ MODULE Signals ------------------------------
(***************************************************************************)
(* Synchronous emulation of BSD signals (src/src/signals.c, signal.c,      *)
(* sigsetmask.c, sigpause.c, setjmp.c, kill.c, timers.c, _exit.c).         *)
(*                                                                         *)
(* One task runs the program and the library.  The Exec kernel and the     *)
(* other tasks only set signal bits of that task, reply its timer request  *)
(* or put a child's exit message on its port; nothing interrupts the task. *)
(* Unix signals are noticed where the library polls: chkabort(), called on *)
(* entry of nearly every library call, and the Wait() of blocking calls.   *)
(* A handler is called from inside the poll and may call the library       *)
(* again, so the state holds the C call stack: one frame per activation    *)
(* that can be suspended by a handler.                                     *)
(***************************************************************************)
EXTENDS Integers, Sequences, FiniteSets, SequencesExt

CONSTANTS
  Sigs,        \* the signal numbers used, a subset of 0..NSIG-1
  Kids,        \* child processes known to the parent and alive at the start
  Catchable,   \* the signals for which the program may install a handler
  Masks,       \* the arguments given to sigsetmask and sigpause
  MainCalls,   \* library calls the main program makes
  HandlerCalls,\* library calls a signal handler makes
  Keys,        \* break keys the user types, of "ctrlC" and "ctrlD"
  MaxNest,     \* user activations (main, handlers) that may call the library
  NumFds,      \* file descriptors _close_all closes in _exit
  MaxExits     \* bound: _exit activations up to which keys are typed

NSIG == 32
SIGINT == 2
SIGQUIT == 3
SIGIOT == 6
SIGFPE == 8
SIGKILL == 9
SIGALRM == 14
SIGURG == 16
SIGCHLD == 20
SIGWINCH == 28

ASSUME SignalsAssumption ==
  /\ Sigs \subseteq 0 .. NSIG - 1
  /\ {SIGINT, SIGQUIT, SIGIOT, SIGFPE, SIGALRM, SIGCHLD, SIGKILL} \subseteq Sigs
  /\ Catchable \subseteq Sigs \ {0}   \* nothing dispatches 0, which stands for main
  /\ Masks \subseteq SUBSET Sigs
  /\ Keys \subseteq {"ctrlC", "ctrlD"}
  /\ MaxNest \in Nat /\ NumFds \in Nat /\ MaxExits \in Nat

\* Exec signal bits in signalsigs: what Wait() and SetSignal() look at.
ExecBits == {"ctrlC", "ctrlD", "timer", "child"}

VARIABLES
  mask,      \* _sig_mask: signals held back
  pending,   \* _sig_pending: signals to dispatch once unmasked
  handlers,  \* _sig_handlers
  bits,      \* Exec signal bits received and not yet collected
  alarm,     \* alarm_timer: "idle", "sent", or "replied" by timer.device
  port,      \* children whose exit message is queued on _children_exit
  alive,     \* children whose entry has status == alive
  unsent,    \* children that have not sent their exit message
  stack,     \* activation frames, the running one last
  jmp,       \* jmp_buf: {} before setjmp, {m} once main saved the mask m
  typed      \* ghost: break keys typed whose signal is not yet dispatched

vars == <<mask, pending, handlers, bits, alarm, port, alive, unsent, stack, jmp, typed>>

----------------------------------------------------------------------------
(* Activation frames.                                                      *)

\* The main program (sig = 0) or the handler called for sig.  asked is a
\* ghost: the mask this code believes is in force while it runs.
User(sig, asked) == [k |-> "user", sig |-> sig, asked |-> asked]
\* _handle_signals(sigs) about to look at source number at (1..4), 5: return.
Handle(at, sigs, hit) == [k |-> "handle", at |-> at, sigs |-> sigs, hit |-> hit]
\* sigsetmask(new): at = -1 inside its chkabort, then the loop index.
SetMask(new, at) == [k |-> "setmask", new |-> new, at |-> at]
\* sigpause, with the mask it will restore.
Pause(old, at) == [k |-> "pause", old |-> old, at |-> at]
\* A call that does its work once its chkabort has returned.
Call(op, arg) == [k |-> op, arg |-> arg]
\* _exit closing descriptor fd.
Exit(fd) == [k |-> "exit", fd |-> fd]

Top == Last(stack)
Running(kind) == stack # <<>> /\ Top.k = kind
Below == Front(stack)                 \* the stack without the running frame
Becomes(frame) == Append(Below, frame)

UserFrames == {i \in DOMAIN stack : stack[i].k = "user"}

Calls == {"signal", "killself", "killchild", "abort"}

\* Which frame may stand on which: who calls, or interrupts, whom.
CallerOK(f, c) ==
  CASE f.k = "user"    -> f.sig \in Catchable /\ c.k \in {"user", "handle", "setmask"}
    [] f.k = "handle"  -> /\ f.at \in 1 .. 5 /\ f.sigs \subseteq {"ctrlC", "ctrlD"}
                          /\ \/ c.k \in {"user", "pause", "exit"} \cup Calls
                             \/ c.k = "setmask" /\ c.at = -1
    [] f.k = "setmask" -> /\ f.at \in -1 .. NSIG /\ f.new \subseteq Sigs
                          /\ c.k \in {"user", "pause", "longjmp"}
    [] f.k = "exit"    -> f.fd \in 0 .. NumFds /\ c.k \in {"user", "handle", "setmask"}
    [] OTHER           -> c.k = "user"

TypeOK ==
  /\ mask \subseteq Sigs /\ pending \subseteq Sigs
  /\ handlers \in [Sigs -> {"DFL", "IGN", "CATCH"}]
  /\ bits \subseteq ExecBits
  /\ alarm \in {"idle", "sent", "replied"}
  /\ port \subseteq Kids /\ alive \subseteq Kids /\ unsent \subseteq Kids
  /\ jmp \subseteq SUBSET Sigs
  /\ typed \subseteq {"ctrlC", "ctrlD"}
  /\ stack # <<>> => stack[1].k = "user" /\ stack[1].sig = 0
  /\ \A i \in 2 .. Len(stack) : CallerOK(stack[i], stack[i - 1])

Init ==
  /\ mask = {} /\ pending = {}
  /\ handlers = [s \in Sigs |-> "DFL"]
  /\ bits = {} /\ alarm = "idle" /\ port = {} /\ alive = Kids /\ unsent = Kids
  /\ stack = <<User(0, {})>> /\ jmp = {} /\ typed = {}

----------------------------------------------------------------------------
(* _sig_dispatch.  m is _sig_mask, rest the stack the dispatch returns to. *)

Ignored(s) == \/ handlers[s] = "IGN"
              \/ handlers[s] = "DFL" /\ s \in {SIGCHLD, SIGURG, SIGWINCH}

\* Variant for checking: the signal is not masked while its handler runs.
DeliverUnmasked(s, m, rest) ==
  /\ pending' = pending \ {s}
  /\ mask' = m
  /\ stack' = CASE handlers[s] = "CATCH" -> Append(rest, User(s, m))
               [] Ignored(s)            -> rest
               [] OTHER                 -> Append(rest, Exit(0))

\* The body of the do loop: act on s, with handlers masking it meanwhile.
Deliver(s, m, rest) ==
  /\ pending' = pending \ {s}
  /\ \/ /\ handlers[s] = "CATCH"
        /\ mask' = m \cup {s}
        /\ stack' = Append(rest, User(s, m \cup {s}))
     \/ /\ handlers[s] # "CATCH"
        /\ mask' = m
        /\ stack' = IF Ignored(s) THEN rest ELSE Append(rest, Exit(0))

Dispatch(s, rest) ==
  \/ /\ s = SIGKILL
     /\ stack' = Append(rest, Exit(0))
     /\ UNCHANGED <<mask, pending>>
  \/ /\ s # SIGKILL /\ s \in mask
     /\ pending' = pending \cup {s}
     /\ stack' = rest
     /\ UNCHANGED mask
  \/ /\ s # SIGKILL /\ s \notin mask
     /\ Deliver(s, mask, rest)

\* Variant for checking: a signal raised during its handler is forgotten.
HandlerReturnsOnce ==
  /\ Running("user") /\ Top.sig # 0
  /\ mask' = mask \ {Top.sig} /\ stack' = Below
  /\ UNCHANGED <<pending, handlers, bits, alarm, port, alive, unsent, jmp, typed>>

\* A handler returns: its signal is unmasked, and dispatched again if it
\* was raised meanwhile.
HandlerReturns ==
  /\ Running("user") /\ Top.sig # 0
  /\ LET s == Top.sig IN
       IF s \in pending
       THEN Deliver(s, mask \ {s}, Below)
       ELSE mask' = mask \ {s} /\ stack' = Below /\ UNCHANGED pending
  /\ UNCHANGED <<handlers, bits, alarm, port, alive, unsent, jmp, typed>>

----------------------------------------------------------------------------
(* _handle_signals.                                                        *)

\* chkabort: collect the bits and start looking at the sources.  Of the bits
\* only the two break bits are looked at; the others just end a Wait().
Collected == Handle(1, bits \cap {"ctrlC", "ctrlD"}, FALSE)
Poll(rest) == bits' = {} /\ stack' = Append(rest, Collected)

\* The collected break bits a poll has not looked at yet, once past source at.
Left(at) == Top.sigs \ (CASE at = 2 -> {"ctrlC"} [] at = 3 -> {"ctrlD"} [] OTHER -> {})

\* Variant for checking: a poll stops at the first source that fired.
SourceFirstOnly(at, hit, s) ==
  /\ Running("handle") /\ Top.at = at
  /\ IF hit
     THEN Dispatch(s, Becomes(Handle(5, Top.sigs, TRUE)))
     ELSE /\ stack' = Becomes(Handle(at + 1, Top.sigs, Top.hit))
          /\ UNCHANGED <<mask, pending>>

\* Source number at has fired (hit) for signal s, or has not.
Source(at, hit, s) ==
  /\ Running("handle") /\ Top.at = at
  /\ IF hit
     THEN Dispatch(s, Becomes(Handle(at + 1, Left(at), TRUE)))
     ELSE /\ stack' = Becomes(Handle(at + 1, Left(at), Top.hit))
          /\ UNCHANGED <<mask, pending>>

CheckAlarm ==
  /\ Source(1, alarm = "replied", SIGALRM)
  /\ alarm' = IF alarm = "replied" THEN "idle" ELSE alarm
  /\ UNCHANGED <<handlers, bits, port, alive, unsent, jmp, typed>>

CheckSigint ==
  /\ Source(2, "ctrlC" \in Top.sigs, SIGINT)
  /\ typed' = typed \ (Top.sigs \cap {"ctrlC"})
  /\ UNCHANGED <<handlers, bits, alarm, port, alive, unsent, jmp>>

CheckSigquit ==
  /\ Source(3, "ctrlD" \in Top.sigs, SIGQUIT)
  /\ typed' = typed \ (Top.sigs \cap {"ctrlD"})
  /\ UNCHANGED <<handlers, bits, alarm, port, alive, unsent, jmp>>

\* Variant for checking: only one queued exit message is taken.
CheckOneChild ==
  \E taken \in SUBSET port :
    /\ Cardinality(taken) = IF port = {} THEN 0 ELSE 1
    /\ Source(4, taken \cap alive # {}, SIGCHLD)
    /\ port' = port \ taken /\ alive' = alive \ taken
    /\ UNCHANGED <<handlers, bits, alarm, unsent, jmp, typed>>

\* All queued exit messages are drained; one SIGCHLD if an entry changed.
CheckChildren ==
  /\ Source(4, port \cap alive # {}, SIGCHLD)
  /\ port' = {} /\ alive' = alive \ port
  /\ UNCHANGED <<handlers, bits, alarm, unsent, jmp, typed>>

\* _handle_signals returns; only sigpause looks at the result.
HandleReturns ==
  /\ Running("handle") /\ Top.at = 5
  /\ stack' = LET c == Last(Below) IN
       CASE c.k = "pause"   -> Append(Front(Below),
                                 Pause(c.old, IF Top.hit THEN "restore" ELSE "wait"))
         [] c.k = "setmask" -> Append(Front(Below), SetMask(c.new, 0))
         [] OTHER           -> Below
  /\ mask' = IF Last(Below).k = "setmask" THEN Last(Below).new ELSE mask
  /\ UNCHANGED <<pending, handlers, bits, alarm, port, alive, unsent, jmp, typed>>

----------------------------------------------------------------------------
(* sigsetmask, sigpause, longjmp: the frames chkabort returns to.          *)

\* The loop over pending signals: the next unmasked one at or after at.
Unheld(at) == {s \in pending \ mask : s >= at}

SetMaskLoop ==
  /\ Running("setmask") /\ Top.at >= 0 /\ Unheld(Top.at) # {}
  /\ LET s == CHOOSE x \in Unheld(Top.at) : \A y \in Unheld(Top.at) : x <= y
     IN  Dispatch(s, Becomes(SetMask(Top.new, s + 1)))
  /\ UNCHANGED <<handlers, bits, alarm, port, alive, unsent, jmp, typed>>

\* sigsetmask returns to its caller.
SetMaskReturns ==
  /\ Running("setmask") /\ Top.at >= 0 /\ Unheld(Top.at) = {}
  /\ stack' = LET c == Last(Below) IN
       CASE c.k = "user"  -> Append(Front(Below), User(c.sig, Top.new))
         [] c.k = "pause" -> IF c.at = "set"
                             THEN Append(Front(Below), Pause(c.old, "check"))
                             ELSE Front(Below)
         [] c.k = "longjmp" -> <<User(0, Top.new)>>   \* _longjmp to main
  /\ UNCHANGED <<mask, pending, handlers, bits, alarm, port, alive, unsent, jmp, typed>>

\* _check_signals(0), without waiting.
PauseCheck ==
  /\ Running("pause") /\ Top.at = "check"
  /\ Poll(stack)
  /\ UNCHANGED <<mask, pending, handlers, alarm, port, alive, unsent, jmp, typed>>

\* Wait(signalsigs): blocked until some bit is set.
PauseWait ==
  /\ Running("pause") /\ Top.at = "wait" /\ bits # {}
  /\ Poll(stack)
  /\ UNCHANGED <<mask, pending, handlers, alarm, port, alive, unsent, jmp, typed>>

\* Variant for checking: sigpause returns without restoring the mask.
PauseForgets ==
  /\ Running("pause") /\ Top.at = "restore"
  /\ stack' = Below
  /\ UNCHANGED <<mask, pending, handlers, bits, alarm, port, alive, unsent, jmp, typed>>

PauseRestore ==
  /\ Running("pause") /\ Top.at = "restore"
  /\ bits' = {}
  /\ stack' = Becomes(Pause(Top.old, "done"))
                \o <<SetMask(Top.old, -1), Collected>>
  /\ UNCHANGED <<mask, pending, handlers, alarm, port, alive, unsent, jmp, typed>>

----------------------------------------------------------------------------
(* Calls that act once their chkabort has returned.                        *)

DoSignal ==
  /\ Running("signal")
  /\ handlers' = [handlers EXCEPT ![Top.arg[1]] = Top.arg[2]]
  /\ stack' = Below
  /\ UNCHANGED <<mask, pending, bits, alarm, port, alive, unsent, jmp, typed>>

\* Variant for checking: the call is resumed after its handler.
KillSelfResumed ==
  /\ Running("killself")
  /\ Dispatch(Top.arg, stack)
  /\ UNCHANGED <<handlers, bits, alarm, port, alive, unsent, jmp, typed>>

\* kill(getpid(), s)
DoKillSelf ==
  /\ Running("killself")
  /\ Dispatch(Top.arg, Below)
  /\ UNCHANGED <<handlers, bits, alarm, port, alive, unsent, jmp, typed>>

\* kill(child, SIGKILL): ESRCH unless alive; the child's exit is faked.  With
\* any other signal kill is a poll: the breaks it sends go to tasks that are
\* ready or waiting, never to the caller, which is running.
DoKillChild ==
  /\ Running("killchild")
  /\ \/ /\ Top.arg \in alive
        /\ alive' = alive \ {Top.arg} /\ Dispatch(SIGCHLD, Below)
     \/ /\ Top.arg \notin alive
        /\ stack' = Below /\ UNCHANGED <<alive, mask, pending>>
  /\ UNCHANGED <<handlers, bits, alarm, port, unsent, jmp, typed>>

\* _close_all: each close() polls; then the timers, ports and task go away.
DoExit ==
  /\ Running("exit")
  /\ \/ /\ Top.fd < NumFds
        /\ Poll(Becomes(Exit(Top.fd + 1)))
        /\ UNCHANGED <<alarm, port, typed>>
     \/ /\ Top.fd = NumFds
        /\ stack' = <<>> /\ alarm' = "idle" /\ port' = {} /\ bits' = {} /\ typed' = {}
  /\ UNCHANGED <<mask, pending, handlers, alive, unsent, jmp>>

\* abort(): _close_all, then kill(getpid(), SIGIOT).  It returns when the
\* program ignores SIGIOT, masks it, or its handler returns.
DoAbort ==
  /\ Running("abort")
  /\ IF Top.arg < NumFds
     THEN Poll(Becomes(Call("abort", Top.arg + 1)))
     ELSE Poll(Becomes(Call("killself", SIGIOT)))
  /\ UNCHANGED <<mask, pending, handlers, alarm, port, alive, unsent, jmp, typed>>

LibraryStep ==
  \/ CheckAlarm \/ CheckSigint \/ CheckSigquit \/ CheckChildren \/ HandleReturns
  \/ SetMaskLoop \/ SetMaskReturns \/ PauseCheck \/ PauseWait \/ PauseRestore
  \/ DoSignal \/ DoKillSelf \/ DoKillChild \/ DoExit \/ DoAbort

----------------------------------------------------------------------------
(* What the program's own code does.                                       *)

MayCall(op) ==
  /\ Running("user")
  /\ Cardinality(UserFrames) <= MaxNest
  /\ op \in (IF Top.sig = 0 THEN MainCalls ELSE HandlerCalls)

\* Any other call: close, read, getdtablesize ... as far as signals go.
CallLibrary ==
  /\ MayCall("call")
  /\ Poll(stack)
  /\ UNCHANGED <<mask, pending, handlers, alarm, port, alive, unsent, jmp, typed>>

CallSignal ==
  /\ MayCall("signal")
  /\ \E s \in Catchable, fn \in {"DFL", "IGN", "CATCH"} :
       handlers[s] # fn /\ Poll(Append(stack, Call("signal", <<s, fn>>)))
  /\ UNCHANGED <<mask, pending, handlers, alarm, port, alive, unsent, jmp, typed>>

CallSetMask ==
  /\ MayCall("sigsetmask")
  /\ \E m \in Masks : Poll(Append(stack, SetMask(m, -1)))
  /\ UNCHANGED <<mask, pending, handlers, alarm, port, alive, unsent, jmp, typed>>

\* oldmask is _sig_mask before the poll inside sigsetmask.
CallPause ==
  /\ MayCall("sigpause")
  /\ \E m \in Masks : Poll(stack \o <<Pause(mask, "set"), SetMask(m, -1)>>)
  /\ UNCHANGED <<mask, pending, handlers, alarm, port, alive, unsent, jmp, typed>>

CallKill ==
  /\ MayCall("kill")
  /\ \/ \E s \in Catchable \cup {SIGKILL} : Poll(Append(stack, Call("killself", s)))
     \/ \E c \in Kids : Poll(Append(stack, Call("killchild", c)))
  /\ UNCHANGED <<mask, pending, handlers, alarm, port, alive, unsent, jmp, typed>>

\* alarm(n): no poll; aborts the running request, n > 0 sends a new one.
CallAlarm ==
  /\ MayCall("alarm")
  /\ alarm' \in {"idle", "sent"}
  /\ UNCHANGED <<mask, pending, handlers, bits, port, alive, unsent, stack, jmp, typed>>

\* setjmp in the main program.
CallSetjmp ==
  /\ MayCall("setjmp")
  /\ jmp' = {mask}
  /\ UNCHANGED <<mask, pending, handlers, bits, alarm, port, alive, unsent, stack, typed>>

\* Variant for checking: longjmp keeps the handler's mask, as _longjmp does.
RawLongjmp ==
  /\ MayCall("longjmp")
  /\ \E m \in jmp : stack' = <<User(0, m)>>
  /\ UNCHANGED <<mask, pending, handlers, bits, alarm, port, alive, unsent, jmp, typed>>

CallLongjmp ==
  /\ MayCall("longjmp")
  /\ \E m \in jmp : Poll(stack \o <<Call("longjmp", m), SetMask(m, -1)>>)
  /\ UNCHANGED <<mask, pending, handlers, alarm, port, alive, unsent, jmp, typed>>

CallExit ==
  /\ MayCall("exit")
  /\ stack' = Append(stack, Exit(0))
  /\ UNCHANGED <<mask, pending, handlers, bits, alarm, port, alive, unsent, jmp, typed>>

CallAbort ==
  /\ MayCall("abort")
  /\ Poll(Append(stack, Call("abort", 0)))
  /\ UNCHANGED <<mask, pending, handlers, alarm, port, alive, unsent, jmp, typed>>

\* A floating point trap calls CXFERR, which dispatches without polling.
FloatingTrap ==
  /\ MayCall("fpe")
  /\ Dispatch(SIGFPE, stack)
  /\ UNCHANGED <<handlers, bits, alarm, port, alive, unsent, jmp, typed>>

UserStep ==
  \/ HandlerReturns \/ CallLibrary \/ CallSignal \/ CallSetMask \/ CallPause
  \/ CallKill \/ CallAlarm \/ CallSetjmp \/ CallLongjmp \/ CallExit \/ CallAbort
  \/ FloatingTrap

----------------------------------------------------------------------------
(* Exec, timer.device and the other tasks.                                 *)

\* The user types ctrl-C or ctrl-D, or another task breaks this one.
TypeBreak ==
  /\ stack # <<>>
  /\ Cardinality({i \in DOMAIN stack : stack[i].k = "exit"}) <= MaxExits
  /\ \E key \in Keys \ bits :
       bits' = bits \cup {key} /\ typed' = typed \cup {key}
  /\ UNCHANGED <<mask, pending, handlers, alarm, port, alive, unsent, stack, jmp>>

TimerReplies ==
  /\ alarm = "sent"
  /\ alarm' = "replied" /\ bits' = bits \cup {"timer"}
  /\ UNCHANGED <<mask, pending, handlers, port, alive, unsent, stack, jmp, typed>>

\* A child's exit message arrives (child.asm, PutMsg on _children_exit), also
\* that of a child whose exit kill has faked.
ChildExits ==
  /\ stack # <<>>
  /\ \E c \in unsent :
       /\ port' = port \cup {c} /\ unsent' = unsent \ {c}
       /\ bits' = bits \cup {"child"}
  /\ UNCHANGED <<mask, pending, handlers, alarm, alive, stack, jmp, typed>>

Environment == TypeBreak \/ TimerReplies \/ ChildExits

\* The program has exited.
Terminated == stack = <<>> /\ UNCHANGED vars

Next == LibraryStep \/ UserStep \/ Environment \/ Terminated

Spec == Init /\ [][Next]_vars

----------------------------------------------------------------------------
(* Properties.                                                             *)

\* No signal is left behind: when program code runs, a pending signal is
\* masked, or a sigsetmask that released it has yet to reach its number.
PendingAreMasked ==
  Running("user") =>
    \A s \in pending \ mask :
      \E i \in DOMAIN stack : stack[i].k = "setmask" /\ stack[i].at \in 0 .. s

\* Code always runs under the mask it asked for: sigpause, handlers that
\* interrupt it and longjmp give it back unchanged (for handlers that do not
\* call sigsetmask, whose effect the library keeps after they return).
MaskAsAsked == Running("user") => mask = Top.asked

\* Frames that still have to look at source number at.
StillToCheck(at) == \E i \in DOMAIN stack : stack[i].k = "handle" /\ stack[i].at <= at

\* An exit message or timer reply in a port is never unannounced: its bit is
\* set, so Wait() returns at once, or a running poll will still collect it.
NoLostWakeup ==
  /\ port # {} => "child" \in bits \/ StillToCheck(4)
  /\ alarm = "replied" => "timer" \in bits \/ StillToCheck(1)

\* unix.doc: "SIGINT: user typed ctrl-c", "SIGQUIT: user typed ctrl-d".  A
\* typed key is a bit not collected yet, or is held by a poll that will
\* dispatch it.
NoLostBreak ==
  \A key \in typed :
    \/ key \in bits
    \/ \E i \in DOMAIN stack :
         /\ stack[i].k = "handle" /\ key \in stack[i].sigs
         /\ stack[i].at <= IF key = "ctrlC" THEN 2 ELSE 3

\* unix.doc: "that particular signal is simply masked for the duration of
\* the handler": no handler is entered while it is already running, unless
\* it asked for that with a mask of its own.
HandlerNotReentered ==
  \A i, j \in UserFrames :
    i < j /\ stack[i].sig # 0 /\ stack[i].sig = stack[j].sig
      => \E n \in i + 1 .. j - 1 : stack[n].k \in {"setmask", "pause"}
============================================================================
