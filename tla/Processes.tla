----------------------------- MODULE Processes -----------------------------
(***************************************************************************)
(* Children (src/src/exec.c, child.asm, processes.c, wait4.c, kill.c, and  *)
(* the polls of signals.c): the parent task and its child processes run    *)
(* concurrently and share the globals exec fills, the startup port, and    *)
(* the public "door" port on which a child leaves its exit message.  The   *)
(* parent's handlers run inside its polls and call the library themselves. *)
(***************************************************************************)
EXTENDS Integers, FiniteSets, Sequences, SequencesExt

CONSTANTS
  MaxPid,  \* bound on the process numbers exec hands out
  Codes,   \* values a child puts in its exit message (result << 8)
  Others,  \* signals besides SIGCHLD that reach the parent and may have handlers
  Targets, \* process numbers the program waits for (0: any) and kills
  HandlerCalls \* the calls its handlers make

SIGINT == 2
SIGQUIT == 3
SIGKILL == 9
SIGALRM == 14
SIGCHLD == 20
Pid == 1 .. MaxPid

ASSUME ProcessesAssumption ==
  /\ MaxPid \in Nat
  /\ Codes \subseteq Nat
  /\ Others \subseteq {SIGALRM, SIGINT, SIGQUIT}
  /\ Targets \subseteq 0 .. MaxPid

VARIABLES
  next,     \* _next_pid
  table,    \* the entry of each process: "none", "alive" or "exited"
  rc,       \* rc of the entry
  kid,      \* where each child process is in child.asm
  mine,     \* the arguments a child copied from the globals (0: none yet)
  globals,  \* the process whose arguments _child_exit, _child_door_name,
            \* _child_command and _child_entry hold
  startup,  \* startup_message is on _startup_port
  code,     \* rc field of each exit message
  msg,      \* each exit message: "none", "held" by exec and then its child,
            \* "queued" on the door, "freed", "lost" on a deleted port
  frees,    \* how often each exit message was freed
  door,     \* the port _door_name exists, that is, the parent has not exited
  bits,     \* signals whose Exec bit the parent's task has set
  stack,    \* activations of the parent's code: main and the handlers running
            \* on top of it, each with its library call in progress
  raised    \* signals in _sig_pending (their handlers are running)

vars == <<next, table, rc, kid, mine, globals, startup, code, msg, frees,
          door, bits, stack, raised>>

tableVars == <<next, table, rc>>
childVars == <<kid, mine, code>>
messageVars == <<msg, frees>>
parentVars == <<stack, raised>>

Signals == Others \cup {SIGCHLD}

\* An activation: sig is the signal whose handler it is, 0 for main.  k says
\* where it is: in the program's code ("user"), in exec waiting for the startup
\* message, in the loop or the sleep of wait4 ("scan", "block"), in kill or
\* _exit behind its poll, or in _handle_signals ("poll") with the signals in
\* due yet to be dispatched before it looks at the children, and then what
\* comes after.
Frames ==
  [sig : {0} \cup Signals, k : {"user", "exec", "scan", "block", "kill", "exit", "poll"},
   due : SUBSET Others, then : {"user", "scan", "kill", "exit"},
   pid : 0 .. MaxPid, hang : BOOLEAN]
Code(s) == [sig |-> s, k |-> "user", due |-> {}, then |-> "user", pid |-> 0, hang |-> FALSE]

TypeOK ==
  /\ next \in 1 .. MaxPid + 1
  /\ table \in [Pid -> {"none", "alive", "exited"}]
  /\ rc \in [Pid -> Nat]
  /\ kid \in [Pid -> {"none", "boot", "copied", "running", "ended", "found",
                      "noport", "gone"}]
  /\ mine \in [Pid -> 0 .. MaxPid]
  /\ globals \in 0 .. MaxPid
  /\ startup \in BOOLEAN
  /\ code \in [Pid -> Nat]
  /\ msg \in [Pid -> {"none", "held", "queued", "freed", "lost"}]
  /\ frees \in [Pid -> Nat]
  /\ door \in BOOLEAN
  /\ bits \subseteq Signals /\ raised \subseteq Signals
  /\ stack \in Seq(Frames) /\ (door <=> stack # <<>>)
  /\ \A i \in DOMAIN stack : stack[i].sig = 0 <=> i = 1

Init ==
  /\ next = 1
  /\ table = [p \in Pid |-> "none"]
  /\ rc = [p \in Pid |-> 0]
  /\ kid = [p \in Pid |-> "none"]
  /\ mine = [p \in Pid |-> 0]
  /\ globals = 0
  /\ startup = FALSE
  /\ code = [p \in Pid |-> 0]
  /\ msg = [p \in Pid |-> "none"]
  /\ frees = [p \in Pid |-> 0]
  /\ door = TRUE /\ bits = {} /\ raised = {}
  /\ stack = <<Code(0)>>

----------------------------------------------------------------------------
(* The parent: _sig_dispatch and _handle_signals.                          *)

Top == Last(stack)
At(k) == stack # <<>> /\ Top.k = k
Becomes(f) == stack' = Append(Front(stack), f)
Handling == {stack[i].sig : i \in DOMAIN stack}

\* The running activation goes on as f, after signal s was dispatched: it is
\* pending while its handler runs; otherwise the handler is called, if the
\* program installed one.
Dispatch(s, f) ==
  \/ /\ s \in Handling
     /\ raised' = raised \cup {s}
     /\ Becomes(f)
  \/ /\ s \notin Handling
     /\ stack' = Append(Append(Front(stack), f), Code(s))
     /\ UNCHANGED raised
  \/ /\ s \notin Handling
     /\ Becomes(f)
     /\ UNCHANGED raised

\* SetSignal or Wait: all the bits are cleared, and _handle_signals starts in
\* activation f.
Polling(f) == [f EXCEPT !.k = "poll", !.due = bits \cap Others]
Collect(f) == bits' = {} /\ Becomes(Polling(f))

\* A handler returns.  When its signal was raised meanwhile, it is dispatched
\* again: to the handler or, if the handler took itself away, to nobody or to
\* the default, which exits for all but SIGCHLD.
HandlerReturns ==
  /\ At("user") /\ Top.sig # 0
  /\ \/ stack' = Front(stack) /\ UNCHANGED bits
     \/ Top.sig \in raised /\ UNCHANGED <<stack, bits>>
     \/ /\ Top.sig \in raised \ {SIGCHLD}
        /\ bits' = {}
        /\ stack' = Append(Front(Front(stack)),
                           Polling([Last(Front(stack)) EXCEPT !.then = "exit"]))
  /\ raised' = raised \ {Top.sig}
  /\ UNCHANGED <<tableVars, childVars, globals, startup, messageVars, door>>

\* SIGALRM comes first, then SIGINT, then SIGQUIT.
Rank(s) == IF s = SIGALRM THEN 0 ELSE s
IsNext(s) == s \in Top.due /\ \A t \in Top.due : Rank(s) <= Rank(t)

\* check_alarm, check_sigint, check_sigquit: the signal of a bit collected is
\* dispatched.  Without a handler its default is to exit.
ChecksOther ==
  /\ At("poll")
  /\ \E s \in Others :
       /\ IsNext(s)
       /\ \/ Dispatch(s, [Top EXCEPT !.due = @ \ {s}]) /\ UNCHANGED bits
          \/ /\ s \notin Handling
             /\ Collect([Top EXCEPT !.then = "exit"]) /\ UNCHANGED raised
  /\ UNCHANGED <<tableVars, childVars, globals, startup, messageVars, door>>

Free(S) ==
  /\ msg' = [p \in Pid |-> IF p \in S THEN "freed" ELSE msg[p]]
  /\ frees' = [p \in Pid |-> IF p \in S THEN frees[p] + 1 ELSE frees[p]]

Queued == {p \in Pid : msg[p] = "queued"}

\* Where a call goes on after its poll.
Resumed == [Top EXCEPT !.k = Top.then, !.then = "user"]

\* The children of dead are found to have exited, and SIGCHLD is dispatched if
\* there are any.
Notices(dead) ==
  /\ table' = [p \in Pid |-> IF p \in dead THEN "exited" ELSE table[p]]
  /\ rc' = [p \in Pid |-> IF p \in dead THEN code[p] ELSE rc[p]]
  /\ \/ dead # {} /\ Dispatch(SIGCHLD, Resumed)
     \/ dead = {} /\ Becomes(Resumed) /\ UNCHANGED raised

\* Variant for checking: only one queued message is taken.
CheckOneChild ==
  \E taken \in SUBSET Queued :
    /\ taken = {} <=> Queued = {}
    /\ \A p, q \in taken : p = q
    /\ Notices({p \in taken : table[p] = "alive"})
    /\ Free(taken)

\* Variant for checking: a message also changes an entry that has exited.
CheckAnyChild == Notices({p \in Queued : table[p] # "none"}) /\ Free(Queued)

\* check_children: every queued message is taken and freed, and those of
\* children the table holds as alive make them exited.
CheckChildren == Notices({p \in Queued : table[p] = "alive"}) /\ Free(Queued)

\* The last source of _handle_signals; then the call that polled goes on.
ChecksChildren ==
  /\ At("poll") /\ Top.due = {}
  /\ CheckChildren
  /\ UNCHANGED <<next, childVars, globals, startup, door, bits>>

----------------------------------------------------------------------------
(* The parent's calls.                                                     *)

\* The program, or a handler that makes such calls, is about to make one.
Calls(c) == At("user") /\ (Top.sig = 0 \/ c \in HandlerCalls)

\* chkabort, on entry of any library call.
Poll ==
  /\ Calls("poll") /\ Collect(Top)
  /\ UNCHANGED <<tableVars, childVars, globals, startup, messageVars, door, raised>>

\* exec up to CreateNewProcTags.  When it fails the number is used up and
\* the exit message freed.
ExecCreates ==
  /\ Calls("exec") /\ next <= MaxPid
  /\ next' = next + 1 /\ globals' = next
  /\ \/ /\ kid' = [kid EXCEPT ![next] = "boot"]
        /\ msg' = [msg EXCEPT ![next] = "held"]
        /\ Becomes([Top EXCEPT !.k = "exec", !.pid = next])
        /\ UNCHANGED frees
     \/ /\ msg' = [msg EXCEPT ![next] = "freed"]
        /\ frees' = [frees EXCEPT ![next] = @ + 1]
        /\ UNCHANGED <<kid, stack>>
  /\ UNCHANGED <<table, rc, mine, startup, code, door, bits, raised>>

Leave == Becomes(Code(Top.sig))

\* Variant for checking: exec does not wait for the startup message.
ExecEntersEarly ==
  /\ At("exec")
  /\ startup' = FALSE
  /\ table' = [table EXCEPT ![Top.pid] = "alive"]
  /\ Leave
  /\ UNCHANGED <<next, rc, childVars, globals, messageVars, door, bits, raised>>

\* Variant for checking: exec polls before it enters the child.
ExecEntersLate ==
  /\ At("exec") /\ startup
  /\ startup' = FALSE
  /\ table' = [table EXCEPT ![Top.pid] = "alive"]
  /\ Free(Queued)
  /\ Leave
  /\ UNCHANGED <<next, rc, childVars, globals, door, bits, raised>>

\* exec, once the startup message has come.
ExecEnters ==
  /\ At("exec") /\ startup
  /\ startup' = FALSE
  /\ table' = [table EXCEPT ![Top.pid] = "alive"]
  /\ Leave
  /\ UNCHANGED <<next, rc, childVars, globals, messageVars, door, bits, raised>>

\* wait4(pid, ...), which does not poll: pid = 0 stands for any child.
WaitCalled ==
  /\ Calls("wait")
  /\ \E pid \in Targets, hang \in BOOLEAN :
       Becomes([Top EXCEPT !.k = "scan", !.pid = pid, !.hang = hang])
  /\ UNCHANGED <<tableVars, childVars, globals, startup, messageVars, door, bits, raised>>

Matching(c) == {p \in Pid : table[p] # "none" /\ c.pid \in {0, p}}

\* Variant for checking: wait4 waits although it has seen no child.
WaitScansOn ==
  /\ At("scan")
  /\ LET exited == {p \in Matching(Top) : table[p] = "exited"}
     IN  \/ /\ exited # {}
            /\ \E p \in exited : table' = [table EXCEPT ![p] = "none"]
            /\ Leave
         \/ /\ exited = {}
            /\ IF Top.hang THEN Becomes([Top EXCEPT !.k = "block"]) ELSE Leave
            /\ UNCHANGED table
  /\ UNCHANGED <<next, rc, childVars, globals, startup, messageVars, door, bits, raised>>

\* The loop body of wait4: the newest exited entry is freed and reported; with
\* none, WNOHANG returns 0 and an empty scan ECHILD; otherwise Wait().
WaitScans ==
  /\ At("scan")
  /\ LET exited == {p \in Matching(Top) : table[p] = "exited"}
     IN  \/ /\ exited # {}
            /\ \E p \in exited :
                 (\A q \in exited : q <= p) /\ table' = [table EXCEPT ![p] = "none"]
            /\ Leave
         \/ /\ exited = {} /\ (~Top.hang \/ Matching(Top) = {})
            /\ Leave
            /\ UNCHANGED table
         \/ /\ exited = {} /\ Top.hang /\ Matching(Top) # {}
            /\ Becomes([Top EXCEPT !.k = "block"])
            /\ UNCHANGED table
  /\ UNCHANGED <<next, rc, childVars, globals, startup, messageVars, door, bits, raised>>

\* _handle_signals(_wait_signals(0)), then the next round of the loop.
WaitWakes ==
  /\ At("block") /\ bits # {}
  /\ Collect([Top EXCEPT !.then = "scan"])
  /\ UNCHANGED <<tableVars, childVars, globals, startup, messageVars, door, raised>>

\* kill of a child: a poll, and then the work.
KillCalled ==
  /\ Calls("kill")
  /\ \E p \in Targets \ {0} : Collect([Top EXCEPT !.then = "kill", !.pid = p])
  /\ UNCHANGED <<tableVars, childVars, globals, startup, messageVars, door, raised>>

\* Variant for checking: the faked status is a negated signal number.
KillNegates ==
  /\ At("kill")
  /\ LET p == Top.pid IN
       \/ /\ table[p] = "alive"
          /\ table' = [table EXCEPT ![p] = "exited"]
          /\ rc' = [rc EXCEPT ![p] = -SIGKILL]
          /\ Dispatch(SIGCHLD, Code(Top.sig))
       \/ table[p] # "alive" /\ Leave /\ UNCHANGED <<table, rc, raised>>
  /\ UNCHANGED <<next, childVars, globals, startup, messageVars, door, bits>>

\* kill(pid, SIGKILL): the exit is faked in the table; the child only gets a
\* break signal and runs on.  The caller, which is running, gets none.
KillChild ==
  /\ At("kill")
  /\ LET p == Top.pid IN
       \/ /\ table[p] = "alive"
          /\ table' = [table EXCEPT ![p] = "exited"]
          /\ rc' = [rc EXCEPT ![p] = SIGKILL]
          /\ Dispatch(SIGCHLD, Code(Top.sig))
       \/ table[p] # "alive" /\ Leave /\ UNCHANGED <<table, rc, raised>>
  /\ UNCHANGED <<next, childVars, globals, startup, messageVars, door, bits>>

\* _exit: the descriptors are closed, which polls.
ExitCalled ==
  /\ Calls("exit")
  /\ Collect([Top EXCEPT !.then = "exit"])
  /\ UNCHANGED <<tableVars, childVars, globals, startup, messageVars, door, raised>>

\* _cleanup_processes drains the door and deletes it under Forbid().
ParentExits ==
  /\ At("exit")
  /\ door' = FALSE
  /\ Free(Queued)
  /\ stack' = <<>>
  /\ UNCHANGED <<tableVars, childVars, globals, startup, bits, raised>>

\* A break key or the alarm timer sets a bit of the parent.
OtherSignal ==
  /\ door
  /\ \E s \in Others : bits' = bits \cup {s}
  /\ UNCHANGED <<tableVars, childVars, globals, startup, messageVars, door, parentVars>>

----------------------------------------------------------------------------
(* A child process.                                                        *)

ChildAt(p, from, to) == kid[p] = from /\ kid' = [kid EXCEPT ![p] = to]

\* The arguments are read from the parent's globals.
ChildCopies(p) ==
  /\ ChildAt(p, "boot", "copied")
  /\ mine' = [mine EXCEPT ![p] = globals]
  /\ UNCHANGED <<tableVars, globals, startup, code, messageVars, door, bits, parentVars>>

ChildStarts(p) ==
  /\ ChildAt(p, "copied", "running")
  /\ startup' = TRUE
  /\ UNCHANGED <<tableVars, mine, globals, code, messageVars, door, bits, parentVars>>

\* SystemTagList returns and the result goes into the exit message.
CommandEnds(p) ==
  /\ ChildAt(p, "running", "ended")
  /\ \E c \in Codes : code' = [code EXCEPT ![mine[p]] = c]
  /\ UNCHANGED <<tableVars, mine, globals, startup, messageVars, door, bits, parentVars>>

FindsPort(p) ==
  /\ ChildAt(p, "ended", IF door THEN "found" ELSE "noport")
  /\ UNCHANGED <<tableVars, mine, globals, startup, code, messageVars, door, bits, parentVars>>

\* Variant for checking: the child frees the message it has sent.
SendsAndFrees(p) ==
  /\ ChildAt(p, "found", "gone")
  /\ msg' = [msg EXCEPT ![mine[p]] = IF door THEN "queued" ELSE "lost"]
  /\ frees' = [frees EXCEPT ![mine[p]] = @ + 1]
  /\ bits' = IF door THEN bits \cup {SIGCHLD} ELSE bits
  /\ UNCHANGED <<tableVars, mine, globals, startup, code, door, parentVars>>

\* PutMsg on the port found, which the parent may have deleted since.
SendsExit(p) ==
  /\ ChildAt(p, "found", "gone")
  /\ msg' = [msg EXCEPT ![mine[p]] = IF door THEN "queued" ELSE "lost"]
  /\ bits' = IF door THEN bits \cup {SIGCHLD} ELSE bits
  /\ UNCHANGED <<tableVars, mine, globals, startup, code, frees, door, parentVars>>

FreesExit(p) ==
  /\ ChildAt(p, "noport", "gone")
  /\ Free({mine[p]})
  /\ UNCHANGED <<tableVars, mine, globals, startup, code, door, bits, parentVars>>

ChildStep(p) ==
  \/ ChildCopies(p) \/ ChildStarts(p) \/ CommandEnds(p)
  \/ FindsPort(p) \/ SendsExit(p) \/ FreesExit(p)

\* Parent gone and no child left.
Terminated == ~door /\ (\A p \in Pid : kid[p] \in {"none", "gone"}) /\ UNCHANGED vars

LibraryStep ==
  \/ ChecksOther \/ ChecksChildren \/ ExecEnters \/ WaitScans \/ WaitWakes
  \/ KillChild \/ ParentExits

ProgramStep ==
  \/ Poll \/ ExecCreates \/ WaitCalled \/ KillCalled \/ ExitCalled \/ HandlerReturns

Next ==
  \/ LibraryStep \/ ProgramStep
  \/ \E p \in Pid : ChildStep(p)
  \/ OtherSignal
  \/ Terminated

Spec == Init /\ [][Next]_vars

\* Exec schedules every ready task, a library call runs on until it blocks, a
\* handler returns, and every command ends.
Depths == 1 .. 1 + Cardinality(Signals)
Fairness ==
  /\ \A p \in Pid : WF_vars(ChildStep(p))
  /\ WF_vars(LibraryStep)
  /\ \A d \in Depths : SF_vars(Len(stack) = d /\ HandlerReturns)

FairSpec == Spec /\ Fairness

----------------------------------------------------------------------------
(* Properties.                                                             *)

\* A child works on the arguments of its own exec: exec does not return, and
\* so never overwrites the globals, before the child has copied them.
OwnArguments == \A p \in Pid : kid[p] \notin {"none", "boot"} => mine[p] = p

\* Each exit message is freed at most once, and once its child is gone it is
\* freed, waits on the existing door, or was put on a deleted one: whoever
\* outlives the other, parent or child, frees it.
MessageFreedOnce ==
  \A p \in Pid :
    /\ frees[p] <= 1
    /\ kid[p] = "gone" =>
         \/ msg[p] = "freed" /\ frees[p] = 1
         \/ msg[p] = "queued" /\ door /\ frees[p] = 0
         \/ msg[p] = "lost" /\ ~door /\ frees[p] = 0

\* No exit is forgotten: an entry still alive has its message ahead of it,
\* even for a child that ended before exec put its entry into the table.
NoForgottenExit ==
  \A p \in Pid : door /\ table[p] = "alive" => msg[p] \in {"held", "queued"}

\* No exit message is left unannounced: its bit is set, so that Wait() returns
\* at once, or a poll that cleared the bit has yet to look at the children, even
\* when handlers run inside that poll that poll, wait or exec themselves.
QueuedIsSignalled ==
  door /\ Queued # {} =>
    SIGCHLD \in bits \/ \E i \in DOMAIN stack : stack[i].k = "poll"

\* child.asm: "Send result to parent if he is still there".
OnlyToLivePort == \A p \in Pid : msg[p] # "lost"

\* A wait4 that sleeps although an exit message is queued: in a handler that
\* was dispatched by a poll between clearing the bits and check_children.
DeafWait == At("block") /\ Queued # {} /\ bits = {}

\* Once no more signals come, every wait4 returns, also when a handler took its
\* child or the child was killed, unless a handler's wait4 goes deaf.
WaitsAt(d) ==
  /\ d \in DOMAIN stack
  /\ stack[d].k \in {"scan", "block"} \/ (stack[d].k = "poll" /\ stack[d].then = "scan")
SignalsEnd == <>[](bits \cap Others = {})
WaitReturns == SignalsEnd => \A d \in Depths : WaitsAt(d) ~> ~WaitsAt(d) \/ DeafWait

----------------------------------------------------------------------------
(* The table as ChildTable sees it.  A child counts as running from the    *)
(* moment its process exists.                                              *)

\* exec waits for p to start; it does not poll, so that nothing runs on top of it.
Starting(p) == At("exec") /\ Top.pid = p

\* Processes whose start the parent was told of, or is waiting for.
ParentView(p) ==
  CASE p >= next                         -> "unborn"
    [] table[p] = "alive" \/ Starting(p) -> "running"
    [] table[p] = "exited"               -> "zombie"
    [] OTHER                             -> "gone"
RealCode(p) == IF kid[p] \in {"ended", "found", "noport", "gone"} THEN code[p] ELSE -1

Abstract == INSTANCE ChildTable WITH
  state <- [p \in Pid |-> ParentView(p)],
  status <- rc,
  real <- [p \in Pid |-> RealCode(p)]

\* The table and the child processes together behave as ChildTable promises.
ImplementsChildTable == Abstract!CSpec
=============================================================================
