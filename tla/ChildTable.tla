----------------------------- MODULE ChildTable -----------------------------
(***************************************************************************)
(* What exec, kill and wait4 promise a program about its children: a child *)
(* is started once, its death is noticed at most once, the status kept for *)
(* it is the code its command really ended with or SIGKILL if it was       *)
(* killed, and it is reported by at most one wait, with that status.       *)
(***************************************************************************)
EXTENDS Integers

CONSTANTS
  Pid,     \* process numbers
  Codes    \* exit codes of commands

SIGKILL == 9
NoCode == -1

VARIABLES
  state,   \* the child as its parent sees it
  status,  \* the status wait4 reports or reported
  real     \* the code the command ended with, NoCode before

cvars == <<state, status, real>>

CInit ==
  /\ state = [p \in Pid |-> "unborn"]
  /\ status = [p \in Pid |-> 0]
  /\ real = [p \in Pid |-> NoCode]

\* exec succeeds, or fails and the number is never used.
Start(p) ==
  /\ state[p] = "unborn"
  /\ \E s \in {"running", "gone"} : state' = [state EXCEPT ![p] = s]
  /\ UNCHANGED <<status, real>>

\* The command of a started child ends.
End(p) ==
  /\ state[p] # "unborn" /\ real[p] = NoCode
  /\ \E c \in Codes : real' = [real EXCEPT ![p] = c]
  /\ UNCHANGED <<state, status>>

\* The parent notices that the children of S have died.
Notice(S) ==
  /\ \A p \in S : state[p] = "running" /\ real[p] # NoCode
  /\ state' = [p \in Pid |-> IF p \in S THEN "zombie" ELSE state[p]]
  /\ status' = [p \in Pid |-> IF p \in S THEN real[p] ELSE status[p]]
  /\ UNCHANGED real

Kill(p) ==
  /\ state[p] = "running"
  /\ state' = [state EXCEPT ![p] = "zombie"]
  /\ status' = [status EXCEPT ![p] = SIGKILL]
  /\ UNCHANGED real

\* wait4 reports p with status[p].
Reap(p) ==
  /\ state[p] = "zombie"
  /\ state' = [state EXCEPT ![p] = "gone"]
  /\ UNCHANGED <<status, real>>

CNext ==
  \/ \E p \in Pid : Start(p) \/ End(p) \/ Kill(p) \/ Reap(p)
  \/ \E S \in SUBSET Pid : Notice(S)

CSpec == CInit /\ [][CNext]_cvars
=============================================================================
