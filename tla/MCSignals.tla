----------------------------- MODULE MCSignals -----------------------------
(* Small instances of Signals for TLC.                                     *)
EXTENDS Signals, TLC

MCSigs == {SIGINT, SIGQUIT, SIGIOT, SIGFPE, SIGKILL, SIGALRM, SIGCHLD}
MCCatchable == {SIGINT, SIGCHLD}
MCJumpCatchable == {SIGINT, SIGALRM}
MCMasks == {{}, {SIGINT}}
MCSymmetry == Permutations(Kids)
============================================================================
