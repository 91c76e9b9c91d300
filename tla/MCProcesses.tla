---------------------------- MODULE MCProcesses ----------------------------
(* Small instances of Processes for TLC.                                   *)
EXTENDS Processes

\* Exit codes: the command's result, 1, times 256.
MCCodes == {256}

\* Handlers poll, start children and wait for them.
MCHandlerCalls == {"poll", "exec", "wait"}
=============================================================================
