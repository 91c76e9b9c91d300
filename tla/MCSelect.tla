----------------------------- MODULE MCSelect ------------------------------
(* Small instances of Select for TLC.                                      *)
EXTENDS Select
============================================================================
