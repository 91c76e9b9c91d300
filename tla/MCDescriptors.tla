--------------------------- MODULE MCDescriptors ---------------------------
(* Small instances of Descriptors for TLC.                                 *)
EXTENDS Descriptors, TLC

CONSTANTS f1, f2, i1, i2
MCSymmetry == Permutations(Names) \cup Permutations(Infos)
============================================================================
