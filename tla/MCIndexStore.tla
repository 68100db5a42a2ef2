---------------------------- MODULE MCIndexStore ----------------------------
(* IndexStore for TLC: the names of the log files are interchangeable.      *)
EXTENDS IndexStore, TLC

LogSymmetry == Permutations(LogIds)
=============================================================================
