--------------------------- MODULE MCIndexReaders ---------------------------
(* IndexReaders for TLC: the names of the log files are interchangeable.    *)
EXTENDS IndexReaders, TLC

LogSymmetry == Permutations(LogIds)
=============================================================================
