-------------------------- MODULE MCSyncExchange --------------------------
(* SyncExchange for TLC: a database with two sessions, where an instant is   *)
(* shared and one is followed by another, and a transcript of its own.       *)
EXTENDS SyncExchange

CONSTANTS a, b, c   \* sessions

MCRecords == {<<a, 1>>, <<b, 1>>, <<b, 2>>, <<c, 1>>}
MCKnown == {<<b, 1>>, <<c, 1>>}
MCDatabase == {a, b}
=============================================================================
