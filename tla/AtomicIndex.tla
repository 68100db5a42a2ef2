---------------------------- MODULE AtomicIndex ----------------------------
(***************************************************************************)
(* What the index promises its user, whatever happens to the process that  *)
(* writes it: the set of sessions that a search after recovery answers     *)
(* from moves from one committed version to a later one in a single step,  *)
(* never backwards, and a session whose transcript its client deleted is   *)
(* kept at the version the index last read.                                *)
(***************************************************************************)
EXTENDS Naturals, Sequences

CONSTANTS
  Sessions,     \* the sessions of the user's coding agents
  MaxVersion    \* bound on the turns written to one session

VARIABLES
  doc,          \* doc[s][v]: first turn of the transcript of s at version v
  gone,         \* the sessions whose transcript the client has deleted
  at            \* at[s]: the version of s the index answers from

vars == <<doc, gone, at>>

Init ==
  /\ doc  = [s \in Sessions |-> << >>]
  /\ gone = {}
  /\ at   = [s \in Sessions |-> 0]

\* A client adds one turn to a transcript, keeping what it holds (from = the
\* first turn it held) or starting the file over (from = the new turn).
Say(s) ==
  /\ s \notin gone
  /\ Len(doc[s]) < MaxVersion
  /\ \E from \in 1..Len(doc[s]) + 1 : doc' = [doc EXCEPT ![s] = Append(@, from)]
  /\ UNCHANGED <<gone, at>>

Delete(s) ==
  /\ gone' = gone \union {s}
  /\ UNCHANGED <<doc, at>>

\* One commit: every session stays or moves on to a version it has had.
Commit ==
  /\ DOMAIN at' = Sessions
  /\ \A s \in Sessions : at'[s] \in at[s]..Len(doc[s])
  /\ UNCHANGED <<doc, gone>>

Next ==
  \/ \E s \in Sessions : Say(s) \/ Delete(s)
  \/ Commit

Spec == Init /\ [][Next]_vars
=============================================================================
