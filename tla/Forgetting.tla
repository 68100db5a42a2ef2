----------------------------- MODULE Forgetting -----------------------------
(***************************************************************************)
(* Forget and unforget (privacy.go): the tombstones in the config          *)
(* directory, their mirror inside the index directory, and the index they  *)
(* keep sessions out of.  Every operation runs under the index lock and is *)
(* broken here where a kill would leave the disk: between the tombstone    *)
(* file, the rebuild and its swap, and the mirror.  A kill in the middle   *)
(* of an append leaves the tombstone file ending in half a key.  One of    *)
(* the two copies may be lost as a whole: the config directory, or the     *)
(* index directory with its mirror.                                        *)
(***************************************************************************)
EXTENDS Naturals, FiniteSets

CONSTANTS
  Keys,       \* session keys
  Procs,      \* the processes that take the index lock
  NoProc,     \* not a process
  MaxKills,   \* bound on processes killed
  MaxWipes    \* bound on directories lost

ASSUME ForgetAssumption ==
  /\ NoProc \notin Procs
  /\ MaxKills \in Nat /\ MaxWipes \in Nat

VARIABLES
  config,    \* the whole keys of `tombstones` in the config directory
  torn,      \* that file ends in half a key
  mirror,    \* the tombstones inside the index directory
  built,     \* there is an index
  rows,      \* the sessions it holds
  files,     \* the transcripts its manifest records as read
  disk,      \* the transcripts in the stores
  lock,      \* the holder of the index lock
  op,        \* what each process is doing
  gone,      \* history: sessions whose forget completed and nobody asked back
  back,      \* history: sessions whose unforget completed, not forgotten since
  kills, wipes

forgetVars == <<config, torn, mirror, built, rows, files, disk, lock, op,
                gone, back, kills, wipes>>
Index == <<mirror, built, rows, files>>
Bounds == <<kills, wipes>>

AtRest == [at |-> "rest", keys |-> {}, set |-> {}]
Places == {"rest", "append", "rebuild", "mirror",
           "lift", "write", "clear"}

ForgetTypeOK ==
  /\ config \subseteq Keys /\ torn \in BOOLEAN
  /\ mirror \subseteq Keys /\ built \in BOOLEAN
  /\ rows \subseteq Keys /\ files \subseteq Keys /\ disk \subseteq Keys
  /\ lock \in Procs \union {NoProc}
  /\ op \in [Procs -> [at : Places, keys : SUBSET Keys, set : SUBSET Keys]]
  /\ \A p \in Procs : op[p].at # "rest" => lock = p
  /\ gone \subseteq Keys /\ back \subseteq Keys
  /\ kills \in 0..MaxKills /\ wipes \in 0..MaxWipes

ForgetInit ==
  /\ config = {} /\ torn = FALSE /\ mirror = {}
  /\ built = FALSE /\ rows = {} /\ files = {} /\ disk \in SUBSET Keys
  /\ lock = NoProc /\ op = [p \in Procs |-> AtRest]
  /\ gone = {} /\ back = {} /\ kills = 0 /\ wipes = 0

-----------------------------------------------------------------------------
Dead == config \union mirror

Take(p) ==
  /\ lock = NoProc /\ lock' = p
  /\ UNCHANGED <<config, torn, Index, disk, op, gone, back, Bounds>>

Holds(p) == lock = p

Move(p, at) == op' = [op EXCEPT ![p].at = at]
Finish(p) == op' = [op EXCEPT ![p] = AtRest] /\ lock' = NoProc

Leave(p) ==
  /\ Holds(p) /\ op[p].at = "rest"
  /\ lock' = NoProc
  /\ UNCHANGED <<config, torn, Index, disk, op, gone, back, Bounds>>

\* A swap brings the mirror along, made whole from the config copy.
CarriedMirror_Left == {}
CarriedMirror == config \union mirror

\* rebuildWithTombstones: every transcript and every session whose transcript
\* is gone, but for the tombstoned; the swap is the step.
Rebuild(set) ==
  /\ rows' = (disk \union rows) \ set
  /\ files' = disk
  /\ mirror' = CarriedMirror
  /\ built' = TRUE

-----------------------------------------------------------------------------
(* Forget. *)

\* The selector matches rows of the index or, before the first build, sessions
\* in the stores.
Forget(p, ks) ==
  /\ Holds(p) /\ op[p].at = "rest"
  /\ ks # {} /\ ks \subseteq (IF built THEN rows ELSE disk)
  /\ op' = [op EXCEPT ![p] = [at |-> "append", keys |-> ks, set |-> Dead \union ks]]
  /\ back' = back \ ks
  /\ UNCHANGED <<config, torn, Index, disk, lock, gone, Bounds>>

\* appendTombstones ends the half line a killed append left before it writes.
Appended_NoNewline(added, glued) == IF torn THEN added \ {glued} ELSE added
Appended(added, glued) == added

\* Without an index the tombstones are all there is to do.
AppendTombstones(p, glued) ==
  /\ op[p].at = "append" /\ Holds(p) /\ glued \in op[p].keys
  /\ config' = config \union Appended(op[p].keys \ Dead, glued)
  /\ torn' = (torn /\ op[p].keys \subseteq Dead)
  /\ IF built THEN /\ Move(p, "rebuild")
                   /\ UNCHANGED <<lock, gone>>
              ELSE /\ Finish(p)
                   /\ gone' = gone \union op[p].keys
  /\ UNCHANGED <<Index, disk, back, Bounds>>

RebuildWithout(p) ==
  /\ op[p].at = "rebuild" /\ Holds(p)
  /\ Rebuild(op[p].set)
  /\ Move(p, "mirror")
  /\ UNCHANGED <<config, torn, disk, lock, gone, back, Bounds>>

WriteMirror(p) ==
  /\ op[p].at = "mirror" /\ Holds(p)
  /\ mirror' = op[p].set
  /\ gone' = gone \union op[p].keys
  /\ Finish(p)
  /\ UNCHANGED <<config, torn, built, rows, files, disk, back, Bounds>>

-----------------------------------------------------------------------------
(* Unforget: the set is read under the lock, the rebuild runs first. *)

\* The set is read under the lock, not before it.
MayPlan_Anyone(p) == op[p].at = "rest"
MayPlan(p) == Holds(p) /\ op[p].at = "rest"

UnforgetOrder_TombstonesFirst ==
  [rest |-> "write", write |-> "clear", clear |-> "lift", lift |-> "rest"]
UnforgetOrder ==
  [rest |-> "lift", lift |-> "write", write |-> "clear", clear |-> "rest"]

\* A step of unforget leads to the next; the last one lets the lock go.
Onward(p) ==
  LET next == UnforgetOrder[op[p].at]
  IN  IF next = "rest"
      THEN Finish(p) /\ back' = back \union op[p].keys
      ELSE Move(p, next) /\ UNCHANGED <<lock, back>>

Unforget(p, ks) ==
  /\ MayPlan(p)
  /\ ks # {} /\ ks \subseteq Dead
  /\ op' = [op EXCEPT ![p] = [at |-> UnforgetOrder.rest, keys |-> ks, set |-> Dead \ ks]]
  /\ gone' = gone \ ks
  /\ UNCHANGED <<config, torn, Index, disk, lock, back, Bounds>>

RebuildWith(p) ==
  /\ op[p].at = "lift" /\ Holds(p)
  /\ Rebuild(op[p].set)
  /\ Onward(p)
  /\ UNCHANGED <<config, torn, disk, gone, Bounds>>

\* writeTombstones replaces the file as a whole.
WriteTombstones(p) ==
  /\ op[p].at = "write" /\ Holds(p)
  /\ config' = op[p].set /\ torn' = FALSE
  /\ Onward(p)
  /\ UNCHANGED <<Index, disk, gone, Bounds>>

ClearMirror(p) ==
  /\ op[p].at = "clear" /\ Holds(p)
  /\ mirror' = op[p].set
  /\ Onward(p)
  /\ UNCHANGED <<config, torn, built, rows, files, disk, gone, Bounds>>

-----------------------------------------------------------------------------
(* What else happens to the index, its stores and its directories. *)

\* A pass over what changed adds the sessions no tombstone covers; it swaps the
\* directory or appends in place.
Update(p) ==
  /\ Holds(p) /\ op[p].at = "rest" /\ built /\ disk # files
  /\ rows' = rows \union ((disk \ files) \ Dead)
  /\ files' = disk
  /\ mirror' \in {mirror, CarriedMirror}
  /\ UNCHANGED <<config, torn, built, disk, lock, op, gone, back, Bounds>>

Build(p) ==
  /\ Holds(p) /\ op[p].at = "rest"
  /\ Rebuild(Dead)
  /\ UNCHANGED <<config, torn, disk, lock, op, gone, back, Bounds>>

\* A peer's batch holds a session; the importer drops the tombstoned.
Import(p, k) ==
  /\ Holds(p) /\ op[p].at = "rest" /\ built
  /\ k \notin Dead
  /\ rows' = rows \union {k}
  /\ UNCHANGED <<config, torn, mirror, built, files, disk, lock, op, gone, back, Bounds>>

\* A harness writes a transcript, new or known, or it is removed.
WriteTranscript(k) ==
  /\ disk' = disk \union {k} /\ files' = files \ {k}
  /\ UNCHANGED <<config, torn, mirror, built, rows, lock, op, gone, back, Bounds>>

RemoveTranscript(k) ==
  /\ k \in disk /\ disk' = disk \ {k}
  /\ UNCHANGED <<config, torn, Index, lock, op, gone, back, Bounds>>

\* The holder is killed; in the append, with some keys written and perhaps half
\* of another.
Kill(p, written) ==
  /\ kills < MaxKills /\ wipes = 0 /\ Holds(p) /\ op[p].at # "rest"
  /\ IF op[p].at = "append"
     THEN /\ written \subseteq op[p].keys \ Dead
          /\ config' = config \union written
          /\ torn' \in (IF op[p].keys \subseteq Dead THEN {torn} ELSE BOOLEAN)
     ELSE written = {} /\ UNCHANGED <<config, torn>>
  /\ Finish(p)
  /\ kills' = kills + 1
  /\ UNCHANGED <<Index, disk, gone, back, wipes>>

\* The config directory is lost while an index stands beside it, or the index is.
LoseConfig ==
  /\ wipes < MaxWipes /\ kills = 0 /\ lock = NoProc /\ built
  /\ config' = {} /\ torn' = FALSE
  /\ wipes' = wipes + 1
  /\ UNCHANGED <<Index, disk, lock, op, gone, back, kills>>

LoseIndex ==
  /\ wipes < MaxWipes /\ kills = 0 /\ lock = NoProc
  /\ built' = FALSE /\ rows' = {} /\ files' = {} /\ mirror' = {}
  /\ wipes' = wipes + 1
  /\ UNCHANGED <<config, torn, disk, lock, op, gone, back, kills>>

ForgetNext ==
  \/ \E p \in Procs :
       \/ Take(p) \/ Leave(p) \/ Update(p) \/ Build(p)
       \/ RebuildWithout(p) \/ WriteMirror(p)
       \/ RebuildWith(p) \/ WriteTombstones(p) \/ ClearMirror(p)
       \/ \E ks \in SUBSET Keys : Forget(p, ks) \/ Unforget(p, ks) \/ Kill(p, ks)
       \/ \E k \in Keys : AppendTombstones(p, k) \/ Import(p, k)
  \/ \E k \in Keys : WriteTranscript(k) \/ RemoveTranscript(k)
  \/ LoseConfig \/ LoseIndex

ForgetSpec == ForgetInit /\ [][ForgetNext]_forgetVars

-----------------------------------------------------------------------------
\* A session whose forget completed stays out of the index, through every pass,
\* rebuild and import, another forget killed in its append, and the loss of
\* either copy of the tombstones - until somebody asks for it back.
ForgottenStaysOut == gone \intersect rows = {}

\* A session the index is missing although its transcript is on disk and was
\* read is still listed by forget --list: an unforget killed on its way can be
\* run again, and nothing is lost without a trace.
MissingIsListed == \A k \in disk \intersect files : k \in rows \/ k \in Dead

\* An unforget that completed is not undone by another forget or unforget that
\* ran beside it, nor by a rebuild.
LiftedStaysLifted == back \intersect Dead = {}
=============================================================================
