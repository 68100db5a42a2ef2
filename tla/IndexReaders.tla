---------------------------- MODULE IndexReaders ----------------------------
(***************************************************************************)
(* A reader without the lock beside the passes of IndexStore.  It reads    *)
(* the manifest, opens the record log by its path and walks it, while a    *)
(* pass may append to that log, swap the directory and erase the records   *)
(* it replaced.  Two kinds of read detect that differently: a search       *)
(* (inOneGeneration) compares the manifest file before and after, a walk   *)
(* (walkRecordsStable) forgives a new manifest of the same generation.     *)
(* A reader changes nothing, so one of them stands for all.                *)
(***************************************************************************)
EXTENDS IndexStore

VARIABLE rd   \* the reader's place and its locals

Kinds == {"search", "walk"}

Reader == [at : {"idle", "manifest", "before", "open", "records", "done"},
           kind : Kinds, before : Nat, man : Dir \union {NoDir},
           log : LogIds \union {NoLog}, off : Nat,
           got : SUBSET (Sessions \X (Sessions \X Nat)), ok : BOOLEAN]

AtRest == [at |-> "idle", kind |-> "search", before |-> 0, man |-> NoDir,
           log |-> NoLog, off |-> 0, got |-> {}, ok |-> FALSE]

\* The identity of the manifest file, 0 when there is none to be seen.
Stamp == IF HasManifest(live) THEN live.stamp ELSE 0

\* A search notes the manifest file before it reads it, a walk after.
Start(k) ==
  /\ rd.at = "idle"
  /\ rd' = [AtRest EXCEPT !.kind = k, !.at = "manifest",
                          !.before = IF k = "search" THEN Stamp ELSE 0]

\* A swap in flight is waited out (openIndexFile).
ReadManifest_NoWait ==
  /\ rd.at = "manifest"
  /\ rd' = [rd EXCEPT !.man = live,
                      !.at = IF rd.kind = "search" THEN "open" ELSE "before"]
ReadManifest ==
  /\ rd.at = "manifest" /\ HasManifest(live)
  /\ rd' = [rd EXCEPT !.man = live,
                      !.at = IF rd.kind = "search" THEN "open" ELSE "before"]

NoteBefore ==
  /\ rd.at = "before"
  /\ rd' = [rd EXCEPT !.before = Stamp, !.at = "open"]

\* A search refuses a log shorter than the manifest committed.
OpenLog ==
  /\ rd.at = "open" /\ HasManifest(live)
  /\ rd.kind = "search" => Len(LogOf(live)) >= rd.man.size
  /\ rd' = [rd EXCEPT !.log = live.log, !.at = "records"]

OpenRefused ==
  /\ rd.at = "open" /\ HasManifest(live)
  /\ rd.kind = "search" /\ Len(LogOf(live)) < rd.man.size
  /\ rd' = AtRest

\* The next record, passed over when the manifest lists it as dead or resolves
\* its key to no session.
ReadRecord ==
  LET o == rd.off + 1
      m == rd.man
  IN /\ rd.at = "records" /\ rd.off < Len(logs[rd.log])
     /\ LET r == logs[rd.log][o]
        IN rd' = [rd EXCEPT !.off = o,
             !.got = IF o \notin m.dead /\ r.kid \in DOMAIN m.strs
                     THEN @ \union {<<m.strs[r.kid], r.turn>>} ELSE @]

\* The end of the log: was this one generation of the index?  An index out of
\* its place is waited for by a walk, and seen as no manifest by a search.
EndRead_SameGeneration ==
  /\ rd.at = "records" /\ rd.off >= Len(logs[rd.log])
  /\ HasManifest(live)
  /\ rd' = [rd EXCEPT !.at = "done",
              !.ok = rd.before = Stamp \/ live.log = rd.man.log]
EndRead ==
  /\ rd.at = "records" /\ rd.off >= Len(logs[rd.log])
  /\ rd.kind = "walk" => HasManifest(live)
  /\ rd' = [rd EXCEPT !.at = "done",
              !.ok = \/ rd.before = Stamp
                     \/ rd.kind = "walk" /\ live.log = rd.man.log]

Forget == rd.at = "done" /\ rd' = AtRest

Read == \/ \E k \in Kinds : Start(k)
        \/ ReadManifest \/ NoteBefore \/ OpenLog \/ OpenRefused
        \/ ReadRecord \/ EndRead \/ Forget

\* A file a reader has open keeps its name out of use.
Pinned == {rd.log} \union {m.log : m \in {rd.man} \ {NoDir}}
StoreStep ==
  /\ Next
  /\ pc = "ready" /\ job'.pass = "rewrite" => tmp'.log \notin Pinned
  /\ UNCHANGED rd

ReadInit == Init /\ rd = AtRest
ReadNext == StoreStep \/ (Read /\ UNCHANGED vars)
ReadSpec == ReadInit /\ [][ReadNext]_<<vars, rd>>

-----------------------------------------------------------------------------

ReaderTypeOK ==
  /\ rd \in Reader
  /\ rd.at \in {"before", "open", "records", "done"} => HasManifest(rd.man)

\* What was read is what the manifest says: every turn of the version it read
\* of each session, under that session, and besides those only turns the
\* session took on since (an in-place append may be seen before it commits).
\* A session the manifest does not know shows nothing.
TrueToManifest ==
  \A s \in Sessions :
    LET got == {g[2] : g \in {x \in rd.got : x[1] = s}}
        v   == rd.man.rows[s]
    IN /\ Turns(s, v) \subseteq got
       /\ got \subseteq Turns(s, v) \union
            (IF v = 0 THEN {} ELSE {s} \X ((v + 1)..Len(doc[s])))

\* A search that found the index in place, and found the same manifest file
\* before and after, answered from one generation of the index.
SearchInOneGeneration ==
  rd.at = "done" /\ rd.kind = "search" /\ rd.ok /\ rd.before # 0 => TrueToManifest

\* A walk that was told nothing moved, over the log of the manifest it read,
\* saw what that manifest says.
OldManifestStaysTrue ==
  rd.at = "done" /\ rd.kind = "walk" /\ rd.ok /\ rd.log = rd.man.log => TrueToManifest
=============================================================================
