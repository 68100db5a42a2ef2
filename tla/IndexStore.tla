----------------------------- MODULE IndexStore -----------------------------
(***************************************************************************)
(* The index directory of internal/index and the passes that replace it.   *)
(* One process at a time holds the lock (flock on dir.lock); it finishes   *)
(* what a killed holder left, then rebuilds the index, replaces sessions   *)
(* in it or appends to it.  Between any two file operations the process    *)
(* may be killed.  Clients keep writing and deleting transcripts, and the  *)
(* hooks touch the directory without the lock.                             *)
(*                                                                         *)
(* A session is its turns, numbered in the order its client said them;     *)
(* version v of the transcript of s holds the turns doc[s][v]..v.  A       *)
(* record log is the sequence of its records, an offset is an index in it, *)
(* and its size is its length.                                             *)
(***************************************************************************)
EXTENDS Integers, Sequences, FiniteSets

CONSTANTS
  Sessions,           \* the sessions of the user's coding agents
  LogIds,             \* names for records.bin files (inodes); hard links share one
  NoDir, NoLog,       \* a path that does not exist
  MaxVersion,         \* bound: turns said in one session
  MaxWrites,          \* bound: passes begun
  MaxCrashes,         \* bound: processes killed under the lock
  MaxParked,          \* highest N of a dir.old.N
  DeadShareCompact,   \* an append needs at most 1/DeadShareCompact dead records
  Refusals,           \* directory operations the system may refuse (Windows)
  HookActs,           \* what the hooks do to the directory without the lock
  EmptyIndex,         \* whether an index is built before there is a record
  ScrubFails          \* whether a scrub can stop at an error

ASSUME ConstantsAssumption ==
  /\ IsFiniteSet(Sessions) /\ Sessions # {}
  /\ NoLog \notin LogIds
  /\ {MaxVersion, MaxWrites, MaxCrashes, MaxParked} \subseteq Nat
  /\ DeadShareCompact \in Nat \ {0}
  /\ Refusals \subseteq {"remove", "install", "restore", "recover"}
  /\ HookActs \subseteq {"mkdir", "defer"}
  /\ EmptyIndex \in BOOLEAN /\ ScrubFails \in BOOLEAN

VARIABLES
  doc, gone,          \* the clients' transcripts (as in AtomicIndex)
  live, tmp, parked,  \* dir, dir.tmp, and dir.old (0) or dir.old.N at N
  logs,               \* the content of every record log
  pc, job,            \* the lock holder's place in the code, and its locals
  writes, crashes     \* how many passes began and how many holders died

vars == <<doc, gone, live, tmp, parked, logs, pc, job, writes, crashes>>
disk == <<live, tmp, parked, logs>>
env  == <<doc, gone>>
count == <<writes, crashes>>

-----------------------------------------------------------------------------
(* Data.                                                                    *)

\* A record: the key id its session is filed under and the turn it holds,
\* <<who said it, its number>>.  A scrubbed record keeps its length, names no
\* session and holds no text.
Record  == [kid : Nat, turn : (Sessions \X Nat) \union {<< >>}]
Erased  == [kid |-> 0, turn |-> << >>]

\* An index directory: its record log; the manifest's log size, key table
\* (strs[kid] is the session filed under kid), dead records and, for each
\* session, the version the index read, and the manifest file's identity; the
\* records the postings name; the marks append.pending (the log's size before,
\* 0 when there is none) and scrub.pending; and whether a hook's text waits
\* under deferred/.  The log's name is the manifest's Generation: a pass that
\* writes a new log stamps a new one, a pass that appends keeps it.
Dir == [log : LogIds \union {NoLog}, size : Nat, strs : Seq(Sessions),
        dead : SUBSET Nat, rows : [Sessions -> Nat], stamp : Nat, posted : SUBSET Nat,
        pend : Nat, scrub : BOOLEAN, deferred : BOOLEAN]

ASSUME NoDirAssumption == NoDir \notin Dir

\* A directory with nothing of an index in it.
Hollow == [log |-> NoLog, size |-> 0, strs |-> << >>, dead |-> {},
           rows |-> [s \in Sessions |-> 0], stamp |-> 0, posted |-> {},
           pend |-> 0, scrub |-> FALSE, deferred |-> FALSE]

Spots == 0..MaxParked

\* What a pass holds in memory: the manifest it will write (rows, strs), the
\* records it kills, the turns it has yet to write, the sessions it gave a key
\* id to, and the spot it parks in.
Job == [pass : {"none", "recover", "rewrite", "replace", "append"},
        rows : [Sessions -> Nat], strs : Seq(Sessions), dead : SUBSET Nat,
        todo : SUBSET (Sessions \X Nat), fresh : SUBSET Sessions, spot : Spots]
NoJob == [pass |-> "none", rows |-> [s \in Sessions |-> 0], strs |-> << >>,
          dead |-> {}, todo |-> {}, fresh |-> {}, spot |-> 0]

Parked == {n \in Spots : parked[n] # NoDir}
Newest == CHOOSE n \in Parked : \A k \in Parked : k <= n

\* What a lock taker would restore and readers would then see.
Recoverable == IF live # NoDir THEN live
               ELSE IF Parked # {} THEN parked[Newest] ELSE Hollow

HasManifest(d) == d # NoDir /\ d.log # NoLog
LogOf(d) == IF d.log = NoLog THEN << >> ELSE logs[d.log]

\* recordsIntact: a manifest that committed no record vouches for any log.
Intact_Longer(d) == HasManifest(d) /\ Len(LogOf(d)) >= d.size
Intact(d) == HasManifest(d) /\ d.size \in {0, Len(LogOf(d))}

\* The log files some directory links.
Linked == {d.log : d \in ({live} \union {parked[n] : n \in Spots}) \ {NoDir}}

\* The turns of s at version v, and as its transcript is now.
Turns(s, v) == IF v = 0 THEN {} ELSE {s} \X (doc[s][v]..v)
Text(s) == Turns(s, Len(doc[s]))

\* The offsets of a log up to its size "to" that the manifest of d files under
\* s, and the turns of s held there.
Offsets(d, log, to, s) ==
  {o \in 1..to : /\ o \notin d.dead
                 /\ log[o].kid \in DOMAIN d.strs
                 /\ d.strs[log[o].kid] = s}
Carried(d, log, to, s) == {log[o].turn : o \in Offsets(d, log, to, s)} \ {<< >>}
Held(d, s) == Carried(d, LogOf(d), d.size, s)

\* Sessions whose transcript has changed since d read it.
Stale(d) == {s \in Sessions \ gone : d.rows[s] < Len(doc[s])}

\* The transcript only grew since d read it, or d has never read it.
OnlyGrew(d, s) ==
  d.rows[s] \in {0} \union {v \in DOMAIN doc[s] : doc[s][v] = doc[s][Len(doc[s])]}

-----------------------------------------------------------------------------
(* The clients and the hooks.                                               *)

\* A client adds a turn: after what the transcript holds, or in a file it
\* starts over.
Say(s) ==
  /\ s \notin gone /\ Len(doc[s]) < MaxVersion
  /\ \E from \in {Len(doc[s]) + 1} \union {doc[s][v] : v \in {Len(doc[s])} \ {0}} :
       doc' = [doc EXCEPT ![s] = Append(@, from)]
  /\ UNCHANGED <<gone, disk, pc, job, count>>

\* A client cleans a transcript up.
Delete(s) ==
  /\ s \notin gone /\ doc[s] # << >>
  /\ gone' = gone \union {s}
  /\ UNCHANGED <<doc, disk, pc, job, count>>

\* A hook that finds no directory makes it to leave a file in it: a warmup request
\* or its own text (the MkdirAll of requestWarmup and of deferText).
MakeHollow ==
  /\ live = NoDir
  /\ live' = Hollow
  /\ UNCHANGED <<env, tmp, parked, logs, pc, job, count>>

\* A hook leaves text for a session in whatever directory is there.
Defer ==
  /\ live # NoDir /\ ~live.deferred
  /\ live' = [live EXCEPT !.deferred = TRUE]
  /\ UNCHANGED <<env, tmp, parked, logs, pc, job, count>>

\* A hook of that session takes the text.
Take ==
  /\ live # NoDir /\ live.deferred
  /\ live' = [live EXCEPT !.deferred = FALSE]
  /\ UNCHANGED <<env, tmp, parked, logs, pc, job, count>>

-----------------------------------------------------------------------------
(* Taking the lock: recoverIndexDir.                                        *)

\* The parked copies once clearParked ran: on Windows some may be refused.
Cleared(stay) == [n \in Spots |-> IF n \in stay THEN parked[n] ELSE NoDir]
MayStay == IF "remove" \in Refusals THEN SUBSET Parked ELSE {{}}

Lock ==
  /\ pc = "idle"
  /\ pc' = "recover" /\ job' = [NoJob EXCEPT !.pass = "recover"]
  /\ UNCHANGED <<env, disk, count>>

RecoverPresent_SkipsTail ==
  /\ pc = "recover" /\ live # NoDir
  /\ \E stay \in MayStay : parked' = Cleared(stay)
  /\ pc' = "rescrub"
  /\ UNCHANGED <<env, live, tmp, logs, job, count>>
RecoverPresent ==
  /\ pc = "recover" /\ live # NoDir
  /\ \E stay \in MayStay : parked' = Cleared(stay)
  /\ pc' = "untail"
  /\ UNCHANGED <<env, live, tmp, logs, job, count>>

RecoverMissing_GivesUp ==
  /\ pc = "recover" /\ live = NoDir
  /\ pc' = "untail"
  /\ UNCHANGED <<env, disk, job, count>>
RecoverMissing_ClearsFirst ==
  /\ pc = "recover" /\ live = NoDir
  /\ parked' = Cleared({})
  /\ pc' = "untail"
  /\ UNCHANGED <<env, live, tmp, logs, job, count>>
RecoverMissing_Oldest ==
  /\ pc = "recover" /\ live = NoDir
  /\ LET n == CHOOSE k \in Spots : Parked # {} => k \in Parked /\ \A j \in Parked : k <= j
     IN live' = parked[n] /\ parked' = [parked EXCEPT ![n] = NoDir]
  /\ pc' = "untail"
  /\ UNCHANGED <<env, tmp, logs, job, count>>
RecoverMissing ==
  /\ pc = "recover" /\ live = NoDir
  /\ \/ /\ Parked # {}
        /\ live' = parked[Newest]
        /\ parked' = [parked EXCEPT ![Newest] = NoDir]
     \/ /\ Parked = {} \/ "recover" \in Refusals
        /\ UNCHANGED <<live, parked>>
  /\ pc' = "untail"
  /\ UNCHANGED <<env, tmp, logs, job, count>>

\* undoAppend, for a killed pass and for one that failed: cut the log back,
\* and only then remove the mark.
AppendMarked == live # NoDir /\ live.pend > 0

CutTail ==
  /\ pc \in {"untail", "undo"} /\ AppendMarked
  /\ logs' = [logs EXCEPT ![live.log] =
                IF Len(@) > live.pend THEN SubSeq(@, 1, live.pend) ELSE @]
  /\ pc' = IF pc = "undo" THEN "undone" ELSE "unmark"
  /\ UNCHANGED <<env, live, tmp, parked, job, count>>

Unmark ==
  /\ pc \in {"unmark", "undone"}
  /\ live' = IF live = NoDir THEN NoDir ELSE [live EXCEPT !.pend = 0]
  /\ pc' = IF pc = "undone" THEN "drop" ELSE "rescrub"
  /\ UNCHANGED <<env, tmp, parked, logs, job, count>>

NothingToCut ==
  /\ pc \in {"untail", "undo"} /\ ~AppendMarked
  /\ pc' = IF pc = "undo" THEN "drop" ELSE "rescrub"
  /\ UNCHANGED <<env, disk, job, count>>

\* recoverScrub: every dead record the manifest lists.
Rescrub ==
  /\ pc = "rescrub"
  /\ IF live # NoDir /\ live.scrub
     THEN pc' = "words" /\ job' = [job EXCEPT !.dead = live.dead]
     ELSE pc' = "ready" /\ UNCHANGED job
  /\ UNCHANGED <<env, disk, count>>

\* What a killed pass left in dir.tmp goes first (sweepStaleTmp), unless the
\* lock was taken by a caller that has no use for it (staleLocked, a forget).
Sweep == tmp' \in {tmp, NoDir}

\* The index is fresh, or the caller wanted no more than the lock.
Leave ==
  /\ pc = "ready" /\ Sweep
  /\ pc' = "idle" /\ job' = NoJob
  /\ UNCHANGED <<env, live, parked, logs, count>>

-----------------------------------------------------------------------------
(* The passes.                                                              *)

CanBegin == pc = "ready" /\ writes < MaxWrites

\* The log is written anew, as the file l, and nothing is linked.  What a
\* killed pass left in dir.tmp is removed first.
StartLog(l, todo, rows) ==
  /\ EmptyIndex \/ todo # {}
  /\ tmp' = [Hollow EXCEPT !.log = l]
  /\ logs' = [logs EXCEPT ![l] = << >>]
  /\ job' = [NoJob EXCEPT !.pass = "rewrite", !.rows = rows, !.todo = todo]
  /\ pc' = "write" /\ writes' = writes + 1
  /\ UNCHANGED <<env, live, parked, crashes>>

\* A rebuild reads every transcript there is and carries the sessions whose
\* transcript is gone out of the live index, reading its log to the end.  (A first
\* build of many sessions installs a partial index before this one, which
\* publishNewestFirst builds apart, of the newest sessions; here it is one swap.)
Rebuild(l) ==
  LET old == IF HasManifest(live) THEN live ELSE Hollow
      log == LogOf(old)
  IN /\ CanBegin
     /\ StartLog(l,
          UNION {IF s \in gone THEN Carried(old, log, Len(log), s) ELSE Text(s)
                   : s \in Sessions},
          [s \in Sessions |-> IF s \in gone THEN old.rows[s] ELSE Len(doc[s])])

\* A replacing pass over the changed sessions S: the new rows.
Reread(S) == [s \in Sessions |-> IF s \in S THEN Len(doc[s]) ELSE live.rows[s]]

\* The log is written again without its dead records.
ReplaceWhole(l, S) ==
  /\ CanBegin /\ Intact(live)
  /\ S # {} /\ S \subseteq Stale(live)
  /\ StartLog(l, UNION {IF s \in S THEN Text(s) ELSE Held(live, s) : s \in Sessions},
              Reread(S))

\* The log is linked into dir.tmp and the live index marked, before the first
\* record is appended.
ReplaceAppending(S) ==
  /\ CanBegin /\ Intact(live) /\ live.size > 0
  /\ S # {} /\ S \subseteq Stale(live)
  /\ Cardinality(live.dead) * DeadShareCompact <= live.size
  /\ tmp'  = [Hollow EXCEPT !.log = live.log]
  /\ live' = [live EXCEPT !.pend = live.size]
  /\ job'  = [NoJob EXCEPT
       !.pass = "replace", !.rows = Reread(S), !.strs = live.strs,
       !.dead = UNION {Offsets(live, LogOf(live), live.size, s) : s \in S},
       !.todo = UNION {Text(s) : s \in S}]
  /\ pc' = "write" /\ writes' = writes + 1
  /\ UNCHANGED <<env, parked, logs, crashes>>

\* Transcripts that only grew are appended to the live index where it is.
AppendInPlace(S) ==
  /\ CanBegin /\ Intact(live) /\ Sweep
  /\ S # {} /\ S \subseteq Stale(live)
  /\ \A s \in S : OnlyGrew(live, s)
  /\ job' = [NoJob EXCEPT
       !.pass = "append", !.rows = Reread(S), !.strs = live.strs,
       !.todo = UNION {{t \in Text(s) : t[2] > live.rows[s]} : s \in S}]
  /\ pc' = "write" /\ writes' = writes + 1
  /\ UNCHANGED <<env, live, parked, logs, crashes>>

\* A holder that appended no record rewrites the manifest: a quiet pass, an
\* export watermark, a forget.  It keeps the size the manifest committed, and
\* takes the file's only when there is none.
WriteMetadata ==
  /\ CanBegin /\ HasManifest(live) /\ Sweep
  /\ live' = [live EXCEPT !.stamp = writes + 1,
                          !.size = IF @ > 0 THEN @ ELSE Len(LogOf(live))]
  /\ writes' = writes + 1
  /\ pc' = "idle" /\ job' = NoJob
  /\ UNCHANGED <<env, parked, logs, crashes>>

\* The log the pass writes, through either of its links.
Target == IF job.pass = "append" THEN live.log ELSE tmp.log

\* The ids the table has for s, and whether s needs one of its own: an
\* appending replacement takes a new id for each session it writes, the other
\* passes file a session under the first id it ever had.
Ids(s) == {k \in DOMAIN job.strs : job.strs[k] = s}
NeedsId_Interned(s) == Ids(s) = {}
NeedsId(s) == IF job.pass = "replace" THEN s \notin job.fresh ELSE Ids(s) = {}
IdFor(s) == IF NeedsId(s) THEN Len(job.strs) + 1
            ELSE IF job.pass = "replace"
                 THEN CHOOSE k \in Ids(s) : \A j \in Ids(s) : j <= k
                 ELSE CHOOSE k \in Ids(s) : \A j \in Ids(s) : k <= j

\* The turns of a session are written in order.
WriteRecord ==
  /\ pc = "write"
  /\ \E t \in job.todo :
       LET s == t[1]
       IN /\ \A u \in job.todo : u[1] = s => t[2] <= u[2]
          /\ logs' = [logs EXCEPT ![Target] = Append(@, [kid |-> IdFor(s), turn |-> t])]
          /\ job' = [job EXCEPT
               !.todo = @ \ {t}, !.fresh = @ \union {s},
               !.strs = IF NeedsId(s) THEN Append(@, s) ELSE @]
  /\ UNCHANGED <<env, live, tmp, parked, pc, count>>

\* The staged manifest, and the scrub mark when the pass killed a record.
DeadAfter_OldOnly == IF job.pass = "replace" THEN live.dead ELSE {}
DeadAfter == (IF job.pass = "replace" THEN live.dead ELSE {}) \union job.dead
MarkScrub_Never == FALSE
MarkScrub == job.dead # {}

Seal ==
  /\ pc = "write" /\ job.pass # "append" /\ job.todo = {}
  /\ LET end == Len(logs[tmp.log])
         old == IF job.pass = "replace" THEN live ELSE Hollow
     IN tmp' = [Hollow EXCEPT
          !.log = tmp.log, !.size = end, !.strs = job.strs, !.dead = DeadAfter,
          !.rows = job.rows, !.stamp = writes,
          !.posted = old.posted \union (old.size + 1)..end, !.scrub = MarkScrub]
  /\ pc' = "clear"
  /\ UNCHANGED <<env, live, parked, logs, job, count>>

\* The manifest of the live index is rewritten to take in the new tail.
CommitAppend ==
  /\ pc = "write" /\ job.pass = "append" /\ job.todo = {}
  /\ LET end == Len(logs[live.log])
     IN live' = [live EXCEPT
          !.size = end, !.strs = job.strs, !.rows = job.rows,
          !.stamp = writes, !.posted = @ \union (live.size + 1)..end]
  /\ pc' = "idle" /\ job' = NoJob
  /\ UNCHANGED <<env, tmp, parked, logs, count>>

-----------------------------------------------------------------------------
(* swapIndexDir: dir is parked, dir.tmp takes its place.                    *)

\* Earlier copies are cleared; past those that stay is the spot to park in.
ClearSpot_NoLimit ==
  /\ pc = "clear"
  /\ \E stay \in MayStay :
       /\ parked' = Cleared(stay)
       /\ job' = [job EXCEPT !.spot = IF stay = {} THEN 0
                     ELSE 1 + CHOOSE n \in stay : \A k \in stay : k <= n]
  /\ pc' = "park"
  /\ UNCHANGED <<env, live, tmp, logs, count>>
ClearSpot ==
  /\ pc = "clear"
  /\ \E stay \in MayStay :
       LET spot == IF stay = {} THEN 0 ELSE 1 + CHOOSE n \in stay : \A k \in stay : k <= n
       IN /\ spot \in Spots
          /\ parked' = Cleared(stay)
          /\ job' = [job EXCEPT !.spot = spot]
  /\ pc' = "park"
  /\ UNCHANGED <<env, live, tmp, logs, count>>

Park ==
  /\ pc = "park"
  /\ parked' = IF live = NoDir THEN parked ELSE [parked EXCEPT ![job.spot] = live]
  /\ live' = NoDir
  /\ pc' = "carry"
  /\ UNCHANGED <<env, tmp, logs, job, count>>

\* carryIndexState: the hooks' waiting text moves into the new index.
CarryState ==
  /\ pc = "carry"
  /\ IF parked[job.spot] # NoDir /\ parked[job.spot].deferred
     THEN /\ parked' = [parked EXCEPT ![job.spot].deferred = FALSE]
          /\ tmp' = [tmp EXCEPT !.deferred = TRUE]
     ELSE UNCHANGED <<parked, tmp>>
  /\ pc' = "install"
  /\ UNCHANGED <<env, live, logs, job, count>>

Install ==
  /\ pc = "install" /\ live = NoDir
  /\ live' = tmp /\ tmp' = NoDir
  /\ pc' = "tidy"
  /\ UNCHANGED <<env, parked, logs, job, count>>

\* The rename is refused: the text moves back, then the old index does.
InstallRefused_LeavesText ==
  /\ pc = "install" /\ (live # NoDir \/ "install" \in Refusals)
  /\ pc' = "restore"
  /\ UNCHANGED <<env, disk, job, count>>
InstallRefused ==
  /\ pc = "install" /\ (live # NoDir \/ "install" \in Refusals)
  /\ IF tmp.deferred
     THEN /\ parked' = [parked EXCEPT ![job.spot].deferred = TRUE]
          /\ tmp' = [tmp EXCEPT !.deferred = FALSE]
     ELSE UNCHANGED <<parked, tmp>>
  /\ pc' = "restore"
  /\ UNCHANGED <<env, live, logs, job, count>>

\* Where a pass that did not swap goes: one that appended cuts its tail back.
Abandon == /\ pc' = IF job.pass = "replace" THEN "undo" ELSE "idle"
           /\ job' = NoJob

Restore_ClearsParked ==
  /\ pc = "restore"
  /\ \/ live' = parked[job.spot]
     \/ "restore" \in Refusals /\ UNCHANGED live
  /\ parked' = Cleared({})
  /\ Abandon
  /\ UNCHANGED <<env, tmp, logs, count>>
Restore ==
  /\ pc = "restore"
  /\ LET refused == live # NoDir \/ parked[job.spot] = NoDir
     IN \/ /\ ~refused
           /\ live' = parked[job.spot]
           /\ parked' = [parked EXCEPT ![job.spot] = NoDir]
        \/ /\ refused \/ "restore" \in Refusals
           /\ UNCHANGED <<live, parked>>
  /\ Abandon
  /\ UNCHANGED <<env, tmp, logs, count>>

Tidy ==
  /\ pc = "tidy"
  /\ \E stay \in MayStay : parked' = Cleared(stay)
  /\ IF job.dead # {} THEN pc' = "words" /\ UNCHANGED job
                       ELSE pc' = "idle" /\ job' = NoJob
  /\ UNCHANGED <<env, live, tmp, logs, count>>

\* An error on the way: a full disk, a refused park, no spot to park in.
Fail ==
  /\ pc \in {"write", "clear", "park"}
  /\ Abandon
  /\ UNCHANGED <<env, disk, count>>

\* The staged directory of a pass that appended links the live log.
DropStaging ==
  /\ pc = "drop"
  /\ tmp' = NoDir /\ pc' = "idle" /\ job' = NoJob
  /\ UNCHANGED <<env, live, parked, logs, count>>

-----------------------------------------------------------------------------
(* scrubSwapped, after a swap and from recoverScrub.                        *)

ScrubDone == /\ pc' = IF job.pass = "recover" THEN "ready" ELSE "idle"
             /\ job' = IF job.pass = "recover" THEN [job EXCEPT !.dead = {}] ELSE NoJob

\* The words only the dead records held leave the postings.  They are read
\* from the records, so an erased one has none left to name.
BlankWords ==
  /\ pc = "words"
  /\ live' = [live EXCEPT !.posted = @ \ {o \in job.dead : logs[live.log][o] # Erased}]
  /\ pc' = "zero"
  /\ UNCHANGED <<env, tmp, parked, logs, job, count>>

ZeroRecord ==
  /\ pc = "zero" /\ job.dead # {}
  /\ LET o == CHOOSE n \in job.dead : \A k \in job.dead : n <= k
     IN /\ logs' = [logs EXCEPT ![live.log][o] = Erased]
        /\ job' = [job EXCEPT !.dead = @ \ {o}]
  /\ UNCHANGED <<env, live, tmp, parked, pc, count>>

Unscrub ==
  /\ pc = "zero" /\ job.dead = {}
  /\ live' = [live EXCEPT !.scrub = FALSE]
  /\ ScrubDone
  /\ UNCHANGED <<env, tmp, parked, logs, count>>

\* Any error ends the scrub where it is and leaves the mark.
ScrubStops ==
  /\ ScrubFails /\ pc \in {"words", "zero"}
  /\ ScrubDone
  /\ UNCHANGED <<env, disk, count>>

-----------------------------------------------------------------------------

\* The process is killed: the lock goes, the files stay.
Crash ==
  /\ pc # "idle" /\ crashes < MaxCrashes
  /\ pc' = "idle" /\ job' = NoJob /\ crashes' = crashes + 1
  /\ UNCHANGED <<env, disk, writes>>

Init ==
  /\ doc = [s \in Sessions |-> << >>] /\ gone = {}
  /\ live = NoDir /\ tmp = NoDir /\ parked = [n \in Spots |-> NoDir]
  /\ logs = [l \in LogIds |-> << >>]
  /\ pc = "idle" /\ job = NoJob
  /\ writes = 0 /\ crashes = 0

Client == \E s \in Sessions : Say(s) \/ Delete(s)
Hook   == \E act \in HookActs : CASE act = "mkdir" -> MakeHollow
                               [] act = "defer" -> Defer \/ Take

Recover == \/ RecoverPresent \/ RecoverMissing \/ CutTail \/ Unmark
           \/ NothingToCut \/ Rescrub \/ DropStaging
Begin   == \/ \E l \in LogIds \ Linked :
                \/ Rebuild(l)
                \/ \E S \in SUBSET Sessions : ReplaceWhole(l, S)
           \/ \E S \in SUBSET Sessions : ReplaceAppending(S) \/ AppendInPlace(S)
           \/ WriteMetadata
Commit  == \/ WriteRecord \/ Seal \/ CommitAppend \/ ClearSpot \/ Park \/ CarryState
           \/ Install \/ InstallRefused \/ Restore \/ Tidy \/ Fail
Scrub   == BlankWords \/ ZeroRecord \/ Unscrub \/ ScrubStops

\* A step of the process that holds the lock.
Holder == Recover \/ Leave \/ Begin \/ Commit \/ Scrub

Next == Client \/ Hook \/ Lock \/ Holder \/ Crash

Spec == Init /\ [][Next]_vars

\* Somebody always comes for the lock (a server's keeper every 15 seconds, the
\* hooks' warmup), and a process that runs does not stop between two steps.
FairSpec == Spec /\ WF_vars(Lock) /\ WF_vars(Holder)

-----------------------------------------------------------------------------
(* Correctness.                                                             *)

TypeOK ==
  /\ doc \in [Sessions -> Seq(Nat \ {0})] /\ gone \subseteq Sessions
  /\ live \in Dir \union {NoDir} /\ tmp \in Dir \union {NoDir}
  /\ parked \in [Spots -> Dir \union {NoDir}]
  /\ logs \in [LogIds -> Seq(Record)]
  /\ pc \in {"idle", "recover", "untail", "unmark", "rescrub", "ready", "write",
             "clear", "park", "carry", "install", "restore", "tidy",
             "undo", "undone", "drop", "words", "zero"}
  /\ job \in Job
  /\ writes \in 0..MaxWrites /\ crashes \in 0..MaxCrashes

\* What a lock taker recovers only moves forward, from one commit to a later
\* one and in one step: no kill, refusal or interrupted swap takes a session
\* back to an earlier version or loses one whose transcript is gone (#181).
Promise == INSTANCE AtomicIndex WITH at <- Recoverable.rows
PromiseKept == Promise!Spec

\* The manifest a lock taker recovers tells the truth of its log: under each
\* session are exactly the turns of the version its row says was read, no turn
\* of a version it replaced and none of a pass that never committed.  (The
\* rebuild after a killed in-place append carries the appended turns of a
\* session whose transcript has gone in between: a later version, still whole.)
LogMatchesRows ==
  \A s \in Sessions : \E v \in Recoverable.rows[s]..Len(doc[s]) :
    /\ Held(Recoverable, s) = Turns(s, v)
    /\ s \notin gone => v = Recoverable.rows[s]

\* No turn of a session is found twice.
NoTurnTwice ==
  \A s \in Sessions :
    Cardinality(Offsets(Recoverable, LogOf(Recoverable), Recoverable.size, s))
      = Cardinality(Held(Recoverable, s))

\* While a pass appends to the log of the live index, and after it was killed,
\* a reader of the live manifest resolves the new tail to no session, and the
\* mark names the committed size, so that cutting the log back to it takes
\* every record of that pass and no other.
TailUnread ==
  \A d \in ({live} \union {parked[n] : n \in Parked}) \ {NoDir} :
    d.pend > 0 =>
      /\ d.pend = d.size /\ d.size <= Len(LogOf(d))
      /\ \A o \in (d.size + 1)..Len(LogOf(d)) :
           LogOf(d)[o].kid \notin DOMAIN d.strs

\* Text a pass replaced is on disk, in the log or in the postings, only while
\* the mark that has the next lock taker erase it is there too.
ErasedWhenUnmarked ==
  HasManifest(live) /\ ~live.scrub =>
    \A o \in live.dead : logs[live.log][o] = Erased /\ o \notin live.posted

\* Once an index was committed the disk always holds one, in its place or
\* parked: an interrupted swap leaves a copy to recover from (#181).
OnDisk == \E d \in {live} \union {parked[n] : n \in Spots} : HasManifest(d)
CopyRemains == [][OnDisk => OnDisk']_vars

\* Text a hook left for a session leaves the disk only when a hook of that session
\* takes it: every swap carries it, and a refused one puts it back.
Waiting == \E d \in ({live, tmp} \union {parked[n] : n \in Spots}) \ {NoDir} : d.deferred
DeferredTextKept == [][Waiting /\ ~Waiting' => Take]_vars

\* A hook will find the text: in dir, in the copy that comes back to dir's place,
\* or in the dir.tmp about to take it.
InReach == \/ Recoverable.deferred
           \/ pc = "install" /\ live = NoDir /\ tmp.deferred

\* Text stays in reach until it is taken, through every swap, refusal and
\* recovery and also where it was left in a directory a hook had to make, with two
\* exceptions: a kill between carryIndexState and the rename (LostText), and a
\* hook that makes the directory while the one with the text is out of its place.
DeferredTextMoves ==
  [][InReach /\ ~InReach' => Take \/ MakeHollow \/ (pc = "install" /\ Crash)]_vars

\* A killed or failed pass is always cleaned up after: the index comes back to
\* its place, the uncommitted tail is cut and the replaced text is erased.
Settled == live # NoDir /\ live.pend = 0 /\ ~live.scrub
Settles == (Parked # {} \/ live # NoDir) ~> Settled
=============================================================================
