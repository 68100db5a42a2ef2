------------------------ MODULE IndexStoreLogProofs -------------------------
(***************************************************************************)
(* The record log and the manifests that vouch for it: an uncommitted tail *)
(* is read under no session, under each session are the turns of the       *)
(* version its row names and each once, and text that was replaced is on   *)
(* disk only while scrub.pending tells the next lock taker to erase it.    *)
(* Proved for any number of sessions, logs, passes, kills and hooks, where *)
(* a parked copy can always be removed (off Windows), so that one is       *)
(* beside dir only until the next lock taker. The sections go from the     *)
(* tail of a pass that appends, through what the manifests say, to what is *)
(* erased; each rests on the invariant of the one before.                  *)
(***************************************************************************)
EXTENDS IndexStoreProofs, FiniteSetTheorems

-----------------------------------------------------------------------------
(* The tail of a pass that appends.                                         *)

\* The index and the copies of it.
Dirs == ({live} \union {parked[n] : n \in Spots}) \ {NoDir}
\* The places of a pass that has not parked the index.
Unparked == {"write", "clear", "park"}

\* One spot is enough where every copy can be removed.
Single == Parked \subseteq {0} /\ job.spot = 0
\* A copy is beside an index only before the lock taker's look or the tidying.
Apart == Parked # {} /\ HasManifest(live) => pc \in {"idle", "recover", "tidy"}

\* TailUnread, of one directory and its log.
Unread(d, log) ==
  d.pend > 0 =>
    /\ d.pend = d.size /\ d.size <= Len(log)
    /\ \A o \in (d.size + 1)..Len(log) : log[o].kid \notin DOMAIN d.strs
AllUnread == \A d \in Dirs : Unread(d, LogOf(d))

\* Where the mark is and is not; what a pass appends is filed under ids the live
\* manifest has not, and a pass that writes a log anew shares it with nobody.
Marked ==
  /\ tmp # NoDir => tmp.pend = 0
  /\ live # NoDir /\ (\/ pc \in {"rescrub", "ready", "words", "zero", "tidy"}
                      \/ pc \in Unparked /\ job.pass # "replace") => live.pend = 0
  /\ pc = "write" => job.pass \in {"rewrite", "replace", "append"}
  /\ pc \in Unparked /\ job.pass = "replace" =>
       HasManifest(live) /\ live.pend > 0 /\ tmp.log = live.log
  /\ pc = "write" /\ job.pass = "replace" =>
       /\ Len(live.strs) <= Len(job.strs)
       /\ \A s \in job.fresh : \E k \in Ids(s) : k > Len(live.strs)
  /\ pc = "write" /\ job.pass = "rewrite" => tmp.log \notin Linked

TailInv == TypeInv /\ Single /\ Apart /\ Marked /\ AllUnread

\* A directory as its log knows it.
SameFile(d, e) == d.log = e.log /\ d.pend = e.pend /\ d.size = e.size /\ d.strs = e.strs

\* A directory on disk is a directory.
LEMMA DirsType == TypeOK => Dirs \subseteq Dir
BY DEF TypeOK, Dirs

\* The tails stay unread where each directory has no mark, was looked at anew, or is
\* the one it was over the same log.
LEMMA UnreadStep ==
  ASSUME TypeOK, TypeOK', AllUnread,
         \A d \in Dirs' : \/ d.pend = 0
                          \/ Unread(d, LogOf(d)')
                          \/ \E e \in Dirs : SameFile(d, e) /\ LogOf(e)' = LogOf(e)
  PROVE  AllUnread'
<1>1. SUFFICES ASSUME NEW d \in Dirs' PROVE Unread(d, LogOf(d)')
  BY DEF AllUnread
<1>2. CASE d.pend = 0
  BY <1>2 DEF Unread
<1>3. ASSUME NEW e \in Dirs, SameFile(d, e), LogOf(e)' = LogOf(e)
      PROVE  Unread(d, LogOf(d)')
  <2>1. Unread(e, LogOf(e)) /\ LogOf(d)' = LogOf(e)
    BY <1>3 DEF AllUnread, LogOf, SameFile
  <2>. QED  BY <2>1, <1>3 DEF Unread, SameFile
<1>. QED  BY <1>1, <1>2, <1>3

\* No file of the directory is written.
LEMMA UnreadStays ==
  ASSUME TypeOK, TypeOK', AllUnread, logs' = logs,
         \A d \in Dirs' : d.pend = 0 \/ \E e \in Dirs : SameFile(d, e)
  PROVE  AllUnread'
<1>1. \A e : LogOf(e)' = LogOf(e)
  BY DEF LogOf
<1>. QED  BY <1>1, UnreadStep

\* Nor moved.
LEMMA UnreadSame ==
  ASSUME TypeOK, TypeOK', AllUnread, logs' = logs, live' = live, parked' = parked
  PROVE  AllUnread'
<1>1. Dirs' = Dirs /\ \A d : SameFile(d, d)
  BY DEF Dirs, SameFile
<1>. QED  BY <1>1, UnreadStays

\* What clearing leaves, where every copy can be removed.
LEMMA AllCleared ==
  ASSUME "remove" \notin Refusals, NEW stay \in MayStay, parked' = Cleared(stay)
  PROVE  /\ stay = {} /\ Parked' = {} /\ parked' = [n \in Spots |-> NoDir]
         /\ Dirs' = {live'} \ {NoDir}
<1>1. stay = {} /\ parked' = [n \in Spots |-> NoDir]
  BY DEF MayStay, Cleared
<1>2. 0 \in Spots
  BY ConstantsAssumption DEF Spots
<1>. QED  BY <1>1, <1>2 DEF Parked, Dirs

\* The locals a step leaves alone.
LEMMA JobKept ==
  ASSUME NEW j \in Job
  PROVE  \A D \in SUBSET Nat : LET k == [j EXCEPT !.dead = D]
                               IN  k.spot = j.spot /\ k.pass = j.pass /\ k.strs = j.strs /\ k.fresh = j.fresh
BY DEF Job

\* The locals of no pass and of a recovery.
LEMMA NoJobKept ==
  /\ NoJob.spot = 0 /\ NoJob.pass = "none" /\ NoJob.dead = {}
  /\ [NoJob EXCEPT !.pass = "recover"].spot = 0 /\ [NoJob EXCEPT !.pass = "recover"].pass = "recover"
BY DEF NoJob

\* A hollow directory has no log and no mark.
LEMMA HollowFields ==
  /\ Hollow.log = NoLog /\ Hollow.pend = 0 /\ Hollow.size = 0 /\ Hollow.strs = << >>
  /\ Hollow.dead = {} /\ ~Hollow.deferred /\ ~Hollow.scrub /\ Hollow.posted = {}
  /\ \A s \in Sessions : Hollow.rows[s] = 0
  /\ \A l : [Hollow EXCEPT !.log = l].pend = 0 /\ [Hollow EXCEPT !.log = l].log = l
BY DEF Hollow

\* One field of a directory is rewritten.
LEMMA DirKept ==
  ASSUME NEW d \in Dir
  PROVE  /\ \A b \in BOOLEAN : SameFile([d EXCEPT !.deferred = b], d)
         /\ \A b \in BOOLEAN : SameFile([d EXCEPT !.scrub = b], d)
         /\ \A p \in SUBSET Nat : SameFile([d EXCEPT !.posted = p], d)
         /\ \A n \in Nat : LET e == [d EXCEPT !.pend = n]
                           IN  e.pend = n /\ e.log = d.log /\ e.size = d.size /\ e.strs = d.strs
BY DEF Dir, SameFile

\* Steps that write nothing to the disk.
LEMMA TailOffDisk ==
  ASSUME TailInv, TypeInv', UNCHANGED disk, Single', Marked',
         pc' \notin {"idle", "recover", "tidy"} => pc \notin {"idle", "recover", "tidy"}
  PROVE  TailInv'
<1>1. AllUnread'
  BY UnreadSame DEF TailInv, TypeInv, disk
<1>2. Apart'
  BY DEF TailInv, Apart, Parked, HasManifest, disk
<1>. QED  BY <1>1, <1>2 DEF TailInv

\* Steps that touch neither a directory nor a log.
LEMMA TailQuiet ==
  ASSUME TailInv, TypeInv',
         Client \/ Lock \/ NothingToCut \/ Rescrub \/ Fail \/ ScrubStops \/ Crash \/ UNCHANGED vars
  PROVE  TailInv'
<1>. USE DEF TailInv, TypeInv
<1>1. UNCHANGED disk
  BY DEF Client, Say, Delete, Lock, NothingToCut, Rescrub, Fail, ScrubStops, Crash, vars, disk
<1>2. Parked' = Parked /\ Linked' = Linked /\ job \in Job
  BY <1>1 DEF disk, Parked, Linked, TypeOK
<1>3. CASE Client \/ UNCHANGED vars
  <2>1. pc' = pc /\ job' = job
    BY <1>3 DEF Client, Say, Delete, vars
  <2>2. Single' /\ Marked'
    BY <1>1, <1>2, <2>1 DEF disk, Single, Marked, HasManifest, Ids
  <2>. QED  BY <1>1, <2>1, <2>2, TailOffDisk
<1>4. CASE Lock
  BY <1>1, <1>2, <1>4, NoJobKept, TailOffDisk DEF Lock, disk, Single, Marked, Unparked
<1>5. CASE NothingToCut
  <2>1. pc' \in {"drop", "rescrub"} /\ (live # NoDir => live.pend = 0) /\ job' = job
        /\ pc \in {"untail", "undo"}
    <3>1. live # NoDir => live \in Dir
      BY DEF TypeOK
    <3>. QED  BY <1>5, <3>1, DirFields DEF NothingToCut, AppendMarked
  <2>2. Single' /\ Marked'
    BY <1>1, <1>2, <2>1 DEF disk, Single, Marked, Unparked
  <2>. QED  BY <1>1, <2>1, <2>2, TailOffDisk
<1>6. CASE Rescrub
  <2>1. pc' \in {"words", "ready"} /\ pc = "rescrub" /\ job'.spot = job.spot
    <3>1. CASE live # NoDir /\ live.scrub
      <4>1. live.dead \in SUBSET Nat
        BY <3>1, DirFields DEF TypeOK
      <4>. QED  BY <1>6, <3>1, <4>1, <1>2, JobKept DEF Rescrub
    <3>2. CASE ~(live # NoDir /\ live.scrub)
      BY <1>6, <3>2 DEF Rescrub
    <3>. QED  BY <3>1, <3>2
  <2>2. Single' /\ Marked'
    BY <1>1, <1>2, <2>1 DEF disk, Single, Marked, Unparked
  <2>. QED  BY <1>1, <2>1, <2>2, TailOffDisk
<1>7. CASE Fail
  BY <1>1, <1>2, <1>7, NoJobKept, TailOffDisk DEF Fail, Abandon, disk, Single, Marked, Unparked
<1>8. CASE ScrubStops
  <2>1. pc' \in {"ready", "idle"} /\ pc \in {"words", "zero"} /\ job'.spot = 0
    <3>1. job.spot = 0
      BY DEF Single
    <3>2. {} \in SUBSET Nat
      OBVIOUS
    <3>. QED  BY <1>2, <1>8, <3>1, <3>2, JobKept, NoJobKept DEF ScrubStops, ScrubDone
  <2>2. Single' /\ Marked'
    BY <1>1, <1>2, <2>1 DEF disk, Single, Marked, Unparked
  <2>. QED  BY <1>1, <2>1, <2>2, TailOffDisk
<1>9. CASE Crash
  BY <1>1, <1>2, <1>9, NoJobKept, TailOffDisk DEF Crash, disk, Single, Marked, Unparked
<1>. QED  BY <1>3, <1>4, <1>5, <1>6, <1>7, <1>8, <1>9

\* Dir is rewritten in place and the copies stay: its mark or its log, size and
\* key table do not change, or the mark goes.
LEMMA TailInPlace ==
  ASSUME TailInv, TypeInv', live # NoDir, live' \in Dir, parked' = parked, logs' = logs,
         live'.pend = 0 \/ SameFile(live', live)
  PROVE  AllUnread' /\ Parked' = Parked
<1>1. \A d \in Dirs' : d = live' \/ (d \in Dirs /\ SameFile(d, d))
  BY DEF Dirs, SameFile
<1>2. live \in Dirs
  BY DEF Dirs
<1>. QED  BY <1>1, <1>2, UnreadStays DEF TailInv, TypeInv, Parked

\* The hooks.
LEMMA TailHook ==
  ASSUME TailInv, TypeInv', Hook
  PROVE  TailInv'
<1>. USE DEF TailInv, TypeInv
<1>1. CASE MakeHollow
  <2>1. /\ live = NoDir /\ live' = Hollow
        /\ UNCHANGED <<tmp, parked, logs, pc, job>>
    BY <1>1 DEF MakeHollow
  <2>2. \A d \in Dirs' : d.pend = 0 \/ (d \in Dirs /\ SameFile(d, d))
    BY <2>1, HollowFields DEF Dirs, SameFile
  <2>3. AllUnread'
    BY <2>1, <2>2, UnreadStays
  <2>4. Single' /\ Apart' /\ Parked' = Parked
    BY <2>1, HollowFields DEF Single, Apart, Parked, HasManifest
  <2>5. Marked'
    <3>1. Linked' \subseteq Linked \union {NoLog}
      BY <2>1, HollowFields DEF Linked
    <3>2. pc = "write" /\ job.pass = "rewrite" => tmp.log \in LogIds /\ tmp.log # NoLog
      BY ConstantsAssumption DEF Present
    <3>3. pc \in Unparked /\ job.pass = "replace" => FALSE
      BY <2>1 DEF Marked, HasManifest
    <3>4. pc = "write" /\ job.pass = "rewrite" => tmp.log \notin Linked'
      BY <3>1, <3>2 DEF Marked
    <3>5. \/ tmp' = NoDir
          \/ tmp'.pend = 0
      BY <2>1 DEF Marked
    <3>6. live'.pend = 0 /\ (pc' = "write" => job'.pass \in {"rewrite", "replace", "append"})
      BY <2>1, HollowFields DEF Marked
    <3>7. (pc = "write" /\ job.pass = "replace") => pc \in Unparked /\ job.pass = "replace"
      BY DEF Unparked
    <3>. QED  BY <2>1, <3>3, <3>4, <3>5, <3>6, <3>7 DEF Marked
  <2>. QED  BY <2>3, <2>4, <2>5
<1>2. CASE Defer \/ Take
  <2>1. /\ live # NoDir /\ live' \in Dir /\ live' # NoDir /\ SameFile(live', live)
        /\ UNCHANGED <<tmp, parked, logs, pc, job>>
    <3>1. live \in Dir
      BY <1>2 DEF Defer, Take, HasManifest, TypeOK
    <3>2. PICK b \in BOOLEAN : live' = [live EXCEPT !.deferred = b]
      BY <1>2 DEF Defer, Take
    <3>. QED  BY <1>2, <3>1, <3>2, DirKept, DirDeferred DEF Defer, Take, HasManifest
  <2>2. AllUnread' /\ Parked' = Parked
    BY <2>1, TailInPlace
  <2>3. Single' /\ Apart'
    BY <2>1, <2>2 DEF Single, Apart, HasManifest, SameFile
  <2>4. Linked' = Linked
    <3>1. live'.log = live.log
      BY <2>1 DEF SameFile
    <3>2. \A d : d \in ({live'} \union {parked'[n] : n \in Spots}) \ {NoDir} =>
                   d = live' \/ d \in ({live} \union {parked[n] : n \in Spots}) \ {NoDir}
      BY <2>1
    <3>3. \A d : d \in ({live} \union {parked[n] : n \in Spots}) \ {NoDir} =>
                   d = live \/ d \in ({live'} \union {parked'[n] : n \in Spots}) \ {NoDir}
      BY <2>1
    <3>. QED  BY <2>1, <3>1, <3>2, <3>3 DEF Linked
  <2>5. Marked'
    BY <2>1, <2>4 DEF Marked, HasManifest, Ids, SameFile, Unparked
  <2>. QED  BY <2>2, <2>3, <2>5
<1>. QED  BY <1>1, <1>2, HookDoes

\* The lock taker, but for the cut.
LEMMA TailRecover ==
  ASSUME TailInv, TypeInv', "remove" \notin Refusals,
         RecoverPresent \/ RecoverMissing \/ Unmark \/ DropStaging \/ Leave
  PROVE  TailInv'
<1>. USE DEF TailInv, TypeInv
<1>1. CASE RecoverPresent
  <2>1. PICK stay \in MayStay : parked' = Cleared(stay)
    BY <1>1 DEF RecoverPresent
  <2>2. Parked' = {} /\ Dirs' = {live'} \ {NoDir}
    BY <2>1, AllCleared
  <2>3. pc' = "untail" /\ UNCHANGED <<live, tmp, logs, job>>
    BY <1>1 DEF RecoverPresent
  <2>4. \A d \in Dirs' : d \in Dirs /\ SameFile(d, d)
    BY <2>2, <2>3 DEF Dirs, SameFile
  <2>5. AllUnread'
    BY <2>3, <2>4, UnreadStays
  <2>6. Single' /\ Apart' /\ Marked'
    BY <2>2, <2>3 DEF Single, Apart, Marked, Unparked
  <2>. QED  BY <2>5, <2>6
<1>2. CASE RecoverMissing
  <2>1. live = NoDir /\ pc' = "untail" /\ UNCHANGED <<tmp, logs, job>>
    BY <1>2 DEF RecoverMissing
  <2>2. CASE UNCHANGED <<live, parked>>
    <3>1. AllUnread'
      BY <2>1, <2>2, UnreadSame
    <3>2. Single' /\ Apart' /\ Marked'
      BY <2>1, <2>2 DEF Single, Apart, Marked, Unparked, HasManifest, Parked
    <3>. QED  BY <3>1, <3>2
  <2>3. CASE Parked # {} /\ live' = parked[Newest] /\ parked' = [parked EXCEPT ![Newest] = NoDir]
    <3>1. Newest \in Spots /\ parked[Newest] # NoDir
      BY <2>3, NewestType
    <3>2. Newest = 0 /\ Newest \in Parked
      BY <3>1 DEF Single, Parked
    <3>3. Parked' = {}
      BY <2>3, <3>2 DEF Single, Parked, TypeOK
    <3>4. \A d \in Dirs' : d \in Dirs /\ SameFile(d, d)
      BY <2>3, <3>1 DEF Dirs, SameFile, TypeOK
    <3>5. AllUnread'
      BY <2>1, <3>4, UnreadStays
    <3>6. Single' /\ Apart' /\ Marked'
      BY <2>1, <3>3 DEF Single, Apart, Marked, Unparked
    <3>. QED  BY <3>5, <3>6
  <2>. QED  BY <1>2, <2>2, <2>3 DEF RecoverMissing
<1>3. CASE Unmark
  <2>1. /\ pc' \in {"drop", "rescrub"} /\ pc \in {"unmark", "undone"}
        /\ UNCHANGED <<tmp, parked, logs, job>>
    BY <1>3 DEF Unmark
  <2>2. CASE live = NoDir
    <3>1. live' = live
      BY <1>3, <2>2 DEF Unmark
    <3>2. AllUnread'
      BY <2>1, <3>1, UnreadSame
    <3>3. Single' /\ Apart' /\ Marked'
      BY <2>1, <2>2, <3>1 DEF Single, Apart, Marked, Unparked, HasManifest, Parked
    <3>. QED  BY <3>2, <3>3
  <2>3. CASE live # NoDir
    <3>1. live \in Dir /\ live' = [live EXCEPT !.pend = 0]
      BY <1>3, <2>3 DEF Unmark, TypeOK
    <3>2. live' \in Dir /\ live'.pend = 0 /\ live'.log = live.log
      BY <3>1, DirMarks, DirKept
    <3>3. AllUnread' /\ Parked' = Parked
      BY <2>1, <2>3, <3>2, TailInPlace
    <3>4. Single' /\ Apart' /\ Marked'
      BY <2>1, <2>3, <3>2, <3>3 DEF Single, Apart, Marked, Unparked, HasManifest
    <3>. QED  BY <3>3, <3>4
  <2>. QED  BY <2>2, <2>3
<1>4. CASE DropStaging
  <2>1. pc' = "idle" /\ tmp' = NoDir /\ job' = NoJob /\ UNCHANGED <<live, parked, logs>>
    BY <1>4 DEF DropStaging
  <2>2. AllUnread'
    BY <2>1, UnreadSame
  <2>3. Single' /\ Apart' /\ Marked'
    BY <2>1, NoJobKept DEF Single, Apart, Marked, Unparked, Parked
  <2>. QED  BY <2>2, <2>3
<1>5. CASE Leave
  <2>1. pc' = "idle" /\ tmp' \in {tmp, NoDir} /\ job' = NoJob /\ UNCHANGED <<live, parked, logs>>
    BY <1>5 DEF Leave, Sweep
  <2>2. AllUnread'
    BY <2>1, UnreadSame
  <2>3. Single' /\ Apart' /\ Marked'
    BY <2>1, NoJobKept DEF Single, Apart, Marked, Unparked, Parked
  <2>. QED  BY <2>2, <2>3
<1>. QED  BY <1>1, <1>2, <1>3, <1>4, <1>5

\* A marked index is one, and nothing is parked beside it once it was looked at.
LEMMA MarkedIsWhole ==
  ASSUME TypeOK, AllUnread, AppendMarked
  PROVE  /\ live \in Dir /\ live.pend = live.size /\ live.log \in LogIds /\ HasManifest(live)
         /\ live.size <= Len(LogOf(live))
<1>1. live \in Dir /\ live \in Dirs /\ live.pend > 0
  BY DEF AppendMarked, TypeOK, Dirs
<1>2. live.pend = live.size /\ live.size <= Len(LogOf(live))
  BY <1>1 DEF AllUnread, Unread
<1>3. live.log # NoLog
  <2>1. SUFFICES ASSUME live.log = NoLog PROVE FALSE
    OBVIOUS
  <2>2. Len(LogOf(live)) = 0
    BY <2>1 DEF LogOf
  <2>. QED  BY <1>1, <1>2, <2>2, DirFields
<1>. QED  BY <1>1, <1>2, <1>3, DirFields DEF HasManifest

\* Between recovery and the swap no copy is beside the index.
LEMMA AloneDirs ==
  ASSUME Apart, HasManifest(live), pc \notin {"idle", "recover", "tidy"}
  PROVE  Parked = {} /\ Dirs = {live} /\ Linked = {live.log}
<1>1. Parked = {}
  BY DEF Apart
<1>2. Dirs = {live}
  BY <1>1 DEF Dirs, Parked, HasManifest
<1>. QED  BY <1>1, <1>2 DEF Dirs, Linked

\* The tail is cut and nothing else.
LEMMA TailCut ==
  ASSUME TailInv, TypeInv', CutTail
  PROVE  TailInv'
<1>. USE DEF TailInv, TypeInv
<1>1. /\ pc \in {"untail", "undo"} /\ pc' \in {"undone", "unmark"} /\ AppendMarked
      /\ UNCHANGED <<live, tmp, parked, job>>
  BY DEF CutTail
<1>2. /\ live \in Dir /\ live.pend = live.size /\ live.log \in LogIds /\ HasManifest(live)
      /\ live.size <= Len(LogOf(live))
  BY <1>1, MarkedIsWhole
<1>3. Dirs' = {live} /\ Parked = {} /\ Linked' = Linked
  BY <1>1, <1>2, AloneDirs DEF Dirs, Linked
<1>. DEFINE log == logs[live.log]
            p == live.pend
<1>4. log \in Seq(Record) /\ Len(log) \in Nat /\ p \in Nat /\ LogOf(live) = log
  BY <1>2, DirFields, LenProperties DEF TypeOK, LogOf, HasManifest
<1>5. logs'[live.log] = IF Len(log) > p THEN SubSeq(log, 1, p) ELSE log
  BY <1>2 DEF CutTail, TypeOK
<1>6. Len(logs'[live.log]) = p
  <2>1. CASE Len(log) > p
    <3>1. \A i \in 1..p : log[i] \in Record
      BY <1>4, <2>1, ElementOfSeq
    <3>. HIDE DEF log, p
    <3>2. Len(SubSeq(log, 1, p)) = p
      BY <1>4, <3>1, <2>1, SubSeqProperties
    <3>. QED  BY <1>5, <2>1, <3>2
  <2>2. CASE ~(Len(log) > p)
    BY <1>2, <1>4, <1>5, <2>2
  <2>. QED  BY <2>1, <2>2
<1>7. LogOf(live)' = logs'[live.log]
  BY <1>1, <1>2 DEF LogOf, HasManifest
<1>8. Unread(live, LogOf(live)')
  BY <1>2, <1>4, <1>6, <1>7 DEF Unread
<1>9. AllUnread'
  BY <1>1, <1>3, <1>8 DEF AllUnread
<1>10. Single' /\ Apart' /\ Marked'
  BY <1>1, <1>3 DEF Single, Apart, Marked, Unparked, Parked
<1>. QED  BY <1>9, <1>10

\* A pass begins.
LEMMA TailStartLog ==
  ASSUME TailInv, TypeInv', CanBegin, NEW l \in LogIds \ Linked, NEW todo, NEW rows,
         StartLog(l, todo, rows)
  PROVE  TailInv'
<1>. USE DEF TailInv, TypeInv
<1>1. /\ tmp' = [Hollow EXCEPT !.log = l] /\ pc = "ready" /\ pc' = "write"
      /\ logs' = [logs EXCEPT ![l] = << >>]
      /\ job' = [NoJob EXCEPT !.pass = "rewrite", !.rows = rows, !.todo = todo]
      /\ UNCHANGED <<live, parked>>
  BY DEF StartLog, CanBegin
<1>2. job'.pass = "rewrite" /\ job'.spot = 0
  BY <1>1 DEF NoJob
<1>3. Parked' = Parked /\ Linked' = Linked /\ Dirs' = Dirs
  BY <1>1 DEF Parked, Linked, Dirs
<1>4. \A d \in Dirs : d.log # l
  BY DEF Dirs, Linked
<1>5. \A d \in Dirs : LogOf(d)' = LogOf(d) /\ SameFile(d, d)
  BY <1>1, <1>4, DirsType, DirFields DEF LogOf, SameFile, TypeOK
<1>6. AllUnread'
  BY <1>3, <1>5, UnreadStep
<1>7. Single' /\ Apart'
  BY <1>1, <1>2, <1>3 DEF Single, Apart, HasManifest
<1>8. Marked'
  BY <1>1, <1>2, <1>3, HollowFields DEF Marked, Unparked
<1>. QED  BY <1>6, <1>7, <1>8

\* A pass that appends marks the live index before it writes: nothing is behind the
\* committed size yet.
LEMMA TailReplace ==
  ASSUME TailInv, TypeInv', NEW S \in SUBSET Sessions, ReplaceAppending(S)
  PROVE  TailInv'
<1>. USE DEF TailInv, TypeInv
<1>1. /\ pc = "ready" /\ pc' = "write" /\ Intact(live) /\ live.size > 0
      /\ live' = [live EXCEPT !.pend = live.size] /\ tmp' = [Hollow EXCEPT !.log = live.log]
      /\ UNCHANGED <<parked, logs>>
  BY DEF ReplaceAppending, CanBegin
<1>2. /\ live \in Dir /\ HasManifest(live) /\ live.size \in Nat
  BY <1>1, DirFields DEF Intact, HasManifest, TypeOK
<1>3. live' \in Dir /\ live'.pend = live.size /\ live'.log = live.log /\ live'.size = live.size
      /\ live'.strs = live.strs /\ live' # NoDir
  BY <1>1, <1>2, DirMarks, DirKept, DirFields
<1>4. job'.pass = "replace" /\ job'.strs = live.strs /\ job'.fresh = {} /\ job'.spot = 0
  BY DEF ReplaceAppending, NoJob
<1>5. Parked = {} /\ Parked' = {}
  BY <1>1, <1>2 DEF Apart, Parked
<1>6. Dirs' = {live'}
  BY <1>3, <1>5 DEF Dirs, Parked
<1>7. LogOf(live)' = LogOf(live) /\ Len(LogOf(live)) = live.size
  <2>1. LogOf(live)' = LogOf(live)
    BY <1>1, <1>3 DEF LogOf
  <2>. QED  BY <2>1, <1>1, <1>2 DEF Intact
<1>8. AllUnread'
  BY <1>2, <1>3, <1>6, <1>7 DEF AllUnread, Unread
<1>9. Single' /\ Apart'
  BY <1>4, <1>5 DEF Single, Apart
<1>10. live.strs \in Seq(Sessions) /\ Len(live.strs) \in Nat
  BY <1>2, DirFields, LenProperties
<1>11. Marked'
  BY <1>1, <1>2, <1>3, <1>4, <1>10, HollowFields DEF Marked, Unparked, HasManifest
<1>. QED  BY <1>8, <1>9, <1>11

\* A pass begins.
LEMMA TailBegin ==
  ASSUME TailInv, TypeInv', Begin
  PROVE  TailInv'
<1>. USE DEF TailInv, TypeInv
<1>1. ASSUME NEW l \in LogIds \ Linked, Rebuild(l)
      PROVE  TailInv'
  BY <1>1, TailStartLog DEF Rebuild
<1>2. ASSUME NEW l \in LogIds \ Linked, NEW S \in SUBSET Sessions, ReplaceWhole(l, S)
      PROVE  TailInv'
  BY <1>2, TailStartLog DEF ReplaceWhole
<1>3. ASSUME NEW S \in SUBSET Sessions, AppendInPlace(S)
      PROVE  TailInv'
  <2>1. /\ pc = "ready" /\ pc' = "write" /\ tmp' \in {tmp, NoDir}
        /\ UNCHANGED <<live, parked, logs>>
    BY <1>3 DEF AppendInPlace, CanBegin, Sweep
  <2>2. job'.pass = "append" /\ job'.spot = 0
    BY <1>3 DEF AppendInPlace, NoJob
  <2>3. AllUnread'
    BY <2>1, UnreadSame
  <2>4. Single' /\ Apart' /\ Marked'
    BY <2>1, <2>2 DEF Single, Apart, Marked, Unparked, Parked, HasManifest
  <2>. QED  BY <2>3, <2>4
<1>4. CASE WriteMetadata
  <2>1. /\ pc = "ready" /\ pc' = "idle" /\ tmp' \in {tmp, NoDir} /\ job' = NoJob
        /\ live \in Dir /\ live # NoDir /\ UNCHANGED <<parked, logs>>
        /\ live' = [live EXCEPT !.stamp = writes + 1,
                          !.size = IF live.size > 0 THEN live.size ELSE Len(LogOf(live))]
    BY <1>4 DEF WriteMetadata, CanBegin, Sweep, HasManifest, TypeOK
  <2>2. live.pend = 0
    BY <2>1 DEF Marked
  <2>3. live' \in Dir /\ live'.pend = 0
    <3>1. LogOf(live) \in Seq(Record) /\ writes \in Nat
      BY <2>1, LogOfType, ConstantsAssumption DEF TypeOK
    <3>2. (IF live.size > 0 THEN live.size ELSE Len(LogOf(live))) \in Nat /\ writes + 1 \in Nat
      BY <2>1, <3>1, LenProperties, DirFields
    <3>3. live' \in Dir
      BY ONLY <2>1, <3>2, DirRestamped
    <3>. QED  BY <2>1, <2>2, <3>3 DEF Dir
  <2>4. AllUnread' /\ Parked' = Parked
    BY <2>1, <2>3, TailInPlace
  <2>5. Single' /\ Apart' /\ Marked'
    BY <2>1, <2>4, NoJobKept DEF Single, Apart, Marked, Unparked
  <2>. QED  BY <2>4, <2>5
<1>. QED  BY <1>1, <1>2, <1>3, <1>4, TailReplace DEF Begin

\* A record is written: where it goes, and under which id.
LEMMA WriteIs ==
  ASSUME TypeInv, WriteRecord
  PROVE  \E t \in job.todo :
           /\ t[1] \in Sessions /\ t \in Sessions \X Nat
           /\ \A u \in job.todo : u[1] = t[1] => t[2] <= u[2]
           /\ logs' = [logs EXCEPT ![Target] = Append(logs[Target], [kid |-> IdFor(t[1]), turn |-> t])]
           /\ logs'[Target] = Append(logs[Target], [kid |-> IdFor(t[1]), turn |-> t])
           /\ job'.pass = job.pass /\ job'.spot = job.spot /\ job'.rows = job.rows /\ job'.dead = job.dead
           /\ job'.todo = job.todo \ {t} /\ job'.fresh = job.fresh \union {t[1]}
           /\ job'.strs = IF NeedsId(t[1]) THEN Append(job.strs, t[1]) ELSE job.strs
           /\ [kid |-> IdFor(t[1]), turn |-> t] \in Record
           /\ Target \in LogIds /\ logs[Target] \in Seq(Record)
           /\ UNCHANGED <<env, live, tmp, parked, pc, count>>
<1>. USE DEF TypeInv
<1>1. PICK t \in job.todo :
        /\ \A u \in job.todo : u[1] = t[1] => t[2] <= u[2]
        /\ logs' = [logs EXCEPT ![Target] = Append(@, [kid |-> IdFor(t[1]), turn |-> t])]
        /\ job' = [job EXCEPT
             !.todo = @ \ {t}, !.fresh = @ \union {t[1]},
             !.strs = IF NeedsId(t[1]) THEN Append(@, t[1]) ELSE @]
  BY DEF WriteRecord
<1>2. pc = "write" /\ UNCHANGED <<env, live, tmp, parked, pc, count>>
  BY DEF WriteRecord
<1>3. job \in Job /\ t \in Sessions \X Nat /\ t[1] \in Sessions
  BY JobFields DEF TypeOK
<1>4. [kid |-> IdFor(t[1]), turn |-> t] \in Record
  BY <1>2, <1>3, IdForType DEF Record, Present
<1>5. Target \in LogIds /\ logs[Target] \in Seq(Record)
  <2>1. job.pass = "append" => live \in Dir /\ live.log # NoLog
    BY <1>2 DEF Present, HasManifest, TypeOK
  <2>2. Target \in LogIds
    BY <1>2, <2>1, DirFields DEF Target, Present
  <2>. QED  BY <2>2 DEF TypeOK
<1>6. logs'[Target] = Append(logs[Target], [kid |-> IdFor(t[1]), turn |-> t])
  BY <1>1, <1>5 DEF TypeOK
<1>7. /\ job'.pass = job.pass /\ job'.spot = job.spot /\ job'.rows = job.rows /\ job'.dead = job.dead
      /\ job'.todo = job.todo \ {t} /\ job'.fresh = job.fresh \union {t[1]}
      /\ job'.strs = IF NeedsId(t[1]) THEN Append(job.strs, t[1]) ELSE job.strs
  BY <1>1, <1>3 DEF Job
<1>. QED  BY <1>1, <1>2, <1>3, <1>4, <1>5, <1>6, <1>7

\* The id of a record: one the session has now, the next one where it needs it.
IdFiled(s, strs) ==
  /\ strs \in Seq(Sessions) /\ Len(strs) = (IF NeedsId(s) THEN Len(job.strs) + 1 ELSE Len(job.strs))
  /\ Len(job.strs) \in Nat /\ \A k \in 1..Len(job.strs) : strs[k] = job.strs[k]
  /\ IdFor(s) \in 1..Len(strs) /\ strs[IdFor(s)] = s
  /\ NeedsId(s) => IdFor(s) = Len(job.strs) + 1
  /\ ~NeedsId(s) /\ job.pass = "replace" => \A k \in Ids(s) : k <= IdFor(s)

\* The id a session is filed under is one it has, or the next.
LEMMA IdIs ==
  ASSUME TypeOK, NEW s \in Sessions, s \in job.fresh => \E k \in DOMAIN job.strs : job.strs[k] = s,
         NEW strs, strs = IF NeedsId(s) THEN Append(job.strs, s) ELSE job.strs
  PROVE  IdFiled(s, strs)
<1>1. job.strs \in Seq(Sessions) /\ Len(job.strs) \in Nat /\ DOMAIN job.strs = 1..Len(job.strs)
  BY JobFields, LenProperties DEF TypeOK
<1>2. Ids(s) \subseteq 1..Len(job.strs) /\ Ids(s) \subseteq 0..Len(job.strs)
  BY <1>1 DEF Ids
<1>3. CASE NeedsId(s)
  <2>1. IdFor(s) = Len(job.strs) + 1
    BY <1>3 DEF IdFor
  <2>2. /\ strs \in Seq(Sessions) /\ Len(strs) = Len(job.strs) + 1
        /\ \A k \in 1..Len(job.strs) : strs[k] = job.strs[k]
        /\ strs[Len(job.strs) + 1] = s
    BY <1>1, <1>3, AppendProperties
  <2>. QED  BY <1>1, <1>3, <2>1, <2>2 DEF IdFiled
<1>4. CASE ~NeedsId(s)
  <2>1. Ids(s) # {}
    BY <1>4 DEF NeedsId, Ids
  <2>2. \E k \in Ids(s) : \A j \in Ids(s) : j <= k
    BY <1>1, <1>2, <2>1, GreatestExists
  <2>3. \E k \in Ids(s) : \A j \in Ids(s) : k <= j
    BY <1>1, <1>2, <2>1, LeastExists
  <2>4. IdFor(s) \in Ids(s) /\ (job.pass = "replace" => \A k \in Ids(s) : k <= IdFor(s))
    BY <1>4, <2>2, <2>3 DEF IdFor
  <2>5. IdFor(s) \in 1..Len(job.strs) /\ job.strs[IdFor(s)] = s
    BY <1>2, <2>4 DEF Ids
  <2>. QED  BY <1>1, <1>4, <2>4, <2>5 DEF IdFiled
<1>. QED  BY <1>3, <1>4

\* A record is written, under an id the live manifest has not.
LEMMA TailWrite ==
  ASSUME TailInv, TypeInv', WriteRecord
  PROVE  TailInv'
<1>. USE DEF TailInv
<1>1. pc = "write" /\ TypeOK /\ Present
  BY DEF WriteRecord, TypeInv
<1>2. PICK t \in job.todo :
           /\ t[1] \in Sessions
           /\ logs' = [logs EXCEPT ![Target] = Append(logs[Target], [kid |-> IdFor(t[1]), turn |-> t])]
           /\ logs'[Target] = Append(logs[Target], [kid |-> IdFor(t[1]), turn |-> t])
           /\ job'.pass = job.pass /\ job'.spot = job.spot
           /\ job'.fresh = job.fresh \union {t[1]}
           /\ job'.strs = IF NeedsId(t[1]) THEN Append(job.strs, t[1]) ELSE job.strs
           /\ [kid |-> IdFor(t[1]), turn |-> t] \in Record
           /\ Target \in LogIds /\ logs[Target] \in Seq(Record)
           /\ UNCHANGED <<live, tmp, parked, pc>>
  BY WriteIs
<1>. DEFINE s == t[1]
            log == logs[Target]
            r == [kid |-> IdFor(s), turn |-> t]
<1>3. Parked' = Parked /\ Linked' = Linked /\ Dirs' = Dirs
  BY <1>2 DEF Parked, Linked, Dirs
<1>4. \A k \in LogIds : k # Target => logs'[k] = logs[k]
  BY <1>2, <1>1 DEF TypeOK
<1>5. Single' /\ Apart'
  BY <1>2, <1>3 DEF Single, Apart, HasManifest
<1>6. /\ job'.strs \in Seq(Sessions) /\ Len(job'.strs) = (IF NeedsId(s) THEN Len(job.strs) + 1 ELSE Len(job.strs))
      /\ Len(job.strs) \in Nat /\ \A k \in 1..Len(job.strs) : job'.strs[k] = job.strs[k]
      /\ IdFor(s) \in 1..Len(job'.strs) /\ job'.strs[IdFor(s)] = s
      /\ NeedsId(s) => IdFor(s) = Len(job.strs) + 1
      /\ ~NeedsId(s) /\ job.pass = "replace" => \A k \in Ids(s) : k <= IdFor(s)
  <2>1. s \in job.fresh => \E k \in DOMAIN job.strs : job.strs[k] = s
    BY <1>1 DEF Present
  <2>2. IdFiled(s, job'.strs)
    BY <1>1, <1>2, <2>1, IdIs
  <2>. QED  BY <2>2 DEF IdFiled
<1>7. ASSUME job.pass = "replace"
      PROVE  /\ HasManifest(live) /\ live.log = Target /\ Dirs = {live} /\ live \in Dir
             /\ Len(live.strs) \in Nat /\ DOMAIN live.strs = 1..Len(live.strs)
             /\ Len(live.strs) <= Len(job.strs) /\ IdFor(s) > Len(live.strs)
  <2>1. /\ HasManifest(live) /\ live.log = tmp.log /\ Len(live.strs) <= Len(job.strs)
        /\ \A u \in job.fresh : \E k \in Ids(u) : k > Len(live.strs)
    BY <1>1, <1>7 DEF Marked, Unparked
  <2>2. live \in Dir /\ live.log = Target
    BY <1>1, <1>7, <2>1 DEF TypeOK, Target, HasManifest
  <2>3. Len(live.strs) \in Nat /\ DOMAIN live.strs = 1..Len(live.strs)
    BY <2>2, DirFields, LenProperties
  <2>4. IdFor(s) > Len(live.strs)
    <3>1. CASE NeedsId(s)
      BY <1>6, <2>1, <2>3, <3>1
    <3>2. CASE ~NeedsId(s)
      <4>1. s \in job.fresh
        BY <1>7, <3>2 DEF NeedsId
      <4>2. PICK k \in Ids(s) : k > Len(live.strs)
        BY <2>1, <4>1
      <4>3. k <= IdFor(s) /\ k \in Nat /\ IdFor(s) \in Nat
        BY <1>1, <1>2, <1>6, <1>7, <3>2, <4>2, JobFields, LenProperties DEF Ids, Record, TypeOK
      <4>. QED  BY <2>3, <4>2, <4>3
    <3>. QED  BY <3>1, <3>2
  <2>. QED  BY <2>1, <2>2, <2>3, <2>4, <1>1, AloneDirs
<1>. HIDE DEF s, log, r
<1>8. /\ logs'[Target] \in Seq(Record) /\ Len(logs'[Target]) = Len(log) + 1 /\ Len(log) \in Nat
      /\ \A k \in 1..Len(log) : logs'[Target][k] = log[k]
      /\ logs'[Target][Len(log) + 1] = r
  BY <1>2, AppendProperties, LenProperties DEF log, r, s
<1>9. AllUnread'
  <2>1. CASE job.pass = "replace"
    <3>1. Unread(live, LogOf(live)')
      <4>1. LogOf(live) = log /\ LogOf(live)' = logs'[Target]
        BY <1>2, <1>7, <2>1 DEF LogOf, HasManifest, log
      <4>2. Unread(live, log) /\ r.kid = IdFor(s)
        BY <1>7, <2>1, <4>1 DEF AllUnread, r
      <4>3. live.size \in Nat
        BY <1>7, <2>1, DirFields
      <4>4. live.pend > 0 => live.size <= Len(log)
        BY <4>2 DEF Unread
      <4>5. ASSUME live.pend > 0, NEW o \in (live.size + 1)..(Len(log) + 1)
            PROVE  logs'[Target][o].kid \notin DOMAIN live.strs
        <5>1. CASE o = Len(log) + 1
          BY <5>1, <4>2, <1>6, <1>7, <1>8, <2>1
        <5>2. CASE o # Len(log) + 1
          <6>1. o \in 1..Len(log) /\ o \in (live.size + 1)..Len(log)
            BY <5>2, <4>3, <4>4, <4>5, <1>8
          <6>2. log[o].kid \notin DOMAIN live.strs
            BY <4>2, <4>5, <6>1 DEF Unread
          <6>. QED  BY ONLY <1>8, <6>1, <6>2
        <5>. QED  BY <5>1, <5>2
      <4>. QED  BY <4>1, <4>2, <4>3, <4>4, <4>5, <1>8 DEF Unread
    <3>2. Dirs' = {live}
      BY <1>3, <1>7, <2>1
    <3>. QED  BY <1>2, <3>1, <3>2 DEF AllUnread
  <2>2. CASE job.pass = "append"
    <3>1. HasManifest(live) /\ live.pend = 0
      BY <1>1, <2>2 DEF Marked, Unparked, Present, HasManifest
    <3>2. Dirs' = {live}
      BY <1>1, <1>3, <3>1, AloneDirs
    <3>. QED  BY <1>2, <3>1, <3>2 DEF AllUnread, Unread
  <2>3. CASE job.pass = "rewrite"
    <3>1. Target = tmp.log /\ tmp.log \notin Linked
      BY <1>1, <2>3 DEF Target, Marked
    <3>2. \A d \in Dirs : LogOf(d)' = LogOf(d) /\ SameFile(d, d)
      <4>1. \A d \in Dirs : d.log # Target /\ d.log \in LogIds \union {NoLog}
        BY <1>1, <3>1, DirsType, DirFields DEF Dirs, Linked
      <4>. QED  BY <1>4, <4>1 DEF LogOf, SameFile
    <3>. QED  BY <1>1, <1>3, <3>2, UnreadStep DEF TypeInv
  <2>. QED  BY <1>1, <2>1, <2>2, <2>3 DEF Marked
<1>10. ASSUME job.pass = "replace"
       PROVE  /\ Len(live.strs) <= Len(job'.strs)
              /\ \A u \in job'.fresh : \E k \in Ids(u)' : k > Len(live.strs)
  <2>1. /\ \A u \in job.fresh : \E k \in Ids(u) : k > Len(live.strs)
    BY <1>1, <1>10 DEF Marked
  <2>2. DOMAIN job.strs = 1..Len(job.strs) /\ DOMAIN job'.strs = 1..Len(job'.strs)
    BY <1>1, <1>6, JobFields, LenProperties DEF TypeOK
  <2>3. \A u \in job.fresh : \E k \in DOMAIN job.strs : job.strs[k] = u /\ k > Len(live.strs)
    BY <2>1 DEF Ids
  <2>4. \A u \in job'.fresh : \E k \in DOMAIN job'.strs : job'.strs[k] = u /\ k > Len(live.strs)
    <3>1. SUFFICES ASSUME NEW u \in job'.fresh
                   PROVE  \E k \in DOMAIN job'.strs : job'.strs[k] = u /\ k > Len(live.strs)
      OBVIOUS
    <3>2. CASE u = s
      BY <1>6, <1>7, <1>10, <2>2, <3>2
    <3>3. CASE u \in job.fresh
      <4>1. PICK k \in DOMAIN job.strs : job.strs[k] = u /\ k > Len(live.strs)
        BY <2>3, <3>3
      <4>2. k \in DOMAIN job'.strs /\ job'.strs[k] = u
        BY <1>6, <2>2, <4>1
      <4>. QED  BY <4>1, <4>2
    <3>. QED  BY <1>2, <3>2, <3>3 DEF s
  <2>. QED  BY <1>6, <1>7, <1>10, <2>4 DEF Ids
<1>11. Marked'
  BY <1>1, <1>2, <1>3, <1>10 DEF Marked, Unparked, HasManifest
<1>. QED  BY <1>5, <1>9, <1>11

\* The new manifest is written, beside dir or in it.
LEMMA TailSealed ==
  ASSUME TailInv, TypeInv', Seal \/ CommitAppend
  PROVE  TailInv'
<1>. USE DEF TailInv, TypeInv
<1>1. CASE Seal
  <2>1. /\ pc = "write" /\ pc' = "clear" /\ UNCHANGED <<live, parked, logs, job>>
    BY <1>1 DEF Seal
  <2>2. tmp'.pend = 0
    BY <1>1 DEF Seal, Hollow
  <2>3. tmp'.log = tmp.log
    BY <1>1, SealType
  <2>4. AllUnread'
    BY <2>1, UnreadSame
  <2>5. Single' /\ Apart'
    BY <2>1 DEF Single, Apart, Parked, HasManifest
  <2>6. Marked'
    BY <2>1, <2>2, <2>3 DEF Marked, Unparked, HasManifest
  <2>. QED  BY <2>4, <2>5, <2>6
<1>2. CASE CommitAppend
  <2>1. /\ pc = "write" /\ pc' = "idle" /\ job' = NoJob /\ job.pass = "append"
        /\ UNCHANGED <<tmp, parked, logs>>
    BY <1>2 DEF CommitAppend
  <2>2. live \in Dir /\ live # NoDir /\ live' \in Dir
    BY <2>1, <1>2, CommitAppendType DEF Present, HasManifest, TypeOK
  <2>3. live'.pend = live.pend /\ live.pend = 0
    BY <1>2, <2>1, <2>2 DEF CommitAppend, Marked, Unparked, Dir
  <2>4. AllUnread' /\ Parked' = Parked
    BY <2>1, <2>2, <2>3, TailInPlace
  <2>5. Single' /\ Apart' /\ Marked'
    BY <2>1, <2>4, NoJobKept DEF Single, Apart, Marked, Unparked
  <2>. QED  BY <2>4, <2>5
<1>. QED  BY <1>1, <1>2

\* The swap.
LEMMA TailSwap ==
  ASSUME TailInv, TypeInv', "remove" \notin Refusals, ClearSpot \/ Park \/ Install \/ Restore \/ Tidy
  PROVE  TailInv'
<1>. USE DEF TailInv, TypeInv
<1>0. job \in Job /\ job.spot = 0 /\ 0 \in Spots
  BY ConstantsAssumption DEF Single, TypeOK, Spots
<1>1. CASE ClearSpot
  <2>1. PICK stay \in MayStay :
          /\ parked' = Cleared(stay)
          /\ job' = [job EXCEPT !.spot = IF stay = {} THEN 0 ELSE 1 + CHOOSE n \in stay : \A k \in stay : k <= n]
    BY <1>1 DEF ClearSpot
  <2>2. stay = {} /\ Parked' = {} /\ Dirs' = {live'} \ {NoDir}
    BY <2>1, AllCleared
  <2>3. pc = "clear" /\ pc' = "park" /\ UNCHANGED <<live, tmp, logs>> /\ job' = [job EXCEPT !.spot = 0]
    BY <1>1, <2>1, <2>2 DEF ClearSpot
  <2>4. job'.spot = 0 /\ job'.pass = job.pass
    BY <1>0, <2>3, JobUpdates
  <2>5. \A d \in Dirs' : d \in Dirs /\ SameFile(d, d)
    BY <2>2, <2>3 DEF Dirs, SameFile
  <2>6. AllUnread'
    BY <2>3, <2>5, UnreadStays
  <2>7. Single' /\ Apart' /\ Marked'
    BY <2>2, <2>3, <2>4 DEF Single, Apart, Marked, Unparked, HasManifest
  <2>. QED  BY <2>6, <2>7
<1>2. CASE Park
  <2>1. /\ live' = NoDir /\ pc' = "carry" /\ UNCHANGED <<tmp, logs, job>>
        /\ parked' = IF live = NoDir THEN parked ELSE [parked EXCEPT ![0] = live]
    BY <1>0, <1>2 DEF Park
  <2>2. \A d \in Dirs' : d \in Dirs /\ SameFile(d, d)
    BY <2>1, <1>0 DEF Dirs, SameFile, TypeOK
  <2>3. AllUnread'
    BY <2>1, <2>2, UnreadStays
  <2>4. Parked' \subseteq Parked \union {0}
    BY <2>1 DEF Parked, TypeOK
  <2>5. Single' /\ Apart' /\ Marked'
    BY <2>1, <2>4 DEF Single, Apart, Marked, Unparked, HasManifest
  <2>. QED  BY <2>3, <2>5
<1>3. CASE Install
  <2>1. live' = tmp /\ tmp' = NoDir /\ pc' = "tidy" /\ tmp # NoDir /\ UNCHANGED <<parked, logs, job>>
    BY <1>3 DEF Install, Present
  <2>2. live'.pend = 0
    BY <2>1 DEF Marked
  <2>3. \A d \in Dirs' : d.pend = 0 \/ (d \in Dirs /\ SameFile(d, d))
    BY <2>1, <2>2 DEF Dirs, SameFile
  <2>4. AllUnread'
    BY <2>1, <2>3, UnreadStays
  <2>5. Single' /\ Apart' /\ Marked'
    BY <2>1, <2>2 DEF Single, Apart, Marked, Unparked, Parked
  <2>. QED  BY <2>4, <2>5
<1>4. CASE Restore
  <2>1. pc = "restore" /\ pc' \in {"undo", "idle"} /\ job' = NoJob /\ UNCHANGED <<tmp, logs>>
    BY <1>4 DEF Restore, Abandon
  <2>2. CASE UNCHANGED <<live, parked>>
    <3>1. AllUnread'
      BY <2>1, <2>2, UnreadSame
    <3>2. Single' /\ Apart' /\ Marked'
      BY <2>1, <2>2, NoJobKept DEF Single, Apart, Marked, Unparked, HasManifest, Parked
    <3>. QED  BY <3>1, <3>2
  <2>3. CASE live' = parked[0] /\ parked[0] # NoDir /\ parked' = [parked EXCEPT ![0] = NoDir]
    <3>1. Parked' = {}
      BY <2>3 DEF Single, Parked, TypeOK
    <3>2. \A d \in Dirs' : d \in Dirs /\ SameFile(d, d)
      BY <2>3, <1>0 DEF Dirs, SameFile, TypeOK
    <3>3. AllUnread'
      BY <2>1, <3>2, UnreadStays
    <3>4. Single' /\ Apart' /\ Marked'
      BY <2>1, <3>1, NoJobKept DEF Single, Apart, Marked, Unparked
    <3>. QED  BY <3>3, <3>4
  <2>. QED  BY <1>0, <1>4, <2>2, <2>3 DEF Restore
<1>5. CASE Tidy
  <2>1. PICK stay \in MayStay : parked' = Cleared(stay)
    BY <1>5 DEF Tidy
  <2>2. Parked' = {} /\ Dirs' = {live'} \ {NoDir}
    BY <2>1, AllCleared
  <2>3. /\ pc = "tidy" /\ pc' \in {"words", "idle"} /\ job' \in {job, NoJob}
        /\ UNCHANGED <<live, tmp, logs>>
    BY <1>5 DEF Tidy
  <2>4. \A d \in Dirs' : d \in Dirs /\ SameFile(d, d)
    BY <2>2, <2>3 DEF Dirs, SameFile
  <2>5. AllUnread'
    BY <2>3, <2>4, UnreadStays
  <2>6. Single' /\ Apart' /\ Marked'
    BY <1>0, <2>2, <2>3, NoJobKept DEF Single, Apart, Marked, Unparked
  <2>. QED  BY <2>5, <2>6
<1>. QED  BY <1>1, <1>2, <1>3, <1>4, <1>5

\* The waiting text moves between the parked index and the staged one.
LEMMA TailCarry ==
  ASSUME TailInv, TypeInv', CarryState \/ InstallRefused
  PROVE  TailInv'
<1>. USE DEF TailInv, TypeInv
<1>1. /\ pc \in {"carry", "install"} /\ pc' \in {"install", "restore"}
      /\ UNCHANGED <<live, logs, job>> /\ job.spot \in Spots /\ job.spot = 0
  BY ConstantsAssumption DEF CarryState, InstallRefused, Single, Spots
<1>2. CASE UNCHANGED <<parked, tmp>>
  <2>1. AllUnread'
    BY <1>1, <1>2, UnreadSame
  <2>2. Single' /\ Apart' /\ Marked'
    BY <1>1, <1>2 DEF Single, Apart, Marked, Unparked, HasManifest, Parked
  <2>. QED  BY <2>1, <2>2
<1>3. ASSUME NEW b \in BOOLEAN, NEW c \in BOOLEAN, parked[job.spot] # NoDir, tmp # NoDir,
             parked' = [parked EXCEPT ![job.spot].deferred = b], tmp' = [tmp EXCEPT !.deferred = c]
      PROVE  TailInv'
  <2>. DEFINE d == parked[job.spot]
              e == [d EXCEPT !.deferred = b]
  <2>1. d \in Dir /\ tmp \in Dir
    BY <1>1, <1>3 DEF TypeOK
  <2>2. e \in Dir /\ e # NoDir /\ SameFile(e, d) /\ SameFile(tmp', tmp)
    BY <2>1, <1>3, DirDeferred, DirKept
  <2>3. parked' = [parked EXCEPT ![job.spot] = e]
    BY <1>3
  <2>. HIDE DEF d, e
  <2>4. Parked' = Parked
    BY <1>1, <1>3, <2>2, <2>3 DEF Parked, TypeOK, d
  <2>5. \A f \in Dirs' : f = e \/ (f \in Dirs /\ SameFile(f, f))
    BY <1>1, <2>2, <2>3 DEF Dirs, TypeOK, SameFile
  <2>6. d \in Dirs
    BY <1>1, <1>3 DEF Dirs, d
  <2>7. AllUnread'
    BY <1>1, <2>2, <2>5, <2>6, UnreadStays
  <2>8. Single' /\ Apart' /\ Marked'
    BY <1>1, <1>3, <2>2, <2>4 DEF Single, Apart, Marked, Unparked, HasManifest, SameFile
  <2>. QED  BY <2>7, <2>8
<1>4. CASE CarryState
  <2>1. tmp # NoDir
    BY <1>4 DEF CarryState, Present
  <2>. QED  BY <1>2, <1>3, <1>4, <2>1 DEF CarryState
<1>5. CASE InstallRefused
  <2>1. tmp # NoDir
    BY <1>5 DEF InstallRefused, Present
  <2>2. tmp.deferred => parked[job.spot] # NoDir
    BY <1>5 DEF InstallRefused, Present
  <2>. QED  BY <1>2, <1>3, <1>5, <2>1, <2>2 DEF InstallRefused
<1>. QED  BY <1>4, <1>5

\* The scrub.
LEMMA TailScrub ==
  ASSUME TailInv, TypeInv', BlankWords \/ ZeroRecord \/ Unscrub
  PROVE  TailInv'
<1>. USE DEF TailInv, TypeInv
<1>1. /\ pc \in {"words", "zero"} /\ live \in Dir /\ live # NoDir /\ live.pend = 0 /\ job \in Job
  BY DEF BlankWords, ZeroRecord, Unscrub, Present, TypeOK, Marked
<1>2. CASE BlankWords \/ Unscrub
  <2>1. live' # NoDir /\ live' \in Dir /\ SameFile(live', live)
    <3>1. live.posted \in SUBSET Nat
      BY <1>1, DirFields
    <3>2. CASE BlankWords
      <4>1. PICK P \in SUBSET Nat : live' = [live EXCEPT !.posted = P]
        BY <3>1, <3>2 DEF BlankWords
      <4>2. live' \in Dir /\ SameFile(live', live)
        BY <1>1, <4>1, DirKept DEF Dir
      <4>. QED  BY <4>2, DirFields
    <3>3. CASE Unscrub
      <4>1. live' \in Dir /\ SameFile(live', live)
        BY <1>1, <3>3, DirKept DEF Unscrub, Dir
      <4>. QED  BY <4>1, DirFields
    <3>. QED  BY <1>2, <3>2, <3>3
  <2>2. UNCHANGED <<tmp, parked, logs>> /\ pc' \in {"zero", "ready", "idle"}
    BY <1>2 DEF BlankWords, Unscrub, ScrubDone
  <2>3. job'.spot = 0
    <3>1. job.spot = 0 /\ {} \in SUBSET Nat
      BY DEF Single
    <3>. QED  BY <1>1, <1>2, <3>1, JobKept, NoJobKept DEF BlankWords, Unscrub, ScrubDone
  <2>4. AllUnread' /\ Parked' = Parked
    BY <1>1, <2>1, <2>2, TailInPlace
  <2>5. Single' /\ Apart' /\ Marked'
    BY <1>1, <2>1, <2>2, <2>3, <2>4 DEF Single, Apart, Marked, Unparked, HasManifest, SameFile
  <2>. QED  BY <2>4, <2>5
<1>3. CASE ZeroRecord
  <2>1. /\ UNCHANGED <<live, tmp, parked, pc>>
        /\ \E o : logs' = [logs EXCEPT ![live.log][o] = Erased]
        /\ \E o : job' = [job EXCEPT !.dead = job.dead \ {o}]
    BY <1>3 DEF ZeroRecord
  <2>2. job'.spot = job.spot
    <3>1. PICK o : job' = [job EXCEPT !.dead = job.dead \ {o}]
      BY <2>1
    <3>2. job.dead \ {o} \in SUBSET Nat
      BY <1>1, JobFields
    <3>. QED  BY <1>1, <3>1, <3>2, JobKept
  <2>3. CASE HasManifest(live)
    <3>1. Dirs' = {live}
      BY <1>1, <2>1, <2>3, AloneDirs DEF Dirs
    <3>2. AllUnread'
      BY <1>1, <2>1, <3>1 DEF AllUnread, Unread
    <3>. QED  BY <3>2, <1>1, <2>1, <2>2 DEF Single, Apart, Marked, Unparked, HasManifest, Parked
  <2>4. CASE ~HasManifest(live)
    <3>1. live.log \notin LogIds
      BY <1>1, <2>4, ConstantsAssumption DEF HasManifest
    <3>2. logs' = logs
      BY <2>1, <3>1 DEF TypeOK
    <3>3. AllUnread'
      BY <2>1, <3>2, UnreadSame
    <3>. QED  BY <3>3, <1>1, <2>1, <2>2 DEF Single, Apart, Marked, Unparked, HasManifest, Parked
  <2>. QED  BY <2>3, <2>4
<1>. QED  BY <1>2, <1>3

\* No index, no log.
LEMMA TailInit == Init => TailInv
<1>. SUFFICES ASSUME Init PROVE TailInv
  OBVIOUS
<1>1. TypeInv
  BY TypeInit
<1>2. Parked = {} /\ Dirs = {} /\ live = NoDir /\ tmp = NoDir /\ pc = "idle" /\ job.spot = 0
  BY NoJobKept DEF Init, Parked, Dirs
<1>. QED  BY <1>1, <1>2 DEF TailInv, Single, Apart, Marked, AllUnread, Unparked, HasManifest

\* Every step keeps the tail unread.
LEMMA TailNext ==
  ASSUME "remove" \notin Refusals, TailInv, [Next]_vars
  PROVE  TailInv'
<1>1. TypeInv'
  BY TypeNext DEF TailInv
<1>. QED
  BY <1>1, TailQuiet, TailHook, TailRecover, TailCut, TailBegin, TailWrite, TailSealed, TailSwap, TailCarry, TailScrub
     DEF Next, Holder, Recover, Commit, Scrub

\* While a pass appends to the log of the live index, and after it was killed,
\* no reader of a manifest on disk finds the new tail under a session, and
\* undoAppend cuts exactly that tail.
THEOREM TailNeverRead ==
  ASSUME "remove" \notin Refusals
  PROVE  Spec => []TailUnread
<1>1. TailInv => TailUnread
  <2>. SUFFICES ASSUME TailInv PROVE TailUnread
    OBVIOUS
  <2>1. ({live} \union {parked[n] : n \in Parked}) \ {NoDir} \subseteq Dirs
    BY DEF Dirs, Parked
  <2>. QED  BY <2>1 DEF TailInv, AllUnread, Unread, TailUnread
<1>2. TailInv /\ [Next]_vars => TailInv'
  BY TailNext
<1>. QED  BY TailInit, <1>1, <1>2, PTL DEF Spec

-----------------------------------------------------------------------------
(* What the manifests vouch for.                                            *)

\* What a transcript keeps from version to version: a turn's first companion
\* starts its own run of turns, and a later version never reaches further back.
DocOrder ==
  \A s \in Sessions : \A v \in 1..Len(doc[s]) :
    /\ doc[s][v] \in 1..v /\ doc[s][doc[s][v]] = doc[s][v]
    /\ \A w \in v..Len(doc[s]) : doc[s][v] <= doc[s][w]

\* X is what s held at version n or a later one that only added to it, and at n
\* while its transcript is there.
OnlyAdds(s, n, v) == v = n \/ (n # 0 /\ doc[s][v] = doc[s][n])
From(s, n, X) == \E v \in n..Len(doc[s]) : X = Turns(s, v) /\ OnlyAdds(s, n, v)
AtRow(s, n, X) == \E v \in n..Len(doc[s]) : X = Turns(s, v) /\ OnlyAdds(s, n, v) /\ (s \notin gone => v = n)

\* A session with an id has been read.
IdsRead(strs, rows) == \A k \in DOMAIN strs : rows[strs[k]] # 0

\* No turn is filed twice under a session, and no erased record under any.
Distinct(m, log, to) ==
  \A s \in Sessions : \A o \in Offsets(m, log, to, s) :
    /\ log[o].turn # << >>
    /\ \A p \in Offsets(m, log, to, s) : log[o].turn = log[p].turn => o = p

\* A manifest that tells the truth of its log.  The last part is what a rebuild
\* relies on, which reads the log to its end.
Truthful(d, log) ==
  /\ d.log = NoLog => d.size = 0 /\ d.dead = {} /\ \A s \in Sessions : d.rows[s] = 0
  /\ d.log # NoLog =>
       /\ d.size \in 1..Len(log) /\ d.dead \subseteq 1..d.size
       /\ \A o \in 1..d.size : log[o].kid \in 0..Len(d.strs)
       /\ \A s \in Sessions : AtRow(s, d.rows[s], Carried(d, log, d.size, s))
       /\ Distinct(d, log, d.size)
       /\ IdsRead(d.strs, d.rows)
       /\ \A s \in Sessions : From(s, d.rows[s], Carried(d, log, Len(log), s))
AllTruthful == \A d \in Dirs : Truthful(d, LogOf(d))

\* A manifest names records of the log, and knows every id in it.
Knows(m, log) ==
  /\ m.dead \subseteq 1..Len(log)
  /\ \A o \in 1..Len(log) : log[o].kid \in 0..Len(m.strs)

\* The manifest a pass is about to write, and what it will vouch for: the log
\* as it is and the turns to come.
Plan == [strs |-> job.strs, dead |-> IF job.pass = "append" THEN live.dead ELSE DeadAfter]
Covers(m, log, todo, rows) ==
  /\ Knows(m, log) /\ IdsRead(m.strs, rows)
  /\ \A s \in Sessions : AtRow(s, rows[s], Carried(m, log, Len(log), s) \union {t \in todo : t[1] = s})
  /\ Distinct(m, log, Len(log))
  /\ \A s \in Sessions : \A o \in Offsets(m, log, Len(log), s) : log[o].turn \notin todo
  /\ Len(log) > 0 \/ todo # {}

\* A pass that appends in place: the key table only grows, by sessions that had
\* no id, and the log holds of a session it knew a version that only adds turns.
InPlace(strs, log) ==
  /\ Len(live.strs) <= Len(strs) /\ \A k \in 1..Len(live.strs) : strs[k] = live.strs[k]
  /\ \A k \in (Len(live.strs) + 1)..Len(strs) : \A j \in 1..Len(live.strs) : live.strs[j] # strs[k]
  /\ \A s \in Sessions : live.rows[s] # 0 =>
       From(s, live.rows[s], Carried([strs |-> strs, dead |-> live.dead], log, Len(log), s))

Writing ==
  pc = "write" =>
    /\ Covers(Plan, logs[Target], job.todo, job.rows)
    /\ job.pass = "append" => InPlace(job.strs, logs[Target])

Staging == {"clear", "park", "carry", "install"}
Staged ==
  /\ pc \in Staging => tmp.log # NoLog /\ Truthful(tmp, LogOf(tmp)) /\ job.dead \subseteq tmp.dead
  /\ pc \in {"tidy", "words", "zero"} => job.dead \subseteq live.dead

LogInv == TailInv /\ DocOrder /\ AllTruthful /\ Writing /\ Staged

\* A directory as its records are read.
SameRecords(d, e) == d.log = e.log /\ d.size = e.size /\ d.strs = e.strs /\ d.dead = e.dead /\ d.rows = e.rows

-----------------------------------------------------------------------------
(* Turns and versions.                                                      *)

\* What a version holds.
LEMMA TurnsIs ==
  ASSUME TypeOK, DocOrder, NEW s \in Sessions, NEW v \in 0..Len(doc[s])
  PROVE  /\ Len(doc[s]) \in Nat
         /\ v = 0 => Turns(s, v) = {}
         /\ v > 0 => /\ doc[s][v] \in 1..v /\ <<s, v>> \in Turns(s, v)
                     /\ \A t : t \in Turns(s, v) <=> \E n \in doc[s][v]..v : t = <<s, n>>
         /\ \A t \in Turns(s, v) : t \in Sessions \X Nat /\ t = <<s, t[2]>> /\ t[1] = s /\ t[2] \in 1..v
<1>1. Len(doc[s]) \in Nat
  BY LenProperties DEF TypeOK
<1>2. CASE v = 0
  BY <1>1, <1>2 DEF Turns
<1>3. CASE v > 0
  <2>1. doc[s][v] \in 1..v
    BY <1>1, <1>3 DEF DocOrder
  <2>2. Turns(s, v) = {s} \X (doc[s][v]..v)
    BY <1>3 DEF Turns
  <2>. QED  BY <1>1, <1>3, <2>1, <2>2
<1>. QED  BY <1>1, <1>2, <1>3

\* The transcripts only grow, and go.
EnvGrows ==
  /\ \A s \in Sessions : /\ Len(doc[s]) <= Len(doc'[s])
                         /\ \A v \in 1..Len(doc[s]) : doc'[s][v] = doc[s][v]
  /\ gone \subseteq gone'

\* A step of the index leaves the transcripts as they grew.
LEMMA EnvStays ==
  ASSUME TypeOK, UNCHANGED env
  PROVE  EnvGrows
<1>1. \A s \in Sessions : Len(doc[s]) \in Nat
  BY LenProperties DEF TypeOK
<1>. QED  BY <1>1 DEF env, EnvGrows

\* A client only adds versions.
LEMMA ClientGrows ==
  ASSUME TypeOK, DocOrder, Client
  PROVE  EnvGrows /\ DocOrder'
<1>1. PICK s \in Sessions : Say(s) \/ Delete(s)
  BY DEF Client
<1>2. CASE Delete(s)
  BY <1>2, EnvStays DEF Delete, EnvGrows, env, DocOrder, TypeOK
<1>3. CASE Say(s)
  <2>1. PICK f \in {Len(doc[s]) + 1} \union {doc[s][v] : v \in {Len(doc[s])} \ {0}} :
          doc' = [doc EXCEPT ![s] = Append(doc[s], f)]
    BY <1>3 DEF Say
  <2>. DEFINE n == Len(doc[s])
  <2>2. doc[s] \in Seq(Nat \ {0}) /\ n \in Nat /\ \A u \in Sessions : Len(doc[u]) \in Nat
    BY LenProperties DEF TypeOK
  <2>3. f = n + 1 \/ (n > 0 /\ f = doc[s][n] /\ f \in 1..n /\ doc[s][f] = f)
    <3>1. f = n + 1 \/ (n # 0 /\ f = doc[s][n])
      BY <2>1
    <3>2. n # 0 => n > 0 /\ n \in 1..n
      BY <2>2
    <3>3. n \in 1..n => doc[s][n] \in 1..n /\ doc[s][doc[s][n]] = doc[s][n]
      BY DEF DocOrder
    <3>. HIDE DEF n
    <3>. QED  BY <3>1, <3>2, <3>3
  <2>4. f \in Nat \ {0} /\ f \in 1..(n + 1)
    BY <2>2, <2>3
  <2>5. doc'[s] = Append(doc[s], f) /\ \A u \in Sessions : u # s => doc'[u] = doc[u]
    BY <2>1 DEF TypeOK
  <2>6. /\ Len(doc'[s]) = n + 1 /\ doc'[s][n + 1] = f
        /\ \A v \in 1..n : doc'[s][v] = doc[s][v]
    BY <2>2, <2>4, <2>5, AppendProperties
  <2>7. EnvGrows
    BY <1>3, <2>2, <2>5, <2>6 DEF EnvGrows, Say
  <2>8. ASSUME NEW v \in 1..(n + 1)
        PROVE  /\ doc'[s][v] \in 1..v /\ doc'[s][doc'[s][v]] = doc'[s][v]
               /\ \A w \in v..(n + 1) : doc'[s][v] <= doc'[s][w]
    <3>. HIDE DEF n
    <3>0. /\ \A k \in 1..n : doc[s][k] \in 1..k /\ doc[s][doc[s][k]] = doc[s][k]
          /\ \A k \in 1..n : \A w \in k..n : doc[s][k] <= doc[s][w]
      BY DEF DocOrder, n
    <3>1. CASE v = n + 1
      <4>1. doc'[s][f] = f
        BY <2>2, <2>3, <2>4, <2>6
      <4>. QED  BY <2>2, <2>4, <2>6, <3>1, <4>1
    <3>2. CASE v \in 1..n
      <4>1. doc'[s][v] = doc[s][v] /\ doc[s][v] \in 1..v /\ doc[s][v] \in 1..n /\ doc[s][doc[s][v]] = doc[s][v]
        BY <2>2, <2>6, <3>0, <3>2
      <4>2. doc'[s][doc'[s][v]] = doc'[s][v]
        BY <2>6, <4>1
      <4>3. \A w \in v..n : doc'[s][w] = doc[s][w] /\ doc[s][v] <= doc[s][w]
        BY <2>2, <2>6, <3>0, <3>2
      <4>4. doc[s][v] <= f
        BY <2>2, <2>3, <3>0, <3>2, <4>1, <4>3
      <4>5. ASSUME NEW w \in v..(n + 1) PROVE doc'[s][v] <= doc'[s][w]
        <5>1. CASE w = n + 1
          BY <5>1, <2>6, <4>1, <4>4
        <5>2. CASE w \in v..n
          BY <5>2, <4>1, <4>3
        <5>. QED  BY <2>2, <5>1, <5>2
      <4>. QED  BY <4>1, <4>2, <4>5
    <3>. QED  BY <2>2, <3>1, <3>2
  <2>9. DocOrder'
    <3>1. SUFFICES ASSUME NEW u \in Sessions, NEW v \in 1..Len(doc'[u])
                   PROVE  /\ doc'[u][v] \in 1..v /\ doc'[u][doc'[u][v]] = doc'[u][v]
                          /\ \A w \in v..Len(doc'[u]) : doc'[u][v] <= doc'[u][w]
      BY DEF DocOrder
    <3>2. CASE u = s
      BY <2>6, <2>8, <3>2
    <3>3. CASE u # s
      BY <2>5, <3>3 DEF DocOrder
    <3>. QED  BY <3>2, <3>3
  <2>. QED  BY <2>7, <2>9
<1>. QED  BY <1>1, <1>2, <1>3

\* A version stays what it was.
LEMMA VersionsStay ==
  ASSUME TypeOK, TypeOK', DocOrder, EnvGrows, NEW s \in Sessions
  PROVE  /\ \A v \in 0..Len(doc[s]) : v \in 0..Len(doc[s])' /\ Turns(s, v)' = Turns(s, v)
         /\ \A n \in Nat : \A X : From(s, n, X) => From(s, n, X)'
         /\ \A n \in Nat : \A X : AtRow(s, n, X) => AtRow(s, n, X)'
<1>1. Len(doc[s]) \in Nat /\ Len(doc'[s]) \in Nat /\ Len(doc[s]) <= Len(doc'[s])
  BY LenProperties DEF TypeOK, EnvGrows
<1>2. ASSUME NEW v \in 0..Len(doc[s])
      PROVE  v \in 0..Len(doc[s])' /\ Turns(s, v)' = Turns(s, v)
  <2>1. v \in 0..Len(doc[s])'
    BY <1>1
  <2>2. v # 0 => doc'[s][v] = doc[s][v]
    BY <1>1 DEF EnvGrows
  <2>. QED  BY <2>1, <2>2 DEF Turns
<1>5. ASSUME NEW n \in Nat, NEW v \in n..Len(doc[s]), OnlyAdds(s, n, v)
      PROVE  OnlyAdds(s, n, v)'
  <2>1. n # 0 => doc'[s][v] = doc[s][v] /\ doc'[s][n] = doc[s][n]
    BY <1>1 DEF EnvGrows
  <2>. QED  BY <1>5, <2>1 DEF OnlyAdds
<1>3. ASSUME NEW n \in Nat, NEW X, From(s, n, X)
      PROVE  From(s, n, X)'
  <2>1. PICK v \in n..Len(doc[s]) : X = Turns(s, v) /\ OnlyAdds(s, n, v)
    BY <1>3 DEF From
  <2>. QED  BY <1>1, <1>2, <1>5, <2>1 DEF From
<1>4. ASSUME NEW n \in Nat, NEW X, AtRow(s, n, X)
      PROVE  AtRow(s, n, X)'
  <2>1. PICK v \in n..Len(doc[s]) : X = Turns(s, v) /\ OnlyAdds(s, n, v) /\ (s \notin gone => v = n)
    BY <1>4 DEF AtRow
  <2>2. s \notin gone' => s \notin gone
    BY DEF EnvGrows
  <2>. QED  BY <1>1, <1>2, <1>5, <2>1, <2>2 DEF AtRow
<1>. QED  BY <1>2, <1>3, <1>4

-----------------------------------------------------------------------------
(* What a manifest files under a session, as the log changes.               *)

\* The records a manifest reads are those up to its size.
SameUpTo(to, a, b) == \A o \in 1..to : a[o] = b[o]
SameReads(d, a, b, to) ==
  /\ \A s : Offsets(d, a, to, s) = Offsets(d, b, to, s)
  /\ \A s : Carried(d, a, to, s) = Carried(d, b, to, s)
  /\ Distinct(d, a, to) <=> Distinct(d, b, to)

\* A manifest reads the same of two logs that agree up to its size.
LEMMA SamePrefix ==
  ASSUME NEW d, NEW to, NEW a, NEW b, SameUpTo(to, a, b)
  PROVE  SameReads(d, a, b, to)
<1>1. ASSUME NEW s
      PROVE  Offsets(d, a, to, s) = Offsets(d, b, to, s)
  BY DEF Offsets, SameUpTo
<1>2. \A s : Offsets(d, a, to, s) \subseteq 1..to
  BY DEF Offsets
<1>3. ASSUME NEW s
      PROVE  Carried(d, a, to, s) = Carried(d, b, to, s)
  BY <1>1, <1>2 DEF Carried, SameUpTo
<1>4. Distinct(d, a, to) <=> Distinct(d, b, to)
  <2>1. \A s : \A o \in Offsets(d, b, to, s) : a[o] = b[o]
    BY <1>1, <1>2 DEF SameUpTo
  <2>. QED  BY <1>1, <2>1 DEF Distinct
<1>. QED  BY <1>1, <1>3, <1>4 DEF SameReads

\* Two manifests that agree on what they read.
LEMMA SameManifest ==
  ASSUME NEW d, NEW e, d.strs = e.strs, d.dead = e.dead, NEW log, NEW to
  PROVE  /\ \A s : Offsets(d, log, to, s) = Offsets(e, log, to, s)
         /\ \A s : Carried(d, log, to, s) = Carried(e, log, to, s)
         /\ Distinct(d, log, to) <=> Distinct(e, log, to)
<1>1. \A s : Offsets(d, log, to, s) = Offsets(e, log, to, s)
  BY DEF Offsets
<1>. QED  BY <1>1 DEF Carried, Distinct

\* Records past the size under ids the manifest has not, or erased ones, are
\* read under no session.
Nobodys(d, log, m, n) == \A o \in (m + 1)..n : o \in d.dead \/ log[o].kid \notin DOMAIN d.strs

SameEnd(d, log, m, n) ==
  /\ \A s : Offsets(d, log, n, s) = Offsets(d, log, m, s)
  /\ \A s : Carried(d, log, n, s) = Carried(d, log, m, s)

\* What is under no id of the manifest adds nothing to what it reads.
LEMMA TailIsNobodys ==
  ASSUME NEW d, NEW m \in Nat, NEW n \in Nat, m <= n, NEW log, Nobodys(d, log, m, n)
  PROVE  SameEnd(d, log, m, n)
<1>1. 1..n = (1..m) \union ((m + 1)..n)
  OBVIOUS
<1>2. ASSUME NEW s
      PROVE  Offsets(d, log, n, s) = Offsets(d, log, m, s)
  BY <1>1 DEF Offsets, Nobodys
<1>. QED  BY <1>2 DEF Carried, SameEnd

\* A dead record erased.
SameBut(o, a, b) == \A p : p # o => b[p] = a[p]

\* Nor does it matter to a manifest what a record it lists as dead becomes.
LEMMA ErasedIsNobodys ==
  ASSUME NEW d, NEW o \in d.dead, NEW log, NEW b, SameBut(o, log, b)
  PROVE  /\ \A to, s : Offsets(d, b, to, s) = Offsets(d, log, to, s)
         /\ \A to, s : Carried(d, b, to, s) = Carried(d, log, to, s)
         /\ \A to : Distinct(d, b, to) <=> Distinct(d, log, to)
<1>1. \A to, s : Offsets(d, b, to, s) = Offsets(d, log, to, s)
  BY DEF Offsets, SameBut
<1>2. \A to, s : \A p \in Offsets(d, log, to, s) : b[p] = log[p]
  BY DEF Offsets, SameBut
<1>3. ASSUME NEW to, NEW s
      PROVE  Carried(d, b, to, s) = Carried(d, log, to, s)
  BY ONLY <1>1, <1>2 DEF Carried
<1>4. ASSUME NEW to
      PROVE  Distinct(d, b, to) <=> Distinct(d, log, to)
  BY ONLY <1>1, <1>2 DEF Distinct
<1>. QED  BY ONLY <1>1, <1>3, <1>4

\* e has the dead records of m and its key table, or one with an id more.
KeysGrow(m, e) ==
  /\ e.dead = m.dead /\ m.strs \in Seq(Sessions) /\ e.strs \in Seq(Sessions)
  /\ Len(e.strs) \in {Len(m.strs), Len(m.strs) + 1}
  /\ \A k \in 1..Len(m.strs) : e.strs[k] = m.strs[k]

\* A record appended under the id of its session: the one it is filed under.
Filed(m, log, e, r, b, n) ==
  /\ b \in Seq(Record) /\ Len(b) = n + 1 /\ n \in Nat /\ b[n + 1] = r
  /\ \A o \in 1..n : b[o] = log[o]
  /\ \A o \in 1..(n + 1) : b[o].kid \in 0..Len(e.strs)
  /\ \A u \in Sessions : Offsets(e, b, n + 1, u)
       = Offsets(m, log, n, u) \union (IF u = e.strs[r.kid] THEN {n + 1} ELSE {})

\* A record appended under a known id is one more of that session and none of another.
LEMMA AppendedIsFiled ==
  ASSUME NEW m, NEW log \in Seq(Record), Knows(m, log), NEW e, KeysGrow(m, e),
         NEW r \in Record, r.kid \in 1..Len(e.strs),
         NEW b, b = Append(log, r), NEW n, n = Len(log)
  PROVE  Filed(m, log, e, r, b, n)
<1>1. /\ b \in Seq(Record) /\ Len(b) = n + 1 /\ n \in Nat /\ b[n + 1] = r
      /\ \A o \in 1..n : b[o] = log[o]
  BY AppendProperties, LenProperties
<1>0. /\ m.dead \subseteq 1..n /\ \A o \in 1..n : log[o].kid \in 0..Len(m.strs)
      /\ e.dead = m.dead /\ m.strs \in Seq(Sessions) /\ e.strs \in Seq(Sessions)
      /\ Len(e.strs) \in {Len(m.strs), Len(m.strs) + 1}
      /\ \A k \in 1..Len(m.strs) : e.strs[k] = m.strs[k]
  BY DEF Knows, KeysGrow
<1>2. DOMAIN m.strs = 1..Len(m.strs) /\ DOMAIN e.strs = 1..Len(e.strs) /\ Len(m.strs) \in Nat /\ Len(e.strs) \in Nat
  BY <1>0, LenProperties
<1>3. \A o \in 1..(n + 1) : b[o].kid \in 0..Len(e.strs)
  <2>1. \A o \in 1..n : b[o].kid \in 0..Len(e.strs)
    BY <1>0, <1>1, <1>2
  <2>2. b[n + 1].kid \in 0..Len(e.strs)
    BY <1>0, <1>1, <1>2
  <2>. QED  BY <1>1, <2>1, <2>2
<1>4. ASSUME NEW u \in Sessions
      PROVE  Offsets(e, b, n + 1, u) = Offsets(m, log, n, u) \union (IF u = e.strs[r.kid] THEN {n + 1} ELSE {})
  <2>1. ASSUME NEW o \in 1..n
        PROVE  o \in Offsets(e, b, n + 1, u) <=> o \in Offsets(m, log, n, u)
    <3>1. log[o].kid \in DOMAIN e.strs /\ e.strs[log[o].kid] = u
            <=> log[o].kid \in DOMAIN m.strs /\ m.strs[log[o].kid] = u
      <4>1. log[o].kid = 0 \/ log[o].kid \in 1..Len(m.strs)
        BY <1>0, <1>2
      <4>. QED  BY <1>0, <1>2, <4>1
    <3>2. b[o] = log[o] /\ o \in 1..(n + 1)
      BY <1>1
    <3>. QED  BY <1>0, <3>1, <3>2 DEF Offsets
  <2>2. n + 1 \in Offsets(e, b, n + 1, u) <=> u = e.strs[r.kid]
    <3>1. n + 1 \notin m.dead /\ n + 1 \in 1..(n + 1)
      BY <1>0, <1>1
    <3>. QED  BY <1>0, <1>1, <1>2, <3>1 DEF Offsets
  <2>3. Offsets(e, b, n + 1, u) \subseteq 1..(n + 1) /\ Offsets(m, log, n, u) \subseteq 1..n
    BY DEF Offsets
  <2>4. 1..(n + 1) = (1..n) \union {n + 1}
    BY <1>1
  <2>. QED  BY <2>1, <2>2, <2>3, <2>4
<1>. QED  BY <1>1, <1>3, <1>4 DEF Filed

\* A turn written is one turn less to write.
OneMore(m, log, e, b, t) ==
  \A u \in Sessions : Carried(e, b, Len(b), u)
    = Carried(m, log, Len(log), u) \union (IF u = t[1] THEN {t} ELSE {})

\* A record written is off what is still to be written, and on what the log holds.
LEMMA CoversStep ==
  ASSUME NEW m, NEW log \in Seq(Record), NEW todo \in SUBSET (Sessions \X Nat), NEW rows,
         Covers(m, log, todo, rows), NEW e, KeysGrow(m, e),
         NEW t \in todo, NEW r \in Record, r.kid \in 1..Len(e.strs), e.strs[r.kid] = t[1], r.turn = t,
         Len(e.strs) # Len(m.strs) => r.kid = Len(e.strs),
         NEW b, b = Append(log, r)
  PROVE  Covers(e, b, todo \ {t}, rows) /\ OneMore(m, log, e, b, t)
<1>. DEFINE n == Len(log)
            new(u) == IF u = t[1] THEN {n + 1} ELSE {}
            one(u) == IF u = t[1] THEN {t} ELSE {}
<1>1. /\ m.dead \subseteq 1..n
      /\ \A o \in 1..n : log[o].kid \in 0..Len(m.strs)
      /\ \A s \in Sessions : AtRow(s, rows[s], Carried(m, log, n, s) \union {u \in todo : u[1] = s})
      /\ Distinct(m, log, n)
      /\ \A s \in Sessions : \A o \in Offsets(m, log, n, s) : log[o].turn \notin todo
  BY DEF Covers, Knows
<1>2. /\ b \in Seq(Record) /\ Len(b) = n + 1 /\ n \in Nat /\ b[n + 1] = r
      /\ \A o \in 1..n : b[o] = log[o]
      /\ \A o \in 1..(n + 1) : b[o].kid \in 0..Len(e.strs)
      /\ \A u \in Sessions : Offsets(e, b, n + 1, u) = Offsets(m, log, n, u) \union new(u)
  <2>1. Knows(m, log) /\ b = Append(log, r) /\ n = Len(log)
    BY <1>1 DEF Knows
  <2>. HIDE DEF n
  <2>2. Filed(m, log, e, r, b, n)
    BY <2>1, AppendedIsFiled
  <2>. QED  BY <2>2 DEF Filed
<1>3. t \in Sessions \X Nat /\ t # << >>
  OBVIOUS
<1>. HIDE DEF n, new, one
<1>4. \A u \in Sessions : \A o \in Offsets(m, log, n, u) : o \in 1..n /\ o # n + 1 /\ b[o] = log[o]
  BY <1>2 DEF Offsets
<1>5. ASSUME NEW u \in Sessions
      PROVE  Carried(e, b, n + 1, u) = Carried(m, log, n, u) \union one(u)
  <2>1. {b[o].turn : o \in Offsets(e, b, n + 1, u)}
           = {log[o].turn : o \in Offsets(m, log, n, u)} \union one(u)
    <3>1. Offsets(e, b, n + 1, u) = Offsets(m, log, n, u) \union new(u)
      BY <1>2
    <3>2. \A o \in Offsets(m, log, n, u) : b[o].turn = log[o].turn
      BY <1>4
    <3>3. b[n + 1].turn = t
      BY <1>2
    <3>4. CASE u = t[1]
      <4>1. new(u) = {n + 1} /\ one(u) = {t}
        BY <3>4 DEF new, one
      <4>. QED  BY ONLY <3>1, <3>2, <3>3, <4>1
    <3>5. CASE u # t[1]
      <4>1. new(u) = {} /\ one(u) = {}
        BY <3>5 DEF new, one
      <4>. QED  BY <3>1, <3>2, <4>1
    <3>. QED  BY <3>4, <3>5
  <2>2. one(u) \ {<< >>} = one(u)
    BY <1>3 DEF one
  <2>. QED  BY <2>1, <2>2 DEF Carried
<1>6. \A u \in Sessions : AtRow(u, rows[u], Carried(e, b, n + 1, u) \union {x \in todo \ {t} : x[1] = u})
  <2>1. SUFFICES ASSUME NEW u \in Sessions
                 PROVE  Carried(e, b, n + 1, u) \union {x \in todo \ {t} : x[1] = u}
                          = Carried(m, log, n, u) \union {x \in todo : x[1] = u}
    BY <1>1
  <2>. QED  BY <1>5 DEF one
<1>7. Distinct(e, b, n + 1)
  <2>1. SUFFICES ASSUME NEW u \in Sessions, NEW o \in Offsets(e, b, n + 1, u)
                 PROVE  /\ b[o].turn # << >>
                        /\ \A p \in Offsets(e, b, n + 1, u) : b[o].turn = b[p].turn => o = p
    BY DEF Distinct
  <2>2. /\ \A p \in Offsets(m, log, n, u) : b[p].turn = log[p].turn /\ log[p].turn # << >> /\ log[p].turn # t
        /\ \A p, q \in Offsets(m, log, n, u) : log[p].turn = log[q].turn => p = q
    BY <1>1, <1>4 DEF Distinct
  <2>3. \A p \in Offsets(e, b, n + 1, u) : p \in Offsets(m, log, n, u) \/ (p = n + 1 /\ b[p].turn = t)
    BY <1>2 DEF new
  <2>. QED  BY <2>2, <2>3, <1>3
<1>8. \A u \in Sessions : \A o \in Offsets(e, b, n + 1, u) : b[o].turn \notin todo \ {t}
  BY <1>1, <1>2, <1>4 DEF new
<1>9. e.dead \subseteq 1..(n + 1)
  BY <1>1, <1>2 DEF KeysGrow
<1>10. Covers(e, b, todo \ {t}, rows)
  <2>1. \A u \in Sessions : AtRow(u, rows[u], Carried(e, b, Len(b), u) \union {x \in todo \ {t} : x[1] = u})
    BY <1>2, <1>6
  <2>2. Distinct(e, b, Len(b)) /\ \A u \in Sessions : \A o \in Offsets(e, b, Len(b), u) : b[o].turn \notin todo \ {t}
    BY <1>2, <1>7, <1>8
  <2>3. Len(b) > 0 /\ e.dead \subseteq 1..Len(b) /\ \A o \in 1..Len(b) : b[o].kid \in 0..Len(e.strs)
    BY <1>2, <1>9
  <2>4. IdsRead(e.strs, rows)
    <3>1. rows[t[1]] # 0
      <4>1. t[1] \in Sessions /\ t \in {u \in todo : u[1] = t[1]}
        BY <1>3
      <4>2. AtRow(t[1], rows[t[1]], Carried(m, log, n, t[1]) \union {u \in todo : u[1] = t[1]})
        BY <1>1, <4>1
      <4>. QED  BY ONLY <4>1, <4>2 DEF AtRow, OnlyAdds, Turns
    <3>2. /\ DOMAIN m.strs = 1..Len(m.strs) /\ DOMAIN e.strs = 1..Len(e.strs)
          /\ Len(m.strs) \in Nat /\ Len(e.strs) \in {Len(m.strs), Len(m.strs) + 1}
          /\ \A k \in 1..Len(m.strs) : e.strs[k] = m.strs[k]
      BY LenProperties DEF KeysGrow
    <3>3. \A k \in 1..Len(m.strs) : rows[m.strs[k]] # 0
      BY <3>2 DEF Covers, IdsRead
    <3>4. \A k \in 1..Len(e.strs) : k \in 1..Len(m.strs) \/ (k = r.kid /\ Len(e.strs) # Len(m.strs))
      BY ONLY <3>2, Len(e.strs) # Len(m.strs) => r.kid = Len(e.strs)
    <3>5. \A k \in 1..Len(e.strs) : rows[e.strs[k]] # 0
      BY <3>1, <3>2, <3>3, <3>4
    <3>. QED  BY <3>2, <3>5 DEF IdsRead
  <2>. QED  BY <2>1, <2>2, <2>3, <2>4 DEF Covers, Knows
<1>. QED  BY <1>2, <1>5, <1>10 DEF n, one, OneMore

\* What a pass vouches for stays so as the transcripts grow.
LEMMA CoversStays ==
  ASSUME TypeOK, TypeOK', DocOrder, EnvGrows, NEW m, NEW log, NEW todo, NEW rows \in [Sessions -> Nat],
         Covers(m, log, todo, rows)
  PROVE  Covers(m, log, todo, rows)'
<1>1. \A s \in Sessions : AtRow(s, rows[s], Carried(m, log, Len(log), s) \union {t \in todo : t[1] = s})'
  BY VersionsStay DEF Covers
<1>. QED  BY <1>1 DEF Covers, Knows, Distinct, Offsets

\* So does what a manifest says.
LEMMA TruthfulStays ==
  ASSUME TypeOK, TypeOK', DocOrder, EnvGrows, NEW d \in Dir, NEW log, Truthful(d, log)
  PROVE  Truthful(d, log)'
<1>1. d.rows \in [Sessions -> Nat]
  BY DirFields
<1>2. ASSUME NEW s \in Sessions, d.log # NoLog
      PROVE  /\ AtRow(s, d.rows[s], Carried(d, log, d.size, s))'
             /\ From(s, d.rows[s], Carried(d, log, Len(log), s))'
  BY <1>1, <1>2, VersionsStay DEF Truthful
<1>. QED  BY <1>2 DEF Truthful, Distinct, Offsets

\* Manifests with the same records tell the same truth.
LEMMA SameTruth ==
  ASSUME NEW d, NEW e, SameRecords(d, e), NEW log, Truthful(e, log)
  PROVE  Truthful(d, log)
<1>1. d.log = e.log /\ d.size = e.size /\ d.strs = e.strs /\ d.dead = e.dead /\ d.rows = e.rows
  BY DEF SameRecords
<1>2. \A to : /\ \A s : Carried(d, log, to, s) = Carried(e, log, to, s)
              /\ Distinct(d, log, to) <=> Distinct(e, log, to)
  BY <1>1, SameManifest
<1>. QED  BY <1>1, <1>2 DEF Truthful

\* The manifests on disk after a step.
LEMMA TruthStep ==
  ASSUME TypeOK, TypeOK', DocOrder, EnvGrows, AllTruthful,
         \A d \in Dirs' : \/ Truthful(d, LogOf(d)')
                          \/ \E e \in Dirs : SameRecords(d, e) /\ LogOf(e)' = LogOf(e)
  PROVE  AllTruthful'
<1>1. SUFFICES ASSUME NEW d \in Dirs' PROVE Truthful(d, LogOf(d))'
  BY DEF AllTruthful
<1>2. d \in Dir
  BY DEF Dirs, TypeOK
<1>3. Truthful(d, LogOf(d)')
  <2>1. CASE \E e \in Dirs : SameRecords(d, e) /\ LogOf(e)' = LogOf(e)
    <3>1. PICK e \in Dirs : SameRecords(d, e) /\ LogOf(e)' = LogOf(e)
      BY <2>1
    <3>2. Truthful(e, LogOf(e)) /\ LogOf(d)' = LogOf(e)
      BY <3>1 DEF AllTruthful, LogOf, SameRecords
    <3>3. \A log : Truthful(e, log) => Truthful(d, log)
      BY <3>1, SameTruth
    <3>. QED  BY <3>2, <3>3
  <2>. QED  BY <2>1
<1>4. ASSUME NEW log, log = LogOf(d)'
      PROVE  Truthful(d, log)'
  BY <1>2, <1>3, <1>4, TruthfulStays
<1>. QED  BY <1>4

-----------------------------------------------------------------------------
(* Every manifest stays true: the steps that move directories.              *)

\* No log is written and no record read elsewhere than before.
LEMMA LogSameFiles ==
  ASSUME LogInv, TailInv', UNCHANGED <<env, logs>>, pc' # "write", Staged',
         \A d \in Dirs' : \E e \in Dirs : SameRecords(d, e)
  PROVE  LogInv'
<1>. USE DEF LogInv, TailInv, TypeInv
<1>1. EnvGrows
  BY EnvStays
<1>2. \A e : LogOf(e)' = LogOf(e)
  BY DEF LogOf
<1>3. AllTruthful'
  BY <1>1, <1>2, TruthStep
<1>4. DocOrder'
  BY DEF DocOrder, env
<1>. QED  BY <1>3, <1>4 DEF Writing

\* A directory reads as itself.
LEMMA SameRecordsRefl == \A d : SameRecords(d, d)
BY DEF SameRecords

\* One field of a directory that no reader of its records looks at.
LEMMA RecordsKept ==
  ASSUME NEW d \in Dir
  PROVE  /\ \A b \in BOOLEAN : SameRecords([d EXCEPT !.deferred = b], d)
         /\ \A b \in BOOLEAN : SameRecords([d EXCEPT !.scrub = b], d)
         /\ \A p \in SUBSET Nat : SameRecords([d EXCEPT !.posted = p], d)
         /\ \A n \in Nat : SameRecords([d EXCEPT !.pend = n], d)
         /\ \A n \in Nat : SameRecords([d EXCEPT !.stamp = n, !.size = d.size], d)
BY DEF Dir, SameRecords

\* Nothing on disk changes and no pass begins.
LEMMA LogOffDisk ==
  ASSUME LogInv, TailInv', UNCHANGED disk, EnvGrows, DocOrder',
         pc' \in {"write"} \union Staging \union {"tidy", "zero"} => pc' = pc /\ job' = job,
         pc' = "words" => (pc = "words" /\ job' = job) \/ job'.dead \subseteq live.dead
  PROVE  LogInv'
<1>. USE DEF LogInv, TailInv, TypeInv, disk
<1>1. \A e : LogOf(e)' = LogOf(e)
  BY DEF LogOf
<1>2. Dirs' = Dirs
  BY DEF Dirs
<1>3. AllTruthful'
  BY <1>1, <1>2, SameRecordsRefl, TruthStep
<1>4. Staged'
  <2>1. ASSUME pc' \in Staging
        PROVE  tmp'.log # NoLog /\ Truthful(tmp, LogOf(tmp))' /\ job'.dead \subseteq tmp'.dead
    <3>1. tmp \in Dir /\ tmp.log # NoLog /\ Truthful(tmp, LogOf(tmp)) /\ job'.dead \subseteq tmp.dead
      BY <2>1 DEF Staged, Staging, Present, TypeOK
    <3>. QED  BY <1>1, <3>1, TruthfulStays
  <2>. QED  BY <2>1 DEF Staged
<1>5. Writing'
  <2>1. SUFFICES ASSUME pc = "write", job' = job
                 PROVE  /\ Covers(Plan, logs[Target], job.todo, job.rows)'
                        /\ job.pass = "append" => InPlace(job.strs, logs[Target])'
    BY DEF Writing
  <2>2. Plan' = Plan /\ Target' = Target
    BY <2>1 DEF Plan, Target, DeadAfter
  <2>3. job.rows \in [Sessions -> Nat]
    BY JobFields DEF TypeOK
  <2>4. Covers(Plan, logs[Target], job.todo, job.rows)
    BY <2>1 DEF Writing
  <2>5. Covers(Plan, logs[Target], job.todo, job.rows)'
    BY <2>1, <2>2, <2>3, <2>4, CoversStays
  <2>6. ASSUME job.pass = "append"
        PROVE  InPlace(job.strs, logs[Target])'
    <3>1. InPlace(job.strs, logs[Target]) /\ live \in Dir
      BY <2>1, <2>6 DEF Writing, Present, HasManifest, TypeOK
    <3>2. live.rows \in [Sessions -> Nat]
      BY <3>1, DirFields
    <3>3. ASSUME NEW s \in Sessions, NEW X, From(s, live.rows[s], X)
          PROVE  From(s, live.rows[s], X)'
      BY <3>2, <3>3, VersionsStay
    <3>4. \A s : Carried([strs |-> job.strs, dead |-> live.dead], logs[Target], Len(logs[Target]), s)'
                  = Carried([strs |-> job.strs, dead |-> live.dead], logs[Target], Len(logs[Target]), s)
      BY <2>1, <2>2 DEF Carried, Offsets
    <3>5. \A s \in Sessions : (live.rows[s] # 0)' => From(s, live.rows[s], Carried([strs |-> job.strs, dead |-> live.dead],
                                        logs[Target], Len(logs[Target]), s))'
      BY <2>1, <2>2, <3>1, <3>3, <3>4 DEF InPlace
    <3>. QED  BY <2>1, <2>2, <3>1, <3>5 DEF InPlace
  <2>. QED  BY <2>5, <2>6
<1>. QED  BY <1>3, <1>4, <1>5

\* Steps that touch neither a directory nor a log.
LEMMA LogQuiet ==
  ASSUME LogInv, TailInv',
         Client \/ Lock \/ NothingToCut \/ Rescrub \/ Fail \/ ScrubStops \/ Crash \/ UNCHANGED vars
  PROVE  LogInv'
<1>. USE DEF LogInv, TailInv, TypeInv
<1>1. CASE Client
  <2>1. UNCHANGED <<disk, pc, job>>
    BY <1>1 DEF Client, Say, Delete
  <2>2. EnvGrows /\ DocOrder'
    BY <1>1, ClientGrows
  <2>. QED  BY <2>1, <2>2, LogOffDisk
<1>2. CASE ~Client
  <2>1. UNCHANGED disk /\ UNCHANGED env
    BY <1>2 DEF Lock, NothingToCut, Rescrub, Fail, ScrubStops, Crash, vars, disk, env
  <2>2. EnvGrows /\ DocOrder'
    BY <2>1, EnvStays DEF DocOrder, env
  <2>3. pc' \in {"write"} \union Staging \union {"tidy", "zero"} => pc' = pc /\ job' = job
    BY <1>2 DEF Lock, NothingToCut, Rescrub, Fail, Abandon, ScrubStops, ScrubDone, Crash, vars, Staging
  <2>4. pc' = "words" => (pc = "words" /\ job' = job) \/ job'.dead \subseteq live.dead
    <3>1. CASE Rescrub /\ pc' = "words"
      <4>1. live \in Dir /\ job \in Job /\ job' = [job EXCEPT !.dead = live.dead]
        BY <3>1 DEF Rescrub, TypeOK
      <4>. QED  BY <4>1 DEF Job
    <3>2. CASE ~Rescrub
      BY <1>2, <3>2 DEF Lock, NothingToCut, Fail, Abandon, ScrubStops, ScrubDone, Crash, vars
    <3>. QED  BY <3>1, <3>2
  <2>. QED  BY <2>1, <2>2, <2>3, <2>4, LogOffDisk
<1>. QED  BY <1>1, <1>2

\* The steps of the lock taker and of the swap that move a directory, or
\* rewrite what no reader of its records looks at.
LEMMA LogMoves ==
  ASSUME LogInv, TailInv', "remove" \notin Refusals,
         \/ RecoverPresent \/ RecoverMissing \/ Unmark \/ DropStaging \/ Leave \/ WriteMetadata
         \/ ClearSpot \/ Park \/ Restore \/ Tidy
  PROVE  LogInv'
<1>. USE DEF LogInv, TailInv, TypeInv
<1>1. UNCHANGED <<env, logs>> /\ pc' # "write"
  BY DEF RecoverPresent, RecoverMissing, Unmark, DropStaging, Leave, WriteMetadata, ClearSpot, Park, Restore, Abandon, Tidy
<1>2. CASE RecoverPresent \/ Tidy
  <2>1. live' = live /\ \E stay \in MayStay : parked' = Cleared(stay)
    BY <1>2 DEF RecoverPresent, Tidy
  <2>2. \A d \in Dirs' : \E e \in Dirs : SameRecords(d, e)
    BY <2>1, AllCleared, SameRecordsRefl DEF Dirs
  <2>3. Staged'
    BY <1>2 DEF RecoverPresent, Tidy, Staged, Staging
  <2>. QED  BY <1>1, <2>2, <2>3, LogSameFiles
<1>3. CASE RecoverMissing \/ Restore
  <2>1. pc' \in {"untail", "undo", "idle"}
    BY <1>3 DEF RecoverMissing, Restore, Abandon
  <2>2. \/ UNCHANGED <<live, parked>>
        \/ \E n \in Spots : live' = parked[n] /\ parked' = [parked EXCEPT ![n] = NoDir]
    BY <1>3, NewestType DEF RecoverMissing, Restore, TypeOK, Job
  <2>3. \A d \in Dirs' : d \in Dirs
    BY <2>2 DEF Dirs, TypeOK
  <2>4. Staged'
    BY <2>1 DEF Staged, Staging
  <2>. QED  BY <1>1, <2>3, <2>4, SameRecordsRefl, LogSameFiles
<1>4. CASE Unmark
  <2>1. pc' \in {"drop", "rescrub"} /\ parked' = parked
    BY <1>4 DEF Unmark
  <2>2. live' = NoDir \/ (live \in Dir /\ live' = [live EXCEPT !.pend = 0])
    BY <1>4 DEF Unmark, TypeOK
  <2>3. \A d \in Dirs' : \E e \in Dirs : SameRecords(d, e)
    <3>1. \A d \in Dirs' : d = live' \/ d \in Dirs
      BY <2>1 DEF Dirs
    <3>2. live' # NoDir => live \in Dirs /\ SameRecords(live', live)
      <4>1. ASSUME live \in Dir, live' = [live EXCEPT !.pend = 0]
            PROVE  live \in Dirs /\ SameRecords(live', live)
        BY <4>1, RecordsKept, DirFields DEF Dirs
      <4>. QED  BY <2>2, <4>1
    <3>. QED  BY <3>1, <3>2, SameRecordsRefl DEF Dirs
  <2>4. Staged'
    BY <2>1 DEF Staged, Staging
  <2>. QED  BY <1>1, <2>3, <2>4, LogSameFiles
<1>5. CASE DropStaging \/ Leave
  <2>1. pc' = "idle" /\ UNCHANGED <<live, parked>>
    BY <1>5 DEF DropStaging, Leave
  <2>2. Dirs' = Dirs
    BY <2>1 DEF Dirs
  <2>. QED  BY <1>1, <2>1, <2>2, SameRecordsRefl, LogSameFiles DEF Staged, Staging
<1>6. CASE WriteMetadata
  <2>1. /\ pc' = "idle" /\ parked' = parked /\ live \in Dir /\ live # NoDir /\ live.log # NoLog
        /\ live' = [live EXCEPT !.stamp = writes + 1,
                          !.size = IF live.size > 0 THEN live.size ELSE Len(LogOf(live))]
    BY <1>6 DEF WriteMetadata, HasManifest, TypeOK
  <2>2. live \in Dirs /\ live.size \in 1..Len(LogOf(live))
    BY <2>1 DEF AllTruthful, Truthful, Dirs
  <2>3. writes + 1 \in Nat /\ live.size > 0
    BY <2>2, ConstantsAssumption DEF TypeOK
  <2>4. SameRecords(live', live)
    BY <2>1, <2>3, RecordsKept
  <2>5. \A d \in Dirs' : d = live' \/ d \in Dirs
    BY <2>1 DEF Dirs
  <2>. QED  BY <1>1, <2>1, <2>2, <2>4, <2>5, SameRecordsRefl, LogSameFiles DEF Staged, Staging
<1>7. CASE ClearSpot
  <2>1. PICK stay \in MayStay :
          /\ parked' = Cleared(stay)
          /\ \E n : job' = [job EXCEPT !.spot = n]
    BY <1>7 DEF ClearSpot
  <2>2. pc = "clear" /\ pc' = "park" /\ UNCHANGED <<live, tmp>>
    BY <1>7 DEF ClearSpot
  <2>3. \A d \in Dirs' : \E e \in Dirs : SameRecords(d, e)
    BY <2>1, <2>2, AllCleared, SameRecordsRefl DEF Dirs
  <2>4. job'.dead = job.dead
    BY <2>1 DEF TypeOK, Job
  <2>5. Staged'
    <3>1. Truthful(tmp, LogOf(tmp))' = Truthful(tmp, LogOf(tmp))
      BY <1>1, <2>2 DEF env, LogOf, Truthful, IdsRead, AtRow, From, OnlyAdds, Turns, Carried, Distinct, Offsets
    <3>. QED  BY <2>2, <2>4, <3>1 DEF Staged, Staging
  <2>. QED  BY <1>1, <2>3, <2>5, LogSameFiles
<1>8. CASE Park
  <2>1. /\ live' = NoDir /\ pc = "park" /\ pc' = "carry" /\ UNCHANGED <<tmp, job>>
        /\ parked' = IF live = NoDir THEN parked ELSE [parked EXCEPT ![job.spot] = live]
    BY <1>8 DEF Park
  <2>2. \A d \in Dirs' : d \in Dirs
    BY <2>1 DEF Dirs, TypeOK
  <2>3. Staged'
    <3>1. Truthful(tmp, LogOf(tmp))' = Truthful(tmp, LogOf(tmp))
      BY <1>1, <2>1 DEF env, LogOf, Truthful, IdsRead, AtRow, From, OnlyAdds, Turns, Carried, Distinct, Offsets
    <3>. QED  BY <2>1, <3>1 DEF Staged, Staging
  <2>. QED  BY <1>1, <2>2, <2>3, SameRecordsRefl, LogSameFiles
<1>. QED  BY <1>2, <1>3, <1>4, <1>5, <1>6, <1>7, <1>8

\* The carried text is no part of what a manifest reads.
LEMMA LogCarry ==
  ASSUME LogInv, TailInv', CarryState \/ InstallRefused
  PROVE  LogInv'
<1>. USE DEF LogInv, TailInv, TypeInv
<1>1. /\ pc' \in {"install", "restore"} /\ (pc' = "install" => pc = "carry")
      /\ UNCHANGED <<env, live, logs, job>> /\ job.spot \in Spots
  BY JobFields DEF CarryState, InstallRefused, TypeOK
<1>2. PICK b \in BOOLEAN, c \in BOOLEAN :
         \/ UNCHANGED <<parked, tmp>>
         \/ /\ parked[job.spot] # NoDir /\ tmp # NoDir
            /\ parked' = [parked EXCEPT ![job.spot].deferred = b]
            /\ tmp' = [tmp EXCEPT !.deferred = c]
  BY DEF CarryState, InstallRefused, Present
<1>3. /\ \A d \in Dirs' : \E e \in Dirs : SameRecords(d, e)
      /\ tmp # NoDir => SameRecords(tmp', tmp)
  <2>1. CASE UNCHANGED <<parked, tmp>>
    BY <1>1, <2>1, SameRecordsRefl DEF Dirs
  <2>2. CASE /\ parked[job.spot] # NoDir /\ tmp # NoDir
             /\ parked' = [parked EXCEPT ![job.spot].deferred = b]
             /\ tmp' = [tmp EXCEPT !.deferred = c]
    <3>. DEFINE d == parked[job.spot]
                e == [d EXCEPT !.deferred = b]
    <3>1. d \in Dir /\ tmp \in Dir /\ d \in Dirs
      BY <1>1, <2>2 DEF TypeOK, Dirs
    <3>2. parked' = [parked EXCEPT ![job.spot] = e]
      BY <2>2
    <3>3. SameRecords(e, d) /\ SameRecords(tmp', tmp)
      BY <3>1, <2>2, RecordsKept
    <3>. HIDE DEF d, e
    <3>4. \A f \in Dirs' : f = e \/ f \in Dirs
      BY <1>1, <3>2 DEF Dirs, TypeOK
    <3>. QED  BY <3>1, <3>3, <3>4, SameRecordsRefl
  <2>. QED  BY <1>2, <2>1, <2>2
<1>4. Staged'
  <2>1. SUFFICES ASSUME pc' = "install"
                 PROVE  tmp'.log # NoLog /\ Truthful(tmp, LogOf(tmp))' /\ job'.dead \subseteq tmp'.dead
    BY <1>1 DEF Staged, Staging
  <2>2. tmp # NoDir /\ tmp.log # NoLog /\ Truthful(tmp, LogOf(tmp)) /\ job.dead \subseteq tmp.dead
    BY <1>1, <2>1 DEF Staged, Staging, Present
  <2>3. SameRecords(tmp', tmp) /\ Truthful(tmp', LogOf(tmp))
    BY <1>3, <2>2, SameTruth
  <2>4. LogOf(tmp)' = LogOf(tmp)
    BY <1>1, <2>3 DEF LogOf, SameRecords
  <2>5. tmp' \in Dir
    BY <2>1 DEF TypeOK, Present
  <2>6. \A d \in Dir : \A g : Truthful(d, g) => Truthful(d, g)'
    BY <1>1, EnvStays, TruthfulStays
  <2>. QED  BY <1>1, <2>2, <2>3, <2>4, <2>5, <2>6 DEF SameRecords
<1>. QED  BY <1>1, <1>3, <1>4, LogSameFiles

\* The staged index takes its place.
LEMMA LogInstall ==
  ASSUME LogInv, TailInv', Install
  PROVE  LogInv'
<1>. USE DEF LogInv, TailInv, TypeInv
<1>1. /\ pc = "install" /\ pc' = "tidy" /\ live' = tmp /\ UNCHANGED <<env, parked, logs, job>>
  BY DEF Install
<1>2. tmp # NoDir /\ Truthful(tmp, LogOf(tmp)) /\ job.dead \subseteq tmp.dead
  BY <1>1 DEF Staged, Staging, Present
<1>3. \A e : LogOf(e)' = LogOf(e)
  BY <1>1 DEF LogOf
<1>4. \A d \in Dirs' : d = tmp \/ d \in Dirs
  BY <1>1 DEF Dirs
<1>5. EnvGrows
  BY <1>1, EnvStays
<1>6. \A d \in Dirs' : \/ Truthful(d, LogOf(d)')
                       \/ \E e \in Dirs : SameRecords(d, e) /\ LogOf(e)' = LogOf(e)
  BY <1>2, <1>3, <1>4, SameRecordsRefl
<1>7. AllTruthful'
  BY <1>5, <1>6, TruthStep
<1>8. Staged'
  BY <1>1, <1>2 DEF Staged, Staging
<1>9. DocOrder'
  BY <1>1 DEF DocOrder, env
<1>. QED  BY <1>1, <1>7, <1>8, <1>9 DEF Writing

\* The hooks.
LEMMA LogHook ==
  ASSUME LogInv, TailInv', Hook
  PROVE  LogInv'
<1>. USE DEF LogInv, TailInv, TypeInv
<1>1. /\ UNCHANGED <<env, tmp, parked, logs, pc, job>>
      /\ \/ live = NoDir /\ live' = Hollow
         \/ live # NoDir /\ live \in Dir /\ live' # NoDir /\ SameRecords(live', live)
  <2>1. CASE MakeHollow
    BY <2>1 DEF MakeHollow
  <2>2. CASE Defer \/ Take
    <3>1. live \in Dir /\ live # NoDir
      BY <2>2 DEF Defer, Take, HasManifest, TypeOK
    <3>2. PICK b \in BOOLEAN : live' = [live EXCEPT !.deferred = b]
      BY <2>2 DEF Defer, Take
    <3>. QED  BY <2>2, <3>1, <3>2, RecordsKept, DirDeferred DEF Defer, Take
  <2>. QED  BY <2>1, <2>2, HookDoes
<1>2. EnvGrows /\ DocOrder' /\ \A e : LogOf(e)' = LogOf(e)
  BY <1>1, EnvStays DEF DocOrder, env, LogOf
<1>3. AllTruthful'
  <2>1. \A log : Truthful(Hollow, log)
    BY HollowFields DEF Truthful
  <2>2. \A d \in Dirs' : \/ Truthful(d, LogOf(d)')
                         \/ \E e \in Dirs : SameRecords(d, e) /\ LogOf(e)' = LogOf(e)
    <3>1. \A d \in Dirs' : d = live' \/ d \in Dirs
      BY <1>1 DEF Dirs
    <3>2. live # NoDir => live \in Dirs
      BY DEF Dirs
    <3>. QED  BY <1>1, <1>2, <2>1, <3>1, <3>2, SameRecordsRefl
  <2>. QED  BY <1>2, <2>2, TruthStep
<1>4. Staged'
  <2>1. Truthful(tmp, LogOf(tmp))' = Truthful(tmp, LogOf(tmp))
    BY <1>1 DEF env, LogOf, Truthful, IdsRead, AtRow, From, OnlyAdds, Turns, Carried, Distinct, Offsets
  <2>2. pc \in {"tidy", "words", "zero"} => live # NoDir
    BY DEF Present
  <2>. QED  BY <1>1, <2>1, <2>2 DEF Staged, SameRecords
<1>5. Writing'
  <2>1. SUFFICES ASSUME pc = "write"
                 PROVE  /\ Covers(Plan, logs[Target], job.todo, job.rows)'
                        /\ job.pass = "append" => InPlace(job.strs, logs[Target])'
    BY <1>1 DEF Writing
  <2>2. job.pass \in {"append", "replace"} => SameRecords(live', live)
    BY <1>1, <2>1 DEF Present, HasManifest
  <2>3. Plan' = Plan /\ Target' = Target
    BY <1>1, <2>1, <2>2 DEF Plan, Target, DeadAfter, Marked, SameRecords
  <2>4. Covers(Plan, logs[Target], job.todo, job.rows)'
    <3>1. Covers(Plan, logs[Target], job.todo, job.rows)
      BY <2>1 DEF Writing
    <3>2. job.rows \in [Sessions -> Nat]
      BY JobFields DEF TypeOK
    <3>. QED  BY <1>1, <1>2, <2>3, <3>1, <3>2, CoversStays
  <2>5. ASSUME job.pass = "append"
        PROVE  InPlace(job.strs, logs[Target])'
    <3>1. InPlace(job.strs, logs[Target]) /\ SameRecords(live', live)
      BY <2>1, <2>2, <2>5 DEF Writing
    <3>2. \A s : Carried([strs |-> job.strs, dead |-> live.dead], logs[Target], Len(logs[Target]), s)'
                  = Carried([strs |-> job.strs, dead |-> live.dead], logs[Target], Len(logs[Target]), s)
      BY <1>1, <2>3, <3>1 DEF Carried, Offsets, SameRecords
    <3>3. \A s \in Sessions : \A X : From(s, live.rows[s], X)' = From(s, live.rows[s], X)
      BY <1>1, <3>1 DEF From, OnlyAdds, Turns, SameRecords, env
    <3>4. \A s \in Sessions : (live.rows[s] # 0)' => From(s, live.rows[s], Carried([strs |-> job.strs, dead |-> live.dead],
                                        logs[Target], Len(logs[Target]), s))'
      BY <3>1, <3>2, <3>3 DEF InPlace, SameRecords
    <3>. QED  BY <1>1, <2>3, <3>1, <3>4 DEF InPlace, SameRecords
  <2>. QED  BY <2>4, <2>5
<1>. QED  BY <1>2, <1>3, <1>4, <1>5

\* Words leave the postings, and the mark goes.
LEMMA LogWords ==
  ASSUME LogInv, TailInv', BlankWords \/ Unscrub
  PROVE  LogInv'
<1>. USE DEF LogInv, TailInv, TypeInv
<1>1. /\ pc \in {"words", "zero"} /\ live \in Dir /\ live # NoDir /\ job \in Job
      /\ UNCHANGED <<env, tmp, parked, logs>>
  BY DEF BlankWords, Unscrub, Present, TypeOK
<1>2. SameRecords(live', live)
  <2>1. live.posted \in SUBSET Nat
    BY <1>1, DirFields
  <2>2. CASE BlankWords
    <3>1. PICK P \in SUBSET Nat : live' = [live EXCEPT !.posted = P]
      BY <2>1, <2>2 DEF BlankWords
    <3>. QED  BY <1>1, <3>1, RecordsKept
  <2>3. CASE Unscrub
    BY <1>1, <2>3, RecordsKept DEF Unscrub
  <2>. QED  BY <2>2, <2>3
<1>3. \A d \in Dirs' : \E e \in Dirs : SameRecords(d, e)
  <2>1. live \in Dirs /\ \A d \in Dirs' : d = live' \/ d \in Dirs
    BY <1>1 DEF Dirs
  <2>. QED  BY <1>2, <2>1, SameRecordsRefl
<1>4. Staged' /\ pc' # "write"
  <2>1. pc' \in {"zero", "ready", "idle"} /\ (pc' = "zero" => job' = job)
    BY DEF BlankWords, Unscrub, ScrubDone
  <2>. QED  BY <1>1, <1>2, <2>1 DEF Staged, Staging, SameRecords
<1>. QED  BY <1>1, <1>3, <1>4, LogSameFiles

-----------------------------------------------------------------------------
(* Every manifest stays true: the steps that write a log.                   *)

\* The only manifest on disk after a step is dir's.
LEMMA LogAlone ==
  ASSUME LogInv, TailInv', UNCHANGED env, Dirs' = {live}, live' = live, live \in Dir,
         Truthful(live, LogOf(live)'), pc' \notin Staging \union {"write"},
         pc' \in {"tidy", "words", "zero"} => job'.dead \subseteq live.dead
  PROVE  LogInv'
<1>. USE DEF LogInv, TailInv, TypeInv
<1>1. EnvGrows /\ DocOrder'
  BY EnvStays DEF DocOrder, env
<1>2. AllTruthful'
  BY <1>1, TruthStep
<1>. QED  BY <1>1, <1>2 DEF Staged, Writing

\* A dead record is erased.
LEMMA LogZero ==
  ASSUME LogInv, TailInv', ZeroRecord
  PROVE  LogInv'
<1>. USE DEF LogInv, TailInv, TypeInv
<1>1. PICK o \in job.dead : /\ logs' = [logs EXCEPT ![live.log][o] = Erased]
                            /\ job' = [job EXCEPT !.dead = job.dead \ {o}]
  <2>1. job.dead # {} /\ job.dead \in SUBSET Nat
    BY JobFields DEF ZeroRecord, TypeOK
  <2>2. \E n \in job.dead : \A k \in job.dead : n <= k
    BY <2>1, LeastExists
  <2>. QED  BY <2>2 DEF ZeroRecord
<1>2. pc = "zero" /\ pc' = "zero" /\ UNCHANGED <<env, live, tmp, parked>>
  BY DEF ZeroRecord
<1>3. live \in Dir /\ live \in Dirs /\ live # NoDir /\ o \in live.dead /\ job'.dead \subseteq live.dead
  BY <1>1, <1>2 DEF Present, Staged, TypeOK, Job, Dirs
<1>4. live.log # NoLog /\ live.log \in LogIds /\ HasManifest(live)
  BY <1>3, DirFields DEF AllTruthful, Truthful, HasManifest
<1>5. Dirs' = {live}
  BY <1>2, <1>4, AloneDirs DEF Dirs
<1>. DEFINE log == LogOf(live)
            b == [log EXCEPT ![o] = Erased]
<1>6. log = logs[live.log] /\ log \in Seq(Record) /\ LogOf(live)' = b
  BY <1>1, <1>2, <1>4 DEF LogOf, TypeOK
<1>7. Truthful(live, log)
  BY <1>3 DEF AllTruthful
<1>8. Len(b) = Len(log) /\ \A k \in 1..Len(log) : b[k].kid \in {log[k].kid, 0}
  BY <1>6 DEF Erased
<1>9. Truthful(live, b)
  <2>. HIDE DEF log
  <2>1. /\ \A s : Carried(live, b, live.size, s) = Carried(live, log, live.size, s)
        /\ \A s : Carried(live, b, Len(log), s) = Carried(live, log, Len(log), s)
        /\ Distinct(live, b, live.size) <=> Distinct(live, log, live.size)
    <3>1. o \in live.dead /\ SameBut(o, log, b)
      BY <1>3 DEF SameBut
    <3>. HIDE DEF b
    <3>. QED  BY ONLY <3>1, ErasedIsNobodys
  <2>2. live.size \in 1..Len(log) /\ \A k \in 1..live.size : k \in 1..Len(log)
    BY <1>4, <1>6, <1>7, LenProperties DEF Truthful
  <2>3. Len(live.strs) \in Nat
    BY <1>3, DirFields, LenProperties
  <2>. HIDE DEF b
  <2>4. \A k \in 1..live.size : b[k].kid \in 0..Len(live.strs)
    BY <1>4, <1>7, <1>8, <2>2, <2>3 DEF Truthful
  <2>. QED  BY <1>4, <1>7, <1>8, <2>1, <2>2, <2>4 DEF Truthful
<1>. HIDE DEF b, log
<1>. QED  BY <1>2, <1>3, <1>5, <1>6, <1>9, LogAlone DEF Staging

\* The tail is cut off, and no record the manifest commits.
LEMMA CutKeeps ==
  ASSUME LogInv, CutTail
  PROVE  /\ pc' \in {"undone", "unmark"} /\ UNCHANGED <<env, live, parked>> /\ Dirs' = {live}
         /\ live \in Dirs /\ live \in Dir /\ live.size \in Nat /\ live.log # NoLog
         /\ Len(LogOf(live)') = live.size /\ \A o \in 1..live.size : LogOf(live)'[o] = LogOf(live)[o]
<1>. USE DEF LogInv, TailInv, TypeInv
<1>1. /\ pc \in {"untail", "undo"} /\ pc' \in {"undone", "unmark"} /\ AppendMarked
      /\ UNCHANGED <<env, live, tmp, parked, job>>
  BY DEF CutTail
<1>2. /\ live \in Dir /\ live.pend = live.size /\ live.log \in LogIds /\ HasManifest(live)
      /\ live.size <= Len(LogOf(live)) /\ live \in Dirs
  BY <1>1, MarkedIsWhole DEF Dirs, HasManifest
<1>3. Dirs' = {live}
  BY <1>1, <1>2, AloneDirs DEF Dirs
<1>. DEFINE log == logs[live.log]
            p == live.size
            b == logs'[live.log]
<1>4. log \in Seq(Record) /\ Len(log) \in Nat /\ p \in Nat /\ LogOf(live) = log
  BY <1>2, DirFields, LenProperties DEF TypeOK, LogOf, HasManifest
<1>5. b = IF Len(log) > p THEN SubSeq(log, 1, p) ELSE log
  BY <1>2 DEF CutTail, TypeOK
<1>6. Len(b) = p /\ \A o \in 1..p : b[o] = log[o]
  <2>1. CASE Len(log) > p
    <3>1. \A i \in 1..p : log[i] \in Record
      BY <1>4, <2>1, ElementOfSeq
    <3>. HIDE DEF log, p, b
    <3>2. Len(SubSeq(log, 1, p)) = p /\ \A o \in 1..p : SubSeq(log, 1, p)[o] = log[o]
      BY <1>4, <3>1, <2>1, SubSeqProperties
    <3>. QED  BY <1>5, <2>1, <3>2
  <2>2. CASE ~(Len(log) > p)
    BY <1>2, <1>4, <1>5, <2>2
  <2>. QED  BY <2>1, <2>2
<1>7. LogOf(live)' = b /\ live.log # NoLog
  BY <1>1, <1>2 DEF LogOf, HasManifest
<1>. HIDE DEF log, b
<1>. QED  BY <1>1, <1>2, <1>3, <1>4, <1>6, <1>7

\* What is cut off is behind the committed size of every manifest over that log.
LEMMA LogCut ==
  ASSUME LogInv, TailInv', CutTail
  PROVE  LogInv'
<1>. DEFINE log == LogOf(live)
            p == live.size
            b == LogOf(live)'
<1>1. /\ pc' \in {"undone", "unmark"} /\ UNCHANGED <<env, live, parked>> /\ Dirs' = {live}
      /\ live \in Dirs /\ live \in Dir /\ p \in Nat /\ live.log # NoLog
      /\ Len(b) = p /\ \A o \in 1..p : b[o] = log[o]
  BY CutKeeps
<1>2. Truthful(live, log)
  BY <1>1 DEF LogInv, AllTruthful
<1>. HIDE DEF log, p, b
<1>3. Truthful(live, b)
  <2>1. /\ \A s : Carried(live, b, p, s) = Carried(live, log, p, s)
        /\ Distinct(live, b, p) <=> Distinct(live, log, p)
    <3>1. SameUpTo(p, b, log)
      BY <1>1 DEF SameUpTo
    <3>2. SameReads(live, b, log, p)
      BY ONLY <3>1, SamePrefix
    <3>. QED  BY ONLY <3>2 DEF SameReads
  <2>2. \A s \in Sessions : AtRow(s, live.rows[s], Carried(live, b, p, s))
    BY <1>1, <1>2, <2>1 DEF Truthful, p
  <2>3. \A s \in Sessions : From(s, live.rows[s], Carried(live, b, Len(b), s))
    BY <1>1, <2>2 DEF AtRow, From
  <2>4. p \in 1..Len(b) /\ \A o \in 1..p : b[o].kid \in 0..Len(live.strs)
    BY <1>1, <1>2 DEF Truthful, p
  <2>. QED  BY <1>1, <1>2, <2>1, <2>2, <2>3, <2>4 DEF Truthful, p
<1>4. Truthful(live, LogOf(live)')
  BY <1>3 DEF b
<1>. QED  BY <1>1, <1>4, LogAlone DEF Staging

\* Nothing is filed in an empty log.
LEMMA EmptyLog ==
  ASSUME NEW d, NEW log
  PROVE  \A s : Offsets(d, log, 0, s) = {} /\ Carried(d, log, 0, s) = {}
<1>1. \A s : Offsets(d, log, 0, s) = {}
  BY DEF Offsets
<1>. QED  BY <1>1 DEF Carried

\* A set of turns is split by session.
LEMMA BySession ==
  ASSUME NEW F, \A s \in Sessions : \A t \in F[s] : t[1] = s
  PROVE  \A s \in Sessions : {t \in UNION {F[u] : u \in Sessions} : t[1] = s} = F[s]
  OBVIOUS

\* The turns of a session at a version are its own.
LEMMA AtRowType ==
  ASSUME TypeOK, DocOrder, NEW s \in Sessions, NEW n \in Nat, NEW X, AtRow(s, n, X)
  PROVE  \A t \in X : t \in Sessions \X Nat /\ t[1] = s
<1>1. PICK v \in n..Len(doc[s]) : X = Turns(s, v)
  BY DEF AtRow
<1>2. v \in 0..Len(doc[s])
  BY LenProperties DEF TypeOK
<1>. QED  BY <1>1, <1>2, TurnsIs

\* A pass that writes the log anew.
LEMMA LogStartLog ==
  ASSUME LogInv, TailInv', ~EmptyIndex, CanBegin, NEW l \in LogIds \ Linked, NEW F, NEW rows \in [Sessions -> Nat],
         StartLog(l, UNION {F[s] : s \in Sessions}, rows), \A s \in Sessions : AtRow(s, rows[s], F[s])
  PROVE  LogInv'
<1>. USE DEF LogInv, TailInv, TypeInv
<1>. DEFINE todo == UNION {F[s] : s \in Sessions}
            m == [strs |-> << >>, dead |-> {}]
<1>1. /\ todo # {} /\ tmp' = [Hollow EXCEPT !.log = l] /\ logs' = [logs EXCEPT ![l] = << >>]
      /\ job' = [NoJob EXCEPT !.pass = "rewrite", !.rows = rows, !.todo = todo]
      /\ pc' = "write" /\ UNCHANGED <<env, live, parked>>
  BY DEF StartLog
<1>2. EnvGrows /\ DocOrder'
  BY <1>1, EnvStays DEF DocOrder, env
<1>3. \A d \in Dirs : d.log # l
  BY DEF Dirs, Linked
<1>4. AllTruthful'
  <2>1. \A d \in Dirs : LogOf(d)' = LogOf(d)
    BY <1>1, <1>3, DirsType, DirFields DEF LogOf, TypeOK
  <2>2. Dirs' = Dirs
    BY <1>1 DEF Dirs
  <2>. QED  BY <1>2, <2>1, <2>2, SameRecordsRefl, TruthStep
<1>5. Covers(m, << >>, todo, rows)
  <2>1. \A s \in Sessions : \A t \in F[s] : t[1] = s
    BY AtRowType
  <2>2. \A s \in Sessions : {t \in todo : t[1] = s} = F[s]
    BY <2>1, BySession
  <2>3. Len(<< >>) = 0
    OBVIOUS
  <2>. HIDE DEF todo
  <2>4. \A s \in Sessions : AtRow(s, rows[s], Carried(m, << >>, Len(<< >>), s) \union {t \in todo : t[1] = s})
    BY <2>2, <2>3, EmptyLog
  <2>5. Distinct(m, << >>, Len(<< >>))
    BY <2>3, EmptyLog DEF Distinct
  <2>6. IdsRead(<< >>, rows)
    BY DEF IdsRead
  <2>. QED  BY <1>1, <2>3, <2>4, <2>5, <2>6, EmptyLog DEF Covers, Knows
<1>6. Target' = l /\ logs'[l] = << >> /\ Plan' = m
  BY <1>1, HollowFields DEF Target, Plan, DeadAfter, NoJob, TypeOK
<1>7. job'.todo = todo /\ job'.rows = rows /\ job'.pass = "rewrite"
  BY <1>1 DEF NoJob
<1>. HIDE DEF m, todo
<1>8. Covers(m, << >>, todo, rows)'
  BY <1>2, <1>5, CoversStays
<1>9. Writing'
  BY <1>6, <1>7, <1>8 DEF Writing
<1>. QED  BY <1>1, <1>2, <1>4, <1>9 DEF Staged, Staging

\* What is on disk of dir, when it has a manifest.
LEMMA LiveIsTrue ==
  ASSUME LogInv, HasManifest(live)
  PROVE  /\ live \in Dir /\ live \in Dirs /\ live.log \in LogIds /\ live.log # NoLog
         /\ LogOf(live) = logs[live.log] /\ logs[live.log] \in Seq(Record)
         /\ Truthful(live, LogOf(live)) /\ live.size \in 1..Len(LogOf(live))
         /\ live.rows \in [Sessions -> Nat]
<1>1. live \in Dir /\ live \in Dirs /\ live.log \in LogIds /\ live.log # NoLog
  BY DirFields DEF LogInv, TailInv, TypeInv, TypeOK, HasManifest, Dirs
<1>2. Truthful(live, LogOf(live))
  BY <1>1 DEF LogInv, AllTruthful
<1>. QED  BY <1>1, <1>2, DirFields DEF Truthful, LogOf, LogInv, TailInv, TypeInv, TypeOK

\* A log written anew starts empty, with all the sessions still to be written.
LEMMA LogRebuild ==
  ASSUME LogInv, TailInv', ~EmptyIndex, NEW l \in LogIds \ Linked,
         Rebuild(l) \/ \E S \in SUBSET Sessions : ReplaceWhole(l, S)
  PROVE  LogInv'
<1>. USE DEF LogInv, TailInv, TypeInv
<1>1. \A s \in Sessions : Len(doc[s]) \in Nat /\ AtRow(s, Len(doc[s]), Text(s))
  BY LenProperties DEF TypeOK, AtRow, OnlyAdds, Text
<1>2. CASE Rebuild(l)
  <2>. DEFINE old == IF HasManifest(live) THEN live ELSE Hollow
              log == LogOf(old)
              F == [s \in Sessions |-> IF s \in gone THEN Carried(old, log, Len(log), s) ELSE Text(s)]
              rows == [s \in Sessions |-> IF s \in gone THEN old.rows[s] ELSE Len(doc[s])]
  <2>1. CanBegin /\ StartLog(l, UNION {F[s] : s \in Sessions}, rows)
    BY <1>2 DEF Rebuild
  <2>2. ASSUME NEW s \in Sessions
        PROVE  old.rows[s] \in Nat /\ From(s, old.rows[s], Carried(old, log, Len(log), s))
    <3>1. CASE HasManifest(live)
      BY <3>1, LiveIsTrue DEF Truthful
    <3>2. CASE ~HasManifest(live)
      <4>1. log = << >> /\ Len(log) = 0 /\ old.rows[s] = 0
        BY <3>2, HollowFields DEF LogOf
      <4>2. Carried(old, log, Len(log), s) = {}
        BY <4>1, EmptyLog
      <4>3. Turns(s, 0) = {} /\ 0 \in 0..Len(doc[s])
        BY <1>1 DEF Turns
      <4>4. From(s, 0, {})
        BY <4>3 DEF From, OnlyAdds
      <4>. HIDE DEF log, old
      <4>. QED  BY <4>1, <4>2, <4>4
    <3>. QED  BY <3>1, <3>2
  <2>3. rows \in [Sessions -> Nat]
    BY <1>1, <2>2
  <2>4. ASSUME NEW s \in Sessions
        PROVE  AtRow(s, rows[s], F[s])
    <3>. HIDE DEF old, log
    <3>. QED  BY <1>1, <2>2 DEF AtRow, From
  <2>. HIDE DEF F, rows
  <2>. QED  BY <2>1, <2>3, <2>4, LogStartLog
<1>3. ASSUME NEW S \in SUBSET Sessions, ReplaceWhole(l, S)
      PROVE  LogInv'
  <2>. DEFINE F == [s \in Sessions |-> IF s \in S THEN Text(s) ELSE Held(live, s)]
  <2>1. CanBegin /\ HasManifest(live) /\ StartLog(l, UNION {F[s] : s \in Sessions}, Reread(S))
    BY <1>3 DEF ReplaceWhole, Intact
  <2>2. live.rows \in [Sessions -> Nat] /\ \A s \in Sessions : AtRow(s, live.rows[s], Held(live, s))
    BY <2>1, LiveIsTrue DEF Truthful, Held
  <2>3. Reread(S) \in [Sessions -> Nat] /\ \A s \in Sessions : AtRow(s, Reread(S)[s], F[s])
    BY <1>1, <2>2 DEF Reread
  <2>. HIDE DEF F
  <2>. QED  BY <2>1, <2>3, LogStartLog
<1>. QED  BY <1>2, <1>3

\* A pass reads no session back to nothing.
LEMMA RereadIsRead ==
  ASSUME TypeOK, NEW S, S \subseteq Stale(live), live \in Dir, IdsRead(live.strs, live.rows)
  PROVE  IdsRead(live.strs, Reread(S))
<1>1. \A k \in DOMAIN live.strs : live.strs[k] \in Sessions /\ live.rows[live.strs[k]] # 0
  BY DirFields, LenProperties DEF IdsRead
<1>2. \A s \in S : live.rows[s] \in Nat /\ Len(doc[s]) \in Nat /\ live.rows[s] < Len(doc[s])
  BY DirFields, LenProperties DEF TypeOK, Stale
<1>. QED  BY <1>1, <1>2 DEF IdsRead, Reread

\* A replacing pass that appends.
LEMMA LogReplace ==
  ASSUME LogInv, TailInv', NEW S \in SUBSET Sessions, ReplaceAppending(S)
  PROVE  LogInv'
<1>. USE DEF LogInv, TailInv, TypeInv
<1>. DEFINE log == logs[live.log]
            n == live.size
            D == UNION {Offsets(live, log, n, s) : s \in S}
            F == [s \in Sessions |-> IF s \in S THEN Text(s) ELSE {}]
            todo == UNION {F[s] : s \in Sessions}
            m == [strs |-> live.strs, dead |-> live.dead \union D]
<1>1. /\ pc' = "write" /\ HasManifest(live) /\ Intact(live) /\ live.size > 0 /\ S \subseteq Stale(live)
      /\ live' = [live EXCEPT !.pend = live.size] /\ tmp' = [Hollow EXCEPT !.log = live.log]
      /\ UNCHANGED <<env, parked, logs>>
  BY DEF ReplaceAppending, Intact
<1>2. /\ live \in Dir /\ live \in Dirs /\ live.log \in LogIds /\ live.log # NoLog
      /\ LogOf(live) = log /\ log \in Seq(Record) /\ Truthful(live, log) /\ n \in 1..Len(log)
      /\ live.rows \in [Sessions -> Nat]
  BY <1>1, LiveIsTrue
<1>3. Len(log) = n /\ n \in Nat
  BY <1>1, <1>2, DirFields DEF Intact
<1>4. /\ job'.pass = "replace" /\ job'.rows = Reread(S) /\ job'.strs = live.strs /\ job'.dead = D
      /\ job'.todo = todo
  <2>1. UNION {Text(s) : s \in S} = todo
    OBVIOUS
  <2>. QED  BY <2>1, <1>2 DEF ReplaceAppending, NoJob
<1>5. EnvGrows /\ DocOrder' /\ \A e : LogOf(e)' = LogOf(e)
  BY <1>1, EnvStays DEF DocOrder, env, LogOf
<1>6. AllTruthful'
  <2>1. SameRecords(live', live)
    BY <1>1, <1>2, DirFields, RecordsKept
  <2>2. \A d \in Dirs' : d = live' \/ d \in Dirs
    BY <1>1 DEF Dirs
  <2>. QED  BY <1>2, <1>5, <2>1, <2>2, SameRecordsRefl, TruthStep
<1>7. Target' = live.log /\ logs'[live.log] = log /\ Plan' = m
  <2>1. live'.dead = live.dead
    BY <1>1, <1>2 DEF Dir
  <2>. QED  BY <1>1, <1>4, <2>1, HollowFields DEF Target, Plan, DeadAfter
<1>8. \A s \in Sessions : Len(doc[s]) \in Nat /\ AtRow(s, Len(doc[s]), Text(s))
  BY LenProperties DEF TypeOK, AtRow, OnlyAdds, Text
<1>9. \A s \in S : \A t \in Text(s) : t[1] = s
  BY <1>8, AtRowType
<1>. HIDE DEF log, n
<1>10. ASSUME NEW s \in Sessions
       PROVE  Offsets(m, log, n, s) = IF s \in S THEN {} ELSE Offsets(live, log, n, s)
  BY DEF Offsets
<1>11. Covers(m, log, todo, Reread(S))
  <2>1. \A s \in Sessions : {t \in todo : t[1] = s} = F[s]
    <3>1. \A s \in Sessions : \A t \in F[s] : t[1] = s
      BY <1>9
    <3>. HIDE DEF F
    <3>. QED  BY <3>1, BySession
  <2>2. Knows(m, log)
    BY <1>2, <1>3 DEF Truthful, Knows, Offsets, n
  <2>3. ASSUME NEW s \in Sessions
        PROVE  AtRow(s, Reread(S)[s], Carried(m, log, n, s) \union {t \in todo : t[1] = s})
    <3>1. CASE s \in S
      <4>1. Carried(m, log, n, s) = {}
        BY <1>10, <3>1 DEF Carried
      <4>2. {t \in todo : t[1] = s} = Text(s)
        BY <2>1, <3>1
      <4>3. Reread(S)[s] = Len(doc[s])
        BY <3>1 DEF Reread
      <4>. HIDE DEF m, todo
      <4>. QED  BY <1>8, <4>1, <4>2, <4>3
    <3>2. CASE s \notin S
      <4>1. Carried(m, log, n, s) = Carried(live, log, n, s)
        BY <1>10, <3>2 DEF Carried
      <4>2. AtRow(s, live.rows[s], Carried(live, log, n, s))
        BY <1>2 DEF Truthful, n
      <4>3. {t \in todo : t[1] = s} = {}
        BY <2>1, <3>2
      <4>. HIDE DEF m, todo
      <4>. QED  BY <3>2, <4>1, <4>2, <4>3 DEF Reread
    <3>. QED  BY <3>1, <3>2
  <2>. HIDE DEF m
  <2>4. Distinct(live, log, n)
    BY <1>2 DEF Truthful, n
  <2>5. Distinct(m, log, n)
    BY <1>10, <2>4 DEF Distinct
  <2>6. ASSUME NEW s \in Sessions, NEW o \in Offsets(m, log, n, s)
        PROVE  log[o].turn \notin todo
    <3>1. s \notin S /\ o \in Offsets(live, log, n, s)
      BY <1>10
    <3>2. log[o].turn # << >>
      BY <2>4, <3>1 DEF Distinct
    <3>3. log[o].turn \in Carried(live, log, n, s)
      BY <3>1, <3>2 DEF Carried
    <3>4. AtRow(s, live.rows[s], Carried(live, log, n, s)) /\ live.rows[s] \in Nat
      BY <1>2 DEF Truthful, n
    <3>5. log[o].turn[1] = s
      BY <3>3, <3>4, AtRowType
    <3>. QED  BY <1>9, <3>1, <3>5
  <2>7. n > 0
    BY <1>1 DEF n
  <2>8. IdsRead(m.strs, Reread(S))
    BY <1>1, <1>2, RereadIsRead DEF m, Truthful
  <2>. HIDE DEF todo
  <2>. QED  BY <1>3, <2>2, <2>3, <2>5, <2>6, <2>7, <2>8 DEF Covers
<1>12. Reread(S) \in [Sessions -> Nat]
  BY <1>2, <1>8 DEF Reread
<1>. HIDE DEF m, todo, D
<1>13. \A a, b, c : \A r \in [Sessions -> Nat] : Covers(a, b, c, r) => Covers(a, b, c, r)'
  BY <1>5, CoversStays
<1>14. Covers(Plan, logs[Target], job.todo, job.rows)'
  BY <1>4, <1>7, <1>11, <1>12, <1>13 DEF log
<1>15. Writing'
  BY <1>4, <1>14 DEF Writing
<1>. QED  BY <1>1, <1>5, <1>6, <1>15 DEF Staged, Staging

\* A transcript that only grew since version n: the turns after it complete the
\* latest version.
LEMMA GrewBy ==
  ASSUME TypeOK, DocOrder, NEW s \in Sessions, NEW n \in Nat,
         n \in {0} \union {v \in DOMAIN doc[s] : doc[s][v] = doc[s][Len(doc[s])]}
  PROVE  /\ n \in 0..Len(doc[s])
         /\ Turns(s, n) \union {t \in Text(s) : t[2] > n} = Text(s)
<1>. DEFINE V == Len(doc[s])
<1>1. V \in Nat /\ DOMAIN doc[s] = 1..V /\ Text(s) = Turns(s, V)
  BY LenProperties DEF TypeOK, Text
<1>2. n \in 0..V /\ (n > 0 => doc[s][n] = doc[s][V])
  BY <1>1
<1>. HIDE DEF V
<1>3. \A t \in Turns(s, V) : t[2] \in 1..V
  <2>1. V \in 0..Len(doc[s])
    BY <1>1 DEF V
  <2>. QED  BY <2>1, TurnsIs
<1>4. CASE n = 0
  BY <1>1, <1>2, <1>3, <1>4 DEF Turns, V
<1>5. CASE n > 0
  <2>1. V > 0 /\ Turns(s, n) = {s} \X (doc[s][n]..n) /\ Turns(s, V) = {s} \X (doc[s][V]..V)
        /\ doc[s][n] \in 1..n
    BY <1>1, <1>2, <1>5 DEF Turns, DocOrder, V
  <2>2. (doc[s][V]..V) = (doc[s][n]..n) \union {k \in doc[s][V]..V : k > n}
    BY <1>1, <1>2, <1>5, <2>1
  <2>3. {t \in {s} \X (doc[s][V]..V) : t[2] > n} = {s} \X {k \in doc[s][V]..V : k > n}
    OBVIOUS
  <2>. QED  BY <1>1, <1>2, <2>1, <2>2, <2>3 DEF V
<1>. QED  BY <1>2, <1>4, <1>5

\* A session is written turn by turn through versions it had.
LEMMA NextTurn ==
  ASSUME TypeOK, DocOrder, NEW s \in Sessions, NEW v \in 0..Len(doc[s]), NEW k \in 0..Len(doc[s]),
         NEW W, Turns(s, k) \union W = Turns(s, v), NEW t \in W,
         \A u \in W : t[2] <= u[2] /\ u \notin Turns(s, k)
  PROVE  t[2] \in k..Len(doc[s]) /\ Turns(s, k) \union {t} = Turns(s, t[2])
         /\ (k # 0 => doc[s][t[2]] = doc[s][k])
<1>1. Len(doc[s]) \in Nat /\ v > 0 /\ t \in Turns(s, v) /\ t[2] \in 1..v /\ t = <<s, t[2]>>
  <2>1. t \in Turns(s, v) /\ Turns(s, v) # {}
    OBVIOUS
  <2>2. /\ Len(doc[s]) \in Nat /\ (v = 0 => Turns(s, v) = {})
        /\ \A u \in Turns(s, v) : u = <<s, u[2]>> /\ u[2] \in 1..v
    BY TurnsIs
  <2>3. v # 0
    BY ONLY <2>1, <2>2
  <2>. QED  BY <2>1, <2>2, <2>3
<1>2. Turns(s, v) = {s} \X (doc[s][v]..v) /\ doc[s][v] \in 1..v
  BY <1>1, TurnsIs DEF Turns
<1>3. CASE k = 0
  <2>1. Turns(s, k) = {} /\ W = Turns(s, v)
    BY <1>3 DEF Turns
  <2>2. t[2] = doc[s][v]
    <3>1. <<s, doc[s][v]>> \in W /\ t[2] >= doc[s][v]
      BY <1>1, <1>2, <2>1
    <3>2. t[2] <= <<s, doc[s][v]>>[2]
      BY <3>1
    <3>. QED  BY <1>1, <1>2, <3>1, <3>2
  <2>3. doc[s][t[2]] = t[2]
    BY <1>1, <2>2 DEF DocOrder
  <2>4. Turns(s, t[2]) = {t}
    <3>1. Turns(s, t[2]) = {s} \X (t[2]..t[2])
      BY <1>1, <2>3 DEF Turns
    <3>. QED  BY <1>1, <3>1
  <2>. QED  BY <1>1, <1>3, <2>1, <2>4
<1>4. CASE k > 0
  <2>1. Turns(s, k) = {s} \X (doc[s][k]..k) /\ doc[s][k] \in 1..k
    BY <1>1, <1>4, TurnsIs DEF Turns
  <2>2. k \in doc[s][v]..v /\ doc[s][k] >= doc[s][v]
    <3>1. <<s, k>> \in Turns(s, k) /\ <<s, doc[s][k]>> \in Turns(s, k)
      BY <1>4, <2>1
    <3>2. <<s, k>> \in Turns(s, v) /\ <<s, doc[s][k]>> \in Turns(s, v)
      BY <3>1
    <3>. QED  BY <1>2, <3>2
  <2>3. doc[s][k] = doc[s][v]
    <3>1. doc[s][k] <= doc[s][v]
      BY <1>1, <1>2, <1>4, <2>2 DEF DocOrder
    <3>. QED  BY <1>2, <2>1, <2>2, <3>1
  <2>4. t[2] > k
    <3>1. t \notin Turns(s, k) /\ t[2] >= doc[s][v]
      BY <1>1, <1>2
    <3>. QED  BY <1>1, <1>2, <2>1, <2>3, <3>1
  <2>5. t[2] = k + 1
    <3>1. <<s, k + 1>> \in Turns(s, v) /\ <<s, k + 1>> \notin Turns(s, k)
      BY <1>1, <1>2, <2>1, <2>2, <2>4
    <3>2. t[2] <= <<s, k + 1>>[2]
      BY <3>1
    <3>. QED  BY <1>1, <2>4, <3>2
  <2>6. doc[s][k + 1] = doc[s][v]
    <3>1. /\ k \in 1..Len(doc[s]) /\ k + 1 \in k..Len(doc[s])
          /\ k + 1 \in 1..Len(doc[s]) /\ v \in (k + 1)..Len(doc[s])
      BY <1>1, <1>4, <2>5
    <3>2. doc[s][k] <= doc[s][k + 1] /\ doc[s][k + 1] <= doc[s][v] /\ doc[s][k + 1] \in 1..(k + 1)
      BY <3>1 DEF DocOrder
    <3>. QED  BY <1>2, <2>3, <3>2
  <2>7. Turns(s, k + 1) = {s} \X (doc[s][v]..(k + 1))
    BY <1>4, <2>6 DEF Turns
  <2>8. (doc[s][v]..(k + 1)) = (doc[s][v]..k) \union {k + 1}
    BY <1>2, <2>1, <2>3
  <2>9. {s} \X (doc[s][v]..(k + 1)) = ({s} \X (doc[s][v]..k)) \union {<<s, k + 1>>}
    BY <2>8
  <2>. QED  BY <1>1, <2>1, <2>3, <2>5, <2>6, <2>7, <2>9
<1>. QED  BY <1>3, <1>4

\* A pass that appends in place.
LEMMA LogAppend ==
  ASSUME LogInv, TailInv', NEW S \in SUBSET Sessions, AppendInPlace(S)
  PROVE  LogInv'
<1>. USE DEF LogInv, TailInv, TypeInv
<1>. DEFINE log == logs[live.log]
            n == live.size
            F == [s \in Sessions |-> IF s \in S THEN {t \in Text(s) : t[2] > live.rows[s]} ELSE {}]
            todo == UNION {F[s] : s \in Sessions}
            m == [strs |-> live.strs, dead |-> live.dead]
<1>1. /\ pc' = "write" /\ HasManifest(live) /\ Intact(live) /\ S \subseteq Stale(live)
      /\ \A s \in S : OnlyGrew(live, s)
      /\ UNCHANGED <<env, live, parked, logs>>
  BY DEF AppendInPlace, Intact
<1>2. /\ live \in Dir /\ live \in Dirs /\ live.log \in LogIds /\ live.log # NoLog
      /\ LogOf(live) = log /\ log \in Seq(Record) /\ Truthful(live, log) /\ n \in 1..Len(log)
      /\ live.rows \in [Sessions -> Nat]
  BY <1>1, LiveIsTrue
<1>3. Len(log) = n /\ n \in Nat /\ n > 0
  BY <1>1, <1>2, DirFields DEF Intact
<1>4. /\ job'.pass = "append" /\ job'.rows = Reread(S) /\ job'.strs = live.strs /\ job'.todo = todo
  <2>1. UNION {{t \in Text(s) : t[2] > live.rows[s]} : s \in S} = todo
    OBVIOUS
  <2>. QED  BY <2>1, <1>2 DEF AppendInPlace, NoJob
<1>5. EnvGrows /\ DocOrder' /\ \A e : LogOf(e)' = LogOf(e)
  BY <1>1, EnvStays DEF DocOrder, env, LogOf
<1>6. AllTruthful'
  <2>1. Dirs' = Dirs
    BY <1>1 DEF Dirs
  <2>. QED  BY <1>5, <2>1, SameRecordsRefl, TruthStep
<1>7. Target' = live.log /\ Plan' = m
  BY <1>1, <1>4 DEF Target, Plan
<1>8. \A s \in Sessions : Len(doc[s]) \in Nat /\ AtRow(s, Len(doc[s]), Text(s))
  BY LenProperties DEF TypeOK, AtRow, OnlyAdds, Text
<1>9. \A s \in Sessions : \A t \in Text(s) : t[1] = s
  BY <1>8, AtRowType
<1>. HIDE DEF log, n
<1>10. /\ \A s : Offsets(m, log, n, s) = Offsets(live, log, n, s)
       /\ \A s : Carried(m, log, n, s) = Carried(live, log, n, s)
       /\ Distinct(m, log, n) <=> Distinct(live, log, n)
  <2>1. m.strs = live.strs /\ m.dead = live.dead
    OBVIOUS
  <2>. HIDE DEF m
  <2>. QED  BY ONLY <2>1, SameManifest
<1>11. \A s \in Sessions : AtRow(s, live.rows[s], Carried(live, log, n, s))
  BY <1>2 DEF Truthful, n
<1>12. ASSUME NEW s \in S
       PROVE  /\ live.rows[s] \in 0..Len(doc[s])
              /\ Carried(live, log, n, s) = Turns(s, live.rows[s])
              /\ Turns(s, live.rows[s]) \union {t \in Text(s) : t[2] > live.rows[s]} = Text(s)
  <2>1. s \in Sessions /\ s \notin gone /\ live.rows[s] \in Nat
    BY <1>1, <1>2 DEF Stale
  <2>2. Carried(live, log, n, s) = Turns(s, live.rows[s])
    BY <1>11, <2>1 DEF AtRow
  <2>3. live.rows[s] \in {0} \union {v \in DOMAIN doc[s] : doc[s][v] = doc[s][Len(doc[s])]}
    BY <1>1 DEF OnlyGrew
  <2>. QED  BY <2>1, <2>2, <2>3, GrewBy
<1>13. \A s \in Sessions : {t \in todo : t[1] = s} = F[s]
  <2>1. \A s \in Sessions : \A t \in F[s] : t[1] = s
    BY <1>9
  <2>. HIDE DEF F
  <2>. QED  BY <2>1, BySession
<1>14. Covers(m, log, todo, Reread(S))
  <2>1. Knows(m, log)
    BY <1>2, <1>3 DEF Truthful, Knows, n
  <2>2. ASSUME NEW s \in Sessions
        PROVE  AtRow(s, Reread(S)[s], Carried(m, log, n, s) \union {t \in todo : t[1] = s})
    <3>1. CASE s \in S
      <4>1. Carried(m, log, n, s) \union F[s] = Text(s)
        BY <1>10, <1>12, <3>1
      <4>2. Reread(S)[s] = Len(doc[s])
        BY <3>1 DEF Reread
      <4>. HIDE DEF m, todo, F
      <4>. QED  BY <1>8, <1>13, <4>1, <4>2
    <3>2. CASE s \notin S
      <4>1. {t \in todo : t[1] = s} = {}
        BY <1>13, <3>2
      <4>. HIDE DEF m, todo
      <4>. QED  BY <1>10, <1>11, <3>2, <4>1 DEF Reread
    <3>. QED  BY <3>1, <3>2
  <2>3. Distinct(m, log, n)
    BY <1>2, <1>10 DEF Truthful, n
  <2>4. ASSUME NEW s \in Sessions, NEW o \in Offsets(m, log, n, s)
        PROVE  log[o].turn \notin todo
    <3>1. log[o].turn # << >>
      BY <2>3 DEF Distinct
    <3>2. log[o].turn \in Carried(live, log, n, s)
      BY <1>10, <3>1 DEF Carried
    <3>3. log[o].turn[1] = s
      BY <1>2, <1>11, <3>2, AtRowType
    <3>4. log[o].turn \notin F[s]
      <4>1. CASE s \in S
        <5>1. log[o].turn[2] \in 1..live.rows[s]
          <6>1. \A t \in Turns(s, live.rows[s]) : t[2] \in 1..live.rows[s]
            BY <1>12, <4>1, TurnsIs
          <6>. QED  BY <1>12, <3>2, <4>1, <6>1
        <5>. QED  BY <1>2, <5>1
      <4>2. CASE s \notin S
        BY <4>2
      <4>. QED  BY <4>1, <4>2
    <3>. HIDE DEF F, todo
    <3>. QED  BY <1>13, <3>3, <3>4
  <2>5. IdsRead(m.strs, Reread(S))
    BY <1>1, <1>2, RereadIsRead DEF Truthful
  <2>. HIDE DEF todo, m
  <2>. QED  BY <1>3, <2>1, <2>2, <2>3, <2>4, <2>5 DEF Covers
<1>15. Reread(S) \in [Sessions -> Nat]
  BY <1>2, <1>8 DEF Reread
<1>. HIDE DEF todo
<1>16. \A a, b, c : \A r \in [Sessions -> Nat] : Covers(a, b, c, r) => Covers(a, b, c, r)'
  BY <1>5, CoversStays
<1>17. Covers(Plan, logs[Target], job.todo, job.rows)'
  <2>. HIDE DEF m
  <2>. QED  BY <1>1, <1>4, <1>7, <1>14, <1>15, <1>16 DEF log
<1>18. InPlace(job.strs, logs[Target])'
  <2>1. \A s \in Sessions : From(s, live.rows[s], Carried(m, log, Len(log), s))
    BY <1>3, <1>10, <1>11 DEF AtRow, From
  <2>2. Len(live.strs) \in Nat
    BY <1>2, DirFields, LenProperties
  <2>3. InPlace(live.strs, log)
    BY <2>1, <2>2 DEF InPlace
  <2>4. InPlace(live.strs, log)' = InPlace(live.strs, log)
    BY <1>1 DEF log, InPlace, From, OnlyAdds, Turns, Carried, Offsets, env
  <2>. QED  BY <1>1, <1>4, <1>7, <2>3, <2>4 DEF log
<1>19. Writing'
  BY <1>17, <1>18 DEF Writing
<1>. QED  BY <1>1, <1>5, <1>6, <1>19 DEF Staged, Staging

\* A pass begins.
LEMMA LogBegin ==
  ASSUME LogInv, TailInv', ~EmptyIndex, "remove" \notin Refusals, Begin
  PROVE  LogInv'
BY LogRebuild, LogReplace, LogAppend, LogMoves DEF Begin

\* A manifest stays true of its log as the log gets longer, while a rebuild
\* that reads to the end finds versions.
LEMMA TruthGrows ==
  ASSUME TypeOK, NEW d \in Dir, d.log # NoLog, NEW a \in Seq(Record), Truthful(d, a),
         NEW b \in Seq(Record), Len(b) = Len(a) + 1, \A o \in 1..Len(a) : b[o] = a[o],
         \A s \in Sessions : From(s, d.rows[s], Carried(d, b, Len(b), s))
  PROVE  Truthful(d, b)
<1>1. d.size \in Nat /\ d.size \in 1..Len(a) /\ Len(a) \in Nat
  BY DirFields, LenProperties DEF Truthful
<1>2. \A o \in 1..d.size : b[o] = a[o]
  BY <1>1
<1>0. SameUpTo(d.size, b, a)
  BY <1>2 DEF SameUpTo
<1>3. /\ \A s : Carried(d, b, d.size, s) = Carried(d, a, d.size, s)
      /\ Distinct(d, b, d.size) <=> Distinct(d, a, d.size)
  <2>1. SameReads(d, b, a, d.size)
    BY ONLY <1>0, SamePrefix
  <2>. QED  BY ONLY <2>1 DEF SameReads
<1>4. \A s \in Sessions : AtRow(s, d.rows[s], Carried(d, b, d.size, s))
  BY <1>3 DEF Truthful
<1>5. d.size \in 1..Len(b) /\ \A o \in 1..d.size : b[o].kid \in 0..Len(d.strs)
  BY <1>1, <1>2 DEF Truthful
<1>. QED  BY <1>3, <1>4, <1>5 DEF Truthful

\* What dir's manifest finds in the log of a pass that appends in place.
LEMMA InPlaceReads ==
  ASSUME LogInv, HasManifest(live), NEW strs \in Seq(Sessions), NEW log, InPlace(strs, log),
         \A s \in Sessions : AtRow(s, live.rows[s], Carried(live, LogOf(live), live.size, s))
  PROVE  \A s \in Sessions : From(s, live.rows[s], Carried(live, log, Len(log), s))
<1>. DEFINE e == [strs |-> strs, dead |-> live.dead]
<1>1. SUFFICES ASSUME NEW s \in Sessions
               PROVE  From(s, live.rows[s], Carried(live, log, Len(log), s))
  OBVIOUS
<1>2. /\ live.strs \in Seq(Sessions) /\ DOMAIN live.strs = 1..Len(live.strs) /\ Len(live.strs) \in Nat
      /\ DOMAIN strs = 1..Len(strs) /\ Len(strs) \in Nat
  BY LiveIsTrue, DirFields, LenProperties
<1>3. CASE \E k \in DOMAIN live.strs : live.strs[k] = s
  <2>1. \A k \in DOMAIN strs : strs[k] = s => k \in DOMAIN live.strs
    BY <1>2, <1>3 DEF InPlace
  <2>2. \A k \in DOMAIN live.strs : k \in DOMAIN strs /\ strs[k] = live.strs[k]
    BY <1>2 DEF InPlace
  <2>3. Offsets(live, log, Len(log), s) = Offsets(e, log, Len(log), s)
    BY <2>1, <2>2 DEF Offsets
  <2>4. Carried(live, log, Len(log), s) = Carried(e, log, Len(log), s)
    BY <2>3 DEF Carried
  <2>5. live.rows[s] # 0
    BY <1>3, LiveIsTrue DEF Truthful, IdsRead
  <2>. QED  BY <2>4, <2>5 DEF InPlace
<1>4. CASE ~ \E k \in DOMAIN live.strs : live.strs[k] = s
  <2>1. \A a, to : Offsets(live, a, to, s) = {}
    BY <1>4 DEF Offsets
  <2>2. \A a, to : Carried(live, a, to, s) = {}
    BY <2>1 DEF Carried
  <2>. QED  BY <2>2 DEF AtRow, From
<1>. QED  BY <1>3, <1>4

\* A record is written.
LEMMA LogWrite ==
  ASSUME LogInv, TailInv', WriteRecord
  PROVE  LogInv'
<1>. USE DEF LogInv, TailInv, TypeInv
<1>1. pc = "write"
  BY DEF WriteRecord
<1>2. PICK t \in job.todo :
           /\ t[1] \in Sessions /\ t \in Sessions \X Nat
           /\ \A u \in job.todo : u[1] = t[1] => t[2] <= u[2]
           /\ logs' = [logs EXCEPT ![Target] = Append(logs[Target], [kid |-> IdFor(t[1]), turn |-> t])]
           /\ logs'[Target] = Append(logs[Target], [kid |-> IdFor(t[1]), turn |-> t])
           /\ job'.pass = job.pass /\ job'.spot = job.spot /\ job'.rows = job.rows /\ job'.dead = job.dead
           /\ job'.todo = job.todo \ {t} /\ job'.fresh = job.fresh \union {t[1]}
           /\ job'.strs = IF NeedsId(t[1]) THEN Append(job.strs, t[1]) ELSE job.strs
           /\ [kid |-> IdFor(t[1]), turn |-> t] \in Record
           /\ Target \in LogIds /\ logs[Target] \in Seq(Record)
           /\ UNCHANGED <<env, live, tmp, parked, pc, count>>
  BY WriteIs
<1>. DEFINE s == t[1]
            log == logs[Target]
            r == [kid |-> IdFor(s), turn |-> t]
            b == logs'[Target]
            e == [strs |-> job'.strs, dead |-> Plan.dead]
<1>3. /\ job'.strs \in Seq(Sessions) /\ Len(job'.strs) = (IF NeedsId(s) THEN Len(job.strs) + 1 ELSE Len(job.strs))
      /\ Len(job.strs) \in Nat /\ \A k \in 1..Len(job.strs) : job'.strs[k] = job.strs[k]
      /\ IdFor(s) \in 1..Len(job'.strs) /\ job'.strs[IdFor(s)] = s
      /\ NeedsId(s) => IdFor(s) = Len(job.strs) + 1
  <2>1. s \in job.fresh => \E k \in DOMAIN job.strs : job.strs[k] = s
    BY <1>1 DEF Present
  <2>2. IdFiled(s, job'.strs)
    BY <1>2, <2>1, IdIs
  <2>. QED  BY <2>2 DEF IdFiled
<1>4. job \in Job /\ job.rows \in [Sessions -> Nat] /\ job.todo \in SUBSET (Sessions \X Nat) /\ job.strs \in Seq(Sessions)
  BY JobFields DEF TypeOK
<1>5. Covers(Plan, log, job.todo, job.rows) /\ Plan.strs = job.strs
  BY <1>1 DEF Writing, Plan
<1>6. KeysGrow(Plan, e) /\ r \in Record /\ r.kid \in 1..Len(e.strs) /\ e.strs[r.kid] = t[1] /\ r.turn = t
      /\ (Len(e.strs) # Len(Plan.strs) => r.kid = Len(e.strs))
  BY <1>2, <1>3, <1>4, <1>5 DEF KeysGrow
<1>7. b = Append(log, r) /\ log \in Seq(Record)
  BY <1>2
<1>. HIDE DEF s, log, r, b, e
<1>8. /\ Covers(e, b, job.todo \ {t}, job.rows)
      /\ \A u \in Sessions : Carried(e, b, Len(b), u)
           = Carried(Plan, log, Len(log), u) \union (IF u = t[1] THEN {t} ELSE {})
  <2>1. Covers(e, b, job.todo \ {t}, job.rows) /\ OneMore(Plan, log, e, b, t)
    BY ONLY <1>4, <1>5, <1>6, <1>7, CoversStep, t \in job.todo
  <2>. QED  BY ONLY <2>1 DEF OneMore
<1>9. /\ b \in Seq(Record) /\ Len(b) = Len(log) + 1 /\ Len(log) \in Nat
      /\ \A o \in 1..Len(log) : b[o] = log[o]
  BY <1>6, <1>7, AppendProperties, LenProperties
<1>10. EnvGrows /\ DocOrder'
  BY <1>2, EnvStays DEF DocOrder, env
<1>11. Target' = Target /\ Plan' = e /\ logs'[Target] = b
  BY <1>2 DEF Target, Plan, DeadAfter, e, b
<1>12. Covers(Plan, logs[Target], job.todo, job.rows)'
  <2>1. \A x, y, z : \A w \in [Sessions -> Nat] : Covers(x, y, z, w) => Covers(x, y, z, w)'
    BY <1>10, CoversStays
  <2>. QED  BY <1>2, <1>4, <1>8, <1>11, <2>1
<1>13. ASSUME job.pass \in {"append", "replace"}
       PROVE  /\ HasManifest(live) /\ live.log = Target /\ Dirs' = {live} /\ LogOf(live) = log /\ LogOf(live)' = b
              /\ live \in Dir /\ live.log # NoLog /\ Truthful(live, log)
  <2>1. HasManifest(live)
    BY <1>1, <1>13 DEF Present
  <2>2. live.log = Target
    BY <1>1, <1>13 DEF Target, Marked, Unparked
  <2>3. Dirs' = {live}
    BY <1>1, <1>2, <2>1, AloneDirs DEF Dirs
  <2>. QED  BY <1>2, <2>1, <2>2, <2>3, LiveIsTrue DEF LogOf, log, b
<1>14. job.pass = "append" => InPlace(job'.strs, b)
  <2>1. SUFFICES ASSUME job.pass = "append" PROVE InPlace(job'.strs, b)
    OBVIOUS
  <2>2. InPlace(job.strs, log) /\ Plan = [strs |-> job.strs, dead |-> live.dead]
        /\ e = [strs |-> job'.strs, dead |-> live.dead]
    BY <1>1, <2>1 DEF Writing, Plan, log, e
  <2>3. live.strs \in Seq(Sessions) /\ Len(live.strs) \in Nat /\ Len(live.strs) <= Len(job.strs)
    BY <1>13, <2>1, <2>2, DirFields, LenProperties DEF InPlace
  <2>4. Len(live.strs) <= Len(job'.strs) /\ \A k \in 1..Len(live.strs) : job'.strs[k] = live.strs[k]
    BY <1>3, <2>2, <2>3 DEF InPlace
  <2>5. ASSUME NEW k \in (Len(live.strs) + 1)..Len(job'.strs), NEW j \in 1..Len(live.strs)
        PROVE  live.strs[j] # job'.strs[k]
    <3>1. CASE k \in 1..Len(job.strs)
      BY <1>3, <2>2, <2>3, <3>1 DEF InPlace
    <3>2. CASE k \notin 1..Len(job.strs)
      <4>1. NeedsId(s) /\ k = Len(job.strs) + 1 /\ job'.strs[k] = s
        BY <1>3, <2>3, <3>2
      <4>2. \A i \in DOMAIN job.strs : job.strs[i] # s
        BY <2>1, <4>1 DEF NeedsId, Ids
      <4>3. j \in DOMAIN job.strs /\ job.strs[j] = live.strs[j]
        <5>1. DOMAIN job.strs = 1..Len(job.strs) /\ Len(job.strs) \in Nat
          BY <1>4, LenProperties
        <5>2. \A i \in 1..Len(live.strs) : job.strs[i] = live.strs[i]
          BY <2>2 DEF InPlace
        <5>. QED  BY <2>3, <5>1, <5>2
      <4>. QED  BY <4>1, <4>2, <4>3
    <3>. QED  BY <3>1, <3>2
  <2>6. ASSUME NEW u \in Sessions, live.rows[u] # 0
        PROVE  From(u, live.rows[u], Carried(e, b, Len(b), u))
    <3>1. From(u, live.rows[u], Carried(Plan, log, Len(log), u)) /\ live.rows[u] \in Nat
      BY <1>13, <2>1, <2>2, <2>6, DirFields DEF InPlace
    <3>2. CASE u # t[1]
      BY <1>8, <3>1, <3>2
    <3>3. CASE u = t[1]
      <4>. DEFINE W == {x \in job.todo : x[1] = u}
      <4>1. Len(doc[u]) \in Nat
        BY LenProperties DEF TypeOK
      <4>2. PICK k \in live.rows[u]..Len(doc[u]) : Carried(Plan, log, Len(log), u) = Turns(u, k) /\ OnlyAdds(u, live.rows[u], k)
        BY <3>1 DEF From
      <4>3. PICK v \in job.rows[u]..Len(doc[u]) : Carried(Plan, log, Len(log), u) \union W = Turns(u, v)
        BY <1>5 DEF Covers, AtRow
      <4>4. k \in 0..Len(doc[u]) /\ v \in 0..Len(doc[u])
        BY <1>4, <3>1, <4>1
      <4>5. t \in W /\ \A x \in W : t[2] <= x[2]
        BY <1>2, <3>3
      <4>6. \A x \in job.todo : x \notin Carried(Plan, log, Len(log), u)
        BY <1>5 DEF Covers, Carried
      <4>. HIDE DEF W
      <4>7. \A x \in W : x \notin Turns(u, k)
        BY <4>2, <4>6 DEF W
      <4>8. t[2] \in k..Len(doc[u]) /\ Turns(u, k) \union {t} = Turns(u, t[2]) /\ (k # 0 => doc[u][t[2]] = doc[u][k])
        <5>1. /\ Turns(u, k) \union W = Turns(u, v) /\ t \in W
              /\ \A x \in W : t[2] <= x[2] /\ x \notin Turns(u, k)
          BY <4>2, <4>3, <4>5, <4>7
        <5>2. TypeOK /\ DocOrder
          OBVIOUS
        <5>. QED  BY ONLY <2>6, <4>4, <5>1, <5>2, NextTurn
      <4>9. Carried(e, b, Len(b), u) = Turns(u, t[2])
        BY <1>8, <3>3, <4>2, <4>8
      <4>10. t[2] \in live.rows[u]..Len(doc[u])
        BY <3>1, <4>1, <4>2, <4>8
      <4>11. OnlyAdds(u, live.rows[u], t[2])
        BY <2>6, <3>1, <4>1, <4>2, <4>8 DEF OnlyAdds
      <4>. QED  BY <4>9, <4>10, <4>11 DEF From
    <3>. QED  BY <3>2, <3>3
  <2>. QED  BY <2>2, <2>4, <2>5, <2>6 DEF InPlace
<1>15. AllTruthful'
  <2>1. CASE job.pass = "replace"
    <3>1. live.pend > 0 /\ live.size \in Nat /\ live.size <= Len(log)
      BY <1>1, <1>9, <1>13, <2>1, DirFields DEF Marked, Unparked, Truthful
    <3>2. \A o \in (live.size + 1)..Len(b) : b[o].kid \notin DOMAIN live.strs
      BY <1>2, <1>13, <2>1, <3>1 DEF AllUnread, Unread
    <3>3. \A u : Carried(live, b, Len(b), u) = Carried(live, b, live.size, u)
      <4>1. Len(b) \in Nat /\ live.size <= Len(b) /\ Nobodys(live, b, live.size, Len(b))
        BY <1>9, <3>1, <3>2 DEF Nobodys
      <4>2. SameEnd(live, b, live.size, Len(b))
        BY ONLY <3>1, <4>1, TailIsNobodys
      <4>. QED  BY ONLY <4>2 DEF SameEnd
    <3>4. \A u : Carried(live, b, live.size, u) = Carried(live, log, live.size, u)
      <4>1. SameUpTo(live.size, b, log)
        BY <1>9, <3>1 DEF SameUpTo
      <4>2. SameReads(live, b, log, live.size)
        BY ONLY <4>1, SamePrefix
      <4>. QED  BY ONLY <4>2 DEF SameReads
    <3>5. \A u \in Sessions : From(u, live.rows[u], Carried(live, b, Len(b), u))
      BY <1>13, <2>1, <3>3, <3>4 DEF Truthful, AtRow, From
    <3>6. Truthful(live, b)
      BY <1>7, <1>9, <1>13, <2>1, <3>5, TruthGrows
    <3>7. \A d \in Dirs' : Truthful(d, LogOf(d)')
      <4>1. \A d \in Dirs' : d = live /\ LogOf(d)' = b
        BY <1>11, <1>13, <2>1 DEF LogOf
      <4>. QED  BY ONLY <3>6, <4>1
    <3>. QED  BY <1>10, <3>7, TruthStep
  <2>2. CASE job.pass = "append"
    <3>1. \A u \in Sessions : AtRow(u, live.rows[u], Carried(live, LogOf(live), live.size, u))
      BY <1>13, <2>2 DEF Truthful
    <3>2. \A u \in Sessions : From(u, live.rows[u], Carried(live, b, Len(b), u))
      BY <1>3, <1>13, <1>14, <2>2, <3>1, InPlaceReads
    <3>3. Truthful(live, b)
      BY <1>7, <1>9, <1>13, <2>2, <3>2, TruthGrows
    <3>4. \A d \in Dirs' : Truthful(d, LogOf(d)')
      <4>1. \A d \in Dirs' : d = live /\ LogOf(d)' = b
        BY <1>11, <1>13, <2>2 DEF LogOf
      <4>. QED  BY ONLY <3>3, <4>1
    <3>. QED  BY <1>10, <3>4, TruthStep
  <2>3. CASE job.pass = "rewrite"
    <3>1. Target \notin Linked
      BY <1>1, <2>3 DEF Target, Marked
    <3>2. \A d \in Dirs : LogOf(d)' = LogOf(d)
      <4>1. \A d \in Dirs : d.log # Target /\ d.log \in LogIds \union {NoLog}
        BY <3>1, DirsType, DirFields DEF Dirs, Linked
      <4>2. \A k \in LogIds : k # Target => logs'[k] = logs[k]
        BY <1>2 DEF TypeOK
      <4>. QED  BY <4>1, <4>2 DEF LogOf
    <3>3. Dirs' = Dirs
      BY <1>2 DEF Dirs
    <3>. QED  BY <1>10, <3>2, <3>3, SameRecordsRefl, TruthStep
  <2>. QED  BY <1>1, <2>1, <2>2, <2>3 DEF Marked
<1>16. ASSUME job.pass = "append"
       PROVE  InPlace(job.strs, logs[Target])'
  <2>1. InPlace(job'.strs, b) /\ live' = live /\ doc' = doc
    BY <1>2, <1>14, <1>16 DEF env
  <2>2. logs[Target]' = b
    BY <1>11
  <2>3. \A u, n, X : From(u, n, X) => From(u, n, X)'
    BY <2>1 DEF From, OnlyAdds, Turns
  <2>4. ASSUME NEW strs, strs = job'.strs, NEW a, a = b
        PROVE  InPlace(strs, a)'
    <3>1. \A u \in Sessions : live.rows[u] # 0 => From(u, live.rows[u], Carried([strs |-> strs, dead |-> live.dead], a, Len(a), u))
      BY <2>1, <2>4 DEF InPlace
    <3>2. \A u : Carried([strs |-> strs, dead |-> live.dead], a, Len(a), u)'
                  = Carried([strs |-> strs, dead |-> live.dead], a, Len(a), u)
      BY <2>1 DEF Carried, Offsets
    <3>3. \A u \in Sessions : (live.rows[u] # 0)' => From(u, live.rows[u], Carried([strs |-> strs, dead |-> live.dead], a, Len(a), u))'
      BY <2>1, <2>3, <3>1, <3>2
    <3>. QED  BY <2>1, <2>4, <3>3 DEF InPlace
  <2>. QED  BY <2>2, <2>4
<1>17. Writing'
  BY <1>2, <1>12, <1>16 DEF Writing
<1>. QED  BY <1>1, <1>2, <1>10, <1>15, <1>17 DEF Staged, Staging

\* The manifest of a pass that has written every turn.
LEMMA SealedIsTrue ==
  ASSUME NEW d, NEW m, NEW log, NEW rows, Covers(m, log, {}, rows), Len(log) \in Nat,
         d.log # NoLog, d.size = Len(log), d.strs = m.strs, d.dead = m.dead, d.rows = rows
  PROVE  Truthful(d, log)
<1>0. d.strs = m.strs /\ d.dead = m.dead
  OBVIOUS
<1>1. \A to : /\ \A s : Carried(d, log, to, s) = Carried(m, log, to, s)
              /\ Distinct(d, log, to) <=> Distinct(m, log, to)
  BY ONLY <1>0, SameManifest
<1>2. ASSUME NEW s \in Sessions
      PROVE  /\ AtRow(s, rows[s], Carried(d, log, Len(log), s))
             /\ From(s, rows[s], Carried(d, log, Len(log), s))
  <2>1. Carried(m, log, Len(log), s) \union {t \in {} : t[1] = s} = Carried(m, log, Len(log), s)
    OBVIOUS
  <2>2. AtRow(s, rows[s], Carried(d, log, Len(log), s))
    BY <1>1, <2>1 DEF Covers
  <2>. QED  BY <2>2 DEF AtRow, From
<1>3. Len(log) \in 1..Len(log) /\ m.dead \subseteq 1..Len(log) /\ \A o \in 1..Len(log) : log[o].kid \in 0..Len(m.strs)
  BY DEF Covers, Knows
<1>4. Distinct(d, log, Len(log))
  BY <1>1 DEF Covers
<1>5. IdsRead(d.strs, d.rows)
  BY DEF Covers
<1>. QED  BY <1>2, <1>3, <1>4, <1>5 DEF Truthful

\* A manifest written when nothing is left to write tells the truth of its log.
LEMMA LogSealed ==
  ASSUME LogInv, TailInv', Seal \/ CommitAppend
  PROVE  LogInv'
<1>. USE DEF LogInv, TailInv, TypeInv
<1>1. /\ pc = "write" /\ job.todo = {} /\ UNCHANGED <<env, parked, logs>>
      /\ Covers(Plan, logs[Target], {}, job.rows)
  BY DEF Seal, CommitAppend, Writing
<1>2. EnvGrows /\ DocOrder' /\ \A e : LogOf(e)' = LogOf(e)
  BY <1>1, EnvStays DEF DocOrder, env, LogOf
<1>3. CASE Seal
  <2>1. /\ job.pass # "append" /\ pc' = "clear" /\ UNCHANGED <<live, job>>
        /\ tmp' = [Hollow EXCEPT
             !.log = tmp.log, !.size = Len(logs[tmp.log]), !.strs = job.strs, !.dead = DeadAfter,
             !.rows = job.rows, !.stamp = writes,
             !.posted = (IF job.pass = "replace" THEN live ELSE Hollow).posted \union
                         ((IF job.pass = "replace" THEN live ELSE Hollow).size + 1)..Len(logs[tmp.log]),
             !.scrub = MarkScrub]
    BY <1>3 DEF Seal
  <2>2. tmp.log \in LogIds /\ tmp.log # NoLog /\ Target = tmp.log
    BY <1>1, <2>1, ConstantsAssumption DEF Present, Target
  <2>3. /\ tmp'.log = tmp.log /\ tmp'.size = Len(logs[tmp.log]) /\ tmp'.strs = job.strs
        /\ tmp'.dead = DeadAfter /\ tmp'.rows = job.rows
    BY <2>1 DEF Hollow
  <2>4. Plan.strs = job.strs /\ Plan.dead = DeadAfter
    BY <2>1 DEF Plan
  <2>5. Len(logs[tmp.log]) \in Nat
    BY <2>2, LenProperties DEF TypeOK
  <2>6. Truthful(tmp', logs[tmp.log])
    <3>1. Covers(Plan, logs[tmp.log], {}, job.rows)
      BY <1>1, <2>2
    <3>. QED  BY ONLY <2>2, <2>3, <2>4, <2>5, <3>1, SealedIsTrue
  <2>7. LogOf(tmp)' = logs[tmp.log]
    BY <1>1, <2>2, <2>3 DEF LogOf
  <2>8. tmp' \in Dir
    BY <2>1 DEF Present, TypeOK
  <2>9. Truthful(tmp, LogOf(tmp))'
    <3>1. ASSUME NEW d \in Dir, NEW log, Truthful(d, log)
          PROVE  Truthful(d, log)'
      BY <1>2, <3>1, TruthfulStays
    <3>. QED  BY <2>6, <2>7, <2>8, <3>1
  <2>10. tmp'.log # NoLog /\ job'.dead \subseteq tmp'.dead
    BY <2>1, <2>2, <2>3 DEF DeadAfter
  <2>11. AllTruthful'
    <3>1. Dirs' = Dirs
      BY <1>1, <2>1 DEF Dirs
    <3>. QED  BY <1>2, <3>1, SameRecordsRefl, TruthStep
  <2>12. Writing' /\ Staged'
    BY <2>1, <2>9, <2>10 DEF Writing, Staged
  <2>. QED  BY <1>2, <2>11, <2>12
<1>4. CASE CommitAppend
  <2>1. /\ job.pass = "append" /\ pc' = "idle" /\ HasManifest(live)
        /\ live' = [live EXCEPT
             !.size = Len(logs[live.log]), !.strs = job.strs, !.rows = job.rows,
             !.stamp = writes, !.posted = @ \union (live.size + 1)..Len(logs[live.log])]
    BY <1>1, <1>4 DEF CommitAppend, Present
  <2>2. live \in Dir /\ live.log \in LogIds /\ live.log # NoLog /\ Target = live.log
    BY <2>1, LiveIsTrue DEF Target
  <2>3. /\ live'.log = live.log /\ live'.size = Len(logs[live.log]) /\ live'.strs = job.strs
        /\ live'.dead = live.dead /\ live'.rows = job.rows
    BY <2>1, <2>2 DEF Dir
  <2>4. Plan.strs = job.strs /\ Plan.dead = live.dead
    BY <2>1 DEF Plan
  <2>5. Len(logs[live.log]) \in Nat
    BY <2>2, LenProperties DEF TypeOK
  <2>6. Truthful(live', logs[live.log])
    <3>1. Covers(Plan, logs[live.log], {}, job.rows)
      BY <1>1, <2>2
    <3>. QED  BY ONLY <2>2, <2>3, <2>4, <2>5, <3>1, SealedIsTrue
  <2>7. Dirs' = {live'}
    <3>1. Parked = {}
      BY <1>1, <2>1, AloneDirs
    <3>2. live' # NoDir
      BY <1>4, CommitAppendType, NoDirAssumption, <2>2, <1>1
    <3>. QED  BY <1>1, <3>1, <3>2 DEF Dirs, Parked
  <2>8. AllTruthful'
    <3>1. \A d \in Dirs' : Truthful(d, LogOf(d)')
      <4>1. \A d \in Dirs' : d = live' /\ LogOf(d)' = logs[live.log]
        BY <1>1, <2>2, <2>3, <2>7 DEF LogOf
      <4>. QED  BY ONLY <2>6, <4>1
    <3>. QED  BY <1>2, <3>1, TruthStep
  <2>. QED  BY <1>2, <2>1, <2>8 DEF Writing, Staged, Staging
<1>. QED  BY <1>3, <1>4

\* No index, no log, no transcript.
LEMMA LogInit == Init => LogInv
<1>. SUFFICES ASSUME Init PROVE LogInv
  OBVIOUS
<1>1. Dirs = {} /\ pc = "idle" /\ \A s \in Sessions : doc[s] = << >>
  BY DEF Init, Dirs
<1>2. DocOrder
  BY <1>1, EmptySeq DEF DocOrder
<1>. QED  BY <1>1, <1>2, TailInit DEF LogInv, AllTruthful, Writing, Staged, Staging

\* Every step keeps every manifest truthful.
LEMMA LogNext ==
  ASSUME "remove" \notin Refusals, ~EmptyIndex, LogInv, [Next]_vars
  PROVE  LogInv'
<1>1. TailInv'
  BY TailNext DEF LogInv
<1>. QED
  BY <1>1, LogQuiet, LogHook, LogMoves, LogCut, LogBegin, LogWrite, LogSealed, LogCarry, LogInstall, LogWords, LogZero
     DEF Next, Holder, Recover, Commit, Scrub

\* What a lock taker recovers is a directory on disk, or nothing.
LEMMA RecoverableIs == Recoverable = Hollow \/ Recoverable \in Dirs
<1>1. Parked # {} => parked[Newest] \in Dirs
  BY NewestType DEF Dirs
<1>. QED  BY <1>1 DEF Recoverable, Dirs

\* Two sets are of one size where each element of the one names one of the other.
LEMMA SameSize ==
  ASSUME NEW A, IsFiniteSet(A), NEW f, NEW B, B = {f[a] : a \in A},
         \A a, c \in A : f[a] = f[c] => a = c
  PROVE  Cardinality(A) = Cardinality(B)
<1>. DEFINE g == [a \in A |-> f[a]]
<1>1. g \in [A -> B] /\ \A a \in A : g[a] = f[a]
  OBVIOUS
<1>. HIDE DEF g
<1>2. g \in Injection(A, B)
  BY <1>1 DEF Injection, IsInjective
<1>3. g \in Surjection(A, B)
  BY <1>1 DEF Surjection
<1>4. ExistsBijection(A, B)
  BY <1>2, <1>3 DEF ExistsBijection, Bijection
<1>. QED  BY <1>4, FS_Bijection

\* A truthful manifest holds under each session the turns of one version.
LEMMA TruthMatchesRows ==
  ASSUME LogInv
  PROVE  LogMatchesRows
<1>. USE DEF LogInv, TailInv, TypeInv
<1>. SUFFICES ASSUME NEW s \in Sessions
              PROVE  AtRow(s, Recoverable.rows[s], Held(Recoverable, s))
  BY DEF LogMatchesRows, AtRow
<1>. DEFINE d == Recoverable
<1>1. d = Hollow \/ (d \in Dir /\ Truthful(d, LogOf(d)))
  BY RecoverableIs, DirsType DEF AllTruthful
<1>2. CASE d.log = NoLog
  <2>1. d.size = 0 /\ d.rows[s] = 0
    BY <1>1, <1>2, HollowFields DEF Truthful
  <2>2. Held(d, s) = {}
    BY <2>1, EmptyLog DEF Held
  <2>3. Len(doc[s]) \in Nat /\ Turns(s, 0) = {}
    BY LenProperties DEF TypeOK, Turns
  <2>. QED  BY ONLY <2>1, <2>2, <2>3 DEF AtRow, OnlyAdds
<1>3. CASE d.log # NoLog
  BY <1>1, <1>3, HollowFields DEF Truthful, Held
<1>. QED  BY <1>2, <1>3

\* And each of them once.
LEMMA TruthTwice ==
  ASSUME LogInv
  PROVE  NoTurnTwice
<1>. USE DEF LogInv, TailInv, TypeInv
<1>. DEFINE d == Recoverable
            log == LogOf(Recoverable)
<1>1. d = Hollow \/ (d \in Dir /\ Truthful(d, log))
  BY RecoverableIs, DirsType DEF AllTruthful
<1>2. ASSUME NEW s \in Sessions
      PROVE  Cardinality(Offsets(d, log, d.size, s)) = Cardinality(Held(d, s))
  <2>. DEFINE A == Offsets(d, log, d.size, s)
              f == [o \in A |-> log[o].turn]
  <2>1. d.size \in Nat
    BY <1>1, DirFields, HollowFields
  <2>2. IsFiniteSet(A)
    <3>1. A \in SUBSET (1..d.size) /\ IsFiniteSet(1..d.size)
      BY <2>1, FS_Interval DEF Offsets
    <3>. QED  BY <3>1, FS_Subset
  <2>3. \A o \in A : /\ log[o].turn # << >>
                     /\ \A p \in A : log[o].turn = log[p].turn => o = p
    <3>1. CASE d.log = NoLog
      <4>1. A = {}
        BY <1>1, <3>1, HollowFields, EmptyLog DEF Truthful
      <4>. QED  BY <4>1
    <3>2. CASE d.log # NoLog
      BY <1>1, <3>2, HollowFields DEF Truthful, Distinct
    <3>. QED  BY <3>1, <3>2
  <2>4. Held(d, s) = {f[o] : o \in A}
    BY <2>3 DEF Held, Carried
  <2>5. \A a, c \in A : f[a] = f[c] => a = c
    BY <2>3
  <2>. HIDE DEF A, f
  <2>6. Cardinality(A) = Cardinality(Held(d, s))
    BY <2>2, <2>4, <2>5, SameSize
  <2>. QED  BY <2>6 DEF A
<1>. QED  BY <1>2 DEF NoTurnTwice

\* The manifest a lock taker recovers tells the truth of its log: under each
\* session exactly the turns of the version its row says was read.
THEOREM LogTold ==
  ASSUME "remove" \notin Refusals, ~EmptyIndex
  PROVE  Spec => []LogMatchesRows
<1>1. LogInv /\ [Next]_vars => LogInv'
  BY LogNext
<1>. QED  BY LogInit, <1>1, TruthMatchesRows, PTL DEF Spec

\* And each turn once, whichever passes wrote the log and were killed.
THEOREM EachTurnOnce ==
  ASSUME "remove" \notin Refusals, ~EmptyIndex
  PROVE  Spec => []NoTurnTwice
<1>1. LogInv /\ [Next]_vars => LogInv'
  BY LogNext
<1>. QED  BY LogInit, <1>1, TruthTwice, PTL DEF Spec

-----------------------------------------------------------------------------
(* Text a pass replaced.  Proved where, besides, an index is built of at     *)
(* least one record and a scrub does not stop at an error: it may be killed  *)
(* at any step, and the others may fail.                                     *)

(* The inductive invariant.                                                 *)

\* No record of D has text in the log, or a word in the postings.
Clean(d, log, D) == \A o \in D : log[o] = Erased /\ o \notin d.posted
\* Words go before text: no erased record is posted any more.
Scrubbing(d, log) == \A o \in d.dead : log[o] = Erased => o \notin d.posted
Scrubbed(d, log) == IF d.scrub THEN Scrubbing(d, log) ELSE Clean(d, log, d.dead)
AllScrubbed == \A d \in Dirs : Scrubbed(d, LogOf(d))

\* A pass begins on an index without a mark, and marks the one it stages when
\* it killed a record; the scrub has erased all but the records in job.dead, and
\* blanks the words of those before it erases the first.
MarkAbsent == pc \in {"ready"} \union Unparked /\ live # NoDir => ~live.scrub
KillsText ==
  pc = "write" => /\ job.pass = "append" => job.dead = {}
                  /\ \A o \in job.dead : logs[Target][o].kid # 0
StagedMark ==
  pc \in Staging => /\ Scrubbed(tmp, LogOf(tmp)) /\ tmp.scrub = (job.dead # {})
                    /\ Clean(tmp, LogOf(tmp), tmp.dead \ job.dead)
ScrubGoes ==
  /\ pc = "tidy" => live.scrub = (job.dead # {})
  /\ pc \in {"words", "zero"} => live.scrub
  /\ pc \in {"tidy", "words", "zero"} => Clean(live, LogOf(live), live.dead \ job.dead)
  /\ pc = "zero" => live.dead \intersect live.posted = {}

EraseInv == LogInv /\ AllScrubbed /\ MarkAbsent /\ KillsText /\ StagedMark /\ ScrubGoes

\* The places where only AllScrubbed has something to say.
Elsewhere == {"idle", "recover", "untail", "unmark", "rescrub", "restore", "undo", "undone", "drop"}

\* A directory as the scrub reads it.
SameScrub(d, e) == d.log = e.log /\ d.dead = e.dead /\ d.scrub = e.scrub /\ d.posted = e.posted

-----------------------------------------------------------------------------
(* Directories that stay scrubbed.                                          *)

\* A directory is scrubbed as itself.
LEMMA ScrubRefl == \A d : SameScrub(d, d)
BY DEF SameScrub

\* Only the log, the dead records, the mark and the postings count for a scrub.
LEMMA ScrubSame ==
  ASSUME NEW d, NEW e, SameScrub(d, e), NEW log
  PROVE  /\ Scrubbed(e, log) => Scrubbed(d, log)
         /\ \A D : Clean(e, log, D) => Clean(d, log, D)
BY DEF Scrubbed, Scrubbing, Clean, SameScrub

\* The dead records are where they were.
SameAt(D, a, b) == \A o \in D : b[o] = a[o]

\* So does the log only where the dead records are.
LEMMA ScrubLike ==
  ASSUME NEW d, NEW a, NEW b, SameAt(d.dead, a, b), Scrubbed(d, a)
  PROVE  Scrubbed(d, b)
BY DEF Scrubbed, Scrubbing, Clean, SameAt

\* Every directory was scrubbed already or is by this step.
LEMMA EraseStep ==
  ASSUME AllScrubbed,
         \A d \in Dirs' : \/ Scrubbed(d, LogOf(d)')
                          \/ \E e \in Dirs : SameScrub(d, e) /\ LogOf(e)' = LogOf(e)
  PROVE  AllScrubbed'
<1>1. SUFFICES ASSUME NEW d \in Dirs' PROVE Scrubbed(d, LogOf(d)')
  BY DEF AllScrubbed
<1>2. ASSUME NEW e \in Dirs, SameScrub(d, e), LogOf(e)' = LogOf(e)
      PROVE  Scrubbed(d, LogOf(d)')
  <2>1. Scrubbed(e, LogOf(e)) /\ LogOf(d)' = LogOf(e)
    BY <1>2 DEF AllScrubbed, LogOf, SameScrub
  <2>. QED  BY <1>2, <2>1, ScrubSame
<1>. QED  BY <1>2

\* No log is written, and no directory changes in what the scrub reads.
LEMMA EraseSameFiles ==
  ASSUME AllScrubbed, logs' = logs, \A d \in Dirs' : \E e \in Dirs : SameScrub(d, e)
  PROVE  AllScrubbed'
<1>1. \A e : LogOf(e)' = LogOf(e)
  BY DEF LogOf
<1>. QED  BY <1>1, EraseStep

\* Outside the passes and the scrub nothing more is asked.
LEMMA EraseElsewhere ==
  ASSUME LogInv', AllScrubbed', pc' \in Elsewhere
  PROVE  EraseInv'
BY DEF EraseInv, MarkAbsent, KillsText, StagedMark, ScrubGoes, Elsewhere, Unparked, Staging

\* A dead record is one the manifest commits.
LEMMA DeadCommitted ==
  ASSUME LogInv, NEW d \in Dirs
  PROVE  /\ d \in Dir /\ d.dead \in SUBSET Nat /\ d.posted \in SUBSET Nat /\ d.scrub \in BOOLEAN /\ d.size \in Nat
         /\ d.log = NoLog => d.dead = {}
         /\ d.log # NoLog => d.log \in LogIds /\ d.dead \subseteq 1..d.size /\ d.size <= Len(LogOf(d))
<1>1. d \in Dir
  BY DirsType DEF LogInv, TailInv, TypeInv
<1>2. Truthful(d, LogOf(d))
  BY DEF LogInv, AllTruthful
<1>. QED  BY <1>1, <1>2, DirFields DEF Truthful

-----------------------------------------------------------------------------
(* The steps that write no log.                                             *)

\* Fields of a directory the scrub does not read.
LEMMA ScrubKept ==
  ASSUME NEW d \in Dir
  PROVE  /\ \A b \in BOOLEAN : SameScrub([d EXCEPT !.deferred = b], d)
         /\ \A n \in Nat : SameScrub([d EXCEPT !.pend = n], d)
         /\ \A n, m \in Nat : SameScrub([d EXCEPT !.stamp = n, !.size = m], d)
BY DEF Dir, SameScrub

\* Nothing on disk changes.
LEMMA EraseQuiet ==
  ASSUME EraseInv, LogInv', ~ScrubFails,
         Client \/ Lock \/ NothingToCut \/ Rescrub \/ Fail \/ ScrubStops \/ Crash \/ UNCHANGED vars
  PROVE  EraseInv'
<1>. USE DEF EraseInv
<1>1. UNCHANGED disk
  BY DEF Client, Say, Delete, Lock, NothingToCut, Rescrub, Fail, ScrubStops, Crash, vars, disk
<1>2. AllScrubbed'
  <2>1. Dirs' = Dirs
    BY <1>1 DEF Dirs, disk
  <2>. QED  BY <1>1, <2>1, ScrubRefl, EraseSameFiles DEF disk
<1>3. CASE Client \/ UNCHANGED vars
  <2>1. pc' = pc /\ job' = job
    BY <1>3 DEF Client, Say, Delete, vars
  <2>2. UNCHANGED <<live, tmp, logs>> /\ Target' = Target
    BY <1>1, <2>1 DEF disk, Target
  <2>3. \A d : LogOf(d)' = LogOf(d)
    BY <2>2 DEF LogOf
  <2>4. MarkAbsent' /\ KillsText'
    BY <2>1, <2>2 DEF MarkAbsent, KillsText
  <2>5. StagedMark'
    BY <2>1, <2>2, <2>3 DEF StagedMark
  <2>6. ScrubGoes'
    BY <2>1, <2>2, <2>3 DEF ScrubGoes
  <2>. QED  BY <1>2, <2>4, <2>5, <2>6
<1>4. CASE Lock \/ NothingToCut \/ Fail \/ Crash
  BY <1>2, <1>4, EraseElsewhere DEF Lock, NothingToCut, Fail, Abandon, Crash, Elsewhere
<1>5. CASE Rescrub
  <2>1. CASE live # NoDir /\ live.scrub
    <3>1. pc' = "words" /\ job' = [job EXCEPT !.dead = live.dead] /\ live' = live
      BY <1>1, <1>5, <2>1 DEF Rescrub, disk
    <3>2. job'.dead = live.dead
      BY <3>1 DEF LogInv, TailInv, TypeInv, TypeOK, Job
    <3>3. ScrubGoes'
      BY <2>1, <3>1, <3>2 DEF ScrubGoes, Clean
    <3>. QED  BY <1>2, <3>1, <3>3 DEF MarkAbsent, KillsText, StagedMark, Unparked, Staging
  <2>2. CASE ~(live # NoDir /\ live.scrub)
    <3>1. pc' = "ready" /\ live' = live
      BY <1>1, <1>5, <2>2 DEF Rescrub, disk
    <3>. QED  BY <1>2, <2>2, <3>1 DEF MarkAbsent, KillsText, StagedMark, ScrubGoes, Unparked, Staging
  <2>. QED  BY <2>1, <2>2
<1>6. CASE ScrubStops
  BY <1>6 DEF ScrubStops
<1>. QED  BY <1>3, <1>4, <1>5, <1>6

\* The steps that move a directory, or rewrite what the scrub does not read.
LEMMA EraseMoves ==
  ASSUME EraseInv, LogInv', "remove" \notin Refusals,
         \/ RecoverPresent \/ RecoverMissing \/ Unmark \/ DropStaging \/ Leave \/ WriteMetadata
         \/ ClearSpot \/ Park \/ Restore \/ Tidy
  PROVE  EraseInv'
<1>. USE DEF EraseInv
<1>1. UNCHANGED logs /\ \A d : LogOf(d)' = LogOf(d)
  BY DEF RecoverPresent, RecoverMissing, Unmark, DropStaging, Leave, WriteMetadata, ClearSpot, Park, Restore, Tidy, LogOf
<1>0. TypeOK
  BY DEF LogInv, TailInv, TypeInv
<1>2. CASE RecoverPresent \/ Tidy \/ ClearSpot
  <2>1. live' = live /\ \E stay \in MayStay : parked' = Cleared(stay)
    BY <1>2 DEF RecoverPresent, Tidy, ClearSpot
  <2>2. \A d \in Dirs' : \E e \in Dirs : SameScrub(d, e)
    BY <2>1, AllCleared, ScrubRefl DEF Dirs
  <2>3. AllScrubbed'
    BY <1>1, <2>2, EraseSameFiles
  <2>4. CASE RecoverPresent
    BY <2>3, <2>4, EraseElsewhere DEF RecoverPresent, Elsewhere
  <2>5. CASE Tidy
    <3>1. CASE job.dead = {}
      BY <2>3, <2>5, <3>1, EraseElsewhere DEF Tidy, Elsewhere
    <3>2. CASE job.dead # {}
      <4>1. pc = "tidy" /\ pc' = "words" /\ job' = job /\ live' = live
        BY <2>5, <3>2 DEF Tidy
      <4>2. ScrubGoes'
        BY <1>1, <3>2, <4>1 DEF ScrubGoes
      <4>. QED  BY <2>3, <4>1, <4>2 DEF MarkAbsent, KillsText, StagedMark, Unparked, Staging
    <3>. QED  BY <3>1, <3>2
  <2>6. CASE ClearSpot
    <3>1. pc = "clear" /\ pc' = "park" /\ tmp' = tmp /\ \E n : job' = [job EXCEPT !.spot = n]
      BY <2>6 DEF ClearSpot
    <3>2. job'.dead = job.dead
      BY <1>0, <3>1 DEF TypeOK, Job
    <3>3. MarkAbsent'
      BY <2>1, <3>1 DEF MarkAbsent, Unparked
    <3>4. StagedMark'
      BY <1>1, <3>1, <3>2 DEF StagedMark, Staging
    <3>. QED  BY <2>3, <3>1, <3>3, <3>4 DEF KillsText, ScrubGoes
  <2>. QED  BY <1>2, <2>4, <2>5, <2>6
<1>3. CASE RecoverMissing \/ Restore
  <2>1. pc' \in {"untail", "undo", "idle"}
    BY <1>3 DEF RecoverMissing, Restore, Abandon
  <2>2. \/ UNCHANGED <<live, parked>>
        \/ \E n \in Spots : live' = parked[n] /\ parked' = [parked EXCEPT ![n] = NoDir]
    BY <1>0, <1>3, NewestType DEF RecoverMissing, Restore, TypeOK, Job
  <2>3. \A d \in Dirs' : d \in Dirs
    BY <1>0, <2>2 DEF Dirs, TypeOK
  <2>. QED  BY <1>1, <2>1, <2>3, ScrubRefl, EraseSameFiles, EraseElsewhere DEF Elsewhere
<1>4. CASE Unmark \/ WriteMetadata
  <2>1. pc' \in {"drop", "rescrub", "idle"} /\ parked' = parked
    BY <1>4 DEF Unmark, WriteMetadata
  <2>2. live' # NoDir => live \in Dirs /\ SameScrub(live', live)
    <3>1. CASE Unmark
      <4>1. live' # NoDir => live \in Dir /\ live' = [live EXCEPT !.pend = 0] /\ live # NoDir
        BY <1>0, <3>1 DEF Unmark, TypeOK
      <4>. QED  BY <4>1, ScrubKept DEF Dirs
    <3>2. CASE WriteMetadata
      <4>1. live \in Dir /\ live # NoDir /\ writes + 1 \in Nat
        BY <1>0, <3>2, ConstantsAssumption DEF WriteMetadata, HasManifest, TypeOK
      <4>2. PICK m \in Nat : live' = [live EXCEPT !.stamp = writes + 1, !.size = m]
        <5>1. live.size \in Nat /\ Len(LogOf(live)) \in Nat
          BY <1>0, <4>1, DirFields, LenProperties, EmptySeq DEF LogOf, TypeOK
        <5>. QED  BY <3>2, <5>1 DEF WriteMetadata
      <4>. QED  BY <4>1, <4>2, ScrubKept DEF Dirs
    <3>. QED  BY <1>4, <3>1, <3>2
  <2>3. \A d \in Dirs' : d = live' \/ d \in Dirs
    BY <2>1 DEF Dirs
  <2>4. \A d \in Dirs' : \E e \in Dirs : SameScrub(d, e)
    BY <2>2, <2>3, ScrubRefl DEF Dirs
  <2>. QED  BY <1>1, <2>1, <2>4, EraseSameFiles, EraseElsewhere DEF Elsewhere
<1>5. CASE DropStaging \/ Leave
  <2>1. pc' = "idle" /\ Dirs' = Dirs
    BY <1>5 DEF DropStaging, Leave, Dirs
  <2>. QED  BY <1>1, <2>1, ScrubRefl, EraseSameFiles, EraseElsewhere DEF Elsewhere
<1>6. CASE Park
  <2>1. /\ live' = NoDir /\ pc = "park" /\ pc' = "carry" /\ UNCHANGED <<tmp, job>>
        /\ parked' = IF live = NoDir THEN parked ELSE [parked EXCEPT ![job.spot] = live]
    BY <1>6 DEF Park
  <2>2. \A d \in Dirs' : d \in Dirs
    BY <1>0, <2>1 DEF Dirs, TypeOK
  <2>3. AllScrubbed'
    BY <1>1, <2>2, ScrubRefl, EraseSameFiles
  <2>4. StagedMark'
    BY <1>1, <2>1 DEF StagedMark, Staging
  <2>. QED  BY <2>1, <2>3, <2>4 DEF MarkAbsent, KillsText, ScrubGoes, Unparked
<1>. QED  BY <1>2, <1>3, <1>4, <1>5, <1>6

\* The carried text is no part of a scrub.
LEMMA EraseCarry ==
  ASSUME EraseInv, LogInv', CarryState \/ InstallRefused
  PROVE  EraseInv'
<1>. USE DEF EraseInv
<1>0. TypeOK /\ Present
  BY DEF LogInv, TailInv, TypeInv
<1>1. /\ pc' \in {"install", "restore"} /\ (pc' = "install" => pc = "carry")
      /\ UNCHANGED <<live, logs, job>> /\ job.spot \in Spots
  BY <1>0, JobFields DEF CarryState, InstallRefused, TypeOK
<1>2. PICK b \in BOOLEAN, c \in BOOLEAN :
         \/ UNCHANGED <<parked, tmp>>
         \/ /\ parked[job.spot] # NoDir /\ tmp # NoDir
            /\ parked' = [parked EXCEPT ![job.spot].deferred = b]
            /\ tmp' = [tmp EXCEPT !.deferred = c]
  BY <1>0 DEF CarryState, InstallRefused, Present
<1>3. /\ \A d \in Dirs' : \E e \in Dirs : SameScrub(d, e)
      /\ tmp # NoDir => SameScrub(tmp', tmp)
  <2>1. CASE UNCHANGED <<parked, tmp>>
    BY <1>1, <2>1, ScrubRefl DEF Dirs
  <2>2. CASE /\ parked[job.spot] # NoDir /\ tmp # NoDir
             /\ parked' = [parked EXCEPT ![job.spot].deferred = b]
             /\ tmp' = [tmp EXCEPT !.deferred = c]
    <3>. DEFINE d == parked[job.spot]
                e == [d EXCEPT !.deferred = b]
    <3>1. d \in Dir /\ tmp \in Dir /\ d \in Dirs
      BY <1>0, <1>1, <2>2 DEF TypeOK, Dirs
    <3>2. parked' = [parked EXCEPT ![job.spot] = e]
      BY <2>2
    <3>3. SameScrub(e, d) /\ SameScrub(tmp', tmp)
      BY <3>1, <2>2, ScrubKept
    <3>. HIDE DEF d, e
    <3>4. \A f \in Dirs' : f = e \/ f \in Dirs
      BY <1>0, <1>1, <3>2 DEF Dirs, TypeOK
    <3>. QED  BY <3>1, <3>3, <3>4, ScrubRefl
  <2>. QED  BY <1>2, <2>1, <2>2
<1>4. AllScrubbed'
  BY <1>1, <1>3, EraseSameFiles
<1>5. CASE pc' = "restore"
  BY <1>4, <1>5, EraseElsewhere DEF Elsewhere
<1>6. CASE pc' = "install"
  <2>1. tmp # NoDir /\ SameScrub(tmp', tmp) /\ pc = "carry"
    BY <1>0, <1>1, <1>3, <1>6 DEF Present
  <2>2. LogOf(tmp)' = LogOf(tmp) /\ tmp'.scrub = tmp.scrub /\ tmp'.dead = tmp.dead
    BY <1>1, <2>1 DEF LogOf, SameScrub
  <2>3. Scrubbed(tmp', LogOf(tmp)) /\ Clean(tmp', LogOf(tmp), tmp.dead \ job.dead)
    BY <2>1, ScrubSame DEF StagedMark, Staging
  <2>4. tmp.scrub = (job.dead # {})
    BY <2>1 DEF StagedMark, Staging
  <2>5. StagedMark'
    BY <1>1, <2>2, <2>3, <2>4 DEF StagedMark
  <2>. QED  BY <1>4, <1>6, <2>5 DEF MarkAbsent, KillsText, ScrubGoes, Unparked
<1>. QED  BY <1>1, <1>5, <1>6

\* The staged directory comes into its place with its mark.
LEMMA EraseInstall ==
  ASSUME EraseInv, LogInv', Install
  PROVE  EraseInv'
<1>. USE DEF EraseInv
<1>1. /\ pc = "install" /\ pc' = "tidy" /\ live' = tmp /\ UNCHANGED <<parked, logs, job>>
  BY DEF Install
<1>2. /\ Scrubbed(tmp, LogOf(tmp)) /\ tmp.scrub = (job.dead # {})
      /\ Clean(tmp, LogOf(tmp), tmp.dead \ job.dead)
  BY <1>1 DEF StagedMark, Staging
<1>3. \A d : LogOf(d)' = LogOf(d)
  BY <1>1 DEF LogOf
<1>4. AllScrubbed'
  <2>1. \A d \in Dirs' : d = tmp \/ d \in Dirs
    BY <1>1 DEF Dirs
  <2>2. \A d \in Dirs' : \/ Scrubbed(d, LogOf(d)')
                         \/ \E e \in Dirs : SameScrub(d, e) /\ LogOf(e)' = LogOf(e)
    <3>1. Scrubbed(tmp, LogOf(tmp)) /\ \A d : d = tmp => LogOf(d)' = LogOf(tmp)
      BY <1>2, <1>3
    <3>. QED  BY <1>3, <2>1, <3>1, ScrubRefl
  <2>. QED  BY <2>2, EraseStep
<1>5. LogOf(live)' = LogOf(tmp)
  BY <1>1 DEF LogOf
<1>6. ScrubGoes'
  BY <1>1, <1>2, <1>5 DEF ScrubGoes
<1>. QED  BY <1>1, <1>4, <1>6 DEF MarkAbsent, KillsText, StagedMark, Unparked, Staging

\* A hook touches nothing a scrub reads.
LEMMA EraseHook ==
  ASSUME EraseInv, LogInv', Hook
  PROVE  EraseInv'
<1>. USE DEF EraseInv
<1>0. TypeOK /\ Present
  BY DEF LogInv, TailInv, TypeInv
<1>1. UNCHANGED <<tmp, parked, logs, pc, job>> /\ \A d : LogOf(d)' = LogOf(d)
  BY HookDoes DEF MakeHollow, Defer, Take, LogOf
<1>2. StagedMark'
  BY <1>1 DEF StagedMark
<1>3. CASE MakeHollow
  <2>1. live = NoDir /\ live' = Hollow
    BY <1>3 DEF MakeHollow
  <2>2. Scrubbed(Hollow, LogOf(Hollow)') /\ ~Hollow.scrub
    BY HollowFields DEF Scrubbed, Clean
  <2>3. AllScrubbed'
    <3>1. \A d \in Dirs' : d = Hollow \/ d \in Dirs
      BY <1>1, <2>1 DEF Dirs
    <3>2. \A d \in Dirs' : \/ Scrubbed(d, LogOf(d)')
                           \/ \E e \in Dirs : SameScrub(d, e) /\ LogOf(e)' = LogOf(e)
      BY <1>1, <2>2, <3>1, ScrubRefl
    <3>. QED  BY <3>2, EraseStep
  <2>4. pc \notin {"tidy", "words", "zero"} /\ (pc = "write" => job.pass # "append")
    BY <1>0, <2>1 DEF Present, HasManifest
  <2>5. MarkAbsent' /\ ScrubGoes'
    BY <1>1, <2>1, <2>2, <2>4 DEF MarkAbsent, ScrubGoes
  <2>6. KillsText'
    BY <1>1, <2>4 DEF KillsText, Target
  <2>. QED  BY <1>2, <2>3, <2>5, <2>6
<1>4. CASE Defer \/ Take
  <2>1. live # NoDir /\ live' # NoDir /\ SameScrub(live', live)
    <3>1. live \in Dir /\ live # NoDir
      BY <1>0, <1>4 DEF Defer, Take, HasManifest, TypeOK
    <3>2. PICK b \in BOOLEAN : live' = [live EXCEPT !.deferred = b]
      BY <1>4 DEF Defer, Take
    <3>. QED  BY <3>1, <3>2, ScrubKept, DirDeferred, NoDirAssumption
  <2>2. AllScrubbed'
    <3>1. \A d \in Dirs' : \E e \in Dirs : SameScrub(d, e)
      BY <1>1, <2>1, ScrubRefl DEF Dirs
    <3>. QED  BY <1>1, <3>1, EraseSameFiles
  <2>3. live'.scrub = live.scrub /\ live'.log = live.log /\ live'.dead = live.dead /\ live'.posted = live.posted
    BY <2>1 DEF SameScrub
  <2>4. LogOf(live)' = LogOf(live)
    BY <1>1, <2>3 DEF LogOf
  <2>5. MarkAbsent' /\ KillsText'
    BY <1>1, <2>1, <2>3 DEF MarkAbsent, KillsText, Target
  <2>6. ScrubGoes'
    <3>1. Clean(live, LogOf(live), live.dead \ job.dead) => Clean(live', LogOf(live), live.dead \ job.dead)
      BY <2>1, ScrubSame
    <3>. QED  BY <1>1, <2>3, <2>4, <3>1 DEF ScrubGoes
  <2>. QED  BY <1>2, <2>2, <2>5, <2>6
<1>. QED  BY <1>3, <1>4, HookDoes

-----------------------------------------------------------------------------
(* The scrub.                                                               *)

\* The words of the dead records leave the postings.
LEMMA EraseWords ==
  ASSUME EraseInv, LogInv', BlankWords
  PROVE  EraseInv'
<1>. USE DEF EraseInv
<1>. DEFINE P == live.posted \ {o \in job.dead : logs[live.log][o] # Erased}
            log == LogOf(live)
<1>1. /\ pc = "words" /\ pc' = "zero" /\ live' = [live EXCEPT !.posted = P]
      /\ UNCHANGED <<parked, logs, job>> /\ \A d : LogOf(d)' = LogOf(d)
  BY DEF BlankWords, LogOf
<1>2. live \in Dirs /\ live \in Dir /\ live # NoDir
  BY <1>1 DEF LogInv, TailInv, TypeInv, TypeOK, Present, Dirs
<1>3. /\ live'.posted = P /\ live'.dead = live.dead /\ live'.scrub = live.scrub /\ live'.log = live.log
      /\ LogOf(live)' = log
  BY <1>1, <1>2 DEF Dir, LogOf
<1>4. live.scrub /\ Scrubbing(live, log) /\ Clean(live, log, live.dead \ job.dead)
  BY <1>1, <1>2 DEF ScrubGoes, AllScrubbed, Scrubbed
<1>5. \A o \in live.dead : o \notin P
  <2>1. CASE live.log = NoLog
    BY <1>2, <2>1, DeadCommitted
  <2>2. CASE live.log # NoLog
    <3>1. log = logs[live.log]
      BY <2>2 DEF LogOf
    <3>. QED  BY <1>4, <3>1 DEF Scrubbing, Clean
  <2>. QED  BY <2>1, <2>2
<1>. HIDE DEF P, log
<1>6. Clean(live', log, live.dead \ job.dead)
  BY <1>3, <1>4, <1>5 DEF Clean
<1>7. AllScrubbed'
  <2>1. \A d \in Dirs' : d = live' \/ d \in Dirs
    BY <1>1 DEF Dirs
  <2>2. Scrubbed(live', log)
    BY <1>3, <1>4, <1>5 DEF Scrubbed, Scrubbing
  <2>3. \A d : d = live' => LogOf(d)' = log
    BY <1>1, <1>3 DEF LogOf
  <2>4. \A d \in Dirs' : \/ Scrubbed(d, LogOf(d)')
                         \/ \E e \in Dirs : SameScrub(d, e) /\ LogOf(e)' = LogOf(e)
    BY <1>1, <2>1, <2>2, <2>3, ScrubRefl
  <2>. QED  BY <2>4, EraseStep
<1>8. ScrubGoes'
  BY <1>1, <1>3, <1>4, <1>5, <1>6 DEF ScrubGoes
<1>. QED  BY <1>1, <1>7, <1>8 DEF MarkAbsent, KillsText, StagedMark, Unparked, Staging

\* A dead record is erased.
LEMMA EraseZero ==
  ASSUME EraseInv, LogInv', ZeroRecord
  PROVE  EraseInv'
<1>. USE DEF EraseInv
<1>0. pc = "zero" /\ pc' = "zero" /\ UNCHANGED <<live, parked>> /\ job.dead \subseteq live.dead /\ job \in Job
  BY DEF ZeroRecord, LogInv, Staged, TailInv, TypeInv, TypeOK
<1>1. PICK o \in job.dead : /\ logs' = [logs EXCEPT ![live.log][o] = Erased]
                            /\ job' = [job EXCEPT !.dead = job.dead \ {o}]
  <2>1. \E o \in job.dead : \A k \in job.dead : o <= k
    <3>1. job.dead # {} /\ job.dead \in SUBSET Nat
      BY <1>0, JobFields DEF ZeroRecord
    <3>. QED  BY <3>1, LeastExists
  <2>. QED  BY <2>1 DEF ZeroRecord
<1>2. live \in Dirs /\ live \in Dir /\ live # NoDir /\ o \in live.dead
  BY <1>0 DEF LogInv, TailInv, TypeInv, TypeOK, Present, Dirs
<1>3. live.log # NoLog /\ live.log \in LogIds /\ live.dead \subseteq 1..Len(LogOf(live)) /\ LogOf(live) = logs[live.log]
  BY <1>2, DeadCommitted, LenProperties, EmptySeq DEF LogOf
<1>. DEFINE a == logs[live.log]
            b == logs'[live.log]
<1>4. b[o] = Erased /\ \A p : p # o => b[p] = a[p]
  <2>1. logs \in [LogIds -> Seq(Record)] /\ a \in Seq(Record) /\ o \in 1..Len(a) /\ DOMAIN a = 1..Len(a)
    BY <1>2, <1>3, LenProperties DEF LogInv, TailInv, TypeInv, TypeOK
  <2>2. b = [a EXCEPT ![o] = Erased]
    BY <1>1, <1>3, <2>1
  <2>. HIDE DEF a, b
  <2>. QED  BY <2>1, <2>2
<1>5. LogOf(live)' = b /\ LogOf(live) = a
  BY <1>0, <1>3 DEF LogOf
<1>6. job'.dead = job.dead \ {o}
  BY <1>0, <1>1 DEF Job
<1>. HIDE DEF a, b
<1>7. Dirs' = {live}
  <2>1. HasManifest(live)
    BY <1>2, <1>3 DEF HasManifest
  <2>2. Dirs = {live}
    BY <1>0, <2>1, AloneDirs DEF LogInv, TailInv
  <2>. QED  BY <1>0, <2>2 DEF Dirs
<1>8. live.scrub /\ Clean(live, a, live.dead \ job.dead) /\ live.dead \intersect live.posted = {}
  BY <1>0, <1>5 DEF ScrubGoes
<1>9. AllScrubbed'
  <2>1. Scrubbed(live, b)
    BY <1>8 DEF Scrubbed, Scrubbing
  <2>2. \A d \in Dirs' : d = live /\ LogOf(d)' = b
    BY <1>0, <1>5, <1>7 DEF LogOf
  <2>. QED  BY <2>1, <2>2, EraseStep
<1>10. Clean(live, b, live.dead \ job'.dead)
  BY <1>4, <1>6, <1>8 DEF Clean
<1>11. ScrubGoes'
  BY <1>0, <1>5, <1>8, <1>10 DEF ScrubGoes
<1>. QED  BY <1>0, <1>9, <1>11 DEF MarkAbsent, KillsText, StagedMark, Unparked, Staging

\* The mark goes when no dead record is left to erase.
LEMMA EraseUnscrub ==
  ASSUME EraseInv, LogInv', Unscrub
  PROVE  EraseInv'
<1>. USE DEF EraseInv
<1>1. /\ pc = "zero" /\ job.dead = {} /\ pc' \in {"ready", "idle"}
      /\ live' = [live EXCEPT !.scrub = FALSE] /\ UNCHANGED <<parked, logs>>
      /\ \A d : LogOf(d)' = LogOf(d)
  BY DEF Unscrub, ScrubDone, LogOf
<1>2. live \in Dirs /\ live \in Dir /\ live # NoDir
  BY <1>1 DEF LogInv, TailInv, TypeInv, TypeOK, Present, Dirs
<1>3. /\ live'.posted = live.posted /\ live'.dead = live.dead /\ live'.scrub = FALSE /\ live'.log = live.log
  BY <1>1, <1>2 DEF Dir
<1>4. Clean(live, LogOf(live), live.dead)
  BY <1>1 DEF ScrubGoes
<1>5. AllScrubbed'
  <2>1. Scrubbed(live', LogOf(live)) /\ \A d : d = live' => LogOf(d)' = LogOf(live)
    BY <1>1, <1>3, <1>4 DEF Scrubbed, Clean, LogOf
  <2>2. \A d \in Dirs' : d = live' \/ d \in Dirs
    BY <1>1 DEF Dirs
  <2>3. \A d \in Dirs' : \/ Scrubbed(d, LogOf(d)')
                         \/ \E e \in Dirs : SameScrub(d, e) /\ LogOf(e)' = LogOf(e)
    BY <1>1, <2>1, <2>2, ScrubRefl
  <2>. QED  BY <2>3, EraseStep
<1>. QED  BY <1>1, <1>3, <1>5 DEF MarkAbsent, KillsText, StagedMark, ScrubGoes, Unparked, Staging

-----------------------------------------------------------------------------
(* The steps that write a log.                                              *)

\* A log cut back loses no dead record of a manifest.
LEMMA EraseCut ==
  ASSUME EraseInv, LogInv', CutTail
  PROVE  EraseInv'
<1>. USE DEF EraseInv
<1>. DEFINE a == LogOf(live)
            b == LogOf(live)'
<1>1. /\ pc' \in {"undone", "unmark"} /\ live' = live /\ Dirs' = {live} /\ live \in Dirs
      /\ live.log # NoLog /\ \A o \in 1..live.size : b[o] = a[o]
  BY CutKeeps
<1>2. live.dead \subseteq 1..live.size /\ Scrubbed(live, a)
  BY <1>1, DeadCommitted DEF AllScrubbed
<1>3. \A d \in Dirs' : d = live /\ LogOf(d)' = b
  BY <1>1 DEF LogOf
<1>. HIDE DEF a, b
<1>4. SameAt(live.dead, a, b)
  BY <1>1, <1>2 DEF SameAt
<1>5. Scrubbed(live, b)
  BY <1>2, <1>4, ScrubLike
<1>6. AllScrubbed'
  BY <1>3, <1>5, EraseStep
<1>. QED  BY <1>1, <1>6, EraseElsewhere DEF Elsewhere

\* The passes that write a log anew.
LEMMA EraseStartLog ==
  ASSUME EraseInv, LogInv', CanBegin, NEW l \in LogIds \ Linked, NEW todo, NEW rows, StartLog(l, todo, rows)
  PROVE  EraseInv'
<1>. USE DEF EraseInv
<1>0. TypeOK
  BY DEF LogInv, TailInv, TypeInv
<1>1. /\ pc = "ready" /\ pc' = "write" /\ UNCHANGED <<live, parked>>
      /\ logs' = [logs EXCEPT ![l] = << >>] /\ job'.dead = {}
  BY DEF StartLog, CanBegin, NoJob
<1>2. \A d \in Dirs : LogOf(d)' = LogOf(d)
  <2>1. \A d \in Dirs : d.log # l
    BY DEF Dirs, Linked
  <2>. QED  BY <1>0, <1>1, <2>1, DirsType, DirFields DEF LogOf, TypeOK
<1>3. AllScrubbed'
  <2>1. Dirs' = Dirs
    BY <1>1 DEF Dirs
  <2>. QED  BY <1>2, <2>1, ScrubRefl, EraseStep
<1>4. MarkAbsent'
  BY <1>1 DEF MarkAbsent
<1>. QED  BY <1>1, <1>3, <1>4 DEF KillsText, StagedMark, ScrubGoes, Staging

\* The passes that append to the log.
LEMMA EraseAppend ==
  ASSUME EraseInv, LogInv', NEW S \in SUBSET Sessions, AppendInPlace(S)
  PROVE  EraseInv'
<1>. USE DEF EraseInv
<1>1. /\ pc = "ready" /\ pc' = "write" /\ UNCHANGED <<live, parked, logs>> /\ job'.dead = {}
  BY DEF AppendInPlace, CanBegin, NoJob
<1>2. AllScrubbed'
  BY <1>1, ScrubRefl, EraseSameFiles DEF Dirs
<1>. QED  BY <1>1, <1>2 DEF MarkAbsent, KillsText, StagedMark, ScrubGoes, Staging

\* A pass that appends begins over an index without a mark.
LEMMA EraseReplace ==
  ASSUME EraseInv, LogInv', NEW S \in SUBSET Sessions, ReplaceAppending(S)
  PROVE  EraseInv'
<1>. USE DEF EraseInv
<1>1. /\ pc = "ready" /\ pc' = "write" /\ HasManifest(live) /\ UNCHANGED <<parked, logs>>
      /\ live' = [live EXCEPT !.pend = live.size] /\ tmp' = [Hollow EXCEPT !.log = live.log]
      /\ job'.dead = UNION {Offsets(live, LogOf(live), live.size, s) : s \in S}
      /\ job'.pass = "replace"
  BY DEF ReplaceAppending, CanBegin, Intact, NoJob
<1>2. live \in Dir /\ live \in Dirs /\ live.log \in LogIds /\ LogOf(live) = logs[live.log]
  BY <1>1, LiveIsTrue
<1>3. SameScrub(live', live)
  BY <1>1, <1>2, ScrubKept, DirFields
<1>4. AllScrubbed'
  <2>1. \A d \in Dirs' : d = live' \/ d \in Dirs
    BY <1>1 DEF Dirs
  <2>. QED  BY <1>1, <1>2, <1>3, <2>1, ScrubRefl, EraseSameFiles
<1>5. MarkAbsent'
  BY <1>1, <1>3 DEF MarkAbsent, SameScrub, HasManifest
<1>6. KillsText'
  <2>1. Target' = live.log
    BY <1>1, HollowFields DEF Target
  <2>2. DOMAIN live.strs = 1..Len(live.strs)
    BY <1>2, DirFields, LenProperties
  <2>3. \A o \in job'.dead : logs[live.log][o].kid \in 1..Len(live.strs)
    BY <1>1, <1>2, <2>2 DEF Offsets
  <2>4. Len(live.strs) \in Nat
    BY <1>2, DirFields, LenProperties
  <2>5. \A o \in job'.dead : logs[live.log][o].kid # 0
    BY <2>3, <2>4
  <2>. QED  BY <1>1, <2>1, <2>5 DEF KillsText
<1>. QED  BY <1>1, <1>4, <1>5, <1>6 DEF StagedMark, ScrubGoes, Staging

\* So does every pass.
LEMMA EraseBegin ==
  ASSUME EraseInv, LogInv', "remove" \notin Refusals, Begin
  PROVE  EraseInv'
<1>1. ASSUME NEW l \in LogIds \ Linked, Rebuild(l) \/ \E S \in SUBSET Sessions : ReplaceWhole(l, S)
      PROVE  EraseInv'
  <2>1. CanBegin /\ \E todo, rows : StartLog(l, todo, rows)
    BY <1>1 DEF Rebuild, ReplaceWhole
  <2>. QED  BY <2>1, EraseStartLog
<1>. QED  BY <1>1, EraseAppend, EraseReplace, EraseMoves DEF Begin

\* A record is written behind the dead ones.
LEMMA EraseWrite ==
  ASSUME EraseInv, LogInv', WriteRecord
  PROVE  EraseInv'
<1>. USE DEF EraseInv
<1>0. TypeOK /\ TypeInv /\ pc = "write" /\ TailInv
  BY DEF LogInv, TailInv, TypeInv, WriteRecord
<1>. DEFINE a == logs[Target]
            b == logs'[Target]
<1>1. PICK r \in Record : /\ logs' = [logs EXCEPT ![Target] = Append(logs[Target], r)]
                          /\ b = Append(a, r) /\ a \in Seq(Record) /\ Target \in LogIds
                          /\ job'.pass = job.pass /\ job'.dead = job.dead
                          /\ UNCHANGED <<live, tmp, parked, pc>>
  BY <1>0, WriteIs
<1>2. Len(a) \in Nat /\ \A o \in 1..Len(a) : b[o] = a[o]
  BY <1>1, AppendProperties, LenProperties
<1>3. Target' = Target
  BY <1>1 DEF Target
<1>. HIDE DEF a, b
<1>4. \A d \in Dirs : Scrubbed(d, LogOf(d)')
  <2>1. SUFFICES ASSUME NEW d \in Dirs PROVE Scrubbed(d, LogOf(d)')
    OBVIOUS
  <2>2. /\ d \in Dir /\ d.dead \in SUBSET Nat /\ (d.log = NoLog => d.dead = {}) /\ d.size \in Nat
        /\ d.log # NoLog => d.log \in LogIds /\ d.dead \subseteq 1..d.size /\ d.size <= Len(LogOf(d))
    BY DeadCommitted
  <2>3. Scrubbed(d, LogOf(d))
    BY DEF AllScrubbed
  <2>4. SameAt(d.dead, LogOf(d), LogOf(d)')
    <3>1. CASE d.log = NoLog
      BY <2>2, <3>1 DEF SameAt
    <3>2. CASE d.log # NoLog /\ d.log = Target
      <4>1. LogOf(d) = a /\ LogOf(d)' = b
        BY <3>2 DEF LogOf, a, b
      <4>2. d.dead \subseteq 1..Len(a)
        BY <1>2, <2>2, <3>2, <4>1
      <4>. QED  BY <1>2, <4>1, <4>2 DEF SameAt
    <3>3. CASE d.log # NoLog /\ d.log # Target
      <4>1. logs'[d.log] = logs[d.log]
        BY <1>0, <1>1, <2>2, <3>3 DEF TypeOK
      <4>. QED  BY <3>3, <4>1 DEF LogOf, SameAt
    <3>. QED  BY <3>1, <3>2, <3>3
  <2>. QED  BY <2>3, <2>4, ScrubLike
<1>5. AllScrubbed'
  <2>1. Dirs' = Dirs
    BY <1>1 DEF Dirs
  <2>. QED  BY <1>4, <2>1, EraseStep
<1>6. KillsText'
  <2>1. job.dead \subseteq 1..Len(a)
    <3>1. Covers(Plan, a, job.todo, job.rows)
      BY <1>0 DEF LogInv, Writing, a
    <3>2. Plan.dead \subseteq 1..Len(a)
      BY <3>1 DEF Covers, Knows
    <3>3. job.pass # "append" => job.dead \subseteq Plan.dead
      BY DEF Plan, DeadAfter
    <3>. QED  BY <3>2, <3>3, <1>0 DEF KillsText
  <2>2. \A o \in job.dead : a[o].kid # 0
    BY <1>0 DEF KillsText, a
  <2>3. \A o \in job'.dead : b[o].kid # 0
    BY <1>1, <1>2, <2>1, <2>2
  <2>. QED  BY <1>1, <1>3, <2>3 DEF KillsText, b
<1>7. MarkAbsent'
  BY <1>1 DEF MarkAbsent
<1>. QED  BY <1>0, <1>1, <1>5, <1>6, <1>7 DEF StagedMark, ScrubGoes, Staging

\* A staged manifest that lists a record it killed has the mark.
LEMMA EraseSeal ==
  ASSUME EraseInv, LogInv', Seal
  PROVE  EraseInv'
<1>. USE DEF EraseInv
<1>0. TypeOK /\ Present /\ TailInv
  BY DEF LogInv, TailInv, TypeInv
<1>. DEFINE old == IF job.pass = "replace" THEN live ELSE Hollow
            log == logs[tmp.log]
<1>1. /\ pc = "write" /\ pc' = "clear" /\ job.pass # "append" /\ UNCHANGED <<live, parked, logs, job>>
      /\ tmp' = [Hollow EXCEPT
           !.log = tmp.log, !.size = Len(log), !.strs = job.strs, !.dead = DeadAfter,
           !.rows = job.rows, !.stamp = writes,
           !.posted = old.posted \union (old.size + 1)..Len(log), !.scrub = MarkScrub]
  BY DEF Seal
<1>2. /\ tmp'.log = tmp.log /\ tmp'.dead = DeadAfter /\ tmp'.scrub = (job.dead # {})
      /\ tmp'.posted = old.posted \union (old.size + 1)..Len(log)
  BY <1>1 DEF Hollow, MarkScrub
<1>3. tmp.log \in LogIds /\ tmp.log # NoLog /\ Target = tmp.log
  BY <1>0, <1>1, ConstantsAssumption DEF Present, Target
<1>4. LogOf(tmp)' = log
  BY <1>1, <1>2, <1>3 DEF LogOf
<1>5. \A o \in job.dead : log[o] # Erased
  <2>1. \A o \in job.dead : log[o].kid # 0
    BY <1>1, <1>3 DEF KillsText
  <2>. QED  BY <2>1 DEF Erased
<1>6. Clean(tmp', log, DeadAfter \ job.dead)
  <2>1. CASE job.pass = "replace"
    <3>1. HasManifest(live) /\ live.log = tmp.log /\ ~live.scrub
      BY <1>0, <1>1, <2>1 DEF TailInv, Marked, Unparked, MarkAbsent, HasManifest
    <3>2. live \in Dirs /\ LogOf(live) = log
      BY <3>1, LiveIsTrue DEF LogOf
    <3>3. Clean(live, log, live.dead) /\ live.dead \subseteq 1..live.size /\ live.size \in Nat
      BY <3>1, <3>2, DeadCommitted DEF AllScrubbed, Scrubbed, HasManifest
    <3>4. \A o \in live.dead : o \notin tmp'.posted
      BY <1>2, <2>1, <3>3 DEF Clean
    <3>. QED  BY <2>1, <3>3, <3>4 DEF Clean, DeadAfter
  <2>2. CASE job.pass # "replace"
    BY <2>2 DEF Clean, DeadAfter
  <2>. QED  BY <2>1, <2>2
<1>. HIDE DEF old, log
<1>7. Scrubbed(tmp', log)
  <2>1. CASE job.dead = {}
    BY <1>2, <1>6, <2>1 DEF Scrubbed, Clean
  <2>2. CASE job.dead # {}
    BY <1>2, <1>5, <1>6, <2>2 DEF Scrubbed, Scrubbing, Clean
  <2>. QED  BY <2>1, <2>2
<1>8. AllScrubbed'
  BY <1>1, ScrubRefl, EraseSameFiles DEF Dirs
<1>9. StagedMark'
  BY <1>1, <1>2, <1>4, <1>6, <1>7 DEF StagedMark
<1>10. MarkAbsent'
  BY <1>1 DEF MarkAbsent, Unparked
<1>. QED  BY <1>1, <1>8, <1>9, <1>10 DEF KillsText, ScrubGoes

\* An in-place append kills no record.
LEMMA EraseCommit ==
  ASSUME EraseInv, LogInv', CommitAppend
  PROVE  EraseInv'
<1>. USE DEF EraseInv
<1>0. TypeOK /\ Present
  BY DEF LogInv, TailInv, TypeInv
<1>1. /\ pc = "write" /\ pc' = "idle" /\ job.pass = "append" /\ UNCHANGED <<parked, logs>>
      /\ live' = [live EXCEPT
           !.size = Len(logs[live.log]), !.strs = job.strs, !.rows = job.rows,
           !.stamp = writes, !.posted = live.posted \union (live.size + 1)..Len(logs[live.log])]
  BY DEF CommitAppend
<1>2. HasManifest(live) /\ live \in Dir /\ live \in Dirs /\ live.log # NoLog /\ ~live.scrub
  BY <1>0, <1>1, LiveIsTrue DEF Present, MarkAbsent, Unparked, HasManifest
<1>3. /\ live'.log = live.log /\ live'.dead = live.dead /\ live'.scrub = live.scrub
      /\ live'.posted = live.posted \union (live.size + 1)..Len(logs[live.log])
  BY <1>1, <1>2 DEF Dir
<1>4. Clean(live, LogOf(live), live.dead) /\ live.dead \subseteq 1..live.size /\ live.size \in Nat
  BY <1>2, DeadCommitted DEF AllScrubbed, Scrubbed
<1>5. Scrubbed(live', LogOf(live))
  <2>1. \A o \in live.dead : o \notin live'.posted
    BY <1>3, <1>4 DEF Clean
  <2>. QED  BY <1>2, <1>3, <1>4, <2>1 DEF Scrubbed, Clean
<1>6. AllScrubbed'
  <2>1. \A d \in Dirs' : d = live' \/ d \in Dirs
    BY <1>1 DEF Dirs
  <2>2. (\A d : d = live' => LogOf(d)' = LogOf(live)) /\ \A d : LogOf(d)' = LogOf(d)
    BY <1>1, <1>3 DEF LogOf
  <2>3. \A d \in Dirs' : \/ Scrubbed(d, LogOf(d)')
                         \/ \E e \in Dirs : SameScrub(d, e) /\ LogOf(e)' = LogOf(e)
    BY <1>5, <2>1, <2>2, ScrubRefl
  <2>. QED  BY <2>3, EraseStep
<1>. QED  BY <1>1, <1>6, EraseElsewhere DEF Elsewhere

-----------------------------------------------------------------------------

\* No index, nothing to erase.
LEMMA EraseInit == Init => EraseInv
<1>. SUFFICES ASSUME Init PROVE EraseInv
  OBVIOUS
<1>1. Dirs = {} /\ pc = "idle"
  BY DEF Init, Dirs
<1>. QED  BY <1>1, LogInit DEF EraseInv, AllScrubbed, MarkAbsent, KillsText, StagedMark, ScrubGoes, Unparked, Staging

\* Every step keeps replaced text erased or marked.
LEMMA EraseNext ==
  ASSUME "remove" \notin Refusals, ~EmptyIndex, ~ScrubFails, EraseInv, [Next]_vars
  PROVE  EraseInv'
<1>1. LogInv'
  BY LogNext DEF EraseInv
<1>. QED
  BY <1>1, EraseQuiet, EraseHook, EraseMoves, EraseCut, EraseBegin, EraseWrite, EraseSeal, EraseCommit,
     EraseCarry, EraseInstall, EraseWords, EraseZero, EraseUnscrub
     DEF Next, Holder, Recover, Commit, Scrub

\* Text a pass replaced is in the log or the postings of the live index only
\* while scrub.pending is there, whichever process was killed at whichever step
\* of the pass, of the swap and of the scrub.
THEOREM ErasedUnlessMarked ==
  ASSUME "remove" \notin Refusals, ~EmptyIndex, ~ScrubFails
  PROVE  Spec => []ErasedWhenUnmarked
<1>1. EraseInv => ErasedWhenUnmarked
  <2>. SUFFICES ASSUME EraseInv, HasManifest(live), ~live.scrub
                PROVE  \A o \in live.dead : logs[live.log][o] = Erased /\ o \notin live.posted
    BY DEF ErasedWhenUnmarked
  <2>1. live \in Dirs /\ LogOf(live) = logs[live.log]
    BY LiveIsTrue DEF EraseInv
  <2>. QED  BY <2>1 DEF EraseInv, AllScrubbed, Scrubbed, Clean
<1>2. EraseInv /\ [Next]_vars => EraseInv'
  BY EraseNext
<1>. QED  BY EraseInit, <1>1, <1>2, PTL DEF Spec
=============================================================================
