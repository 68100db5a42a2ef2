------------------------- MODULE IndexReadersProofs -------------------------
(***************************************************************************)
(* A reader without the lock: what it holds is of its type, and a search   *)
(* that found the same manifest file before and after answered from one    *)
(* generation of the index.  The argument is that manifest files come in   *)
(* an order, told by their stamps, in which what a reader may be shown     *)
(* never goes back; so one that is the same before and after was there all *)
(* the while, and then no pass took from its log a record it lists.        *)
(***************************************************************************)
EXTENDS IndexReaders, IndexStoreLogProofs

-----------------------------------------------------------------------------
(* The manifest a reader may be shown.                                      *)

\* The index in its place or, while it is out of it, the copy that may come back.
Shown == {d \in {IF HasManifest(live) THEN live ELSE parked[0]} : HasManifest(d)}

\* The stamp of the next manifest: that of the pass that runs, or of one to come.
NextStamp == IF pc \in {"write"} \union Staging THEN writes ELSE writes + 1

Stamped ==
  /\ \A d \in Shown : d.stamp < NextStamp
  /\ pc \in Staging => tmp.stamp = NextStamp

\* Only an erased record holds no turn, and it is under no id.
Blank == \A l \in LogIds : \A o \in 1..Len(logs[l]) : logs[l][o].turn = << >> => logs[l][o].kid = 0

ShownInv == LogInv /\ Stamped /\ Blank

SameAs(d, e) == SameRecords(d, e) /\ d.stamp = e.stamp
\* The records of a manifest that are not dead stay in its log.
Kept(d, a, b) == \A o \in 1..d.size : o \in d.dead \/ b[o] = a[o]

\* A step shows the manifest it showed, or the next one.
Onward ==
  \A d \in Shown' : \/ d.stamp = NextStamp /\ NextStamp < NextStamp'
                    \/ \E e \in Shown : SameAs(d, e) /\ Kept(e, LogOf(e), LogOf(e)')

\* What a reader may be shown is an index on disk: dir, or the copy while dir is out.
LEMMA ShownIsOnDisk ==
  ASSUME TypeOK
  PROVE  /\ Shown \subseteq Dirs /\ \A d \in Shown : d \in Dir /\ d.log # NoLog /\ d.log \in LogIds
         /\ HasManifest(live) => Shown = {live}
         /\ ~HasManifest(live) => Shown = {d \in {parked[0]} : HasManifest(d)}
<1>1. 0 \in Spots
  BY ConstantsAssumption DEF Spots
<1>2. Shown \subseteq Dirs
  BY <1>1 DEF Shown, HasManifest, Dirs
<1>. QED  BY <1>2, DirsType, DirFields DEF Shown, HasManifest

\* A manifest is the one it was, over the log it had.
LEMMA SameAsRefl == \A d : SameAs(d, d) /\ \A a : Kept(d, a, a)
BY SameRecordsRefl DEF SameAs, Kept

\* A step that writes no log.
LEMMA LikeShown ==
  ASSUME logs' = logs, \A d \in Shown' : \E e \in Shown : SameAs(d, e)
  PROVE  Onward
<1>1. \A e : LogOf(e)' = LogOf(e)
  BY DEF LogOf
<1>. QED  BY <1>1, SameAsRefl DEF Onward

\* A step that touches neither a directory nor a log shows the same.
LEMMA SameShown ==
  ASSUME logs' = logs, live' = live, parked' = parked
  PROVE  Onward
<1>1. Shown' = Shown
  BY DEF Shown, HasManifest
<1>. QED  BY <1>1, LikeShown, SameAsRefl

\* A step that clears copies.
LEMMA LessShown ==
  ASSUME logs' = logs, live' = live, NEW stay, parked' = Cleared(stay)
  PROVE  Onward
<1>1. 0 \in Spots
  BY ConstantsAssumption DEF Spots
<1>2. parked'[0] \in {parked[0], NoDir}
  BY <1>1 DEF Cleared
<1>3. Shown' \subseteq Shown
  BY <1>2 DEF Shown, HasManifest
<1>. QED  BY <1>3, LikeShown, SameAsRefl

\* A step that rewrites neither the records of a directory nor its stamp.
LEMMA MarkedShown ==
  ASSUME TypeOK, logs' = logs, 0 \in Spots,
         live' = live \/ (live # NoDir /\ live' # NoDir /\ SameAs(live', live)),
         parked'[0] = parked[0] \/ (parked[0] # NoDir /\ parked'[0] # NoDir /\ SameAs(parked'[0], parked[0]))
  PROVE  Onward
<1>1. HasManifest(live)' <=> HasManifest(live)
  BY DEF HasManifest, SameAs, SameRecords
<1>2. HasManifest(parked[0])' <=> HasManifest(parked[0])
  BY DEF HasManifest, SameAs, SameRecords
<1>3. \A d \in Shown' : \E e \in Shown : SameAs(d, e)
  <2>1. CASE HasManifest(live)
    BY <1>1, <2>1, SameAsRefl DEF Shown
  <2>2. CASE ~HasManifest(live)
    BY <1>1, <1>2, <2>2, SameAsRefl DEF Shown
  <2>. QED  BY <2>1, <2>2
<1>. QED  BY <1>3, LikeShown

\* The marks, the postings and the text of the hooks are no part of a manifest file.
LEMMA StampKept ==
  ASSUME NEW d \in Dir
  PROVE  /\ \A b \in BOOLEAN : LET e == [d EXCEPT !.deferred = b] IN e \in Dir /\ SameAs(e, d)
         /\ \A b \in BOOLEAN : LET e == [d EXCEPT !.scrub = b] IN e \in Dir /\ SameAs(e, d)
         /\ \A p \in SUBSET Nat : LET e == [d EXCEPT !.posted = p] IN e \in Dir /\ SameAs(e, d)
         /\ \A n \in Nat : LET e == [d EXCEPT !.pend = n] IN e \in Dir /\ SameAs(e, d)
BY DEF Dir, SameAs, SameRecords

-----------------------------------------------------------------------------
(* What each step shows.                                                    *)

StampsOn == NextStamp <= NextStamp' /\ (pc' \in Staging => tmp'.stamp = NextStamp')

\* The next stamp stays where no manifest is written or staged.
LEMMA StampStays ==
  ASSUME TypeOK, Stamped, writes' = writes,
         pc' = "write" => pc = "write",
         pc' \in Staging => pc \in Staging /\ tmp'.stamp = tmp.stamp
  PROVE  StampsOn
<1>1. writes \in Nat
  BY DEF TypeOK
<1>2. NextStamp' \in {writes, writes + 1} /\ NextStamp \in {writes, writes + 1}
  BY DEF NextStamp
<1>3. pc' \in {"write"} \union Staging => pc \in {"write"} \union Staging
  BY DEF Staging
<1>4. CASE pc' \in {"write"} \union Staging
  BY <1>1, <1>3, <1>4 DEF NextStamp, StampsOn, Stamped
<1>5. CASE pc' \notin {"write"} \union Staging
  BY <1>1, <1>2, <1>5 DEF NextStamp, StampsOn
<1>. QED  BY <1>4, <1>5

\* A pass begins: its manifest will be the next.
LEMMA StampBegins ==
  ASSUME TypeOK, pc = "ready", pc' = "write", writes' = writes + 1
  PROVE  StampsOn
BY DEF TypeOK, NextStamp, StampsOn, Staging

\* Steps that leave dir and its copies alone.
LEMMA ShownQuiet ==
  ASSUME LogInv, Stamped,
         \/ Client \/ Lock \/ Rescrub \/ NothingToCut \/ Leave \/ DropStaging \/ Fail \/ ScrubStops \/ Crash
         \/ UNCHANGED vars
  PROVE  Onward /\ StampsOn
<1>1. UNCHANGED <<live, parked, logs, writes>>
  BY DEF Client, Say, Delete, Lock, Rescrub, NothingToCut, Leave, DropStaging, Fail, ScrubStops, Crash, vars, disk, count
<1>2. pc' = "write" => pc = "write"
  BY DEF Client, Say, Delete, Lock, Rescrub, NothingToCut, Leave, DropStaging, Fail, Abandon, ScrubStops, ScrubDone, Crash, vars
<1>3. pc' \in Staging => pc \in Staging /\ tmp' = tmp
  BY DEF Client, Say, Delete, Lock, Rescrub, NothingToCut, Leave, DropStaging, Fail, Abandon, ScrubStops, ScrubDone, Crash, vars,
         disk, Staging
<1>. QED  BY <1>1, <1>2, <1>3, SameShown, StampStays DEF LogInv, TailInv, TypeInv

\* The hooks.
LEMMA ShownHook ==
  ASSUME LogInv, Stamped, Hook
  PROVE  Onward /\ StampsOn
<1>. USE DEF LogInv, TailInv, TypeInv
<1>1. UNCHANGED <<tmp, parked, logs, pc, writes>>
  BY HookDoes DEF MakeHollow, Defer, Take, count
<1>2. StampsOn
  BY <1>1, StampStays
<1>3. 0 \in Spots
  BY ConstantsAssumption DEF Spots
<1>4. CASE live = NoDir /\ live' = Hollow
  <2>1. ~HasManifest(live) /\ ~HasManifest(live)'
    BY <1>4, HollowFields DEF HasManifest
  <2>2. Shown' = Shown
    BY <1>1, <2>1 DEF Shown, HasManifest
  <2>. QED  BY <1>1, <1>2, <2>2, LikeShown, SameAsRefl
<1>5. CASE live # NoDir /\ \E b \in BOOLEAN : live' = [live EXCEPT !.deferred = b]
  <2>1. live \in Dir /\ live' \in Dir /\ SameAs(live', live)
    BY <1>5, StampKept DEF TypeOK
  <2>. QED  BY <1>1, <1>2, <1>3, <1>5, <2>1, MarkedShown, NoDirAssumption
<1>6. \/ live = NoDir /\ live' = Hollow
      \/ live # NoDir /\ \E b \in BOOLEAN : live' = [live EXCEPT !.deferred = b]
  BY HookDoes DEF MakeHollow, Defer, Take, HasManifest
<1>. QED  BY <1>4, <1>5, <1>6

\* Copies are cleared.
LEMMA ShownCleared ==
  ASSUME LogInv, Stamped, RecoverPresent \/ ClearSpot \/ Tidy
  PROVE  Onward /\ StampsOn
<1>. USE DEF LogInv, TailInv, TypeInv
<1>1. /\ UNCHANGED <<live, tmp, logs, writes>> /\ \E stay : parked' = Cleared(stay)
      /\ pc' # "write" /\ (pc' \in Staging => pc \in Staging)
  BY DEF RecoverPresent, ClearSpot, Tidy, count, Staging
<1>. QED  BY <1>1, LessShown, StampStays

\* The index is parked, or put back.
LEMMA ShownMoves ==
  ASSUME LogInv, Stamped, RecoverMissing \/ Park \/ Restore
  PROVE  Onward /\ StampsOn
<1>. USE DEF LogInv, TailInv, TypeInv
<1>1. /\ UNCHANGED <<tmp, logs, writes>>
      /\ pc' # "write" /\ (pc' \in Staging => pc \in Staging)
  BY DEF RecoverMissing, Park, Restore, Abandon, count, Staging, disk
<1>2. StampsOn
  BY <1>1, StampStays
<1>3. 0 \in Spots /\ job.spot = 0 /\ (Parked # {} => Newest = 0) /\ parked \in [Spots -> Dir \union {NoDir}]
  <2>1. 0 \in Spots
    BY ConstantsAssumption DEF Spots
  <2>2. Parked # {} => Newest = 0
    BY NewestType DEF Single, Parked
  <2>. QED  BY <2>1, <2>2 DEF Single, TypeOK
<1>4. CASE UNCHANGED <<live, parked>>
  BY <1>1, <1>2, <1>4, SameShown
<1>5. CASE live = NoDir /\ live' = parked[0] /\ parked' = [parked EXCEPT ![0] = NoDir]
  <2>1. Shown' = Shown
    BY <1>3, <1>5 DEF Shown, HasManifest
  <2>. QED  BY <1>1, <1>2, <2>1, LikeShown, SameAsRefl
<1>6. CASE live # NoDir /\ live' = NoDir /\ parked' = [parked EXCEPT ![0] = live]
  <2>1. Shown' \subseteq {live} /\ (Shown' # {} => HasManifest(live))
    BY <1>3, <1>6 DEF Shown, HasManifest
  <2>2. HasManifest(live) => Shown = {live}
    BY DEF Shown
  <2>. QED  BY <1>1, <1>2, <2>1, <2>2, LikeShown, SameAsRefl
<1>7. \/ UNCHANGED <<live, parked>>
      \/ live = NoDir /\ live' = parked[0] /\ parked' = [parked EXCEPT ![0] = NoDir]
      \/ live # NoDir /\ live' = NoDir /\ parked' = [parked EXCEPT ![0] = live]
  <2>1. CASE RecoverMissing
    BY <1>3, <2>1 DEF RecoverMissing
  <2>2. CASE Park
    BY <1>3, <2>2 DEF Park
  <2>3. CASE Restore
    BY <1>3, <2>3 DEF Restore
  <2>. QED  BY <2>1, <2>2, <2>3
<1>. QED  BY <1>4, <1>5, <1>6, <1>7

\* Marks are set and taken down, and the hooks' text is carried.
LEMMA ShownMarked ==
  ASSUME LogInv, LogInv', Stamped,
         Unmark \/ CarryState \/ InstallRefused \/ BlankWords \/ Unscrub \/ \E S \in SUBSET Sessions : ReplaceAppending(S)
  PROVE  Onward /\ StampsOn
<1>. USE DEF LogInv, TailInv, TypeInv
<1>0. 0 \in Spots /\ job.spot = 0 /\ parked \in [Spots -> Dir \union {NoDir}]
      /\ live \in Dir \union {NoDir} /\ tmp \in Dir \union {NoDir}
  BY ConstantsAssumption DEF Spots, Single, TypeOK
<1>1. logs' = logs
  BY DEF Unmark, CarryState, InstallRefused, BlankWords, Unscrub, ReplaceAppending
<1>2. live' = live \/ (live # NoDir /\ live' # NoDir /\ SameAs(live', live))
  <2>1. CASE Unmark
    BY <1>0, <2>1, StampKept, NoDirAssumption DEF Unmark
  <2>2. CASE BlankWords
    <3>1. live # NoDir
      BY <2>2 DEF BlankWords, Present
    <3>2. live.posted \in SUBSET Nat
      BY <1>0, <3>1, DirFields
    <3>. QED  BY <1>0, <2>2, <3>1, <3>2, StampKept, NoDirAssumption DEF BlankWords
  <2>3. CASE Unscrub
    <3>1. live # NoDir
      BY <2>3 DEF Unscrub, Present
    <3>. QED  BY <1>0, <2>3, <3>1, StampKept, NoDirAssumption DEF Unscrub
  <2>4. CASE \E S \in SUBSET Sessions : ReplaceAppending(S)
    <3>1. HasManifest(live) /\ live' = [live EXCEPT !.pend = live.size]
      BY <2>4 DEF ReplaceAppending, Intact
    <3>2. live.size \in Nat
      BY <1>0, <3>1, DirFields DEF HasManifest
    <3>. QED  BY <1>0, <3>1, <3>2, StampKept, NoDirAssumption DEF HasManifest
  <2>5. CASE CarryState \/ InstallRefused
    BY <2>5 DEF CarryState, InstallRefused
  <2>. QED  BY <2>1, <2>2, <2>3, <2>4, <2>5
<1>3. parked'[0] = parked[0] \/ (parked[0] # NoDir /\ parked'[0] # NoDir /\ SameAs(parked'[0], parked[0]))
  <2>1. CASE CarryState
    <3>1. parked' = parked \/ (parked[0] # NoDir /\ parked' = [parked EXCEPT ![0].deferred = FALSE])
      BY <1>0, <2>1 DEF CarryState
    <3>2. parked[0] # NoDir => parked[0] \in Dir
      BY <1>0
    <3>3. parked'[0] = parked[0] \/ (parked[0] # NoDir /\ parked'[0] = [parked[0] EXCEPT !.deferred = FALSE])
      BY <1>0, <3>1
    <3>. QED  BY <3>2, <3>3, StampKept, NoDirAssumption
  <2>2. CASE InstallRefused
    <3>1. parked' = parked \/ parked' = [parked EXCEPT ![0].deferred = TRUE]
      BY <1>0, <2>2 DEF InstallRefused
    <3>2. parked'[0] = parked[0] \/ (parked[0] # NoDir /\ parked'[0] = [parked[0] EXCEPT !.deferred = TRUE])
      BY <1>0, <2>2, <3>1 DEF InstallRefused, Present
    <3>3. parked[0] # NoDir => parked[0] \in Dir
      BY <1>0
    <3>. QED  BY <3>2, <3>3, StampKept, NoDirAssumption
  <2>3. CASE ~CarryState /\ ~InstallRefused
    BY <2>3 DEF Unmark, BlankWords, Unscrub, ReplaceAppending
  <2>. QED  BY <2>1, <2>2, <2>3
<1>4. Onward
  BY <1>0, <1>1, <1>2, <1>3, MarkedShown
<1>5. StampsOn
  <2>1. CASE \E S \in SUBSET Sessions : ReplaceAppending(S)
    BY <2>1, StampBegins DEF ReplaceAppending, CanBegin
  <2>2. CASE CarryState
    <3>1. tmp \in Dir
      BY <1>0, <2>2 DEF CarryState, Present
    <3>2. tmp' = tmp \/ tmp' = [tmp EXCEPT !.deferred = TRUE]
      BY <2>2 DEF CarryState
    <3>3. tmp'.stamp = tmp.stamp
      BY <3>1, <3>2, StampKept DEF SameAs
    <3>. QED  BY <2>2, <3>3, StampStays DEF CarryState, Staging, count
  <2>3. CASE Unmark \/ InstallRefused \/ BlankWords \/ Unscrub
    <3>1. writes' = writes /\ pc' # "write" /\ pc' \notin Staging
      BY <2>3 DEF Unmark, InstallRefused, BlankWords, Unscrub, ScrubDone, Staging, count
    <3>. QED  BY <3>1, StampStays
  <2>. QED  BY <2>1, <2>2, <2>3
<1>. QED  BY <1>4, <1>5

\* A pass commits: the next manifest is shown.
LEMMA ShownCommits ==
  ASSUME LogInv, LogInv', Stamped, Install \/ CommitAppend \/ WriteMetadata
  PROVE  Onward /\ StampsOn
<1>. USE DEF LogInv, TailInv, TypeInv
<1>0. writes \in Nat /\ live \in Dir \union {NoDir} /\ tmp \in Dir \union {NoDir} /\ logs' = logs
  BY DEF TypeOK, Install, CommitAppend, WriteMetadata
<1>1. StampsOn /\ NextStamp < NextStamp'
  BY <1>0 DEF Install, CommitAppend, WriteMetadata, CanBegin, NextStamp, StampsOn, Staging, count
<1>2. HasManifest(live)' => live'.stamp = NextStamp
  <2>1. CASE Install
    BY <2>1 DEF Install, Stamped, Staging
  <2>2. CASE CommitAppend
    <3>1. live \in Dir /\ live'.stamp = writes /\ pc = "write"
      BY <1>0, <2>2 DEF CommitAppend, Present, HasManifest, Dir
    <3>. QED  BY <3>1 DEF NextStamp
  <2>3. CASE WriteMetadata
    <3>1. live \in Dir /\ live'.stamp = writes + 1 /\ pc = "ready"
      BY <1>0, <2>3 DEF WriteMetadata, CanBegin, HasManifest, Dir
    <3>. QED  BY <3>1 DEF NextStamp, Staging
  <2>. QED  BY <2>1, <2>2, <2>3
<1>3. HasManifest(live)'
  <2>1. CASE Install
    BY <2>1 DEF Install, HasManifest, Staged, Staging, Present
  <2>2. CASE CommitAppend
    <3>1. HasManifest(live)
      BY <2>2 DEF CommitAppend, Present
    <3>. QED  BY <2>2, <3>1, CommitAppendType, NoDirAssumption DEF HasManifest
  <2>3. CASE WriteMetadata
    <3>1. HasManifest(live) /\ live \in Dir
      BY <1>0, <2>3 DEF WriteMetadata, HasManifest
    <3>2. PICK n \in Nat : live' = [live EXCEPT !.stamp = writes + 1, !.size = n]
      <4>1. live.size \in Nat /\ Len(LogOf(live)) \in Nat
        BY <3>1, DirFields, LogOfType, LenProperties
      <4>. QED  BY <2>3, <4>1 DEF WriteMetadata
    <3>3. writes + 1 \in Nat
      BY <1>0
    <3>4. live' \in Dir /\ live'.log = live.log
      BY <3>1, <3>2, <3>3, DirRestamped
    <3>. QED  BY <3>1, <3>4, NoDirAssumption DEF HasManifest
  <2>. QED  BY <2>1, <2>2, <2>3
<1>. QED  BY <1>1, <1>2, <1>3 DEF Onward, Shown

\* The log is written: a pass begins a new one, appends to one, cuts one back or
\* erases a record of one.
LEMMA ShownOverLogs ==
  ASSUME LogInv, live' = live, parked' = parked,
         \A e \in Shown : Kept(e, LogOf(e), LogOf(e)')
  PROVE  Onward
<1>1. Shown' = Shown
  BY DEF Shown, HasManifest
<1>. QED  BY <1>1, SameAsRefl DEF Onward

\* A log written anew is one no manifest is over.
LEMMA ShownStartLog ==
  ASSUME LogInv, Stamped, NEW l \in LogIds \ Linked,
         Rebuild(l) \/ \E S \in SUBSET Sessions : ReplaceWhole(l, S)
  PROVE  Onward /\ StampsOn
<1>. USE DEF LogInv, TailInv, TypeInv
<1>1. /\ pc = "ready" /\ pc' = "write" /\ writes' = writes + 1 /\ UNCHANGED <<live, parked>>
      /\ logs' = [logs EXCEPT ![l] = << >>]
  BY DEF Rebuild, ReplaceWhole, CanBegin, StartLog
<1>2. \A e \in Shown : LogOf(e)' = LogOf(e)
  <2>1. \A e \in Shown : e.log \in LogIds /\ e.log # l
    BY ShownIsOnDisk DEF Dirs, Linked
  <2>. QED  BY <1>1, <2>1 DEF LogOf, TypeOK
<1>3. Onward
  BY <1>1, <1>2, SameAsRefl, ShownOverLogs
<1>. QED  BY <1>1, <1>3, StampBegins

\* A record is written behind what the manifests list.
LEMMA ShownWrite ==
  ASSUME LogInv, Stamped, WriteRecord
  PROVE  Onward /\ StampsOn
<1>. USE DEF LogInv, TailInv, TypeInv
<1>1. PICK r : /\ logs' = [logs EXCEPT ![Target] = Append(logs[Target], r)]
               /\ Target \in LogIds /\ logs[Target] \in Seq(Record)
               /\ UNCHANGED <<live, parked, tmp, pc, writes>>
  <2>1. pc = "write"
    BY DEF WriteRecord
  <2>. QED  BY <2>1, WriteIs DEF count
<1>2. \A o \in 1..Len(logs[Target]) : logs'[Target][o] = logs[Target][o]
  BY <1>1, AppendProperties DEF TypeOK
<1>3. ASSUME NEW e \in Shown
      PROVE  Kept(e, LogOf(e), LogOf(e)')
  <2>1. e.log \in LogIds /\ e.log # NoLog /\ e.size \in 1..Len(LogOf(e)) /\ LogOf(e) = logs[e.log] /\ Len(LogOf(e)) \in Nat
    <3>1. e \in Dirs /\ e.log \in LogIds /\ e.log # NoLog
      BY ShownIsOnDisk
    <3>2. Truthful(e, LogOf(e))
      BY <3>1 DEF AllTruthful
    <3>. QED  BY <3>1, <3>2, LenProperties DEF Truthful, LogOf, TypeOK
  <2>2. LogOf(e)' = logs'[e.log]
    BY <2>1 DEF LogOf
  <2>3. CASE e.log = Target
    BY <1>2, <2>1, <2>2, <2>3 DEF Kept
  <2>4. CASE e.log # Target
    BY <1>1, <2>1, <2>2, <2>4 DEF Kept, TypeOK
  <2>. QED  BY <2>3, <2>4
<1>4. Onward
  BY <1>1, <1>3, ShownOverLogs
<1>. QED  BY <1>1, <1>4, StampStays

\* The holder cuts and erases in the log of dir, which is what is shown.
LEMMA ShownErases ==
  ASSUME LogInv, Stamped, CutTail \/ ZeroRecord
  PROVE  Onward /\ StampsOn
<1>. USE DEF LogInv, TailInv, TypeInv
<1>1. UNCHANGED <<live, parked, tmp, writes>> /\ pc' # "write" /\ pc' \notin Staging /\ live # NoDir
  BY DEF CutTail, ZeroRecord, AppendMarked, Present, count, Staging
<1>2. ASSUME NEW e \in Shown
      PROVE  Kept(e, LogOf(e), LogOf(e)')
  <2>1. /\ e.log \in LogIds /\ e.log # NoLog /\ e \in Dir /\ e \in Dirs
        /\ LogOf(e) = logs[e.log] /\ LogOf(e)' = logs'[e.log] /\ logs[e.log] \in Seq(Record)
    BY ShownIsOnDisk DEF LogOf, TypeOK
  <2>2. CASE LogOf(e)' = LogOf(e)
    BY <2>2, SameAsRefl
  <2>3. CASE e.log = live.log
    <3>1. HasManifest(live) /\ e = live
      BY <1>1, <2>1, <2>3, ShownIsOnDisk DEF HasManifest
    <3>2. CASE CutTail
      <4>1. live.pend > 0 /\ live.pend = live.size /\ live.size \in Nat
        BY <2>1, <3>1, <3>2, DirFields DEF CutTail, AppendMarked, AllUnread, Unread
      <4>2. logs'[e.log] = IF Len(logs[e.log]) > live.pend THEN SubSeq(logs[e.log], 1, live.pend) ELSE logs[e.log]
        BY <2>1, <3>1, <3>2 DEF CutTail, TypeOK
      <4>3. \A o \in 1..e.size : logs'[e.log][o] = logs[e.log][o]
        BY <2>1, <3>1, <4>1, <4>2, SubSeqProperties, LenProperties
      <4>. QED  BY <2>1, <4>3 DEF Kept
    <3>3. CASE ZeroRecord
      <4>1. PICK n \in live.dead : logs' = [logs EXCEPT ![live.log][n] = Erased]
        <5>1. job.dead \in SUBSET Nat /\ job.dead # {} /\ job.dead \subseteq live.dead
          BY <3>3, JobFields DEF ZeroRecord, Staged, TypeOK
        <5>2. \E n \in job.dead : \A k \in job.dead : n <= k
          BY <5>1, LeastExists
        <5>. QED  BY <3>3, <5>1, <5>2 DEF ZeroRecord
      <4>2. logs'[e.log] = [logs[e.log] EXCEPT ![n] = Erased]
        BY <2>1, <3>1, <4>1 DEF TypeOK
      <4>3. e.size \in 1..Len(logs[e.log]) /\ DOMAIN logs[e.log] = 1..Len(logs[e.log])
        BY <2>1, LenProperties DEF AllTruthful, Truthful
      <4>. QED  BY <2>1, <3>1, <4>2, <4>3 DEF Kept
    <3>. QED  BY <3>2, <3>3
  <2>4. CASE e.log # live.log
    <3>1. LogOf(e)' = LogOf(e)
      BY <2>1, <2>4 DEF CutTail, ZeroRecord, TypeOK
    <3>. QED  BY <2>2, <3>1
  <2>. QED  BY <2>3, <2>4
<1>3. Onward
  BY <1>1, <1>2, ShownOverLogs
<1>. QED  BY <1>1, <1>3, StampStays

\* A pass begins to append in place, and one seals what it staged.
LEMMA ShownStarts ==
  ASSUME LogInv, Stamped, Seal \/ \E S \in SUBSET Sessions : AppendInPlace(S)
  PROVE  Onward /\ StampsOn
<1>. USE DEF LogInv, TailInv, TypeInv
<1>1. UNCHANGED <<live, parked, logs>>
  BY DEF Seal, AppendInPlace
<1>2. CASE Seal
  <2>1. writes' = writes /\ writes \in Nat /\ pc = "write" /\ pc' = "clear" /\ tmp'.stamp = writes
    BY <1>2 DEF Seal, Hollow, count, TypeOK
  <2>. QED  BY <1>1, <2>1, SameShown DEF StampsOn, NextStamp, Staging
<1>3. CASE \E S \in SUBSET Sessions : AppendInPlace(S)
  BY <1>1, <1>3, SameShown, StampBegins DEF AppendInPlace, CanBegin
<1>. QED  BY <1>2, <1>3

\* A turn is not the empty one of an erased record.
LEMMA NoTurnIsEmpty ==
  ASSUME NEW t \in Sessions \X Nat
  PROVE  t # << >>
OBVIOUS

\* Records are written with a turn; one that is erased is under no id.
LEMMA BlankStays ==
  ASSUME TypeInv, Blank, [Next]_vars
  PROVE  Blank'
<1>. USE DEF TypeInv
<1>1. CASE logs' = logs
  BY <1>1 DEF Blank
<1>2. ASSUME NEW l \in LogIds, NEW b, logs' = [logs EXCEPT ![l] = b],
             \A o \in 1..Len(b) : b[o].turn = << >> => b[o].kid = 0
      PROVE  Blank'
  BY <1>2 DEF Blank, TypeOK
<1>3. CASE WriteRecord
  <2>1. PICK r : /\ logs' = [logs EXCEPT ![Target] = Append(logs[Target], r)] /\ r.turn # << >>
                 /\ Target \in LogIds /\ logs[Target] \in Seq(Record)
    <3>1. PICK t \in job.todo :
            /\ t \in Sessions \X Nat /\ Target \in LogIds /\ logs[Target] \in Seq(Record)
            /\ logs' = [logs EXCEPT ![Target] = Append(logs[Target], [kid |-> IdFor(t[1]), turn |-> t])]
      BY <1>3, WriteIs
    <3>2. t # << >>
      BY <3>1, NoTurnIsEmpty
    <3>3. [kid |-> IdFor(t[1]), turn |-> t].turn = t
      OBVIOUS
    <3>. QED  BY <3>1, <3>2, <3>3
  <2>2. \A o \in 1..Len(Append(logs[Target], r)) : Append(logs[Target], r)[o].turn = << >> =>
             o \in 1..Len(logs[Target]) /\ Append(logs[Target], r)[o] = logs[Target][o]
    BY <2>1, AppendProperties, LenProperties
  <2>. QED  BY <1>2, <2>1, <2>2 DEF Blank
<1>4. CASE CutTail /\ live.log \in LogIds
  <2>1. live.log \in LogIds /\ live.pend \in Nat
    BY <1>4, DirFields DEF CutTail, AppendMarked, TypeOK
  <2>2. logs[live.log] \in Seq(Record)
    BY <2>1 DEF TypeOK
  <2>3. PICK b : logs' = [logs EXCEPT ![live.log] = b] /\ b \in {logs[live.log], SubSeq(logs[live.log], 1, live.pend)}
               /\ (b # logs[live.log] => Len(logs[live.log]) > live.pend)
    BY <1>4 DEF CutTail
  <2>4. \A o \in 1..Len(b) : o \in 1..Len(logs[live.log]) /\ b[o] = logs[live.log][o]
    BY <2>1, <2>2, <2>3, SubSeqProperties, LenProperties
  <2>. QED  BY <1>2, <2>1, <2>3, <2>4 DEF Blank
<1>5. CASE ZeroRecord
  <2>1. PICK n : logs' = [logs EXCEPT ![live.log][n] = Erased]
    BY <1>5 DEF ZeroRecord
  <2>2. CASE live.log \in LogIds
    <3>. DEFINE log == logs[live.log]
                b == [log EXCEPT ![n] = Erased]
    <3>1. log \in Seq(Record) /\ DOMAIN log = 1..Len(log)
      BY <2>2, LenProperties DEF TypeOK
    <3>2. logs' = [logs EXCEPT ![live.log] = b]
      BY <2>1, <2>2 DEF TypeOK
    <3>3. Len(b) = Len(log) /\ \A o \in 1..Len(log) : b[o] \in {Erased, log[o]}
      <4>1. Erased \in Record
        BY DEF Erased, Record
      <4>2. CASE n \in 1..Len(log)
        BY <3>1, <4>1, <4>2, ExceptSeq
      <4>3. CASE n \notin 1..Len(log)
        BY <3>1, <4>3
      <4>. QED  BY <4>2, <4>3
    <3>4. Erased.kid = 0
      BY DEF Erased
    <3>5. \A o \in 1..Len(log) : log[o].turn = << >> => log[o].kid = 0
      BY <2>2 DEF Blank
    <3>. HIDE DEF b, log
    <3>6. \A o \in 1..Len(b) : b[o].turn = << >> => b[o].kid = 0
      BY <3>3, <3>4, <3>5
    <3>. QED  BY <1>2, <2>2, <3>2, <3>6
  <2>3. CASE live.log \notin LogIds
    BY <1>1, <2>1, <2>3 DEF TypeOK
  <2>. QED  BY <2>2, <2>3
<1>8. CASE CutTail /\ live.log \notin LogIds
  BY <1>1, <1>8 DEF CutTail, TypeOK
<1>6. CASE \E l \in LogIds : Rebuild(l) \/ \E S \in SUBSET Sessions : ReplaceWhole(l, S)
  <2>1. PICK l \in LogIds : logs' = [logs EXCEPT ![l] = << >>]
    BY <1>6 DEF Rebuild, ReplaceWhole, StartLog
  <2>2. \A b : b = << >> => \A o \in 1..Len(b) : b[o].turn = << >> => b[o].kid = 0
    OBVIOUS
  <2>3. PICK b : b = << >>
    OBVIOUS
  <2>4. logs' = [logs EXCEPT ![l] = b] /\ \A o \in 1..Len(b) : b[o].turn = << >> => b[o].kid = 0
    BY <2>1, <2>2, <2>3
  <2>. QED  BY <1>2, <2>4
<1>7. \/ logs' = logs \/ WriteRecord \/ CutTail \/ ZeroRecord
      \/ \E l \in LogIds : Rebuild(l) \/ \E S \in SUBSET Sessions : ReplaceWhole(l, S)
  <2>1. Client \/ Hook \/ Lock \/ Crash => logs' = logs
    BY HookDoes DEF Client, Say, Delete, MakeHollow, Defer, Take, Lock, Crash, disk
  <2>2. Recover => logs' = logs \/ CutTail
    BY DEF Recover, RecoverPresent, RecoverMissing, Unmark, NothingToCut, Rescrub, DropStaging, disk
  <2>3. Leave \/ Begin => logs' = logs \/ \E l \in LogIds : Rebuild(l) \/ \E S \in SUBSET Sessions : ReplaceWhole(l, S)
    BY DEF Leave, Begin, ReplaceAppending, AppendInPlace, WriteMetadata
  <2>4. Commit => logs' = logs \/ WriteRecord
    BY DEF Commit, Seal, CommitAppend, ClearSpot, Park, CarryState, Install, InstallRefused, Restore, Tidy, Fail, disk
  <2>5. Scrub => logs' = logs \/ ZeroRecord
    BY DEF Scrub, BlankWords, Unscrub, ScrubStops, disk
  <2>. QED  BY <2>1, <2>2, <2>3, <2>4, <2>5 DEF Next, Holder, vars
<1>. QED  BY <1>1, <1>3, <1>4, <1>5, <1>6, <1>7, <1>8

\* A step shows the manifest it showed or the next one, and only then is another next.
LEMMA ShownNext ==
  ASSUME LogInv, LogInv', Stamped, [Next]_vars
  PROVE  Onward /\ StampsOn
<1>1. CASE Client \/ Hook \/ Lock \/ Leave \/ Crash \/ UNCHANGED vars
  BY <1>1, ShownQuiet, ShownHook
<1>2. CASE Recover
  BY <1>2, ShownQuiet, ShownCleared, ShownMoves, ShownMarked, ShownErases DEF Recover
<1>3. CASE Begin
  BY <1>3, ShownStartLog, ShownMarked, ShownStarts, ShownCommits DEF Begin
<1>4. CASE Commit
  BY <1>4, ShownQuiet, ShownCleared, ShownMoves, ShownMarked, ShownStarts, ShownWrite, ShownCommits DEF Commit
<1>5. CASE Scrub
  BY <1>5, ShownQuiet, ShownMarked, ShownErases DEF Scrub
<1>. QED  BY <1>1, <1>2, <1>3, <1>4, <1>5 DEF Next, Holder

\* Stamps are numbers.
LEMMA NextStampType ==
  ASSUME TypeOK, TypeOK'
  PROVE  NextStamp \in Nat /\ NextStamp' \in Nat
<1>1. writes \in Nat /\ writes' \in Nat
  BY DEF TypeOK
<1>2. NextStamp \in {writes, writes + 1} /\ NextStamp' \in {writes', writes' + 1}
  BY DEF NextStamp
<1>3. \A w \in Nat : \A n \in {w, w + 1} : n \in Nat
  OBVIOUS
<1>. QED  BY <1>1, <1>2, <1>3, Zenon

\* A manifest that is shown next was stamped by the pass that wrote it.
LEMMA StampedStep ==
  ASSUME TypeOK, TypeOK', Stamped, Onward, StampsOn
  PROVE  Stamped'
<1>1. /\ \A d \in Shown : d.stamp \in Nat /\ d.stamp < NextStamp
      /\ \A d \in Shown' : d.stamp \in Nat
  <2>1. \A d \in Shown : d.stamp \in Nat
    BY ShownIsOnDisk, DirFields
  <2>2. (\A d \in Shown : d.stamp \in Nat)'
    <3>1. \A d \in Shown' : d \in Dir
      <4>1. 0 \in Spots
        BY ConstantsAssumption DEF Spots
      <4>. QED  BY <4>1 DEF Shown, HasManifest, TypeOK
    <3>. QED  BY <3>1, DirFields
  <2>. QED  BY <2>1, <2>2 DEF Stamped
<1>2. NextStamp \in Nat /\ NextStamp' \in Nat
  BY NextStampType
<1>3. \A d \in Shown' : d.stamp < NextStamp'
  BY <1>1, <1>2 DEF Onward, StampsOn, SameAs
<1>. QED  BY <1>3 DEF Stamped, StampsOn

\* No index to show.
LEMMA ShownInit == Init => ShownInv
<1>. SUFFICES ASSUME Init PROVE ShownInv
  OBVIOUS
<1>1. 0 \in Spots
  BY ConstantsAssumption DEF Spots
<1>2. Shown = {} /\ pc = "idle"
  BY <1>1 DEF Init, Shown, HasManifest
<1>3. Blank
  <2>1. Len(<< >>) = 0
    OBVIOUS
  <2>. QED  BY <2>1 DEF Init, Blank
<1>. QED  BY <1>2, <1>3, LogInit DEF ShownInv, Stamped, Staging

\* Every step of the store shows the manifest it showed or the next one.
LEMMA ShownStays ==
  ASSUME "remove" \notin Refusals, ~EmptyIndex, ShownInv, [Next]_vars
  PROVE  ShownInv' /\ Onward /\ StampsOn
<1>1. LogInv /\ LogInv' /\ TypeInv /\ TypeOK /\ TypeOK'
  BY LogNext DEF ShownInv, LogInv, TailInv, TypeInv
<1>2. Onward /\ StampsOn
  BY <1>1, ShownNext DEF ShownInv
<1>3. Stamped' /\ Blank'
  BY <1>1, <1>2, StampedStep, BlankStays DEF ShownInv
<1>. QED  BY <1>1, <1>2, <1>3 DEF ShownInv

-----------------------------------------------------------------------------
(* What the reader holds.                                                   *)

\* It holds nothing of a log it has not opened, and opens one that is there.
Places ==
  /\ rd.at \in {"manifest", "before", "open"} => rd.off = 0 /\ rd.got = {}
  /\ rd.at = "before" => rd.kind = "walk"
  /\ rd.at = "records" => rd.log # NoLog

\* The manifests it saw are none that is still to come, and what it may be shown
\* is no earlier one.
Seen ==
  /\ rd.before # 0 => rd.before < NextStamp /\ \A d \in Shown : rd.before <= d.stamp
  /\ rd.man # NoDir =>
       /\ rd.man.stamp < NextStamp
       /\ \A d \in Shown : rd.man.stamp <= d.stamp /\ (rd.man.stamp = d.stamp => SameRecords(rd.man, d))
       /\ rd.kind = "search" => rd.before <= rd.man.stamp

\* A turn of version n of s, or one s took on since.
Kin(s, n, t) == n \in 1..Len(doc[s]) /\ (t \in Turns(s, n) \/ t \in {s} \X ((n + 1)..Len(doc[s])))
Within == \A g \in rd.got : Kin(g[1], rd.man.rows[g[1]], g[2])

\* It has read what its manifest lists, as far as it has come.
SoFar(log) ==
  \A s \in Sessions : \A o \in Offsets(rd.man, log, rd.man.size, s) :
    o <= rd.off => <<s, log[o].turn>> \in rd.got

\* A search under way, as long as it may still find its manifest file there.
Reading ==
  rd.kind = "search" /\ rd.at = "records" /\ rd.before # 0 /\ (\E d \in Shown : d.stamp = rd.before) =>
    rd.log = rd.man.log /\ SoFar(logs[rd.log]) /\ Within

\* A search that did.
Whole(s, n) == n \in 0..Len(doc[s]) /\ \A t \in Turns(s, n) : <<s, t>> \in rd.got
Answered ==
  rd.at = "done" /\ rd.kind = "search" /\ rd.ok /\ rd.before # 0 =>
    Within /\ \A s \in Sessions : Whole(s, rd.man.rows[s])

ReadInv == ShownInv /\ ReaderTypeOK /\ Places /\ Seen /\ Reading /\ Answered

\* What the invariant says of a finished search is what the property asks.
LEMMA AnsweredIsTrue ==
  ASSUME rd \in Reader, Answered
  PROVE  SearchInOneGeneration
<1>1. SUFFICES ASSUME rd.at = "done", rd.kind = "search", rd.ok, rd.before # 0
      PROVE  TrueToManifest
  BY DEF SearchInOneGeneration
<1>2. Within /\ \A s \in Sessions : Whole(s, rd.man.rows[s])
  BY <1>1 DEF Answered
<1>3. ASSUME NEW s \in Sessions
      PROVE  /\ Turns(s, rd.man.rows[s]) \subseteq {g[2] : g \in {x \in rd.got : x[1] = s}}
             /\ {g[2] : g \in {x \in rd.got : x[1] = s}} \subseteq Turns(s, rd.man.rows[s]) \union
                  (IF rd.man.rows[s] = 0 THEN {} ELSE {s} \X ((rd.man.rows[s] + 1)..Len(doc[s])))
  <2>1. \A t \in Turns(s, rd.man.rows[s]) : <<s, t>> \in rd.got /\ <<s, t>>[1] = s /\ <<s, t>>[2] = t
    BY <1>2 DEF Whole
  <2>2. ASSUME NEW g \in rd.got, g[1] = s
        PROVE  /\ rd.man.rows[s] # 0
               /\ g[2] \in Turns(s, rd.man.rows[s]) \/ g[2] \in {s} \X ((rd.man.rows[s] + 1)..Len(doc[s]))
    <3>1. Kin(s, rd.man.rows[s], g[2])
      BY <1>2, <2>2 DEF Within
    <3>. QED  BY <3>1 DEF Kin
  <2>3. Turns(s, rd.man.rows[s]) \subseteq {g[2] : g \in {x \in rd.got : x[1] = s}}
    BY <2>1
  <2>. QED  BY <2>2, <2>3
<1>. QED  BY <1>3 DEF TrueToManifest

\* Transcripts only grow.
LEMMA EnvNext ==
  ASSUME TypeInv, DocOrder, [Next]_vars
  PROVE  EnvGrows
<1>1. CASE Client
  BY <1>1, ClientGrows DEF TypeInv
<1>2. CASE UNCHANGED env
  BY <1>2, EnvStays DEF TypeInv
<1>3. Client \/ UNCHANGED env
  <2>1. Hook \/ Lock \/ Crash => UNCHANGED env
    BY HookDoes DEF MakeHollow, Defer, Take, Lock, Crash
  <2>2. Recover \/ Leave \/ Begin => UNCHANGED env
    BY DEF Recover, RecoverPresent, RecoverMissing, CutTail, Unmark, NothingToCut, Rescrub, DropStaging, Leave,
           Begin, Rebuild, ReplaceWhole, StartLog, ReplaceAppending, AppendInPlace, WriteMetadata
  <2>3. Commit => UNCHANGED env
    BY DEF Commit, WriteRecord, Seal, CommitAppend, ClearSpot, Park, CarryState, Install, InstallRefused, Restore, Tidy, Fail
  <2>4. Scrub => UNCHANGED env
    BY DEF Scrub, BlankWords, ZeroRecord, Unscrub, ScrubStops
  <2>. QED  BY <2>1, <2>2, <2>3, <2>4 DEF Next, Holder, vars, env
<1>. QED  BY <1>1, <1>2, <1>3

\* What transcripts take on keeps the reader's turns what they are.
LEMMA KinStays ==
  ASSUME TypeOK, TypeOK', DocOrder, EnvGrows, NEW s \in Sessions
  PROVE  /\ \A n, t : Kin(s, n, t) => Kin(s, n, t)'
         /\ rd' = rd => \A n : Whole(s, n) => Whole(s, n)'
<1>1. Len(doc[s]) \in Nat /\ Len(doc'[s]) \in Nat /\ Len(doc[s]) <= Len(doc'[s])
  BY LenProperties DEF TypeOK, EnvGrows
<1>2. \A v \in 0..Len(doc[s]) : v \in 0..Len(doc[s])' /\ Turns(s, v)' = Turns(s, v)
  BY VersionsStay
<1>3. ASSUME NEW n, NEW t, Kin(s, n, t)
      PROVE  Kin(s, n, t)'
  <2>1. n \in 1..Len(doc[s]) /\ n \in 0..Len(doc[s]) /\ n \in 1..Len(doc'[s])
    BY <1>1, <1>3 DEF Kin
  <2>2. Turns(s, n)' = Turns(s, n)
    BY <1>2, <2>1
  <2>3. {s} \X ((n + 1)..Len(doc[s])) \subseteq {s} \X ((n + 1)..Len(doc'[s]))
    BY <1>1, <2>1
  <2>. QED  BY <1>3, <2>1, <2>2, <2>3 DEF Kin
<1>4. ASSUME rd' = rd, NEW n, Whole(s, n)
      PROVE  Whole(s, n)'
  BY <1>2, <1>4 DEF Whole
<1>. QED  BY <1>3, <1>4

\* Turns of a later version that only added to n are its own or newer.
LEMMA AddedIsKin ==
  ASSUME TypeOK, DocOrder, NEW s \in Sessions, NEW n \in Nat, NEW X, From(s, n, X), NEW t \in X
  PROVE  Kin(s, n, t)
<1>1. PICK v \in n..Len(doc[s]) : X = Turns(s, v) /\ OnlyAdds(s, n, v)
  BY DEF From
<1>2. Len(doc[s]) \in Nat /\ v \in Nat /\ v \in 0..Len(doc[s]) /\ n <= v
  BY <1>1, LenProperties DEF TypeOK
<1>3. v > 0 /\ n > 0 /\ doc[s][v] = doc[s][n]
  <2>1. v # 0
    BY <1>1, <1>2, TurnsIs
  <2>. QED  BY <1>1, <1>2, <2>1 DEF OnlyAdds
<1>4. n \in 1..Len(doc[s]) /\ n \in 0..Len(doc[s])
  BY <1>2, <1>3
<1>5. PICK k \in doc[s][v]..v : t = <<s, k>>
  <2>1. Turns(s, v) = {s} \X (doc[s][v]..v)
    BY <1>2, <1>3 DEF Turns
  <2>2. t \in {s} \X (doc[s][v]..v)
    BY <1>1, <2>1
  <2>. QED  BY <2>2
<1>6. doc[s][v] \in 1..v /\ doc[s][n] \in 1..n
  BY <1>2, <1>3, <1>4, TurnsIs
<1>7. CASE k <= n
  <2>1. k \in doc[s][n]..n
    BY <1>2, <1>3, <1>5, <1>6, <1>7
  <2>2. t \in Turns(s, n)
    BY <1>3, <1>4, <1>5, <2>1, TurnsIs
  <2>. QED  BY <1>4, <2>2 DEF Kin
<1>8. CASE k > n
  <2>1. k \in (n + 1)..Len(doc[s])
    BY <1>2, <1>5, <1>6, <1>8
  <2>. QED  BY <1>4, <1>5, <2>1 DEF Kin
<1>. QED  BY <1>2, <1>5, <1>6, <1>7, <1>8

\* And a later version that only added to n holds all of n.
LEMMA RowIsHeld ==
  ASSUME TypeOK, DocOrder, NEW s \in Sessions, NEW n \in Nat, NEW X, AtRow(s, n, X)
  PROVE  n \in 0..Len(doc[s]) /\ Turns(s, n) \subseteq X
<1>1. PICK v \in n..Len(doc[s]) : X = Turns(s, v) /\ OnlyAdds(s, n, v)
  BY DEF AtRow
<1>2. Len(doc[s]) \in Nat /\ v \in Nat /\ v \in 0..Len(doc[s]) /\ n <= v /\ n \in 0..Len(doc[s])
  BY <1>1, LenProperties DEF TypeOK
<1>3. CASE n = v
  BY <1>1, <1>2, <1>3
<1>4. CASE n # v
  <2>1. n > 0 /\ v > 0 /\ doc[s][v] = doc[s][n]
    BY <1>1, <1>2, <1>4 DEF OnlyAdds
  <2>2. doc[s][n] \in 1..n
    BY <1>2, <2>1, TurnsIs
  <2>3. doc[s][n]..n \subseteq doc[s][v]..v
    BY <1>2, <2>1, <2>2
  <2>4. ASSUME NEW t \in Turns(s, n)
        PROVE  t \in Turns(s, v)
    <3>1. PICK k \in doc[s][n]..n : t = <<s, k>>
      <4>1. Turns(s, n) = {s} \X (doc[s][n]..n)
        BY <1>2, <2>1 DEF Turns
      <4>2. t \in {s} \X (doc[s][n]..n)
        BY <4>1
      <4>. QED  BY <4>2
    <3>. QED  BY <1>2, <2>1, <2>3, <3>1, TurnsIs
  <2>. QED  BY <1>1, <1>2, <2>4
<1>. QED  BY <1>3, <1>4

-----------------------------------------------------------------------------
(* The steps of the store, as the reader sees them.                         *)

\* The manifest shown is truthful, of a known log and stamped before the next one.
LEMMA ShownHasRecords ==
  ASSUME ShownInv
  PROVE  /\ \A d \in Shown : /\ d \in Dir /\ d \in Dirs /\ d.stamp \in Nat /\ d.log # NoLog /\ d.log \in LogIds
                             /\ LogOf(d) = logs[d.log] /\ logs[d.log] \in Seq(Record)
                             /\ Truthful(d, logs[d.log]) /\ d.stamp < NextStamp
         /\ TypeOK /\ DocOrder /\ NextStamp \in Nat
<1>1. TypeOK /\ DocOrder /\ AllTruthful /\ Stamped
  BY DEF ShownInv, LogInv, TailInv, TypeInv
<1>2. NextStamp \in Nat
  <2>1. writes \in Nat
    BY <1>1 DEF TypeOK
  <2>2. NextStamp \in {writes, writes + 1}
    BY DEF NextStamp
  <2>3. \A w \in Nat : \A n \in {w, w + 1} : n \in Nat
    OBVIOUS
  <2>. QED  BY <2>1, <2>2, <2>3, Zenon
<1>3. ASSUME NEW d \in Shown
      PROVE  /\ d \in Dir /\ d \in Dirs /\ d.stamp \in Nat /\ d.log # NoLog /\ d.log \in LogIds
             /\ LogOf(d) = logs[d.log] /\ logs[d.log] \in Seq(Record)
             /\ Truthful(d, logs[d.log]) /\ d.stamp < NextStamp
  <2>1. d \in Dirs /\ d \in Dir /\ d.log # NoLog /\ d.log \in LogIds
    BY <1>1, ShownIsOnDisk
  <2>2. LogOf(d) = logs[d.log] /\ logs[d.log] \in Seq(Record)
    BY <1>1, <2>1 DEF LogOf, TypeOK
  <2>3. Truthful(d, logs[d.log])
    BY <1>1, <2>1, <2>2 DEF AllTruthful
  <2>. QED  BY <1>1, <2>1, <2>2, <2>3, DirFields DEF Stamped
<1>. QED  BY <1>1, <1>2, <1>3

\* What the reader has of a manifest it was shown stays in order with the one shown now.
LEMMA SeenStays ==
  ASSUME ShownInv, ShownInv', rd \in Reader, Seen, Onward, StampsOn, rd' = rd
  PROVE  Seen'
<1>1. NextStamp \in Nat /\ NextStamp' \in Nat /\ NextStamp <= NextStamp'
  BY NextStampType DEF StampsOn, ShownInv, LogInv, TailInv, TypeInv
<1>2. rd.before \in Nat /\ (rd.man # NoDir => rd.man \in Dir /\ rd.man.stamp \in Nat)
  BY DirFields DEF Reader
<1>3. rd.before # 0 => rd.before < NextStamp'
  BY <1>1, <1>2 DEF Seen
<1>4. ASSUME NEW d \in Shown', rd.before # 0
      PROVE  rd.before <= d.stamp
  <2>1. CASE d.stamp = NextStamp
    BY <1>1, <1>2, <1>4, <2>1 DEF Seen
  <2>2. CASE \E e \in Shown : SameAs(d, e)
    BY <1>4, <2>2 DEF Seen, SameAs
  <2>. QED  BY <2>1, <2>2 DEF Onward
<1>5. ASSUME NEW d \in Shown', rd.man # NoDir
      PROVE  rd.man.stamp <= d.stamp /\ (rd.man.stamp = d.stamp => SameRecords(rd.man, d))
  <2>1. CASE d.stamp = NextStamp
    BY <1>1, <1>2, <1>5, <2>1 DEF Seen
  <2>2. CASE \E e \in Shown : SameAs(d, e)
    <3>1. PICK e \in Shown : SameAs(d, e)
      BY <2>2
    <3>2. rd.man.stamp <= e.stamp /\ (rd.man.stamp = e.stamp => SameRecords(rd.man, e)) /\ e.stamp = d.stamp
      BY <1>5, <3>1 DEF Seen, SameAs
    <3>3. SameRecords(rd.man, e) => SameRecords(rd.man, d)
      BY <3>1 DEF SameAs, SameRecords
    <3>. QED  BY <3>2, <3>3
  <2>. QED  BY <2>1, <2>2 DEF Onward
<1>6. rd.man # NoDir => rd.man.stamp < NextStamp' /\ (rd.kind = "search" => rd.before <= rd.man.stamp)
  BY <1>1, <1>2 DEF Seen
<1>. QED  BY <1>3, <1>4, <1>5, <1>6 DEF Seen

\* The manifest of a search that may still find its file there is that one.
LEMMA ItsManifest ==
  ASSUME ShownInv, rd \in Reader, Seen, rd.kind = "search", rd.man # NoDir,
         NEW e \in Shown, e.stamp = rd.before, rd.before # 0
  PROVE  SameRecords(rd.man, e) /\ rd.man.log = e.log /\ LogOf(e) = logs[rd.man.log] /\ rd.man.log \in LogIds
<1>1. rd.before \in Nat /\ rd.man \in Dir /\ rd.man.stamp \in Nat /\ e.stamp \in Nat
  BY DirFields, ShownHasRecords DEF Reader
<1>2. rd.man.stamp <= e.stamp /\ rd.before <= rd.man.stamp /\ (rd.man.stamp = e.stamp => SameRecords(rd.man, e))
  BY DEF Seen
<1>3. SameRecords(rd.man, e)
  BY <1>1, <1>2
<1>. QED  BY <1>3, ShownHasRecords DEF SameRecords

\* What it has read of the log stays what the manifest lists, while that is still shown.
LEMMA ReadingStays ==
  ASSUME ReadInv, ShownInv', Onward, EnvGrows, rd' = rd
  PROVE  Reading'
<1>0. TypeOK /\ TypeOK' /\ DocOrder /\ rd \in Reader
  BY ShownHasRecords DEF ReadInv, ReaderTypeOK, ShownInv, LogInv, TailInv, TypeInv
<1>1. SUFFICES ASSUME rd.kind = "search", rd.at = "records", rd.before # 0,
                      NEW d \in Shown', d.stamp = rd.before
      PROVE  rd.log = rd.man.log /\ SoFar(logs[rd.log])' /\ Within'
  BY DEF Reading
<1>2. rd.man \in Dir /\ rd.man # NoDir /\ rd.before \in Nat
  BY <1>0, <1>1, NoDirAssumption DEF Reader, ReadInv, ReaderTypeOK, HasManifest
<1>3. rd.before < NextStamp /\ NextStamp \in Nat
  BY <1>1, ShownHasRecords DEF ReadInv, Seen
<1>4. PICK e \in Shown : SameAs(d, e) /\ Kept(e, LogOf(e), LogOf(e)')
  BY <1>1, <1>2, <1>3 DEF Onward
<1>5. e.stamp = rd.before
  BY <1>1, <1>4 DEF SameAs
<1>6. SameRecords(rd.man, e) /\ rd.man.log = e.log /\ LogOf(e) = logs[rd.man.log] /\ rd.man.log \in LogIds
  BY <1>0, <1>1, <1>2, <1>5, ItsManifest DEF ReadInv
<1>7. rd.log = rd.man.log /\ SoFar(logs[rd.log]) /\ Within
  BY <1>1, <1>5 DEF ReadInv, Reading
<1>8. LogOf(e)' = logs'[rd.log] /\ LogOf(e) = logs[rd.log]
  BY <1>6, <1>7, ShownHasRecords DEF LogOf, ReadInv
<1>9. \A o \in 1..rd.man.size : o \in rd.man.dead \/ logs'[rd.log][o] = logs[rd.log][o]
  BY <1>4, <1>6, <1>8 DEF Kept, SameRecords
<1>10. ASSUME NEW s \in Sessions, NEW o \in Offsets(rd.man, logs'[rd.log], rd.man.size, s), o <= rd.off
       PROVE  <<s, logs'[rd.log][o].turn>> \in rd.got
  <2>1. o \in 1..rd.man.size /\ o \notin rd.man.dead /\ logs'[rd.log][o] = logs[rd.log][o]
    BY <1>9, <1>10 DEF Offsets
  <2>2. o \in Offsets(rd.man, logs[rd.log], rd.man.size, s)
    BY <1>10, <2>1 DEF Offsets
  <2>. QED  BY <1>7, <1>10, <2>1, <2>2 DEF SoFar
<1>11. Within'
  <2>1. \A g \in rd.got : g[1] \in Sessions
    BY <1>0 DEF Reader
  <2>. QED  BY <1>0, <1>7, <2>1, KinStays DEF Within
<1>. QED  BY <1>7, <1>10, <1>11 DEF SoFar

\* A finished search stays true: versions of a transcript never change.
LEMMA AnsweredStays ==
  ASSUME TypeOK, TypeOK', DocOrder, EnvGrows, rd \in Reader, Answered, rd' = rd
  PROVE  Answered'
<1>1. \A g \in rd.got : g[1] \in Sessions
  BY DEF Reader
<1>2. Within => Within'
  BY <1>1, KinStays DEF Within
<1>3. ASSUME NEW s \in Sessions, Whole(s, rd.man.rows[s])
      PROVE  Whole(s, rd.man.rows[s])'
  BY <1>3, KinStays
<1>. QED  BY <1>2, <1>3 DEF Answered

\* A step of the store beside the reader.
LEMMA StoreKeepsReader ==
  ASSUME "remove" \notin Refusals, ~EmptyIndex, ReadInv, [Next]_vars, rd' = rd
  PROVE  ReadInv'
<1>1. ShownInv /\ ShownInv' /\ Onward /\ StampsOn
  BY ShownStays DEF ReadInv
<1>2. TypeOK /\ TypeOK' /\ DocOrder /\ EnvGrows /\ rd \in Reader
  BY <1>1, EnvNext DEF ShownInv, LogInv, TailInv, TypeInv, ReadInv, ReaderTypeOK
<1>3. ReaderTypeOK' /\ Places'
  BY DEF ReadInv, ReaderTypeOK, Places, HasManifest
<1>4. Seen' /\ Reading' /\ Answered'
  BY <1>1, <1>2, SeenStays, ReadingStays, AnsweredStays DEF ReadInv
<1>. QED  BY <1>1, <1>3, <1>4 DEF ReadInv

-----------------------------------------------------------------------------
(* The steps of the reader.                                                 *)

\* It changes nothing in the store.
StoreStands ==
  /\ ShownInv' /\ Shown' = Shown /\ NextStamp' = NextStamp /\ logs' = logs /\ doc' = doc
  /\ Stamp' = Stamp /\ (HasManifest(live)' <=> HasManifest(live))
  /\ \A s, n : Turns(s, n)' = Turns(s, n)
  /\ \A s, n, t : Kin(s, n, t)' <=> Kin(s, n, t)

\* A step of the reader leaves what the store promises.
LEMMA StandsStill ==
  ASSUME "remove" \notin Refusals, ~EmptyIndex, ReadInv, UNCHANGED vars
  PROVE  StoreStands
<1>1. ShownInv'
  BY ShownStays DEF ReadInv
<1>2. Shown' = Shown /\ NextStamp' = NextStamp /\ logs' = logs /\ doc' = doc
      /\ Stamp' = Stamp /\ (HasManifest(live)' <=> HasManifest(live))
  BY DEF vars, Shown, NextStamp, HasManifest, Stamp
<1>3. \A s, n : Turns(s, n)' = Turns(s, n)
  BY <1>2 DEF Turns
<1>4. \A s, n, t : Kin(s, n, t)' <=> Kin(s, n, t)
  BY <1>2, <1>3 DEF Kin
<1>. QED  BY <1>1, <1>2, <1>3, <1>4 DEF StoreStands

\* The manifest file in its place.
LEMMA StampIs ==
  ASSUME ShownInv
  PROVE  /\ Stamp \in Nat
         /\ HasManifest(live) => live \in Dir /\ live # NoDir /\ Shown = {live} /\ Stamp = live.stamp /\ Stamp < NextStamp
         /\ Stamp # 0 => HasManifest(live)
<1>1. HasManifest(live) => Shown = {live} /\ Stamp = live.stamp /\ live # NoDir
  BY DEF Shown, Stamp, HasManifest
<1>2. HasManifest(live) => live \in Dir /\ live.stamp \in Nat /\ live.stamp < NextStamp
  BY <1>1, ShownHasRecords
<1>. QED  BY <1>1, <1>2 DEF Stamp

\* A reader that reads nothing.
LEMMA AtRestIs ==
  /\ AtRest.at = "idle" /\ AtRest.kind = "search" /\ AtRest.before = 0 /\ AtRest.man = NoDir
  /\ AtRest.log = NoLog /\ AtRest.off = 0 /\ AtRest.got = {} /\ ~AtRest.ok /\ AtRest \in Reader
BY DEF AtRest, Reader, Kinds

\* A reader that gives up or begins again holds nothing.
LEMMA ReaderRests ==
  ASSUME StoreStands, rd' = AtRest
  PROVE  ReadInv'
BY AtRestIs DEF ReadInv, ReaderTypeOK, Places, Seen, Reading, Answered, StoreStands

\* A reader begins.
LEMMA ReaderStarts ==
  ASSUME ReadInv, StoreStands, NEW k \in Kinds, Start(k)
  PROVE  ReadInv'
<1>1. /\ rd'.at = "manifest" /\ rd'.kind = k /\ rd'.man = NoDir /\ rd'.off = 0 /\ rd'.got = {}
      /\ rd'.before \in {Stamp, 0} /\ rd' \in Reader
  <2>1. Stamp \in Nat
    BY StampIs DEF ReadInv
  <2>. QED  BY <2>1, AtRestIs DEF Start, AtRest, Reader, Kinds
<1>2. Seen'
  <2>1. rd'.before # 0 => rd'.before < NextStamp /\ \A d \in Shown : rd'.before <= d.stamp
    BY <1>1, StampIs DEF ReadInv
  <2>. QED  BY <1>1, <2>1 DEF Seen, StoreStands
<1>3. ReaderTypeOK' /\ Places' /\ Reading' /\ Answered'
  BY <1>1 DEF ReaderTypeOK, Places, Reading, Answered
<1>. QED  BY <1>2, <1>3 DEF ReadInv, StoreStands

\* It reads the manifest that is there now.
LEMMA ReaderReadsManifest ==
  ASSUME ReadInv, StoreStands, ReadManifest
  PROVE  ReadInv'
<1>0. rd \in Reader /\ rd.at = "manifest" /\ HasManifest(live) /\ rd.off = 0 /\ rd.got = {}
      /\ live \in Dir /\ live # NoDir /\ Shown = {live} /\ live.stamp \in Nat /\ live.stamp < NextStamp /\ rd.before \in Nat
  BY StampIs, DirFields DEF ReadManifest, ReadInv, ReaderTypeOK, Places, Reader
<1>1. /\ rd'.at \in {"open", "before"} /\ rd'.kind = rd.kind /\ rd'.man = live /\ rd'.off = 0 /\ rd'.got = {}
      /\ rd'.before = rd.before /\ rd' \in Reader
      /\ rd'.at = "before" => rd'.kind # "search"
  BY <1>0 DEF ReadManifest, Reader
<1>2. Seen'
  <2>1. rd.before # 0 => rd.before < NextStamp /\ \A d \in Shown : rd.before <= d.stamp
    BY DEF ReadInv, Seen
  <2>2. \A d \in Shown : live.stamp <= d.stamp /\ SameRecords(live, d)
    BY <1>0, SameRecordsRefl
  <2>. QED  BY <1>0, <1>1, <2>1, <2>2 DEF Seen, StoreStands
<1>3. ReaderTypeOK'
  BY <1>0, <1>1 DEF ReaderTypeOK, HasManifest
<1>4. Places' /\ Reading' /\ Answered'
  BY <1>1 DEF Places, Reading, Answered, Reader, Kinds
<1>. QED  BY <1>2, <1>3, <1>4 DEF ReadInv, StoreStands

\* It notes which manifest file is there.
LEMMA ReaderNotes ==
  ASSUME ReadInv, StoreStands, NoteBefore
  PROVE  ReadInv'
<1>0. rd \in Reader /\ rd.at = "before" /\ rd.kind = "walk" /\ rd.off = 0 /\ rd.got = {} /\ HasManifest(rd.man) /\ Stamp \in Nat
  BY StampIs DEF NoteBefore, ReadInv, ReaderTypeOK, Places
<1>1. /\ rd'.at = "open" /\ rd'.kind = "walk" /\ rd'.man = rd.man /\ rd'.off = 0 /\ rd'.got = {}
      /\ rd'.before = Stamp /\ rd' \in Reader
  BY <1>0 DEF NoteBefore, Reader
<1>2. Seen'
  <2>1. Stamp # 0 => Stamp < NextStamp /\ \A d \in Shown : Stamp <= d.stamp
    BY <1>0, StampIs DEF ReadInv
  <2>. QED  BY <1>1, <2>1 DEF Seen, StoreStands, ReadInv
<1>3. ReaderTypeOK' /\ Places' /\ Reading' /\ Answered'
  BY <1>0, <1>1 DEF ReaderTypeOK, Places, Reading, Answered, HasManifest
<1>. QED  BY <1>2, <1>3 DEF ReadInv, StoreStands

\* It opens the log of the directory that is there now.
LEMMA ReaderOpens ==
  ASSUME ReadInv, StoreStands, OpenLog
  PROVE  ReadInv'
<1>0. rd \in Reader /\ rd.at = "open" /\ rd.off = 0 /\ rd.got = {} /\ HasManifest(rd.man) /\ HasManifest(live)
      /\ rd.man \in Dir /\ rd.man # NoDir /\ Shown = {live} /\ live.log \in LogIds /\ live.log # NoLog
  <2>1. rd \in Reader /\ rd.at = "open" /\ rd.off = 0 /\ rd.got = {} /\ HasManifest(rd.man) /\ HasManifest(live)
    BY DEF OpenLog, ReadInv, ReaderTypeOK, Places
  <2>2. Shown = {live}
    BY <2>1, StampIs DEF ReadInv
  <2>. QED  BY <2>1, <2>2, ShownHasRecords DEF Reader, HasManifest, ReadInv
<1>1. /\ rd'.at = "records" /\ rd'.kind = rd.kind /\ rd'.man = rd.man /\ rd'.off = 0 /\ rd'.got = {}
      /\ rd'.before = rd.before /\ rd'.log = live.log /\ rd' \in Reader
  BY <1>0 DEF OpenLog, Reader
<1>2. Seen'
  BY <1>1 DEF Seen, StoreStands, ReadInv
<1>3. ReaderTypeOK' /\ Places' /\ Answered'
  BY <1>0, <1>1 DEF ReaderTypeOK, Places, Answered, HasManifest
<1>4. Reading'
  <2>1. SUFFICES ASSUME rd.kind = "search", rd.before # 0, NEW d \in Shown, d.stamp = rd.before
        PROVE  live.log = rd.man.log /\ SoFar(logs[rd.log])' /\ Within'
    BY <1>1 DEF Reading, StoreStands
  <2>2. live.log = rd.man.log
    <3>1. d = live
      BY <1>0
    <3>. QED  BY <1>0, <2>1, <3>1, ItsManifest DEF ReadInv
  <2>3. rd'.man.size \in Nat
    BY <1>0, <1>1, DirFields
  <2>4. SoFar(logs[rd.log])'
    BY <1>1, <2>3 DEF SoFar, Offsets
  <2>5. Within'
    BY <1>1 DEF Within
  <2>. QED  BY <2>2, <2>4, <2>5
<1>. QED  BY <1>2, <1>3, <1>4 DEF ReadInv, StoreStands

\* A live record under a key id of the manifest is a turn of the version its row names.
LEMMA RecordIsKin ==
  ASSUME ShownInv, NEW d \in Shown, NEW m, SameRecords(m, d), NEW log, log = logs[d.log],
         NEW o \in 1..Len(log), o \notin m.dead, log[o].kid \in DOMAIN m.strs, log[o].turn # << >>,
         NEW s \in Sessions, s = m.strs[log[o].kid]
  PROVE  Kin(s, m.rows[s], log[o].turn)
<1>1. /\ TypeOK /\ DocOrder /\ d.log # NoLog /\ d \in Dir /\ Truthful(d, log)
      /\ d.dead = m.dead /\ d.strs = m.strs /\ d.rows = m.rows /\ d.rows[s] \in Nat
  BY ShownHasRecords, DirFields DEF SameRecords
<1>2. From(s, d.rows[s], Carried(d, log, Len(log), s))
  BY <1>1 DEF Truthful
<1>3. o \in Offsets(d, log, Len(log), s)
  BY <1>1 DEF Offsets
<1>4. log[o].turn \in Carried(d, log, Len(log), s)
  BY <1>3 DEF Carried
<1>. QED  BY <1>1, <1>2, <1>4, AddedIsKin

\* It reads one record, as the log is now.
LEMMA ReaderReadsRecord ==
  ASSUME ReadInv, StoreStands, ReadRecord
  PROVE  ReadInv'
<1>. DEFINE m == rd.man
            log == logs[rd.log]
            o == rd.off + 1
<1>0. /\ rd \in Reader /\ rd.at = "records" /\ HasManifest(m) /\ m \in Dir /\ m # NoDir /\ rd.log \in LogIds
      /\ log \in Seq(Record) /\ rd.off < Len(log) /\ Len(log) \in Nat /\ rd.off \in Nat /\ o \in 1..Len(log) /\ log[o] \in Record
  <2>1. rd \in Reader /\ rd.at = "records" /\ HasManifest(m) /\ rd.log # NoLog /\ rd.off < Len(log)
    BY DEF ReadRecord, ReadInv, ReaderTypeOK, Places
  <2>2. m \in Dir /\ m # NoDir /\ rd.log \in LogIds /\ rd.off \in Nat
    BY <2>1 DEF Reader, HasManifest
  <2>3. log \in Seq(Record)
    BY <2>2, ShownHasRecords DEF ReadInv, TypeOK
  <2>4. Len(log) \in Nat
    BY <2>3, LenProperties
  <2>5. o \in 1..Len(log)
    BY <2>1, <2>2, <2>4
  <2>6. log[o] \in Record
    BY <2>3, <2>5, ElementOfSeq
  <2>. QED  BY <2>1, <2>2, <2>3, <2>4, <2>5, <2>6
<1>. DEFINE r == log[o]
            read == o \notin m.dead /\ r.kid \in DOMAIN m.strs
            g == <<m.strs[r.kid], r.turn>>
<1>1. read => r.turn # << >> /\ g \in Sessions \X (Sessions \X Nat)
  <2>1. m.strs \in Seq(Sessions) /\ DOMAIN m.strs = 1..Len(m.strs)
    BY <1>0, DirFields, LenProperties
  <2>2. read => r.kid # 0 /\ m.strs[r.kid] \in Sessions
    BY <2>1, ElementOfSeq
  <2>3. r.turn = << >> => r.kid = 0
    BY <1>0 DEF ReadInv, ShownInv, Blank
  <2>4. r.turn # << >> => r.turn \in Sessions \X Nat
    BY <1>0 DEF Record
  <2>. QED  BY <2>2, <2>3, <2>4
<1>2. rd' = [rd EXCEPT !.off = o, !.got = IF read THEN rd.got \union {g} ELSE rd.got]
  BY <1>0 DEF ReadRecord, Reader
<1>. HIDE DEF m, log, o, r, read, g
<1>3. /\ rd'.at = "records" /\ rd'.kind = rd.kind /\ rd'.man = m /\ rd'.off = o /\ rd'.before = rd.before /\ rd'.log = rd.log
      /\ rd'.got = IF read THEN rd.got \union {g} ELSE rd.got
      /\ rd' \in Reader
  <2>1. rd.got \in SUBSET (Sessions \X (Sessions \X Nat))
    BY <1>0 DEF Reader
  <2>2. (IF read THEN rd.got \union {g} ELSE rd.got) \in SUBSET (Sessions \X (Sessions \X Nat))
    BY <1>1, <2>1
  <2>3. o \in Nat
    BY <1>0 DEF o
  <2>. HIDE DEF g
  <2>. QED  BY <1>0, <1>2, <2>2, <2>3 DEF Reader, m
<1>4. Seen'
  BY <1>3 DEF Seen, StoreStands, ReadInv, m
<1>5. ReaderTypeOK' /\ Places' /\ Answered'
  BY <1>0, <1>3 DEF ReaderTypeOK, Places, Answered, HasManifest, ReadInv
<1>6. Reading'
  <2>1. SUFFICES ASSUME rd.kind = "search", rd.before # 0, NEW d \in Shown, d.stamp = rd.before
        PROVE  rd.log = m.log /\ SoFar(logs[rd.log])' /\ Within'
    BY <1>3 DEF Reading, StoreStands
  <2>2. rd.log = m.log /\ SoFar(log) /\ Within
    BY <1>0, <2>1 DEF ReadInv, Reading, m, log
  <2>3. SameRecords(m, d) /\ log = logs[d.log]
    <3>1. SameRecords(rd.man, d) /\ rd.man.log = d.log
      BY <1>0, <2>1, ItsManifest DEF ReadInv, m
    <3>. QED  BY <2>2, <3>1 DEF m, log
  <2>4. SoFar(logs[rd.log])'
    <3>1. SUFFICES ASSUME NEW s \in Sessions, NEW p \in Offsets(m, log, m.size, s), p <= o
          PROVE  <<s, log[p].turn>> \in rd'.got
      BY <1>3 DEF SoFar, StoreStands, log
    <3>2. rd.got \subseteq rd'.got
      BY <1>3
    <3>3. CASE p <= rd.off
      BY <2>2, <3>1, <3>2, <3>3 DEF SoFar, m
    <3>4. CASE p = o
      <4>1. p \notin m.dead /\ log[p].kid \in DOMAIN m.strs /\ m.strs[log[p].kid] = s
        BY DEF Offsets
      <4>. QED  BY <1>3, <3>4, <4>1 DEF read, g, r
    <3>5. p \in Nat
      <4>1. m.size \in Nat /\ p \in 1..m.size
        BY <1>0, DirFields DEF Offsets
      <4>. QED  BY <4>1
    <3>. QED  BY <1>0, <3>1, <3>3, <3>4, <3>5 DEF o
  <2>5. Within'
    <3>1. SUFFICES ASSUME NEW x \in rd'.got
          PROVE  Kin(x[1], m.rows[x[1]], x[2])
      BY <1>3 DEF Within, StoreStands
    <3>2. CASE x \in rd.got
      BY <2>2, <3>2 DEF Within, m
    <3>3. CASE read /\ x = g
      <4>1. m.strs[r.kid] \in Sessions /\ x[1] = m.strs[r.kid] /\ x[2] = r.turn
        BY <1>1, <3>3 DEF g
      <4>2. o \notin m.dead /\ log[o].kid \in DOMAIN m.strs /\ log[o].turn # << >> /\ r = log[o]
        BY <1>1, <3>3 DEF read, r
      <4>3. ShownInv
        BY DEF ReadInv
      <4>4. Kin(x[1], m.rows[x[1]], log[o].turn)
        BY <1>0, <2>3, <4>1, <4>2, <4>3, RecordIsKin
      <4>. QED  BY <4>1, <4>2, <4>4
    <3>. QED  BY <1>3, <3>2, <3>3
  <2>. QED  BY <2>2, <2>4, <2>5
<1>. QED  BY <1>4, <1>5, <1>6 DEF ReadInv, StoreStands

\* It compares: the same file before and after was there all the while.
LEMMA ReaderEnds ==
  ASSUME ReadInv, StoreStands, EndRead
  PROVE  ReadInv'
<1>0. rd \in Reader /\ rd.at = "records" /\ HasManifest(rd.man) /\ rd.man \in Dir /\ rd.man # NoDir
      /\ rd.off >= Len(logs[rd.log])
  BY DEF EndRead, ReadInv, ReaderTypeOK, Reader, HasManifest
<1>1. /\ rd'.at = "done" /\ rd'.kind = rd.kind /\ rd'.man = rd.man /\ rd'.off = rd.off /\ rd'.got = rd.got
      /\ rd'.before = rd.before /\ rd'.log = rd.log /\ rd' \in Reader
      /\ rd'.ok /\ rd.kind = "search" => rd.before = Stamp
  <2>1. (\/ rd.before = Stamp
         \/ rd.kind = "walk" /\ live.log = rd.man.log) \in BOOLEAN
    OBVIOUS
  <2>. QED  BY <1>0, <2>1 DEF EndRead, Reader
<1>2. Seen'
  BY <1>1 DEF Seen, StoreStands, ReadInv
<1>3. ReaderTypeOK' /\ Places' /\ Reading'
  BY <1>0, <1>1 DEF ReaderTypeOK, Places, Reading, HasManifest
<1>4. Answered'
  <2>1. SUFFICES ASSUME rd.kind = "search", rd.before = Stamp, rd.before # 0
        PROVE  Within' /\ \A s \in Sessions : Whole(s, rd.man.rows[s])'
    BY <1>1 DEF Answered
  <2>2. live \in Shown /\ live.stamp = rd.before
    BY <2>1, StampIs DEF ReadInv
  <2>3. rd.log = rd.man.log /\ SoFar(logs[rd.log]) /\ Within
    BY <1>0, <2>1, <2>2 DEF ReadInv, Reading
  <2>4. SameRecords(rd.man, live) /\ rd.log = live.log
    BY <1>0, <2>1, <2>2, <2>3, ItsManifest DEF ReadInv
  <2>5. Within'
    BY <1>1, <2>3 DEF Within, StoreStands
  <2>6. ASSUME NEW s \in Sessions
        PROVE  Whole(s, rd.man.rows[s])'
    <3>. DEFINE log == logs[rd.log]
    <3>1. /\ TypeOK /\ DocOrder /\ live \in Dir /\ live.log # NoLog /\ Truthful(live, log) /\ log \in Seq(Record)
          /\ live.rows[s] \in Nat /\ live.rows = rd.man.rows /\ live.size = rd.man.size
          /\ live.dead = rd.man.dead /\ live.strs = rd.man.strs
      BY <2>2, <2>4, ShownHasRecords, DirFields DEF ReadInv, SameRecords
    <3>2. AtRow(s, live.rows[s], Carried(live, log, live.size, s)) /\ live.size \in 1..Len(log) /\ Len(log) \in Nat
      BY <3>1, LenProperties DEF Truthful
    <3>3. live.rows[s] \in 0..Len(doc[s]) /\ Turns(s, live.rows[s]) \subseteq Carried(live, log, live.size, s)
      BY <3>1, <3>2, RowIsHeld
    <3>4. ASSUME NEW t \in Turns(s, live.rows[s])
          PROVE  <<s, t>> \in rd.got
      <4>1. PICK p \in Offsets(live, log, live.size, s) : t = log[p].turn
        BY <3>3 DEF Carried
      <4>2. p \in Offsets(rd.man, log, rd.man.size, s)
        BY <3>1, <4>1 DEF Offsets
      <4>3. p \in 1..live.size
        BY DEF Offsets
      <4>4. p <= rd.off
        <5>1. rd.off \in Nat
          BY <1>0 DEF Reader
        <5>. QED  BY <1>0, <3>2, <4>3, <5>1
      <4>. QED  BY <2>3, <4>1, <4>2, <4>4 DEF SoFar
    <3>. QED  BY <1>1, <3>1, <3>3, <3>4 DEF Whole, StoreStands
  <2>. QED  BY <2>5, <2>6
<1>. QED  BY <1>2, <1>3, <1>4 DEF ReadInv, StoreStands

\* Every step of the reader keeps the invariant.
LEMMA ReaderMoves ==
  ASSUME "remove" \notin Refusals, ~EmptyIndex, ReadInv, Read, UNCHANGED vars
  PROVE  ReadInv'
<1>1. StoreStands
  BY StandsStill
<1>. QED  BY <1>1, ReaderStarts, ReaderReadsManifest, ReaderNotes, ReaderOpens, ReaderReadsRecord, ReaderEnds, ReaderRests
          DEF Read, OpenRefused, Forget

\* A reader at rest beside no index.
LEMMA ReadInvInit == ReadInit => ReadInv
BY ShownInit, AtRestIs DEF ReadInit, ReadInv, ReaderTypeOK, Places, Seen, Reading, Answered

\* Every step of the store and of the reader keeps the invariant.
LEMMA ReadInvNext ==
  ASSUME "remove" \notin Refusals, ~EmptyIndex, ReadInv, [ReadNext]_<<vars, rd>>
  PROVE  ReadInv'
BY StoreKeepsReader, ReaderMoves DEF ReadNext, StoreStep

\* What a reader holds is what it may hold: it walks a log that is there, under
\* a manifest that has one, and files what it reads under sessions.
THEOREM ReaderTyped ==
  ASSUME "remove" \notin Refusals, ~EmptyIndex
  PROVE  ReadSpec => []ReaderTypeOK
<1>1. ReadInv /\ [ReadNext]_<<vars, rd>> => ReadInv'
  BY ReadInvNext
<1>2. ReadInv => ReaderTypeOK
  BY DEF ReadInv
<1>. QED  BY ReadInvInit, <1>1, <1>2, PTL DEF ReadSpec

\* A search that found the same manifest file before and after it read, in its
\* place, answered from one generation of the index, whatever ran beside it.
THEOREM OneGeneration ==
  ASSUME "remove" \notin Refusals, ~EmptyIndex
  PROVE  ReadSpec => []SearchInOneGeneration
<1>1. ReadInv /\ [ReadNext]_<<vars, rd>> => ReadInv'
  BY ReadInvNext
<1>2. ReadInv => SearchInOneGeneration
  BY AnsweredIsTrue DEF ReadInv, ReaderTypeOK
<1>. QED  BY ReadInvInit, <1>1, <1>2, PTL DEF ReadSpec
=============================================================================
