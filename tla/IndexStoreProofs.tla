-------------------------- MODULE IndexStoreProofs --------------------------
(***************************************************************************)
(* Type correctness of IndexStore, the promise of swapIndexDir and         *)
(* recoverIndexDir, and the text of the hooks that a swap carries along.   *)
(* TypeOK is not inductive: a step that reads a directory through its path *)
(* is typed only when the directory is there, which is what Present adds   *)
(* for each place of the holder.                                           *)
(* The promise, that an interrupted rebuild leaves a recoverable copy, is  *)
(* proved for every number of sessions, logs, parked copies, kills and     *)
(* refusals, where no hook makes the directory while it is out of its      *)
(* place and no restore is refused to the process that recovers.           *)
(* The hooks' text needs only the second of these hypotheses.              *)
(***************************************************************************)
EXTENDS IndexStore, NaturalBounds, SequenceTheorems, TLAPS

-----------------------------------------------------------------------------
(* The strengthening of TypeOK.                                             *)

\* What the next step of the holder reads is there: the directory it scrubs, the
\* one it stages, the log it appends to, the copy a waiting text came from, and
\* the id it gave a session.
Present ==
  /\ pc \in {"words", "zero", "tidy"} => live # NoDir
  /\ pc \in {"clear", "park", "carry", "install"} => tmp # NoDir
  /\ pc \in {"clear", "park", "carry"} => ~tmp.deferred
  /\ pc = "install" /\ tmp.deferred => parked[job.spot] # NoDir
  /\ pc = "write" /\ job.pass # "append" => tmp # NoDir /\ tmp.log \in LogIds
  /\ pc = "write" /\ job.pass \in {"append", "replace"} => HasManifest(live)
  /\ pc = "write" => \A s \in job.fresh : \E k \in DOMAIN job.strs : job.strs[k] = s

\* The inductive invariant.
TypeInv == TypeOK /\ Present

-----------------------------------------------------------------------------
(* The members of Dir and Job, and what an update of one field leaves alone. *)

\* A directory a hook makes is a directory.
LEMMA HollowType == Hollow \in Dir /\ Hollow # NoDir
<1>1. Hollow \in Dir
  BY EmptySeq DEF Hollow, Dir
<1>. QED  BY <1>1, NoDirAssumption

\* The locals before and after a pass.
LEMMA NoJobType == NoJob \in Job /\ NoJob.pass = "none"
  BY EmptySeq, ConstantsAssumption DEF NoJob, Job, Spots

\* The fields of a directory.
LEMMA DirFields ==
  ASSUME NEW d \in Dir
  PROVE  /\ d # NoDir
         /\ d.log \in LogIds \union {NoLog} /\ d.size \in Nat
         /\ d.strs \in Seq(Sessions) /\ d.dead \in SUBSET Nat
         /\ d.rows \in [Sessions -> Nat] /\ d.stamp \in Nat
         /\ d.posted \in SUBSET Nat /\ d.pend \in Nat
         /\ d.scrub \in BOOLEAN /\ d.deferred \in BOOLEAN
<1>1. d # NoDir
  BY NoDirAssumption
<1>. QED  BY <1>1 DEF Dir

\* A hook's text comes and goes and nothing else in the directory changes.
LEMMA DirDeferred ==
  ASSUME NEW d \in Dir, NEW b \in BOOLEAN
  PROVE  /\ [d EXCEPT !.deferred = b] \in Dir
         /\ [d EXCEPT !.deferred = b] # NoDir
         /\ [d EXCEPT !.deferred = b].log = d.log
         /\ [d EXCEPT !.deferred = b].rows = d.rows
         /\ [d EXCEPT !.deferred = b].deferred = b
<1>1. [d EXCEPT !.deferred = b] \in Dir
  BY DEF Dir
<1>. QED  BY <1>1, DirFields DEF Dir

\* So do the two marks and the postings.
LEMMA DirMarks ==
  ASSUME NEW d \in Dir, NEW n \in Nat, NEW b \in BOOLEAN, NEW P \in SUBSET Nat
  PROVE  /\ [d EXCEPT !.pend = n] \in Dir
         /\ [d EXCEPT !.pend = n].log = d.log
         /\ [d EXCEPT !.pend = n].rows = d.rows
         /\ [d EXCEPT !.scrub = b] \in Dir
         /\ [d EXCEPT !.scrub = b].log = d.log
         /\ [d EXCEPT !.scrub = b].rows = d.rows
         /\ [d EXCEPT !.posted = P] \in Dir
         /\ [d EXCEPT !.posted = P].log = d.log
         /\ [d EXCEPT !.posted = P].rows = d.rows
  BY DEF Dir

\* A staged directory with a log and nothing else.
LEMMA DirStarted ==
  ASSUME NEW l \in LogIds
  PROVE  /\ [Hollow EXCEPT !.log = l] \in Dir
         /\ [Hollow EXCEPT !.log = l].log = l
  BY EmptySeq DEF Hollow, Dir

\* The manifest of an in-place append.
LEMMA DirCommitted ==
  ASSUME NEW d \in Dir, NEW n \in Nat, NEW strs \in Seq(Sessions),
         NEW rows \in [Sessions -> Nat], NEW m \in Nat, NEW P \in SUBSET Nat
  PROVE  LET e == [d EXCEPT !.size = n, !.strs = strs, !.rows = rows, !.stamp = m, !.posted = P]
         IN  e \in Dir /\ e.log = d.log /\ e.rows = rows
  BY DEF Dir

\* A manifest rewritten for its metadata.
LEMMA DirRestamped ==
  ASSUME NEW d \in Dir, NEW n \in Nat, NEW m \in Nat
  PROVE  LET e == [d EXCEPT !.stamp = m, !.size = n]
         IN  e \in Dir /\ e.log = d.log /\ e.rows = d.rows
  BY DEF Dir

\* The locals of a pass.
LEMMA JobFields ==
  ASSUME NEW j \in Job
  PROVE  /\ j.pass \in {"none", "recover", "rewrite", "replace", "append"}
         /\ j.rows \in [Sessions -> Nat] /\ j.strs \in Seq(Sessions)
         /\ j.dead \in SUBSET Nat /\ j.todo \in SUBSET (Sessions \X Nat)
         /\ j.fresh \in SUBSET Sessions /\ j.spot \in Spots
  BY DEF Job

\* The locals a step sets.
LEMMA JobUpdates ==
  ASSUME NEW j \in Job
  PROVE  /\ [j EXCEPT !.pass = "recover"] \in Job
         /\ \A D \in SUBSET Nat : [j EXCEPT !.dead = D] \in Job
         /\ \A n \in Spots : /\ [j EXCEPT !.spot = n] \in Job
                             /\ [j EXCEPT !.spot = n].spot = n
                             /\ [j EXCEPT !.spot = n].pass = j.pass
                             /\ [j EXCEPT !.spot = n].dead = j.dead
                             /\ [j EXCEPT !.spot = n].rows = j.rows
  BY DEF Job

\* clearParked leaves directories or nothing.
LEMMA ClearedType ==
  ASSUME TypeOK, NEW stay
  PROVE  Cleared(stay) \in [Spots -> Dir \union {NoDir}]
  BY DEF TypeOK, Cleared

\* The copy newestParked names is there, and no parked one is numbered higher.
LEMMA NewestType ==
  ASSUME Parked # {}
  PROVE  /\ Newest \in Spots /\ parked[Newest] # NoDir
         /\ \A k \in Parked : k <= Newest
<1>1. MaxParked \in Nat
  BY ConstantsAssumption
<1>2. \E n \in Parked : \A k \in Parked : k <= n
  BY <1>1, GreatestExists DEF Parked, Spots
<1>. QED  BY <1>2 DEF Newest, Parked

\* No index, no copy, nobody at work.
LEMMA TypeInit == Init => TypeInv
  BY ConstantsAssumption, NoJobType, EmptySeq DEF Init, TypeInv, TypeOK, Present

-----------------------------------------------------------------------------
(* The steps whose effect on a log or a manifest takes an argument.         *)

\* A log cut back is a log.
LEMMA CutTailType ==
  ASSUME TypeOK, CutTail
  PROVE  logs' \in [LogIds -> Seq(Record)]
<1>1. CASE live.log \in LogIds /\ Len(logs[live.log]) > live.pend
  <2>. DEFINE log == logs[live.log]
  <2>1. log \in Seq(Record) /\ Len(log) \in Nat /\ live.pend \in Nat
    BY <1>1, DirFields, LenProperties DEF TypeOK, CutTail, AppendMarked
  <2>2. \A i \in 1..live.pend : log[i] \in Record
    BY <1>1, <2>1, ElementOfSeq
  <2>3. SubSeq(log, 1, live.pend) \in Seq(Record)
    BY <2>1, <2>2, SubSeqProperties
  <2>. QED  BY <1>1, <2>3 DEF TypeOK, CutTail
<1>2. CASE ~(live.log \in LogIds /\ Len(logs[live.log]) > live.pend)
  BY <1>2 DEF TypeOK, CutTail
<1>. QED  BY <1>1, <1>2

\* So is one with a record erased, whatever its offset.
LEMMA ZeroRecordType ==
  ASSUME TypeOK, ZeroRecord
  PROVE  logs' \in [LogIds -> Seq(Record)]
<1>. DEFINE o == CHOOSE n \in job.dead : \A k \in job.dead : n <= k
            log == logs[live.log]
<1>1. logs' = [logs EXCEPT ![live.log][o] = Erased]
  BY DEF ZeroRecord
<1>2. CASE live.log \in LogIds
  <2>1. log \in Seq(Record)
    BY <1>2 DEF TypeOK
  <2>2. Erased \in Record
    BY DEF Erased, Record
  <2>3. [log EXCEPT ![o] = Erased] \in Seq(Record)
    <3>1. CASE o \in 1..Len(log)
      BY <3>1, <2>1, <2>2, ExceptSeq
    <3>2. CASE o \notin 1..Len(log)
      <4>1. [log EXCEPT ![o] = Erased] = log
        BY <3>2, <2>1, LenProperties
      <4>. QED  BY <4>1, <2>1
    <3>. QED  BY <3>1, <3>2
  <2>. HIDE DEF o
  <2>. QED  BY <1>1, <1>2, <2>3 DEF TypeOK
<1>3. CASE live.log \notin LogIds
  BY <1>1, <1>3 DEF TypeOK
<1>. QED  BY <1>2, <1>3

\* The log of a directory is one of the logs, or empty.
LEMMA LogOfType ==
  ASSUME TypeOK, NEW d \in Dir
  PROVE  LogOf(d) \in Seq(Record)
BY EmptySeq, DirFields DEF LogOf, TypeOK

\* The turns carried out of a log are turns.
LEMMA CarriedType ==
  ASSUME NEW d, NEW log \in Seq(Record), NEW to \in 0..Len(log), NEW s
  PROVE  Carried(d, log, to, s) \subseteq Sessions \X Nat
<1>1. \A o \in Offsets(d, log, to, s) : o \in 1..Len(log)
  BY LenProperties DEF Offsets
<1>2. \A o \in Offsets(d, log, to, s) : log[o] \in Record
  BY <1>1, ElementOfSeq
<1>3. \A r \in Record : r.turn \in (Sessions \X Nat) \union {<< >>}
  BY DEF Record
<1>. QED  BY <1>2, <1>3 DEF Carried

\* So is what a transcript holds now.
LEMMA TextType ==
  ASSUME TypeOK, NEW s \in Sessions
  PROVE  Text(s) \subseteq Sessions \X Nat
<1>1. doc[s] \in Seq(Nat \ {0}) /\ Len(doc[s]) \in Nat
  BY LenProperties DEF TypeOK
<1>2. CASE Len(doc[s]) = 0
  BY <1>2 DEF Text, Turns
<1>3. CASE Len(doc[s]) # 0
  <2>1. doc[s][Len(doc[s])] \in Nat
    BY <1>1, <1>3, ElementOfSeq
  <2>. QED  BY <1>1, <2>1 DEF Text, Turns
<1>. QED  BY <1>2, <1>3

\* A manifest recordsIntact accepts committed no more than the log holds.
LEMMA EmptyOrWhole ==
  ASSUME TypeOK, Intact(live)
  PROVE  live.size \in 0..Len(LogOf(live))
<1>1. live \in Dir
  BY DEF Intact, HasManifest, TypeOK
<1>. QED  BY <1>1, LogOfType, LenProperties, DirFields DEF Intact

\* The staged manifest holds what the pass decided.
LEMMA SealType ==
  ASSUME TypeInv, Seal
  PROVE  tmp' \in Dir /\ ~tmp'.deferred /\ tmp'.log = tmp.log /\ tmp'.rows = job.rows
<1>. DEFINE end == Len(logs[tmp.log])
            old == IF job.pass = "replace" THEN live ELSE Hollow
            posted == old.posted \union (old.size + 1)..end
<1>1. /\ pc = "write" /\ job.pass # "append"
      /\ tmp' = [Hollow EXCEPT
           !.log = tmp.log, !.size = end, !.strs = job.strs, !.dead = DeadAfter,
           !.rows = job.rows, !.stamp = writes, !.posted = posted, !.scrub = MarkScrub]
  BY DEF Seal
<1>2. tmp.log \in LogIds /\ end \in Nat
  BY <1>1, LenProperties DEF TypeInv, TypeOK, Present
<1>3. old \in Dir
  BY <1>1, HollowType DEF TypeInv, TypeOK, Present, HasManifest
<1>4. posted \in SUBSET Nat
  BY <1>2, <1>3, DirFields
<1>5. DeadAfter \in SUBSET Nat
  BY <1>1, JobFields, DirFields DEF DeadAfter, TypeInv, TypeOK, Present, HasManifest
<1>6. /\ MarkScrub \in BOOLEAN /\ job.strs \in Seq(Sessions)
      /\ job.rows \in [Sessions -> Nat] /\ writes \in Nat
  BY JobFields, ConstantsAssumption DEF MarkScrub, TypeInv, TypeOK
<1>. HIDE DEF end, old, posted
<1>7. tmp' = [log |-> tmp.log, size |-> end, strs |-> job.strs, dead |-> DeadAfter,
              rows |-> job.rows, stamp |-> writes, posted |-> posted, pend |-> 0,
              scrub |-> MarkScrub, deferred |-> FALSE]
  BY <1>1 DEF Hollow
<1>. QED  BY <1>2, <1>4, <1>5, <1>6, <1>7 DEF Dir

\* So does the manifest of an in-place append.
LEMMA CommitAppendType ==
  ASSUME TypeInv, CommitAppend
  PROVE  live' \in Dir /\ live'.log = live.log /\ live'.rows = job.rows
<1>. DEFINE end == Len(logs[live.log])
            posted == live.posted \union (live.size + 1)..end
<1>1. live \in Dir /\ live.log \in LogIds
  BY DirFields DEF CommitAppend, TypeInv, TypeOK, Present, HasManifest
<1>2. end \in Nat
  BY <1>1, LenProperties DEF TypeInv, TypeOK
<1>3. posted \in SUBSET Nat
  BY <1>1, <1>2, DirFields
<1>4. /\ job.strs \in Seq(Sessions) /\ job.rows \in [Sessions -> Nat] /\ writes \in Nat
  BY JobFields, ConstantsAssumption DEF TypeInv, TypeOK
<1>5. live' = [live EXCEPT !.size = end, !.strs = job.strs, !.rows = job.rows,
                           !.stamp = writes, !.posted = posted]
  BY DEF CommitAppend
<1>. HIDE DEF end, posted
<1>6. live' \in Dir
  BY ONLY <1>1, <1>2, <1>3, <1>4, <1>5, DirCommitted
<1>. QED  BY <1>1, <1>5, <1>6 DEF Dir

\* The id a record is filed under exists: a session without one gets the next,
\* the others have a first and a last.
LEMMA IdForType ==
  ASSUME TypeOK, NEW s \in Sessions, s \in job.fresh => \E k \in DOMAIN job.strs : job.strs[k] = s
  PROVE  IdFor(s) \in Nat
<1>1. job.strs \in Seq(Sessions)
  BY JobFields DEF TypeOK
<1>2. Len(job.strs) \in Nat /\ DOMAIN job.strs = 1..Len(job.strs)
  BY <1>1, LenProperties
<1>3. Ids(s) \subseteq 0..Len(job.strs)
  BY <1>2 DEF Ids
<1>4. CASE NeedsId(s)
  BY <1>2, <1>4 DEF IdFor
<1>5. CASE ~NeedsId(s)
  <2>. Ids(s) # {}
    BY <1>5 DEF NeedsId, Ids
  <2>1. \E k \in Ids(s) : \A j \in Ids(s) : j <= k
    BY <1>2, <1>3, <1>5, GreatestExists
  <2>2. \E k \in Ids(s) : \A j \in Ids(s) : k <= j
    BY <1>2, <1>3, <1>5, LeastExists
  <2>. QED  BY <1>3, <1>5, <2>1, <2>2 DEF IdFor
<1>. QED  BY <1>4, <1>5

-----------------------------------------------------------------------------
(* The invariant is inductive.                                              *)

\* What a hook may do to the directory.
LEMMA HookDoes ==
  Hook => (MakeHollow /\ "mkdir" \in HookActs) \/ Defer \/ Take
<1>. SUFFICES ASSUME Hook  PROVE (MakeHollow /\ "mkdir" \in HookActs) \/ Defer \/ Take
  OBVIOUS
<1>1. PICK act \in HookActs : CASE act = "mkdir" -> MakeHollow
                               [] act = "defer" -> Defer \/ Take
  BY DEF Hook
<1>2. act = "mkdir" \/ act = "defer"
  BY <1>1, ConstantsAssumption
<1>. QED  BY <1>1, <1>2

\* Every step, of the clients, the hooks, the holder and the killer, keeps it.
LEMMA TypeNext ==
  ASSUME TypeInv, [Next]_vars
  PROVE  TypeInv'
<1>. USE TypeInv, ConstantsAssumption, HollowType, NoJobType, DirFields, JobFields
     DEF TypeInv, TypeOK, Present, HasManifest, env, disk, count
<1>1. CASE Client
  <2>1. PICK s \in Sessions : Say(s) \/ Delete(s)
    BY <1>1 DEF Client
  <2>2. CASE Say(s)
    <3>1. PICK from \in {Len(doc[s]) + 1} \union {doc[s][v] : v \in {Len(doc[s])} \ {0}} :
            doc' = [doc EXCEPT ![s] = Append(@, from)]
      BY <2>2 DEF Say
    <3>2. doc[s] \in Seq(Nat \ {0}) /\ Len(doc[s]) \in Nat
      BY LenProperties
    <3>3. from \in Nat \ {0}
      BY <3>2, ElementOfSeq
    <3>4. doc' \in [Sessions -> Seq(Nat \ {0})]
      BY <3>1, <3>2, <3>3, AppendProperties
    <3>. QED  BY <2>2, <3>4 DEF Say
  <2>3. CASE Delete(s)
    BY <2>3 DEF Delete
  <2>. QED  BY <2>1, <2>2, <2>3
<1>2. CASE MakeHollow
  BY <1>2 DEF MakeHollow
<1>3. CASE Defer
  BY <1>3, DirDeferred DEF Defer
<1>4. CASE Take
  BY <1>4, DirDeferred DEF Take
<1>5. CASE Lock
  BY <1>5, JobUpdates DEF Lock
<1>6. CASE RecoverPresent
  BY <1>6, ClearedType DEF RecoverPresent
<1>7. CASE RecoverMissing
  <2>1. CASE Parked # {} /\ live' = parked[Newest] /\ parked' = [parked EXCEPT ![Newest] = NoDir]
    <3>1. Newest \in Spots /\ parked[Newest] \in Dir
      BY <2>1, NewestType
    <3>2. parked' \in [Spots -> Dir \union {NoDir}] /\ live' \in Dir
      BY <2>1, <3>1
    <3>. QED  BY <1>7, <3>2 DEF RecoverMissing
  <2>2. CASE UNCHANGED <<live, parked>>
    BY <1>7, <2>2 DEF RecoverMissing
  <2>. QED  BY <1>7, <2>1, <2>2 DEF RecoverMissing
<1>8. CASE CutTail
  BY <1>8, CutTailType DEF CutTail, AppendMarked
<1>9. CASE Unmark
  BY <1>9, DirMarks DEF Unmark
<1>10. CASE NothingToCut
  BY <1>10 DEF NothingToCut
<1>11. CASE Rescrub
  <2>1. CASE live # NoDir /\ live.scrub
    <3>1. job' = [job EXCEPT !.dead = live.dead]
      BY <1>11, <2>1, Zenon DEF Rescrub
    <3>2. live \in Dir
      BY <2>1
    <3>3. job' \in Job
      BY <3>1, <3>2, JobUpdates
    <3>. QED  BY <1>11, <2>1, <3>3 DEF Rescrub
  <2>2. CASE ~(live # NoDir /\ live.scrub)
    BY <1>11, <2>2 DEF Rescrub
  <2>. QED  BY <2>1, <2>2
<1>12. CASE DropStaging
  BY <1>12 DEF DropStaging
<1>13. CASE Leave
  BY <1>13 DEF Leave, Sweep
<1>14. CASE Begin
  <2>1. ASSUME NEW l \in LogIds, NEW todo \in SUBSET (Sessions \X Nat),
               NEW rows \in [Sessions -> Nat], StartLog(l, todo, rows), CanBegin
        PROVE  TypeInv'
    <3>1. tmp' \in Dir /\ tmp' # NoDir /\ tmp'.log = l
      BY <2>1, DirStarted DEF StartLog
    <3>2. job' \in Job /\ job'.pass = "rewrite" /\ job'.fresh = {}
      BY <2>1 DEF StartLog, Job, NoJob
    <3>3. logs' \in [LogIds -> Seq(Record)]
      BY <2>1, EmptySeq DEF StartLog
    <3>4. writes' \in 0..MaxWrites
      BY <2>1 DEF StartLog, CanBegin
    <3>. QED  BY <2>1, <3>1, <3>2, <3>3, <3>4 DEF StartLog
  <2>2. ASSUME NEW l \in LogIds, Rebuild(l)
        PROVE  TypeInv'
    <3>. DEFINE old == IF HasManifest(live) THEN live ELSE Hollow
                log == LogOf(old)
                todo == UNION {IF s \in gone THEN Carried(old, log, Len(log), s) ELSE Text(s)
                                 : s \in Sessions}
                rows == [s \in Sessions |-> IF s \in gone THEN old.rows[s] ELSE Len(doc[s])]
    <3>1. CanBegin /\ StartLog(l, todo, rows)
      BY <2>2 DEF Rebuild
    <3>2. old \in Dir
      OBVIOUS
    <3>3. log \in Seq(Record) /\ Len(log) \in Nat
      BY <3>2, LogOfType, LenProperties
    <3>4. ASSUME NEW s \in Sessions
          PROVE  /\ Carried(old, log, Len(log), s) \subseteq Sessions \X Nat
                 /\ Text(s) \subseteq Sessions \X Nat
      <4>. HIDE DEF old, log
      <4>. QED  BY <3>2, <3>3, CarriedType, TextType
    <3>5. todo \in SUBSET (Sessions \X Nat)
      <4>. HIDE DEF old, log
      <4>. QED  BY <3>4
    <3>6. rows \in [Sessions -> Nat]
      BY <3>2, LenProperties
    <3>. HIDE DEF todo, rows
    <3>. QED  BY <3>1, <3>5, <3>6, <2>1
  <2>3. ASSUME NEW S \in SUBSET Sessions, live \in Dir
        PROVE  Reread(S) \in [Sessions -> Nat]
    BY <2>3, LenProperties DEF Reread
  <2>4. ASSUME NEW l \in LogIds, NEW S \in SUBSET Sessions, ReplaceWhole(l, S)
        PROVE  TypeInv'
    <3>. DEFINE todo == UNION {IF s \in S THEN Text(s) ELSE Held(live, s) : s \in Sessions}
    <3>1. CanBegin /\ StartLog(l, todo, Reread(S)) /\ live \in Dir
      BY <2>4 DEF ReplaceWhole, Intact
    <3>2. LogOf(live) \in Seq(Record)
      BY <3>1, LogOfType
    <3>3. \A s \in Sessions : Held(live, s) \subseteq Sessions \X Nat
      BY <2>4, <3>1, <3>2, CarriedType, LenProperties, EmptyOrWhole DEF Held, ReplaceWhole
    <3>4. todo \in SUBSET (Sessions \X Nat)
      BY <3>3, TextType
    <3>. HIDE DEF todo
    <3>. QED  BY <3>1, <3>4, <2>1, <2>3
  <2>5. ASSUME NEW S \in SUBSET Sessions, ReplaceAppending(S)
        PROVE  TypeInv'
    <3>1. live \in Dir /\ HasManifest(live) /\ live.log \in LogIds
      BY <2>5 DEF ReplaceAppending, Intact
    <3>2. tmp' \in Dir /\ tmp' # NoDir /\ tmp'.log \in LogIds
      BY <2>5, <3>1, DirStarted DEF ReplaceAppending
    <3>3. live' \in Dir /\ live' # NoDir /\ live'.log \in LogIds
      BY <2>5, <3>1, DirMarks DEF ReplaceAppending
    <3>4. UNION {Offsets(live, LogOf(live), live.size, s) : s \in S} \in SUBSET Nat
      BY <3>1 DEF Offsets
    <3>5. UNION {Text(s) : s \in S} \in SUBSET (Sessions \X Nat)
      BY TextType
    <3>6. job' \in Job /\ job'.fresh = {}
      BY <2>5, <2>3, <3>1, <3>4, <3>5 DEF ReplaceAppending, Job, NoJob
    <3>7. writes' \in 0..MaxWrites
      BY <2>5 DEF ReplaceAppending, CanBegin
    <3>. QED  BY <2>5, <3>2, <3>3, <3>6, <3>7 DEF ReplaceAppending
  <2>6. ASSUME NEW S \in SUBSET Sessions, AppendInPlace(S)
        PROVE  TypeInv'
    <3>1. live \in Dir /\ HasManifest(live)
      BY <2>6 DEF AppendInPlace, Intact
    <3>2. UNION {{t \in Text(s) : t[2] > live.rows[s]} : s \in S} \in SUBSET (Sessions \X Nat)
      BY TextType
    <3>3. job' \in Job /\ job'.pass = "append" /\ job'.fresh = {}
      BY <2>6, <2>3, <3>1, <3>2 DEF AppendInPlace, Job, NoJob
    <3>4. writes' \in 0..MaxWrites
      BY <2>6 DEF AppendInPlace, CanBegin
    <3>. QED  BY <2>6, <3>1, <3>3, <3>4 DEF AppendInPlace, Sweep
  <2>7. ASSUME WriteMetadata
        PROVE  TypeInv'
    <3>1. live \in Dir /\ live.log \in LogIds
      BY <2>7 DEF WriteMetadata, CanBegin
    <3>2. Len(LogOf(live)) \in Nat
      BY <3>1, LenProperties, EmptySeq DEF LogOf
    <3>4. live' = [live EXCEPT !.stamp = writes + 1,
                           !.size = IF live.size > 0 THEN live.size ELSE Len(LogOf(live))]
      BY <2>7 DEF WriteMetadata
    <3>6. /\ (IF live.size > 0 THEN live.size ELSE Len(LogOf(live))) \in Nat
          /\ writes + 1 \in Nat
      BY <3>1, <3>2
    <3>5. live' \in Dir
      BY ONLY <3>1, <3>4, <3>6, DirRestamped
    <3>. QED  BY <2>7, <3>5 DEF WriteMetadata, CanBegin, Sweep
  <2>. QED  BY <1>14, <2>2, <2>4, <2>5, <2>6, <2>7 DEF Begin
<1>15. CASE WriteRecord
  <2>1. PICK t \in job.todo :
          /\ logs' = [logs EXCEPT ![Target] = Append(@, [kid |-> IdFor(t[1]), turn |-> t])]
          /\ job' = [job EXCEPT
               !.todo = @ \ {t}, !.fresh = @ \union {t[1]},
               !.strs = IF NeedsId(t[1]) THEN Append(@, t[1]) ELSE @]
    BY <1>15 DEF WriteRecord
  <2>2. t \in Sessions \X Nat /\ t[1] \in Sessions
    OBVIOUS
  <2>3. [kid |-> IdFor(t[1]), turn |-> t] \in Record
    BY <1>15, <2>2, IdForType DEF Record, WriteRecord
  <2>4. logs' \in [LogIds -> Seq(Record)]
    BY <2>1, <2>3, AppendProperties
  <2>5. Append(job.strs, t[1]) \in Seq(Sessions)
    BY <2>2, AppendProperties
  <2>6. job' \in Job /\ job'.pass = job.pass
    BY <2>1, <2>2, <2>5 DEF Job
  <2>7. \A s \in job'.fresh : \E k \in DOMAIN job'.strs : job'.strs[k] = s
    <3>1. job.strs \in Seq(Sessions) /\ DOMAIN job.strs = 1..Len(job.strs) /\ Len(job.strs) \in Nat
      BY LenProperties
    <3>2. \A s \in job.fresh : \E k \in DOMAIN job.strs : job.strs[k] = s
      BY <1>15 DEF WriteRecord
    <3>3. job'.fresh = job.fresh \union {t[1]}
          /\ job'.strs = IF NeedsId(t[1]) THEN Append(job.strs, t[1]) ELSE job.strs
      BY <2>1 DEF Job
    <3>4. CASE NeedsId(t[1])
      <4>1. /\ DOMAIN job'.strs = 1..(Len(job.strs) + 1)
            /\ \A k \in 1..Len(job.strs) : job'.strs[k] = job.strs[k]
            /\ job'.strs[Len(job.strs) + 1] = t[1]
        BY <3>1, <3>3, <3>4, <2>2, AppendProperties, LenProperties
      <4>2. \A k \in DOMAIN job.strs : k \in DOMAIN job'.strs /\ job'.strs[k] = job.strs[k]
        BY ONLY <4>1, <3>1
      <4>3. Len(job.strs) + 1 \in DOMAIN job'.strs
        BY ONLY <4>1, <3>1
      <4>4. ASSUME NEW s \in job.fresh
            PROVE  \E k \in DOMAIN job'.strs : job'.strs[k] = s
        <5>1. PICK k \in DOMAIN job.strs : job.strs[k] = s
          BY <3>2
        <5>. QED  BY ONLY <5>1, <4>2
      <4>. QED  BY ONLY <4>1, <4>3, <4>4, <3>3
    <3>5. CASE ~NeedsId(t[1])
      <4>1. \E k \in DOMAIN job.strs : job.strs[k] = t[1]
        BY <3>5, <3>2 DEF NeedsId, Ids
      <4>. QED  BY <4>1, <3>2, <3>3, <3>5
    <3>. QED  BY <3>4, <3>5
  <2>. QED  BY <1>15, <2>4, <2>6, <2>7 DEF WriteRecord
<1>16. CASE Seal
  <2>3. tmp' \in Dir /\ tmp' # NoDir /\ ~tmp'.deferred
    BY <1>16, SealType
  <2>. QED  BY <1>16, <2>3 DEF Seal
<1>17. CASE CommitAppend
  BY <1>17, CommitAppendType DEF CommitAppend
<1>18. CASE ClearSpot
  <2>1. PICK stay \in MayStay :
          LET spot == IF stay = {} THEN 0 ELSE 1 + CHOOSE n \in stay : \A k \in stay : k <= n
          IN /\ spot \in Spots
             /\ parked' = Cleared(stay)
             /\ job' = [job EXCEPT !.spot = spot]
    BY <1>18 DEF ClearSpot
  <2>2. job' \in Job
    BY <2>1, JobUpdates
  <2>3. parked' \in [Spots -> Dir \union {NoDir}]
    BY <2>1, ClearedType
  <2>. QED  BY <1>18, <2>2, <2>3 DEF ClearSpot
<1>19. CASE Park
  BY <1>19 DEF Park
<1>20. CASE CarryState
  <2>1. CASE parked[job.spot] # NoDir /\ parked[job.spot].deferred
    <3>1. parked[job.spot] \in Dir /\ tmp \in Dir
      BY <1>20, <2>1 DEF CarryState
    <3>2. [parked[job.spot] EXCEPT !.deferred = FALSE] \in Dir
          /\ [parked[job.spot] EXCEPT !.deferred = FALSE] # NoDir
      BY <3>1, DirDeferred
    <3>3. /\ parked' = [parked EXCEPT ![job.spot] = [parked[job.spot] EXCEPT !.deferred = FALSE]]
          /\ tmp' = [tmp EXCEPT !.deferred = TRUE]
      BY <1>20, <2>1, Zenon DEF CarryState
    <3>4. parked' \in [Spots -> Dir \union {NoDir}] /\ parked'[job.spot] # NoDir
      BY <3>2, <3>3
    <3>5. tmp' \in Dir
      BY <3>1, <3>3, DirDeferred
    <3>. QED  BY <1>20, <3>4, <3>5 DEF CarryState
  <2>2. CASE ~(parked[job.spot] # NoDir /\ parked[job.spot].deferred)
    BY <1>20, <2>2 DEF CarryState
  <2>. QED  BY <2>1, <2>2
<1>21. CASE Install
  BY <1>21 DEF Install
<1>22. CASE InstallRefused
  <2>1. CASE tmp.deferred
    <3>1. parked[job.spot] \in Dir /\ tmp \in Dir
      BY <1>22, <2>1 DEF InstallRefused
    <3>2. [parked[job.spot] EXCEPT !.deferred = TRUE] \in Dir
      BY <3>1, DirDeferred
    <3>3. /\ parked' = [parked EXCEPT ![job.spot] = [parked[job.spot] EXCEPT !.deferred = TRUE]]
          /\ tmp' = [tmp EXCEPT !.deferred = FALSE]
      BY <1>22, <2>1, Zenon DEF InstallRefused
    <3>4. parked' \in [Spots -> Dir \union {NoDir}]
      BY <3>2, <3>3
    <3>5. tmp' \in Dir
      BY <3>1, <3>3, DirDeferred
    <3>. QED  BY <1>22, <3>4, <3>5 DEF InstallRefused
  <2>2. CASE ~tmp.deferred
    BY <1>22, <2>2 DEF InstallRefused
  <2>. QED  BY <2>1, <2>2
<1>23. CASE Restore
  <2>1. job' = NoJob /\ pc' \in {"undo", "idle"}
    BY <1>23 DEF Restore, Abandon
  <2>2. CASE live' = parked[job.spot] /\ parked' = [parked EXCEPT ![job.spot] = NoDir]
    BY <1>23, <2>1, <2>2 DEF Restore
  <2>3. CASE UNCHANGED <<live, parked>>
    BY <1>23, <2>1, <2>3 DEF Restore
  <2>. QED  BY <1>23, <2>2, <2>3 DEF Restore
<1>24. CASE Tidy
  BY <1>24, ClearedType DEF Tidy
<1>25. CASE Fail
  BY <1>25 DEF Fail, Abandon
<1>26. CASE BlankWords
  BY <1>26, DirMarks DEF BlankWords
<1>27. CASE ZeroRecord
  BY <1>27, ZeroRecordType, JobUpdates DEF ZeroRecord
<1>28. CASE Unscrub
  BY <1>28, DirMarks, JobUpdates DEF Unscrub, ScrubDone
<1>29. CASE ScrubStops
  BY <1>29, JobUpdates DEF ScrubStops, ScrubDone
<1>30. CASE Crash
  BY <1>30 DEF Crash
<1>31. CASE UNCHANGED vars
  BY <1>31 DEF vars
<1>. QED
  BY <1>1, <1>2, <1>3, <1>4, <1>5, <1>6, <1>7, <1>8, <1>9, <1>10, <1>11, <1>12, <1>13, <1>14, <1>15, <1>16, <1>17, <1>18, <1>19, <1>20, <1>21, <1>22, <1>23, <1>24, <1>25, <1>26, <1>27, <1>28, <1>29, <1>30, <1>31, HookDoes DEF Next, Holder, Recover, Commit, Scrub

\* Every variable keeps its type: TypeOK, in particular that swapIndexDir parks
\* only in a spot it has (nextParking) and reads no directory that is not there.
THEOREM TypeCorrect == Spec => []TypeOK
<1>1. TypeInv /\ [Next]_vars => TypeInv'
  BY TypeNext
<1>2. TypeInv => TypeOK
  BY DEF TypeInv
<1>. QED  BY TypeInit, <1>1, <1>2, PTL DEF Spec

-----------------------------------------------------------------------------
(* The invariant.  MakeHollow is what the first hypothesis of the theorems    *)
(* excludes and a refused restore in recoverIndexDir the second: HollowDir  *)
(* shows what becomes of the promise with the first.                        *)

\* Where the holder relies on recoverIndexDir having put a parked copy back.
Lockable == {"untail", "unmark", "rescrub", "ready", "write", "clear", "park"}
\* Where dir.tmp holds the next index.
Swapping == {"clear", "park", "carry", "install"}

\* Where an index is, by the holder's place: every directory has a manifest; past
\* recovery nothing is parked unless dir is there; and the copy a swap parked is
\* the newest, so that it is the one recovered.
Placed ==
  /\ live # NoDir => live.log # NoLog
  /\ \A n \in Parked : parked[n].log # NoLog
  /\ pc \in Swapping => tmp.log # NoLog
  /\ pc \in Lockable => live # NoDir \/ Parked = {}
  /\ pc = "park" => \A n \in Parked : n < job.spot
  /\ pc \in {"carry", "install", "restore"} =>
       /\ live = NoDir
       /\ Parked # {} => job.spot \in Parked
       /\ \A n \in Parked : n <= job.spot

\* A commit of these rows would move forward.
Reached(rows) == \A s \in Sessions : rows[s] \in Recoverable.rows[s]..Len(doc[s])

\* No version is ahead of its transcript, and what a pass holds or has staged is
\* at or past what a lock taker would recover.
Forward ==
  /\ \A s \in Sessions : \A v \in 1..Len(doc[s]) : doc[s][v] <= v
  /\ Reached(Recoverable.rows)
  /\ pc = "write" => Reached(job.rows)
  /\ pc \in Swapping => Reached(tmp.rows)

\* The inductive invariant.
PromiseInv == TypeInv /\ Placed /\ Forward

\* OnDisk, where every directory has a manifest.
Somewhere == live # NoDir \/ Parked # {}
\* A step that moves directories about and commits nothing.
Same == Recoverable'.rows = Recoverable.rows /\ (Somewhere => Somewhere')

-----------------------------------------------------------------------------
(* Moves of the directories that leave the recoverable index as it was.     *)

\* The parked copy with the highest number is the newest.
LEMMA NewestIs ==
  ASSUME NEW n \in Parked, \A k \in Parked : k <= n
  PROVE  Newest = n
<1>1. \A j, k \in Parked : j \in Nat /\ k \in Nat
  BY ConstantsAssumption DEF Parked, Spots
<1>. QED  BY <1>1 DEF Newest

\* There is always something to recover, an empty index if nothing else.
LEMMA RecoverableType == TypeOK => Recoverable \in Dir
BY NewestType, HollowType DEF Recoverable, TypeOK, Parked

\* Nothing moves.
LEMMA Unmoved ==
  ASSUME UNCHANGED <<live, parked>>
  PROVE  Same /\ Recoverable' = Recoverable /\ Parked' = Parked
BY DEF Same, Recoverable, Parked, Newest, Somewhere

\* Dir is rewritten in place with the rows it had.
LEMMA LiveTouched ==
  ASSUME live # NoDir, live' # NoDir, live'.rows = live.rows
  PROVE  Same
BY DEF Same, Recoverable, Somewhere

\* Parked copies go while dir is there, or when there are none.
LEMMA ParkedCleared ==
  ASSUME live # NoDir \/ Parked = {}, live' = live, NEW stay, parked' = Cleared(stay)
  PROVE  Same /\ Parked' \subseteq Parked
<1>1. Parked' \subseteq Parked
  BY DEF Parked, Cleared
<1>. QED  BY <1>1 DEF Same, Recoverable, Somewhere

\* A parked copy is rewritten with the rows and the log it had.
LEMMA ParkedTouched ==
  ASSUME TypeOK, live = NoDir, live' = NoDir,
         NEW n \in Spots, parked[n] # NoDir, NEW d, d # NoDir,
         d.rows = parked[n].rows, d.log = parked[n].log,
         parked' = [parked EXCEPT ![n] = d]
  PROVE  /\ Same /\ Parked' = Parked
         /\ \A k \in Spots : parked'[k].log = parked[k].log
<1>1. /\ Parked' = Parked
      /\ \A k \in Spots : /\ parked'[k].log = parked[k].log
                          /\ parked'[k].rows = parked[k].rows
  BY DEF TypeOK, Parked
<1>2. Newest' = Newest
  BY <1>1 DEF Newest
<1>3. Newest \in Spots
  BY NewestType DEF Parked
<1>. QED  BY <1>1, <1>2, <1>3 DEF Same, Recoverable, Somewhere, Parked

-----------------------------------------------------------------------------
(* The placement is inductive, and only two steps commit.                   *)

\* Every step keeps Placed; all but the rename of dir.tmp and the manifest of an
\* in-place append leave the recoverable index as it was.
LEMMA PlacedNext ==
  ASSUME TypeInv, Placed, [Next]_vars, "mkdir" \notin HookActs, "recover" \notin Refusals
  PROVE  Placed' /\ (Same \/ Install \/ CommitAppend)
<1>. USE TypeInv, Placed, DirFields, NoDirAssumption, ConstantsAssumption
     DEF TypeInv, TypeOK, Placed, Lockable, Swapping, env, disk, count
<1>1. CASE Client
  BY <1>1, Unmoved DEF Client, Say, Delete
<1>2. CASE MakeHollow /\ "mkdir" \in HookActs
  BY <1>2
<1>3. CASE Defer
  BY <1>3, DirDeferred, LiveTouched DEF Defer, HasManifest, Parked
<1>4. CASE Take
  BY <1>4, DirDeferred, LiveTouched DEF Take, Parked
<1>5. CASE Lock
  BY <1>5, Unmoved DEF Lock
<1>6. CASE RecoverPresent
  <2>1. PICK stay \in MayStay : parked' = Cleared(stay)
    BY <1>6 DEF RecoverPresent
  <2>2. Same /\ Parked' \subseteq Parked
    BY <1>6, <2>1, ParkedCleared DEF RecoverPresent
  <2>3. \A n \in Parked' : parked'[n] = parked[n]
    BY <2>1 DEF Parked, Cleared
  <2>. QED  BY <1>6, <2>2, <2>3 DEF RecoverPresent
<1>7. CASE RecoverMissing
  <2>1. CASE Parked # {}
    <3>1. /\ Newest \in Spots /\ parked[Newest] \in Dir
          /\ live' = parked[Newest] /\ parked' = [parked EXCEPT ![Newest] = NoDir]
      BY <1>7, <2>1, NewestType DEF RecoverMissing
    <3>2. Recoverable' = Recoverable /\ Somewhere'
      BY <1>7, <2>1, <3>1 DEF Recoverable, Somewhere, RecoverMissing
    <3>3. Parked' \subseteq Parked /\ \A n \in Parked' : parked'[n] = parked[n]
      BY <3>1 DEF Parked
    <3>. QED  BY <1>7, <2>1, <3>1, <3>2, <3>3 DEF RecoverMissing, Same, Parked
  <2>2. CASE Parked = {}
    BY <1>7, <2>2, Unmoved DEF RecoverMissing
  <2>. QED  BY <2>1, <2>2
<1>8. CASE CutTail
  BY <1>8, Unmoved DEF CutTail
<1>9. CASE Unmark
  <2>1. CASE live = NoDir
    BY <1>9, <2>1, Unmoved DEF Unmark
  <2>2. CASE live # NoDir
    <3>1. live' # NoDir /\ live'.rows = live.rows /\ live'.log = live.log
      BY <1>9, <2>2, DirMarks DEF Unmark
    <3>2. Same
      BY <2>2, <3>1, LiveTouched
    <3>. QED  BY <1>9, <2>2, <3>1, <3>2 DEF Unmark, Parked
  <2>. QED  BY <2>1, <2>2
<1>10. CASE NothingToCut
  BY <1>10, Unmoved DEF NothingToCut
<1>11. CASE Rescrub
  BY <1>11, Unmoved DEF Rescrub
<1>12. CASE DropStaging
  BY <1>12, Unmoved DEF DropStaging
<1>13. CASE Leave
  BY <1>13, Unmoved DEF Leave
<1>14. CASE Begin
  <2>1. ASSUME NEW l \in LogIds, NEW todo, NEW rows, StartLog(l, todo, rows), CanBegin
        PROVE  Placed' /\ Same
    BY <2>1, Unmoved DEF StartLog, CanBegin
  <2>2. ASSUME NEW S \in SUBSET Sessions, ReplaceAppending(S)
        PROVE  Placed' /\ Same
    <3>1. live \in Dir /\ live # NoDir /\ live' = [live EXCEPT !.pend = live.size]
      BY <2>2 DEF ReplaceAppending, Intact, HasManifest
    <3>2. live' \in Dir /\ live' # NoDir /\ live'.log = live.log /\ live'.rows = live.rows
      BY <3>1, DirMarks
    <3>3. Same
      BY <3>1, <3>2, LiveTouched
    <3>. QED  BY <2>2, <3>1, <3>2, <3>3 DEF ReplaceAppending, Parked
  <2>3. ASSUME NEW S \in SUBSET Sessions, AppendInPlace(S)
        PROVE  Placed' /\ Same
    BY <2>3, Unmoved DEF AppendInPlace, CanBegin
  <2>4. CASE WriteMetadata
    <3>1. /\ live \in Dir /\ live # NoDir
          /\ live' = [live EXCEPT !.stamp = writes + 1,
                         !.size = IF live.size > 0 THEN live.size ELSE Len(LogOf(live))]
      BY <2>4 DEF WriteMetadata, HasManifest
    <3>2. /\ (IF live.size > 0 THEN live.size ELSE Len(LogOf(live))) \in Nat
          /\ writes + 1 \in Nat
      BY <3>1, LogOfType, LenProperties
    <3>5. live' \in Dir
      BY ONLY <3>1, <3>2, DirRestamped
    <3>6. live'.log = live.log /\ live'.rows = live.rows
      BY <3>1 DEF Dir
    <3>3. live' # NoDir /\ live'.log = live.log /\ live'.rows = live.rows
      BY <3>5, <3>6, DirFields
    <3>4. Same
      BY <3>1, <3>2, <3>3, LiveTouched
    <3>. QED  BY <2>4, <3>1, <3>2, <3>3, <3>4 DEF WriteMetadata, CanBegin, Parked
  <2>5. CASE \E l \in LogIds \ Linked : \/ Rebuild(l)
                                        \/ \E S \in SUBSET Sessions : ReplaceWhole(l, S)
    BY <2>1, <2>5 DEF Rebuild, ReplaceWhole
  <2>. QED  BY <1>14, <2>2, <2>3, <2>4, <2>5 DEF Begin
<1>15. CASE WriteRecord
  BY <1>15, Unmoved DEF WriteRecord
<1>16. CASE Seal
  BY <1>16, Unmoved, SealType DEF Seal, Present
<1>17. CASE CommitAppend
  <2>1. live \in Dir /\ live.log \in LogIds
    BY <1>17 DEF CommitAppend, Present, HasManifest
  <2>2. live'.log = live.log
    BY <1>17, <2>1 DEF CommitAppend, Dir
  <2>. QED  BY <1>17, <2>1, <2>2 DEF CommitAppend, Parked
<1>18. CASE ClearSpot
  <2>1. PICK stay \in MayStay :
          /\ parked' = Cleared(stay)
          /\ job' = [job EXCEPT !.spot = IF stay = {} THEN 0
                        ELSE 1 + CHOOSE n \in stay : \A k \in stay : k <= n]
    BY <1>18 DEF ClearSpot
  <2>2. Same /\ Parked' \subseteq Parked
    BY <1>18, <2>1, ParkedCleared DEF ClearSpot
  <2>3. \A n \in Parked' : n \in stay /\ parked'[n] = parked[n]
    BY <2>1 DEF Parked, Cleared
  <2>4. stay \subseteq Spots /\ MaxParked \in Nat
    BY DEF MayStay, Parked
  <2>5. \A n \in stay : n < job'.spot
    <3>1. CASE stay = {}
      BY <3>1
    <3>2. CASE stay # {}
      <4>. DEFINE top == CHOOSE n \in stay : \A k \in stay : k <= n
      <4>1. \E n \in stay : \A k \in stay : k <= n
        BY <2>4, <3>2, GreatestExists DEF Spots
      <4>2. top \in stay /\ \A k \in stay : k <= top
        BY <4>1
      <4>3. job'.spot = 1 + top
        BY <2>1, <3>2 DEF Job
      <4>. HIDE DEF top
      <4>. QED  BY <2>4, <4>2, <4>3 DEF Spots
    <3>. QED  BY <3>1, <3>2
  <2>. QED  BY <1>18, <2>2, <2>3, <2>5 DEF ClearSpot
<1>19. CASE Park
  <2>1. CASE live = NoDir
    <3>1. UNCHANGED <<live, parked>>
      BY <1>19, <2>1 DEF Park
    <3>2. Parked = {}
      BY <1>19, <2>1 DEF Park
    <3>. QED  BY <1>19, <3>1, <3>2, Unmoved DEF Park
  <2>2. CASE live # NoDir
    <3>1. /\ job.spot \in Spots /\ live' = NoDir
          /\ parked' = [parked EXCEPT ![job.spot] = live]
      BY <1>19, <2>2, JobFields DEF Park
    <3>2. /\ Parked' = Parked \union {job.spot}
          /\ \A n \in Parked : n < job.spot
          /\ parked'[job.spot] = live
          /\ \A n \in Spots \ {job.spot} : parked'[n] = parked[n]
      BY <1>19, <2>2, <3>1 DEF Park, Parked
    <3>3. \A n \in Parked' : n <= job.spot
      BY <3>1, <3>2 DEF Parked, Spots
    <3>4. Newest' = job.spot
      <4>1. \A k \in Parked' : k \in Nat
        BY DEF Parked, Spots
      <4>. QED  BY <3>2, <3>3, <4>1 DEF Newest
    <3>5. Same
      BY <2>2, <3>1, <3>2, <3>4 DEF Same, Recoverable, Somewhere
    <3>6. \A n \in Parked' : parked'[n].log # NoLog
      BY <2>2, <3>2 DEF Parked
    <3>. QED  BY <1>19, <3>1, <3>2, <3>3, <3>5, <3>6 DEF Park
  <2>. QED  BY <2>1, <2>2
<1>20. CASE CarryState
  <2>1. CASE parked[job.spot] # NoDir /\ parked[job.spot].deferred
    <3>. DEFINE d == [parked[job.spot] EXCEPT !.deferred = FALSE]
    <3>1. /\ parked' = [parked EXCEPT ![job.spot] = d]
          /\ tmp' = [tmp EXCEPT !.deferred = TRUE]
      BY <1>20, <2>1, Zenon DEF CarryState
    <3>2. /\ job.spot \in Spots /\ parked[job.spot] \in Dir
          /\ tmp \in Dir /\ tmp.log # NoLog /\ live = NoDir /\ live' = NoDir
      BY <1>20, <2>1, JobFields DEF CarryState, Present
    <3>3. d # NoDir /\ d.rows = parked[job.spot].rows /\ d.log = parked[job.spot].log
      BY <3>2, DirDeferred
    <3>. HIDE DEF d
    <3>4. /\ Same /\ Parked' = Parked
          /\ \A k \in Spots : parked'[k].log = parked[k].log
      BY <3>1, <3>2, <3>3, <2>1, ParkedTouched
    <3>5. tmp'.log = tmp.log
      BY <3>1, <3>2, DirDeferred
    <3>6. /\ pc' = "install" /\ pc = "carry" /\ job' = job
      BY <1>20 DEF CarryState
    <3>. QED  BY <3>2, <3>4, <3>5, <3>6 DEF Parked
  <2>2. CASE ~(parked[job.spot] # NoDir /\ parked[job.spot].deferred)
    BY <1>20, <2>2, Unmoved DEF CarryState
  <2>. QED  BY <2>1, <2>2
<1>21. CASE Install
  <2>1. live' = tmp /\ parked' = parked /\ tmp.log # NoLog
    BY <1>21 DEF Install
  <2>. QED  BY <1>21, <2>1 DEF Install, Parked
<1>22. CASE InstallRefused
  <2>1. CASE tmp.deferred
    <3>. DEFINE d == [parked[job.spot] EXCEPT !.deferred = TRUE]
    <3>1. parked' = [parked EXCEPT ![job.spot] = d]
      BY <1>22, <2>1, Zenon DEF InstallRefused
    <3>2. /\ job.spot \in Spots /\ parked[job.spot] \in Dir
          /\ live = NoDir /\ live' = NoDir
      BY <1>22, <2>1, JobFields DEF InstallRefused, Present
    <3>3. d # NoDir /\ d.rows = parked[job.spot].rows /\ d.log = parked[job.spot].log
      BY <3>2, DirDeferred
    <3>. HIDE DEF d
    <3>4. /\ Same /\ Parked' = Parked
          /\ \A k \in Spots : parked'[k].log = parked[k].log
      BY <3>1, <3>2, <3>3, ParkedTouched
    <3>5. pc' = "restore" /\ pc = "install" /\ job' = job
      BY <1>22 DEF InstallRefused
    <3>. QED  BY <3>2, <3>4, <3>5 DEF Parked
  <2>2. CASE ~tmp.deferred
    BY <1>22, <2>2, Unmoved DEF InstallRefused
  <2>. QED  BY <2>1, <2>2
<1>23. CASE Restore
  <2>1. pc = "restore" /\ pc' \in {"undo", "idle"}
    BY <1>23 DEF Restore, Abandon
  <2>2. CASE /\ live = NoDir /\ parked[job.spot] # NoDir
             /\ live' = parked[job.spot]
             /\ parked' = [parked EXCEPT ![job.spot] = NoDir]
    <3>1. job.spot \in Parked /\ \A n \in Parked : n <= job.spot
      BY <2>1, <2>2, JobFields DEF Parked
    <3>2. Newest = job.spot
      BY <3>1, NewestIs
    <3>3. Same
      BY <2>2, <3>1, <3>2 DEF Same, Recoverable, Somewhere
    <3>4. \A n \in Parked' : n \in Parked /\ parked'[n] = parked[n]
      BY <2>2, <3>1 DEF Parked
    <3>. QED  BY <2>1, <2>2, <3>1, <3>3, <3>4 DEF Parked
  <2>3. CASE UNCHANGED <<live, parked>>
    BY <2>1, <2>3, Unmoved
  <2>. QED  BY <1>23, <2>2, <2>3 DEF Restore
<1>24. CASE Tidy
  <2>1. PICK stay \in MayStay : parked' = Cleared(stay)
    BY <1>24 DEF Tidy
  <2>4. live # NoDir
    BY <1>24 DEF Tidy, Present
  <2>2. Same /\ Parked' \subseteq Parked
    BY <1>24, <2>1, <2>4, ParkedCleared DEF Tidy
  <2>3. \A n \in Parked' : parked'[n] = parked[n]
    BY <2>1 DEF Parked, Cleared
  <2>. QED  BY <1>24, <2>2, <2>3 DEF Tidy
<1>25. CASE Fail
  BY <1>25, Unmoved DEF Fail, Abandon
<1>26. CASE BlankWords
  <2>1. live \in Dir /\ live # NoDir
    BY <1>26 DEF BlankWords, Present
  <2>2. live' # NoDir /\ live'.rows = live.rows /\ live'.log = live.log
    BY <1>26, <2>1, DirMarks DEF BlankWords
  <2>3. Same
    BY <2>1, <2>2, LiveTouched
  <2>. QED  BY <1>26, <2>1, <2>2, <2>3 DEF BlankWords, Parked
<1>27. CASE ZeroRecord
  BY <1>27, Unmoved DEF ZeroRecord
<1>28. CASE Unscrub
  <2>1. live \in Dir /\ live # NoDir
    BY <1>28 DEF Unscrub, Present
  <2>2. live' # NoDir /\ live'.rows = live.rows /\ live'.log = live.log
    BY <1>28, <2>1, DirMarks DEF Unscrub
  <2>3. Same
    BY <2>1, <2>2, LiveTouched
  <2>. QED  BY <1>28, <2>1, <2>2, <2>3 DEF Unscrub, ScrubDone, Parked
<1>29. CASE ScrubStops
  <2>1. live # NoDir /\ UNCHANGED <<live, parked>>
    BY <1>29 DEF ScrubStops, Present
  <2>. QED  BY <1>29, <2>1, Unmoved DEF ScrubStops, ScrubDone
<1>30. CASE Crash
  BY <1>30, Unmoved DEF Crash
<1>31. CASE UNCHANGED vars
  BY <1>31, Unmoved DEF vars
<1>. QED
  BY <1>1, <1>2, <1>3, <1>4, <1>5, <1>6, <1>7, <1>8, <1>9, <1>10, <1>11, <1>12, <1>13, <1>14, <1>15, <1>16, <1>17, <1>18, <1>19, <1>20, <1>21, <1>22, <1>23, <1>24, <1>25, <1>26, <1>27, <1>28, <1>29, <1>30, <1>31, HookDoes DEF Next, Holder, Recover, Commit, Scrub

-----------------------------------------------------------------------------
(* What is committed is ahead.                                              *)

\* RecoverableType after the step.
LEMMA RecoverablePrime == TypeOK' => (Recoverable \in Dir)'
BY RecoverableType, PTL

\* A pass that goes on writing keeps the rows it began with.
LEMMA StillWriting ==
  ASSUME TypeOK, [Next]_vars, pc' = "write", ~(Begin /\ ~WriteMetadata)
  PROVE  pc = "write" /\ job'.rows = job.rows
<1>1. CASE WriteRecord
  BY <1>1 DEF WriteRecord, TypeOK, Job
<1>2. CASE ~WriteRecord
  BY <1>2, HookDoes DEF Next, vars, Client, Say, Delete, Holder, Recover, Commit, Scrub, Lock,
      Leave, Crash, MakeHollow, Defer, Take, RecoverPresent, RecoverMissing, CutTail, Unmark,
      NothingToCut, Rescrub, DropStaging, WriteMetadata, Seal, CommitAppend, ClearSpot, Park,
      CarryState, Install, InstallRefused, Restore, Tidy, Fail, Abandon, BlankWords,
      ZeroRecord, Unscrub, ScrubDone, ScrubStops
<1>. QED  BY <1>1, <1>2

\* A staged index keeps the rows it was sealed with.
LEMMA StillStaged ==
  ASSUME TypeInv, [Next]_vars, pc' \in Swapping, ~Seal
  PROVE  pc \in Swapping /\ tmp \in Dir /\ tmp'.rows = tmp.rows
<1>1. pc \in Swapping
  BY HookDoes DEF Swapping, Next, vars, Client, Say, Delete, Holder, Recover, Begin, Commit, Scrub,
      Lock, Leave, Crash, MakeHollow, Defer, Take, RecoverPresent, RecoverMissing, CutTail,
      Unmark, NothingToCut, Rescrub, DropStaging, Rebuild, ReplaceWhole, ReplaceAppending,
      AppendInPlace, StartLog, WriteMetadata, WriteRecord, CommitAppend, ClearSpot, Park,
      CarryState, Install, InstallRefused, Restore, Tidy, Fail, Abandon, BlankWords,
      ZeroRecord, Unscrub, ScrubDone, ScrubStops
<1>2. tmp \in Dir
  BY <1>1 DEF TypeInv, TypeOK, Present, Swapping
<1>3. tmp' = tmp \/ tmp' = [tmp EXCEPT !.deferred = TRUE] \/ tmp' = [tmp EXCEPT !.deferred = FALSE]
  BY <1>1, HookDoes DEF Swapping, Next, vars, Client, Say, Delete, Holder, Recover, Begin, Commit,
      Scrub, Lock, Leave, Crash, MakeHollow, Defer, Take, RecoverPresent, RecoverMissing,
      CutTail, Unmark, NothingToCut, Rescrub, DropStaging, Rebuild, ReplaceWhole,
      ReplaceAppending, AppendInPlace, StartLog, CanBegin, WriteMetadata, WriteRecord,
      CommitAppend, ClearSpot, Park, CarryState, Install, InstallRefused, Restore, Tidy, Fail,
      Abandon, BlankWords, ZeroRecord, Unscrub, ScrubDone, ScrubStops, disk
<1>. QED  BY <1>1, <1>2, <1>3, DirDeferred

\* Beginning a pass changes no transcript.
LEMMA BeginNotClient ==
  ASSUME TypeOK, Begin, ~WriteMetadata
  PROVE  UNCHANGED <<doc, gone>>
BY DEF Begin, Rebuild, ReplaceWhole, ReplaceAppending, AppendInPlace, StartLog, env

\* No index and no transcript.
LEMMA PromiseInit == Init => PromiseInv
<1>. SUFFICES ASSUME Init PROVE PromiseInv
  OBVIOUS
<1>1. TypeInv
  BY TypeInit
<1>2. Parked = {} /\ live = NoDir
  BY DEF Init, Parked
<1>3. Placed
  BY <1>2 DEF Init, Placed, Swapping, Lockable
<1>4. \A s \in Sessions : Recoverable.rows[s] = 0 /\ Len(doc[s]) = 0
  BY <1>2, EmptySeq DEF Init, Recoverable, Hollow
<1>5. Forward
  BY <1>4 DEF Init, Forward, Reached, Swapping
<1>. QED  BY <1>1, <1>3, <1>5 DEF PromiseInv

\* A version holds no turn past its own.
LEMMA DocOrdered ==
  ASSUME TypeOK, Forward, NEW s \in Sessions
  PROVE  /\ doc[s] \in Seq(Nat \ {0}) /\ Len(doc[s]) \in Nat
         /\ \A v \in 1..Len(doc[s]) : doc[s][v] \in 1..v
BY ElementOfSeq, LenProperties DEF TypeOK, Forward

\* A client's turn makes a longer history, ordered as before.
LEMMA SayGrows ==
  ASSUME TypeOK, Forward, NEW s \in Sessions, Say(s)
  PROVE  /\ \E from \in 1..Len(doc[s]) + 1 : doc' = [doc EXCEPT ![s] = Append(@, from)]
         /\ \A r \in Sessions : Len(doc[r]) <= Len(doc[r]')
         /\ \A r \in Sessions : \A v \in 1..Len(doc[r]') : doc[r][v]' <= v
<1>1. PICK from \in {Len(doc[s]) + 1} \union {doc[s][v] : v \in {Len(doc[s])} \ {0}} :
        doc' = [doc EXCEPT ![s] = Append(@, from)]
  BY DEF Say
<1>2. from \in 1..Len(doc[s]) + 1
  BY DocOrdered
<1>3. doc'[s] = Append(doc[s], from) /\ \A r \in Sessions \ {s} : doc'[r] = doc[r]
  BY <1>1 DEF TypeOK
<1>4. /\ Len(doc'[s]) = Len(doc[s]) + 1
      /\ \A v \in 1..Len(doc[s]) : doc'[s][v] = doc[s][v]
      /\ doc'[s][Len(doc[s]) + 1] = from
  <2>1. from \in Nat \ {0} /\ doc[s] \in Seq(Nat \ {0})
    BY <1>2, DocOrdered
  <2>. QED  BY <1>3, <2>1, AppendProperties
<1>5. \A v \in 1..Len(doc'[s]) : doc'[s][v] <= v
  BY <1>2, <1>4, DocOrdered
<1>6. ASSUME NEW r \in Sessions \ {s}
      PROVE  Len(doc[r]) <= Len(doc'[r]) /\ \A v \in 1..Len(doc'[r]) : doc'[r][v] <= v
  <2>1. doc'[r] = doc[r]
    BY <1>3
  <2>. QED  BY <2>1, DocOrdered
<1>7. Len(doc[s]) <= Len(doc'[s])
  BY <1>4, DocOrdered
<1>. QED  BY <1>1, <1>2, <1>5, <1>6, <1>7

\* Only a client changes a transcript, and histories only grow.
LEMMA DocMoves ==
  ASSUME TypeOK, Forward, [Next]_vars
  PROVE  /\ \A s \in Sessions : Len(doc[s]) <= Len(doc[s]')
         /\ \A s \in Sessions : \A v \in 1..Len(doc[s]') : doc[s][v]' <= v
         /\ Client \/ UNCHANGED <<doc, gone>>
<1>1. CASE \E s \in Sessions : Say(s)
  BY <1>1, SayGrows DEF Client
<1>2. CASE UNCHANGED doc /\ (Client \/ UNCHANGED gone)
  BY <1>2, DocOrdered
<1>3. [Next]_vars => \/ \E s \in Sessions : Say(s)
                     \/ UNCHANGED doc /\ (Client \/ UNCHANGED gone)
  <2>1. ASSUME Next, ~Client
        PROVE  UNCHANGED <<doc, gone>>
    BY <2>1, HookDoes DEF Next, Holder, Recover, Begin, Commit, Scrub, Lock, Leave, Crash,
        MakeHollow, Defer, Take, RecoverPresent, RecoverMissing, CutTail, Unmark,
        NothingToCut, Rescrub, DropStaging, Rebuild, ReplaceWhole, ReplaceAppending,
        AppendInPlace, StartLog, WriteMetadata, WriteRecord, Seal, CommitAppend,
        ClearSpot, Park, CarryState, Install, InstallRefused, Restore, Tidy, Fail,
        BlankWords, ZeroRecord, Unscrub, ScrubStops, env
  <2>2. ASSUME Client
        PROVE  (\E s \in Sessions : Say(s)) \/ UNCHANGED doc
    BY <2>2 DEF Client, Delete
  <2>. QED  BY <2>1, <2>2 DEF vars
<1>. QED  BY <1>1, <1>2, <1>3

\* A pass begins with rows at or past the recoverable ones: a rebuild keeps those
\* of a session whose transcript is gone, the others read the transcript.
LEMMA BeginReaches ==
  ASSUME TypeInv, Placed, Forward, Begin, ~WriteMetadata
  PROVE  pc' = "write" /\ \A s \in Sessions : job'.rows[s] \in Recoverable.rows[s]..Len(doc[s])
<1>. USE DirFields, NoDirAssumption DEF TypeInv, TypeOK
<1>1. pc = "ready" /\ (live # NoDir \/ Parked = {})
  BY DEF Begin, Rebuild, ReplaceWhole, ReplaceAppending, AppendInPlace, CanBegin,
         Placed, Lockable
<1>2. Recoverable = IF HasManifest(live) THEN live ELSE Hollow
  BY <1>1 DEF Recoverable, HasManifest, Placed
<1>3. \A s \in Sessions : /\ Recoverable.rows[s] \in Nat /\ Len(doc[s]) \in Nat
                          /\ Recoverable.rows[s] <= Len(doc[s])
  BY RecoverableType, DocOrdered DEF Forward, Reached
<1>4. ASSUME NEW l, NEW todo, NEW rows, StartLog(l, todo, rows)
      PROVE  pc' = "write" /\ job'.rows = rows
  BY <1>4 DEF StartLog, NoJob
<1>5. ASSUME NEW S \in SUBSET Sessions, HasManifest(live)
      PROVE  \A s \in Sessions : Reread(S)[s] \in Recoverable.rows[s]..Len(doc[s])
  BY <1>2, <1>3, <1>5 DEF Reread
<1>6. ASSUME NEW l, Rebuild(l)
      PROVE  pc' = "write" /\ \A s \in Sessions : job'.rows[s] \in Recoverable.rows[s]..Len(doc[s])
  <2>. DEFINE rows == [s \in Sessions |-> IF s \in gone THEN Recoverable.rows[s] ELSE Len(doc[s])]
  <2>1. pc' = "write" /\ job'.rows = rows
    BY <1>2, <1>4, <1>6 DEF Rebuild
  <2>. QED  BY <1>3, <2>1
<1>7. ASSUME NEW l, NEW S \in SUBSET Sessions, ReplaceWhole(l, S)
      PROVE  pc' = "write" /\ job'.rows = Reread(S) /\ HasManifest(live)
  BY <1>4, <1>7 DEF ReplaceWhole, Intact
<1>8. ASSUME NEW S \in SUBSET Sessions, ReplaceAppending(S) \/ AppendInPlace(S)
      PROVE  pc' = "write" /\ job'.rows = Reread(S) /\ HasManifest(live)
  BY <1>8 DEF ReplaceAppending, AppendInPlace, Intact, NoJob
<1>. QED  BY <1>5, <1>6, <1>7, <1>8 DEF Begin

\* The two steps that commit.
Commits == Install \/ CommitAppend

\* A commit moves every session on to a version it has had.
LEMMA CommitMoves ==
  ASSUME TypeInv, Placed, Forward, Commits
  PROVE  /\ Recoverable'.rows \in [Sessions -> Nat]
         /\ \A s \in Sessions : Recoverable'.rows[s] \in Recoverable.rows[s]..Len(doc[s])
         /\ Somewhere'
         /\ pc' \in {"tidy", "idle"}
<1>. USE DirFields, NoDirAssumption, JobFields DEF TypeInv, TypeOK
<1>1. CASE Install
  <2>1. live' = tmp /\ tmp \in Dir /\ pc = "install"
    BY <1>1 DEF Install, Present
  <2>2. Recoverable' = tmp /\ Somewhere'
    BY <2>1 DEF Recoverable, Somewhere
  <2>. QED  BY <1>1, <2>1, <2>2 DEF Install, Forward, Swapping, Reached
<1>2. CASE CommitAppend
  <2>1. live \in Dir /\ live # NoDir /\ pc = "write" /\ pc' = "idle"
    BY <1>2 DEF CommitAppend, Present, HasManifest
  <2>2. live'.rows = job.rows
    BY <1>2, <2>1 DEF CommitAppend, Dir
  <2>3. live' # NoDir
    <3>1. live' \in Dir
      BY <1>2, CommitAppendType
    <3>. QED  BY <3>1
  <2>4. Recoverable' = live' /\ Somewhere'
    BY <2>3 DEF Recoverable, Somewhere
  <2>. QED  BY <2>1, <2>2, <2>4 DEF Forward, Reached
<1>. QED  BY <1>1, <1>2 DEF Commits

\* Every step keeps Forward.
LEMMA ForwardNext ==
  ASSUME TypeInv, TypeInv', Placed, Forward, [Next]_vars,
         Same \/ Commits
  PROVE  Forward'
<1>1. /\ \A s \in Sessions : Len(doc[s]) <= Len(doc[s]')
      /\ \A s \in Sessions : \A v \in 1..Len(doc[s]') : doc[s][v]' <= v
      /\ Client \/ UNCHANGED <<doc, gone>>
  BY DocMoves DEF TypeInv
<1>2. /\ \A s \in Sessions : Len(doc[s]) \in Nat /\ Len(doc[s]') \in Nat
      /\ Recoverable.rows \in [Sessions -> Nat] /\ Recoverable'.rows \in [Sessions -> Nat]
      /\ tmp \in Dir \union {NoDir}
      /\ job.rows \in [Sessions -> Nat] /\ job'.rows \in [Sessions -> Nat]
  <2>1. Recoverable \in Dir /\ Recoverable' \in Dir
    BY RecoverableType, RecoverablePrime DEF TypeInv
  <2>2. TypeOK /\ TypeOK'
    BY DEF TypeInv
  <2>3. \A s \in Sessions : Len(doc[s]) \in Nat /\ Len(doc[s]') \in Nat
    BY <2>2, LenProperties DEF TypeOK
  <2>4. Recoverable.rows \in [Sessions -> Nat] /\ Recoverable'.rows \in [Sessions -> Nat]
    BY <2>1, DirFields
  <2>5. job.rows \in [Sessions -> Nat] /\ job'.rows \in [Sessions -> Nat]
    BY <2>2, JobFields DEF TypeOK
  <2>. QED  BY <2>2, <2>3, <2>4, <2>5 DEF TypeOK
<1>3. CASE Commits
  <2>1. /\ \A s \in Sessions : Recoverable'.rows[s] \in Recoverable.rows[s]..Len(doc[s])
        /\ pc' \in {"tidy", "idle"}
    BY <1>3, CommitMoves
  <2>2. \A s \in Sessions : /\ Recoverable'.rows[s] \in Nat
                            /\ Recoverable'.rows[s] <= Len(doc'[s])
    <3>1. ASSUME NEW s \in Sessions
          PROVE  Recoverable'.rows[s] \in Nat /\ Recoverable'.rows[s] <= Len(doc'[s])
      <4>1. /\ Recoverable'.rows[s] \in Recoverable.rows[s]..Len(doc[s])
            /\ Len(doc[s]) <= Len(doc'[s])
            /\ Recoverable'.rows[s] \in Nat /\ Recoverable.rows[s] \in Nat
            /\ Len(doc[s]) \in Nat /\ Len(doc'[s]) \in Nat
        BY <1>1, <1>2, <2>1
      <4>. QED  BY ONLY <4>1
    <3>. QED  BY ONLY <3>1
  <2>3. \A s \in Sessions : Recoverable'.rows[s] \in Recoverable'.rows[s]..Len(doc'[s])
    <3>1. \A s \in Sessions : Len(doc'[s]) \in Nat
      BY <1>2
    <3>. QED  BY ONLY <2>2, <3>1
  <2>. QED  BY <1>1, <2>1, <2>3 DEF Forward, Reached, Swapping
<1>4. CASE Same
  <2>1. ASSUME NEW rows, Reached(rows), rows \in [Sessions -> Nat]
        PROVE  \A s \in Sessions : rows[s] \in Recoverable'.rows[s]..Len(doc'[s])
    <3>1. ASSUME NEW s \in Sessions
          PROVE  rows[s] \in Recoverable'.rows[s]..Len(doc'[s])
      <4>1. /\ rows[s] \in Recoverable.rows[s]..Len(doc[s])
            /\ Len(doc[s]) <= Len(doc'[s])
            /\ Recoverable'.rows[s] = Recoverable.rows[s]
        BY <1>1, <1>4, <2>1 DEF Same, Reached
      <4>. QED  BY <1>2, <4>1
    <3>. QED  BY <3>1
  <2>2. Reached(Recoverable.rows)'
    BY <1>2, <1>4, <2>1 DEF Forward, Same, Reached
  <2>3. pc' = "write" => Reached(job.rows)'
    <3>1. CASE Begin /\ ~WriteMetadata
      <4>1. UNCHANGED <<doc, gone>>
        BY <3>1, BeginNotClient DEF TypeInv
      <4>. QED  BY <1>1, <1>2, <1>4, <3>1, <4>1, BeginReaches DEF Reached, Same
    <3>2. ASSUME pc' = "write", ~(Begin /\ ~WriteMetadata)
          PROVE  pc = "write" /\ job'.rows = job.rows
      BY <3>2, StillWriting DEF TypeInv
    <3>. QED  BY <1>2, <2>1, <3>1, <3>2 DEF Forward, Reached
  <2>4. pc' \in Swapping => Reached(tmp.rows)'
    <3>1. CASE Seal
      <4>1. tmp'.rows = job.rows /\ pc = "write"
        BY <3>1, SealType DEF Seal
      <4>. QED  BY <1>2, <2>1, <4>1 DEF Forward, Reached
    <3>2. ASSUME pc' \in Swapping, ~Seal
          PROVE  pc \in Swapping /\ tmp'.rows = tmp.rows /\ tmp \in Dir
      BY <3>2, StillStaged
    <3>. QED  BY <2>1, <3>1, <3>2, DirFields DEF Forward, Reached
  <2>. QED  BY <1>1, <2>2, <2>3, <2>4 DEF Forward
<1>. QED  BY <1>3, <1>4


\* The invariant is inductive.
LEMMA PromiseNext ==
  ASSUME PromiseInv, [Next]_vars, "mkdir" \notin HookActs, "recover" \notin Refusals
  PROVE  PromiseInv'
<1>1. TypeInv'
  BY TypeNext DEF PromiseInv
<1>2. Placed' /\ (Same \/ Commits)
  BY PlacedNext DEF PromiseInv, Commits
<1>. QED  BY <1>1, <1>2, ForwardNext DEF PromiseInv

-----------------------------------------------------------------------------
(* The theorems.                                                            *)

\* An index on disk is one in its place or parked.
LEMMA OnDiskSomewhere ==
  ASSUME Placed
  PROVE  OnDisk <=> Somewhere
BY DEF OnDisk, Somewhere, Placed, HasManifest, Parked

\* No step takes the last copy.
LEMMA CopyStep ==
  ASSUME PromiseInv, PromiseInv', [Next]_vars, OnDisk,
         "mkdir" \notin HookActs, "recover" \notin Refusals
  PROVE  OnDisk'
<1>1. Somewhere
  BY OnDiskSomewhere DEF PromiseInv
<1>2. Same \/ Commits
  BY PlacedNext DEF PromiseInv, Commits
<1>3. Somewhere'
  BY <1>1, <1>2, CommitMoves DEF Same, PromiseInv
<1>4. Placed' => (OnDisk' <=> Somewhere')
  BY DEF OnDisk, Somewhere, Placed, HasManifest, Parked
<1>. QED  BY <1>3, <1>4 DEF PromiseInv

\* Every step is one of AtomicIndex, or a stutter.
LEMMA PromiseStep ==
  ASSUME PromiseInv, [Next]_vars, "mkdir" \notin HookActs, "recover" \notin Refusals
  PROVE  [Promise!Next]_(Promise!vars)
<1>. USE DEF Promise!vars, Promise!Next
<1>1. Same \/ Commits
  BY PlacedNext DEF PromiseInv, Commits
<1>2. CASE Commits
  <2>1. UNCHANGED <<doc, gone>>
    BY <1>2 DEF Commits, Install, CommitAppend, env
  <2>2. /\ DOMAIN Recoverable'.rows = Sessions
        /\ \A s \in Sessions : Recoverable'.rows[s] \in Recoverable.rows[s]..Len(doc[s])
    BY <1>2, CommitMoves DEF PromiseInv
  <2>. QED  BY <2>1, <2>2 DEF Promise!Commit
<1>3. CASE Same
  <2>1. Recoverable'.rows = Recoverable.rows
    BY <1>3 DEF Same
  <2>2. Client \/ UNCHANGED <<doc, gone>>
    BY DocMoves DEF PromiseInv, TypeInv
  <2>3. CASE Client
    <3>1. PICK s \in Sessions : Say(s) \/ Delete(s)
      BY <2>3 DEF Client
    <3>2. CASE Say(s)
      <4>1. \E from \in 1..Len(doc[s]) + 1 : doc' = [doc EXCEPT ![s] = Append(@, from)]
        BY <3>2, SayGrows DEF PromiseInv, TypeInv
      <4>. QED  BY <2>1, <3>2, <4>1 DEF Say, Promise!Say
    <3>3. CASE Delete(s)
      BY <2>1, <3>3 DEF Delete, Promise!Delete
    <3>. QED  BY <3>1, <3>2, <3>3
  <2>. QED  BY <2>1, <2>2, <2>3
<1>. QED  BY <1>1, <1>2, <1>3

\* IndexStore implements AtomicIndex (PromiseKept): whatever is killed or refused,
\* the index a lock taker recovers moves from one commit to a later one in one
\* step and never back, and keeps the sessions whose transcript is gone.
THEOREM RecoverableOnlyAdvances ==
  ASSUME "mkdir" \notin HookActs, "recover" \notin Refusals
  PROVE  Spec => PromiseKept
<1>1. Init => Promise!Init
  <2>1. Init => Parked = {}
    BY DEF Init, Parked
  <2>. QED  BY <2>1 DEF Init, Recoverable, Hollow, Promise!Init
<1>2. PromiseInv /\ [Next]_vars => PromiseInv'
  BY PromiseNext
<1>3. PromiseInv /\ [Next]_vars => [Promise!Next]_(Promise!vars)
  BY PromiseStep
<1>. QED  BY PromiseInit, <1>1, <1>2, <1>3, PTL DEF Spec, PromiseKept, Promise!Spec

\* Once an index was committed the disk always holds one, in its place or parked
\* (CopyRemains): swapIndexDir's promise, at every step of every holder.
THEOREM CopyAlwaysRemains ==
  ASSUME "mkdir" \notin HookActs, "recover" \notin Refusals
  PROVE  Spec => CopyRemains
<1>1. PromiseInv /\ [Next]_vars => PromiseInv'
  BY PromiseNext
<1>2. PromiseInv /\ PromiseInv' /\ [Next]_vars => [OnDisk => OnDisk']_vars
  BY CopyStep
<1>. QED  BY PromiseInit, <1>1, <1>2, PTL DEF Spec, CopyRemains

-----------------------------------------------------------------------------
(* The text of the hooks.                                                   *)

\* What a hook's directory in the way cannot disturb of Placed: past recovery
\* nothing is parked unless dir is there, the copy a swap parked is the newest, so
\* that it is the one that comes back, and its text has gone into dir.tmp before the
\* rename.
Carrying ==
  /\ pc \in Lockable => live # NoDir \/ Parked = {}
  /\ pc = "park" => \A n \in Parked : n < job.spot
  /\ pc \in {"carry", "install", "restore"} =>
       /\ Parked # {} => job.spot \in Parked
       /\ \A n \in Parked : n <= job.spot
  /\ pc = "install" /\ job.spot \in Parked => ~parked[job.spot].deferred

\* The inductive invariant.
CarriageInv == TypeInv /\ Carrying

\* InReach, by place.
TextAt ==
  \/ live # NoDir /\ live.deferred
  \/ live = NoDir /\ Parked # {} /\ parked[Newest].deferred
  \/ pc = "install" /\ live = NoDir /\ tmp.deferred

\* What every step but the taking, the making of a directory and a kill does.
Follows == Carrying' /\ (TextAt => TextAt')

\* A hook finds the text in one of these places, before a step and after it.
LEMMA InReachIs == (InReach <=> TextAt) /\ (InReach' <=> TextAt')
<1>1. ~Hollow.deferred /\ ~(Hollow.deferred)'
  BY DEF Hollow
<1>2. InReach <=> TextAt
  BY <1>1 DEF InReach, TextAt, Recoverable
<1>3. InReach' <=> TextAt'
  BY <1>1 DEF InReach, TextAt, Recoverable
<1>. QED  BY <1>2, <1>3

\* A step that leaves the directories where they are, and the text of dir alone,
\* away from the swap.
LEMMA TextStays ==
  ASSUME Carrying, pc \notin {"carry", "install", "restore"},
         pc' \notin {"park", "carry", "install", "restore"},
         pc' \in Lockable => pc \in Lockable \/ live # NoDir \/ Parked = {},
         parked' = parked,
         live' = live \/ (live # NoDir /\ live' # NoDir /\ live'.deferred = live.deferred)
  PROVE  Follows
<1>1. Parked' = Parked /\ Newest' = Newest
  BY DEF Parked, Newest
<1>. QED  BY <1>1 DEF Follows, Carrying, TextAt

\* Clearing parked copies takes no text, for dir is there or they are none.
LEMMA TextCleared ==
  ASSUME pc' \notin {"park", "carry", "install", "restore"}, live # NoDir \/ Parked = {},
         live' = live, NEW stay, parked' = Cleared(stay), pc # "install"
  PROVE  Follows
<1>1. Parked' \subseteq Parked
  BY DEF Parked, Cleared
<1>. QED  BY <1>1 DEF Follows, Carrying, TextAt

\* The newest copy comes back to its place with its text.
LEMMA TextBack ==
  ASSUME pc' \notin {"park", "carry", "install", "restore"}, pc # "install",
         live = NoDir, NEW n \in Parked, \A k \in Parked : k <= n, live' = parked[n]
  PROVE  Follows
<1>1. Newest = n /\ live' # NoDir
  BY NewestIs DEF Parked
<1>. QED  BY <1>1 DEF Follows, Carrying, TextAt

\* The holder's recovery, the marks and the scrub leave the text where it is.
LEMMA TextRecovers ==
  ASSUME TypeInv, Carrying, "recover" \notin Refusals,
         Recover \/ Leave \/ Scrub \/ Lock \/ Fail
  PROVE  Follows
<1>. USE TypeInv, DirFields, NoDirAssumption, ConstantsAssumption
     DEF TypeInv, TypeOK, env, disk, count
<1>1. CASE Lock \/ CutTail \/ NothingToCut \/ Rescrub \/ DropStaging \/ Leave \/ Fail \/ ScrubStops
  <2>1. /\ pc \notin {"carry", "install", "restore"} /\ UNCHANGED <<live, parked>>
        /\ pc' \notin {"park", "carry", "install", "restore"}
        /\ pc' \in Lockable => pc \in Lockable \/ live # NoDir
    BY <1>1 DEF Lock, CutTail, NothingToCut, Rescrub, DropStaging, Leave, Sweep, Fail, Abandon,
         ScrubStops, ScrubDone, Lockable, Present
  <2>. QED  BY <2>1, TextStays
<1>2. CASE RecoverPresent
  <2>1. /\ pc # "install" /\ pc' = "untail" /\ live' = live /\ live # NoDir
        /\ \E stay \in MayStay : parked' = Cleared(stay)
    BY <1>2 DEF RecoverPresent
  <2>. QED  BY <2>1, TextCleared
<1>3. CASE RecoverMissing
  <2>1. pc = "recover" /\ pc' = "untail" /\ live = NoDir
    BY <1>3 DEF RecoverMissing
  <2>2. CASE Parked # {}
    <3>1. live' = parked[Newest]
      BY <1>3, <2>2 DEF RecoverMissing
    <3>2. Newest \in Parked /\ \A k \in Parked : k <= Newest
      BY <2>2, NewestType DEF Parked
    <3>. QED  BY <2>1, <3>1, <3>2, TextBack
  <2>3. CASE Parked = {}
    BY <1>3, <2>1, <2>3, TextStays DEF RecoverMissing, Lockable
  <2>. QED  BY <2>2, <2>3
<1>4. CASE Unmark \/ BlankWords \/ Unscrub
  <2>1. /\ pc \notin {"carry", "install", "restore"} /\ parked' = parked
        /\ pc' \notin {"park", "carry", "install", "restore"}
        /\ pc' \in Lockable => pc \in Lockable \/ live # NoDir
    BY <1>4 DEF Unmark, BlankWords, Unscrub, ScrubDone, Lockable, Present
  <2>2. ASSUME live \in Dir, NEW n \in Nat, NEW P \in SUBSET Nat
        PROVE  /\ [live EXCEPT !.pend = n] \in Dir /\ [live EXCEPT !.scrub = FALSE] \in Dir
               /\ [live EXCEPT !.posted = P] \in Dir
               /\ [live EXCEPT !.pend = n].deferred = live.deferred
               /\ [live EXCEPT !.scrub = FALSE].deferred = live.deferred
               /\ [live EXCEPT !.posted = P].deferred = live.deferred
    <3>1. /\ [live EXCEPT !.pend = n].deferred = live.deferred
          /\ [live EXCEPT !.scrub = FALSE].deferred = live.deferred
          /\ [live EXCEPT !.posted = P].deferred = live.deferred
      BY <2>2 DEF Dir
    <3>. QED  BY ONLY <2>2, <3>1, DirMarks
  <2>3. live' = live \/ (live # NoDir /\ live' # NoDir /\ live'.deferred = live.deferred)
    <3>1. CASE Unmark
      BY <3>1, <2>2 DEF Unmark
    <3>2. CASE BlankWords
      <4>. DEFINE P == live.posted \ {o \in job.dead : logs[live.log][o] # Erased}
      <4>1. live \in Dir /\ P \in SUBSET Nat /\ live' = [live EXCEPT !.posted = P]
        BY <3>2 DEF BlankWords, Present
      <4>. HIDE DEF P
      <4>. QED  BY <4>1, <2>2
    <3>3. CASE Unscrub
      <4>1. live \in Dir /\ live' = [live EXCEPT !.scrub = FALSE] /\ {} \in SUBSET Nat /\ 0 \in Nat
        BY <3>3 DEF Unscrub, Present
      <4>. QED  BY <4>1, <2>2
    <3>. QED  BY <1>4, <3>1, <3>2, <3>3
  <2>. QED  BY <2>1, <2>3, TextStays
<1>5. CASE ZeroRecord
  BY <1>5, TextStays DEF ZeroRecord, Lockable
<1>. QED
  BY ONLY Recover \/ Leave \/ Scrub \/ Lock \/ Fail, <1>1, <1>2, <1>3, <1>4, <1>5 DEF Recover, Scrub

\* A pass leaves dir where it is until it swaps.
LEMMA TextWaits ==
  ASSUME TypeInv, Carrying, Begin \/ WriteRecord \/ Seal \/ CommitAppend
  PROVE  Follows
<1>. USE TypeInv, DirFields, NoDirAssumption, ConstantsAssumption
     DEF TypeInv, TypeOK, env, disk, count
<1>1. CASE Begin
  <2>1. ASSUME NEW l \in LogIds, NEW todo, NEW rows, StartLog(l, todo, rows), CanBegin
        PROVE  Follows
    BY <2>1, TextStays DEF StartLog, CanBegin, Lockable
  <2>2. ASSUME NEW S \in SUBSET Sessions, ReplaceAppending(S)
        PROVE  Follows
    <3>1. /\ pc = "ready" /\ pc' = "write" /\ parked' = parked
          /\ live \in Dir /\ live' = [live EXCEPT !.pend = live.size]
      BY <2>2 DEF ReplaceAppending, CanBegin, Intact, HasManifest
    <3>2. live' \in Dir /\ live'.deferred = live.deferred
      BY <3>1 DEF Dir
    <3>. QED  BY <3>1, <3>2, TextStays DEF Lockable
  <2>3. ASSUME NEW S \in SUBSET Sessions, AppendInPlace(S)
        PROVE  Follows
    BY <2>3, TextStays DEF AppendInPlace, CanBegin, Lockable
  <2>4. CASE WriteMetadata
    <3>1. /\ live \in Dir
          /\ live' = [live EXCEPT !.stamp = writes + 1,
                         !.size = IF live.size > 0 THEN live.size ELSE Len(LogOf(live))]
          /\ pc = "ready" /\ pc' = "idle" /\ parked' = parked
      BY <2>4 DEF WriteMetadata, HasManifest, CanBegin
    <3>2. live'.deferred = live.deferred
      BY <3>1 DEF Dir
    <3>3. live' # NoDir
      <4>1. /\ (IF live.size > 0 THEN live.size ELSE Len(LogOf(live))) \in Nat
            /\ writes + 1 \in Nat
        BY <3>1, LogOfType, LenProperties
      <4>2. live' \in Dir
        BY ONLY <3>1, <4>1, DirRestamped
      <4>. QED  BY <4>2
    <3>. QED  BY <3>1, <3>2, <3>3, TextStays DEF Lockable
  <2>5. CASE \E l \in LogIds \ Linked : \/ Rebuild(l)
                                        \/ \E S \in SUBSET Sessions : ReplaceWhole(l, S)
    BY <2>1, <2>5 DEF Rebuild, ReplaceWhole
  <2>. QED  BY <1>1, <2>2, <2>3, <2>4, <2>5 DEF Begin
<1>2. CASE WriteRecord
  BY <1>2, TextStays DEF WriteRecord, Lockable
<1>3. CASE Seal
  BY <1>3, TextStays DEF Seal, Lockable
<1>4. CASE CommitAppend
  <2>1. live \in Dir /\ live' \in Dir /\ pc = "write" /\ pc' = "idle" /\ parked' = parked
    BY <1>4, CommitAppendType DEF CommitAppend, Present, HasManifest
  <2>2. live'.deferred = live.deferred
    BY <1>4, <2>1 DEF CommitAppend, Dir
  <2>. QED  BY <2>1, <2>2, TextStays DEF Lockable
<1>. QED  BY ONLY Begin \/ WriteRecord \/ Seal \/ CommitAppend, <1>1, <1>2, <1>3, <1>4

\* The spot to park in is past every copy that stays.
LEMMA SpotPast ==
  ASSUME TypeInv, ClearSpot
  PROVE  \A n \in Parked' : n < job'.spot
<1>1. PICK stay \in MayStay :
        /\ parked' = Cleared(stay)
        /\ job' = [job EXCEPT !.spot = IF stay = {} THEN 0
                      ELSE 1 + CHOOSE n \in stay : \A k \in stay : k <= n]
  BY DEF ClearSpot
<1>2. \A n \in Parked' : n \in stay
  BY <1>1 DEF Parked, Cleared
<1>3. stay \subseteq Spots /\ MaxParked \in Nat
  BY ConstantsAssumption DEF MayStay, Parked
<1>4. CASE stay = {}
  BY <1>2, <1>4
<1>5. CASE stay # {}
  <2>. DEFINE top == CHOOSE n \in stay : \A k \in stay : k <= n
  <2>1. \E n \in stay : \A k \in stay : k <= n
    BY <1>3, <1>5, GreatestExists DEF Spots
  <2>2. top \in stay /\ \A k \in stay : k <= top
    BY <2>1
  <2>3. job'.spot = 1 + top
    BY <1>1, <1>5 DEF TypeInv, TypeOK, Job
  <2>. HIDE DEF top
  <2>4. top \in Nat /\ \A n \in stay : n \in Nat
    BY <1>3, <2>2 DEF Spots
  <2>5. \A n \in stay : n < 1 + top
    <3>1. TAKE n \in stay
    <3>2. n \in Nat /\ top \in Nat /\ n <= top
      BY <2>2, <2>4
    <3>. QED  BY ONLY <3>2
  <2>. QED  BY ONLY <1>2, <2>3, <2>5
<1>. QED  BY <1>4, <1>5

\* swapIndexDir takes the text along, and back where a rename is refused.
LEMMA TextSwaps ==
  ASSUME TypeInv, Carrying,
         ClearSpot \/ Park \/ CarryState \/ Install \/ InstallRefused \/ Restore \/ Tidy
  PROVE  Follows
<1>. USE TypeInv, DirFields, NoDirAssumption, ConstantsAssumption
     DEF TypeInv, TypeOK, env, disk, count
<1>1. CASE ClearSpot
  <2>1. /\ pc = "clear" /\ pc' = "park" /\ live' = live
        /\ \E stay \in MayStay : parked' = Cleared(stay)
    BY <1>1 DEF ClearSpot
  <2>2. live # NoDir \/ Parked = {}
    BY <2>1 DEF Carrying, Lockable
  <2>3. Parked' \subseteq Parked
    BY <2>1 DEF Parked, Cleared
  <2>4. \A n \in Parked' : n < job'.spot
    BY <1>1, SpotPast
  <2>. QED  BY <2>1, <2>2, <2>3, <2>4 DEF Follows, Carrying, TextAt
<1>2. CASE Tidy
  <2>1. /\ pc = "tidy" /\ pc' \in {"words", "idle"} /\ live' = live /\ live # NoDir
        /\ \E stay \in MayStay : parked' = Cleared(stay)
    BY <1>2 DEF Tidy, Present
  <2>. QED  BY <2>1, TextCleared
<1>3. CASE Park
  <2>0. pc = "park" /\ pc' = "carry" /\ live' = NoDir /\ job' = job /\ job.spot \in Spots
    BY <1>3, JobFields DEF Park
  <2>1. CASE live = NoDir
    <3>1. parked' = parked /\ Parked = {}
      BY <1>3, <2>0, <2>1 DEF Park, Carrying, Lockable
    <3>2. Parked' = {}
      BY <3>1 DEF Parked
    <3>. QED  BY <2>0, <2>1, <3>1, <3>2 DEF Follows, Carrying, TextAt, Lockable
  <2>2. CASE live # NoDir
    <3>1. parked' = [parked EXCEPT ![job.spot] = live]
      BY <1>3, <2>2 DEF Park
    <3>2. Parked' = Parked \union {job.spot} /\ parked'[job.spot] = live
      BY <2>0, <2>2, <3>1 DEF Parked
    <3>3. job.spot \in Nat /\ \A n \in Parked : n \in Nat /\ n < job.spot
      BY <2>0 DEF Parked, Spots, Carrying
    <3>4. \A n \in Parked' : n <= job.spot /\ n \in Nat
      BY ONLY <3>2, <3>3
    <3>5. Newest' = job.spot
      BY ONLY <3>2, <3>3, <3>4 DEF Newest
    <3>. QED  BY <2>0, <2>2, <3>2, <3>4, <3>5 DEF Follows, Carrying, TextAt, Lockable
  <2>. QED  BY <2>1, <2>2
<1>4. CASE CarryState
  <2>0. /\ pc = "carry" /\ pc' = "install" /\ live' = live /\ tmp \in Dir /\ job' = job
        /\ job.spot \in Spots /\ (Parked # {} => job.spot \in Parked)
        /\ \A n \in Parked : n <= job.spot
    BY <1>4, JobFields DEF CarryState, Present, Carrying
  <2>1. CASE parked[job.spot] # NoDir /\ parked[job.spot].deferred
    <3>. DEFINE d == [parked[job.spot] EXCEPT !.deferred = FALSE]
    <3>1. /\ parked' = [parked EXCEPT ![job.spot] = d]
          /\ tmp' = [tmp EXCEPT !.deferred = TRUE]
      BY <1>4, <2>1, Zenon DEF CarryState
    <3>0. parked[job.spot] \in Dir
      BY <2>0, <2>1
    <3>2. d # NoDir /\ ~d.deferred
      BY <3>0, DirDeferred
    <3>3. tmp'.deferred
      BY <2>0, <3>1, DirDeferred
    <3>. HIDE DEF d
    <3>4. Parked' = Parked /\ parked'[job.spot] = d
      BY <2>0, <2>1, <3>1, <3>2 DEF Parked
    <3>. QED  BY <2>0, <3>2, <3>3, <3>4 DEF Follows, Carrying, TextAt, Lockable
  <2>2. CASE ~(parked[job.spot] # NoDir /\ parked[job.spot].deferred)
    <3>1. UNCHANGED <<parked, tmp>>
      BY <1>4, <2>2 DEF CarryState
    <3>2. Parked' = Parked /\ (Parked # {} => ~parked[job.spot].deferred)
      BY <2>0, <2>2, <3>1 DEF Parked
    <3>3. Parked # {} => Newest = job.spot
      BY <2>0, NewestIs
    <3>. QED  BY <2>0, <3>1, <3>2, <3>3 DEF Follows, Carrying, TextAt, Lockable
  <2>. QED  BY <2>1, <2>2
<1>5. CASE Install
  <2>1. /\ pc = "install" /\ pc' = "tidy" /\ live = NoDir /\ live' = tmp /\ tmp # NoDir
    BY <1>5 DEF Install, Present
  <2>2. Parked # {} => Newest = job.spot /\ ~parked[job.spot].deferred
    BY <2>1, NewestIs DEF Carrying
  <2>. QED  BY <2>1, <2>2 DEF Follows, Carrying, TextAt, Lockable
<1>6. CASE InstallRefused
  <2>0. /\ pc = "install" /\ pc' = "restore" /\ live' = live /\ tmp \in Dir /\ job' = job
        /\ job.spot \in Spots /\ (Parked # {} => job.spot \in Parked)
        /\ \A n \in Parked : n <= job.spot
    BY <1>6, JobFields DEF InstallRefused, Present, Carrying
  <2>1. CASE tmp.deferred
    <3>. DEFINE d == [parked[job.spot] EXCEPT !.deferred = TRUE]
    <3>1. parked' = [parked EXCEPT ![job.spot] = d]
      BY <1>6, <2>1, Zenon DEF InstallRefused
    <3>2. parked[job.spot] \in Dir
      BY <2>0, <2>1 DEF Present
    <3>3. d # NoDir /\ d.deferred
      BY <3>2, DirDeferred
    <3>. HIDE DEF d
    <3>4. Parked' = Parked /\ parked'[job.spot] = d /\ job.spot \in Parked
      BY <2>0, <3>1, <3>2, <3>3 DEF Parked
    <3>5. Newest' = Newest
      BY <3>4 DEF Newest
    <3>6. Newest = job.spot
      BY <2>0, <3>4, NewestIs
    <3>. QED  BY <2>0, <3>3, <3>4, <3>5, <3>6 DEF Follows, Carrying, TextAt, Lockable
  <2>2. CASE ~tmp.deferred
    <3>1. parked' = parked
      BY <1>6, <2>2 DEF InstallRefused
    <3>2. Parked' = Parked /\ Newest' = Newest
      BY <3>1 DEF Parked, Newest
    <3>. QED  BY <2>0, <2>2, <3>1, <3>2 DEF Follows, Carrying, TextAt, Lockable
  <2>. QED  BY <2>1, <2>2
<1>7. CASE Restore
  <2>1. pc = "restore" /\ pc' \in {"undo", "idle"}
    BY <1>7 DEF Restore, Abandon
  <2>2. CASE live = NoDir /\ parked[job.spot] # NoDir /\ live' = parked[job.spot]
    <3>1. job.spot \in Parked /\ \A n \in Parked : n <= job.spot
      BY <2>1, <2>2, JobFields DEF Parked, Carrying
    <3>. QED  BY <2>1, <2>2, <3>1, TextBack
  <2>3. CASE UNCHANGED <<live, parked>>
    <3>1. Parked' = Parked /\ Newest' = Newest
      BY <2>3 DEF Parked, Newest
    <3>. QED  BY <2>1, <2>3, <3>1 DEF Follows, Carrying, TextAt, Lockable
  <2>. QED  BY <1>7, <2>2, <2>3 DEF Restore
<1>. QED
  BY ONLY ClearSpot \/ Park \/ CarryState \/ Install \/ InstallRefused \/ Restore \/ Tidy,
          <1>1, <1>2, <1>3, <1>4, <1>5, <1>6, <1>7

\* What a hook, a client or a kill does leaves the copies where they are.
LEMMA CarryingKept ==
  ASSUME Carrying, parked' = parked, pc' \in {pc, "idle"}, job' = job \/ pc' = "idle",
         live # NoDir => live' # NoDir
  PROVE  Carrying'
<1>1. Parked' = Parked
  BY DEF Parked
<1>2. CASE pc' = "idle"
  BY <1>2 DEF Carrying, Lockable
<1>3. CASE pc' = pc /\ job' = job
  BY <1>1, <1>3 DEF Carrying
<1>. QED  BY <1>2, <1>3

\* Every step keeps the invariant, and the text in reach but for the exceptions.
LEMMA CarriageNext ==
  ASSUME CarriageInv, [Next]_vars, "recover" \notin Refusals
  PROVE  /\ CarriageInv'
         /\ InReach /\ ~InReach' => Take \/ MakeHollow \/ (pc = "install" /\ Crash)
<1>0. TypeInv /\ Carrying /\ TypeInv'
  BY TypeNext DEF CarriageInv
<1>. SUFFICES /\ Carrying'
              /\ (TextAt => TextAt') \/ Take \/ MakeHollow \/ (pc = "install" /\ Crash)
  BY <1>0, InReachIs DEF CarriageInv
<1>1. CASE Client \/ UNCHANGED vars
  <2>1. UNCHANGED <<live, tmp, parked, pc, job>>
    BY <1>1 DEF Client, Say, Delete, vars, disk
  <2>2. Parked' = Parked /\ Newest' = Newest
    BY <2>1 DEF Parked, Newest
  <2>. QED  BY <1>0, <2>1, <2>2, CarryingKept DEF TextAt
<1>2. CASE Take \/ MakeHollow
  <2>1. parked' = parked /\ pc' = pc /\ job' = job /\ live' # NoDir
    <3>1. CASE Take
      BY <1>0, <3>1, DirDeferred DEF Take, TypeInv, TypeOK
    <3>2. CASE MakeHollow
      BY <3>2, HollowType DEF MakeHollow
    <3>. QED  BY <1>2, <3>1, <3>2
  <2>. QED  BY <1>0, <1>2, <2>1, CarryingKept
<1>3. CASE Defer
  <2>1. live # NoDir /\ live' # NoDir /\ live'.deferred /\ UNCHANGED <<parked, pc, job>>
    BY <1>0, <1>3, DirDeferred DEF Defer, TypeInv, TypeOK
  <2>. QED  BY <1>0, <2>1, CarryingKept DEF TextAt
<1>4. CASE Crash
  <2>1. UNCHANGED <<live, tmp, parked>> /\ pc' = "idle"
    BY <1>4 DEF Crash, disk
  <2>2. Parked' = Parked /\ Newest' = Newest
    BY <2>1 DEF Parked, Newest
  <2>. QED  BY <1>0, <1>4, <2>1, <2>2, CarryingKept DEF TextAt
<1>5. CASE Lock \/ Holder
  <2>1. CASE Recover \/ Leave \/ Scrub \/ Lock \/ Fail
    BY <1>0, <2>1, TextRecovers DEF Follows
  <2>2. CASE Begin \/ WriteRecord \/ Seal \/ CommitAppend
    BY <1>0, <2>2, TextWaits DEF Follows
  <2>3. CASE ClearSpot \/ Park \/ CarryState \/ Install \/ InstallRefused \/ Restore \/ Tidy
    BY <1>0, <2>3, TextSwaps DEF Follows
  <2>. QED  BY ONLY <1>5, <2>1, <2>2, <2>3 DEF Holder, Commit
<1>. QED  BY ONLY [Next]_vars, HookDoes, <1>1, <1>2, <1>3, <1>4, <1>5 DEF Next

\* Text a hook left stays where a hook will find it (DeferredTextMoves): every
\* swap carries it, a refused rename moves it back and recoverIndexDir brings it
\* back, also where deferText or requestWarmup made the directory in the middle of
\* a swap.  The one hypothesis: no restore is refused to the process that recovers.
THEOREM TextMovesAlong ==
  ASSUME "recover" \notin Refusals
  PROVE  Spec => DeferredTextMoves
<1>1. Init => CarriageInv
  <2>1. Init => Carrying
    BY DEF Init, Carrying, Lockable
  <2>. QED  BY <2>1, TypeInit DEF CarriageInv
<1>2. CarriageInv /\ [Next]_vars
        => /\ CarriageInv'
           /\ [InReach /\ ~InReach' => Take \/ MakeHollow \/ (pc = "install" /\ Crash)]_vars
  BY CarriageNext
<1>. QED  BY <1>1, <1>2, PTL DEF Spec, DeferredTextMoves
=============================================================================
