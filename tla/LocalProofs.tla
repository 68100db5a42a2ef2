---------------------------- MODULE LocalProofs -----------------------------
(***************************************************************************)
(* What Forgetting, KeptFresh and TranscriptIngest promise: three parts    *)
(* that share no state.                                                    *)
(* Of Forgetting, for any number of keys, processes and kills: the         *)
(* invariants of its run are proved from one that says, for each place of  *)
(* an operation, how the set it works with stands to the two copies.       *)
(* Of a verdict of KeptFresh and of the index's coverage, for any number   *)
(* of detached builds, requesters, changes and deaths: both rest on the    *)
(* index's stamp. As long as it stands still, so does what the index       *)
(* covers, and the stores only run ahead of it.                            *)
(* Of TranscriptIngest, for any number of lines, rewinds and kills and     *)
(* any undated lines: a client never writes the same byte twice, so that a *)
(* state of the file whose sample still fits, or whose time is the file's, *)
(* stands for the same lines as when it was taken.                         *)
(***************************************************************************)
EXTENDS Forgetting, KeptFresh, TranscriptIngest, FiniteSetTheorems, TLAPS

-----------------------------------------------------------------------------
(* Forgetting.                                                              *)

\* The places of a forget and those of an unforget.
ForgetPlaces == {"append", "rebuild", "mirror"}
LiftPlaces == {"lift", "write", "clear"}

\* What holds of an operation under way: its set covers whoever is gone, and is
\* the one both copies together hold, or will once it is through.
Planned(p) ==
  LET o == op[p] IN
  /\ o.at \in ForgetPlaces => /\ gone \subseteq o.set /\ o.keys \subseteq o.set
                            /\ o.keys \intersect back = {}
  /\ o.at = "append" => o.set = Dead \union o.keys
  /\ o.at \in {"rebuild", "mirror"} => o.set = Dead
  /\ o.at = "mirror" => rows \intersect o.set = {}
  /\ o.at \in LiftPlaces => /\ gone \subseteq o.set /\ o.set \subseteq Dead
                         /\ o.keys \intersect o.set = {}
  /\ o.at = "write" => config \subseteq mirror
  /\ o.at = "clear" => config = o.set
  /\ o.at \in {"write", "clear"} =>
       \A k \in disk \intersect files : k \in rows \/ k \in o.set

\* As long as nobody was killed and nothing lost, the copies agree but in the
\* step between the two of an operation.
Twins ==
  kills = 0 /\ wipes = 0 =>
    /\ (\A p \in Procs : op[p].at # "clear") => mirror \subseteq config
    /\ built /\ (\A p \in Procs : op[p].at # "rebuild") => config \subseteq mirror

\* What the invariant says of the copies and the index, the plans apart.
Copies ==
  /\ Twins
  /\ gone \subseteq Dead
  /\ ~built => rows = {}
  /\ ForgottenStaysOut
  /\ MissingIsListed
  /\ LiftedStaysLifted

\* The inductive invariant.
ForgetInv ==
  /\ ForgetTypeOK
  /\ \A p \in Procs : Planned(p)
  /\ Copies

-----------------------------------------------------------------------------
\* The start: nothing is forgotten and nobody is at work.
LEMMA ForgetInitInv == ForgetInit => ForgetInv
<1> SUFFICES ASSUME ForgetInit PROVE ForgetInv
  OBVIOUS
<1> USE DEF ForgetInit
<1>1. AtRest \in [at : Places, keys : SUBSET Keys, set : SUBSET Keys]
  BY DEF AtRest, Places
<1>2. \A p \in Procs : op[p] = AtRest /\ op[p].at = "rest"
  BY DEF AtRest
<1>3. ForgetTypeOK
  <2>1. op \in [Procs -> [at : Places, keys : SUBSET Keys, set : SUBSET Keys]]
    BY <1>1
  <2>2. kills \in 0..MaxKills /\ wipes \in 0..MaxWipes
    BY ForgetAssumption
  <2> QED
    BY <1>2, <2>1, <2>2 DEF ForgetTypeOK
<1>4. \A p \in Procs : Planned(p)
  BY <1>2 DEF Planned, ForgetPlaces, LiftPlaces
<1>5. Twins /\ gone \subseteq Dead /\ (~built => rows = {})
  BY DEF Twins, Dead
<1>6. ForgottenStaysOut /\ MissingIsListed /\ LiftedStaysLifted
  BY DEF ForgottenStaysOut, MissingIsListed, LiftedStaysLifted, Dead
<1> QED
  BY <1>3, <1>4, <1>5, <1>6 DEF ForgetInv, Copies

\* The lock admits one operation: whoever else holds a plan is at rest.
LEMMA OneAtWork ==
  ASSUME ForgetTypeOK, NEW q \in Procs, lock # q
  PROVE  op[q].at = "rest"
  BY DEF ForgetTypeOK

\* A process at rest has nothing planned.
LEMMA RestPlans ==
  ASSUME NEW q \in Procs, op'[q].at = "rest"
  PROVE  Planned(q)'
  BY DEF Planned, ForgetPlaces, LiftPlaces

\* The type is preserved by every step.
LEMMA ForgetTypeNext ==
  ASSUME ForgetTypeOK, [ForgetNext]_forgetVars
  PROVE  ForgetTypeOK'
<1> USE ForgetAssumption DEF ForgetTypeOK
<1>0. AtRest \in [at : Places, keys : SUBSET Keys, set : SUBSET Keys] /\ AtRest.at = "rest"
  BY DEF AtRest, Places
<1>1. ASSUME NEW p \in Procs, Take(p) \/ Leave(p)
      PROVE  ForgetTypeOK'
  BY <1>1 DEF Take, Leave, Holds, Index, Bounds
<1>2. ASSUME NEW p \in Procs, Update(p) \/ Build(p)
      PROVE  ForgetTypeOK'
  BY <1>2 DEF Update, Build, Rebuild, CarriedMirror, Dead, Holds, Index, Bounds
<1>3. ASSUME NEW p \in Procs, RebuildWithout(p) \/ WriteMirror(p)
      PROVE  ForgetTypeOK'
  <2>1. CASE RebuildWithout(p)
    BY <2>1 DEF RebuildWithout, Rebuild, CarriedMirror, Move, Holds, Bounds, Places
  <2>2. CASE WriteMirror(p)
    BY <1>0, <2>2 DEF WriteMirror, Finish, Holds, Bounds
  <2> QED
    BY <1>3, <2>1, <2>2
<1>4. ASSUME NEW p \in Procs, RebuildWith(p)
      PROVE  ForgetTypeOK'
  BY <1>0, <1>4 DEF RebuildWith, Rebuild, CarriedMirror, Onward, UnforgetOrder, Move, Finish,
     Holds, Index, Bounds, Places
<1>5. ASSUME NEW p \in Procs, WriteTombstones(p)
      PROVE  ForgetTypeOK'
  <2>1. op[p].set \in SUBSET Keys /\ op[p].keys \in SUBSET Keys
    OBVIOUS
  <2>2. op' = [op EXCEPT ![p].at = "clear"] /\ UNCHANGED <<lock, back>>
    BY <1>5 DEF WriteTombstones, Onward, UnforgetOrder, Move
  <2> QED
    BY <1>5, <2>1, <2>2 DEF WriteTombstones, Holds, Index, Bounds, Places
<1>6. ASSUME NEW p \in Procs, ClearMirror(p)
      PROVE  ForgetTypeOK'
  BY <1>0, <1>6 DEF ClearMirror, Onward, UnforgetOrder, Move, Finish, Holds, Index, Bounds,
     Places
<1>7. ASSUME NEW p \in Procs, NEW ks \in SUBSET Keys, Forget(p, ks)
      PROVE  ForgetTypeOK'
  BY <1>7 DEF Forget, Dead, Holds, Index, Bounds, Places
<1>8. ASSUME NEW p \in Procs, NEW ks \in SUBSET Keys, Unforget(p, ks)
      PROVE  ForgetTypeOK'
  BY <1>8 DEF Unforget, MayPlan, UnforgetOrder, Dead, Holds, Index, Bounds, Places
<1>9. ASSUME NEW p \in Procs, NEW ks \in SUBSET Keys, Kill(p, ks)
      PROVE  ForgetTypeOK'
  BY <1>0, <1>9 DEF Kill, Finish, Dead, Holds, Index, Places
<1>10. ASSUME NEW p \in Procs, NEW k \in Keys, AppendTombstones(p, k)
       PROVE  ForgetTypeOK'
  BY <1>0, <1>10 DEF AppendTombstones, Appended, Move, Finish, Dead, Holds, Index, Bounds,
     Places
<1>11. ASSUME NEW p \in Procs, NEW k \in Keys, Import(p, k)
       PROVE  ForgetTypeOK'
  BY <1>11 DEF Import, Holds, Index, Bounds
<1>12. ASSUME NEW k \in Keys, WriteTranscript(k) \/ RemoveTranscript(k)
       PROVE  ForgetTypeOK'
  BY <1>12 DEF WriteTranscript, RemoveTranscript, Index, Bounds
<1>13. ASSUME LoseConfig \/ LoseIndex
       PROVE  ForgetTypeOK'
  <2>1. wipes < MaxWipes /\ wipes' = wipes + 1 => wipes' \in 0..MaxWipes
    OBVIOUS
  <2>2. CASE LoseConfig
    BY <2>1, <2>2 DEF LoseConfig, Index
  <2>3. CASE LoseIndex
    BY <2>1, <2>3 DEF LoseIndex
  <2> QED
    BY <1>13, <2>2, <2>3
<1>14. ASSUME UNCHANGED forgetVars
       PROVE  ForgetTypeOK'
  BY <1>14 DEF forgetVars, Index, Bounds
<1> QED
  BY <1>1, <1>2, <1>3, <1>4, <1>5, <1>6, <1>7, <1>8, <1>9, <1>10, <1>11, <1>12, <1>13,
     <1>14 DEF ForgetNext

-----------------------------------------------------------------------------
(* The steps that plan nothing: they run with everybody at rest, or touch   *)
(* the stores alone.                                                        *)

\* Taking and leaving the lock change nothing but its holder.
LEMMA LockSteps ==
  ASSUME ForgetInv, NEW p \in Procs, Take(p) \/ Leave(p)
  PROVE  Copies' /\ \A q \in Procs : Planned(q)'
<1>1. UNCHANGED <<config, torn, Index, disk, op, gone, back, Bounds>>
  BY DEF Take, Leave
<1>2. Copies'
  BY <1>1 DEF ForgetInv, Copies, Twins, Dead, ForgottenStaysOut, MissingIsListed,
     LiftedStaysLifted, Index, Bounds
<1>3. \A q \in Procs : Planned(q)'
  BY <1>1 DEF ForgetInv, Copies, Planned, Dead, Index
<1> QED
  BY <1>2, <1>3

\* A transcript written is to be read again, and one removed is out of reach.
LEMMA TranscriptSteps ==
  ASSUME ForgetInv, NEW k \in Keys, WriteTranscript(k) \/ RemoveTranscript(k)
  PROVE  Copies' /\ \A q \in Procs : Planned(q)'
<1>1. /\ UNCHANGED <<config, mirror, built, rows, op, gone, back, Bounds>>
      /\ disk' \intersect files' \subseteq disk \intersect files
  BY DEF WriteTranscript, RemoveTranscript, Index
<1>2. Copies'
  BY <1>1 DEF ForgetInv, Copies, Twins, Dead, ForgottenStaysOut, MissingIsListed,
     LiftedStaysLifted, Bounds
<1>3. \A q \in Procs : Planned(q)'
  BY <1>1 DEF ForgetInv, Copies, Planned, Dead
<1> QED
  BY <1>2, <1>3

\* A pass, a build and an import keep out whatever either copy names.
LEMMA PassSteps ==
  ASSUME ForgetInv, NEW p \in Procs,
         Update(p) \/ Build(p) \/ \E k \in Keys : Import(p, k)
  PROVE  Copies' /\ \A q \in Procs : Planned(q)'
<1>1. \A q \in Procs : op[q].at = "rest"
  BY OneAtWork DEF ForgetInv, Copies, Update, Build, Import, Holds
<1>2. UNCHANGED <<config, disk, op, gone, back, Bounds>>
  BY DEF Update, Build, Import
<1>3. \A q \in Procs : Planned(q)'
  BY <1>1, <1>2, RestPlans
<1>4. mirror' \in {mirror, config \union mirror} /\ Dead' = Dead
  BY <1>2 DEF Update, Build, Import, Rebuild, CarriedMirror, Dead
<1>5. built'
  BY DEF Update, Build, Import, Rebuild
<1>6. rows' \intersect gone = {}
  BY DEF Update, Build, Import, Rebuild, ForgetInv, Copies, ForgottenStaysOut
<1>7. \A k \in disk' \intersect files' : k \in rows' \/ k \in Dead
  BY <1>2 DEF Update, Build, Import, Rebuild, ForgetInv, Copies, MissingIsListed
<1>8. Twins'
  <2>1. CASE Update(p) \/ \E k \in Keys : Import(p, k)
    BY <1>1, <1>2, <1>4, <2>1 DEF ForgetInv, Copies, Twins, Update, Import, Bounds
  <2>2. CASE Build(p)
    BY <1>1, <1>2, <2>2 DEF ForgetInv, Copies, Twins, Build, Rebuild, CarriedMirror, Bounds
  <2> QED
    BY <2>1, <2>2
<1> QED
  BY <1>2, <1>3, <1>4, <1>5, <1>6, <1>7, <1>8
  DEF ForgetInv, Copies, ForgottenStaysOut, MissingIsListed, LiftedStaysLifted

\* Where one directory is lost at most, the other has all the keys.
LEMMA LossSteps ==
  ASSUME MaxWipes <= 1, ForgetInv, LoseConfig \/ LoseIndex
  PROVE  Copies' /\ \A q \in Procs : Planned(q)'
<1>1. \A q \in Procs : op[q].at = "rest"
  BY OneAtWork, ForgetAssumption DEF ForgetInv, Copies, LoseConfig, LoseIndex
<1>2. kills = 0 /\ wipes = 0 /\ wipes' = 1
  BY ForgetAssumption DEF ForgetInv, Copies, ForgetTypeOK, LoseConfig, LoseIndex
<1>3. mirror \subseteq config /\ (built => config \subseteq mirror)
  BY <1>1, <1>2 DEF ForgetInv, Copies, Twins
<1>4. UNCHANGED <<disk, op, gone, back>>
  BY DEF LoseConfig, LoseIndex, Index
<1>5. \A q \in Procs : Planned(q)'
  BY <1>1, <1>4, RestPlans
<1>6. Dead' = Dead
  BY <1>3 DEF LoseConfig, LoseIndex, Dead, Index
<1>7. rows' \subseteq rows /\ files' \subseteq files /\ (~built' => rows' = {})
  BY DEF LoseConfig, LoseIndex, ForgetInv, Copies, Index
<1>8. \A k \in disk' \intersect files' : k \in rows' \/ k \in Dead
  BY <1>4 DEF LoseConfig, LoseIndex, ForgetInv, Copies, MissingIsListed, Index
<1>9. Twins'
  BY <1>2 DEF Twins
<1> QED
  BY <1>4, <1>5, <1>6, <1>7, <1>8, <1>9
  DEF ForgetInv, Copies, ForgottenStaysOut, MissingIsListed, LiftedStaysLifted

-----------------------------------------------------------------------------
(* The steps of a forget. *)

\* A forget plans for everybody either copy names, and its own keys.
LEMMA ForgetSteps ==
  ASSUME ForgetInv, NEW p \in Procs, NEW ks \in SUBSET Keys, Forget(p, ks)
  PROVE  Copies' /\ \A q \in Procs : Planned(q)'
<1>1. \A q \in Procs \ {p} : op'[q].at = "rest"
  BY OneAtWork DEF ForgetInv, ForgetTypeOK, Forget, Holds
<1>2. /\ op'[p] = [at |-> "append", keys |-> ks, set |-> Dead \union ks]
      /\ UNCHANGED <<config, mirror, built, rows, files, disk, gone, kills, wipes>>
      /\ back' = back \ ks
  BY DEF ForgetInv, ForgetTypeOK, Forget, Index, Bounds
<1>3. Planned(p)'
  BY <1>2 DEF Planned, ForgetPlaces, LiftPlaces, Dead, ForgetInv, Copies
<1>4. Copies'
  <2>1. op[p].at = "rest" /\ \A q \in Procs \ {p} : op'[q] = op[q]
    BY DEF ForgetInv, ForgetTypeOK, Forget
  <2>2. Twins'
    BY <1>2, <2>1 DEF ForgetInv, Copies, Twins
  <2> QED
    BY <1>2, <2>2 DEF ForgetInv, Copies, Dead, ForgottenStaysOut, MissingIsListed,
       LiftedStaysLifted
<1> QED
  BY <1>1, <1>3, <1>4, RestPlans

\* What a process at work does leaves the others at rest.
LEMMA OthersRest ==
  ASSUME ForgetTypeOK, NEW p \in Procs, Holds(p),
         op' = [op EXCEPT ![p] = op'[p]]
  PROVE  \A q \in Procs \ {p} : op[q].at = "rest" /\ op'[q].at = "rest"
  BY OneAtWork DEF Holds, ForgetTypeOK

\* The tombstones reach the config directory before anything leaves the index.
LEMMA AppendSteps ==
  ASSUME ForgetInv, NEW p \in Procs, NEW k \in Keys, AppendTombstones(p, k)
  PROVE  Copies' /\ \A q \in Procs : Planned(q)'
<1> DEFINE o == op[p]
<1>1. \A q \in Procs \ {p} : op[q].at = "rest" /\ op'[q].at = "rest"
  BY OthersRest DEF ForgetInv, ForgetTypeOK, AppendTombstones, Move, Finish
<1>2. /\ o.at = "append" /\ o.set = Dead \union o.keys
      /\ o.keys \intersect back = {} /\ gone \subseteq o.set
  BY DEF ForgetInv, Planned, AppendTombstones, ForgetPlaces
<1>3. /\ config' = config \union (o.keys \ Dead) /\ Dead' = o.set
      /\ UNCHANGED <<mirror, built, rows, files, disk, back, kills, wipes>>
  BY <1>2 DEF AppendTombstones, Appended, Dead, Index, Bounds
<1>4. CASE built
  <2>1. op'[p] = [o EXCEPT !.at = "rebuild"] /\ gone' = gone
    BY <1>4 DEF AppendTombstones, Move, ForgetInv, ForgetTypeOK
  <2>2. op'[p].at = "rebuild" /\ op'[p].keys = o.keys /\ op'[p].set = o.set
    BY <2>1 DEF ForgetInv, ForgetTypeOK
  <2>3. Planned(p)'
    BY <1>2, <1>3, <2>1, <2>2 DEF Planned, ForgetPlaces, LiftPlaces
  <2>4. Twins'
    BY <1>1, <1>2, <1>3, <2>2 DEF ForgetInv, Copies, Twins
  <2> QED
    BY <1>1, <1>2, <1>3, <2>1, <2>3, <2>4, RestPlans
    DEF ForgetInv, Copies, ForgottenStaysOut, MissingIsListed, LiftedStaysLifted
<1>5. CASE ~built
  <2>1. op'[p].at = "rest" /\ gone' = gone \union o.keys
    BY <1>5 DEF AppendTombstones, Finish, AtRest, ForgetInv, ForgetTypeOK
  <2>2. Twins'
    BY <1>1, <1>2, <1>3, <1>5, <2>1 DEF ForgetInv, Copies, Twins
  <2> QED
    BY <1>1, <1>2, <1>3, <1>5, <2>1, <2>2, RestPlans
    DEF ForgetInv, Copies, ForgottenStaysOut, MissingIsListed, LiftedStaysLifted
<1> QED
  BY <1>4, <1>5

\* The rebuild leaves out the whole set and takes the mirror along.
LEMMA RebuildSteps ==
  ASSUME ForgetInv, NEW p \in Procs, RebuildWithout(p)
  PROVE  Copies' /\ \A q \in Procs : Planned(q)'
<1> DEFINE o == op[p]
<1>1. \A q \in Procs \ {p} : op[q].at = "rest" /\ op'[q].at = "rest"
  BY OthersRest DEF ForgetInv, ForgetTypeOK, RebuildWithout, Move
<1>2. /\ o.at = "rebuild" /\ o.set = Dead /\ o.keys \subseteq o.set
      /\ o.keys \intersect back = {} /\ gone \subseteq o.set
  BY DEF ForgetInv, Planned, RebuildWithout, ForgetPlaces
<1>3. /\ rows' = (disk \union rows) \ o.set /\ files' = disk /\ built'
      /\ mirror' = config \union mirror /\ Dead' = Dead
      /\ UNCHANGED <<config, disk, gone, back, kills, wipes>>
  BY DEF RebuildWithout, Rebuild, CarriedMirror, Dead, Bounds
<1>4. op'[p].at = "mirror" /\ op'[p].keys = o.keys /\ op'[p].set = o.set
  BY DEF RebuildWithout, Move, ForgetInv, ForgetTypeOK
<1>5. Planned(p)'
  BY <1>2, <1>3, <1>4 DEF Planned, ForgetPlaces, LiftPlaces
<1>6. Twins'
  BY <1>1, <1>2, <1>3, <1>4 DEF ForgetInv, Copies, Twins
<1> QED
  BY <1>1, <1>2, <1>3, <1>5, <1>6, RestPlans
  DEF ForgetInv, Copies, ForgottenStaysOut, MissingIsListed, LiftedStaysLifted

\* The mirror written last says what both copies said, and the forget is through.
LEMMA MirrorSteps ==
  ASSUME ForgetInv, NEW p \in Procs, WriteMirror(p)
  PROVE  Copies' /\ \A q \in Procs : Planned(q)'
<1> DEFINE o == op[p]
<1>1. \A q \in Procs \ {p} : op[q].at = "rest" /\ op'[q].at = "rest"
  BY OthersRest DEF ForgetInv, ForgetTypeOK, WriteMirror, Finish
<1>2. /\ o.at = "mirror" /\ o.set = Dead /\ o.keys \subseteq o.set
      /\ o.keys \intersect back = {} /\ gone \subseteq o.set
      /\ rows \intersect o.set = {}
  BY DEF ForgetInv, Planned, WriteMirror, ForgetPlaces
<1>3. /\ mirror' = o.set /\ gone' = gone \union o.keys /\ Dead' = Dead
      /\ UNCHANGED <<config, built, rows, files, disk, back, kills, wipes>>
  BY <1>2 DEF WriteMirror, Dead, Bounds
<1>4. op'[p].at = "rest"
  BY DEF WriteMirror, Finish, AtRest, ForgetInv, ForgetTypeOK
<1>5. Twins'
  BY <1>1, <1>2, <1>3 DEF ForgetInv, Copies, Twins, Dead
<1> QED
  BY <1>1, <1>2, <1>3, <1>4, <1>5, RestPlans
  DEF ForgetInv, Copies, ForgottenStaysOut, MissingIsListed, LiftedStaysLifted

-----------------------------------------------------------------------------
(* The steps of an unforget. *)

\* An unforget plans for what both copies name but the keys asked back.
LEMMA UnforgetSteps ==
  ASSUME ForgetInv, NEW p \in Procs, NEW ks \in SUBSET Keys, Unforget(p, ks)
  PROVE  Copies' /\ \A q \in Procs : Planned(q)'
<1>1. \A q \in Procs \ {p} : op[q].at = "rest" /\ op'[q].at = "rest"
  BY OthersRest DEF ForgetInv, ForgetTypeOK, Unforget, MayPlan
<1>2. /\ op'[p] = [at |-> "lift", keys |-> ks, set |-> Dead \ ks]
      /\ UNCHANGED <<config, mirror, built, rows, files, disk, back, kills, wipes>>
      /\ gone' = gone \ ks /\ op[p].at = "rest"
  BY DEF ForgetInv, ForgetTypeOK, Unforget, MayPlan, UnforgetOrder, Index, Bounds
<1>3. Planned(p)'
  BY <1>2 DEF Planned, ForgetPlaces, LiftPlaces, Dead, ForgetInv, Copies
<1>4. Twins'
  BY <1>1, <1>2 DEF ForgetInv, Copies, Twins
<1> QED
  BY <1>1, <1>2, <1>3, <1>4, RestPlans
  DEF ForgetInv, Copies, Dead, ForgottenStaysOut, MissingIsListed, LiftedStaysLifted

\* What is asked back is in the index before either copy gives it up.
LEMMA LiftSteps ==
  ASSUME ForgetInv, NEW p \in Procs, RebuildWith(p)
  PROVE  Copies' /\ \A q \in Procs : Planned(q)'
<1> DEFINE o == op[p]
<1>1. op' = [op EXCEPT ![p].at = "write"] /\ UNCHANGED <<lock, back>>
  BY DEF RebuildWith, Onward, UnforgetOrder, Move
<1>2. \A q \in Procs \ {p} : op[q].at = "rest" /\ op'[q].at = "rest"
  BY <1>1, OthersRest DEF ForgetInv, ForgetTypeOK, RebuildWith
<1>3. /\ o.at = "lift" /\ gone \subseteq o.set /\ o.set \subseteq Dead
      /\ o.keys \intersect o.set = {}
  BY DEF ForgetInv, Planned, RebuildWith, LiftPlaces
<1>4. /\ rows' = (disk \union rows) \ o.set /\ files' = disk /\ built'
      /\ mirror' = config \union mirror /\ Dead' = Dead
      /\ UNCHANGED <<config, disk, gone, back, kills, wipes>>
  BY <1>1 DEF RebuildWith, Rebuild, CarriedMirror, Dead, Bounds
<1>5. op'[p].at = "write" /\ op'[p].keys = o.keys /\ op'[p].set = o.set
  BY <1>1 DEF ForgetInv, ForgetTypeOK
<1>6. Planned(p)'
  BY <1>3, <1>4, <1>5 DEF Planned, ForgetPlaces, LiftPlaces
<1>7. Twins'
  BY <1>2, <1>3, <1>4, <1>5 DEF ForgetInv, Copies, Twins
<1> QED
  BY <1>2, <1>3, <1>4, <1>6, <1>7, RestPlans
  DEF ForgetInv, Copies, ForgottenStaysOut, MissingIsListed, LiftedStaysLifted

\* The config copy gives the keys up while the mirror still lists them.
LEMMA WriteSteps ==
  ASSUME ForgetInv, NEW p \in Procs, WriteTombstones(p)
  PROVE  Copies' /\ \A q \in Procs : Planned(q)'
<1> DEFINE o == op[p]
<1>1. op' = [op EXCEPT ![p].at = "clear"] /\ UNCHANGED <<lock, back>>
  BY DEF WriteTombstones, Onward, UnforgetOrder, Move
<1>2. \A q \in Procs \ {p} : op[q].at = "rest" /\ op'[q].at = "rest"
  BY <1>1, OthersRest DEF ForgetInv, ForgetTypeOK, WriteTombstones
<1>3. /\ o.at = "write" /\ gone \subseteq o.set /\ o.set \subseteq Dead
      /\ o.keys \intersect o.set = {} /\ config \subseteq mirror
      /\ \A k \in disk \intersect files : k \in rows \/ k \in o.set
  BY DEF ForgetInv, Planned, WriteTombstones, LiftPlaces
<1>4. /\ config' = o.set /\ Dead' = Dead
      /\ UNCHANGED <<mirror, built, rows, files, disk, gone, back, kills, wipes>>
  BY <1>1, <1>3 DEF WriteTombstones, Dead, Index, Bounds
<1>5. op'[p].at = "clear" /\ op'[p].keys = o.keys /\ op'[p].set = o.set
  BY <1>1 DEF ForgetInv, ForgetTypeOK
<1>6. Planned(p)'
  BY <1>3, <1>4, <1>5 DEF Planned, ForgetPlaces, LiftPlaces
<1>7. Twins'
  BY <1>2, <1>3, <1>4, <1>5 DEF ForgetInv, Copies, Twins, Dead
<1> QED
  BY <1>2, <1>3, <1>4, <1>6, <1>7, RestPlans
  DEF ForgetInv, Copies, ForgottenStaysOut, MissingIsListed, LiftedStaysLifted

\* The mirror gives them up last, and the unforget is through.
LEMMA ClearSteps ==
  ASSUME ForgetInv, NEW p \in Procs, ClearMirror(p)
  PROVE  Copies' /\ \A q \in Procs : Planned(q)'
<1> DEFINE o == op[p]
<1>1. Finish(p) /\ back' = back \union o.keys
  BY DEF ClearMirror, Onward, UnforgetOrder
<1>2. \A q \in Procs \ {p} : op[q].at = "rest" /\ op'[q].at = "rest"
  BY <1>1, OthersRest DEF ForgetInv, ForgetTypeOK, ClearMirror, Finish
<1>3. /\ o.at = "clear" /\ gone \subseteq o.set /\ o.set \subseteq Dead
      /\ o.keys \intersect o.set = {} /\ config = o.set
      /\ \A k \in disk \intersect files : k \in rows \/ k \in o.set
  BY DEF ForgetInv, Planned, ClearMirror, LiftPlaces
<1>4. /\ mirror' = o.set /\ Dead' = o.set
      /\ UNCHANGED <<config, built, rows, files, disk, gone, kills, wipes>>
  BY <1>3 DEF ClearMirror, Dead, Bounds
<1>5. op'[p].at = "rest"
  BY <1>1 DEF Finish, AtRest, ForgetInv, ForgetTypeOK
<1>6. Twins'
  BY <1>3, <1>4 DEF Twins
<1> QED
  BY <1>1, <1>2, <1>3, <1>4, <1>5, <1>6, RestPlans
  DEF ForgetInv, Copies, ForgottenStaysOut, MissingIsListed, LiftedStaysLifted

-----------------------------------------------------------------------------
(* A kill, and the theorems. *)

\* A kill leaves what the step before it left; in the append, some of the keys.
LEMMA KillSteps ==
  ASSUME ForgetInv, NEW p \in Procs, NEW written \in SUBSET Keys, Kill(p, written)
  PROVE  Copies' /\ \A q \in Procs : Planned(q)'
<1>1. \A q \in Procs : op'[q].at = "rest"
  BY OneAtWork DEF ForgetInv, ForgetTypeOK, Kill, Holds, Finish, AtRest
<1>2. kills' # 0
  BY DEF ForgetInv, ForgetTypeOK, Kill
<1>3. /\ config' = config \union written /\ Dead' = Dead \union written
      /\ UNCHANGED <<mirror, built, rows, files, disk, gone, back>>
  BY DEF Kill, Dead, Index
<1>4. written \intersect back = {}
  BY DEF ForgetInv, Planned, Kill, ForgetPlaces
<1>5. Twins'
  BY <1>2 DEF Twins
<1> QED
  BY <1>1, <1>3, <1>4, <1>5, RestPlans
  DEF ForgetInv, Copies, ForgottenStaysOut, MissingIsListed, LiftedStaysLifted

\* Every step preserves the invariant.
LEMMA ForgetInvNext ==
  ASSUME MaxWipes <= 1, ForgetInv, [ForgetNext]_forgetVars
  PROVE  ForgetInv'
<1>1. ForgetTypeOK'
  BY ForgetTypeNext DEF ForgetInv
<1>2. Copies' /\ \A q \in Procs : Planned(q)'
  <2>1. CASE UNCHANGED forgetVars
    BY <2>1 DEF forgetVars, Index, Bounds, ForgetInv, Copies, Planned, Twins, Dead,
       ForgottenStaysOut, MissingIsListed, LiftedStaysLifted
  <2>2. CASE ForgetNext
    BY <2>2, LockSteps, TranscriptSteps, PassSteps, LossSteps, ForgetSteps, AppendSteps,
       RebuildSteps, MirrorSteps, UnforgetSteps, LiftSteps, WriteSteps, ClearSteps,
       KillSteps DEF ForgetNext
  <2> QED
    BY <2>1, <2>2
<1> QED
  BY <1>1, <1>2 DEF ForgetInv

\* What the copies hold is always in the lock's hands and of its type, however
\* many keys, processes and kills there are.
THEOREM ForgettingTyped == ForgetSpec => []ForgetTypeOK
<1>1. ForgetInit => ForgetTypeOK
  BY ForgetInitInv DEF ForgetInv
<1>2. ForgetTypeOK /\ [ForgetNext]_forgetVars => ForgetTypeOK'
  BY ForgetTypeNext
<1> QED
  BY <1>1, <1>2, PTL DEF ForgetSpec

\* A forget that completed keeps its sessions out of the index through every
\* pass, rebuild, import and kill, and through the loss of one of the two
\* directories that hold the tombstones.
THEOREM ForgottenForGood ==
  ASSUME MaxWipes <= 1
  PROVE  ForgetSpec => []ForgottenStaysOut
<1>1. ForgetInit => ForgetInv
  BY ForgetInitInv
<1>2. ForgetInv /\ [ForgetNext]_forgetVars => ForgetInv'
  BY ForgetInvNext
<1>3. ForgetInv => ForgottenStaysOut
  BY DEF ForgetInv, Copies
<1> QED
  BY <1>1, <1>2, <1>3, PTL DEF ForgetSpec

\* Whatever an unforget was doing when it was killed, a session the index lacks
\* although its transcript was read is one forget --list shows.
THEOREM NothingMissingUnlisted ==
  ASSUME MaxWipes <= 1
  PROVE  ForgetSpec => []MissingIsListed
<1>1. ForgetInit => ForgetInv
  BY ForgetInitInv
<1>2. ForgetInv /\ [ForgetNext]_forgetVars => ForgetInv'
  BY ForgetInvNext
<1>3. ForgetInv => MissingIsListed
  BY DEF ForgetInv, Copies
<1> QED
  BY <1>1, <1>2, <1>3, PTL DEF ForgetSpec

\* A session asked back stays back beside every other forget and unforget.
THEOREM LiftedForGood ==
  ASSUME MaxWipes <= 1
  PROVE  ForgetSpec => []LiftedStaysLifted
<1>1. ForgetInit => ForgetInv
  BY ForgetInitInv
<1>2. ForgetInv /\ [ForgetNext]_forgetVars => ForgetInv'
  BY ForgetInvNext
<1>3. ForgetInv => LiftedStaysLifted
  BY DEF ForgetInv, Copies
<1> QED
  BY <1>1, <1>2, <1>3, PTL DEF ForgetSpec

-----------------------------------------------------------------------------
(* KeptFresh.                                                               *)

\* What a process walked and has yet to write is not behind the index: the lock
\* keeps it so for the holder, and the stamp tells for a walk made without it.
Walks ==
  /\ keep.at = "act" => keep.walked \in covered..latest
  /\ \A c \in Children : child[c].at = "build" => child[c].walked \in covered..latest
  /\ \A c \in Children : child[c].at = "lock" =>
       /\ child[c].walked <= latest /\ child[c].gen <= gen
       /\ child[c].gen = gen => covered <= child[c].walked

\* Under this stamp the index is behind, if it still has the stamp.
Behind(stamp) == stamp <= gen /\ (stamp = gen => covered < latest)

\* Whoever carries a verdict that the index is behind has its stamp.
Verdicts ==
  /\ keep.at = "publish" /\ keep.stale => Behind(keep.stamp)
  /\ verdict.stale => Behind(verdict.stamp)
  /\ query.at = "compare" => Behind(query.stamp)

\* The inductive invariant.
FreshInv == FreshTypeOK /\ Walks /\ Verdicts

\* The index and the stores go forward, the index not without its stamp.
Onwards ==
  /\ latest' \in Versions /\ latest <= latest'
  /\ covered' \in covered..latest'
  /\ gen' \in Nat /\ gen <= gen'
  /\ gen' = gen => covered' = covered

-----------------------------------------------------------------------------
\* Nothing checked yet.
LEMMA FreshInitInv == FreshInit => FreshInv
<1> SUFFICES ASSUME FreshInit PROVE FreshInv
  OBVIOUS
<1> USE FreshAssumption DEF FreshInit
<1>1. \A c \in Children : child[c] = Unborn /\ child[c].at = "rest"
  BY DEF Unborn
<1>2. keep.at = "want" /\ query.at = "rest" /\ ~verdict.stale
  BY DEF Idle, NoQuery
<1>3. FreshTypeOK
  <2>1. 0 \in Versions /\ rewrites \subseteq covered + 1..latest /\ covered \in 0..latest
    BY DEF Versions
  <2>2. child \in [Children -> [at : {"rest", "born", "look", "lock", "build", "clear"},
                                stamp : Stamps \union {NoStamp}, walked : Versions, gen : Nat]]
    BY <2>1 DEF Unborn
  <2>3. /\ keep \in [at : {"idle", "want", "walk", "act", "publish"},
                     walked : Versions, stale : BOOLEAN, stamp : Nat]
        /\ verdict \in [stale : BOOLEAN, stamp : Nat]
        /\ query \in [at : {"rest", "compare"}, stamp : Nat]
    BY <2>1 DEF Idle, NoQuery
  <2>4. deaths \in 0..MaxDeaths
    OBVIOUS
  <2> QED
    BY <1>1, <1>2, <2>1, <2>2, <2>3, <2>4 DEF FreshTypeOK
<1> QED
  BY <1>1, <1>2, <1>3 DEF FreshInv, Walks, Verdicts

\* A pass that writes what was walked at or past the index goes forward.
LEMMA WriteOnwards ==
  ASSUME FreshTypeOK, NEW walked \in covered..latest, Write(walked), latest' = latest
  PROVE  Onwards /\ rewrites' \subseteq covered' + 1..latest' /\ covered' \in 0..latest'
<1>1. /\ covered \in Nat /\ latest \in Nat /\ gen \in Nat /\ walked \in Nat
      /\ covered <= walked /\ walked <= latest /\ latest \in Versions
  BY FreshAssumption DEF FreshTypeOK, Versions
<1>2. covered' = walked /\ gen' \in {gen, gen + 1} /\ (gen' = gen => walked = covered)
  BY <1>1 DEF Write
<1>3. \A v \in rewrites' : v \in rewrites /\ walked < v
  BY DEF Write
<1>4. rewrites' \subseteq covered' + 1..latest'
  <2> SUFFICES ASSUME NEW v \in rewrites' PROVE v \in covered' + 1..latest'
    OBVIOUS
  <2>1. v \in covered + 1..latest /\ walked < v
    BY <1>3 DEF FreshTypeOK
  <2> QED
    BY <1>1, <1>2, <2>1
<1>5. Onwards /\ covered' \in 0..latest'
  BY <1>1, <1>2 DEF Onwards
<1> QED
  BY <1>4, <1>5

\* A step that leaves the stores and the index alone.
LEMMA StillOnwards ==
  ASSUME FreshTypeOK, UNCHANGED <<latest, index>>
  PROVE  Onwards
  BY FreshAssumption DEF FreshTypeOK, Versions, index, Onwards

\* A verdict outlives every step: with the stamp the coverage stands still.
LEMMA StillBehind ==
  ASSUME FreshTypeOK, Onwards, NEW stamp \in Nat, Behind(stamp)
  PROVE  Behind(stamp)'
  BY FreshAssumption DEF FreshTypeOK, Versions, Onwards, Behind

\* The type of a build and its fields.
Builds == [at : {"rest", "born", "look", "lock", "build", "clear"},
           stamp : Stamps \union {NoStamp}, walked : Versions, gen : Nat]
\* A build that is not running.
LEMMA UnbornType == Unborn \in Builds /\ Unborn.at = "rest"
  BY FreshAssumption DEF Unborn, Builds, Versions

-----------------------------------------------------------------------------
(* The type, and that the index and its stamp go forward together.          *)

\* The checks and the queries of the keeper's process.
LEMMA KeeperTyped ==
  ASSUME FreshInv,
         \/ Tick \/ CheckLocks \/ CheckGivesUp \/ CheckWalks \/ CheckActs \/ CheckFails
         \/ CheckPublishes \/ Ask \/ Answer
  PROVE  FreshTypeOK' /\ Onwards
<1> USE FreshAssumption DEF index, keeping, warming
<1> DEFINE Keeps == [at : {"idle", "want", "walk", "act", "publish"},
                     walked : Versions, stale : BOOLEAN, stamp : Nat]
<1>0. FreshTypeOK /\ 0 \in Versions /\ latest \in Versions /\ keep \in Keeps
  BY DEF FreshInv, FreshTypeOK, Versions
<1>1. CASE Tick
  BY <1>0, <1>1, StillOnwards DEF FreshTypeOK, Tick
<1>2. CASE CheckLocks
  BY <1>0, <1>2, StillOnwards DEF FreshTypeOK, CheckLocks, LockFree
<1>3. CASE CheckGivesUp
  BY <1>0, <1>3, StillOnwards DEF FreshTypeOK, CheckGivesUp
<1>4. CASE CheckWalks
  BY <1>0, <1>4, StillOnwards DEF FreshTypeOK, CheckWalks
<1>5. CASE CheckActs
  <2>1. keep' \in Keeps /\ keep'.at = "publish"
    <3>1. gen \in Nat /\ HandsOff(keep.walked) \in BOOLEAN
      BY <1>0 DEF FreshTypeOK, HandsOff
    <3>2. Idle \in Keeps
      BY <1>0 DEF Idle
    <3> QED
      BY <1>5, <3>1, <3>2 DEF CheckActs
  <2>2. Onwards /\ rewrites' \subseteq covered' + 1..latest' /\ covered' \in 0..latest'
    BY <1>0, <1>5, StillOnwards, WriteOnwards DEF CheckActs, FreshInv, Walks, FreshTypeOK
  <2> QED
    BY <1>0, <1>5, <2>1, <2>2 DEF FreshTypeOK, CheckActs, Onwards
<1>6. CASE CheckFails
  <2>1. keep' \in Keeps /\ keep'.at = "publish"
    BY <1>0, <1>6 DEF CheckFails, Idle, FreshTypeOK
  <2>2. deaths' \in 0..MaxDeaths
    BY <1>0, <1>6 DEF CheckFails, FreshTypeOK
  <2> QED
    BY <1>0, <1>6, <2>1, <2>2, StillOnwards DEF FreshTypeOK, CheckFails
<1>7. CASE CheckPublishes
  <2>1. keep' \in Keeps /\ keep'.at = "idle"
    BY <1>0, <1>7 DEF CheckPublishes, Idle
  <2>2. verdict' \in [stale : BOOLEAN, stamp : Nat]
    BY <1>0, <1>7 DEF CheckPublishes, StampOf
  <2>3. req' \in [Requesters -> {"rest", "ask", "claim", "take", "create", "spawn"}]
    BY <1>0, <1>7 DEF CheckPublishes, FreshTypeOK
  <2> QED
    BY <1>0, <1>7, <2>1, <2>2, <2>3, StillOnwards DEF FreshTypeOK, CheckPublishes
<1>8. CASE Ask
  <2>1. query' \in [at : {"rest", "compare"}, stamp : Nat]
    BY <1>0, <1>8 DEF Ask, NoQuery, FreshTypeOK
  <2> QED
    BY <1>0, <1>8, <2>1, StillOnwards DEF FreshTypeOK, Ask
<1>9. CASE Answer
  <2>1. query' \in [at : {"rest", "compare"}, stamp : Nat]
    BY <1>9 DEF Answer, NoQuery
  <2> QED
    BY <1>0, <1>9, <2>1, StillOnwards DEF FreshTypeOK, Answer
<1> QED
  BY <1>1, <1>2, <1>3, <1>4, <1>5, <1>6, <1>7, <1>8, <1>9

\* The requests and the claim.
LEMMA ClaimTyped ==
  ASSUME FreshInv,
         \/ KeeperAsks \/ Quiet
         \/ \E r \in Requesters :
              \/ HookAsks(r) \/ Create(r) \/ TakeOver(r) \/ SpawnFails(r)
              \/ \E c \in Children : Spawn(r, c)
  PROVE  FreshTypeOK' /\ Onwards
<1> USE FreshAssumption DEF index, keeping, warming
<1> DEFINE Asks == [Requesters -> {"rest", "ask", "claim", "take", "create", "spawn"}]
           Claims == [stamp : Stamps, owner : Children \union {NoChild}, quiet : BOOLEAN]
<1>0. FreshTypeOK
  BY DEF FreshInv
<1>1. \A c \in Children : child[c].stamp \in Stamps \union {NoStamp}
  BY <1>0 DEF FreshTypeOK
<1>2. NewStamp \in Stamps
  <2>1. [c \in Children |-> child[c].stamp] \in [Children -> Stamps \union {NoStamp}]
    BY <1>1
  <2>2. PICK s \in Stamps : \A c \in Children : [x \in Children |-> child[x].stamp][c] # s
    BY <2>1
  <2>3. \A c \in Children : Running(c) => child[c].stamp # s
    BY <2>2
  <2> QED
    BY <2>3 DEF NewStamp
<1>3. CASE KeeperAsks
  <2>1. req' \in Asks
    BY <1>0, <1>3 DEF KeeperAsks, Requests, FreshTypeOK
  <2> QED
    BY <1>0, <1>3, <2>1, StillOnwards DEF FreshTypeOK, KeeperAsks
<1>4. CASE Quiet
  <2>1. claim' \in Claims
    BY <1>0, <1>4 DEF Quiet, FreshTypeOK
  <2> QED
    BY <1>0, <1>4, <2>1, StillOnwards DEF FreshTypeOK, Quiet
<1>5. ASSUME NEW r \in Requesters, HookAsks(r)
      PROVE  FreshTypeOK' /\ Onwards
  <2>1. req' \in Asks
    BY <1>0, <1>5 DEF HookAsks, Requests, FreshTypeOK
  <2> QED
    BY <1>0, <1>5, <2>1, StillOnwards DEF FreshTypeOK, HookAsks
<1>6. ASSUME NEW r \in Requesters, Create(r)
      PROVE  FreshTypeOK' /\ Onwards
  <2>1. req' \in Asks
    BY <1>0, <1>6 DEF Create, Requests, FreshTypeOK
  <2>2. claim' = NoClaim \/ claim' \in Claims
    <3>1. CASE claim = NoClaim
      <4>1. claim' = [stamp |-> NewStamp, owner |-> NoChild, quiet |-> FALSE]
        BY <1>6, <3>1 DEF Create
      <4> QED
        BY <1>2, <4>1
    <3>2. CASE claim # NoClaim
      BY <1>0, <1>6, <3>2 DEF Create, FreshTypeOK
    <3> QED
      BY <3>1, <3>2
  <2> QED
    BY <1>0, <1>6, <2>1, <2>2, StillOnwards DEF FreshTypeOK, Create
<1>7. ASSUME NEW r \in Requesters, TakeOver(r)
      PROVE  FreshTypeOK' /\ Onwards
  <2>1. req' \in Asks
    BY <1>0, <1>7 DEF TakeOver, Requests, FreshTypeOK
  <2> QED
    BY <1>0, <1>7, <2>1, StillOnwards DEF FreshTypeOK, TakeOver
<1>8. ASSUME NEW r \in Requesters, SpawnFails(r)
      PROVE  FreshTypeOK' /\ Onwards
  <2>1. req' \in Asks
    BY <1>0, <1>8 DEF SpawnFails, Requests, FreshTypeOK
  <2>2. deaths' \in 0..MaxDeaths
    BY <1>0, <1>8 DEF SpawnFails, FreshTypeOK
  <2> QED
    BY <1>0, <1>8, <2>1, <2>2, StillOnwards DEF FreshTypeOK, SpawnFails
<1>9. ASSUME NEW r \in Requesters, NEW c \in Children, Spawn(r, c)
      PROVE  FreshTypeOK' /\ Onwards
  <2>1. req' \in Asks
    BY <1>0, <1>9 DEF Spawn, Requests, FreshTypeOK
  <2>2. claim' = NoClaim \/ claim' \in Claims
    BY <1>0, <1>9 DEF Spawn, FreshTypeOK
  <2>3. [Unborn EXCEPT !.at = "born",
                       !.stamp = IF claim = NoClaim THEN NoStamp ELSE claim.stamp] \in Builds
    BY <1>0, UnbornType DEF FreshTypeOK, Builds
  <2>4. child' \in [Children -> Builds] /\ \A d \in Children \ {c} : child'[d] = child[d]
    BY <1>0, <1>9, <2>3 DEF Spawn, FreshTypeOK, Builds
  <2>5. child'[c].at = "born" /\ child[c].at = "rest"
    BY <1>0, <1>9, UnbornType DEF Spawn, Running, FreshTypeOK, Builds
  <2> QED
    BY <1>0, <1>9, <2>1, <2>2, <2>4, <2>5, StillOnwards DEF FreshTypeOK, Spawn, Builds
<1> QED
  BY <1>3, <1>4, <1>5, <1>6, <1>7, <1>8, <1>9

\* A step of a build puts a build in its slot.
LEMMA ChildPut ==
  ASSUME FreshTypeOK, NEW c \in Children, NEW b \in Builds,
         child' = [child EXCEPT ![c] = b]
  PROVE  /\ child' \in [Children -> Builds] /\ child'[c] = b
         /\ \A d \in Children \ {c} : child'[d] = child[d]
  BY DEF FreshTypeOK, Builds

\* The detached builds.
LEMMA ChildTyped ==
  ASSUME FreshInv, NEW c \in Children,
         \/ ChildAdopts(c) \/ ChildLooks(c) \/ ChildLocks(c)
         \/ ChildBuilds(c) \/ ChildClears(c) \/ KillChild(c)
  PROVE  FreshTypeOK' /\ Onwards
<1> USE FreshAssumption DEF index, keeping, warming
<1> DEFINE Claims == [stamp : Stamps, owner : Children \union {NoChild}, quiet : BOOLEAN]
<1>0. /\ FreshTypeOK /\ latest \in Versions /\ gen \in Nat
      /\ child[c] \in Builds /\ child \in [Children -> Builds]
  BY DEF FreshInv, FreshTypeOK, Versions, Builds
<1>1. CASE ChildAdopts(c)
  <2>1. [Unborn EXCEPT !.at = "look", !.stamp = child[c].stamp] \in Builds
    BY <1>0, UnbornType DEF Builds
  <2>2. /\ child' \in [Children -> Builds] /\ child'[c].at = "look" /\ child[c].at = "born"
        /\ \A d \in Children \ {c} : child'[d] = child[d]
    BY <1>0, <1>1, <2>1, ChildPut, UnbornType DEF ChildAdopts, Goes, Builds
  <2>3. claim' = NoClaim \/ claim' \in Claims
    BY <1>0, <1>1 DEF ChildAdopts, Owns, FreshTypeOK
  <2> QED
    BY <1>0, <1>1, <2>2, <2>3, StillOnwards DEF FreshTypeOK, ChildAdopts, Builds
<1>2. CASE ChildLooks(c)
  <2>1. PICK b \in Builds : child' = [child EXCEPT ![c] = b] /\ b.at # "build"
    <3>1. [child[c] EXCEPT !.at = "clear"] \in Builds
      BY <1>0 DEF Builds
    <3>2. [child[c] EXCEPT !.at = "lock", !.walked = latest, !.gen = gen] \in Builds
      BY <1>0 DEF Builds
    <3>3. CASE covered = latest
      BY <1>0, <1>2, <3>1, <3>3 DEF ChildLooks, Builds
    <3>4. CASE covered # latest
      BY <1>0, <1>2, <3>2, <3>4 DEF ChildLooks, Builds
    <3> QED
      BY <3>3, <3>4
  <2>2. /\ child' \in [Children -> Builds] /\ child'[c].at # "build" /\ child[c].at = "look"
        /\ \A d \in Children \ {c} : child'[d] = child[d]
    BY <1>0, <1>2, <2>1, ChildPut DEF ChildLooks
  <2> QED
    BY <1>0, <1>2, <2>2, StillOnwards DEF FreshTypeOK, ChildLooks, Builds
<1>3. CASE ChildLocks(c)
  <2>1. PICK walked \in Versions : child' = [child EXCEPT ![c].at = "build", ![c].walked = walked]
    BY <1>0, <1>3 DEF ChildLocks, Builds
  <2>2. /\ child' \in [Children -> Builds] /\ child'[c].at = "build" /\ child[c].at = "lock"
        /\ \A d \in Children \ {c} : child'[d] = child[d]
    BY <1>0, <1>3, <2>1 DEF ChildLocks, Builds
  <2>3. keep.at \notin {"walk", "act"} /\ \A d \in Children : child[d].at # "build"
    BY <1>0, <1>3 DEF ChildLocks, LockFree, FreshTypeOK
  <2> QED
    BY <1>0, <1>3, <2>2, <2>3, StillOnwards DEF FreshTypeOK, ChildLocks, Builds
<1>4. CASE ChildBuilds(c)
  <2>1. [Unborn EXCEPT !.at = "clear", !.stamp = child[c].stamp] \in Builds
    BY <1>0, UnbornType DEF Builds
  <2>2. /\ child' \in [Children -> Builds] /\ child'[c].at = "clear" /\ child[c].at = "build"
        /\ \A d \in Children \ {c} : child'[d] = child[d]
    BY <1>0, <1>4, <2>1, ChildPut, UnbornType DEF ChildBuilds, Goes, Builds
  <2>3. holder = c /\ keep.at \notin {"walk", "act"} /\ \A d \in Children \ {c} : child[d].at # "build"
    BY <1>0, <2>2 DEF FreshTypeOK
  <2>4. Onwards /\ rewrites' \subseteq covered' + 1..latest' /\ covered' \in 0..latest'
    BY <1>0, <1>4, <2>2, WriteOnwards DEF ChildBuilds, FreshInv, Walks
  <2>5. claim' = NoClaim \/ claim' \in Claims
    BY <1>0, <1>4 DEF ChildBuilds, FreshTypeOK
  <2> QED
    BY <1>0, <1>4, <2>2, <2>3, <2>4, <2>5 DEF FreshTypeOK, ChildBuilds, Builds, Onwards
<1>5. CASE ChildClears(c)
  <2>1. /\ child' \in [Children -> Builds] /\ child'[c].at = "rest" /\ child[c].at = "clear"
        /\ \A d \in Children \ {c} : child'[d] = child[d]
    BY <1>0, <1>5, ChildPut, UnbornType DEF ChildClears
  <2>2. claim' = NoClaim \/ claim' \in Claims
    BY <1>0, <1>5 DEF ChildClears, FreshTypeOK
  <2> QED
    BY <1>0, <1>5, <2>1, <2>2, StillOnwards DEF FreshTypeOK, ChildClears, Builds
<1>6. CASE KillChild(c)
  <2>1. /\ child' \in [Children -> Builds] /\ child'[c].at = "rest"
        /\ \A d \in Children \ {c} : child'[d] = child[d]
    BY <1>0, <1>6, ChildPut, UnbornType DEF KillChild
  <2>2. deaths' \in 0..MaxDeaths
    BY <1>0, <1>6 DEF KillChild, FreshTypeOK
  <2> QED
    BY <1>0, <1>6, <2>1, <2>2, StillOnwards DEF FreshTypeOK, KillChild, Builds
<1> QED
  BY <1>1, <1>2, <1>3, <1>4, <1>5, <1>6

\* A change of the stores.
LEMMA ChangeTyped ==
  ASSUME FreshInv, NEW rewrite \in BOOLEAN, Change(rewrite)
  PROVE  FreshTypeOK' /\ Onwards
<1> USE FreshAssumption DEF index, keeping, warming
<1>1. /\ FreshTypeOK /\ latest \in Nat /\ latest' = latest + 1 /\ latest' \in Versions
      /\ covered \in Nat /\ covered <= latest /\ gen \in Nat
  BY DEF FreshInv, FreshTypeOK, Versions, Change
<1>2. rewrites' \subseteq covered' + 1..latest'
  BY <1>1 DEF Change, FreshTypeOK
<1>3. Onwards /\ covered' \in 0..latest'
  BY <1>1 DEF Change, Onwards
<1> QED
  BY <1>1, <1>2, <1>3 DEF Change, FreshTypeOK

\* Every step is typed and moves the index only onwards.
LEMMA FreshTypeNext ==
  ASSUME FreshInv, [FreshNext]_freshVars
  PROVE  FreshTypeOK' /\ Onwards
<1>1. CASE UNCHANGED freshVars
  <2>1. FreshTypeOK
    BY DEF FreshInv
  <2> QED
    BY <1>1, <2>1, StillOnwards DEF freshVars, index, keeping, warming, FreshTypeOK
<1>2. CASE FreshNext
  BY <1>2, KeeperTyped, ClaimTyped, ChildTyped, ChangeTyped DEF FreshNext
<1> QED
  BY <1>1, <1>2

-----------------------------------------------------------------------------
(* What is walked stays at or past the index. *)

\* A walk made without the lock is judged by the stamp, whatever was written since.
Unlocked(c) == child[c].at = "lock" =>
  /\ child[c].walked <= latest /\ child[c].gen <= gen
  /\ child[c].gen = gen => covered <= child[c].walked
\* A child that did not move keeps its place before the lock.
LEMMA StillUnlocked ==
  ASSUME FreshInv, Onwards, NEW c \in Children, child'[c] = child[c]
  PROVE  Unlocked(c)'
<1>1. child[c].walked \in Nat /\ child[c].gen \in Nat /\ covered \in Nat /\ gen \in Nat
      /\ latest \in Nat /\ latest' \in Nat
  BY FreshAssumption DEF FreshInv, FreshTypeOK, Versions, Onwards
<1>2. Unlocked(c)
  BY DEF FreshInv, Walks, Unlocked
<1> QED
  BY <1>1, <1>2 DEF Unlocked, Onwards

\* Where nothing is written, whoever holds the lock still holds a walk that is good.
LEMMA StillWalked ==
  ASSUME FreshInv, Onwards, covered' = covered, NEW walked \in Versions,
         walked \in covered..latest
  PROVE  walked \in covered'..latest'
  BY FreshAssumption DEF FreshInv, FreshTypeOK, Versions, Onwards

\* A walk made before the lock stays good while the stamp stands.
LEMMA WalksNext ==
  ASSUME FreshInv, FreshNext, FreshTypeOK', Onwards
  PROVE  Walks'
<1> USE DEF index, keeping, warming
<1>0. /\ FreshTypeOK /\ latest \in Versions /\ keep.walked \in Versions
      /\ \A c \in Children : child[c].walked \in Versions
  BY FreshAssumption DEF FreshInv, FreshTypeOK, Versions
<1>1. ASSUME covered' = covered, keep'.at = "act" => keep' = keep, child' = child
      PROVE  Walks'
  BY <1>0, <1>1, StillUnlocked, StillWalked DEF FreshInv, Walks, Unlocked
<1>2. CASE \E rewrite \in BOOLEAN : Change(rewrite)
  BY <1>1, <1>2 DEF Change
<1>3. CASE Tick \/ CheckLocks \/ CheckGivesUp \/ CheckFails \/ CheckPublishes \/ Ask \/ Answer
  <2>1. covered' = covered /\ child' = child
    BY <1>3 DEF Tick, CheckLocks, CheckGivesUp, CheckFails, CheckPublishes, Ask, Answer
  <2>2. keep'.at # "act" \/ keep' = keep
    BY <1>0, <1>3 DEF Tick, CheckLocks, CheckGivesUp, CheckFails, CheckPublishes, Ask, Answer,
       Idle, FreshTypeOK
  <2> QED
    BY <1>1, <2>1, <2>2
<1>4. CASE CheckWalks
  <2>1. keep'.walked = latest /\ covered' = covered /\ latest' = latest /\ child' = child
    BY <1>0, <1>4 DEF CheckWalks, FreshTypeOK
  <2>2. keep'.walked \in covered'..latest'
    BY <1>0, <2>1, FreshAssumption DEF FreshTypeOK, Versions
  <2> QED
    BY <1>0, <2>1, <2>2, StillUnlocked, StillWalked DEF FreshInv, Walks, Unlocked
<1>5. CASE CheckActs
  <2>1. keep'.at = "publish" /\ child' = child
    BY <1>5 DEF CheckActs, Idle
  <2>2. \A c \in Children : child[c].at # "build"
    BY <1>0, <1>5, FreshAssumption DEF CheckActs, FreshTypeOK
  <2> QED
    BY <2>1, <2>2, StillUnlocked DEF Walks, Unlocked
<1>6. CASE \/ KeeperAsks \/ Quiet
           \/ \E r \in Requesters : HookAsks(r) \/ Create(r) \/ TakeOver(r) \/ SpawnFails(r)
  BY <1>1, <1>6 DEF KeeperAsks, Quiet, HookAsks, Create, TakeOver, SpawnFails
<1>7. ASSUME NEW c \in Children, covered' = covered, keep' = keep,
             \A d \in Children \ {c} : child'[d] = child[d],
             child'[c].at = "build" => child'[c].walked \in covered'..latest',
             Unlocked(c)'
      PROVE  Walks'
  <2>1. \A d \in Children : Unlocked(d)'
    BY <1>7, StillUnlocked
  <2> QED
    BY <1>0, <1>7, <2>1, StillWalked DEF FreshInv, Walks, Unlocked
<1>8. ASSUME NEW r \in Requesters, NEW c \in Children, Spawn(r, c)
      PROVE  Walks'
  <2>1. child'[c].at = "born" /\ \A d \in Children \ {c} : child'[d] = child[d]
    BY <1>0, <1>8, UnbornType DEF Spawn, FreshTypeOK, Builds
  <2> QED
    BY <1>7, <1>8, <2>1 DEF Spawn, Unlocked
<1>9. ASSUME NEW c \in Children, ChildAdopts(c) \/ ChildClears(c) \/ KillChild(c)
      PROVE  Walks'
  <2>1. child'[c].at \in {"look", "rest"} /\ \A d \in Children \ {c} : child'[d] = child[d]
    <3>1. PICK b \in Builds : child' = [child EXCEPT ![c] = b] /\ b.at \in {"look", "rest"}
      <4>1. /\ [Unborn EXCEPT !.at = "look", !.stamp = child[c].stamp] \in Builds
            /\ [Unborn EXCEPT !.at = "look", !.stamp = child[c].stamp].at = "look"
        BY <1>0, UnbornType DEF FreshTypeOK, Builds
      <4> QED
        BY <1>9, <4>1, UnbornType DEF ChildAdopts, ChildClears, KillChild, Goes
    <3> QED
      BY <1>0, <3>1, ChildPut
  <2> QED
    BY <1>7, <1>9, <2>1 DEF ChildAdopts, ChildClears, KillChild, Unlocked
<1>10. ASSUME NEW c \in Children, ChildLooks(c)
       PROVE  Walks'
  <2>1. child'[c].at # "build" /\ \A d \in Children \ {c} : child'[d] = child[d]
    BY <1>0, <1>10 DEF ChildLooks, FreshTypeOK
  <2>2. child'[c].at = "lock" => child'[c].walked = latest /\ child'[c].gen = gen
    BY <1>0, <1>10 DEF ChildLooks, FreshTypeOK
  <2>3. Unlocked(c)'
    BY <1>0, <1>10, <2>2, FreshAssumption DEF Unlocked, ChildLooks, FreshTypeOK, Versions
  <2> QED
    BY <1>7, <1>10, <2>1, <2>3 DEF ChildLooks
<1>11. ASSUME NEW c \in Children, ChildLocks(c)
       PROVE  Walks'
  <2>1. PICK walked \in (IF ReusesWalk(c) THEN {child[c].walked, latest} ELSE {latest}) :
          child' = [child EXCEPT ![c].at = "build", ![c].walked = walked]
    BY <1>11 DEF ChildLocks
  <2>2. /\ child'[c].at = "build" /\ child'[c].walked = walked
        /\ \A d \in Children \ {c} : child'[d] = child[d]
    BY <1>0, <2>1 DEF FreshTypeOK
  <2>3. walked \in covered..latest
    BY <1>0, <1>11, <2>1, FreshAssumption
    DEF FreshInv, Walks, ReusesWalk, ChildLocks, FreshTypeOK, Versions
  <2> QED
    BY <1>7, <1>11, <2>2, <2>3 DEF ChildLocks, Unlocked
<1>12. ASSUME NEW c \in Children, ChildBuilds(c)
       PROVE  Walks'
  <2>1. child'[c].at = "clear" /\ \A d \in Children \ {c} : child'[d] = child[d]
    BY <1>0, <1>12, UnbornType DEF ChildBuilds, Goes, FreshTypeOK, Builds
  <2>2. keep' = keep /\ keep.at # "act" /\ \A d \in Children \ {c} : child[d].at # "build"
    BY <1>0, <1>12, FreshAssumption DEF ChildBuilds, FreshTypeOK
  <2>3. \A d \in Children : Unlocked(d)'
    BY <2>1, StillUnlocked DEF Unlocked
  <2> QED
    BY <2>1, <2>2, <2>3 DEF Walks, Unlocked
<1> QED
  BY <1>2, <1>3, <1>4, <1>5, <1>6, <1>8, <1>9, <1>10, <1>11, <1>12 DEF FreshNext

-----------------------------------------------------------------------------
(* The verdict, and the theorems. *)

\* A verdict is reached under the lock, against the index as it is then.
LEMMA VerdictsNext ==
  ASSUME FreshInv, FreshNext, FreshTypeOK', Onwards
  PROVE  Verdicts'
<1> USE DEF index, keeping, warming
<1>0. /\ FreshTypeOK /\ keep.stamp \in Nat /\ verdict.stamp \in Nat /\ query.stamp \in Nat
      /\ gen \in Nat
  BY DEF FreshInv, FreshTypeOK
<1> DEFINE Later(stamp) == stamp <= gen' /\ (stamp = gen' => covered' < latest')
<1>1. /\ keep.at = "publish" /\ keep.stale => Later(keep.stamp)
      /\ verdict.stale => Later(verdict.stamp)
      /\ query.at = "compare" => Later(query.stamp)
  <2>1. ASSUME NEW stamp \in Nat, Behind(stamp)
        PROVE  Later(stamp)
    BY <1>0, <2>1, StillBehind DEF Behind
  <2> QED
    BY <1>0, <2>1 DEF FreshInv, Verdicts
<1>2. CASE CheckActs
  <2>1. keep'.at = "publish" /\ UNCHANGED <<latest, verdict, query>>
    BY <1>2 DEF CheckActs, Idle
  <2>2. CASE HandsOff(keep.walked)
    <3>1. keep'.stamp = gen /\ UNCHANGED <<gen, covered>>
      BY <1>2, <2>2 DEF CheckActs, Idle
    <3>2. covered < latest
      BY <1>0, <2>2, FreshAssumption DEF HandsOff, FreshTypeOK, Versions
    <3> QED
      BY <1>0, <1>1, <2>1, <3>1, <3>2 DEF Verdicts, Behind
  <2>3. CASE ~HandsOff(keep.walked)
    <3>1. ~keep'.stale
      BY <1>2, <2>3 DEF CheckActs, Idle
    <3> QED
      BY <1>1, <2>1, <3>1 DEF Verdicts, Behind
  <2> QED
    BY <2>2, <2>3
<1>3. CASE CheckFails
  BY <1>1, <1>3 DEF CheckFails, Idle, Verdicts, Behind
<1>4. CASE CheckPublishes
  <2>1. verdict' = [stale |-> keep.stale, stamp |-> keep.stamp] /\ keep'.at = "idle" /\ query' = query
    BY <1>4 DEF CheckPublishes, StampOf, Idle
  <2>2. keep.at = "publish"
    BY <1>4 DEF CheckPublishes
  <2> QED
    BY <1>1, <2>1, <2>2 DEF Verdicts, Behind
<1>5. CASE Ask
  <2>1. query'.at = "compare" => verdict.stale /\ query'.stamp = verdict.stamp
    BY <1>5 DEF Ask, NoQuery
  <2> QED
    BY <1>1, <1>5, <2>1 DEF Ask, Verdicts, Behind
<1>6. CASE Answer
  BY <1>1, <1>6 DEF Answer, NoQuery, Verdicts, Behind
<1>7. CASE Tick \/ CheckLocks \/ CheckGivesUp \/ CheckWalks
  <2>1. keep'.at # "publish" /\ UNCHANGED <<verdict, query>>
    BY <1>0, <1>7 DEF Tick, CheckLocks, CheckGivesUp, CheckWalks, FreshTypeOK
  <2> QED
    BY <1>1, <2>1 DEF Verdicts, Behind
<1>8. ASSUME UNCHANGED <<keep, verdict, query>>
      PROVE  Verdicts'
  BY <1>1, <1>8 DEF Verdicts, Behind
<1>9. CASE \/ \E rewrite \in BOOLEAN : Change(rewrite)
           \/ KeeperAsks \/ Quiet
           \/ \E r \in Requesters :
                \/ HookAsks(r) \/ Create(r) \/ TakeOver(r) \/ SpawnFails(r)
                \/ \E c \in Children : Spawn(r, c)
  BY <1>8, <1>9 DEF Change, KeeperAsks, Quiet, HookAsks, Create, TakeOver, SpawnFails, Spawn
<1>10. CASE \E c \in Children : ChildAdopts(c) \/ ChildLooks(c) \/ ChildLocks(c) \/ ChildBuilds(c) \/ ChildClears(c) \/ KillChild(c)
  BY <1>8, <1>10 DEF ChildAdopts, ChildLooks, ChildLocks, ChildBuilds, ChildClears, KillChild
<1> QED
  BY <1>2, <1>3, <1>4, <1>5, <1>6, <1>7, <1>9, <1>10 DEF FreshNext

\* Every step keeps the invariant.
LEMMA FreshInvNext ==
  ASSUME FreshInv, [FreshNext]_freshVars
  PROVE  FreshInv'
<1>1. CASE UNCHANGED freshVars
  BY <1>1 DEF freshVars, index, keeping, warming, FreshInv, FreshTypeOK, Walks, Verdicts, Behind
<1>2. CASE FreshNext
  BY <1>2, FreshTypeNext, WalksNext, VerdictsNext DEF FreshInv
<1> QED
  BY <1>1, <1>2

\* The keeper, the builds, the claims and the index stay of their type, and the
\* lock is with the one that is at work under it.
THEOREM FreshTyped == FreshSpec => []FreshTypeOK
<1>1. FreshInit => FreshInv
  BY FreshInitInv
<1>2. FreshInv /\ [FreshNext]_freshVars => FreshInv'
  BY FreshInvNext
<1>3. FreshInv => FreshTypeOK
  BY DEF FreshInv
<1> QED
  BY <1>1, <1>2, <1>3, PTL DEF FreshSpec

\* A query that answers that the index is behind is right at that moment, however
\* many builds landed since the keeper found it so.
THEOREM StaleAnswersAreTrue == FreshSpec => []StaleIsTrue
<1>1. FreshInit => FreshInv
  BY FreshInitInv
<1>2. FreshInv /\ [FreshNext]_freshVars => FreshInv'
  BY FreshInvNext
<1>3. FreshInv => StaleIsTrue
  BY FreshAssumption
  DEF FreshInv, FreshTypeOK, Versions, Verdicts, Behind, StaleIsTrue, AnswersStale
<1> QED
  BY <1>1, <1>2, <1>3, PTL DEF FreshSpec

\* No keeper and no build takes the index back to an older walk, although a build
\* walks before it has the lock and others write in between.
THEOREM CoverageNeverBack == FreshSpec => CoverageOnlyGrows
<1>1. FreshInit => FreshInv
  BY FreshInitInv
<1>2. FreshInv /\ [FreshNext]_freshVars => FreshInv'
  BY FreshInvNext
<1>3. FreshInv /\ [FreshNext]_freshVars => [covered' >= covered]_freshVars
  <2> SUFFICES ASSUME FreshInv, [FreshNext]_freshVars PROVE covered' >= covered
    OBVIOUS
  <2>1. Onwards
    BY FreshTypeNext
  <2> QED
    BY <2>1, FreshAssumption DEF Onwards, FreshInv, FreshTypeOK, Versions
<1> QED
  BY <1>1, <1>2, <1>3, PTL DEF FreshSpec, CoverageOnlyGrows

-----------------------------------------------------------------------------
(* The transcript and its index.                                            *)

\* A byte the client has written: it never writes one again, after a rewind either.
Wrote(b, t, n) ==
  /\ b \in Bytes
  /\ b[1] < n \/ (b[1] = n /\ (Len(t) % 3 # 0 => b[2] <= Len(t) % 3))
Written(b) == Wrote(b, transcript, said)
AllWritten(s) == \A i \in DOMAIN s : Written(s[i])

\* The file: the three bytes of a line in order, no byte twice.
FileLaid ==
  /\ \A p \in DOMAIN transcript : transcript[p][2] = ((p - 1) % 3) + 1
  /\ \A p, r \in DOMAIN transcript : transcript[p] = transcript[r] => p = r
  /\ Len(transcript) <= 3 * said
  /\ mtime <= 3 * said + rewinds
  /\ LineOpen => /\ Len(transcript) <= 3 * (said - 1) + (Len(transcript) % 3)
                 /\ mtime <= 3 * (said - 1) + (Len(transcript) % 3) + rewinds
  /\ AllWritten(transcript)

\* States of the file and passes, of their types.
FileStates == [size : Sizes, mtime : MTimes, safe : Sizes,
               sample : [to : Sizes, bytes : Seq(Bytes)], known : BOOLEAN]
PassPlaces == {"rest", "safe", "sample", "decide", "read", "check", "commit", "manifest"}
Hows == {"none", "append", "new", "replace", "rebuild"}
Passes == [at : PassPlaces, how : Hows, walk : FileStates, read : Seq(Bytes), tries : 0..2]

\* A log no longer than its manifest commits, or one with a tail that was overlooked
\* when nothing was committed.
LogAsHeld == Len(stored) = committed \/ (overlooked /\ committed = 0)

\* What the places of a pass say of its way and of the store.
PassPlaced ==
  /\ RecordsSize = 0 /\ Len(stored) # committed /\ pass.at # "manifest" => overlooked
  /\ pass.at = "rest" => pass = Resting
  /\ pass.at \in {"safe", "sample"} => pass.how \in {"none", "new", "replace"}
  /\ pass.at = "decide" => pass.how = "none"
  /\ pass.at \in {"read", "check", "commit", "manifest"} => pass.how # "none"
  /\ pass.at = "check" => pass.how # "rebuild"
  /\ pass.at = "manifest" => pass.how \in {"append", "new"}
  /\ pass.how \in {"append", "new", "replace"} /\ pass.at # "manifest" => LogAsHeld
  /\ pass.how = "append" => held.known /\ held.safe = held.size /\ held.size < pass.walk.size
  /\ pass.how = "new" => committed = 0
  /\ ~held.known => committed = 0
  /\ pass.at # "rest" => pass.walk.known

\* Types, with what the client has not written in no place.
Typed == /\ IngestTypeOK /\ held \in FileStates /\ pass \in Passes
         /\ AllWritten(held.sample.bytes) /\ AllWritten(pass.walk.sample.bytes)
         /\ AllWritten(stored) /\ AllWritten(pass.read)
         /\ PassPlaced /\ FileLaid

\* No element twice; none in the file past n; none of another sequence.
Once(s) == \A i, j \in DOMAIN s : s[i] = s[j] => i = j
Past(s, n) == \A i \in DOMAIN s, p \in DOMAIN transcript : p > n => s[i] # transcript[p]
Others(s, t) == \A i \in DOMAIN s, j \in DOMAIN t : s[i] # t[j]

\* What is committed, read and written is once each, but for a log with a tail that
\* was overlooked; and none of it is in the file past the size it was read to, nor
\* of the log past the size a walk has stated.
OnceInv ==
  /\ overlooked \/ Once(Committed)
  /\ Past(Committed, held.size)
  /\ pass.at \in {"check", "commit"} =>
       /\ Once(pass.read) /\ Past(pass.read, pass.walk.size)
       /\ pass.how = "append" => committed = 0 \/ Others(pass.read, stored)
  /\ pass.at # "rest" => Past(stored, pass.walk.size)
  /\ pass.at = "manifest" => overlooked \/ Once(stored)

\* The sample of a state fits the file; a pass can rely on the state.
Fits(f, t) ==
  Len(t) >= f.safe /\ f.sample = [to |-> f.safe, bytes |-> SubSeq(t, 1, Least(f.safe, Len(t)))]
SureOf(f, t, m) == f.mtime = m \/ (f.safe = f.size /\ Fits(f, t))

\* Parsed, of any bytes.
LinesOf(t, from, to) ==
  LET before == (from + 2) \div 3
      upto   == (Least(to, Len(t)) + 1) \div 3
  IN  [k \in 1..(upto - before) |-> t[3 * (before + k) - 1]]

\* The state held, while a pass could rely on it, is of lines that are committed,
\* unless a tail was overlooked.
HeldIn(h, c, t, m, o) ==
  h.known => /\ h.safe <= h.size /\ h.safe % 3 = 0 /\ h.sample.to = h.safe
             /\ h.mtime = m => h.size = Len(t) /\ Fits(h, t)
             /\ SureOf(h, t, m) => o \/ c = LinesOf(t, 0, h.size)

\* So far as a pass has stated the file it stated it right.
Sampled == {"decide", "read", "check", "commit", "manifest"}
WalkIn(p, t, m) ==
  /\ p.at # "rest" /\ p.walk.mtime = m => p.walk.size = Len(t)
  /\ p.at \in Sampled \union {"sample"} => p.walk.safe <= p.walk.size /\ p.walk.safe % 3 = 0
  /\ p.at \in Sampled => /\ p.walk.sample.to = p.walk.safe
                         /\ p.walk.mtime = m => Fits(p.walk, t)

\* What a pass has read is what its walk's state stands for.
ReadIn(p, h, s, t, m, o) ==
  SureOf(p.walk, t, m) =>
    /\ p.at \in {"read", "check", "commit"} /\ p.how = "append" => Fits(h, t)
    /\ p.at \in {"check", "commit"} =>
         p.read = LinesOf(t, IF p.how = "append" THEN h.size ELSE 0, p.walk.size)
    /\ p.at = "manifest" => o \/ s = LinesOf(t, 0, p.walk.size)

\* All three, unless a walk found the file cut back under it.
TrueInv ==
  ~slipped => /\ HeldIn(held, Committed, transcript, mtime, overlooked)
              /\ WalkIn(pass, transcript, mtime)
              /\ ReadIn(pass, held, stored, transcript, mtime, overlooked)

\* A step of the client: a byte it never wrote, or a cut at the end of a line.
Grows == \E b \in Bytes : ~Written(b) /\ transcript' = Append(transcript, b)
Cut == \E n \in 0..Len(transcript) : transcript' = SubSeq(transcript, 1, n)
ClientMoves ==
  /\ Grows \/ Cut
  /\ mtime' = mtime + 1 /\ said' \in {said, said + 1}
  /\ UNCHANGED <<store, pass, bounds>>

-----------------------------------------------------------------------------
\* Thirds.
LEMMA Thirds ==
  ASSUME NEW n \in Nat
  PROVE  /\ n % 3 \in 0..2
         /\ (n + 1) % 3 = IF n % 3 = 2 THEN 0 ELSE (n % 3) + 1
         /\ (n + 1) \div 3 \in Nat /\ 3 * ((n + 1) \div 3) <= n + 1
         /\ n + 1 < 3 * ((n + 1) \div 3) + 3
         /\ (n + 2) \div 3 \in Nat /\ 3 * ((n + 2) \div 3) <= n + 2
         /\ n + 2 < 3 * ((n + 2) \div 3) + 3
         /\ n % 3 = 0 => 3 * ((n + 2) \div 3) = n
  OBVIOUS


\* The client's variables are of their types; what it wrote stays written.
ClientTyped ==
  /\ transcript \in Seq(Bytes) /\ Len(transcript) \in Sizes
  /\ mtime \in MTimes /\ said \in 0..MaxLines /\ rewinds \in 0..MaxRewinds
WrittenStays == \A b \in Bytes : Wrote(b, transcript, said) => Wrote(b, transcript', said')
Moved == ClientMoves /\ ClientTyped' /\ FileLaid' /\ WrittenStays

\* A prefix of a sequence.
LEMMA Prefix ==
  ASSUME NEW S, NEW s \in Seq(S), NEW n \in 0..Len(s)
  PROVE  /\ SubSeq(s, 1, n) \in Seq(S) /\ Len(SubSeq(s, 1, n)) = n
         /\ \A i \in 1..n : SubSeq(s, 1, n)[i] = s[i]
  OBVIOUS

\* One byte more.
LEMMA OneMore ==
  ASSUME NEW S, NEW s \in Seq(S), NEW b \in S
  PROVE  /\ Append(s, b) \in Seq(S) /\ Len(Append(s, b)) = Len(s) + 1
         /\ \A i \in 1..Len(s) : Append(s, b)[i] = s[i]
         /\ Append(s, b)[Len(s) + 1] = b
  OBVIOUS

\* What is where, after one byte more.
LEMMA MoreAt ==
  ASSUME NEW S, NEW s \in Seq(S), NEW b \in S
  PROVE  \A p \in DOMAIN Append(s, b) : \/ p \in DOMAIN s /\ Append(s, b)[p] = s[p]
                                        \/ p = Len(s) + 1 /\ Append(s, b)[p] = b
  OBVIOUS

\* A byte that begins a line is new, and the file stays laid out in lines.
LEMMA SayFresh ==
  ASSUME Typed, Say
  PROVE  Moved
<1>. DEFINE L == Len(transcript)
            b == <<said + 1, 1>>
<1>1. /\ said \in 0..MaxLines /\ said < MaxLines /\ MaxLines \in Nat /\ L \in Nat /\ L % 3 = 0 /\ L <= 3 * said
      /\ transcript \in Seq(Bytes) /\ mtime \in Nat /\ mtime <= 3 * said + rewinds /\ rewinds \in 0..MaxRewinds
      /\ MaxRewinds \in Nat
  BY IngestAssumption DEF Typed, IngestTypeOK, Say, FileLaid, LineOpen, Sizes, MTimes
<1>2. /\ said' = said + 1 /\ mtime' = mtime + 1 /\ transcript' = Append(transcript, b) /\ UNCHANGED rewinds
      /\ UNCHANGED <<store, pass, bounds>>
  BY DEF Say
<1>3. b \in Bytes /\ b[1] = said + 1 /\ b[2] = 1
  BY <1>1 DEF Bytes
<1>4. ~Written(b)
  BY <1>1, <1>3 DEF Written, Wrote
<1>5. /\ transcript' \in Seq(Bytes) /\ Len(transcript') = L + 1
      /\ \A i \in 1..L : transcript'[i] = transcript[i]
      /\ transcript'[L + 1] = b
  <2>1. transcript \in Seq(Bytes) /\ b \in Bytes /\ transcript' = Append(transcript, b)
    BY <1>1, <1>2, <1>3
  <2>. HIDE DEF b
  <2>. QED  BY <2>1, OneMore
<1>6. (L + 1) % 3 = 1
  BY <1>1, Thirds
<1>7. WrittenStays
  BY <1>1, <1>2, <1>3, <1>5, <1>6 DEF WrittenStays, Wrote, Bytes
<1>8. ClientTyped'
  <2>1. /\ L + 1 \in Nat /\ mtime + 1 \in Nat /\ L + 1 <= 3 * MaxLines /\ mtime + 1 <= 3 * MaxLines + MaxRewinds
        /\ said' \in 0..MaxLines
    BY <1>1, <1>2
  <2>2. L + 1 \in Sizes /\ mtime + 1 \in MTimes
    BY <1>1, <2>1 DEF Sizes, MTimes
  <2>3. /\ transcript' \in Seq(Bytes) /\ Len(transcript') = L + 1
    BY <1>5
  <2>. QED  BY <1>1, <1>2, <2>1, <2>2, <2>3 DEF ClientTyped
<1>9. FileLaid'
  <2>1. \A p \in DOMAIN transcript' :
          \/ p \in DOMAIN transcript /\ transcript'[p] = transcript[p]
          \/ p = L + 1 /\ transcript'[p] = b
    BY <1>1, <1>2, <1>3, MoreAt
  <2>2. \A p \in DOMAIN transcript : transcript[p][2] = ((p - 1) % 3) + 1
    BY DEF Typed, FileLaid
  <2>3. \A p, r \in DOMAIN transcript : transcript[p] = transcript[r] => p = r
    BY DEF Typed, FileLaid
  <2>4. \A p \in DOMAIN transcript : Written(transcript[p]) /\ transcript[p] \in Bytes
    BY <1>1 DEF Typed, FileLaid, AllWritten
  <2>5. \A p \in DOMAIN transcript' : transcript'[p][2] = ((p - 1) % 3) + 1
    BY <1>1, <1>3, <2>1, <2>2
  <2>6. \A p, r \in DOMAIN transcript' : transcript'[p] = transcript'[r] => p = r
    BY <1>4, <2>1, <2>3, <2>4, Zenon
  <2>7. Wrote(b, transcript', said')
    BY <1>1, <1>2, <1>3, <1>5, <1>6 DEF Wrote
  <2>8. \A p \in DOMAIN transcript' : Wrote(transcript'[p], transcript', said')
    BY <2>1, <2>4, <2>7, <1>7 DEF WrittenStays, Written
  <2>9. /\ Len(transcript') <= 3 * said' /\ mtime' <= 3 * said' + rewinds'
        /\ Len(transcript') <= 3 * (said' - 1) + (Len(transcript') % 3)
        /\ mtime' <= 3 * (said' - 1) + (Len(transcript') % 3) + rewinds'
    <3>. HIDE DEF b
    <3>. QED  BY <1>1, <1>2, <1>5, <1>6
  <2>. QED  BY <2>5, <2>6, <2>8, <2>9 DEF FileLaid, AllWritten, Written
<1>10. ClientMoves
  BY <1>2, <1>3, <1>4 DEF ClientMoves, Grows
<1>. QED  BY <1>7, <1>8, <1>9, <1>10 DEF Moved

\* So is one that goes on with a line.
LEMMA SayOnFresh ==
  ASSUME Typed, SayOn
  PROVE  Moved
<1>. DEFINE L == Len(transcript)
            b == <<said, (L % 3) + 1>>
<1>1. /\ said \in 0..MaxLines /\ MaxLines \in Nat /\ L \in Nat /\ L % 3 \in {1, 2} /\ L <= 3 * said
      /\ L <= 3 * (said - 1) + (L % 3) /\ mtime <= 3 * (said - 1) + (L % 3) + rewinds
      /\ transcript \in Seq(Bytes) /\ mtime \in Nat /\ rewinds \in 0..MaxRewinds
      /\ MaxRewinds \in Nat
  <2>1. L \in Nat /\ L % 3 \in 0..2
    BY Thirds DEF Typed, IngestTypeOK
  <2>. QED  BY <2>1, IngestAssumption DEF Typed, IngestTypeOK, SayOn, FileLaid, LineOpen, Sizes, MTimes
<1>2. /\ said' = said /\ mtime' = mtime + 1 /\ transcript' = Append(transcript, b) /\ UNCHANGED rewinds
      /\ UNCHANGED <<store, pass, bounds>>
  BY DEF SayOn
<1>3. b \in Bytes /\ b[1] = said /\ b[2] = (L % 3) + 1
  BY <1>1 DEF Bytes
<1>4. ~Written(b)
  BY <1>1, <1>3 DEF Written, Wrote
<1>5. /\ transcript' \in Seq(Bytes) /\ Len(transcript') = L + 1
      /\ \A i \in 1..L : transcript'[i] = transcript[i]
      /\ transcript'[L + 1] = b
  <2>1. transcript \in Seq(Bytes) /\ b \in Bytes /\ transcript' = Append(transcript, b)
    BY <1>1, <1>2, <1>3
  <2>. HIDE DEF b
  <2>. QED  BY <2>1, OneMore
<1>6. (L + 1) % 3 = IF L % 3 = 2 THEN 0 ELSE (L % 3) + 1
  BY <1>1, Thirds
<1>11. /\ L + 1 <= 3 * said /\ mtime + 1 <= 3 * said + rewinds
       /\ (L + 1) % 3 # 0 => /\ L + 1 <= 3 * (said - 1) + ((L + 1) % 3)
                             /\ mtime + 1 <= 3 * (said - 1) + ((L + 1) % 3) + rewinds
  <2>. DEFINE m == L % 3
  <2>1. m \in {1, 2} /\ L <= 3 * (said - 1) + m /\ mtime <= 3 * (said - 1) + m + rewinds
        /\ (L + 1) % 3 = IF m = 2 THEN 0 ELSE m + 1
    BY <1>1, <1>6
  <2>. HIDE DEF m
  <2>. QED  BY <1>1, <2>1
<1>7. WrittenStays
  BY <1>1, <1>2, <1>3, <1>5, <1>6 DEF WrittenStays, Wrote, Bytes
<1>8. ClientTyped'
  <2>1. /\ L + 1 \in Nat /\ mtime + 1 \in Nat /\ L + 1 <= 3 * MaxLines /\ mtime + 1 <= 3 * MaxLines + MaxRewinds
        /\ said' \in 0..MaxLines
    BY <1>1, <1>2, <1>11
  <2>2. L + 1 \in Sizes /\ mtime + 1 \in MTimes
    BY <1>1, <2>1 DEF Sizes, MTimes
  <2>3. /\ transcript' \in Seq(Bytes) /\ Len(transcript') = L + 1
    BY <1>5
  <2>. QED  BY <1>1, <1>2, <2>1, <2>2, <2>3 DEF ClientTyped
<1>9. FileLaid'
  <2>1. \A p \in DOMAIN transcript' :
          \/ p \in DOMAIN transcript /\ transcript'[p] = transcript[p]
          \/ p = L + 1 /\ transcript'[p] = b
    BY <1>1, <1>2, <1>3, MoreAt
  <2>2. \A p \in DOMAIN transcript : transcript[p][2] = ((p - 1) % 3) + 1
    BY DEF Typed, FileLaid
  <2>3. \A p, r \in DOMAIN transcript : transcript[p] = transcript[r] => p = r
    BY DEF Typed, FileLaid
  <2>4. \A p \in DOMAIN transcript : Written(transcript[p]) /\ transcript[p] \in Bytes
    BY <1>1 DEF Typed, FileLaid, AllWritten
  <2>5. \A p \in DOMAIN transcript' : transcript'[p][2] = ((p - 1) % 3) + 1
    <3>1. (L + 1) - 1 = L
      BY <1>1
    <3>2. b[2] = (((L + 1) - 1) % 3) + 1
      BY <1>3, <3>1
    <3>. HIDE DEF b
    <3>. QED  BY <3>2, <2>1, <2>2
  <2>6. \A p, r \in DOMAIN transcript' : transcript'[p] = transcript'[r] => p = r
    BY <1>4, <2>1, <2>3, <2>4, Zenon
  <2>7. Wrote(b, transcript', said')
    BY <1>1, <1>2, <1>3, <1>5, <1>6 DEF Wrote
  <2>8. \A p \in DOMAIN transcript' : Wrote(transcript'[p], transcript', said')
    BY <2>1, <2>4, <2>7, <1>7 DEF WrittenStays, Written
  <2>9. /\ Len(transcript') <= 3 * said' /\ mtime' <= 3 * said' + rewinds'
        /\ LineOpen' => /\ Len(transcript') <= 3 * (said' - 1) + (Len(transcript') % 3)
                        /\ mtime' <= 3 * (said' - 1) + (Len(transcript') % 3) + rewinds'
    BY <1>2, <1>5, <1>11 DEF LineOpen
  <2>. QED  BY <2>5, <2>6, <2>8, <2>9 DEF FileLaid, AllWritten, Written
<1>10. ClientMoves
  BY <1>2, <1>3, <1>4 DEF ClientMoves, Grows
<1>. QED  BY <1>7, <1>8, <1>9, <1>10 DEF Moved

\* A rewind cuts at the end of a line, and keeps what is in front of it.
LEMMA RewindFresh ==
  ASSUME Typed, NEW lines \in 0..MaxLines, Rewind(lines)
  PROVE  Moved
<1>. DEFINE n == 3 * lines
<1>1. /\ said \in 0..MaxLines /\ MaxLines \in Nat /\ Len(transcript) \in Nat /\ Len(transcript) <= 3 * said
      /\ transcript \in Seq(Bytes) /\ mtime \in Nat /\ mtime <= 3 * said + rewinds /\ rewinds \in 0..MaxRewinds
      /\ MaxRewinds \in Nat /\ rewinds < MaxRewinds
      /\ n \in 0..Len(transcript) /\ n < Len(transcript) /\ n % 3 = 0
  BY IngestAssumption DEF Typed, IngestTypeOK, Rewind, FileLaid, Sizes, MTimes
<1>2. /\ said' = said /\ mtime' = mtime + 1 /\ transcript' = SubSeq(transcript, 1, n) /\ rewinds' = rewinds + 1
      /\ UNCHANGED <<store, pass, bounds>>
  BY DEF Rewind
<1>. HIDE DEF n
<1>3. /\ transcript' \in Seq(Bytes) /\ Len(transcript') = n
      /\ \A i \in 1..n : transcript'[i] = transcript[i]
  BY <1>1, <1>2, Prefix
<1>4. WrittenStays
  BY <1>1, <1>2, <1>3 DEF WrittenStays, Wrote, Bytes
<1>5. ClientTyped'
  BY <1>1, <1>2, <1>3 DEF ClientTyped, Sizes, MTimes
<1>6. FileLaid'
  <2>1. \A p \in DOMAIN transcript' : p \in DOMAIN transcript /\ transcript'[p] = transcript[p]
    BY <1>1, <1>3
  <2>2. \A p \in DOMAIN transcript : transcript[p][2] = ((p - 1) % 3) + 1
    BY DEF Typed, FileLaid
  <2>3. \A p, r \in DOMAIN transcript : transcript[p] = transcript[r] => p = r
    BY DEF Typed, FileLaid
  <2>4. \A p \in DOMAIN transcript : Written(transcript[p]) /\ transcript[p] \in Bytes
    BY <1>1 DEF Typed, FileLaid, AllWritten
  <2>5. \A p \in DOMAIN transcript' : transcript'[p][2] = ((p - 1) % 3) + 1
    BY <2>1, <2>2
  <2>6. \A p, r \in DOMAIN transcript' : transcript'[p] = transcript'[r] => p = r
    BY <2>1, <2>3, Zenon
  <2>7. \A p \in DOMAIN transcript' : Wrote(transcript'[p], transcript', said')
    BY <2>1, <2>4, <1>4 DEF WrittenStays, Written
  <2>8. Len(transcript') <= 3 * said' /\ mtime' <= 3 * said' + rewinds' /\ ~LineOpen'
    BY <1>1, <1>2, <1>3 DEF LineOpen
  <2>. QED  BY <2>5, <2>6, <2>7, <2>8 DEF FileLaid, AllWritten, Written
<1>7. ClientMoves
  BY <1>1, <1>2 DEF ClientMoves, Cut
<1>. QED  BY <1>4, <1>5, <1>6, <1>7 DEF Moved

-----------------------------------------------------------------------------
\* Lines read.

\* Parsed takes the lines of the file as it is.
LEMMA ParsedIsLines ==
  \A from, to : Parsed(from, to) = LinesOf(transcript, from, to)
BY DEF Parsed, LinesOf

\* Where the k-th line after an offset has its second byte.
LineAt(from, k) == 3 * (((from + 2) \div 3) + k) - 1

\* The lines between two offsets, each a byte of the file between them.
LEMMA LinesAt ==
  ASSUME NEW S, NEW t \in Seq(S), NEW from \in Nat, NEW to \in Nat
  PROVE  /\ LinesOf(t, from, to) \in Seq(S)
         /\ \A k \in DOMAIN LinesOf(t, from, to) :
              /\ LineAt(from, k) \in DOMAIN t /\ from < LineAt(from, k) /\ LineAt(from, k) <= to
              /\ LinesOf(t, from, to)[k] = t[LineAt(from, k)]
<1>. DEFINE n == Least(to, Len(t))
            a == (from + 2) \div 3
            b == (n + 1) \div 3
<1>1. n \in Nat /\ n <= to /\ n <= Len(t) /\ Len(t) \in Nat
  BY DEF Least
<1>2. a \in Nat /\ 3 * a <= from + 2 /\ from + 2 < 3 * a + 3
  BY Thirds
<1>3. b \in Nat /\ 3 * b <= n + 1
  <2>. HIDE DEF n
  <2>. QED  BY <1>1, Thirds
<1>4. LinesOf(t, from, to) = [k \in 1..(b - a) |-> t[3 * (a + k) - 1]]
  BY DEF LinesOf
<1>. HIDE DEF n, a, b
<1>5. \A k \in 1..(b - a) : 3 * (a + k) - 1 \in 1..Len(t) /\ from < 3 * (a + k) - 1 /\ 3 * (a + k) - 1 <= to
  BY <1>1, <1>2, <1>3
<1>6. b - a \in Int
  BY <1>2, <1>3
<1>7. LinesOf(t, from, to) \in Seq(S)
  <2>. DEFINE m == IF b - a < 0 THEN 0 ELSE b - a
  <2>1. m \in Nat /\ 1..m = 1..(b - a)
    BY <1>6
  <2>2. LinesOf(t, from, to) = [k \in 1..m |-> t[3 * (a + k) - 1]]
    BY <1>4, <2>1
  <2>3. \A k \in 1..m : t[3 * (a + k) - 1] \in S
    BY <1>5, <2>1
  <2>. HIDE DEF m
  <2>. QED  BY <2>1, <2>2, <2>3
<1>8. \A k \in 1..(b - a) : LineAt(from, k) = 3 * (a + k) - 1
  BY DEF LineAt, a
<1>. QED  BY <1>4, <1>5, <1>7, <1>8

\* A line read is a byte of the file between the two offsets, and none is read twice.
LEMMA LinesApart ==
  ASSUME NEW S, NEW t \in Seq(S), NEW from \in Nat, NEW to \in Nat,
         \A p, r \in DOMAIN t : t[p] = t[r] => p = r
  PROVE  /\ Once(LinesOf(t, from, to))
         /\ \A k \in DOMAIN LinesOf(t, from, to) : \A p \in DOMAIN t :
              p > to \/ p <= from => LinesOf(t, from, to)[k] # t[p]
<1>. DEFINE F == LinesOf(t, from, to)
            at(k) == LineAt(from, k)
<1>2. F \in Seq(S) /\ \A k \in DOMAIN F : at(k) \in DOMAIN t /\ from < at(k) /\ at(k) <= to /\ F[k] = t[at(k)]
  BY LinesAt
<1>. HIDE DEF F
<1>3. \A k \in DOMAIN F : k \in Nat
  BY <1>2
<1>4. \A j, k \in DOMAIN F : at(j) = at(k) => j = k
  <2>1. (from + 2) \div 3 \in Nat
    BY Thirds
  <2>. QED  BY <1>3, <2>1 DEF LineAt
<1>. HIDE DEF at
<1>5. Once(F)
  BY <1>2, <1>4 DEF Once
<1>6. ASSUME NEW k \in DOMAIN F, NEW p \in DOMAIN t, p > to \/ p <= from
      PROVE  F[k] # t[p]
  BY <1>2, <1>6
<1>. QED  BY <1>5, <1>6 DEF F

\* Two files that agree up to an offset have the same lines up to it.
LEMMA LinesSame ==
  ASSUME NEW S, NEW s \in Seq(S), NEW t \in Seq(S), NEW from \in Nat, NEW n \in Nat,
         n <= Len(s), n <= Len(t), \A p \in 1..n : s[p] = t[p]
  PROVE  LinesOf(s, from, n) = LinesOf(t, from, n)
<1>. DEFINE a == (from + 2) \div 3
            b == (n + 1) \div 3
<1>1. Least(n, Len(s)) = n /\ Least(n, Len(t)) = n
  BY DEF Least
<1>2. a \in Nat /\ b \in Nat /\ 3 * b <= n + 1
  BY Thirds
<1>3. /\ LinesOf(s, from, n) = [k \in 1..(b - a) |-> s[3 * (a + k) - 1]]
      /\ LinesOf(t, from, n) = [k \in 1..(b - a) |-> t[3 * (a + k) - 1]]
  BY <1>1 DEF LinesOf
<1>. HIDE DEF a, b
<1>4. \A k \in 1..(b - a) : 3 * (a + k) - 1 \in 1..n
  BY <1>2
<1>. QED  BY <1>3, <1>4

\* Two sequences joined, element by element.
LEMMA Joined ==
  ASSUME NEW S, NEW s \in Seq(S), NEW t \in Seq(S)
  PROVE  /\ s \o t \in Seq(S) /\ Len(s \o t) = Len(s) + Len(t)
         /\ \A k \in 1..Len(s) : (s \o t)[k] = s[k]
         /\ \A k \in 1..Len(t) : (s \o t)[Len(s) + k] = t[k]
  OBVIOUS

\* What is read from the end of a line on continues what was read up to there.
LEMMA LinesJoin ==
  ASSUME NEW S, NEW t \in Seq(S), NEW m \in Nat, NEW n \in Nat,
         m % 3 = 0, m <= n, n <= Len(t)
  PROVE  LinesOf(t, 0, m) \o LinesOf(t, m, n) = LinesOf(t, 0, n)
<1>. DEFINE b == (n + 1) \div 3
            a == (m + 2) \div 3
            F == LinesOf(t, 0, m)
            G == LinesOf(t, m, n)
            H == LinesOf(t, 0, n)
<1>1. Least(m, Len(t)) = m /\ Least(n, Len(t)) = n /\ Len(t) \in Nat
  BY DEF Least
<1>2. a \in Nat /\ 3 * a = m
  BY Thirds
<1>3. b \in Nat /\ 3 * b <= n + 1 /\ n + 1 < 3 * b + 3
  BY Thirds
<1>4. (0 + 2) \div 3 = 0
  OBVIOUS
<1>5. (m + 1) \div 3 = a
  BY <1>2
<1>6. /\ F = [k \in 1..(a - 0) |-> t[3 * (0 + k) - 1]]
      /\ G = [k \in 1..(b - a) |-> t[3 * (a + k) - 1]]
      /\ H = [k \in 1..(b - 0) |-> t[3 * (0 + k) - 1]]
  BY <1>1, <1>4, <1>5 DEF LinesOf
<1>. HIDE DEF a, b, F, G, H
<1>7. b - a \in Nat /\ a - 0 = a /\ b - 0 = b
  BY <1>2, <1>3
<1>8. \A k \in 1..b : 3 * k - 1 \in 1..Len(t) /\ 0 + k = k
  BY <1>1, <1>3
<1>9. /\ F \in Seq(S) /\ Len(F) = a /\ \A k \in 1..a : F[k] = t[3 * k - 1]
  <2>1. a <= b
    BY <1>2, <1>3
  <2>2. F = [k \in 1..a |-> t[3 * k - 1]]
    BY <1>2, <1>6, <1>7
  <2>3. \A k \in 1..a : t[3 * k - 1] \in S
    BY <1>2, <1>3, <1>8, <2>1
  <2>. QED  BY <1>2, <2>2, <2>3
<1>10. /\ G \in Seq(S) /\ Len(G) = b - a /\ \A k \in 1..(b - a) : G[k] = t[3 * (a + k) - 1]
  <2>1. \A k \in 1..(b - a) : a + k \in 1..b
    BY <1>2, <1>3, <1>7
  <2>2. \A k \in 1..(b - a) : t[3 * (a + k) - 1] \in S
    BY <1>8, <2>1
  <2>. QED  BY <1>6, <1>7, <2>2
<1>11. /\ H \in Seq(S) /\ Len(H) = b /\ \A k \in 1..b : H[k] = t[3 * k - 1]
  <2>1. H = [k \in 1..b |-> t[3 * k - 1]]
    BY <1>3, <1>6, <1>7
  <2>. QED  BY <1>3, <1>8, <2>1
<1>. DEFINE J == F \o G
<1>12. /\ J \in Seq(S) /\ Len(J) = Len(F) + Len(G)
       /\ \A k \in 1..Len(F) : J[k] = F[k]
       /\ \A k \in 1..Len(G) : J[Len(F) + k] = G[k]
  <2>1. F \in Seq(S) /\ G \in Seq(S)
    BY <1>9, <1>10
  <2>2. /\ F \o G \in Seq(S) /\ Len(F \o G) = Len(F) + Len(G)
        /\ \A k \in 1..Len(F) : (F \o G)[k] = F[k]
        /\ \A k \in 1..Len(G) : (F \o G)[Len(F) + k] = G[k]
    BY <2>1, Joined
  <2>. QED  BY <2>2
<1>. HIDE DEF J
<1>13. \A k \in 1..b : J[k] = H[k]
  <2>1. ASSUME NEW k \in 1..b, k <= a
        PROVE  J[k] = H[k]
    <3>1. k \in 1..a
      BY <1>2, <1>3, <2>1
    <3>. QED  BY <1>9, <1>11, <1>12, <3>1
  <2>2. ASSUME NEW k \in 1..b, k > a
        PROVE  J[k] = H[k]
    <3>1. k - a \in 1..(b - a) /\ a + (k - a) = k
      BY <1>2, <1>3, <2>2
    <3>2. J[Len(F) + (k - a)] = G[k - a]
      BY <1>10, <1>12, <3>1
    <3>3. J[k] = G[k - a] /\ H[k] = t[3 * k - 1]
      BY <1>9, <1>11, <3>1, <3>2
    <3>4. G[k - a] = t[3 * k - 1]
      <4>. DEFINE i == k - a
      <4>1. i \in 1..(b - a) /\ a + i = k
        BY <3>1
      <4>. HIDE DEF i
      <4>2. G[i] = t[3 * k - 1]
        BY <1>10, <4>1
      <4>. QED  BY <4>2 DEF i
    <3>. QED  BY <3>3, <3>4
  <2>3. \A k \in 1..b : k <= a \/ k > a
    BY <1>2
  <2>. QED  BY <2>1, <2>2, <2>3
<1>14. Len(J) = b
  BY <1>2, <1>3, <1>9, <1>10, <1>12
<1>15. J = H
  BY <1>11, <1>12, <1>13, <1>14
<1>. QED  BY <1>15 DEF F, G, H, J

-----------------------------------------------------------------------------
\* What a step of the client leaves.

\* The file is the same up to n.
SameTo(n) ==
  /\ n <= Len(transcript) /\ n <= Len(transcript')
  /\ \A p \in 1..n : transcript'[p] = transcript[p]

\* What the file has of an offset after a step it had before, if the client wrote
\* it before.
LEMMA MovedSame ==
  ASSUME Typed, Moved, NEW n \in Nat, NEW s \in Seq(Bytes), AllWritten(s),
         n <= Len(transcript'), s = SubSeq(transcript', 1, n)
  PROVE  SameTo(n)
<1>. DEFINE L == Len(transcript)
<1>1. transcript \in Seq(Bytes) /\ transcript' \in Seq(Bytes) /\ L \in Nat /\ Len(transcript') \in Nat
  BY DEF Typed, IngestTypeOK, Moved, ClientTyped
<1>2. Len(s) = n /\ \A p \in 1..n : s[p] = transcript'[p] /\ Written(s[p])
  <2>1. n \in 0..Len(transcript')
    BY <1>1
  <2>2. Len(s) = n /\ \A p \in 1..n : s[p] = transcript'[p]
    BY <1>1, <2>1, Prefix
  <2>3. DOMAIN s = 1..n
    BY <2>2
  <2>. QED  BY <2>2, <2>3 DEF AllWritten
<1>3. CASE Grows
  <2>1. PICK b \in Bytes : ~Written(b) /\ transcript' = Append(transcript, b)
    BY <1>3 DEF Grows
  <2>2. /\ Len(transcript') = L + 1 /\ transcript'[L + 1] = b
        /\ \A p \in 1..L : transcript'[p] = transcript[p]
    BY <1>1, <2>1, OneMore
  <2>3. n <= L
    <3>1. CASE n = L + 1
      BY <1>1, <1>2, <2>1, <2>2, <3>1
    <3>. QED  BY <1>1, <2>2, <3>1
  <2>. QED  BY <1>1, <2>2, <2>3 DEF SameTo
<1>4. CASE Cut
  <2>1. PICK m \in 0..L : transcript' = SubSeq(transcript, 1, m)
    BY <1>4 DEF Cut
  <2>2. Len(transcript') = m /\ \A p \in 1..m : transcript'[p] = transcript[p]
    BY <1>1, <2>1, Prefix
  <2>. QED  BY <1>1, <2>1, <2>2 DEF SameTo
<1>. QED  BY <1>3, <1>4 DEF Moved, ClientMoves

\* What two files that agree up to n have of it.
LEMMA SameSubSeq ==
  ASSUME Typed, Moved, NEW n \in Nat, SameTo(n)
  PROVE  SubSeq(transcript', 1, n) = SubSeq(transcript, 1, n)
<1>. DEFINE s == SubSeq(transcript, 1, n)
            t == SubSeq(transcript', 1, n)
<1>1. transcript \in Seq(Bytes) /\ transcript' \in Seq(Bytes)
      /\ Len(transcript) \in Nat /\ Len(transcript') \in Nat
  BY DEF Typed, IngestTypeOK, Moved, ClientTyped
<1>2. n \in 0..Len(transcript) /\ n \in 0..Len(transcript') /\ \A p \in 1..n : transcript'[p] = transcript[p]
  BY <1>1 DEF SameTo
<1>3. s \in Seq(Bytes) /\ Len(s) = n /\ \A p \in 1..n : s[p] = transcript[p]
  BY <1>1, <1>2, Prefix
<1>4. t \in Seq(Bytes) /\ Len(t) = n /\ \A p \in 1..n : t[p] = transcript'[p]
  BY <1>1, <1>2, Prefix
<1>. HIDE DEF s, t
<1>5. s = t
  BY <1>2, <1>3, <1>4
<1>. QED  BY <1>5 DEF s, t

\* A state that fits the file after a step of the client fitted it before.
LEMMA MovedFits ==
  ASSUME Typed, Moved, NEW f \in FileStates, AllWritten(f.sample.bytes), Fits(f, transcript')
  PROVE  Fits(f, transcript) /\ SameTo(f.safe)
<1>1. f.safe \in Nat /\ f.sample.bytes \in Seq(Bytes)
  BY IngestAssumption DEF FileStates, Sizes
<1>2. Len(transcript') \in Nat /\ Len(transcript) \in Nat
  BY DEF Typed, IngestTypeOK, Moved, ClientTyped
<1>3. /\ f.safe <= Len(transcript') /\ f.sample.bytes = SubSeq(transcript', 1, f.safe)
      /\ f.sample = [to |-> f.safe, bytes |-> SubSeq(transcript', 1, f.safe)]
  <2>1. f.safe <= Len(transcript')
    BY <1>1, <1>2 DEF Fits
  <2>2. Least(f.safe, Len(transcript')) = f.safe
    BY <1>1, <1>2, <2>1 DEF Least
  <2>3. f.sample = [to |-> f.safe, bytes |-> SubSeq(transcript', 1, f.safe)]
    BY <2>2 DEF Fits
  <2>4. f.sample.bytes = SubSeq(transcript', 1, f.safe)
    <3>. DEFINE x == SubSeq(transcript', 1, f.safe)
    <3>1. f.sample = [to |-> f.safe, bytes |-> x]
      BY <2>3
    <3>. HIDE DEF x
    <3>2. f.sample.bytes = x
      BY <3>1
    <3>. QED  BY <3>2 DEF x
  <2>. QED  BY <2>1, <2>3, <2>4
<1>4. SameTo(f.safe)
  BY <1>1, <1>3, MovedSame
<1>5. SubSeq(transcript', 1, f.safe) = SubSeq(transcript, 1, f.safe)
  BY <1>1, <1>4, SameSubSeq
<1>6. Least(f.safe, Len(transcript)) = f.safe /\ f.safe <= Len(transcript)
  BY <1>1, <1>2, <1>4 DEF SameTo, Least
<1>. QED  BY <1>3, <1>4, <1>5, <1>6 DEF Fits

\* A state a pass can be sure of after a step of the client it could be sure of
\* before, by its sample.
LEMMA MovedSure ==
  ASSUME Typed, Moved, NEW f \in FileStates, AllWritten(f.sample.bytes), f.mtime <= mtime,
         SureOf(f, transcript', mtime')
  PROVE  /\ SureOf(f, transcript, mtime) /\ SameTo(f.size) /\ f.safe = f.size
         /\ Fits(f, transcript) /\ Fits(f, transcript')
<1>1. f.mtime # mtime'
  <2>1. f.mtime \in Nat /\ mtime \in Nat /\ mtime' = mtime + 1
    BY IngestAssumption DEF FileStates, MTimes, Sizes, Typed, IngestTypeOK, Moved, ClientMoves
  <2>. QED  BY <2>1
<1>2. f.safe = f.size /\ Fits(f, transcript')
  BY <1>1 DEF SureOf
<1>. QED  BY <1>2, MovedFits DEF SureOf

\* Lines that are not past an offset are not after a step either: what the client
\* adds is new.
LEMMA MovedPast ==
  ASSUME Typed, Moved, NEW s \in Seq(Bytes), AllWritten(s), NEW n \in Nat, Past(s, n)
  PROVE  \A i \in DOMAIN s, p \in DOMAIN transcript' : p > n => s[i] # transcript'[p]
<1>1. transcript \in Seq(Bytes)
  BY DEF Typed, IngestTypeOK
<1>2. CASE Grows
  <2>1. PICK b \in Bytes : ~Written(b) /\ transcript' = Append(transcript, b)
    BY <1>2 DEF Grows
  <2>2. \A p \in DOMAIN transcript' : \/ p \in DOMAIN transcript /\ transcript'[p] = transcript[p]
                                      \/ transcript'[p] = b
    BY <1>1, <2>1, MoreAt
  <2>. QED  BY <2>1, <2>2 DEF Past, AllWritten
<1>3. CASE Cut
  <2>1. PICK m \in 0..Len(transcript) : transcript' = SubSeq(transcript, 1, m)
    BY <1>3 DEF Cut
  <2>2. \A p \in DOMAIN transcript' : p \in DOMAIN transcript /\ transcript'[p] = transcript[p]
    BY <1>1, <2>1, Prefix
  <2>. QED  BY <2>2 DEF Past
<1>. QED  BY <1>2, <1>3 DEF Moved, ClientMoves

\* What was written stays so.
LEMMA MovedWritten ==
  ASSUME Moved, NEW s, AllWritten(s)
  PROVE  \A i \in DOMAIN s : Wrote(s[i], transcript', said')
<1>1. \A i \in DOMAIN s : Wrote(s[i], transcript, said) /\ s[i] \in Bytes
  BY DEF AllWritten, Written, Wrote
<1>. QED  BY <1>1 DEF Moved, WrittenStays

\* A step of the client is one of these.
ClientStep == Say \/ SayOn \/ \E lines \in 0..MaxLines : Rewind(lines)
\* Such a step writes a fresh byte or cuts, and the file stays laid out in lines.
LEMMA ClientStepMoves ==
  ASSUME Typed, ClientStep
  PROVE  Moved
BY SayFresh, SayOnFresh, RewindFresh DEF ClientStep

-----------------------------------------------------------------------------
\* Types and places.

\* What Typed says of the parts, for the steps that need nothing else of it.
LEMMA Parts ==
  ASSUME Typed
  PROVE  /\ held \in FileStates /\ pass \in Passes
         /\ transcript \in Seq(Bytes) /\ Len(transcript) \in Sizes
         /\ mtime \in MTimes /\ said \in 0..MaxLines /\ rewinds \in 0..MaxRewinds
         /\ indexed \in BOOLEAN /\ slipped \in BOOLEAN /\ passKills \in 0..MaxPassKills
         /\ overlooked \in BOOLEAN /\ (overlooked => ~Beside)
         /\ stored \in Seq(Bytes) /\ committed \in 0..Len(stored)
         /\ held.mtime <= mtime /\ pass.walk.mtime <= mtime
         /\ AllWritten(held.sample.bytes) /\ AllWritten(pass.walk.sample.bytes)
         /\ AllWritten(stored) /\ AllWritten(pass.read)
  BY DEF Typed, IngestTypeOK

\* Sizes and times are naturals.
LEMMA NaturalSizes ==
  /\ Sizes \subseteq Nat /\ MTimes \subseteq Nat /\ 0 \in Sizes /\ 0 \in MTimes
  /\ \A n \in Sizes : 0..n \subseteq Sizes
  BY IngestAssumption DEF Sizes, MTimes

\* A step that leaves the file alone leaves it laid out in lines, and what was written.
LEMMA LaidStays ==
  ASSUME FileLaid, UNCHANGED client
  PROVE  FileLaid' /\ \A s : AllWritten(s) => \A i \in DOMAIN s : Wrote(s[i], transcript', said')
  BY DEF FileLaid, client, LineOpen, AllWritten, Written

\* The types after a step of a pass, from those of what it wrote.
LEMMA TypedAgain ==
  ASSUME Typed, UNCHANGED client, PassPlaced',
         held' \in FileStates, pass' \in Passes, held'.mtime <= mtime, pass'.walk.mtime <= mtime,
         stored' \in Seq(Bytes), committed' \in 0..Len(stored'),
         indexed' \in BOOLEAN, slipped' \in BOOLEAN, passKills' \in 0..MaxPassKills,
         overlooked' \in BOOLEAN, overlooked' => ~Beside,
         AllWritten(held'.sample.bytes), AllWritten(pass'.walk.sample.bytes),
         AllWritten(stored'), AllWritten(pass'.read)
  PROVE  Typed'
<1>1. /\ transcript' = transcript /\ mtime' = mtime /\ said' = said /\ rewinds' = rewinds
  BY DEF client
<1>2. FileLaid'
  BY LaidStays DEF Typed
<1>3. /\ AllWritten(held.sample.bytes)' /\ AllWritten(pass.walk.sample.bytes)'
      /\ AllWritten(stored)' /\ AllWritten(pass.read)'
  BY <1>1 DEF AllWritten, Written
<1>4. IsFileState(held)' /\ IsFileState(pass.walk)' /\ pass'.at \in PassPlaces /\ pass'.tries \in 0..2
  BY DEF Passes, FileStates, IsFileState
<1>5. committed' < Len(stored') =>
        pass'.at = "manifest" \/ pass'.how \in {"none", "rebuild"} \/ overlooked'
  <2>1. pass'.how \in Hows
    BY DEF Passes
  <2>2. committed' < Len(stored') => Len(stored') # committed'
    OBVIOUS
  <2>. QED  BY <2>1, <2>2 DEF Hows, PassPlaced, LogAsHeld, RecordsSize
<1>6. IngestTypeOK'
  BY <1>1, <1>4, <1>5, Parts DEF IngestTypeOK, PassPlaces
<1>. QED  BY <1>2, <1>3, <1>6 DEF Typed

\* Where the lines that are complete end.
LEMMA CompleteSize ==
  ASSUME Typed, NEW n \in Sizes
  PROVE  CompleteTo(n) \in 0..n /\ (n <= Len(transcript) => CompleteTo(n) % 3 = 0)
<1>. DEFINE L == Len(transcript)
            Ends(e) == (e = 0 \/ transcript[e][2] = 3) /\ \A m \in e + 1..n : transcript[m][2] # 3
<1>1. n \in Nat /\ L \in Nat /\ transcript \in Seq(Bytes)
  BY Parts, NaturalSizes
<1>2. CASE n > L
  BY <1>1, <1>2 DEF CompleteTo
<1>3. CASE n <= L
  <2>1. \A p \in 1..n : transcript[p][2] = ((p - 1) % 3) + 1
    BY <1>1, <1>3 DEF Typed, FileLaid
  <2>2. n - (n % 3) \in 0..n /\ Ends(n - (n % 3))
    <3>. DEFINE e == n - (n % 3)
    <3>1. e \in 0..n /\ n <= e + 2 /\ e % 3 = 0
      BY <1>1
    <3>. HIDE DEF e
    <3>2. e = 0 \/ transcript[e][2] = 3
      <4>1. CASE e # 0
        <5>1. e \in 1..n /\ e - 1 \in Nat /\ (e - 1) + 1 = e
          BY <1>1, <3>1, <4>1
        <5>2. ((e - 1) % 3) + 1 = 3
          BY <3>1, <5>1, Thirds
        <5>. QED  BY <2>1, <5>1, <5>2
      <4>. QED  BY <4>1
    <3>3. \A m \in e + 1..n : ((m - 1) % 3) + 1 # 3 /\ m \in 1..n
      <4>1. e \in Nat /\ (e + 1) % 3 = 1
        BY <1>1, <3>1, Thirds
      <4>2. \A m \in e + 1..n : m \in 1..n /\ m - 1 \in {e, e + 1}
        BY <1>1, <3>1, <4>1
      <4>. QED  BY <3>1, <4>1, <4>2
    <3>4. \A m \in e + 1..n : transcript[m][2] # 3
      BY <2>1, <3>3
    <3>5. e \in 0..n /\ Ends(e)
      BY <3>1, <3>2, <3>4
    <3>. QED  BY <3>5 DEF e
  <2>3. CompleteTo(n) = CHOOSE e \in 0..n : Ends(e)
    BY <1>1, <1>3 DEF CompleteTo
  <2>4. CompleteTo(n) \in 0..n /\ Ends(CompleteTo(n))
    <3>. HIDE DEF Ends
    <3>. QED  BY <2>2, <2>3
  <2>. DEFINE e == CompleteTo(n)
  <2>5. e \in 0..n /\ (e = 0 \/ transcript[e][2] = 3)
    BY <2>4
  <2>. HIDE DEF e
  <2>6. e % 3 = 0
    <3>1. CASE e = 0
      BY <3>1
    <3>2. CASE e # 0
      <4>1. e \in 1..n
        BY <1>1, <2>5, <3>2
      <4>2. ((e - 1) % 3) + 1 = 3
        BY <2>1, <2>5, <3>2, <4>1
      <4>. QED  BY <1>1, <4>1, <4>2
    <3>. QED  BY <3>1, <3>2
  <2>. QED  BY <2>5, <2>6 DEF e
<1>. QED  BY <1>1, <1>2, <1>3

\* A sample is of what the client wrote.
LEMMA SampleTyped ==
  ASSUME Typed, NEW n \in Sizes
  PROVE  /\ Sample(n) \in [to : Sizes, bytes : Seq(Bytes)] /\ Sample(n).to = n
         /\ AllWritten(Sample(n).bytes)
<1>. DEFINE m == Least(n, Len(transcript))
            s == SubSeq(transcript, 1, m)
<1>1. n \in Nat /\ Len(transcript) \in Nat /\ transcript \in Seq(Bytes)
  BY Parts, NaturalSizes
<1>2. m \in 0..Len(transcript)
  BY <1>1 DEF Least
<1>. HIDE DEF m
<1>3. s \in Seq(Bytes) /\ Len(s) = m /\ \A i \in 1..m : s[i] = transcript[i]
  BY <1>1, <1>2, Prefix
<1>4. Sample(n) = [to |-> n, bytes |-> s]
  BY DEF Sample, m
<1>. HIDE DEF s
<1>5. AllWritten(s)
  <2>1. \A i \in DOMAIN s : i \in DOMAIN transcript /\ s[i] = transcript[i]
    BY <1>1, <1>2, <1>3
  <2>. QED  BY <2>1 DEF Typed, FileLaid, AllWritten
<1>. QED  BY <1>3, <1>4, <1>5

\* No state and no pass are of their types.
LEMMA NotHeldTyped ==
  /\ NotHeld \in FileStates /\ Resting \in Passes
  /\ AllWritten(NotHeld.sample.bytes) /\ AllWritten(<< >>)
<1>1. NoSample \in [to : Sizes, bytes : Seq(Bytes)] /\ AllWritten(NoSample.bytes)
  BY NaturalSizes DEF NoSample, AllWritten
<1>2. NotHeld \in FileStates /\ AllWritten(NotHeld.sample.bytes)
  BY <1>1, NaturalSizes DEF NotHeld, FileStates
<1>3. << >> \in Seq(Bytes)
  OBVIOUS
<1>. QED  BY <1>2, <1>3 DEF Resting, Passes, PassPlaces, Hows, AllWritten

\* A file just stated.
Stated == [NotHeld EXCEPT !.size = Len(transcript), !.mtime = mtime, !.known = TRUE]
\* It is a FileState of its type, of the size and time the file has.
LEMMA StatedTyped ==
  ASSUME Typed
  PROVE  /\ Stated \in FileStates /\ Stated.known /\ AllWritten(Stated.sample.bytes)
         /\ Stated.size = Len(transcript) /\ Stated.mtime = mtime
<1>1. Len(transcript) \in Sizes /\ mtime \in MTimes
  BY Parts
<1>2. /\ Stated.size = Len(transcript) /\ Stated.mtime = mtime /\ Stated.known
      /\ Stated.safe = NotHeld.safe /\ Stated.sample = NotHeld.sample
      /\ Stated \in FileStates
  BY <1>1, NotHeldTyped DEF Stated, FileStates
<1>. QED  BY <1>1, <1>2, NotHeldTyped


\* A pass that ends, or is killed, where the store is left alone.
LEMMA RestTyped ==
  ASSUME Typed, UNCHANGED <<client, store, slipped>>, passKills' \in 0..MaxPassKills, pass' = Resting,
         overlooked' \in BOOLEAN, overlooked' => ~Beside,
         RecordsSize = 0 /\ Len(stored) # committed => overlooked'
  PROVE  Typed'
<1>1. PassPlaced'
  BY DEF PassPlaced, LogAsHeld, RecordsSize, Typed, Resting, store
<1>2. /\ pass' \in Passes /\ AllWritten(pass'.walk.sample.bytes) /\ AllWritten(pass'.read)
      /\ pass'.walk.mtime <= mtime
  <2>1. mtime \in Nat
    BY Parts, NaturalSizes
  <2>2. 0 <= mtime
    BY <2>1
  <2>. QED  BY <2>2, NotHeldTyped DEF Resting, NotHeld
<1>. QED  BY <1>1, <1>2, Parts, TypedAgain DEF store

\* A step that stats the file.
LEMMA StatSteps ==
  ASSUME Typed, Stat
  PROVE  /\ pass' \in Passes /\ UNCHANGED <<client, store, bounds>>
         /\ pass'.how = "none" /\ pass'.read = << >>
         /\ \/ /\ held.known /\ held.size = Len(transcript) /\ held.mtime = mtime
               /\ pass'.at = "decide" /\ pass'.walk = held
            \/ pass'.at = "safe" /\ pass'.walk = Stated
<1>. DEFINE same == held.known /\ held.size = Len(transcript) /\ held.mtime = mtime
<1>1. /\ pass = Resting /\ UNCHANGED <<client, store, bounds>>
      /\ pass' = [pass EXCEPT !.at = IF same THEN "decide" ELSE "safe",
                              !.walk = IF same THEN held ELSE Stated]
  BY DEF Stat, Typed, PassPlaced, LogAsHeld, RecordsSize, Stated
<1>. HIDE DEF same
<1>2. /\ pass \in Passes /\ held \in FileStates /\ Stated \in FileStates
      /\ pass.how = "none" /\ pass.read = << >>
  BY <1>1, Parts, StatedTyped DEF Resting
<1>3. /\ pass' \in Passes
      /\ pass'.at = (IF same THEN "decide" ELSE "safe")
      /\ pass'.walk = (IF same THEN held ELSE Stated)
      /\ pass'.how = pass.how /\ pass'.read = pass.read
  BY <1>1, <1>2 DEF Passes, PassPlaces
<1>4. same => held.known /\ held.size = Len(transcript) /\ held.mtime = mtime
  BY DEF same
<1>. QED  BY <1>1, <1>2, <1>3, <1>4

\* After a stat everything is of its type.
LEMMA StatTyped ==
  ASSUME Typed, Stat
  PROVE  Typed'
<1>1. /\ pass' \in Passes /\ UNCHANGED <<client, store, bounds>>
      /\ pass'.at \in {"decide", "safe"} /\ pass'.how = "none" /\ pass'.read = << >>
      /\ (held.known /\ pass'.walk = held) \/ pass'.walk = Stated
      /\ pass.at = "rest"
  BY StatSteps DEF Stat
<1>2. pass'.walk.known /\ pass'.walk.mtime <= mtime /\ AllWritten(pass'.walk.sample.bytes)
  <2>1. mtime \in Nat
    BY Parts, NaturalSizes
  <2>2. mtime <= mtime
    BY <2>1
  <2>. QED  BY <1>1, <2>2, Parts, StatedTyped
<1>3. PassPlaced'
  BY <1>1, <1>2 DEF PassPlaced, LogAsHeld, RecordsSize, store, Typed, bounds
<1>. QED  BY <1>1, <1>2, <1>3, Parts, NotHeldTyped, TypedAgain DEF store, bounds

\* So it is once the last complete line is found.
LEMMA FindSafeTyped ==
  ASSUME Typed, FindSafe
  PROVE  Typed'
<1>. DEFINE e == CompleteTo(pass.walk.size)
<1>1. /\ pass \in Passes /\ pass.at = "safe" /\ UNCHANGED <<client, store, overlooked, passKills>>
      /\ pass' = [pass EXCEPT !.at = "sample", !.walk.safe = e]
      /\ slipped' = (slipped \/ Len(transcript) < pass.walk.size)
  BY Parts DEF FindSafe
<1>2. e \in Sizes
  <2>1. pass.walk.size \in Sizes
    BY <1>1 DEF Passes, FileStates
  <2>2. e \in 0..pass.walk.size
    BY <2>1, CompleteSize
  <2>. QED  BY <2>1, <2>2, NaturalSizes
<1>. HIDE DEF e
<1>3. /\ pass'.at = "sample" /\ pass'.how = pass.how /\ pass'.read = pass.read /\ pass'.tries = pass.tries
      /\ pass'.walk = [pass.walk EXCEPT !.safe = e]
  BY <1>1 DEF Passes
<1>4. /\ pass'.walk \in FileStates /\ pass'.walk.known = pass.walk.known
      /\ pass'.walk.mtime = pass.walk.mtime /\ pass'.walk.sample = pass.walk.sample
  <2>1. pass.walk \in FileStates
    BY <1>1 DEF Passes
  <2>. QED  BY <1>2, <1>3, <2>1 DEF FileStates
<1>5. pass' \in Passes
  BY <1>1, <1>4 DEF Passes, PassPlaces
<1>6. PassPlaced'
  BY <1>1, <1>3, <1>4 DEF PassPlaced, LogAsHeld, RecordsSize, store, Typed
<1>7. slipped' \in BOOLEAN
  BY <1>1
<1>. QED  BY <1>1, <1>3, <1>4, <1>5, <1>6, <1>7, Parts, TypedAgain DEF store

\* So it is once the sample is taken.
LEMMA TakeSampleTyped ==
  ASSUME Typed, TakeSample
  PROVE  Typed'
<1>. DEFINE e == Sample(pass.walk.safe)
<1>1. /\ pass \in Passes /\ pass.at = "sample" /\ UNCHANGED <<client, store, bounds>>
      /\ pass' = [pass EXCEPT !.at = IF pass.how = "none" THEN "decide" ELSE "read", !.walk.sample = e]
  BY Parts DEF TakeSample
<1>2. e \in [to : Sizes, bytes : Seq(Bytes)] /\ AllWritten(e.bytes)
  <2>1. pass.walk.safe \in Sizes
    BY <1>1 DEF Passes, FileStates
  <2>. QED  BY <2>1, SampleTyped
<1>. HIDE DEF e
<1>3. /\ pass'.at = (IF pass.how = "none" THEN "decide" ELSE "read")
      /\ pass'.how = pass.how /\ pass'.read = pass.read /\ pass'.tries = pass.tries
      /\ pass'.walk = [pass.walk EXCEPT !.sample = e]
  BY <1>1 DEF Passes
<1>4. /\ pass'.walk \in FileStates /\ pass'.walk.known = pass.walk.known
      /\ pass'.walk.mtime = pass.walk.mtime /\ pass'.walk.sample = e /\ pass'.walk.size = pass.walk.size
  <2>1. pass.walk \in FileStates
    BY <1>1 DEF Passes
  <2>. QED  BY <1>2, <1>3, <2>1 DEF FileStates
<1>5. pass' \in Passes
  BY <1>1, <1>3, <1>4 DEF Passes, PassPlaces
<1>6. PassPlaced'
  BY <1>1, <1>3, <1>4 DEF PassPlaced, LogAsHeld, RecordsSize, store, Typed, bounds
<1>. QED  BY <1>1, <1>2, <1>3, <1>4, <1>5, <1>6, Parts, TypedAgain DEF store, bounds

\* How a pass goes about the file.
How == IF MustRebuild THEN "rebuild"
       ELSE IF Same THEN "none"
       ELSE IF TouchedOnly THEN "touch"
       ELSE IF ~held.known THEN "new"
       ELSE IF CanAppend THEN "append"
       ELSE "replace"

\* What a way taken says.
LEMMA HowOf ==
  /\ How \in {"rebuild", "none", "touch", "new", "append", "replace"}
  /\ How # "rebuild" => indexed /\ (Len(stored) = committed \/ ~(RecordsSize > 0))
  /\ How = "touch" => TouchedOnly
  /\ How = "new" => ~held.known
  /\ How = "append" => CanAppend
  BY DEF How, MustRebuild

\* A step that decides.
LEMMA DecideSteps ==
  ASSUME Typed, Decide
  PROVE  /\ pass.at = "decide" /\ pass.how = "none" /\ UNCHANGED <<client, indexed, stored, committed, bounds>>
         /\ \/ /\ How \in {"none", "touch"} /\ pass' = Resting
            \/ /\ How \in {"rebuild", "new", "append", "replace"} /\ held' = held
               /\ pass' = [pass EXCEPT !.at = "read", !.how = How]
         /\ held' = IF How = "touch" THEN [held EXCEPT !.mtime = pass.walk.mtime] ELSE held
<1>1. pass.how = "none"
  BY DEF Typed, PassPlaced, LogAsHeld, RecordsSize, Decide
<1>2. /\ pass.at = "decide" /\ UNCHANGED <<client, indexed, stored, committed, bounds>>
      /\ IF How \in {"none", "touch"} THEN pass' = Resting
         ELSE pass' = [pass EXCEPT !.at = "read", !.how = How]
      /\ held' = IF How = "touch" THEN [held EXCEPT !.mtime = pass.walk.mtime] ELSE held
  BY DEF Decide, How, End
<1>. QED  BY <1>1, <1>2, HowOf

\* So it is once the pass has decided.
LEMMA DecideTyped ==
  ASSUME Typed, Decide
  PROVE  Typed'
<1>1. /\ UNCHANGED <<client, indexed, stored, committed, bounds>> /\ pass.at = "decide" /\ pass.how = "none"
      /\ held' = IF How = "touch" THEN [held EXCEPT !.mtime = pass.walk.mtime] ELSE held
  BY DecideSteps
<1>2. /\ held' \in FileStates /\ held'.mtime <= mtime /\ held'.sample = held.sample
      /\ held'.known = held.known /\ held'.size = held.size /\ held'.safe = held.safe
  <2>1. held \in FileStates /\ pass.walk \in FileStates /\ pass.walk.mtime <= mtime /\ held.mtime <= mtime
    BY Parts DEF Passes
  <2>. QED  BY <1>1, <2>1 DEF FileStates
<1>3. CASE pass' = Resting
  <2>1. PassPlaced'
    BY <1>1, <1>2, <1>3 DEF PassPlaced, LogAsHeld, RecordsSize, Typed, Resting, bounds
  <2>2. /\ pass' \in Passes /\ AllWritten(pass'.walk.sample.bytes) /\ AllWritten(pass'.read)
        /\ pass'.walk.mtime <= mtime
    <3>1. 0 <= mtime
      <4>1. mtime \in Nat
        BY Parts, NaturalSizes
      <4>. QED  BY <4>1
    <3>. QED  BY <1>3, <3>1, NotHeldTyped DEF Resting, NotHeld
  <2>. QED  BY <1>1, <1>2, <2>1, <2>2, Parts, TypedAgain DEF bounds
<1>4. CASE /\ How \in {"rebuild", "new", "append", "replace"} /\ held' = held
           /\ pass' = [pass EXCEPT !.at = "read", !.how = How]
  <2>1. /\ pass' \in Passes /\ pass'.at = "read" /\ pass'.how = How
        /\ pass'.walk = pass.walk /\ pass'.read = pass.read
    BY <1>4, Parts DEF Passes, PassPlaces, Hows
  <2>2. PassPlaced'
    <3>1. How = "append" => held.known /\ held.safe = held.size /\ held.size < pass.walk.size
      BY HowOf DEF CanAppend
    <3>2. How # "rebuild" => LogAsHeld
      <4>1. committed \in Nat
        BY Parts
      <4>2. RecordsSize = 0 /\ Len(stored) # committed => overlooked
        BY <1>1 DEF Typed, PassPlaced
      <4>. QED  BY <4>1, <4>2, HowOf DEF LogAsHeld, RecordsSize
    <3>. QED  BY <1>1, <1>4, <2>1, <3>1, <3>2, HowOf DEF PassPlaced, LogAsHeld, RecordsSize, Typed, bounds
  <2>. QED  BY <1>1, <1>2, <2>1, <2>2, Parts, TypedAgain DEF bounds
<1>. QED  BY <1>3, <1>4, DecideSteps

\* What is read of the file.
From == IF pass.how = "append" THEN ResumeAt(held) ELSE 0
\* A step that reads: from the size held, which ends a line, for an append.
LEMMA ReadSteps ==
  ASSUME Typed, Read
  PROVE  /\ UNCHANGED <<client, store, bounds>> /\ pass.at = "read" /\ pass' \in Passes
         /\ pass'.at = (IF pass.how = "rebuild" THEN "commit" ELSE "check")
         /\ pass'.how = pass.how /\ pass'.walk = pass.walk
         /\ pass'.read = LinesOf(transcript, From, pass.walk.size)
         /\ From = (IF pass.how = "append" THEN held.size ELSE 0)
         /\ From \in Nat /\ pass.walk.size \in Nat
<1>. DEFINE lines == LinesOf(transcript, From, pass.walk.size)
<1>1. /\ UNCHANGED <<client, store, bounds>> /\ pass.at = "read"
      /\ pass' = [pass EXCEPT !.at = IF pass.how = "rebuild" THEN "commit" ELSE "check", !.read = lines]
  BY ParsedIsLines DEF Read, ReadTo, From
<1>2. pass.walk.size \in Nat /\ held.size \in Nat
  BY Parts, NaturalSizes DEF Passes, FileStates
<1>3. From = (IF pass.how = "append" THEN held.size ELSE 0)
  BY DEF From, ResumeAt, Typed, PassPlaced, LogAsHeld, RecordsSize
<1>4. lines \in Seq(Bytes)
  BY <1>2, <1>3, Parts, LinesAt
<1>. HIDE DEF lines
<1>5. /\ pass' \in Passes /\ pass'.at = (IF pass.how = "rebuild" THEN "commit" ELSE "check")
      /\ pass'.how = pass.how /\ pass'.walk = pass.walk /\ pass'.read = lines
  BY <1>1, <1>4, Parts DEF Passes, PassPlaces
<1>. QED  BY <1>1, <1>2, <1>3, <1>5 DEF lines

\* After a read everything is of its type: what was read are bytes of the file.
LEMMA ReadTyped ==
  ASSUME Typed, Read
  PROVE  Typed'
<1>1. /\ UNCHANGED <<client, store, bounds>> /\ pass.at = "read" /\ pass' \in Passes
      /\ pass'.at = (IF pass.how = "rebuild" THEN "commit" ELSE "check")
      /\ pass'.how = pass.how /\ pass'.walk = pass.walk
      /\ pass'.read = LinesOf(transcript, From, pass.walk.size)
      /\ From \in Nat /\ pass.walk.size \in Nat
  BY ReadSteps
<1>2. AllWritten(pass'.read)
  <2>1. \A k \in DOMAIN pass'.read : \E p \in DOMAIN transcript : pass'.read[k] = transcript[p]
    <3>. DEFINE F == LinesOf(transcript, From, pass.walk.size)
    <3>1. \A k \in DOMAIN F : \E p \in DOMAIN transcript : F[k] = transcript[p]
      BY <1>1, Parts, LinesAt
    <3>. HIDE DEF F
    <3>2. pass'.read = F
      BY <1>1 DEF F
    <3>. QED  BY <3>1, <3>2
  <2>. QED  BY <2>1 DEF Typed, FileLaid, AllWritten
<1>3. PassPlaced'
  BY <1>1 DEF PassPlaced, LogAsHeld, RecordsSize, store, Typed, bounds
<1>. QED  BY <1>1, <1>2, <1>3, Parts, TypedAgain DEF store, bounds

\* So it is after the second look at the file.
LEMMA CheckTyped ==
  ASSUME Typed, Check
  PROVE  Typed'
<1>1. UNCHANGED <<client, store, bounds>> /\ pass.at = "check" /\ pass \in Passes /\ pass.how # "rebuild"
      /\ pass.how # "none"
  BY Parts DEF Check, Typed, PassPlaced, LogAsHeld, RecordsSize
<1>2. CASE pass' = [pass EXCEPT !.at = "commit"]
  <2>1. /\ pass' \in Passes /\ pass'.at = "commit" /\ pass'.how = pass.how
        /\ pass'.walk = pass.walk /\ pass'.read = pass.read
    BY <1>1, <1>2 DEF Passes, PassPlaces
  <2>2. PassPlaced'
    BY <1>1, <2>1 DEF PassPlaced, LogAsHeld, RecordsSize, store, Typed, bounds
  <2>. QED  BY <1>1, <2>1, <2>2, Parts, TypedAgain DEF store, bounds
<1>3. CASE pass' = Resting
  <2>1. passKills' \in 0..MaxPassKills /\ overlooked' \in BOOLEAN /\ (overlooked' => ~Beside)
    BY <1>1, Parts DEF bounds
  <2>2. RecordsSize = 0 /\ Len(stored) # committed => overlooked'
    BY <1>1 DEF Typed, PassPlaced, bounds
  <2>. QED  BY <1>1, <1>3, <2>1, <2>2, RestTyped DEF bounds
<1>4. CASE /\ pass.how # "append" /\ pass.tries # 2
           /\ pass' = [pass EXCEPT !.at = "safe", !.tries = @ + 1, !.read = << >>, !.walk = Stated]
  <2>1. pass.tries + 1 \in 0..2
    BY <1>1, <1>4 DEF Passes
  <2>2. /\ pass' \in Passes /\ pass'.at = "safe" /\ pass'.how = pass.how
        /\ pass'.walk = Stated /\ pass'.read = << >>
    <3>. DEFINE t == pass.tries + 1
                e == Stated
                r == << >>
    <3>1. /\ pass' = [pass EXCEPT !.at = "safe", !.tries = t, !.read = r, !.walk = e]
          /\ t \in 0..2 /\ e \in FileStates /\ r \in Seq(Bytes)
      BY <1>4, <2>1, StatedTyped
    <3>. HIDE DEF t, e, r
    <3>2. /\ pass' \in Passes /\ pass'.at = "safe" /\ pass'.how = pass.how
          /\ pass'.walk = e /\ pass'.read = r
      BY <1>1, <3>1 DEF Passes, PassPlaces
    <3>. QED  BY <3>2 DEF e, r
  <2>3. pass.how \in {"new", "replace"}
    BY <1>1, <1>4 DEF Passes, Hows
  <2>4. PassPlaced'
    BY <1>1, <2>2, <2>3, StatedTyped DEF PassPlaced, LogAsHeld, RecordsSize, store, Typed, bounds
  <2>5. Stated.mtime <= mtime
    <3>1. mtime \in Nat
      BY Parts, NaturalSizes
    <3>. QED  BY <3>1, StatedTyped
  <2>. QED  BY <1>1, <2>2, <2>4, <2>5, Parts, StatedTyped, NotHeldTyped, TypedAgain DEF store, bounds
<1>. QED  BY <1>2, <1>3, <1>4 DEF Check, End, Stated

\* Lines the log has none of are all kept, and so are any while none is committed.
LEMMA AllUnstored ==
  ASSUME NEW S, NEW s \in Seq(S), committed = 0 \/ Others(s, stored)
  PROVE  Unstored(s) = s
<1>. DEFINE n == Len(s)
<1>1. n \in Nat /\ DOMAIN s = 1..n /\ s = [k \in 1..n |-> s[k]]
  OBVIOUS
<1>2. {i \in DOMAIN s : \/ committed = 0 \/ s[i][1] \in Undated
                         \/ \A j \in DOMAIN stored : stored[j] # s[i]} = 1..n
  BY <1>1 DEF Others
<1>. HIDE DEF n
<1>3. \A i \in 0..n : Cardinality(1..i) = i
  <2> TAKE i \in 0..n
  <2>1. i \in Nat /\ 1 \in Int /\ i \in Int
    BY <1>1
  <2>2. Cardinality(1..i) = IF 1 > i THEN 0 ELSE i - 1 + 1
    BY <2>1, FS_Interval, Zenon
  <2>. QED  BY <2>1, <2>2
<1>4. Cardinality(1..n) = n
  BY <1>1, <1>3
<1>5. \A i \in 1..n : {j \in 1..n : j <= i} = 1..i
  BY <1>1
<1>6. \A i \in 1..n : Cardinality({j \in 1..n : j <= i}) = i
  <2> TAKE i \in 1..n
  <2>1. i \in 0..n
    BY <1>1
  <2>2. {j \in 1..n : j <= i} = 1..i
    BY <1>5
  <2>3. Cardinality(1..i) = i
    BY <1>3, <2>1
  <2>. QED  BY <2>2, <2>3, Zenon
<1>7. \A k \in 1..n : Nth(1..n, k) = k
  BY <1>6 DEF Nth
<1>8. Unstored(s) = [k \in 1..Cardinality(1..n) |-> s[Nth(1..n, k)]]
  BY <1>2 DEF Unstored
<1>. QED  BY <1>1, <1>4, <1>7, <1>8

\* The log with what a pass appends.
LEMMA RecordsAppended ==
  ASSUME Typed, OnceInv, AppendRecords
  PROVE  /\ UNCHANGED <<client, indexed, held, committed, bounds>>
         /\ pass.at = "commit" /\ pass.how \in {"append", "new"}
         /\ pass' \in Passes /\ pass'.at = "manifest" /\ pass'.how = pass.how
         /\ pass'.walk = pass.walk /\ pass'.read = pass.read
         /\ LogAsHeld /\ stored' = stored \o pass.read
<1>1. /\ UNCHANGED <<client, indexed, held, committed, bounds>>
      /\ pass.at = "commit" /\ pass.how \in {"append", "new"}
      /\ pass' = [pass EXCEPT !.at = "manifest"]
      /\ stored' = stored \o Unstored(pass.read)
  BY DEF AppendRecords
<1>2. Unstored(pass.read) = pass.read
  <2>1. pass.read \in Seq(Bytes)
    BY Parts DEF Passes
  <2>2. committed = 0 \/ Others(pass.read, stored)
    BY <1>1 DEF OnceInv, Typed, PassPlaced
  <2>. QED  BY <2>1, <2>2, AllUnstored
<1>3. /\ pass' \in Passes /\ pass'.at = "manifest" /\ pass'.how = pass.how
      /\ pass'.walk = pass.walk /\ pass'.read = pass.read
  BY <1>1, Parts DEF Passes, PassPlaces
<1>4. LogAsHeld
  BY <1>1 DEF Typed, PassPlaced
<1>. QED  BY <1>1, <1>2, <1>3, <1>4

\* So it is after an append to the log.
LEMMA AppendTyped ==
  ASSUME Typed, OnceInv, AppendRecords
  PROVE  Typed'
<1>1. /\ UNCHANGED <<client, indexed, held, committed, bounds>>
      /\ pass.at = "commit" /\ pass.how \in {"append", "new"}
      /\ pass' \in Passes /\ pass'.at = "manifest" /\ pass'.how = pass.how
      /\ pass'.walk = pass.walk /\ pass'.read = pass.read
      /\ LogAsHeld /\ stored' = stored \o pass.read
  BY RecordsAppended
<1>2. stored \in Seq(Bytes) /\ pass.read \in Seq(Bytes) /\ committed \in 0..Len(stored)
  BY Parts DEF Passes
<1>3. /\ stored' \in Seq(Bytes) /\ Len(stored') = Len(stored) + Len(pass.read)
      /\ \A k \in 1..Len(stored) : stored'[k] = stored[k]
      /\ \A k \in 1..Len(pass.read) : stored'[Len(stored) + k] = pass.read[k]
  <2>. DEFINE r == pass.read
              t == stored \o r
  <2>1. /\ t \in Seq(Bytes) /\ Len(t) = Len(stored) + Len(r)
        /\ \A k \in 1..Len(stored) : t[k] = stored[k]
        /\ \A k \in 1..Len(r) : t[Len(stored) + k] = r[k]
    <3>1. r \in Seq(Bytes)
      BY <1>2
    <3>. HIDE DEF r
    <3>. QED  BY <1>2, <3>1, Joined
  <2>2. stored' = t
    BY <1>1
  <2>. HIDE DEF t
  <2>. QED  BY <2>1, <2>2
<1>4. committed' \in 0..Len(stored')
  BY <1>1, <1>2, <1>3
<1>5. AllWritten(stored')
  <2>1. ASSUME NEW k \in DOMAIN stored'
        PROVE  Written(stored'[k])
    <3>1. k \in 1..(Len(stored) + Len(pass.read))
      BY <1>3
    <3>2. CASE k <= Len(stored)
      <4>1. k \in 1..Len(stored)
        BY <1>2, <3>1, <3>2
      <4>. QED  BY <1>2, <1>3, <4>1, Parts DEF AllWritten
    <3>3. CASE k > Len(stored)
      <4>1. k - Len(stored) \in 1..Len(pass.read) /\ Len(stored) + (k - Len(stored)) = k
        BY <1>2, <3>1, <3>3
      <4>2. stored'[k] = pass.read[k - Len(stored)]
        BY <1>3, <4>1
      <4>. QED  BY <1>2, <4>1, <4>2, Parts DEF AllWritten
    <3>. QED  BY <1>2, <3>1, <3>2, <3>3
  <2>. QED  BY <2>1 DEF AllWritten
<1>6. PassPlaced'
  BY <1>1 DEF PassPlaced, LogAsHeld, RecordsSize, Typed, bounds
<1>. QED  BY <1>1, <1>3, <1>4, <1>5, <1>6, Parts, TypedAgain DEF bounds

\* So it is after its manifest.
LEMMA CommitTyped ==
  ASSUME Typed, CommitManifest
  PROVE  Typed'
<1>1. /\ UNCHANGED <<client, indexed, stored, bounds>> /\ pass.at = "manifest"
      /\ held' = pass.walk /\ committed' = Len(stored) /\ pass' = Resting
  BY DEF CommitManifest, End
<1>2. pass.walk.known /\ pass.walk \in FileStates /\ committed' \in 0..Len(stored')
  BY <1>1, Parts DEF Typed, PassPlaced, LogAsHeld, RecordsSize, Passes
<1>3. PassPlaced'
  BY <1>1, <1>2 DEF PassPlaced, LogAsHeld, RecordsSize, Resting
<1>4. /\ pass' \in Passes /\ AllWritten(pass'.walk.sample.bytes) /\ AllWritten(pass'.read)
      /\ pass'.walk.mtime <= mtime
  <2>1. mtime \in Nat
    BY Parts, NaturalSizes
  <2>2. 0 <= mtime
    BY <2>1
  <2>. QED  BY <1>1, <2>2, NotHeldTyped DEF Resting, NotHeld
<1>. QED  BY <1>1, <1>2, <1>3, <1>4, Parts, TypedAgain DEF bounds

\* So it is after a replacement.
LEMMA ReplaceTyped ==
  ASSUME Typed, Replace
  PROVE  Typed'
<1>1. /\ UNCHANGED <<client, slipped, passKills>> /\ overlooked' = FALSE
      /\ pass.at = "commit" /\ indexed' = TRUE
      /\ stored' = pass.read /\ committed' = Len(pass.read)
      /\ held' = pass.walk /\ pass' = Resting
  BY DEF Replace, End
<1>2. /\ pass.walk.known /\ pass.walk \in FileStates /\ stored' \in Seq(Bytes)
      /\ committed' \in 0..Len(stored')
  BY <1>1, Parts DEF Typed, PassPlaced, LogAsHeld, RecordsSize, Passes
<1>3. PassPlaced'
  BY <1>1, <1>2 DEF PassPlaced, LogAsHeld, RecordsSize, Resting
<1>4. /\ pass' \in Passes /\ AllWritten(pass'.walk.sample.bytes) /\ AllWritten(pass'.read)
      /\ pass'.walk.mtime <= mtime
  <2>1. mtime \in Nat
    BY Parts, NaturalSizes
  <2>2. 0 <= mtime
    BY <2>1
  <2>. QED  BY <1>1, <2>2, NotHeldTyped DEF Resting, NotHeld
<1>. QED  BY <1>1, <1>2, <1>3, <1>4, Parts, TypedAgain

\* So it is after a kill.
LEMMA KillTyped ==
  ASSUME Typed, KillPass
  PROVE  Typed'
<1>1. passKills' \in 0..MaxPassKills /\ UNCHANGED <<client, store, slipped>> /\ pass' = Resting
  <2>1. passKills \in 0..MaxPassKills /\ passKills < MaxPassKills /\ passKills' = passKills + 1
    BY Parts DEF KillPass
  <2>. QED  BY <2>1, IngestAssumption DEF KillPass, End
<1>2. /\ overlooked' = (overlooked \/ (RecordsSize = 0 /\ Len(stored) > committed))
      /\ committed \in Nat /\ Len(stored) \in Nat /\ committed <= Len(stored)
      /\ overlooked \in BOOLEAN /\ (overlooked => ~Beside)
  BY Parts DEF KillPass
<1>3. RecordsSize = 0 => ~Beside
  BY <1>2 DEF RecordsSize
<1>4. /\ overlooked' \in BOOLEAN /\ (overlooked' => ~Beside)
      /\ RecordsSize = 0 /\ Len(stored) # committed => overlooked'
  <2>1. Len(stored) # committed => Len(stored) > committed
    BY <1>2
  <2>. QED  BY <1>2, <1>3, <2>1, Zenon
<1>. QED  BY <1>1, <1>4, RestTyped

\* So it is after a step of the client, which leaves the index alone.
LEMMA ClientTypedNext ==
  ASSUME Typed, ClientStep
  PROVE  Typed'
<1>1. Moved
  BY ClientStepMoves
<1>2. /\ ClientTyped' /\ FileLaid' /\ UNCHANGED <<store, pass, bounds>> /\ mtime' = mtime + 1
  BY <1>1 DEF Moved, ClientMoves
<1>3. PassPlaced'
  BY <1>2 DEF PassPlaced, LogAsHeld, RecordsSize, Typed, store, bounds
<1>4. /\ AllWritten(held.sample.bytes)' /\ AllWritten(pass.walk.sample.bytes)'
      /\ AllWritten(stored)' /\ AllWritten(pass.read)'
  BY <1>1, <1>2, MovedWritten, Parts DEF AllWritten, Written, store
<1>5. held'.mtime <= mtime' /\ pass'.walk.mtime <= mtime'
  <2>1. mtime \in Nat /\ held.mtime \in Nat /\ pass.walk.mtime \in Nat
    BY Parts, NaturalSizes DEF Passes, FileStates
  <2>. QED  BY <1>2, <2>1, Parts DEF store
<1>6. /\ IsFileState(held)' /\ IsFileState(pass.walk)' /\ held' \in FileStates /\ pass' \in Passes
  BY <1>2, Parts DEF Typed, IngestTypeOK, store, IsFileState, Passes, FileStates
<1>7. IngestTypeOK'
  BY <1>2, <1>5, <1>6 DEF ClientTyped, Typed, IngestTypeOK, store, bounds
<1>. QED  BY <1>2, <1>3, <1>4, <1>6, <1>7 DEF Typed

-----------------------------------------------------------------------------
\* No line twice.

\* What is committed, line by line.
LEMMA CommittedAt ==
  ASSUME Typed
  PROVE  /\ Committed \in Seq(Bytes) /\ Len(Committed) = committed /\ DOMAIN Committed = 1..committed
         /\ \A i \in 1..committed : Committed[i] = stored[i] /\ i \in DOMAIN stored
         /\ Len(stored) = committed => Committed = stored
         /\ AllWritten(Committed)
<1>1. stored \in Seq(Bytes) /\ committed \in 0..Len(stored) /\ Len(stored) \in Nat /\ AllWritten(stored)
  BY Parts
<1>2. /\ Committed \in Seq(Bytes) /\ Len(Committed) = committed
      /\ \A i \in 1..committed : Committed[i] = stored[i]
  BY <1>1, Prefix DEF Committed
<1>. HIDE DEF Committed
<1>3. DOMAIN Committed = 1..committed /\ DOMAIN stored = 1..Len(stored)
  BY <1>1, <1>2
<1>4. \A i \in 1..committed : i \in DOMAIN stored
  BY <1>1, <1>3
<1>5. Len(stored) = committed => Committed = stored
  BY <1>1, <1>2
<1>6. AllWritten(Committed)
  BY <1>1, <1>2, <1>3, <1>4 DEF AllWritten
<1>. QED  BY <1>2, <1>3, <1>4, <1>5, <1>6

\* A step that leaves the file and what is held of it alone, of a pass that has read
\* nothing: it has the size of the walk before, or that of the file.
LEMMA OnceQuiet ==
  ASSUME Typed, OnceInv, UNCHANGED <<client, stored, committed>>, held'.size = held.size,
         overlooked => overlooked', pass'.at \notin {"check", "commit", "manifest"},
         \/ pass'.at = "rest"
         \/ pass.at # "rest" /\ pass'.walk.size = pass.walk.size
         \/ pass'.walk.size = Len(transcript)
  PROVE  OnceInv'
<1>1. Committed' = Committed /\ transcript' = transcript /\ stored' = stored
  BY DEF Committed, client
<1>2. Past(stored, Len(transcript))
  <2>1. \A p \in DOMAIN transcript : ~(p > Len(transcript))
    BY Parts
  <2>. QED  BY <2>1 DEF Past
<1>3. pass'.at # "rest" => Past(stored, pass'.walk.size)
  BY <1>2 DEF OnceInv
<1>. QED  BY <1>1, <1>3 DEF OnceInv, Once, Past

\* A step of the client.
LEMMA OnceClient ==
  ASSUME Typed, OnceInv, ClientStep
  PROVE  OnceInv'
<1>1. Moved
  BY ClientStepMoves
<1>2. /\ held' = held /\ stored' = stored /\ committed' = committed /\ pass' = pass /\ Committed' = Committed
      /\ overlooked' = overlooked
  BY <1>1 DEF Moved, ClientMoves, store, Committed, bounds
<1>3. /\ Committed \in Seq(Bytes) /\ AllWritten(Committed) /\ held.size \in Nat
      /\ pass.read \in Seq(Bytes) /\ AllWritten(pass.read) /\ pass.walk.size \in Nat
      /\ stored \in Seq(Bytes) /\ AllWritten(stored)
  BY Parts, CommittedAt, NaturalSizes DEF Passes, FileStates
<1>4. \A i \in DOMAIN Committed, p \in DOMAIN transcript' : p > held.size => Committed[i] # transcript'[p]
  <2>1. Past(Committed, held.size)
    BY DEF OnceInv
  <2>. QED  BY <1>1, <1>3, <2>1, MovedPast
<1>5. pass.at \in {"check", "commit"} =>
        \A i \in DOMAIN pass.read, p \in DOMAIN transcript' : p > pass.walk.size => pass.read[i] # transcript'[p]
  <2>1. pass.at \in {"check", "commit"} => Past(pass.read, pass.walk.size)
    BY DEF OnceInv
  <2>. QED  BY <1>1, <1>3, <2>1, MovedPast
<1>6. pass.at # "rest" =>
        \A i \in DOMAIN stored, p \in DOMAIN transcript' : p > pass.walk.size => stored[i] # transcript'[p]
  <2>1. pass.at # "rest" => Past(stored, pass.walk.size)
    BY DEF OnceInv
  <2>. QED  BY <1>1, <1>3, <2>1, MovedPast
<1>7. /\ overlooked' \/ Once(Committed)'
      /\ Past(Committed, held.size)'
  BY <1>2, <1>4 DEF OnceInv, Once, Past
<1>8. (pass.at \in {"check", "commit"} =>
        /\ Once(pass.read) /\ Past(pass.read, pass.walk.size)
        /\ pass.how = "append" => committed = 0 \/ Others(pass.read, stored))'
  BY <1>2, <1>5 DEF OnceInv, Once, Past, Others
<1>9. /\ (pass.at # "rest" => Past(stored, pass.walk.size))'
      /\ (pass.at = "manifest" => overlooked \/ Once(stored))'
  BY <1>2, <1>6 DEF OnceInv, Once, Past
<1>. QED  BY <1>7, <1>8, <1>9 DEF OnceInv

\* What is read is behind what is held.
LEMMA OnceRead ==
  ASSUME Typed, OnceInv, Read
  PROVE  OnceInv'
<1>. DEFINE F == LinesOf(transcript, From, pass.walk.size)
<1>1. /\ UNCHANGED <<client, store, bounds>> /\ pass.at = "read" /\ pass' \in Passes
      /\ pass'.at = (IF pass.how = "rebuild" THEN "commit" ELSE "check")
      /\ pass'.how = pass.how /\ pass'.walk = pass.walk
      /\ pass'.read = F
      /\ From = (IF pass.how = "append" THEN held.size ELSE 0)
      /\ From \in Nat /\ pass.walk.size \in Nat
  BY ReadSteps
<1>2. transcript \in Seq(Bytes) /\ \A p, r \in DOMAIN transcript : transcript[p] = transcript[r] => p = r
  BY Parts DEF Typed, FileLaid
<1>3. Once(F)
  BY <1>1, <1>2, LinesApart
<1>4. \A k \in DOMAIN F : \A p \in DOMAIN transcript : p > pass.walk.size => F[k] # transcript[p]
  BY <1>1, <1>2, LinesApart
<1>5. \A k \in DOMAIN F : \E p \in DOMAIN transcript : p > From /\ F[k] = transcript[p]
  <2>1. \A k \in DOMAIN F : /\ LineAt(From, k) \in DOMAIN transcript /\ From < LineAt(From, k)
                            /\ F[k] = transcript[LineAt(From, k)]
    <3>1. PICK a \in Nat, b \in Nat : a = From /\ b = pass.walk.size
      BY <1>1
    <3>2. \A k \in DOMAIN LinesOf(transcript, a, b) :
            /\ LineAt(a, k) \in DOMAIN transcript /\ a < LineAt(a, k)
            /\ LinesOf(transcript, a, b)[k] = transcript[LineAt(a, k)]
      BY <1>2, LinesAt
    <3>. QED  BY <3>1, <3>2
  <2>2. \A k \in DOMAIN F : LineAt(From, k) > From
    <3>1. \A k \in DOMAIN F : LineAt(From, k) \in Nat
      BY <1>2, <2>1
    <3>. HIDE DEF F
    <3>. QED  BY <1>1, <2>1, <3>1
  <2>. HIDE DEF F
  <2>. QED  BY <2>1, <2>2
<1>. HIDE DEF F
<1>6. /\ Committed' = Committed /\ transcript' = transcript /\ stored' = stored /\ held' = held
      /\ committed' = committed /\ overlooked' = overlooked
  BY <1>1 DEF Committed, client, store, bounds
<1>7. pass.how = "append" => committed = 0 \/ Others(F, stored)
  <2> SUFFICES ASSUME pass.how = "append", committed # 0 PROVE Others(F, stored)
    OBVIOUS
  <2>1. Len(stored) = committed
    BY <1>1 DEF Typed, PassPlaced, LogAsHeld
  <2>2. Past(stored, held.size)
    BY <2>1, CommittedAt DEF OnceInv
  <2>. QED  BY <1>1, <1>5, <2>2 DEF Others, Past
<1>. QED  BY <1>1, <1>3, <1>4, <1>6, <1>7 DEF OnceInv, Once, Past, Others

\* What is committed is a part of the log that an append leaves.
LEMMA CommittedStays ==
  ASSUME Typed, stored' \in Seq(Bytes), committed' = committed, Len(stored') >= Len(stored),
         \A k \in 1..Len(stored) : stored'[k] = stored[k]
  PROVE  Committed' = Committed
<1>. DEFINE c == Committed
            d == SubSeq(stored', 1, committed)
<1>1. /\ stored \in Seq(Bytes) /\ committed \in 0..Len(stored) /\ committed \in 0..Len(stored')
      /\ Len(stored) \in Nat /\ Len(stored') \in Nat
  BY Parts
<1>2. c \in Seq(Bytes) /\ Len(c) = committed /\ \A k \in 1..committed : c[k] = stored[k]
  BY CommittedAt
<1>3. d \in Seq(Bytes) /\ Len(d) = committed /\ \A k \in 1..committed : d[k] = stored'[k]
  BY <1>1, Prefix
<1>4. \A k \in 1..committed : stored'[k] = stored[k]
  BY <1>1
<1>5. Committed' = d
  BY DEF Committed
<1>. HIDE DEF c, d
<1>6. d = c
  BY <1>1, <1>2, <1>3, <1>4
<1>. QED  BY <1>5, <1>6 DEF c

\* What a pass writes continues what is committed.
LEMMA OnceAppended ==
  ASSUME Typed, OnceInv, AppendRecords
  PROVE  OnceInv'
<1>. DEFINE r == pass.read
            n == Len(stored)
            t == stored'
<1>1. /\ UNCHANGED <<client, indexed, held, committed, bounds>>
      /\ pass.at = "commit" /\ pass.how \in {"append", "new"}
      /\ pass'.at = "manifest" /\ pass'.walk = pass.walk
      /\ LogAsHeld /\ stored' = stored \o r
  BY RecordsAppended
<1>2. stored \in Seq(Bytes) /\ r \in Seq(Bytes) /\ n \in Nat /\ pass.walk.size \in Nat /\ held.size \in Nat
  <2>1. stored \in Seq(Bytes) /\ n \in Nat
    BY Parts
  <2>2. held \in FileStates /\ pass.walk \in FileStates /\ r \in Seq(Bytes)
    BY Parts DEF Passes
  <2>. QED  BY <2>1, <2>2, NaturalSizes DEF FileStates
<1>3. /\ t \in Seq(Bytes) /\ Len(t) = n + Len(r)
      /\ \A k \in 1..n : t[k] = stored[k]
      /\ \A k \in 1..Len(r) : t[n + k] = r[k]
  <2>. DEFINE j == stored \o r
  <2>1. /\ j \in Seq(Bytes) /\ Len(j) = Len(stored) + Len(r)
        /\ \A k \in 1..Len(stored) : j[k] = stored[k]
        /\ \A k \in 1..Len(r) : j[Len(stored) + k] = r[k]
    <3>. HIDE DEF r
    <3>. QED  BY <1>2, Joined
  <2>2. t = j
    BY <1>1
  <2>. HIDE DEF j
  <2>. QED  BY <2>1, <2>2
<1>4. Past(stored, pass.walk.size) /\ (overlooked \/ Once(stored))
  <2>1. overlooked \/ Len(stored) = committed
    BY <1>1 DEF LogAsHeld
  <2>. QED  BY <1>1, <2>1, CommittedAt DEF OnceInv
<1>5. Once(r) /\ Past(r, pass.walk.size)
  BY <1>1 DEF OnceInv
<1>6. overlooked \/ Others(r, stored)
  <2>1. committed = 0 \/ Others(r, stored)
    BY <1>1 DEF OnceInv, Typed, PassPlaced
  <2>2. ~overlooked /\ committed = 0 => stored = << >>
    BY <1>1, <1>2 DEF LogAsHeld
  <2>. QED  BY <2>1, <2>2 DEF Others
<1>8. DOMAIN stored = 1..n /\ DOMAIN r = 1..Len(r) /\ DOMAIN t = 1..(n + Len(r)) /\ Len(r) \in Nat
  BY <1>2, <1>3
<1>9. transcript' = transcript /\ transcript \in Seq(Bytes)
  BY <1>1, Parts DEF client
<1>10. \A k \in DOMAIN t : \/ k \in DOMAIN stored /\ t[k] = stored[k]
                           \/ \E i \in DOMAIN r : k = n + i /\ t[k] = r[i]
  <2> TAKE k \in DOMAIN t
  <2>1. CASE k <= n
    <3>1. k \in 1..n
      BY <1>2, <1>8, <2>1
    <3>. QED  BY <1>3, <1>8, <3>1
  <2>2. CASE k > n
    <3>1. k - n \in 1..Len(r) /\ k = n + (k - n)
      BY <1>2, <1>8, <2>2
    <3>2. t[n + (k - n)] = r[k - n]
      BY <1>3, <3>1
    <3>. QED  BY <1>8, <3>1, <3>2
  <2>. QED  BY <1>2, <1>8, <2>1, <2>2
<1>11. Committed' = Committed
  BY <1>1, <1>2, <1>3, CommittedStays
<1>. HIDE DEF r, t, n
<1>12. overlooked \/ \A i, j \in DOMAIN t : t[i] = t[j] => i = j
  BY <1>4, <1>5, <1>6, <1>10 DEF Once, Others
<1>13. \A i \in DOMAIN t, p \in DOMAIN transcript : p > pass.walk.size => t[i] # transcript[p]
  BY <1>4, <1>5, <1>10 DEF Past
<1>14. held' = held /\ overlooked' = overlooked
  BY <1>1 DEF bounds
<1>. QED  BY <1>1, <1>9, <1>11, <1>12, <1>13, <1>14 DEF OnceInv, Once, Past, t

\* What a pass commits is what it wrote.
LEMMA OnceCommitted ==
  ASSUME Typed, OnceInv, CommitManifest \/ Replace
  PROVE  OnceInv'
<1>1. Typed'
  BY CommitTyped, ReplaceTyped
<1>2. /\ transcript' = transcript /\ pass' = Resting /\ held'.size = pass.walk.size
      /\ Len(stored') = committed' /\ Past(stored', pass.walk.size)
      /\ overlooked' \/ Once(stored')
  BY DEF CommitManifest, Replace, End, client, bounds, OnceInv
<1>3. Committed' = stored'
  <2>. DEFINE s == stored'
  <2>1. s \in Seq(Bytes) /\ Len(s) \in Nat
    BY <1>1 DEF Typed, IngestTypeOK
  <2>. HIDE DEF s
  <2>2. SubSeq(s, 1, Len(s)) = s
    BY <2>1
  <2>. QED  BY <1>2, <2>2 DEF Committed, s
<1>. QED  BY <1>2, <1>3 DEF OnceInv, Once, Past, Resting

-----------------------------------------------------------------------------
\* What is held is true.

\* The states held and walked, as the facts of the prover's arithmetic need them.
LEMMA StateParts ==
  ASSUME NEW f \in FileStates
  PROVE  f.size \in Nat /\ f.safe \in Nat /\ f.mtime \in Nat
  BY NaturalSizes DEF FileStates

\* The lines up to an offset the file is the same to.
LEMMA MovedLines ==
  ASSUME Typed, Moved, NEW from \in Nat, NEW n \in Nat, SameTo(n)
  PROVE  LinesOf(transcript', from, n) = LinesOf(transcript, from, n)
<1>1. transcript \in Seq(Bytes) /\ transcript' \in Seq(Bytes)
  BY Parts DEF Moved, ClientTyped
<1>2. n <= Len(transcript) /\ n <= Len(transcript') /\ \A p \in 1..n : transcript'[p] = transcript[p]
  BY DEF SameTo
<1>. QED  BY <1>1, <1>2, LinesSame

\* A state that fits the file before, of a part that is the same, fits it after.
LEMMA FitsAfter ==
  ASSUME Typed, Moved, NEW f \in FileStates, NEW n \in Nat, SameTo(n), f.safe <= n, Fits(f, transcript)
  PROVE  Fits(f, transcript')
<1>1. f.safe \in Nat /\ Len(transcript) \in Nat /\ Len(transcript') \in Nat
  BY StateParts, Parts DEF Moved, ClientTyped
<1>2. SameTo(f.safe)
  BY <1>1 DEF SameTo
<1>3. SubSeq(transcript', 1, f.safe) = SubSeq(transcript, 1, f.safe)
  BY <1>1, <1>2, SameSubSeq
<1>4. Least(f.safe, Len(transcript)) = f.safe /\ Least(f.safe, Len(transcript')) = f.safe
      /\ Len(transcript') >= f.safe
  BY <1>1, <1>2 DEF SameTo, Least
<1>. QED  BY <1>3, <1>4 DEF Fits

\* A step of the client.
LEMMA HeldMoved ==
  ASSUME Typed, Moved, HeldIn(held, Committed, transcript, mtime, overlooked)
  PROVE  HeldIn(held, Committed, transcript', mtime', overlooked)
<1>1. held \in FileStates /\ AllWritten(held.sample.bytes) /\ held.mtime <= mtime /\ held.size \in Nat
      /\ held.mtime \in Nat /\ mtime \in Nat /\ mtime' = mtime + 1
  BY Parts, StateParts, NaturalSizes DEF Moved, ClientMoves
<1>2. held.mtime # mtime'
  BY <1>1
<1>3. ASSUME held.known, SureOf(held, transcript', mtime')
      PROVE  overlooked \/ Committed = LinesOf(transcript', 0, held.size)
  <2>1. SureOf(held, transcript, mtime) /\ SameTo(held.size)
    BY <1>1, <1>3, MovedSure
  <2>2. LinesOf(transcript', 0, held.size) = LinesOf(transcript, 0, held.size)
    BY <1>1, <2>1, MovedLines
  <2>. QED  BY <1>3, <2>1, <2>2 DEF HeldIn
<1>. QED  BY <1>2, <1>3 DEF HeldIn

\* A walk's time is not the file's after it.
LEMMA WalkMoved ==
  ASSUME Typed, Moved, WalkIn(pass, transcript, mtime)
  PROVE  WalkIn(pass, transcript', mtime')
<1>1. pass.walk.mtime \in Nat /\ pass.walk.mtime <= mtime /\ mtime \in Nat /\ mtime' = mtime + 1
  BY Parts, StateParts, NaturalSizes DEF Moved, ClientMoves, Passes
<1>2. pass.walk.mtime # mtime'
  BY <1>1
<1>. QED  BY <1>2 DEF WalkIn

\* What is read stands for the same lines as long as the walk's sample fits.
LEMMA ReadMoved ==
  ASSUME Typed, Moved, ReadIn(pass, held, stored, transcript, mtime, overlooked)
  PROVE  ReadIn(pass, held, stored, transcript', mtime', overlooked)
<1> SUFFICES ASSUME SureOf(pass.walk, transcript', mtime')
             PROVE  /\ pass.at \in {"read", "check", "commit"} /\ pass.how = "append" => Fits(held, transcript')
                    /\ pass.at \in {"check", "commit"} =>
                         pass.read = LinesOf(transcript', IF pass.how = "append" THEN held.size ELSE 0, pass.walk.size)
                    /\ pass.at = "manifest" => overlooked \/ stored = LinesOf(transcript', 0, pass.walk.size)
  BY DEF ReadIn
<1>1. pass.walk \in FileStates /\ AllWritten(pass.walk.sample.bytes) /\ pass.walk.mtime <= mtime
      /\ pass.walk.size \in Nat /\ held \in FileStates /\ held.size \in Nat
  BY Parts, StateParts DEF Passes
<1>2. SureOf(pass.walk, transcript, mtime) /\ SameTo(pass.walk.size)
  BY <1>1, MovedSure
<1>3. /\ LinesOf(transcript', 0, pass.walk.size) = LinesOf(transcript, 0, pass.walk.size)
      /\ LinesOf(transcript', held.size, pass.walk.size) = LinesOf(transcript, held.size, pass.walk.size)
  BY <1>1, <1>2, MovedLines
<1>4. pass.how = "append" => held.safe <= pass.walk.size
  BY <1>1 DEF Typed, PassPlaced, LogAsHeld, RecordsSize
<1>5. pass.at \in {"read", "check", "commit"} /\ pass.how = "append" => Fits(held, transcript')
  BY <1>1, <1>2, <1>4, FitsAfter DEF ReadIn
<1>. QED  BY <1>2, <1>3, <1>5 DEF ReadIn

\* So the client leaves true what a pass and the index say of the file.
LEMMA TrueClient ==
  ASSUME Typed, TrueInv, ClientStep
  PROVE  TrueInv'
<1>1. Moved
  BY ClientStepMoves
<1>2. /\ held' = held /\ pass' = pass /\ stored' = stored /\ Committed' = Committed /\ slipped' = slipped
      /\ overlooked' = overlooked
  BY <1>1 DEF Moved, ClientMoves, store, bounds, Committed
<1> SUFFICES ASSUME ~slipped
             PROVE  /\ HeldIn(held, Committed, transcript', mtime', overlooked)
                    /\ WalkIn(pass, transcript', mtime')
                    /\ ReadIn(pass, held, stored, transcript', mtime', overlooked)
  BY <1>2, Zenon DEF TrueInv
<1>. QED  BY <1>1, HeldMoved, WalkMoved, ReadMoved DEF TrueInv

\* A pass that rests is true of anything.
LEMMA RestTrue ==
  \A t, m, h, s, o : WalkIn(Resting, t, m) /\ ReadIn(Resting, h, s, t, m, o)
  BY DEF WalkIn, ReadIn, Resting, Sampled

\* The steps of a pass that leave what is held.
LEMMA TrueStat ==
  ASSUME Typed, TrueInv, Stat
  PROVE  TrueInv'
<1>1. /\ pass' \in Passes /\ UNCHANGED <<client, store, bounds>>
      /\ \/ /\ held.known /\ held.size = Len(transcript) /\ held.mtime = mtime
            /\ pass'.at = "decide" /\ pass'.walk = held
         \/ pass'.at = "safe" /\ pass'.walk = Stated
  BY StatSteps
<1>2. /\ held' = held /\ stored' = stored /\ Committed' = Committed /\ slipped' = slipped
      /\ overlooked' = overlooked
      /\ transcript' = transcript /\ mtime' = mtime
  BY <1>1 DEF client, store, bounds, Committed
<1> SUFFICES ASSUME ~slipped
             PROVE  WalkIn(pass', transcript, mtime) /\ ReadIn(pass', held, stored, transcript, mtime, overlooked)
  BY <1>2, Zenon DEF TrueInv
<1>3. HeldIn(held, Committed, transcript, mtime, overlooked)
  BY DEF TrueInv
<1>. QED  BY <1>1, <1>3, StatedTyped DEF HeldIn, WalkIn, ReadIn, Sampled

\* A walk that finds the file no shorter finds an offset that ends a line.
LEMMA TrueFindSafe ==
  ASSUME Typed, TrueInv, FindSafe
  PROVE  TrueInv'
<1>. DEFINE e == CompleteTo(pass.walk.size)
<1>1. /\ pass \in Passes /\ pass.at = "safe" /\ UNCHANGED <<client, store, overlooked, passKills>>
      /\ pass' = [pass EXCEPT !.at = "sample", !.walk.safe = e]
      /\ slipped' = (slipped \/ Len(transcript) < pass.walk.size)
  BY Parts DEF FindSafe
<1>2. /\ held' = held /\ stored' = stored /\ Committed' = Committed
      /\ transcript' = transcript /\ mtime' = mtime
  BY <1>1 DEF client, store, Committed
<1> SUFFICES ASSUME ~slipped, ~(Len(transcript) < pass.walk.size)
             PROVE  WalkIn(pass', transcript, mtime) /\ ReadIn(pass', held, stored, transcript, mtime, overlooked)
  BY <1>1, <1>2, Zenon DEF TrueInv
<1>3. pass.walk.size \in Sizes /\ pass.walk.size \in Nat /\ Len(transcript) \in Nat
  BY <1>1, Parts, StateParts DEF Passes, FileStates
<1>4. e \in 0..pass.walk.size /\ e % 3 = 0
  BY <1>3, CompleteSize
<1>. HIDE DEF e
<1>5. pass'.at = "sample" /\ pass'.walk = [pass.walk EXCEPT !.safe = e]
  BY <1>1 DEF Passes
<1>6. pass'.walk.safe = e /\ pass'.walk.size = pass.walk.size /\ pass'.walk.mtime = pass.walk.mtime
  BY <1>1, <1>5 DEF Passes, FileStates
<1>7. WalkIn(pass, transcript, mtime)
  BY DEF TrueInv
<1>8. WalkIn(pass', transcript, mtime)
  BY <1>1, <1>3, <1>4, <1>5, <1>6, <1>7 DEF WalkIn, Sampled
<1>9. ReadIn(pass', held, stored, transcript, mtime, overlooked)
  BY <1>5 DEF ReadIn
<1>. QED  BY <1>8, <1>9

\* A sample of a file that has not changed since its stat fits it.
LEMMA TrueTakeSample ==
  ASSUME Typed, TrueInv, TakeSample
  PROVE  TrueInv'
<1>. DEFINE e == Sample(pass.walk.safe)
<1>1. /\ pass \in Passes /\ pass.at = "sample" /\ UNCHANGED <<client, store, bounds>>
      /\ pass' = [pass EXCEPT !.at = IF pass.how = "none" THEN "decide" ELSE "read", !.walk.sample = e]
      /\ pass.how # "append"
  BY Parts DEF TakeSample, Typed, PassPlaced, LogAsHeld, RecordsSize
<1>2. /\ held' = held /\ stored' = stored /\ Committed' = Committed /\ slipped' = slipped
      /\ overlooked' = overlooked
      /\ transcript' = transcript /\ mtime' = mtime
  BY <1>1 DEF client, store, bounds, Committed
<1> SUFFICES ASSUME ~slipped
             PROVE  WalkIn(pass', transcript, mtime) /\ ReadIn(pass', held, stored, transcript, mtime, overlooked)
  BY <1>2, Zenon DEF TrueInv
<1>3. pass.walk.size \in Nat /\ pass.walk.safe \in Nat /\ Len(transcript) \in Nat
  BY <1>1, Parts, StateParts DEF Passes
<1>4. e = [to |-> pass.walk.safe, bytes |-> SubSeq(transcript, 1, Least(pass.walk.safe, Len(transcript)))]
  BY DEF Sample
<1>5. e.to = pass.walk.safe
  BY <1>4
<1>. HIDE DEF e
<1>6. /\ pass'.at \in {"decide", "read"} /\ pass'.how = pass.how
      /\ pass'.walk = [pass.walk EXCEPT !.sample = e]
  BY <1>1 DEF Passes
<1>7. /\ pass'.walk.safe = pass.walk.safe /\ pass'.walk.size = pass.walk.size
      /\ pass'.walk.mtime = pass.walk.mtime /\ pass'.walk.sample = e
  BY <1>1, <1>6 DEF Passes, FileStates
<1>8. /\ pass.walk.mtime = mtime => pass.walk.size = Len(transcript)
      /\ pass.walk.safe <= pass.walk.size /\ pass.walk.safe % 3 = 0
  BY <1>1 DEF TrueInv, WalkIn
<1>9. pass.walk.mtime = mtime => Fits(pass'.walk, transcript)
  BY <1>3, <1>4, <1>7, <1>8 DEF Fits
<1>10. WalkIn(pass', transcript, mtime)
  BY <1>5, <1>6, <1>7, <1>8, <1>9 DEF WalkIn
<1>11. ReadIn(pass', held, stored, transcript, mtime, overlooked)
  BY <1>1, <1>6 DEF ReadIn
<1>. QED  BY <1>10, <1>11

\* What a file says of itself when a pass appends to what is held of it.
LEMMA AppendFits ==
  ASSUME Typed, HeldIn(held, Committed, transcript, mtime, overlooked), WalkIn(pass, transcript, mtime),
         pass.at = "decide", CanAppend, SureOf(pass.walk, transcript, mtime)
  PROVE  Fits(held, transcript)
<1>1. /\ held.size \in Nat /\ held.safe \in Nat /\ pass.walk.size \in Nat /\ pass.walk.safe \in Nat
      /\ Len(transcript) \in Nat /\ transcript \in Seq(Bytes)
  BY Parts, StateParts DEF Passes
<1>2. held.known /\ held.size < pass.walk.size /\ held.safe = held.size /\ held.sample.to = held.safe
  BY DEF CanAppend, HeldIn
<1>3. pass.walk.size <= Len(transcript)
  BY <1>1 DEF SureOf, Fits, WalkIn, Sampled
<1>4. held.safe <= Len(transcript)
  BY <1>1, <1>2, <1>3
<1>5. CASE held.sample = NoSample
  <2>1. held.safe = 0
    BY <1>2, <1>5 DEF NoSample
  <2>2. Least(0, Len(transcript)) = 0
    BY <1>1 DEF Least
  <2>3. SubSeq(transcript, 1, 0) = << >>
    BY <1>1
  <2>. QED  BY <1>4, <1>5, <2>1, <2>2, <2>3 DEF Fits, NoSample
<1>6. CASE held.sample # NoSample
  BY <1>4, <1>6 DEF CanAppend, Sample, Fits
<1>. QED  BY <1>5, <1>6

\* A file that was touched, recorded as it is now.
LEMMA TouchTrue ==
  ASSUME Typed, HeldIn(held, Committed, transcript, mtime, overlooked), WalkIn(pass, transcript, mtime),
         pass.at = "decide", TouchedOnly, NEW h, h = [held EXCEPT !.mtime = pass.walk.mtime]
  PROVE  HeldIn(h, Committed, transcript, mtime, overlooked)
<1>1. /\ held \in FileStates /\ h.size = held.size /\ h.safe = held.safe /\ h.sample = held.sample
      /\ h.mtime = pass.walk.mtime /\ h.known = held.known
  BY Parts DEF FileStates
<1>2. held.known /\ held.size = pass.walk.size /\ held.safe = held.size /\ pass.walk.safe = pass.walk.size
      /\ held.sample = pass.walk.sample
  BY DEF TouchedOnly
<1>3. pass.walk.mtime = mtime => Fits(held, transcript) /\ held.size = Len(transcript)
  <2>1. pass.walk.mtime = mtime => Fits(pass.walk, transcript) /\ pass.walk.size = Len(transcript)
    BY DEF WalkIn, Sampled
  <2>. QED  BY <1>2, <2>1 DEF Fits
<1>4. Fits(h, transcript) <=> Fits(held, transcript)
  BY <1>1 DEF Fits
<1>5. SureOf(h, transcript, mtime) => SureOf(held, transcript, mtime)
  BY <1>1, <1>2, <1>3, <1>4 DEF SureOf
<1>. QED  BY <1>1, <1>2, <1>3, <1>4, <1>5 DEF HeldIn

\* A pass that decides to append appends to what fits the file.
LEMMA TrueDecide ==
  ASSUME Typed, TrueInv, Decide
  PROVE  TrueInv'
<1>1. /\ pass.at = "decide" /\ pass \in Passes
      /\ UNCHANGED <<client, indexed, stored, committed, bounds>>
      /\ \/ /\ How \in {"none", "touch"} /\ pass' = Resting
         \/ /\ How \in {"rebuild", "new", "append", "replace"} /\ held' = held
            /\ pass' = [pass EXCEPT !.at = "read", !.how = How]
      /\ held' = IF How = "touch" THEN [held EXCEPT !.mtime = pass.walk.mtime] ELSE held
  BY DecideSteps, Parts
<1>2. /\ stored' = stored /\ Committed' = Committed /\ slipped' = slipped
      /\ overlooked' = overlooked
      /\ transcript' = transcript /\ mtime' = mtime
  BY <1>1 DEF client, bounds, Committed
<1> SUFFICES ASSUME ~slipped
             PROVE  /\ HeldIn(held', Committed, transcript, mtime, overlooked)
                    /\ WalkIn(pass', transcript, mtime) /\ ReadIn(pass', held', stored, transcript, mtime, overlooked)
  BY <1>2, Zenon DEF TrueInv
<1>3. HeldIn(held, Committed, transcript, mtime, overlooked) /\ WalkIn(pass, transcript, mtime)
  BY DEF TrueInv
<1>4. HeldIn(held', Committed, transcript, mtime, overlooked)
  <2>1. CASE How = "touch"
    <3>1. TouchedOnly
      BY <2>1, HowOf
    <3>2. held' = [held EXCEPT !.mtime = pass.walk.mtime]
      BY <1>1, <2>1
    <3>. QED  BY <1>1, <1>3, <3>1, <3>2, TouchTrue
  <2>2. CASE How # "touch"
    BY <1>1, <1>3, <2>2
  <2>. QED  BY <2>1, <2>2
<1>5. CASE pass' = Resting
  BY <1>4, <1>5, RestTrue, Zenon
<1>6. CASE /\ How \in {"rebuild", "new", "append", "replace"} /\ held' = held
           /\ pass' = [pass EXCEPT !.at = "read", !.how = How]
  <2>1. pass'.at = "read" /\ pass'.how = How /\ pass'.walk = pass.walk
    BY <1>1, <1>6 DEF Passes
  <2>2. WalkIn(pass', transcript, mtime)
    BY <1>1, <1>3, <2>1 DEF WalkIn, Sampled
  <2>3. How = "append" /\ SureOf(pass.walk, transcript, mtime) => Fits(held, transcript)
    BY <1>1, <1>3, HowOf, AppendFits
  <2>4. ReadIn(pass', held', stored, transcript, mtime, overlooked)
    BY <1>6, <2>1, <2>3 DEF ReadIn
  <2>. QED  BY <1>4, <2>2, <2>4
<1>. QED  BY <1>1, <1>5, <1>6

\* What is read is what the file has up to the size of the walk.
LEMMA TrueRead ==
  ASSUME Typed, TrueInv, Read
  PROVE  TrueInv'
<1>1. /\ UNCHANGED <<client, store, bounds>> /\ pass.at = "read"
      /\ pass'.at \in {"commit", "check"}
      /\ pass'.how = pass.how /\ pass'.walk = pass.walk
      /\ pass'.read = LinesOf(transcript, From, pass.walk.size)
      /\ From = (IF pass.how = "append" THEN held.size ELSE 0)
  BY ReadSteps
<1>2. /\ held' = held /\ stored' = stored /\ Committed' = Committed /\ slipped' = slipped
      /\ overlooked' = overlooked
      /\ transcript' = transcript /\ mtime' = mtime
  BY <1>1 DEF client, store, bounds, Committed
<1> SUFFICES ASSUME ~slipped
             PROVE  WalkIn(pass', transcript, mtime) /\ ReadIn(pass', held, stored, transcript, mtime, overlooked)
  BY <1>2, Zenon DEF TrueInv
<1>3. WalkIn(pass, transcript, mtime) /\ ReadIn(pass, held, stored, transcript, mtime, overlooked)
  BY DEF TrueInv
<1>4. WalkIn(pass', transcript, mtime)
  BY <1>1, <1>3 DEF WalkIn, Sampled
<1>5. ReadIn(pass', held, stored, transcript, mtime, overlooked)
  BY <1>1, <1>3 DEF ReadIn
<1>. QED  BY <1>4, <1>5

\* A second look leaves what was read, or throws it away.
LEMMA TrueCheck ==
  ASSUME Typed, TrueInv, Check
  PROVE  TrueInv'
<1>1. UNCHANGED <<client, store, bounds>> /\ pass.at = "check" /\ pass \in Passes
  BY Parts DEF Check
<1>2. /\ held' = held /\ stored' = stored /\ Committed' = Committed /\ slipped' = slipped
      /\ overlooked' = overlooked
      /\ transcript' = transcript /\ mtime' = mtime
  BY <1>1 DEF client, store, bounds, Committed
<1> SUFFICES ASSUME ~slipped
             PROVE  WalkIn(pass', transcript, mtime) /\ ReadIn(pass', held, stored, transcript, mtime, overlooked)
  BY <1>2, Zenon DEF TrueInv
<1>3. WalkIn(pass, transcript, mtime) /\ ReadIn(pass, held, stored, transcript, mtime, overlooked)
  BY DEF TrueInv
<1>4. CASE pass' = [pass EXCEPT !.at = "commit"]
  <2>1. /\ pass'.at = "commit" /\ pass'.how = pass.how /\ pass'.walk = pass.walk /\ pass'.read = pass.read
    BY <1>1, <1>4 DEF Passes
  <2>2. WalkIn(pass', transcript, mtime)
    BY <1>1, <1>3, <2>1 DEF WalkIn, Sampled
  <2>3. ReadIn(pass', held, stored, transcript, mtime, overlooked)
    BY <1>1, <1>3, <2>1 DEF ReadIn
  <2>. QED  BY <2>2, <2>3
<1>5. CASE pass' = Resting
  BY <1>5, RestTrue, Zenon
<1>6. CASE pass' = [pass EXCEPT !.at = "safe", !.tries = @ + 1, !.read = << >>, !.walk = Stated]
  <2>1. pass'.at = "safe" /\ pass'.walk = Stated
    BY <1>1, <1>6 DEF Passes
  <2>. QED  BY <2>1, StatedTyped DEF WalkIn, ReadIn, Sampled
<1>. QED  BY <1>4, <1>5, <1>6 DEF Check, End, Stated

\* What a pass writes after what is committed is the rest of the file.
LEMMA TrueAppended ==
  ASSUME Typed, OnceInv, TrueInv, AppendRecords
  PROVE  TrueInv'
<1>. DEFINE n == pass.walk.size
            m == held.size
<1>1. /\ UNCHANGED <<client, indexed, held, committed, bounds>>
      /\ pass.at = "commit" /\ pass.how \in {"append", "new"}
      /\ pass'.at = "manifest" /\ pass'.walk = pass.walk
      /\ LogAsHeld /\ stored' = stored \o pass.read
  BY RecordsAppended
<1>2. /\ stored \in Seq(Bytes) /\ transcript \in Seq(Bytes) /\ pass.read \in Seq(Bytes)
      /\ Len(transcript) \in Nat /\ n \in Nat /\ m \in Nat /\ pass.walk.safe \in Nat
  BY Parts, StateParts DEF Passes
<1>3. Committed' = Committed
  <2>1. PICK r \in Seq(Bytes) : r = pass.read
    BY <1>2
  <2>2. /\ stored \o r \in Seq(Bytes) /\ Len(stored \o r) = Len(stored) + Len(r)
        /\ \A k \in 1..Len(stored) : (stored \o r)[k] = stored[k]
    BY <1>2, Joined
  <2>3. Len(stored) \in Nat /\ Len(r) \in Nat
    BY <1>2
  <2>4. stored' = stored \o r
    BY <1>1, <2>1
  <2>. QED  BY <1>1, <2>2, <2>3, <2>4, CommittedStays
<1>4. held' = held /\ slipped' = slipped /\ overlooked' = overlooked /\ transcript' = transcript /\ mtime' = mtime
  BY <1>1 DEF client, bounds
<1> SUFFICES ASSUME ~slipped
             PROVE  WalkIn(pass', transcript, mtime) /\ ReadIn(pass', held, stored', transcript, mtime, overlooked)
  BY <1>3, <1>4, Zenon DEF TrueInv
<1>5. /\ HeldIn(held, Committed, transcript, mtime, overlooked) /\ WalkIn(pass, transcript, mtime)
      /\ ReadIn(pass, held, stored, transcript, mtime, overlooked)
  BY DEF TrueInv
<1>6. WalkIn(pass', transcript, mtime)
  BY <1>1, <1>5 DEF WalkIn, Sampled
<1>7. ASSUME SureOf(pass.walk, transcript, mtime), ~overlooked
      PROVE  stored' = LinesOf(transcript, 0, n)
  <2>1. n <= Len(transcript)
    BY <1>1, <1>2, <1>5, <1>7 DEF SureOf, Fits, WalkIn
  <2>2. CASE pass.how = "append"
    <3>1. held.known /\ held.safe = m /\ m < n /\ Fits(held, transcript)
      BY <1>1, <1>5, <1>7, <2>2 DEF Typed, PassPlaced, LogAsHeld, RecordsSize, ReadIn
    <3>2. m % 3 = 0 /\ stored = LinesOf(transcript, 0, m)
      BY <1>1, <1>5, <1>7, <3>1, CommittedAt DEF HeldIn, SureOf, LogAsHeld
    <3>3. pass.read = LinesOf(transcript, m, n)
      BY <1>1, <1>5, <1>7, <2>2 DEF ReadIn
    <3>. HIDE DEF m, n
    <3>4. LinesOf(transcript, 0, m) \o LinesOf(transcript, m, n) = LinesOf(transcript, 0, n)
      <4>1. m <= n
        BY <1>2, <3>1
      <4>. QED  BY <1>2, <2>1, <3>2, <4>1, LinesJoin
    <3>5. stored \o pass.read = LinesOf(transcript, 0, m) \o LinesOf(transcript, m, n)
      BY <3>2, <3>3, Zenon
    <3>. QED  BY <1>1, <3>4, <3>5, Zenon
  <2>3. CASE pass.how = "new"
    <3>1. Len(stored) = 0
      BY <1>1, <1>7, <2>3 DEF Typed, PassPlaced, LogAsHeld
    <3>2. stored = << >>
      BY <1>2, <3>1
    <3>3. pass.read = LinesOf(transcript, 0, n)
      BY <1>1, <1>5, <1>7, <2>3 DEF ReadIn
    <3>4. PICK r \in Seq(Bytes) : r = pass.read
      BY <1>2
    <3>5. << >> \o r = r
      BY <3>4
    <3>. QED  BY <1>1, <3>2, <3>3, <3>4, <3>5, Zenon
  <2>. QED  BY <1>1, <2>2, <2>3
<1>8. ReadIn(pass', held, stored', transcript, mtime, overlooked)
  BY <1>1, <1>7 DEF ReadIn
<1>. QED  BY <1>6, <1>8

\* What is committed with a walk's state is what the state stands for.
LEMMA TrueCommitted ==
  ASSUME Typed, TrueInv, CommitManifest \/ Replace
  PROVE  TrueInv'
<1>1. /\ UNCHANGED <<client, slipped>> /\ held' = pass.walk /\ pass' = Resting
      /\ committed' = Len(stored')
      /\ \/ pass.at = "manifest" /\ stored' = stored /\ overlooked' = overlooked
         \/ pass.at = "commit" /\ pass.how # "append" /\ stored' = pass.read
  BY DEF CommitManifest, Replace, End, bounds
<1>2. Typed'
  BY CommitTyped, ReplaceTyped
<1>3. Committed' = stored'
  <2>. DEFINE s == stored'
  <2>1. s \in Seq(Bytes) /\ Len(s) \in Nat
    BY <1>2 DEF Typed, IngestTypeOK
  <2>. HIDE DEF s
  <2>2. SubSeq(s, 1, Len(s)) = s
    BY <2>1
  <2>. QED  BY <1>1, <2>2 DEF Committed, s
<1>4. slipped' = slipped /\ transcript' = transcript /\ mtime' = mtime
  BY <1>1 DEF client
<1> SUFFICES ASSUME ~slipped
             PROVE  /\ HeldIn(pass.walk, stored', transcript, mtime, overlooked')
                    /\ WalkIn(Resting, transcript, mtime)
                    /\ ReadIn(Resting, held', stored', transcript, mtime, overlooked')
  <2>1. held' = pass.walk /\ pass' = Resting /\ Committed' = stored'
    BY <1>1, <1>3
  <2>. QED  BY <2>1, <1>4, Zenon DEF TrueInv
<1>5. WalkIn(pass, transcript, mtime) /\ ReadIn(pass, held, stored, transcript, mtime, overlooked)
  BY DEF TrueInv
<1>6. SureOf(pass.walk, transcript, mtime) => overlooked' \/ stored' = LinesOf(transcript, 0, pass.walk.size)
  BY <1>1, <1>5 DEF ReadIn
<1>7. HeldIn(pass.walk, stored', transcript, mtime, overlooked')
  BY <1>1, <1>5, <1>6 DEF HeldIn, WalkIn, Sampled
<1>. QED  BY <1>7, RestTrue, Zenon

\* A kill leaves what is committed.
LEMMA TrueKilled ==
  ASSUME TrueInv, KillPass
  PROVE  TrueInv'
<1>1. /\ held' = held /\ stored' = stored /\ Committed' = Committed /\ slipped' = slipped
      /\ transcript' = transcript /\ mtime' = mtime /\ pass' = Resting
      /\ (overlooked => overlooked')
  BY DEF KillPass, End, client, store, Committed
<1>2. HeldIn(held, Committed, transcript, mtime, overlooked)
        => HeldIn(held, Committed, transcript, mtime, overlooked')
  BY <1>1 DEF HeldIn
<1>. QED  BY <1>1, <1>2, RestTrue, Zenon DEF TrueInv

-----------------------------------------------------------------------------
\* The inductive invariant of the transcript and its index.
IngestInv == Typed /\ OnceInv /\ TrueInv

\* It holds at first.
LEMMA IngestInvInit ==
  ASSUME IngestInit
  PROVE  IngestInv
<1>1. /\ transcript = << >> /\ mtime = 0 /\ said = 0 /\ rewinds = 0 /\ indexed \in BOOLEAN
      /\ held = NotHeld /\ stored = << >> /\ committed = 0 /\ pass = Resting /\ slipped = FALSE
      /\ overlooked = FALSE /\ passKills = 0
  BY DEF IngestInit
<1>2. Len(transcript) = 0 /\ Len(stored) = 0 /\ transcript \in Seq(Bytes) /\ stored \in Seq(Bytes)
      /\ DOMAIN transcript = {} /\ DOMAIN stored = {}
  BY <1>1
<1>3. /\ held.mtime = 0 /\ held.size = 0 /\ ~held.known /\ pass.at = "rest" /\ pass.how = "none"
      /\ pass.walk = NotHeld /\ pass.read = << >> /\ pass.tries = 0
  BY <1>1 DEF NotHeld, Resting
<1>4. IsFileState(NotHeld) /\ held \in FileStates /\ pass \in Passes
  BY <1>1, NotHeldTyped DEF FileStates, IsFileState
<1>5. IngestTypeOK
  <2>1. 0 \in Sizes /\ 0 \in MTimes /\ 0 \in 0..MaxLines /\ 0 \in 0..MaxRewinds /\ 0 \in 0..MaxPassKills
        /\ 0 \in 0..0 /\ 0 <= 0 /\ ~(0 < 0) /\ 0 \in 0..2
    BY IngestAssumption DEF Sizes, MTimes
  <2>2. pass.walk.mtime = 0
    BY <1>3 DEF NotHeld
  <2>. QED  BY <1>1, <1>2, <1>3, <1>4, <2>1, <2>2 DEF IngestTypeOK
<1>6. FileLaid
  <2>1. ~LineOpen
    BY <1>2 DEF LineOpen
  <2>. QED  BY <1>1, <1>2, <2>1 DEF FileLaid, AllWritten
<1>7. PassPlaced
  BY <1>1, <1>3 DEF PassPlaced, LogAsHeld, RecordsSize
<1>8. Typed
  BY <1>1, <1>3, <1>4, <1>5, <1>6, <1>7, NotHeldTyped DEF Typed
<1>9. OnceInv
  <2>1. DOMAIN Committed = {}
    BY <1>1, <1>8, CommittedAt
  <2>. QED  BY <1>3, <2>1 DEF OnceInv, Once, Past
<1>10. TrueInv
  BY <1>1, <1>3, RestTrue DEF TrueInv, HeldIn
<1>. QED  BY <1>8, <1>9, <1>10 DEF IngestInv

\* Every step keeps it.
LEMMA IngestInvNext ==
  ASSUME IngestInv, [IngestNext]_ingestVars
  PROVE  IngestInv'
<1>. USE DEF IngestInv
<1>1. CASE ClientStep
  BY <1>1, ClientTypedNext, OnceClient, TrueClient
<1>2. CASE Stat
  <2>1. OnceInv'
    BY <1>2, StatSteps, StatedTyped, OnceQuiet DEF store, bounds, Stat
  <2>. QED  BY <1>2, <2>1, StatTyped, TrueStat
<1>3. CASE FindSafe
  <2>1. OnceInv'
    <3>1. pass'.at = "sample" /\ pass'.walk.size = pass.walk.size
      BY <1>3, Parts DEF FindSafe, Passes, FileStates
    <3>. QED  BY <1>3, <3>1, OnceQuiet DEF FindSafe, store
  <2>. QED  BY <1>3, <2>1, FindSafeTyped, TrueFindSafe
<1>4. CASE TakeSample
  <2>1. OnceInv'
    <3>1. pass'.at \in {"decide", "read"} /\ pass'.walk.size = pass.walk.size
      BY <1>4, Parts DEF TakeSample, Passes, FileStates
    <3>. QED  BY <1>4, <3>1, OnceQuiet DEF TakeSample, store, bounds
  <2>. QED  BY <1>4, <2>1, TakeSampleTyped, TrueTakeSample
<1>5. CASE Decide
  <2>1. OnceInv'
    <3>1. pass'.at = "rest" \/ (pass'.at = "read" /\ pass'.walk = pass.walk)
      <4>1. CASE pass' = Resting
        BY <4>1 DEF Resting
      <4>2. CASE pass' = [pass EXCEPT !.at = "read", !.how = How]
        BY <4>2, Parts DEF Passes
      <4>. QED  BY <1>5, <4>1, <4>2, DecideSteps
    <3>2. held'.size = held.size
      BY <1>5, DecideSteps, Parts DEF FileStates
    <3>. QED  BY <1>5, <3>1, <3>2, DecideSteps, OnceQuiet DEF bounds
  <2>. QED  BY <1>5, <2>1, DecideTyped, TrueDecide
<1>6. CASE Read
  BY <1>6, ReadTyped, OnceRead, TrueRead
<1>7. CASE Check
  <2>1. OnceInv'
    <3>1. UNCHANGED <<client, store, bounds>> /\ pass.at = "check" /\ pass \in Passes
      BY <1>7, Parts DEF Check
    <3>2. CASE pass' = [pass EXCEPT !.at = "commit"]
      <4>1. pass'.at = "commit" /\ pass'.how = pass.how /\ pass'.walk = pass.walk /\ pass'.read = pass.read
        BY <3>1, <3>2 DEF Passes
      <4>2. Committed' = Committed
        BY <3>1 DEF store, Committed
      <4>. QED  BY <3>1, <4>1, <4>2 DEF OnceInv, Once, Past, Others, store, client, bounds
    <3>3. CASE pass'.at = "rest" \/ (pass'.at = "safe" /\ pass'.walk = Stated)
      BY <3>1, <3>3, StatedTyped, OnceQuiet DEF store, bounds
    <3>4. \/ pass' = [pass EXCEPT !.at = "commit"]
          \/ pass'.at = "rest" \/ (pass'.at = "safe" /\ pass'.walk = Stated)
      <4>1. CASE pass' = Resting
        BY <4>1 DEF Resting
      <4>2. CASE pass' = [pass EXCEPT !.at = "safe", !.tries = @ + 1, !.read = << >>, !.walk = Stated]
        BY <3>1, <4>2 DEF Passes
      <4>. QED  BY <1>7, <4>1, <4>2 DEF Check, End, Stated
    <3>. QED  BY <3>2, <3>3, <3>4
  <2>. QED  BY <1>7, <2>1, CheckTyped, TrueCheck
<1>8. CASE AppendRecords
  BY <1>8, AppendTyped, OnceAppended, TrueAppended
<1>9. CASE CommitManifest \/ Replace
  BY <1>9, CommitTyped, ReplaceTyped, OnceCommitted, TrueCommitted
<1>10. CASE KillPass
  <2>1. OnceInv'
    <3>1. pass'.at = "rest" /\ UNCHANGED <<client, store>> /\ (overlooked => overlooked')
      BY <1>10 DEF KillPass, End, Resting
    <3>. QED  BY <3>1, OnceQuiet DEF store
  <2>. QED  BY <1>10, <2>1, KillTyped, TrueKilled
<1>11. CASE UNCHANGED ingestVars
  <2>1. UNCHANGED <<transcript, mtime, said, rewinds, indexed, held, stored, committed, pass, slipped, overlooked, passKills>>
    BY <1>11 DEF ingestVars, client, store, bounds
  <2>2. Committed' = Committed /\ LineOpen' = LineOpen
    BY <2>1 DEF Committed, LineOpen
  <2>3. Typed'
    BY <2>1, <2>2 DEF Typed, IngestTypeOK, PassPlaced, LogAsHeld, RecordsSize, FileLaid, AllWritten, Written, IsFileState
  <2>4. OnceInv'
    BY <2>1, <2>2 DEF OnceInv, Once, Past, Others
  <2>5. TrueInv'
    BY <2>1, <2>2, Zenon DEF TrueInv
  <2>. QED  BY <2>3, <2>4, <2>5
<1>. QED
  BY <1>1, <1>2, <1>3, <1>4, <1>5, <1>6, <1>7, <1>8, <1>9, <1>10, <1>11 DEF IngestNext, PassStep, ClientStep

\* The transcript, what the manifest has of it, the log and the pass stay of their
\* type, and the log is longer than what is committed only between an append and
\* its manifest, or after a kill there, until a rebuild; or it is a tail no pass could
\* notice, which there is only in an index of this one transcript.
THEOREM IngestTyped == IngestSpec => []IngestTypeOK
<1>1. IngestInit => IngestInv
  BY IngestInvInit
<1>2. IngestInv /\ [IngestNext]_ingestVars => IngestInv'
  BY IngestInvNext
<1>3. IngestInv => IngestTypeOK
  BY DEF IngestInv, Typed
<1>. QED  BY <1>1, <1>2, <1>3, PTL DEF IngestSpec

\* No line of a transcript is committed twice, however often its client rewound it
\* and wherever passes were killed: what is read for an append lies behind the size
\* the index holds the file to, where no committed line can be.  It may be behind a
\* tail that was overlooked, and is again once a replacement has written a new log.
THEOREM EachLineOnce == IngestSpec => []NoLineTwice
<1>1. IngestInit => IngestInv
  BY IngestInvInit
<1>2. IngestInv /\ [IngestNext]_ingestVars => IngestInv'
  BY IngestInvNext
<1>3. IngestInv => NoLineTwice
  BY DEF IngestInv, OnceInv, Once, NoLineTwice
<1>. QED  BY <1>1, <1>2, <1>3, PTL DEF IngestSpec

\* A transcript the walk finds as the manifest has it, by size and time alone, is in
\* the index whole, in order and once, unless a walk found it cut back between its
\* stat and its look for the last line that is complete, or the log has a tail that
\* was overlooked.
THEOREM LeftAloneIsWhole == IngestSpec => []UntouchedIsHeld
<1>1. IngestInit => IngestInv
  BY IngestInvInit
<1>2. IngestInv /\ [IngestNext]_ingestVars => IngestInv'
  BY IngestInvNext
<1>3. IngestInv => UntouchedIsHeld
  <2> SUFFICES ASSUME IngestInv, held.known, held.size = Len(transcript), held.mtime = mtime, ~slipped,
                      ~overlooked
               PROVE  Committed = Parsed(0, Len(transcript))
    BY DEF UntouchedIsHeld
  <2>1. HeldIn(held, Committed, transcript, mtime, overlooked) /\ SureOf(held, transcript, mtime)
    BY DEF IngestInv, TrueInv, SureOf
  <2>2. Committed = LinesOf(transcript, 0, held.size)
    BY <2>1 DEF HeldIn
  <2>. QED  BY <2>2, ParsedIsLines
<1>. QED  BY <1>1, <1>2, <1>3, PTL DEF IngestSpec
=============================================================================
