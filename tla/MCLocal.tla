------------------------------ MODULE MCLocal ------------------------------
(* Three parts of the program that share no state in the model, each alone:   *)
(* which one runs is chosen at the start, so that their state spaces add.     *)
EXTENDS Forgetting, KeptFresh, TranscriptIngest

VARIABLE part

LocalInit ==
  /\ part \in {"forget", "keep", "ingest"}
  /\ ForgetInit /\ FreshInit /\ IngestInit
  /\ part # "forget" => disk = {}
  /\ part # "ingest" => indexed

InForget(A) == part = "forget" /\ A /\ UNCHANGED <<freshVars, ingestVars, part>>
InKeep(A) == part = "keep" /\ A /\ UNCHANGED <<forgetVars, ingestVars, part>>
InIngest(A) == part = "ingest" /\ A /\ UNCHANGED <<forgetVars, freshVars, part>>

\* The disjuncts of ForgetNext, FreshNext and IngestNext.
LocalNext ==
  \/ \E p \in Procs :
       \/ InForget(Take(p)) \/ InForget(Leave(p))
       \/ InForget(Update(p)) \/ InForget(Build(p))
       \/ InForget(RebuildWithout(p)) \/ InForget(WriteMirror(p))
       \/ InForget(RebuildWith(p)) \/ InForget(WriteTombstones(p)) \/ InForget(ClearMirror(p))
       \/ \E ks \in SUBSET Keys :
            \/ InForget(Forget(p, ks)) \/ InForget(Unforget(p, ks)) \/ InForget(Kill(p, ks))
       \/ \E k \in Keys : InForget(AppendTombstones(p, k)) \/ InForget(Import(p, k))
  \/ \E k \in Keys : InForget(WriteTranscript(k)) \/ InForget(RemoveTranscript(k))
  \/ InForget(LoseConfig) \/ InForget(LoseIndex)
  \/ \E rewrite \in BOOLEAN : InKeep(Change(rewrite))
  \/ InKeep(Tick) \/ InKeep(CheckLocks) \/ InKeep(CheckGivesUp) \/ InKeep(CheckWalks)
  \/ InKeep(CheckActs) \/ InKeep(CheckFails) \/ InKeep(CheckPublishes)
  \/ InKeep(Ask) \/ InKeep(Answer) \/ InKeep(KeeperAsks) \/ InKeep(Quiet)
  \/ \E r \in Requesters :
       \/ InKeep(HookAsks(r)) \/ InKeep(Create(r)) \/ InKeep(TakeOver(r)) \/ InKeep(SpawnFails(r))
       \/ \E c \in Children : InKeep(Spawn(r, c))
  \/ \E c \in Children :
       \/ InKeep(ChildAdopts(c)) \/ InKeep(ChildLooks(c)) \/ InKeep(ChildLocks(c))
       \/ InKeep(ChildBuilds(c)) \/ InKeep(ChildClears(c)) \/ InKeep(KillChild(c))
  \/ InIngest(Say) \/ InIngest(SayOn) \/ \E lines \in 0..MaxLines : InIngest(Rewind(lines))
  \/ InIngest(Stat) \/ InIngest(FindSafe) \/ InIngest(TakeSample) \/ InIngest(Decide)
  \/ InIngest(Read) \/ InIngest(Check) \/ InIngest(AppendRecords)
  \/ InIngest(CommitManifest) \/ InIngest(Replace) \/ InIngest(KillPass)

\* FreshFairness and that of IngestSpec, each while its part runs.
LocalFairness ==
  /\ WF_freshVars(part = "keep" /\ Ask) /\ WF_freshVars(part = "keep" /\ Answer)
  /\ SF_freshVars(part = "keep" /\ Tick) /\ SF_freshVars(part = "keep" /\ CheckLocks)
  /\ WF_freshVars(part = "keep" /\ KeeperGoesOn) /\ WF_freshVars(part = "keep" /\ Quiet)
  /\ \A r \in Requesters : WF_freshVars(part = "keep" /\ RequesterGoesOn(r))
  /\ \A c \in Children : /\ WF_freshVars(part = "keep" /\ ChildGoesOn(c))
                          /\ SF_freshVars(part = "keep" /\ ChildLocks(c))
  /\ WF_ingestVars(part = "ingest" /\ PassStep)

LocalSpec ==
  LocalInit /\ [][LocalNext]_<<part, forgetVars, freshVars, ingestVars>> /\ LocalFairness
=============================================================================
