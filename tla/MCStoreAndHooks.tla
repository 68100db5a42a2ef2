--------------------------- MODULE MCStoreAndHooks ---------------------------
(* The index directory under fair scheduling, and the hooks of a session:    *)
(* three parts that share no state in the model, each alone. Which one runs  *)
(* is chosen at the start, so that their state spaces add.                   *)
EXTENDS IndexStore, PacketDelivery, DeferredText

MCTexts == {<<"prompt", 1>>, <<"prompt", 2>>, <<"tool", 1>>}

\* Where answers are caught, a hook that prints in vain, or text that waits in
\* vain, is trouble enough.
MCMaxTroubles == [h \in Hosts |-> IF h \in {"apart", "defers"} THEN 0 ELSE 1]

VARIABLE part

BesideInit ==
  /\ part \in {"store", "packet", "text"}
  /\ Init /\ PacketInit /\ TextInit
  /\ part # "packet" => host = "tells"

InStore(A) == part = "store" /\ A /\ UNCHANGED <<packetVars, textVars, part>>
InPacket(A) == part = "packet" /\ A /\ UNCHANGED <<vars, textVars, part>>
InText(A) == part = "text" /\ A /\ UNCHANGED <<vars, packetVars, part>>

\* The disjuncts of the store's Next, of PacketNext and of TextNext.
BesideNext ==
  \/ InStore(Client) \/ InStore(Hook) \/ InStore(Lock) \/ InStore(Holder) \/ InStore(Crash)
  \/ InPacket(PacketTrimmed) \/ \E n \in Packets : InPacket(WaitingLost(n))
  \/ \E p \in Hooks :
       \/ InPacket(Precompact(p)) \/ InPacket(Speaks(p)) \/ InPacket(HandsWaiting(p))
       \/ InPacket(CatchUp(p))
       \/ InPacket(ReadsToRotate(p)) \/ InPacket(KillHook(p)) \/ InPacket(RememberSeen(p))
       \/ InPacket(ReadsToForget(p)) \/ InPacket(Forgets(p))
       \/ InPacket(ReadsToClear(p)) \/ InPacket(Clears(p))
       \/ InPacket(Capture(p)) \/ InPacket(CannotRead(p)) \/ InPacket(Put(p))
       \/ InPacket(CannotPut(p)) \/ InPacket(BlockOldPacket(p))
       \/ InPacket(Look(p)) \/ InPacket(Consult(p)) \/ InPacket(HandOver(p))
       \/ InPacket(PipeClosed(p)) \/ InPacket(Note(p))
       \/ InPacket(Collect(p)) \/ InPacket(NoteCollected(p)) \/ InPacket(Keeps(p))
       \/ InPacket(TakesWaiting(p)) \/ InPacket(Prints(p)) \/ InPacket(Rotates(p))
  \/ \E m \in Mute :
       \/ \E t \in Texts : InText(Defers(m, t))
       \/ InText(Sweeps(m)) \/ InText(MakesBox(m)) \/ InText(Replaces(m))
       \/ InText(WritesText(m)) \/ InText(RenamesText(m)) \/ InText(KillMute(m))
  \/ \E p \in Heard :
       InText(TakesBox(p)) \/ InText(NothingWaits(p)) \/ InText(Tells(p)) \/ InText(TextLost(p))
  \/ InText(TwoHours)

\* That of FairSpec, and PacketFairness, each while its part runs.
BesideFairness ==
  /\ WF_vars(part = "store" /\ Lock) /\ WF_vars(part = "store" /\ Holder)
  /\ \A p \in Hooks : WF_packetVars(part = "packet" /\ HookStep(p))
  /\ WF_packetVars(part = "packet" /\ \E p \in Hooks : Speaks(p))
  /\ WF_packetVars(part = "packet" /\ \E n \in Packets : WaitingLost(n))

BesideSpec ==
  BesideInit /\ [][BesideNext]_<<part, vars, packetVars, textVars>> /\ BesideFairness
=============================================================================
