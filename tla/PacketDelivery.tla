--------------------------- MODULE PacketDelivery ---------------------------
(***************************************************************************)
(* The hooks of one agent session in one workspace, and the packet that    *)
(* carries its work over a compaction. A hook that runs before the host    *)
(* compacts (or one that finds a compaction the host says nothing of)      *)
(* forgets what the session was shown and stores a packet; the next hook   *)
(* that can speak hands the packet over and notes so in `.hookseen`, one   *)
(* file for every session, which hooks append to and rewrite whole.        *)
(*                                                                         *)
(* Where a host drops what some hooks print, or text waits for the session *)
(* already, the answer is caught in a pipe (runHookDeferred): it is noted  *)
(* when it is in memory only, then kept under deferred/ by a hook that     *)
(* cannot speak and told, with what waits there, by the next that can.     *)
(* How that text is kept and taken is DeferredText's.                      *)
(*                                                                         *)
(* A packet is named by its number: CapturedAt, that orders captures.      *)
(***************************************************************************)
EXTENDS Integers, FiniteSets

CONSTANTS
  Hosts,         \* kinds of host: "tells" deja when it compacts; "shows" so in
                 \* its transcript; "apart" does and its hooks take no lock;
                 \* "defers" tells, and drops what some of its hooks print
  Hooks,         \* processes: each runs one hook after another
  NoHook,        \* nobody holds .hookseen.lock
  MaxCaptures,   \* compactions captured, or tried
  MaxTroubles    \* per kind of host: hooks killed, pipes closed, rotations,
                 \* packets trimmed

ASSUME PacketAssumption ==
  /\ Hosts \subseteq {"tells", "shows", "apart", "defers"}
  /\ NoHook \notin Hooks
  /\ MaxCaptures \in Nat /\ MaxTroubles \in [Hosts -> Nat]

VARIABLES
  host,      \* what kind of host the session has, of Hosts
  seenRows,    \* the rows of .hookseen about this session's compactions
  packet,    \* the packet in manifest.gob for this session and workspace
  seenLock,  \* holder of .hookseen.lock
  hook,      \* what each process is doing
  answer,    \* the packets in what each has caught, and is to keep or print
  waiting,   \* the packets in the session's text under deferred/
  captures,  \* captures begun: the clock they are stamped by
  troubles,  \* how many there were
  handed,    \* history: times each packet was written to the host
  consumed,  \* history: packets noted and then not taken by the host
  unnoted,   \* history: packets whose note was lost, or never written
  failing,   \* history: the last compaction could not be captured
  tardy       \* history: hooks that began while it was so

packetVars == <<host, seenRows, packet, seenLock, hook, answer, waiting, captures,
                troubles, handed, consumed, unnoted, failing, tardy>>

\* The rows about its compactions: a packet was delivered, one could not be
\* captured, one found afterwards was seen.
Unavailable == <<"compaction-unavailable", 0>>
Delivered(n) == <<"compaction", n>>
Seen(t) == <<"compaction-seen", t>>

Packets == 1..MaxCaptures
Rows == {Unavailable} \cup {Delivered(n) : n \in Packets} \cup {Seen(t) : t \in Packets}

NoPacket == [number |-> 0, digest |-> 0]
Resting == [at |-> "idle", file |-> {}, number |-> 0, digest |-> 0]

Compacting == {"seen", "forget", "forgetting", "clear", "clearing", "capture", "put", "bar"}
Answering == {"begun", "look", "check", "write", "note", "collected"}
Saying == {"answer", "print"}
Rotating == {"rotating"}

\* What a hook is doing when so many captures were begun.
HookOf(begun) ==
  [at : {"idle"} \cup Compacting \cup Answering \cup Saying \cup Rotating, file : SUBSET Rows,
   number : 0..begun, digest : 0..MaxCaptures]

\* Types; a hook that answers holds the lock, which one that is idle, or has
\* its answer, does not; and only that one has an answer.
PacketTypeOK ==
  /\ host \in Hosts /\ seenRows \subseteq Rows
  /\ packet \in [number : 0..captures, digest : 0..MaxCaptures]
  /\ seenLock \in Hooks \cup {NoHook}
  /\ hook \in [Hooks -> HookOf(captures)]
  /\ captures \in 0..MaxCaptures /\ troubles \in 0..MaxTroubles[host]
  /\ answer \in [Hooks -> SUBSET Packets] /\ waiting \subseteq Packets
  /\ handed \in [Packets -> 0..2]
  /\ consumed \subseteq Packets /\ unnoted \subseteq Packets
  /\ tardy \subseteq Hooks /\ failing \in BOOLEAN
  /\ \A p \in Hooks : /\ hook[p].at \in Answering /\ host # "apart" => seenLock = p
                      /\ hook[p].at \in {"idle"} \cup Saying \cup Rotating => seenLock # p
                      /\ answer[p] # {} => hook[p].at \in Saying

PacketInit ==
  /\ host \in Hosts
  /\ seenRows = {} /\ packet = NoPacket
  /\ seenLock = NoHook /\ hook = [p \in Hooks |-> Resting]
  /\ answer = [p \in Hooks |-> {}] /\ waiting = {}
  /\ captures = 0 /\ troubles = 0
  /\ handed = [n \in Packets |-> 0] /\ consumed = {} /\ unnoted = {}
  /\ failing = FALSE /\ tardy = {}
-----------------------------------------------------------------------------
Trouble == troubles < MaxTroubles[host] /\ troubles' = troubles + 1
IsAt(p, at) == hook[p].at = at
GoesTo(p, at) == hook' = [hook EXCEPT ![p].at = at]
Fails(p) == hook' = [hook EXCEPT ![p] = [Resting EXCEPT !.at = "bar"]]

\* A hook ends: what it read is gone, and its lock with it.
Ends_Locked(p) == hook' = [hook EXCEPT ![p] = Resting] /\ UNCHANGED seenLock

Ends(p) ==
  /\ hook' = [hook EXCEPT ![p] = Resting]
  /\ seenLock' = IF seenLock = p THEN NoHook ELSE seenLock

\* The file is replaced by what a process made of the copy it read: rows that
\* were appended since are gone.
Rewrites(p, rows) ==
  /\ seenRows' = rows
  /\ unnoted' = unnoted \cup {n \in Packets : Delivered(n) \in seenRows \ hook[p].file}
  /\ LET barLost == Unavailable \in seenRows \ hook[p].file
     IN /\ failing' = (failing /\ ~barLost)
        /\ tardy' = IF barLost THEN {} ELSE tardy

\* A compaction is under way: the last one's verdict is over.
NewCompaction == failing' = FALSE /\ tardy' = {}
-----------------------------------------------------------------------------
\* States of the transcript that was read: one captured before, unchanged or a
\* fork's, or one of its own.
States == 1..(captures + 1)

\* runHookPrecompactFor: the host is about to compact. It takes no lock.
Precompact(p) ==
  /\ host \in {"tells", "defers"} /\ IsAt(p, "idle") /\ captures < MaxCaptures
  /\ GoesTo(p, "forget") /\ NewCompaction
  /\ UNCHANGED <<host, seenRows, packet, seenLock, answer, waiting, captures, troubles,
                 handed, consumed, unnoted>>

\* runHookPromptMode, runHookToolMode, runHookContext: a hook that can speak
\* waits for the lock. crushCompactionPacket, codewhaleCompactionPacket,
\* antigravityCompactionPacket and gooseStopCompaction ask for none.
Speaks(p) ==
  /\ IsAt(p, "idle")
  /\ IF host = "apart"
     THEN UNCHANGED seenLock
     ELSE seenLock = NoHook /\ seenLock' = p
  /\ GoesTo(p, "begun")
  /\ tardy' = IF failing THEN tardy \cup {p} ELSE tardy \ {p}
  /\ UNCHANGED <<host, seenRows, packet, answer, waiting, captures, troubles, handed,
                 consumed, unnoted, failing>>

\* catchUpCompactionWith, once, before the hook looks for a packet: the
\* transcript shows a compaction.
CatchUp(p) ==
  /\ host \in {"shows", "apart"} /\ IsAt(p, "begun")
  /\ captures < MaxCaptures
  /\ \E t \in States :
       /\ Seen(t) \notin seenRows /\ packet.digest # t
       /\ hook' = [hook EXCEPT ![p].at = "seen", ![p].digest = t]
  /\ NewCompaction
  /\ UNCHANGED <<host, seenRows, packet, seenLock, answer, waiting, captures, troubles,
                 handed, consumed, unnoted>>

RememberSeen(p) ==
  /\ IsAt(p, "seen")
  /\ seenRows' = seenRows \cup {Seen(hook[p].digest)} /\ GoesTo(p, "forget")
  /\ UNCHANGED <<host, packet, seenLock, answer, waiting, captures, troubles, handed,
                 consumed, unnoted, failing, tardy>>

\* forgetInjected of the session: the rows of what it was shown go, and those
\* of its deliveries stay.
KeptRows_NoDeliveries(rows) == {r \in rows : r[1] # "compaction"}
KeptRows(rows) == rows

ReadsToForget(p) ==
  /\ IsAt(p, "forget")
  /\ hook' = [hook EXCEPT ![p].at = "forgetting", ![p].file = seenRows]
  /\ UNCHANGED <<host, seenRows, packet, seenLock, answer, waiting, captures, troubles,
                 handed, consumed, unnoted, failing, tardy>>

Forgets(p) ==
  /\ IsAt(p, "forgetting")
  /\ Rewrites(p, KeptRows(hook[p].file))
  /\ hook' = [hook EXCEPT ![p].at = "clear", ![p].file = {}]
  /\ UNCHANGED <<host, packet, seenLock, answer, waiting, captures, troubles, handed, consumed>>

\* forgetInjected of compactionFailureKey: the last failure's row goes.
ReadsToClear(p) ==
  /\ IsAt(p, "clear")
  /\ hook' = [hook EXCEPT ![p].at = "clearing", ![p].file = seenRows]
  /\ UNCHANGED <<host, seenRows, packet, seenLock, answer, waiting, captures, troubles,
                 handed, consumed, unnoted, failing, tardy>>

Clears(p) ==
  /\ IsAt(p, "clearing")
  /\ Rewrites(p, hook[p].file \ {Unavailable})
  /\ hook' = [hook EXCEPT ![p].at = "capture", ![p].file = {}]
  /\ UNCHANGED <<host, packet, seenLock, answer, waiting, captures, troubles, handed, consumed>>

\* captureCompactionFrom: stamped before the transcript is read, which a
\* catch-up has done already.
Capture(p) ==
  /\ IsAt(p, "capture") /\ captures < MaxCaptures
  /\ captures' = captures + 1
  /\ \E t \in IF hook[p].digest = 0 THEN States ELSE {hook[p].digest} :
       hook' = [hook EXCEPT ![p].at = "put", ![p].number = captures + 1, ![p].digest = t]
  /\ UNCHANGED <<host, seenRows, packet, seenLock, answer, waiting, troubles, handed,
                 consumed, unnoted, failing, tardy>>

\* The transcript cannot be read, is not of this workspace, or policy or the
\* switch keeps recall away from it.
CannotRead(p) ==
  /\ IsAt(p, "capture") /\ Fails(p)
  /\ UNCHANGED <<host, seenRows, packet, seenLock, answer, waiting, captures, troubles,
                 handed, consumed, unnoted, failing, tardy>>

\* A hook that caught up goes on to its answer, a PreCompact ends.
Captured(p) ==
  IF host \in {"tells", "defers"}
  THEN Ends(p)
  ELSE hook' = [hook EXCEPT ![p] = [Resting EXCEPT !.at = "look"]] /\ UNCHANGED seenLock

\* PutCompaction, under the index lock: a newer capture of another state of
\* the transcript replaces the packet, the same state keeps it.
Put(p) ==
  /\ IsAt(p, "put")
  /\ \/ packet.digest = hook[p].digest /\ UNCHANGED packet
     \/ /\ packet.digest # hook[p].digest /\ packet.number < hook[p].number
        /\ packet' = [number |-> hook[p].number, digest |-> hook[p].digest]
  /\ Captured(p)
  /\ UNCHANGED <<host, seenRows, answer, waiting, captures, troubles, handed, consumed,
                 unnoted, failing, tardy>>

\* The index lock is busy, the write fails, or a newer capture came first.
CannotPut(p) ==
  /\ IsAt(p, "put") /\ Fails(p)
  /\ UNCHANGED <<host, seenRows, packet, seenLock, answer, waiting, captures, troubles,
                 handed, consumed, unnoted, failing, tardy>>

\* blockOldPacket: what is stored is not the state of this compaction.
BlockOldPacket(p) ==
  /\ IsAt(p, "bar")
  /\ seenRows' = seenRows \cup {Unavailable}
  /\ failing' = \A q \in Hooks \ {p} : hook[q].at \notin Compacting
  /\ tardy' = {}
  /\ Captured(p)
  /\ UNCHANGED <<host, packet, answer, waiting, captures, troubles, handed, consumed, unnoted>>
-----------------------------------------------------------------------------
\* compactionRecovery reads the manifest first and the seenRows after it.
Look(p) ==
  /\ IsAt(p, "begun") \/ IsAt(p, "look")
  /\ IF packet = NoPacket
     THEN Ends(p)
     ELSE /\ hook' = [hook EXCEPT ![p].at = "check", ![p].number = packet.number]
          /\ UNCHANGED seenLock
  /\ UNCHANGED <<host, seenRows, packet, answer, waiting, captures, troubles, handed,
                 consumed, unnoted, failing, tardy>>

HeldBack_OnlyDelivered(number) == Delivered(number) \in seenRows
HeldBack(number) == {Delivered(number), Unavailable} \cap seenRows # {}

Consult(p) ==
  /\ IsAt(p, "check")
  /\ IF HeldBack(hook[p].number)
     THEN Ends(p)
     ELSE GoesTo(p, "write") /\ UNCHANGED seenLock
  /\ UNCHANGED <<host, seenRows, packet, answer, waiting, captures, troubles, handed,
                 consumed, unnoted, failing, tardy>>

\* emitCompactionRecovery: the delivery is noted once the host took the packet.
Copies(ns) == [n \in Packets |-> IF n \in ns /\ handed[n] < 2 THEN handed[n] + 1 ELSE handed[n]]

HandOver(p) ==
  /\ IsAt(p, "write") /\ host # "apart"
  /\ handed' = Copies({hook[p].number}) /\ GoesTo(p, "note")
  /\ UNCHANGED <<host, seenRows, packet, seenLock, answer, waiting, captures, troubles,
                 consumed, unnoted, failing, tardy>>

AfterClosed_Notes(p) == GoesTo(p, "note") /\ UNCHANGED seenLock
AfterClosed(p) == Ends(p)

PipeClosed(p) ==
  /\ IsAt(p, "write") /\ host # "apart" /\ Trouble
  /\ AfterClosed(p)
  /\ UNCHANGED <<host, seenRows, packet, answer, waiting, captures,
                 handed, consumed, unnoted, failing, tardy>>

Note(p) ==
  /\ IsAt(p, "note")
  /\ seenRows' = seenRows \cup {Delivered(hook[p].number)}
  /\ Ends(p)
  /\ UNCHANGED <<host, packet, answer, waiting, captures, troubles,
                 handed, consumed, unnoted, failing, tardy>>

\* What it writes is caught: in the pipe of captureDeferredStdout, where the
\* hook's output is dropped or text waits (a host of another kind whose session
\* has text waiting goes like one that defers), or in the buffer of a hook that
\* prints all it collected at its end.
Collect(p) ==
  /\ IsAt(p, "write") /\ host \in {"apart", "defers"}
  /\ GoesTo(p, "collected")
  /\ UNCHANGED <<host, seenRows, packet, seenLock, answer, waiting, captures, troubles,
                 handed, consumed, unnoted, failing, tardy>>

\* It is noted all the same; another hook without the lock may have looked
\* before. The hook's command returns, and with it goes its lock.
NoteCollected(p) ==
  /\ IsAt(p, "collected")
  /\ LET n == hook[p].number
         others == {q \in Hooks \ {p} : hook[q].number = n /\ hook[q].at \in {"write", "collected"}}
     IN /\ seenRows' = seenRows \cup {Delivered(n)}
        /\ unnoted' = IF host = "apart" /\ others # {} THEN unnoted \cup {n} ELSE unnoted
        /\ answer' = [answer EXCEPT ![p] = {n}]
  /\ GoesTo(p, IF host = "apart" THEN "print" ELSE "answer")
  /\ seenLock' = IF seenLock = p THEN NoHook ELSE seenLock
  /\ UNCHANGED <<host, packet, waiting, captures, troubles, handed, consumed, failing, tardy>>

\* The hook cannot speak: deferText keeps its answer, or fails to.
Keeps(p) ==
  /\ IsAt(p, "answer")
  /\ \/ waiting' = waiting \cup answer[p] /\ UNCHANGED consumed
     \/ consumed' = consumed \cup answer[p] /\ UNCHANGED waiting
  /\ Ends(p) /\ answer' = [answer EXCEPT ![p] = {}]
  /\ UNCHANGED <<host, seenRows, packet, captures, troubles, handed, unnoted, failing, tardy>>

\* It can: takeDeferred puts what waits in front of its answer,
TakesWaiting(p) ==
  /\ IsAt(p, "answer")
  /\ GoesTo(p, "print")
  /\ answer' = [answer EXCEPT ![p] = @ \cup waiting] /\ waiting' = {}
  /\ UNCHANGED <<host, seenRows, packet, seenLock, captures, troubles,
                 handed, consumed, unnoted, failing, tardy>>

\* or is all it says. What waits is asked for nothing: no row holds it back.
HandsWaiting(p) ==
  /\ IsAt(p, "idle") /\ waiting # {}
  /\ hook' = [hook EXCEPT ![p] = [Resting EXCEPT !.at = "print"]]
  /\ answer' = [answer EXCEPT ![p] = waiting] /\ waiting' = {}
  /\ tardy' = IF failing THEN tardy \cup {p} ELSE tardy \ {p}
  /\ UNCHANGED <<host, seenRows, packet, seenLock, captures, troubles,
                 handed, consumed, unnoted, failing>>

\* Nobody looks whether the host took it.
Prints(p) ==
  /\ IsAt(p, "print")
  /\ \/ handed' = Copies(answer[p]) /\ UNCHANGED consumed
     \/ consumed' = consumed \cup answer[p] /\ UNCHANGED handed
  /\ Ends(p) /\ answer' = [answer EXCEPT ![p] = {}]
  /\ UNCHANGED <<host, seenRows, packet, waiting, captures, troubles, unnoted, failing, tardy>>

\* What waits is past deferredTTL, or swept; the next prompt's answer replaces
\* it; or too much waits.
WaitingLost(n) ==
  /\ n \in waiting
  /\ waiting' = waiting \ {n} /\ consumed' = consumed \cup {n}
  /\ UNCHANGED <<host, seenRows, packet, seenLock, hook, answer, captures, troubles,
                 handed, unnoted, failing, tardy>>
-----------------------------------------------------------------------------
\* rotateHookseen, run before an append by a hook of any session, with the
\* lock or without: what is about a compaction stays, up to the limits of the
\* file (4000 rows of the caller's, 1000 marks), which no session here reaches.
ReadsToRotate(p) ==
  /\ IsAt(p, "idle")
  /\ Trouble
  /\ hook' = [hook EXCEPT ![p].at = "rotating", ![p].file = seenRows]
  /\ UNCHANGED <<host, seenRows, packet, seenLock, answer, waiting, captures, handed,
                 consumed, unnoted, failing, tardy>>

Rotates(p) ==
  /\ IsAt(p, "rotating")
  /\ Rewrites(p, hook[p].file)
  /\ Ends(p)
  /\ UNCHANGED <<host, packet, answer, waiting, captures, troubles, handed, consumed>>

\* Captures of other sessions push the packet out, or it is forgotten.
PacketTrimmed ==
  /\ packet # NoPacket /\ packet' = NoPacket /\ Trouble
  /\ UNCHANGED <<host, seenRows, seenLock, hook, answer, waiting, captures, handed,
                 consumed, unnoted, failing, tardy>>

\* The host kills a hook: the kernel lets go of its lock, and what it had
\* caught is gone. One killed on its way to blockOldPacket leaves no row.
KillHook(p) ==
  /\ ~IsAt(p, "idle") /\ Trouble
  /\ Ends(p)
  /\ unnoted' = IF IsAt(p, "note") THEN unnoted \cup {hook[p].number} ELSE unnoted
  /\ consumed' = consumed \cup answer[p] /\ answer' = [answer EXCEPT ![p] = {}]
  /\ UNCHANGED <<host, seenRows, packet, waiting, captures, handed, failing, tardy>>

HookStep(p) ==
  \/ RememberSeen(p) \/ ReadsToForget(p) \/ Forgets(p) \/ ReadsToClear(p) \/ Clears(p)
  \/ Capture(p) \/ CannotRead(p) \/ Put(p) \/ CannotPut(p) \/ BlockOldPacket(p)
  \/ Look(p) \/ Consult(p) \/ HandOver(p) \/ PipeClosed(p) \/ Note(p)
  \/ Collect(p) \/ NoteCollected(p) \/ Keeps(p) \/ TakesWaiting(p) \/ Prints(p)
  \/ Rotates(p)

PacketNext ==
  \/ PacketTrimmed \/ \E n \in Packets : WaitingLost(n)
  \/ \E p \in Hooks :
       \/ Precompact(p) \/ Speaks(p) \/ HandsWaiting(p) \/ CatchUp(p) \/ ReadsToRotate(p)
       \/ KillHook(p)
       \/ RememberSeen(p) \/ ReadsToForget(p) \/ Forgets(p) \/ ReadsToClear(p) \/ Clears(p)
       \/ Capture(p) \/ CannotRead(p) \/ Put(p) \/ CannotPut(p) \/ BlockOldPacket(p)
       \/ Look(p) \/ Consult(p) \/ HandOver(p) \/ PipeClosed(p) \/ Note(p)
       \/ Collect(p) \/ NoteCollected(p) \/ Keeps(p) \/ TakesWaiting(p) \/ Prints(p)
       \/ Rotates(p)

\* A hook that runs goes on; while the session does, its hooks come; and what
\* nobody takes gets too old.
PacketFairness ==
  /\ \A p \in Hooks : WF_packetVars(HookStep(p))
  /\ WF_packetVars(\E p \in Hooks : Speaks(p))
  /\ WF_packetVars(\E n \in Packets : WaitingLost(n))

PacketSpec == PacketInit /\ [][PacketNext]_packetVars /\ PacketFairness
-----------------------------------------------------------------------------
\* One delivery per compaction: a packet is handed over again only where its
\* note was lost to a rewrite of the file without the lock, the hook was killed
\* before it wrote one, or, where hooks take no lock, another had looked before.
SecondCopyHasAReason == \A n \in Packets : handed[n] > 1 => n \in unnoted

\* A packet stored earlier does not pass for the state of a compaction that
\* could not be captured: no hook that begins after that failure, and before
\* another compaction, hands one over of its own, unless a rewrite of the file
\* without the lock lost the mark of the failure. What an earlier hook noted
\* and left under deferred/ is told all the same (HandsWaiting).
FailureHoldsOld ==
  \A p \in tardy : /\ hook[p].at \notin {"write", "collected", "note", "answer"}
                   /\ hook[p].at = "print" => hook[p].number = 0

\* A packet is handed over while the session goes on, unless another takes its
\* place, it is trimmed, or a failed capture blocks it; or, where answers are
\* caught, it was noted and then not printed, not kept, or not taken in time.
PacketArrives ==
  \A n \in Packets :
    packet.number = n ~> \/ handed[n] > 0 \/ packet.number # n
                         \/ Unavailable \in seenRows
                         \/ host \in {"apart", "defers"} /\ n \in consumed
=============================================================================
