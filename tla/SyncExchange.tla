---------------------------- MODULE SyncExchange ----------------------------
(***************************************************************************)
(* One machine hands its records to another: the export watermarks of the  *)
(* sender (sync.go), the transports that commit them (sync_ssh.go) and the *)
(* importer of the receiver (sync_import.go).  A push commits after the    *)
(* remote import answered; a pull commits on the far side before the batch *)
(* has travelled; a full exchange ignores the watermarks and leaves them   *)
(* alone.  The locks make an export, a commit and an import one step each, *)
(* and anything may happen between those steps: new records, a rule that   *)
(* holds a project back, another exchange, a process killed, a batch file  *)
(* torn in transit, a session forgotten on the receiver.                   *)
(***************************************************************************)
EXTENDS Integers, FiniteSets

CONSTANTS
  Records,        \* what the sender may come to hold: pairs <<session, instant>>
  Known,          \* those its index holds already
  Database,       \* the sessions that live in one database, hence one source
  Jobs,           \* the processes that exchange with this peer
  Scheduled,      \* the one of them that pushes, again and again
  BoundaryCap,    \* exportBoundaryCap
  PromptRestore,  \* an unforgotten session comes back whole or not at all
  OwnRecords,     \* the receiver's index holds records of its own besides
  MaxFaults       \* bound on rules changed, processes killed, files torn, forgets

ASSUME ExchangeAssumption ==
  /\ \A r \in Records : r = <<r[1], r[2]>> /\ r[2] \in Nat \ {0}
  /\ Known \subseteq Records
  /\ Scheduled \in Jobs
  /\ BoundaryCap \in Nat
  /\ PromptRestore \in BOOLEAN /\ OwnRecords \in BOOLEAN
  /\ MaxFaults \in Nat

VARIABLES
  said,      \* sender: the records its index holds
  held,      \* sender: the sessions an exclude or ignore rule holds back
  wm,        \* sender: ExportWatermarks of this peer, by source
  edge,      \* sender: ExportBoundary, what went out at the watermark instant
  job,       \* the exchanges under way
  copies,    \* receiver: how often its index holds a record
  ledger,    \* receiver: ImportedRecords
  bare,      \* receiver: its manifest commits no record (RecordsSize 0)
  tail,      \* receiver: records a killed import left past the committed size
  strays,    \* receiver: such records committed since, which no key table names
  dead,      \* receiver: the tombstoned sessions
  met,       \* history: records an import has read
  late,      \* history: records indexed after a later one of their source
  lost,      \* history: records of a pull that failed after its commit
  revived,   \* history: records taken over from such a tail, without a ledger row
  faults     \* how much of MaxFaults is used up

vars == <<said, held, wm, edge, job, copies, ledger, bare, tail, strays, dead,
          met, late, lost, revived, faults>>

Session(r) == r[1]
At(r) == r[2]
Sessions == {Session(r) : r \in Records}

\* A source is named by the set of sessions it keeps.
Source(s) == IF s \in Database THEN Database ELSE {s}
Sources == {Source(s) : s \in Sessions}
From(k, R) == {r \in R : Source(Session(r)) = k}

Modes == {"push", "pull", "full"}
Idle == [at |-> "idle", mode |-> "push", batch |-> {},
         next |-> [k \in Sources |-> 0], edge |-> [k \in Sources |-> {}]]

Touched(j) == {Source(Session(r)) : r \in j.batch}

ExchangeTypeOK ==
  /\ said \subseteq Records /\ held \subseteq Sessions
  /\ wm \in [Sources -> Nat]
  /\ edge \in [Sources -> SUBSET Records]
  /\ job \in [Jobs -> [at : {"idle", "send", "commit"}, mode : Modes,
                       batch : SUBSET Records, next : [Sources -> Nat],
                       edge : [Sources -> SUBSET Records]]]
  /\ copies \in [Records -> Nat]
  /\ ledger \subseteq Records /\ dead \subseteq Sessions
  /\ bare \in BOOLEAN /\ tail \subseteq Records /\ strays \subseteq Records
  /\ met \subseteq Records /\ late \subseteq Records
  /\ lost \subseteq Records /\ revived \subseteq Records
  /\ faults \in Nat

ExchangeInit ==
  /\ said = Known /\ held = {}
  /\ wm = [k \in Sources |-> 0] /\ edge = [k \in Sources |-> {}]
  /\ job = [p \in Jobs |-> Idle]
  /\ copies = [r \in Records |-> 0]
  /\ ledger = {} /\ dead = {}
  /\ bare = ~OwnRecords /\ tail = {} /\ strays = {}
  /\ met = {} /\ late = {} /\ lost = {} /\ revived = {}
  /\ faults = 0

Sender == <<said, held, wm, edge, late>>
Receiver == <<copies, ledger, bare, tail, strays, dead, met, revived>>

-----------------------------------------------------------------------------
(* The sender. *)

\* A pass indexes a record.  It is late when its source already gave a later one.
Say(r) ==
  /\ r \notin said
  /\ said' = said \union {r}
  /\ late' = IF \E q \in From(Source(Session(r)), said) : At(q) > At(r)
             THEN late \union {r} ELSE late
  /\ UNCHANGED <<held, wm, edge, job, Receiver, lost, faults>>

\* A rule that covers a session is set, or lifted again.
HoldBack(s) ==
  /\ faults < MaxFaults /\ s \notin held
  /\ held' = held \union {s}
  /\ faults' = faults + 1
  /\ UNCHANGED <<said, wm, edge, late, job, Receiver, lost>>

Release(s) ==
  /\ s \in held
  /\ held' = held \ {s}
  /\ UNCHANGED <<said, wm, edge, late, job, Receiver, lost, faults>>

\* Strictly older than the watermark is settled; at its instant only what went
\* out then is.
Fresh_NoBoundary(r) == At(r) > wm[Source(Session(r))]
Fresh(r) ==
  LET k == Source(Session(r))
  IN \/ At(r) > wm[k]
     \/ At(r) = wm[k] /\ r \notin edge[k]

Batch(mode) == {r \in said : Session(r) \notin held /\ (mode = "full" \/ Fresh(r))}
HeldBack(k) == {r \in From(k, said) : Session(r) \in held /\ Fresh(r)}

Newest(R) == CHOOSE t \in {At(r) : r \in R} : \A r \in R : At(r) <= t
Oldest(R) == CHOOSE t \in {At(r) : r \in R} : \A r \in R : t <= At(r)

\* advanceExportWatermark over the records sent.
Reached(k, batch) == IF From(k, batch) = {} THEN wm[k] ELSE Newest(From(k, batch))

\* The watermark stays below the oldest record held back.
Clamped_Never(k, batch) == FALSE
Clamped(k, batch) == /\ HeldBack(k) # {}
                     /\ Reached(k, batch) >= Oldest(HeldBack(k))

NextMark_TwoBack(k, batch) == IF Clamped(k, batch) THEN Oldest(HeldBack(k)) - 2
                                                   ELSE Reached(k, batch)
NextMark(k, batch) == IF Clamped(k, batch) THEN Oldest(HeldBack(k)) - 1
                                           ELSE Reached(k, batch)

NextEdge(k, batch) ==
  IF Clamped(k, batch) THEN {}
  ELSE {r \in From(k, batch) : At(r) = Reached(k, batch)}
       \union (IF Reached(k, batch) = wm[k] THEN edge[k] ELSE {})

\* An export settles the sources it touches; a full one settles nothing of what
\* this peer is owed.
Settles(mode, k) == mode # "full" /\ From(k, Batch(mode)) # {}

\* exportRecordsWith under the lock.
Export(p, mode) ==
  /\ job[p].at = "idle"
  /\ p = Scheduled => mode = "push"
  /\ Batch(mode) # {}
  /\ job' = [job EXCEPT ![p] =
       [at |-> IF mode = "pull" THEN "commit" ELSE "send",
        mode |-> mode, batch |-> Batch(mode),
        next |-> [k \in Sources |-> IF Settles(mode, k) THEN NextMark(k, Batch(mode)) ELSE 0],
        edge |-> [k \in Sources |-> IF Settles(mode, k) THEN NextEdge(k, Batch(mode)) ELSE {}]]]
  /\ UNCHANGED <<Sender, Receiver, lost, faults>>

\* commitExportWatermarks, under the lock a second time: never back, and a
\* boundary set past the cap is dropped.
Advances(j, k) == k \in Touched(j) /\ j.next[k] >= wm[k]

Commit(p) ==
  LET j == job[p] IN
  /\ j.at = "commit"
  /\ wm' = [k \in Sources |-> IF Advances(j, k) THEN j.next[k] ELSE wm[k]]
  /\ edge' = [k \in Sources |->
                IF ~Advances(j, k) THEN edge[k]
                ELSE IF Cardinality(j.edge[k]) <= BoundaryCap THEN j.edge[k] ELSE {}]
  /\ job' = [job EXCEPT ![p] = IF j.mode = "pull" THEN [j EXCEPT !.at = "send"] ELSE Idle]
  /\ UNCHANGED <<said, held, late, Receiver, lost, faults>>

-----------------------------------------------------------------------------
(* The receiver. *)

Listed(s) == \E r \in Records : Session(r) = s /\ copies[r] > 0

\* A forgotten session stays out; a ledger row counts while its session lives.
Admit_LedgerFirst(r) == Session(r) \notin dead /\ r \notin ledger
Admit_LedgerNever(r) == Session(r) \notin dead
Admit(r) ==
  /\ Session(r) \notin dead
  /\ ~ (r \in ledger /\ Listed(Session(r)))

\* The batch file of a source is read whole or refused whole.
Read(p, files) == {r \in job[p].batch : Source(Session(r)) \in files}
Taken(p, files) == {r \in Read(p, files) : Admit(r)}

\* Sessions unforgotten and still without the records they had here.
Lifted == {s \in Sessions : /\ s \notin dead /\ ~Listed(s)
                            /\ \E r \in ledger : Session(r) = s}

BringsBackWhole(p, files) ==
  \A r \in Read(p, files), q \in ledger :
    Session(r) \in Lifted /\ Session(q) = Session(r) => q \in Read(p, files)

\* What a pull has settled and not yet brought is lost when it fails.
Forfeit(p, got) ==
  lost' = IF job[p].mode = "pull" /\ job[p].at = "send"
          THEN lost \union (job[p].batch \ got) ELSE lost

\* recordsDamage: a log longer than its manifest says, and a manifest that
\* committed no record vouches for any log.
Damaged == tail # {} /\ ~bare

\* A session new to the key table is given an id that records no table names may
\* have been filed under: those of them that are its own are its records now.
Adoptable(p, files) ==
  {r \in strays \union tail : /\ ~Listed(Session(r))
                              /\ \E q \in Taken(p, files) : Session(q) = Session(r)}

\* Import: a damaged log is refused before a file is read; the records go to the
\* log's end and the manifest then commits all of it.
Import(p, files) ==
  /\ job[p].at = "send" /\ ~Damaged
  /\ files # {} /\ files \subseteq Touched(job[p])
  /\ PromptRestore => BringsBackWhole(p, files)
  /\ \E adopted \in SUBSET Adoptable(p, files) :
       /\ copies' = [r \in Records |-> copies[r] + (IF r \in Taken(p, files) THEN 1 ELSE 0)
                                                 + (IF r \in adopted THEN 1 ELSE 0)]
       /\ strays' = (strays \union tail) \ adopted
       /\ revived' = revived \union adopted
  /\ tail' = {} /\ bare' = (bare /\ tail \union Taken(p, files) = {})
  /\ ledger' = ledger \union Taken(p, files)
  /\ met' = met \union Read(p, files)
  /\ UNCHANGED <<Sender, dead>>

\* Every file arrived: a push may commit now.
Deliver(p) ==
  /\ Import(p, Touched(job[p]))
  /\ job' = [job EXCEPT ![p] = IF job[p].mode = "push" THEN [job[p] EXCEPT !.at = "commit"]
                                                       ELSE Idle]
  /\ UNCHANGED <<lost, faults>>

\* A file arrived torn: the others are imported, and the import ends in an error.
DeliverTorn(p, files) ==
  /\ faults < MaxFaults /\ files # Touched(job[p])
  /\ Import(p, files)
  /\ job' = [job EXCEPT ![p] = Idle]
  /\ Forfeit(p, Read(p, files))
  /\ faults' = faults + 1

\* An import refused: over a damaged log, or (PromptRestore) by a user who brings
\* an unforgotten session back whole first.
Refuse(p) ==
  /\ job[p].at = "send"
  /\ Damaged \/ (PromptRestore /\ ~BringsBackWhole(p, Touched(job[p])))
  /\ job' = [job EXCEPT ![p] = Idle]
  /\ Forfeit(p, {})
  /\ UNCHANGED <<Sender, Receiver, faults>>

\* The import is killed with some of its records appended and no manifest written.
\* (A record such imports left twice counts once in tail: revived excuses it anyway.)
KillImport(p, written) ==
  /\ faults < MaxFaults
  /\ job[p].at = "send" /\ ~Damaged
  /\ written # {} /\ written \subseteq Taken(p, Touched(job[p]))
  /\ tail' = tail \union written
  /\ job' = [job EXCEPT ![p] = Idle]
  /\ Forfeit(p, {})
  /\ faults' = faults + 1
  /\ UNCHANGED <<Sender, copies, ledger, bare, strays, dead, met, revived>>

\* The process, its ssh or its scp dies between two steps.
Die(p) ==
  /\ faults < MaxFaults /\ job[p].at # "idle"
  /\ job' = [job EXCEPT ![p] = Idle]
  /\ Forfeit(p, {})
  /\ faults' = faults + 1
  /\ UNCHANGED <<Sender, Receiver>>

\* importedSessions: a rebuild reads the log to its end, keeps what belongs to a
\* session the manifest lists, and stores each record once.
Kept == {r \in tail : Listed(Session(r))}
Rebuild(tombstones) ==
  /\ copies' = [r \in Records |-> IF /\ Session(r) \notin tombstones
                                     /\ copies[r] > 0 \/ r \in Kept
                                  THEN 1 ELSE 0]
  /\ revived' = revived \union (Kept \ ledger)
  /\ tail' = {} /\ strays' = {}
  /\ bare' = (~OwnRecords /\ \A r \in Records : copies'[r] = 0)
  /\ UNCHANGED <<Sender, job, ledger, met, lost>>

Reindex ==
  /\ Damaged
  /\ Rebuild(dead)
  /\ UNCHANGED <<dead, faults>>

Forget(s) ==
  /\ faults < MaxFaults
  /\ s \notin dead /\ Listed(s)
  /\ dead' = dead \union {s}
  /\ Rebuild(dead')
  /\ faults' = faults + 1

Unforget(s) ==
  /\ s \in dead
  /\ dead' = dead \ {s}
  /\ Rebuild(dead')
  /\ UNCHANGED faults

-----------------------------------------------------------------------------
ExchangeNext ==
  \/ \E r \in Records : Say(r)
  \/ \E s \in Sessions : HoldBack(s) \/ Release(s) \/ Forget(s) \/ Unforget(s)
  \/ \E p \in Jobs :
       \/ \E mode \in Modes : Export(p, mode)
       \/ Deliver(p) \/ Commit(p) \/ Refuse(p) \/ Die(p)
       \/ \E files \in SUBSET Sources : DeliverTorn(p, files)
       \/ \E written \in SUBSET Records : KillImport(p, written)
  \/ Reindex

\* An exchange that has started runs on or dies, the receiver rebuilds an index
\* it finds damaged, and the scheduled push comes round again.
ExchangeFairness ==
  /\ WF_vars(Export(Scheduled, "push"))
  /\ WF_vars(Reindex)
  /\ \A p \in Jobs : WF_vars(Deliver(p)) /\ WF_vars(Commit(p)) /\ WF_vars(Refuse(p))

ExchangeSpec == ExchangeInit /\ [][ExchangeNext]_vars /\ ExchangeFairness

-----------------------------------------------------------------------------
(* What the exchange promises. *)

\* Records a committed pull has still to bring.
OnTheWay == UNION {job[p].batch : p \in {q \in Jobs : job[q].at = "send" /\ job[q].mode = "pull"}}

\* A record the watermark has passed, which no later incremental export will
\* send, has reached an import, is on its way in a pull, or was lost by a pull
\* that failed and said so - whatever was exported, held back, killed or
\* committed in between.  Only a record indexed out of order is passed unsent.
SettledWasHanded ==
  \A r \in said : ~Fresh(r) => r \in met \union OnTheWay \union lost \union late

\* Whatever is sent again, the receiver holds a record once.  The exception is a
\* record of a killed import that came into the index without a ledger row: a
\* rebuild took it over, or the next import did, over a manifest that had
\* committed no record and so passed for undamaged (as in EmptyIndex).
NoRecordTwice == \A r \in Records : copies[r] > 1 => r \in revived

\* Every record of a batch that was imported whole is in the index afterwards,
\* unless its session is forgotten there: what unforget tells its user to do,
\* bring the records again, works.
ImportedIsSearchable ==
  [][\A p \in Jobs : Deliver(p) =>
       \A r \in job[p].batch : Session(r) \in dead \/ copies'[r] > 0]_vars

\* Nothing the sender may send stays owed: sends that fail are repeated until one
\* is answered, and no watermark runs past what is still to go.
Owed == {r \in said : Session(r) \notin held} \ (met \union lost \union late)
AlwaysCaughtUp == []<>(Owed = {} \/ Lifted # {})
=============================================================================
