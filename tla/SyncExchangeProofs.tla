-------------------------- MODULE SyncExchangeProofs --------------------------
(***************************************************************************)
(* What SyncExchange promises, for any number of records, sources,         *)
(* processes and faults, as long as instants have a bound (they are 64-bit *)
(* nanoseconds).  The sender: whatever its watermarks pass was handed to   *)
(* an import.  The receiver: a record is held once, and what is imported   *)
(* is found.                                                               *)
(***************************************************************************)
EXTENDS SyncExchange, NaturalBounds

\* Where a record a watermark has passed is, or why it never left.
Done == met \union OnTheWay \union lost \union late

\* A watermark with its boundary has passed a record.
Settled(mark, marked, r) == At(r) < mark \/ (At(r) = mark /\ r \in marked)

\* A watermark of a source is no later than what the source has given.
Marked(k, mark, marked, given) ==
  /\ marked \subseteq given
  /\ mark = 0 \/ \E q \in From(k, given) : At(q) >= mark

\* What a mark passes of the records given is among these.
Passes(k, mark, marked, given, these) ==
  \A r \in From(k, given) : Settled(mark, marked, r) => r \in these

\* What the watermarks have passed is done.
Watermarks ==
  \A k \in Sources :
    Marked(k, wm[k], edge[k], said) /\ Passes(k, wm[k], edge[k], said, Done)

\* What an exchange will settle is done or in its batch.
Plans(j, given, done) ==
  \A k \in Touched(j) :
    /\ Marked(k, j.next[k], j.edge[k], given)
    /\ Passes(k, j.next[k], j.edge[k], given, j.batch \union done)

\* A push settles only what was imported, a full exchange nothing.
Pending(j) ==
  /\ j.mode = "full" => j.at # "commit"
  /\ j.mode = "push" /\ j.at = "commit" => j.batch \subseteq met
  /\ j.at # "idle" /\ j.mode # "full" => Plans(j, said, Done)

\* A record the index holds has a row in the ledger or came from a killed import,
\* and is there once unless it did.
Ledgered ==
  \A r \in Records : /\ copies[r] > 0 => r \in ledger \union revived
                     /\ copies[r] > 1 => r \in revived

\* A session the index lists holds all the ledger has of it.
Whole == PromptRestore => \A r \in ledger : Listed(Session(r)) => copies[r] > 0

\* The inductive invariants of the two sides.
SenderInv == ExchangeTypeOK /\ Watermarks /\ \A p \in Jobs : Pending(job[p])
ReceiverInv == ExchangeTypeOK /\ Ledgered /\ Whole

-----------------------------------------------------------------------------
(* Records, sources and instants. *)

\* A record's instant is a natural, and its source is one.
LEMMA RecordFields ==
  ASSUME NEW r \in Records
  PROVE  At(r) \in Nat \ {0} /\ Session(r) \in Sessions /\ Source(Session(r)) \in Sources
  BY ExchangeAssumption DEF At, Session, Sessions, Sources

\* Of records that are some there is an oldest; it is no earlier than 1.
LEMMA OldestIs ==
  ASSUME NEW R, R \subseteq Records, R # {}
  PROVE  /\ Oldest(R) \in Nat \ {0}
         /\ \E r \in R : At(r) = Oldest(R)
         /\ \A r \in R : Oldest(R) <= At(r)
<1> DEFINE T == {At(r) : r \in R}
<1>1. T \subseteq Nat /\ T # {}
  BY RecordFields
<1>2. \E t \in T : \A k \in T : t <= k
  <2> HIDE DEF T
  <2> QED
    BY <1>1, LeastExists, Zenon
<1>3. \E t \in T : \A r \in R : t <= At(r)
  BY <1>2
<1>4. Oldest(R) \in T /\ \A r \in R : Oldest(R) <= At(r)
  BY <1>3 DEF Oldest
<1> QED
  BY <1>4, RecordFields

\* Where instants have a bound there is a newest.
LEMMA NewestIs ==
  ASSUME NEW last \in Nat, \A r \in Records : At(r) <= last,
         NEW R, R \subseteq Records, R # {}
  PROVE  Newest(R) \in Nat /\ \E r \in R : At(r) = Newest(R)
<1> DEFINE T == {At(r) : r \in R}
<1>1. T \subseteq 0..last /\ T # {}
  BY RecordFields
<1>2. \E t \in T : \A k \in T : k <= t
  <2> HIDE DEF T
  <2> QED
    BY <1>1, GreatestExists, Zenon
<1>3. \E t \in T : \A r \in R : At(r) <= t
  BY <1>2
<1>4. Newest(R) \in T
  BY <1>3 DEF Newest
<1> QED
  BY <1>4, RecordFields

-----------------------------------------------------------------------------
(* What an export plans. *)

\* A process between two exchanges.
LEMMA IdleType ==
  /\ Idle \in [at : {"idle", "send", "commit"}, mode : Modes,
               batch : SUBSET Records, next : [Sources -> Nat],
               edge : [Sources -> SUBSET Records]]
  /\ Idle.at = "idle" /\ Idle.mode = "push" /\ Idle.batch = {}
  BY DEF Idle, Modes

\* Nothing said and nothing sent.
LEMMA InitType == ExchangeInit => ExchangeTypeOK
<1> SUFFICES ASSUME ExchangeInit PROVE ExchangeTypeOK
  OBVIOUS
<1>1. job \in [Jobs -> [at : {"idle", "send", "commit"}, mode : Modes,
                       batch : SUBSET Records, next : [Sources -> Nat],
                       edge : [Sources -> SUBSET Records]]]
  BY IdleType DEF ExchangeInit
<1> QED
  BY <1>1, ExchangeAssumption DEF ExchangeInit, ExchangeTypeOK

\* The mark an export plans for a source it touches: a record of the source has
\* reached it, what it puts at the boundary was said, and whatever the mark
\* passes was settled before or goes out now.
LEMMA ExportPlans ==
  ASSUME ExchangeTypeOK, NEW last \in Nat, \A r \in Records : At(r) <= last,
         Watermarks, NEW mode \in Modes, mode # "full", NEW k \in Sources,
         From(k, Batch(mode)) # {}
  PROVE  LET mark == NextMark(k, Batch(mode))
             marked == NextEdge(k, Batch(mode))
         IN  /\ mark \in Nat /\ marked \in SUBSET Records
             /\ Marked(k, mark, marked, said)
             /\ Passes(k, mark, marked, said, Batch(mode) \union Done)
<1> DEFINE B == Batch(mode)
           H == HeldBack(k)
           mark == NextMark(k, B)
           marked == NextEdge(k, B)
<1>1. B \subseteq said /\ said \subseteq Records /\ H \subseteq From(k, said)
  BY DEF Batch, HeldBack, ExchangeTypeOK
<1>2. From(k, B) \subseteq From(k, said) /\ From(k, said) \subseteq said
  BY <1>1 DEF From
<1>3. wm[k] \in Nat /\ edge[k] \in SUBSET Records /\ edge[k] \subseteq said
  BY DEF ExchangeTypeOK, Watermarks, Marked
<1>4. \A r \in From(k, said) : /\ Source(Session(r)) = k /\ At(r) \in Nat \ {0}
                               /\ r \notin Done => Fresh(r)
  BY <1>1, <1>2, <1>3, RecordFields DEF From, Fresh, Watermarks, Passes, Settled
<1>5. \A r \in From(k, said) \ (B \union Done) : r \in H
  BY <1>2, <1>4 DEF Batch, HeldBack, From
<1>6. Reached(k, B) = Newest(From(k, B)) /\ Reached(k, B) \in Nat
      /\ \E r \in From(k, B) : At(r) = Reached(k, B)
  BY <1>1, <1>2, NewestIs DEF Reached
<1>7. CASE Clamped(k, B)
  <2>1. H # {} /\ mark = Oldest(H) - 1 /\ marked = {}
    BY <1>7 DEF Clamped, NextMark, NextEdge
  <2>2. /\ Oldest(H) \in Nat \ {0} /\ \E r \in H : At(r) = Oldest(H)
        /\ \A r \in H : Oldest(H) <= At(r)
    BY <1>1, <1>2, <2>1, OldestIs
  <2>3. mark \in Nat /\ Marked(k, mark, marked, said)
    BY <1>1, <1>4, <2>1, <2>2 DEF Marked
  <2> QED
    BY <1>1, <1>4, <1>5, <2>1, <2>2, <2>3 DEF Settled, Passes
<1>8. CASE ~Clamped(k, B)
  <2>1. mark = Reached(k, B)
    BY <1>8 DEF NextMark
  <2>2. marked \subseteq said /\ marked \subseteq Records
    BY <1>1, <1>2, <1>3, <1>8 DEF NextEdge
  <2>3. \A r \in H : mark < At(r)
    <3>1. CASE H = {}
      BY <3>1
    <3>2. CASE H # {}
      <4>1. Oldest(H) \in Nat /\ \A r \in H : Oldest(H) <= At(r)
        BY <1>1, <1>2, <3>2, OldestIs
      <4>2. mark < Oldest(H)
        BY <1>6, <1>8, <2>1, <3>2, <4>1 DEF Clamped
      <4> QED
        BY <1>1, <1>4, <1>6, <2>1, <4>1, <4>2
    <3> QED
      BY <3>1, <3>2
  <2>4. Marked(k, mark, marked, said)
    BY <1>2, <1>4, <1>6, <2>1, <2>2 DEF Marked
  <2> QED
    BY <1>4, <1>5, <1>6, <2>1, <2>2, <2>3, <2>4 DEF Settled, Passes
<1> QED
  BY <1>7, <1>8

-----------------------------------------------------------------------------
(* The type. *)

\* A step of an exchange puts an exchange in its slot.
Exchanges == [at : {"idle", "send", "commit"}, mode : Modes, batch : SUBSET Records,
              next : [Sources -> Nat], edge : [Sources -> SUBSET Records]]
\* One exchange moves and the others stay.
LEMMA JobPut ==
  ASSUME ExchangeTypeOK, NEW p \in Jobs, NEW j \in Exchanges, job' = [job EXCEPT ![p] = j]
  PROVE  /\ job' \in [Jobs -> Exchanges] /\ job'[p] = j
         /\ \A q \in Jobs \ {p} : job'[q] = job[q]
  BY DEF ExchangeTypeOK, Exchanges

\* What an import leaves is typed, whatever its file set.
LEMMA ImportTyped ==
  ASSUME ExchangeTypeOK, NEW p \in Jobs, NEW files, Import(p, files)
  PROVE  /\ copies' \in [Records -> Nat] /\ ledger' \subseteq Records /\ met' \subseteq Records
         /\ bare' \in BOOLEAN /\ tail' = {} /\ strays' \subseteq Records
         /\ revived' \subseteq Records
         /\ UNCHANGED <<said, held, wm, edge, late, dead>>
         /\ Read(p, files) \subseteq Records /\ Taken(p, files) \subseteq Read(p, files)
<1>1. job[p] \in Exchanges
  BY DEF ExchangeTypeOK, Exchanges
<1>2. Read(p, files) \subseteq Records /\ Taken(p, files) \subseteq Read(p, files)
  BY <1>1 DEF Read, Taken, Exchanges
<1>3. PICK adopted \in SUBSET Adoptable(p, files) :
        /\ copies' = [r \in Records |-> copies[r] + (IF r \in Taken(p, files) THEN 1 ELSE 0)
                                                  + (IF r \in adopted THEN 1 ELSE 0)]
        /\ strays' = (strays \union tail) \ adopted
        /\ revived' = revived \union adopted
  BY DEF Import
<1>4. adopted \subseteq Records
  BY DEF Adoptable, ExchangeTypeOK
<1>5. copies' \in [Records -> Nat]
  BY <1>3 DEF ExchangeTypeOK
<1>6. strays' \subseteq Records /\ revived' \subseteq Records
  BY <1>3, <1>4 DEF ExchangeTypeOK
<1> QED
  BY <1>2, <1>5, <1>6 DEF Import, ExchangeTypeOK, Sender

\* A step that leaves an exchange at rest, and may put on record what it lost.
LEMMA RestTyped ==
  ASSUME ExchangeTypeOK, NEW p \in Jobs, NEW got,
         job' = [job EXCEPT ![p] = Idle], Forfeit(p, got)
  PROVE  job' \in [Jobs -> Exchanges] /\ lost' \subseteq Records
<1>1. Idle \in Exchanges /\ job[p].batch \subseteq Records /\ lost \subseteq Records
  BY IdleType DEF Exchanges, ExchangeTypeOK
<1> QED
  BY <1>1, JobPut DEF Forfeit

\* A rebuild of the receiver touches the receiver only.
LEMMA RebuildTyped ==
  ASSUME ExchangeTypeOK, NEW tombstones, Rebuild(tombstones)
  PROVE  /\ copies' \in [Records -> Nat] /\ revived' \subseteq Records
         /\ bare' \in BOOLEAN /\ tail' = {} /\ strays' = {}
         /\ UNCHANGED <<said, held, wm, edge, late, job, ledger, met, lost>>
  BY DEF ExchangeTypeOK, Rebuild, Kept, Sender

\* Every step keeps the type, once the sender's marks are right.
LEMMA ExchangeTypeNext ==
  ASSUME SenderInv, [ExchangeNext]_vars, NEW last \in Nat, \A r \in Records : At(r) <= last
  PROVE  ExchangeTypeOK'
<1>0. ExchangeTypeOK /\ job \in [Jobs -> Exchanges]
  BY DEF SenderInv, ExchangeTypeOK, Exchanges
<1>1. CASE UNCHANGED vars
  BY <1>0, <1>1 DEF vars, ExchangeTypeOK
<1>2. ASSUME NEW r \in Records, Say(r)
      PROVE  ExchangeTypeOK'
  BY <1>0, <1>2 DEF Say, ExchangeTypeOK, Receiver
<1>3. ASSUME NEW s \in Sessions, HoldBack(s) \/ Release(s)
      PROVE  ExchangeTypeOK'
  BY <1>0, <1>3 DEF HoldBack, Release, ExchangeTypeOK, Receiver
<1>4. ASSUME NEW s \in Sessions, Forget(s) \/ Unforget(s)
      PROVE  ExchangeTypeOK'
  <2>1. dead' \subseteq Sessions /\ faults' \in Nat /\ Rebuild(dead')
    BY <1>0, <1>4, ExchangeAssumption DEF Forget, Unforget, ExchangeTypeOK
  <2> QED
    BY <1>0, <2>1, RebuildTyped DEF ExchangeTypeOK, Exchanges
<1>5. CASE Reindex
  <2>1. Rebuild(dead) /\ UNCHANGED <<dead, faults>>
    BY <1>5 DEF Reindex
  <2> QED
    BY <1>0, <2>1, RebuildTyped DEF ExchangeTypeOK, Exchanges
<1>6. ASSUME NEW p \in Jobs, NEW mode \in Modes, Export(p, mode)
      PROVE  ExchangeTypeOK'
  <2> DEFINE next == [k \in Sources |-> IF Settles(mode, k) THEN NextMark(k, Batch(mode)) ELSE 0]
             edg == [k \in Sources |-> IF Settles(mode, k) THEN NextEdge(k, Batch(mode)) ELSE {}]
  <2>1. \A k \in Sources : Settles(mode, k) =>
          NextMark(k, Batch(mode)) \in Nat /\ NextEdge(k, Batch(mode)) \in SUBSET Records
    BY ExportPlans DEF Settles, SenderInv
  <2>2. next \in [Sources -> Nat] /\ edg \in [Sources -> SUBSET Records]
    BY <2>1
  <2>3. Batch(mode) \subseteq Records
    BY <1>0 DEF Batch, ExchangeTypeOK
  <2>4. [at |-> IF mode = "pull" THEN "commit" ELSE "send", mode |-> mode,
         batch |-> Batch(mode), next |-> next, edge |-> edg] \in Exchanges
    <3> HIDE DEF next, edg
    <3> QED
      BY <2>2, <2>3 DEF Exchanges
  <2>5. job' \in [Jobs -> Exchanges]
    BY <1>0, <1>6, <2>4, JobPut DEF Export
  <2> QED
    BY <1>0, <1>6, <2>5 DEF Export, ExchangeTypeOK, Exchanges, Sender, Receiver
<1>7. ASSUME NEW p \in Jobs, Deliver(p)
      PROVE  ExchangeTypeOK'
  <2>1. Import(p, Touched(job[p]))
    BY <1>7 DEF Deliver
  <2>2. [job[p] EXCEPT !.at = "commit"] \in Exchanges /\ Idle \in Exchanges
    BY <1>0, IdleType DEF Exchanges
  <2>3. job' \in [Jobs -> Exchanges]
    BY <1>0, <1>7, <2>2, JobPut DEF Deliver
  <2> QED
    BY <1>0, <1>7, <2>1, <2>3, ImportTyped DEF Deliver, ExchangeTypeOK, Exchanges
<1>8. ASSUME NEW p \in Jobs, NEW files \in SUBSET Sources, DeliverTorn(p, files)
      PROVE  ExchangeTypeOK'
  <2>1. /\ Import(p, files) /\ job' = [job EXCEPT ![p] = Idle] /\ Forfeit(p, Read(p, files))
        /\ faults' = faults + 1
    BY <1>8 DEF DeliverTorn
  <2>2. job' \in [Jobs -> Exchanges] /\ lost' \subseteq Records
    BY <1>0, <2>1, RestTyped
  <2>3. faults' \in Nat
    BY <1>0, <2>1 DEF ExchangeTypeOK
  <2>4. /\ copies' \in [Records -> Nat] /\ ledger' \subseteq Records /\ met' \subseteq Records
        /\ bare' \in BOOLEAN /\ tail' = {} /\ strays' \subseteq Records
        /\ revived' \subseteq Records
        /\ UNCHANGED <<said, held, wm, edge, late, dead>>
    BY <1>0, <2>1, ImportTyped
  <2> QED
    BY <1>0, <2>2, <2>3, <2>4 DEF ExchangeTypeOK, Exchanges
<1>9. ASSUME NEW p \in Jobs, Refuse(p) \/ Die(p)
      PROVE  ExchangeTypeOK'
  <2>1. /\ job' = [job EXCEPT ![p] = Idle] /\ Forfeit(p, {}) /\ faults' \in Nat
        /\ UNCHANGED <<Sender, Receiver>>
    BY <1>0, <1>9 DEF Refuse, Die, ExchangeTypeOK
  <2> QED
    BY <1>0, <2>1, RestTyped DEF ExchangeTypeOK, Exchanges, Sender, Receiver
<1>10. ASSUME NEW p \in Jobs, NEW written \in SUBSET Records, KillImport(p, written)
       PROVE  ExchangeTypeOK'
  <2>1. /\ job' = [job EXCEPT ![p] = Idle] /\ Forfeit(p, {}) /\ faults' \in Nat
        /\ tail' \subseteq Records
        /\ UNCHANGED <<Sender, copies, ledger, bare, strays, dead, met, revived>>
    BY <1>0, <1>10 DEF KillImport, ExchangeTypeOK
  <2> QED
    BY <1>0, <2>1, RestTyped DEF ExchangeTypeOK, Exchanges, Sender
<1>11. ASSUME NEW p \in Jobs, Commit(p)
       PROVE  ExchangeTypeOK'
  <2>1. job[p] \in Exchanges /\ Idle \in Exchanges /\ [job[p] EXCEPT !.at = "send"] \in Exchanges
    BY <1>0, IdleType DEF Exchanges
  <2>2. job' \in [Jobs -> Exchanges]
    BY <1>0, <1>11, <2>1, JobPut DEF Commit
  <2>3. wm' \in [Sources -> Nat] /\ edge' \in [Sources -> SUBSET Records]
    BY <1>0, <1>11, <2>1 DEF Commit, ExchangeTypeOK, Exchanges
  <2> QED
    BY <1>0, <1>11, <2>2, <2>3 DEF Commit, ExchangeTypeOK, Exchanges, Receiver
<1> QED
  BY <1>1, <1>2, <1>3, <1>4, <1>5, <1>6, <1>7, <1>8, <1>9, <1>10, <1>11 DEF ExchangeNext

-----------------------------------------------------------------------------
(* The sender's side. *)

\* The exchange an OnTheWay record belongs to.
LEMMA OnTheWayIs ==
  ASSUME NEW r
  PROVE  r \in OnTheWay <=>
           \E q \in Jobs : job[q].at = "send" /\ job[q].mode = "pull" /\ r \in job[q].batch
  BY DEF OnTheWay
\* What is on its way after a step.
LEMMA OnTheWayThen ==
  ASSUME NEW r
  PROVE  r \in OnTheWay' <=>
           \E q \in Jobs : job'[q].at = "send" /\ job'[q].mode = "pull" /\ r \in job'[q].batch
  BY DEF OnTheWay

\* Nothing that is done is undone, as long as the exchange that takes a step hands
\* over what it had on the way or puts it on record.
LEMMA DoneStays ==
  ASSUME ExchangeTypeOK, NEW p \in Jobs,
         \A q \in Jobs \ {p} : job'[q] = job[q],
         met \subseteq met', lost \subseteq lost', late \subseteq late',
         job[p].at = "send" /\ job[p].mode = "pull" =>
           job[p].batch \subseteq met' \union lost'
  PROVE  Done \subseteq Done'
<1> SUFFICES ASSUME NEW r \in Done PROVE r \in Done'
  OBVIOUS
<1>1. CASE r \in OnTheWay
  <2>1. PICK q \in Jobs : job[q].at = "send" /\ job[q].mode = "pull" /\ r \in job[q].batch
    BY <1>1, OnTheWayIs
  <2> QED
    BY <2>1, OnTheWayThen DEF Done
<1>2. CASE r \notin OnTheWay
  BY <1>2 DEF Done
<1> QED
  BY <1>1, <1>2

\* A plan stands while nothing is said and nothing undone.
LEMMA PlanStays ==
  ASSUME NEW j, NEW given, NEW done, NEW then, done \subseteq then, Plans(j, given, done)
  PROVE  Plans(j, given, then)
  BY DEF Plans, Passes

\* The steps that say nothing, settle nothing and touch one exchange: the others
\* stand as they stood.
LEMMA SenderStays ==
  ASSUME SenderInv, NEW p \in Jobs,
         \A q \in Jobs \ {p} : job'[q] = job[q],
         met \subseteq met', lost \subseteq lost', late \subseteq late',
         job[p].at = "send" /\ job[p].mode = "pull" =>
           job[p].batch \subseteq met' \union lost',
         said' = said
  PROVE  /\ Done \subseteq Done'
         /\ UNCHANGED <<wm, edge>> => Watermarks'
         /\ \A q \in Jobs \ {p} : Pending(job[q])'
<1>1. Done \subseteq Done'
  BY DoneStays DEF SenderInv
<1>2. UNCHANGED <<wm, edge>> => Watermarks'
  BY <1>1 DEF SenderInv, Watermarks, Passes
<1>3. ASSUME NEW q \in Jobs \ {p}
      PROVE  Pending(job[q])'
  <2>1. Pending(job[q])
    BY DEF SenderInv
  <2>2. Plans(job[q], said, Done) => Plans(job'[q], said', Done')
    BY <1>1, <1>3, PlanStays
  <2> QED
    BY <1>3, <2>1, <2>2 DEF Pending
<1> QED
  BY <1>1, <1>2, <1>3

\* Nothing has been passed.
LEMMA SenderInit == ExchangeInit => SenderInv
<1> SUFFICES ASSUME ExchangeInit PROVE SenderInv
  OBVIOUS
<1>1. \A k \in Sources : wm[k] = 0 /\ edge[k] = {}
  BY DEF ExchangeInit
<1>2. \A r \in said : At(r) \in Nat \ {0}
  BY RecordFields, ExchangeAssumption DEF ExchangeInit
<1>3. Watermarks
  BY <1>1, <1>2 DEF Watermarks, Marked, Passes, Settled, From
<1>4. \A p \in Jobs : Pending(job[p])
  BY IdleType DEF ExchangeInit, Pending
<1> QED
  BY <1>3, <1>4, InitType DEF SenderInv

\* A record indexed behind a mark is late.
LEMMA SaidBehind ==
  ASSUME ExchangeTypeOK, NEW r \in Records, Say(r), NEW k \in Sources,
         NEW mark \in Nat, NEW marked, NEW these,
         Marked(k, mark, marked, said), Passes(k, mark, marked, said, these)
  PROVE  Marked(k, mark, marked, said') /\ Passes(k, mark, marked, said', these \union late')
<1>1. r \notin said /\ said' = said \union {r} /\ late \subseteq late'
  BY DEF Say
<1>2. Marked(k, mark, marked, said')
  BY <1>1 DEF Marked, From
<1>3. ASSUME Source(Session(r)) = k, Settled(mark, marked, r)
      PROVE  r \in late'
  <2>1. At(r) < mark /\ At(r) \in Nat \ {0}
    BY <1>1, <1>3, RecordFields DEF Settled, Marked
  <2>2. PICK q \in From(k, said) : At(q) >= mark
    BY <2>1 DEF Marked
  <2>3. At(q) \in Nat
    BY <2>2, RecordFields DEF From, ExchangeTypeOK
  <2>4. At(q) > At(r)
    BY <2>1, <2>2, <2>3
  <2> QED
    BY <1>3, <2>4 DEF Say
<1>4. Passes(k, mark, marked, said', these \union late')
  BY <1>1, <1>3 DEF Passes, From
<1> QED
  BY <1>2, <1>4

\* A new record is at or past every watermark, or late.
LEMMA SaySender ==
  ASSUME SenderInv, NEW r \in Records, Say(r)
  PROVE  Watermarks' /\ \A p \in Jobs : Pending(job[p])'
<1>0. ExchangeTypeOK /\ UNCHANGED <<wm, edge, job, met, lost>> /\ late \subseteq late'
  BY DEF SenderInv, Say, Receiver
<1>1. Done \union late' \subseteq Done'
  BY <1>0 DEF Done, OnTheWay
<1>2. Watermarks'
  <2> SUFFICES ASSUME NEW k \in Sources
               PROVE  Marked(k, wm[k], edge[k], said') /\ Passes(k, wm[k], edge[k], said', Done')
    BY <1>0 DEF Watermarks
  <2>1. wm[k] \in Nat /\ Marked(k, wm[k], edge[k], said) /\ Passes(k, wm[k], edge[k], said, Done)
    BY <1>0 DEF SenderInv, Watermarks, ExchangeTypeOK
  <2>2. Marked(k, wm[k], edge[k], said') /\ Passes(k, wm[k], edge[k], said', Done \union late')
    BY <1>0, <2>1, SaidBehind
  <2> QED
    BY <1>1, <2>2 DEF Passes
<1>3. ASSUME NEW p \in Jobs
      PROVE  Pending(job[p])'
  <2> DEFINE j == job[p]
  <2>1. j \in Exchanges /\ Touched(j) \subseteq Sources /\ Pending(j)
    BY <1>0, RecordFields DEF SenderInv, ExchangeTypeOK, Exchanges, Touched
  <2>2. ASSUME Plans(j, said, Done)
        PROVE  Plans(j, said', Done')
    <3> SUFFICES ASSUME NEW k \in Touched(j)
                 PROVE  /\ Marked(k, j.next[k], j.edge[k], said')
                        /\ Passes(k, j.next[k], j.edge[k], said', j.batch \union Done')
      BY DEF Plans
    <3>1. /\ k \in Sources /\ j.next[k] \in Nat
          /\ Marked(k, j.next[k], j.edge[k], said)
          /\ Passes(k, j.next[k], j.edge[k], said, j.batch \union Done)
      BY <2>1, <2>2 DEF Plans, Exchanges
    <3>2. /\ Marked(k, j.next[k], j.edge[k], said')
          /\ Passes(k, j.next[k], j.edge[k], said', (j.batch \union Done) \union late')
      BY <1>0, <3>1, SaidBehind
    <3> QED
      BY <1>1, <3>2 DEF Passes
  <2>3. job'[p] = j /\ met' = met
    BY <1>0
  <2> QED
    BY <2>1, <2>2, <2>3 DEF Pending
<1> QED
  BY <1>2, <1>3

\* An export plans for the sources its batch touches; a full one for none.
LEMMA ExportSender ==
  ASSUME SenderInv, NEW p \in Jobs, NEW mode \in Modes, Export(p, mode),
         NEW last \in Nat, \A r \in Records : At(r) <= last
  PROVE  Watermarks' /\ \A q \in Jobs : Pending(job[q])'
<1> DEFINE j == job'[p]
           B == Batch(mode)
<1>0. ExchangeTypeOK
  BY DEF SenderInv
<1>1. /\ job[p].at = "idle" /\ \A q \in Jobs \ {p} : job'[q] = job[q]
      /\ UNCHANGED <<said, wm, edge, met, lost, late>>
  BY <1>0 DEF Export, Sender, Receiver, ExchangeTypeOK
<1>2. /\ j.at = (IF mode = "pull" THEN "commit" ELSE "send") /\ j.mode = mode /\ j.batch = B
      /\ \A k \in Sources : Settles(mode, k) =>
           j.next[k] = NextMark(k, B) /\ j.edge[k] = NextEdge(k, B)
  BY <1>0 DEF Export, ExchangeTypeOK
<1>3. Done \subseteq Done' /\ Watermarks' /\ \A q \in Jobs \ {p} : Pending(job[q])'
  BY <1>1, SenderStays
<1>4. ASSUME mode # "full"
      PROVE  Plans(j, said, Done)
  <2> SUFFICES ASSUME NEW k \in Touched(j)
               PROVE  /\ Marked(k, j.next[k], j.edge[k], said)
                      /\ Passes(k, j.next[k], j.edge[k], said, j.batch \union Done)
    BY DEF Plans
  <2>1. k \in Sources /\ From(k, B) # {}
    BY <1>0, <1>2, RecordFields DEF Touched, From, Batch, ExchangeTypeOK
  <2>2. Settles(mode, k)
    BY <1>4, <2>1 DEF Settles
  <2>3. /\ Marked(k, NextMark(k, B), NextEdge(k, B), said)
        /\ Passes(k, NextMark(k, B), NextEdge(k, B), said, B \union Done)
    BY <1>0, <1>4, <2>1, ExportPlans DEF SenderInv
  <2> QED
    BY <1>2, <2>1, <2>2, <2>3
<1>5. Pending(job[p])'
  <2>1. mode # "full" => Plans(j, said', Done')
    BY <1>1, <1>3, <1>4, PlanStays
  <2>2. j.mode = "full" => j.at # "commit"
    BY <1>2
  <2>3. ~(j.mode = "push" /\ j.at = "commit")
    BY <1>2
  <2> QED
    BY <1>2, <2>1, <2>2, <2>3 DEF Pending
<1> QED
  BY <1>3, <1>5

\* An exchange at rest plans nothing.
LEMMA RestPending ==
  ASSUME NEW p \in Jobs, job'[p] = Idle
  PROVE  Pending(job[p])'
  BY IdleType DEF Pending

\* The whole batch is read: a push may settle it now, a pull had settled it.
LEMMA DeliverSender ==
  ASSUME SenderInv, NEW p \in Jobs, Deliver(p)
  PROVE  Watermarks' /\ \A q \in Jobs : Pending(job[q])'
<1> DEFINE j == job[p]
<1>0. ExchangeTypeOK /\ j \in Exchanges /\ job \in [Jobs -> Exchanges]
  BY DEF SenderInv, ExchangeTypeOK, Exchanges
<1>1. Read(p, Touched(j)) = j.batch
  BY DEF Read, Touched
<1>2. /\ UNCHANGED <<said, wm, edge, lost, late>> /\ j.at = "send" /\ j.batch \subseteq met'
      /\ met \subseteq met'
  BY <1>1 DEF Deliver, Import, Sender
<1>3. /\ job'[p] = (IF j.mode = "push" THEN [j EXCEPT !.at = "commit"] ELSE Idle)
      /\ \A q \in Jobs \ {p} : job'[q] = job[q]
  BY <1>0 DEF Deliver
<1>4. Done \subseteq Done' /\ Watermarks' /\ \A q \in Jobs \ {p} : Pending(job[q])'
  BY <1>2, <1>3, SenderStays
<1>5. CASE j.mode = "push"
  <2>1. Plans(j, said, Done)
    BY <1>2, <1>5 DEF SenderInv, Pending
  <2>2. Plans(j, said', Done')
    BY <1>2, <1>4, <2>1, PlanStays
  <2>3. /\ job'[p].at = "commit" /\ job'[p].mode = "push" /\ job'[p].batch = j.batch
        /\ job'[p].next = j.next /\ job'[p].edge = j.edge
    BY <1>0, <1>3, <1>5 DEF Exchanges
  <2>4. Plans(job'[p], said', Done')
    BY <2>2, <2>3 DEF Plans, Touched
  <2> QED
    BY <1>2, <1>4, <2>3, <2>4 DEF Pending
<1>6. CASE j.mode # "push"
  BY <1>3, <1>4, <1>6, RestPending
<1> QED
  BY <1>5, <1>6

\* An exchange that fails: what a pull had settled and did not bring is lost.
LEMMA FailSender ==
  ASSUME SenderInv, NEW p \in Jobs, NEW got \in SUBSET met',
         job' = [job EXCEPT ![p] = Idle], Forfeit(p, got),
         UNCHANGED <<said, wm, edge, late>>, met \subseteq met'
  PROVE  Watermarks' /\ \A q \in Jobs : Pending(job[q])'
<1>1. ExchangeTypeOK
  BY DEF SenderInv
<1>2. job'[p] = Idle /\ \A q \in Jobs \ {p} : job'[q] = job[q]
  BY <1>1 DEF ExchangeTypeOK
<1>3. lost \subseteq lost'
  BY DEF Forfeit
<1>4. job[p].at = "send" /\ job[p].mode = "pull" => job[p].batch \subseteq met' \union lost'
  BY DEF Forfeit
<1> QED
  BY <1>2, <1>3, <1>4, SenderStays, RestPending

\* A commit settles what its exchange planned, or leaves the mark that is past it.
LEMMA CommitSender ==
  ASSUME SenderInv, NEW p \in Jobs, Commit(p)
  PROVE  Watermarks' /\ \A q \in Jobs : Pending(job[q])'
<1> DEFINE j == job[p]
<1>0. ExchangeTypeOK /\ j \in Exchanges /\ job \in [Jobs -> Exchanges] /\ Pending(j)
  BY DEF SenderInv, ExchangeTypeOK, Exchanges
<1>1. j.at = "commit" /\ UNCHANGED <<said, met, lost, late>>
  BY DEF Commit, Receiver
<1>2. /\ job'[p] = (IF j.mode = "pull" THEN [j EXCEPT !.at = "send"] ELSE Idle)
      /\ \A q \in Jobs \ {p} : job'[q] = job[q]
  BY <1>0 DEF Commit
<1>3. Done \subseteq Done' /\ \A q \in Jobs \ {p} : Pending(job[q])'
  BY <1>1, <1>2, SenderStays
<1>4. Plans(j, said, Done) /\ Plans(j, said', Done')
  <2>1. Plans(j, said, Done)
    BY <1>0, <1>1 DEF Pending, Exchanges, Modes
  <2> QED
    BY <1>1, <1>3, <2>1, PlanStays
<1>5. j.batch \subseteq Done'
  <2>1. CASE j.mode = "pull"
    <3>1. job'[p].at = "send" /\ job'[p].mode = "pull" /\ job'[p].batch = j.batch
      BY <1>0, <1>2, <2>1 DEF Exchanges
    <3> QED
      BY <3>1, OnTheWayThen DEF Done
  <2>2. CASE j.mode = "push"
    BY <1>0, <1>1, <2>2 DEF Pending, Done
  <2> QED
    BY <1>0, <1>1, <2>1, <2>2 DEF Pending, Exchanges, Modes
<1>6. Watermarks'
  <2> SUFFICES ASSUME NEW k \in Sources
               PROVE  Marked(k, wm'[k], edge'[k], said') /\ Passes(k, wm'[k], edge'[k], said', Done')
    BY DEF Watermarks
  <2>1. CASE Advances(j, k)
    <3>1. /\ Marked(k, j.next[k], j.edge[k], said')
          /\ Passes(k, j.next[k], j.edge[k], said', Done')
      BY <1>4, <1>5, <2>1 DEF Plans, Passes, Advances
    <3>2. wm'[k] = j.next[k] /\ edge'[k] \subseteq j.edge[k]
      BY <2>1 DEF Commit
    <3> QED
      BY <3>1, <3>2 DEF Marked, Passes, Settled
  <2>2. CASE ~Advances(j, k)
    <3>1. wm'[k] = wm[k] /\ edge'[k] = edge[k]
      BY <2>2 DEF Commit
    <3> QED
      BY <1>1, <1>3, <3>1 DEF SenderInv, Watermarks, Passes
  <2> QED
    BY <2>1, <2>2
<1>7. Pending(job[p])'
  <2>1. CASE j.mode = "pull"
    <3>1. /\ job'[p].at = "send" /\ job'[p].mode = "pull" /\ job'[p].batch = j.batch
          /\ job'[p].next = j.next /\ job'[p].edge = j.edge
      BY <1>0, <1>2, <2>1 DEF Exchanges
    <3>2. Plans(job'[p], said', Done')
      BY <1>4, <3>1 DEF Plans, Touched
    <3> QED
      BY <3>1, <3>2 DEF Pending
  <2>2. CASE j.mode # "pull"
    BY <1>2, <2>2, RestPending
  <2> QED
    BY <2>1, <2>2
<1> QED
  BY <1>3, <1>6, <1>7

\* What the receiver does on its own, and a rule of the sender, settle nothing.
LEMMA ElsewhereSender ==
  ASSUME SenderInv, UNCHANGED <<said, wm, edge, late, job, met, lost>>
  PROVE  Watermarks' /\ \A q \in Jobs : Pending(job[q])'
<1>1. Done' = Done
  BY DEF Done, OnTheWay
<1> QED
  BY <1>1 DEF SenderInv, Watermarks, Pending

\* Every step keeps what the watermarks say.
LEMMA SenderNext ==
  ASSUME SenderInv, [ExchangeNext]_vars, NEW last \in Nat, \A r \in Records : At(r) <= last
  PROVE  SenderInv'
<1>1. ExchangeTypeOK'
  BY ExchangeTypeNext
<1>2. CASE \/ UNCHANGED vars \/ Reindex
           \/ \E s \in Sessions : HoldBack(s) \/ Release(s) \/ Forget(s) \/ Unforget(s)
  BY <1>2, ElsewhereSender, <1>1
  DEF vars, Reindex, HoldBack, Release, Forget, Unforget, Rebuild, Sender, Receiver, SenderInv
<1>3. ASSUME NEW p \in Jobs, NEW files \in SUBSET Sources, DeliverTorn(p, files)
      PROVE  Watermarks' /\ \A q \in Jobs : Pending(job[q])'
  <2>1. Read(p, files) \subseteq met' /\ met \subseteq met'
    BY <1>3 DEF DeliverTorn, Import
  <2> QED
    BY <1>3, <2>1, FailSender DEF DeliverTorn, Import, Sender
<1>4. ASSUME NEW p \in Jobs, Refuse(p) \/ Die(p) \/ \E written \in SUBSET Records : KillImport(p, written)
      PROVE  Watermarks' /\ \A q \in Jobs : Pending(job[q])'
  BY <1>4, FailSender DEF Refuse, Die, KillImport, Sender, Receiver
<1> QED
  BY <1>1, <1>2, <1>3, <1>4, SaySender, ExportSender, DeliverSender, CommitSender
  DEF ExchangeNext, SenderInv

-----------------------------------------------------------------------------
(* The receiver's side. *)

\* Neither copies nor the ledger touched, the invariants stand.
LEMMA ReceiverStays ==
  ASSUME Ledgered, Whole, UNCHANGED <<copies, ledger, revived>>
  PROVE  Ledgered' /\ Whole'
  BY DEF Ledgered, Whole, Listed

\* An import adds what has no row in the ledger, or lost its session, and with
\* PromptRestore brings back a session's records together.
LEMMA ImportReceiver ==
  ASSUME ExchangeTypeOK, Ledgered, Whole, NEW p \in Jobs, NEW files, Import(p, files)
  PROVE  Ledgered' /\ Whole'
<1>1. /\ copies \in [Records -> Nat] /\ ledger \subseteq Records /\ job[p].batch \subseteq Records
  BY DEF ExchangeTypeOK
<1>0. PICK adopted \in SUBSET Adoptable(p, files) :
        /\ copies' = [r \in Records |-> copies[r] + (IF r \in Taken(p, files) THEN 1 ELSE 0)
                                                  + (IF r \in adopted THEN 1 ELSE 0)]
        /\ revived' = revived \union adopted
  BY DEF Import
<1>2. /\ \A r \in Records \ adopted :
           copies'[r] = IF r \in Taken(p, files) THEN copies[r] + 1 ELSE copies[r]
      /\ \A r \in Records : copies'[r] \in Nat /\ copies'[r] >= copies[r]
      /\ \A r \in Taken(p, files) : r \in Records => copies'[r] > 0
      /\ ledger' = ledger \union Taken(p, files)
  BY <1>0, <1>1 DEF Import
<1>3. \A r \in Taken(p, files) : r \in Records /\ Admit(r)
  BY <1>1 DEF Taken, Read
<1>4. \A r \in Taken(p, files) : copies[r] > 0 => r \in revived
  BY <1>1, <1>3 DEF Admit, Listed, Ledgered
<1>5. Ledgered'
  BY <1>0, <1>1, <1>2, <1>3, <1>4 DEF Ledgered
<1>6. Whole'
  <2> SUFFICES ASSUME PromptRestore, NEW r \in ledger', NEW q \in Records,
                      Session(q) = Session(r), copies'[q] > 0
               PROVE  copies'[r] > 0
    BY DEF Whole, Listed
  <2>1. CASE r \in Taken(p, files)
    BY <1>1, <1>2, <1>3, <2>1
  <2>2. CASE r \notin Taken(p, files) /\ Listed(Session(r))
    <3>1. r \in ledger /\ copies[r] > 0
      BY <1>2, <2>2 DEF Whole
    <3> QED
      BY <1>1, <1>2, <3>1
  <2>3. CASE r \notin Taken(p, files) /\ ~Listed(Session(r))
    <3>1. r \in ledger /\ \E t \in Taken(p, files) : Session(t) = Session(r)
      <4>1. copies[q] = 0 /\ r \in ledger
        BY <1>1, <1>2, <2>3 DEF Listed
      <4>2. CASE q \in adopted
        BY <4>1, <4>2 DEF Adoptable
      <4>3. CASE q \notin adopted
        BY <1>2, <4>1, <4>3
      <4> QED
        BY <4>1, <4>2, <4>3
    <3>0. PICK t \in Taken(p, files) : Session(t) = Session(r)
      BY <3>1
    <3>2. t \in Read(p, files) /\ Session(t) \notin dead
      BY <3>0 DEF Taken, Admit
    <3>3. Session(r) \in Lifted
      BY <1>1, <2>3, <3>0, <3>1, <3>2, RecordFields DEF Lifted
    <3>4. r \in Read(p, files)
      BY <3>0, <3>1, <3>2, <3>3 DEF Import, BringsBackWhole
    <3> QED
      BY <2>3, <3>0, <3>2, <3>4 DEF Taken, Admit
  <2> QED
    BY <2>1, <2>2, <2>3
<1> QED
  BY <1>5, <1>6

\* A rebuild leaves whole sessions out, and takes over what a killed import left
\* of the sessions it keeps.
LEMMA RebuildReceiver ==
  ASSUME ExchangeTypeOK, Ledgered, Whole, NEW tombstones, Rebuild(tombstones)
  PROVE  Ledgered' /\ Whole'
<1>1. /\ copies \in [Records -> Nat] /\ ledger \subseteq Records /\ tail \subseteq Records
  BY DEF ExchangeTypeOK
<1>2. /\ \A r \in Records : copies'[r] = IF /\ Session(r) \notin tombstones
                                            /\ copies[r] > 0 \/ r \in Kept
                                         THEN 1 ELSE 0
      /\ ledger' = ledger /\ revived' = revived \union (Kept \ ledger)
  BY DEF Rebuild
<1>3. Ledgered'
  BY <1>1, <1>2 DEF Ledgered
<1>4. \A s : Listed(s)' => s \notin tombstones /\ Listed(s)
  BY <1>1, <1>2 DEF Listed, Kept
<1>5. Whole'
  BY <1>1, <1>2, <1>4 DEF Whole
<1> QED
  BY <1>3, <1>5

\* Every step keeps what the ledger says.
LEMMA ReceiverNext ==
  ASSUME ReceiverInv, [ExchangeNext]_vars
  PROVE  Ledgered' /\ Whole'
<1>0. ExchangeTypeOK /\ Ledgered /\ Whole
  BY DEF ReceiverInv
<1>1. CASE \/ \E p \in Jobs : \/ Deliver(p)
                              \/ \E files \in SUBSET Sources : DeliverTorn(p, files)
  BY <1>0, <1>1, ImportReceiver DEF Deliver, DeliverTorn
<1>2. CASE Reindex \/ \E s \in Sessions : Forget(s) \/ Unforget(s)
  BY <1>0, <1>2, RebuildReceiver DEF Reindex, Forget, Unforget
<1>3. CASE \/ UNCHANGED vars
           \/ \E r \in Records : Say(r)
           \/ \E s \in Sessions : HoldBack(s) \/ Release(s)
           \/ \E p \in Jobs : \/ \E mode \in Modes : Export(p, mode)
                              \/ Commit(p) \/ Refuse(p) \/ Die(p)
                              \/ \E written \in SUBSET Records : KillImport(p, written)
  BY <1>0, <1>3, ReceiverStays
  DEF vars, Say, HoldBack, Release, Export, Commit, Refuse, Die, KillImport, Receiver
<1> QED
  BY <1>1, <1>2, <1>3 DEF ExchangeNext

\* A batch read whole is found afterwards, its forgotten sessions apart.
LEMMA DeliveredIsFound ==
  ASSUME ReceiverInv, PromptRestore, NEW p \in Jobs, Deliver(p), NEW r \in job[p].batch
  PROVE  Session(r) \in dead \/ copies'[r] > 0
<1>1. /\ copies \in [Records -> Nat] /\ r \in Records /\ job[p].batch \subseteq Records
  BY DEF ReceiverInv, ExchangeTypeOK
<1>2. r \in Read(p, Touched(job[p]))
  BY DEF Read, Touched
<1>3. /\ copies'[r] \in Nat /\ copies'[r] >= copies[r]
      /\ r \in Taken(p, Touched(job[p])) => copies'[r] > 0
  BY <1>1 DEF Deliver, Import
<1>4. CASE Admit(r)
  BY <1>1, <1>2, <1>3, <1>4 DEF Taken
<1>5. CASE ~Admit(r) /\ Session(r) \notin dead
  BY <1>1, <1>3, <1>5 DEF Admit, ReceiverInv, Whole
<1> QED
  BY <1>4, <1>5

-----------------------------------------------------------------------------
(* The theorems. *)

ExchangeInv == SenderInv /\ ReceiverInv

\* Nothing said and nothing sent.
LEMMA ExchangeInitInv == ExchangeInit => ExchangeInv
<1>1. ExchangeInit => Ledgered /\ Whole
  BY DEF ExchangeInit, Ledgered, Whole
<1> QED
  BY <1>1, SenderInit, InitType DEF ExchangeInv, ReceiverInv

\* Every step keeps the invariant.
LEMMA ExchangeInvNext ==
  ASSUME ExchangeInv, [ExchangeNext]_vars, NEW last \in Nat, \A r \in Records : At(r) <= last
  PROVE  ExchangeInv'
  BY SenderNext, ReceiverNext DEF ExchangeInv, ReceiverInv, SenderInv

\* The exchange keeps its types, a watermark among the instants.
THEOREM ExchangeTyped ==
  ASSUME NEW last \in Nat, \A r \in Records : At(r) <= last
  PROVE  ExchangeSpec => []ExchangeTypeOK
<1>1. ExchangeInit => ExchangeInv
  BY ExchangeInitInv
<1>2. ExchangeInv /\ [ExchangeNext]_vars => ExchangeInv'
  BY ExchangeInvNext
<1>3. ExchangeInv => ExchangeTypeOK
  BY DEF ExchangeInv, SenderInv
<1> QED
  BY <1>1, <1>2, <1>3, PTL DEF ExchangeSpec

\* What a watermark has passed was handed to an import, is on its way, was lost by
\* a pull that said so, or was indexed out of order: for any records, sources,
\* processes, rules, kills and torn files.
THEOREM PassedWasHanded ==
  ASSUME NEW last \in Nat, \A r \in Records : At(r) <= last
  PROVE  ExchangeSpec => []SettledWasHanded
<1>1. ExchangeInit => ExchangeInv
  BY ExchangeInitInv
<1>2. ExchangeInv /\ [ExchangeNext]_vars => ExchangeInv'
  BY ExchangeInvNext
<1>3. ExchangeInv => SettledWasHanded
  <2> SUFFICES ASSUME ExchangeInv, NEW r \in said, ~Fresh(r) PROVE r \in Done
    BY DEF SettledWasHanded, Done
  <2> DEFINE k == Source(Session(r))
  <2>1. r \in Records /\ k \in Sources /\ At(r) \in Nat /\ wm[k] \in Nat
    BY RecordFields DEF ExchangeInv, SenderInv, ExchangeTypeOK
  <2>2. Settled(wm[k], edge[k], r) /\ r \in From(k, said)
    BY <2>1 DEF Fresh, Settled, From
  <2> QED
    BY <2>1, <2>2 DEF ExchangeInv, SenderInv, Watermarks, Passes
<1> QED
  BY <1>1, <1>2, <1>3, PTL DEF ExchangeSpec

\* However often batches are sent and imported again, the receiver holds a record
\* once: for any receiver, an empty one whose damage goes unnoticed too.  Only what
\* came in out of a killed import's tail, which no ledger row knows, may be there
\* again.
THEOREM HeldOnce ==
  ASSUME NEW last \in Nat, \A r \in Records : At(r) <= last
  PROVE  ExchangeSpec => []NoRecordTwice
<1>1. ExchangeInit => ExchangeInv
  BY ExchangeInitInv
<1>2. ExchangeInv /\ [ExchangeNext]_vars => ExchangeInv'
  BY ExchangeInvNext
<1>3. ExchangeInv => NoRecordTwice
  BY DEF ExchangeInv, ReceiverInv, Ledgered, NoRecordTwice
<1> QED
  BY <1>1, <1>2, <1>3, PTL DEF ExchangeSpec

\* Where unforgotten sessions are brought back whole, what is imported is found.
THEOREM ImportedIsFound ==
  ASSUME NEW last \in Nat, \A r \in Records : At(r) <= last, PromptRestore
  PROVE  ExchangeSpec => ImportedIsSearchable
<1>1. ExchangeInit => ExchangeInv
  BY ExchangeInitInv
<1>2. ExchangeInv /\ [ExchangeNext]_vars => ExchangeInv'
  BY ExchangeInvNext
<1>3. ExchangeInv /\ [ExchangeNext]_vars =>
        [\A p \in Jobs : Deliver(p) =>
           \A r \in job[p].batch : Session(r) \in dead \/ copies'[r] > 0]_vars
  BY DeliveredIsFound DEF ExchangeInv
<1> QED
  BY <1>1, <1>2, <1>3, PTL DEF ExchangeSpec, ImportedIsSearchable
=============================================================================
