------------------------ MODULE PostingLayersProofs ------------------------
(***************************************************************************)
(* What PostingLayers promises of the postings of a commit, for any number *)
(* of buckets, overlays, turns and killed passes: they are there, and a    *)
(* search without the lock that saw one manifest found them all. The       *)
(* inductive invariant says what a pass under way has filed and which      *)
(* overlays it made superfluous, and what of a bucket a search that saw no *)
(* commit has read or will still come to.                                  *)
(***************************************************************************)
EXTENDS PostingLayers, FiniteSetTheorems, SequenceTheorems, TLAPS

-----------------------------------------------------------------------------
(* The inductive invariant.                                                 *)

\* The shape of what LayersTypeOK leaves open.
Writers == [at : {"none", "file", "drop"}, todo : SUBSET Buckets, stay : Staying,
            wrote : BOOLEAN, written : 0..2]
Caches == [keys : Nat \X Nat, core : Core, table : Table]
Reading == {"list", "base", "layers"}
Searching == [at : {"idle", "stat_core", "stat_table", "read_core", "read_table",
                    "check", "end", "done"} \cup Reading,
              bucket : Buckets \cup {NoBucket}, before : Nat, locked : BOOLEAN,
              keys : Nat \X Nat, core : Core, table : Table, listed : 0..MaxLayers,
              read : 0..MaxLayers, got : SUBSET TurnNumbers, missing : BOOLEAN,
              calm : BOOLEAN]

LayersShape ==
  /\ layers \in [Buckets -> Seq(SUBSET TurnNumbers)]
  /\ writer \in Writers /\ search \in Searching /\ cache \in Caches
  /\ writer.at = "file" => writer.written \in {0, 1}
  /\ search.at \in Reading => search.bucket \in Buckets

\* What a pass has done: the turn it appends is filed in the buckets it is done
\* with, and the rows are written before the manifest.
Filed ==
  /\ core.turns <= table.turns /\ table.turns <= appended
  /\ writer.at = "file" /\ writer.wrote =>
       /\ core.turns + 1 = appended
       /\ writer.written = 1 => table.turns = appended
       /\ \A b \in words[appended] : b \in writer.todo \/ appended \in Holding(b)
  /\ writer.at = "file" /\ ~writer.wrote => writer.todo = {} /\ Leaving = {}

\* An overlay that is leaving is repeated in the one the pass merged it into,
\* or in the bucket.
Repeats(b) == IF writer.stay[b] = 0 THEN base[b] ELSE layers[b][writer.stay[b]]
Superfluous ==
  \A b \in Buckets : \A n \in DOMAIN layers[b] :
    n > writer.stay[b] => layers[b][n] \subseteq Repeats(b)

\* While files are removed there are more than the manifest promised.
Counted ==
  /\ core.count <= CountOf
  /\ writer.at = "drop" => core.count <= Promised

Covered == \A b \in Buckets : OfBucket(b, core.turns) \subseteq Holding(b)

\* A file that was seen is one that was there before, or the one there is.
Seen(m, now) == m.file <= now.file /\ (m.file = now.file => m = now)

Cached ==
  /\ Seen(cache.core, core) /\ Seen(cache.table, table)
  /\ cache.keys[1] <= cache.core.file /\ cache.keys[2] <= cache.table.file
  /\ cache.core.turns <= appended

\* No commit since the search began.
Calm == search.before = core.file
Known == {"check", "end"} \cup Reading

\* What a search knows of the manifest.
Looked ==
  /\ search.before <= core.file /\ search.core.turns <= appended
  /\ search.missing => search.at \in {"end", "done"}
  /\ search.read # 0 => search.at \in {"layers", "end", "done"}
  /\ search.at \in {"stat_table", "read_core", "read_table"} =>
       search.before <= search.keys[1] /\ search.keys[1] <= core.file
  /\ search.at \in {"read_core", "read_table"} => search.keys[2] <= table.file
  /\ search.at = "read_table" =>
       Seen(search.core, core) /\ search.keys[1] <= search.core.file
  /\ search.at \in Known /\ Calm =>
       /\ search.core = core /\ search.table.turns >= core.turns
       /\ ~search.missing /\ (search.at = "end" => search.bucket \in Buckets)

\* What a search that saw no commit still has to read holds, with what it has
\* read, the postings the manifest commits.
Ahead(from) ==
  UNION {layers[search.bucket][n] : n \in ((from + 1)..search.listed) \cap DOMAIN layers[search.bucket]}
Wanted == OfBucket(search.bucket, core.turns)

Found ==
  Calm =>
    /\ At("base") => Wanted \subseteq base[search.bucket] \cup Ahead(0)
    /\ At("layers") =>
         /\ Wanted \subseteq search.got \cup Ahead(search.read)
         /\ writer.at = "drop" =>
              /\ base[search.bucket] \subseteq search.got
              /\ \A n \in (1..search.read) \cap DOMAIN layers[search.bucket] :
                   layers[search.bucket][n] \subseteq search.got
    /\ At("end") => Wanted \subseteq search.got

PassInv == LayersTypeOK /\ LayersShape /\ Filed /\ Superfluous /\ Counted /\ Covered
LayersInv == PassInv /\ Cached /\ Looked /\ Found /\ CalmSearchIsWhole
-----------------------------------------------------------------------------
(* Counting files, and an overlay that replaces one.                        *)

\* Files are finitely many, and fewer files count less.
LEMMA FilesCount ==
  ASSUME NEW S, S \subseteq Buckets \/ S \subseteq Buckets \X (1..MaxLayers)
  PROVE  /\ IsFiniteSet(S) /\ Cardinality(S) \in Nat
         /\ \A T \in SUBSET S : /\ Cardinality(T) \in Nat /\ Cardinality(T) <= Cardinality(S)
                                /\ Cardinality(S) - Cardinality(T) \in Nat
         /\ \A x \in S : Cardinality(S \ {x}) = Cardinality(S) - 1
<1>1. IsFiniteSet(Buckets) /\ IsFiniteSet(1..MaxLayers)
  BY LayersAssumption, FS_Interval
<1>2. IsFiniteSet(Buckets \X (1..MaxLayers))
  BY <1>1, FS_Product
<1>3. IsFiniteSet(S)
  BY <1>1, <1>2, FS_Subset
<1>4. Cardinality(S) \in Nat
  BY <1>3, FS_CardinalityType
<1>5. \A T \in SUBSET S : IsFiniteSet(T) /\ Cardinality(T) \in Nat /\ Cardinality(T) <= Cardinality(S)
  BY <1>3, FS_Subset, FS_CardinalityType
<1>6. \A x \in S : Cardinality(S \ {x}) = Cardinality(S) - 1
  BY <1>3, FS_RemoveElement
<1>7. \A T \in SUBSET S : Cardinality(S) - Cardinality(T) \in Nat
  BY <1>4, <1>5
<1>. QED  BY <1>3, <1>4, <1>5, <1>6, <1>7, Zenon

\* A sequence with x at its n-th place, which may be the one after its last.
Put(s, n, x) == SubSeq(s, 1, n - 1) \o <<x>> \o SubSeq(s, n + 1, Len(s))

\* An overlay put at n is there, and the others are where they were.
LEMMA PutAt ==
  ASSUME NEW X, NEW s \in Seq(X), NEW n \in 1..(Len(s) + 1), NEW x \in X
  PROVE  /\ Put(s, n, x) \in Seq(X)
         /\ Len(Put(s, n, x)) = (IF n <= Len(s) THEN Len(s) ELSE n)
         /\ Put(s, n, x)[n] = x
         /\ \A i \in 1..Len(s) : i # n => Put(s, n, x)[i] = s[i]
<1>. DEFINE p == SubSeq(s, 1, n - 1)
            q == SubSeq(s, n + 1, Len(s))
            c == p \o <<x>>
            r == c \o q
<1>1. Len(s) \in Nat /\ n \in Nat /\ n >= 1 /\ n <= Len(s) + 1
  BY LenProperties
<1>2. \A i \in 1..Len(s) : s[i] \in X
  BY ElementOfSeq
<1>3. p \in Seq(X) /\ Len(p) = n - 1 /\ \A i \in 1..(n - 1) : p[i] = s[i]
  BY <1>1, <1>2, SubSeqProperties
<1>4. /\ q \in Seq(X) /\ Len(q) = (IF n + 1 <= Len(s) THEN Len(s) - n ELSE 0)
      /\ \A i \in 1..Len(q) : q[i] = s[n + i]
  BY <1>1, <1>2, SubSeqProperties
<1>5. <<x>> \in Seq(X) /\ Len(<<x>>) = 1 /\ <<x>>[1] = x
  OBVIOUS
<1>6. /\ c \in Seq(X) /\ Len(c) = n
      /\ \A i \in 1..n : c[i] = IF i <= n - 1 THEN p[i] ELSE x
  <2>. HIDE DEF p
  <2>. QED  BY <1>1, <1>3, <1>5, ConcatProperties
<1>7. /\ r \in Seq(X) /\ Len(r) = n + Len(q)
      /\ \A i \in 1..n + Len(q) : r[i] = IF i <= n THEN c[i] ELSE q[i - n]
  <2>. HIDE DEF c, q
  <2>. QED  BY <1>4, <1>6, ConcatProperties
<1>. HIDE DEF p, q, c, r
<1>8. Len(q) \in Nat
  BY <1>1, <1>4
<1>9. Len(r) = (IF n <= Len(s) THEN Len(s) ELSE n)
  BY <1>1, <1>4, <1>7
<1>10. r[n] = x
  BY <1>1, <1>6, <1>7, <1>8
<1>11. ASSUME NEW i \in 1..Len(s), i # n
       PROVE  r[i] = s[i]
  <2>1. CASE i < n
    BY <2>1, <1>1, <1>3, <1>6, <1>7, <1>8
  <2>2. CASE n < i
    <3>1. i - n \in 1..Len(q) /\ i \in 1..n + Len(q)
      BY <2>2, <1>1, <1>4
    <3>2. s[n + (i - n)] = s[i] /\ ~(i <= n)
      BY <2>2, <1>1
    <3>. QED  BY <3>1, <3>2, <1>4, <1>7
  <2>. QED  BY <2>1, <2>2, <1>1, <1>11
<1>. QED  BY <1>7, <1>9, <1>10, <1>11 DEF r, c, p, q, Put

-----------------------------------------------------------------------------
(* The steps of a pass keep what is committed covered.                      *)

\* What is known of a directory's files and of a pass that has not begun.
LEMMA AtRest ==
  /\ Resting \in Writers /\ Resting.at = "none" /\ Resting.todo = {} /\ ~Resting.wrote
  /\ Resting.written = 0 /\ \A b \in Buckets : Resting.stay[b] = MaxLayers
<1>1. [b \in Buckets |-> MaxLayers] \in Staying
  BY LayersAssumption DEF Staying
<1>. QED  BY <1>1 DEF Resting, Writers

\* Only overlays past the one a merge went into leave.
LEMMA NoneLeaves ==
  ASSUME LayersTypeOK, \A b \in Buckets : writer.stay[b] = MaxLayers
  PROVE  Leaving = {}
BY LayersAssumption DEF LayersTypeOK, Leaving, AllLayers

\* Files are counted in numbers, and no more leave than there are.
LEMMA CountIsNat ==
  /\ CountOf \in Nat /\ Promised \in Nat /\ Promised <= CountOf
<1>1. HasBase \subseteq Buckets /\ AllLayers \subseteq Buckets \X (1..MaxLayers) /\ Leaving \in SUBSET AllLayers
  BY DEF HasBase, AllLayers, Leaving
<1>2. Cardinality(HasBase) \in Nat
  BY <1>1, FilesCount
<1>3. /\ Cardinality(AllLayers) \in Nat /\ Cardinality(Leaving) \in Nat
      /\ Cardinality(Leaving) <= Cardinality(AllLayers)
  BY <1>1, FilesCount
<1>. QED  BY <1>2, <1>3 DEF CountOf, Promised

\* The first index files its turn in the buckets' files.
LEMMA StartInv == LayersInit => PassInv
<1>. SUFFICES ASSUME LayersInit PROVE PassInv
  OBVIOUS
<1>. USE LayersAssumption
<1>1. PICK S \in (SUBSET Buckets) \ {{}} :
        /\ words = [t \in TurnNumbers |-> IF t = 1 THEN S ELSE {}]
        /\ base = [b \in Buckets |-> IF b \in S THEN {1} ELSE {}]
        /\ core = [file |-> 1, turns |-> 1, count |-> Cardinality(S)]
  BY DEF LayersInit
<1>2. Cardinality(S) \in Nat
  BY FilesCount
<1>3. 1 \in TurnNumbers /\ NoCore \in Core /\ NoTable \in Table /\ core \in Core
  BY <1>1, <1>2 DEF TurnNumbers, NoCore, NoTable, Core, Table
<1>4. NoSearch \in Searching /\ NoSearch.at = "idle" /\ ~NoSearch.locked
  BY <1>3 DEF NoSearch, Searching
<1>5. LayersShape
  <2>1. layers \in [Buckets -> Seq(SUBSET TurnNumbers)]
    BY EmptySeq DEF LayersInit
  <2>2. writer \in Writers /\ search \in Searching /\ cache \in Caches
    BY <1>3, <1>4, AtRest DEF LayersInit, Caches
  <2>. QED  BY <2>1, <2>2, <1>4, AtRest DEF LayersShape, LayersInit, Reading
<1>6. LayersTypeOK
  <2>1. \A b \in Buckets : layers[b] = << >> /\ Overlays(b) = 0 /\ DOMAIN layers[b] = {}
    BY DEF LayersInit, Overlays
  <2>2. words \in [TurnNumbers -> SUBSET Buckets] /\ base \in Bases
    BY <1>1, <1>3 DEF Bases
  <2>3. /\ writer.at = "none" /\ writer.stay \in Staying
        /\ search.core \in Core /\ search.table \in Table /\ search.got \subseteq TurnNumbers
        /\ search.bucket \in Buckets \cup {NoBucket} /\ search.listed \in 0..MaxLayers
    BY <1>5, AtRest DEF LayersShape, Writers, Searching, LayersInit
  <2>4. table \in Table /\ appended \in TurnNumbers /\ events \in 0..MaxEvents /\ ~search.locked
    BY <1>3, <1>4 DEF LayersInit, Table
  <2>. QED  BY <1>3, <2>1, <2>2, <2>3, <2>4 DEF LayersTypeOK
<1>7. Filed /\ Superfluous
  BY AtRest DEF LayersInit, Filed, Superfluous
<1>8. Counted
  <2>. \A b \in Buckets : Overlays(b) = 0
    BY DEF LayersInit, Overlays
  <2>1. HasBase = S /\ AllLayers = {}
    BY <1>1 DEF HasBase, AllLayers
  <2>2. CountOf = core.count
    BY <2>1, <1>1, <1>2, FS_EmptySet DEF CountOf
  <2>. QED  BY <1>1, <1>2, <2>2, AtRest DEF Counted, LayersInit
<1>9. Covered
  <2>1. SUFFICES ASSUME NEW b \in Buckets, NEW t \in OfBucket(b, core.turns)
                 PROVE  t \in base[b]
    BY DEF Covered, Holding
  <2>2. t = 1 /\ b \in words[t]
    BY <1>1 DEF OfBucket
  <2>. QED  BY <1>1, <1>3, <2>2
<1>. QED  BY <1>5, <1>6, <1>7, <1>8, <1>9 DEF PassInv

\* The conjuncts of PassInv that no pass disturbs before it files anything.
LEMMA SameFiles ==
  ASSUME UNCHANGED <<base, layers>>
  PROVE  /\ HasBase' = HasBase /\ AllLayers' = AllLayers /\ CountOf' = CountOf
         /\ \A b \in Buckets : Holding(b)' = Holding(b) /\ Overlays(b)' = Overlays(b)
BY DEF HasBase, AllLayers, CountOf, Holding, Overlays

\* A pass begins, and nothing leaves.
LEMMA NothingLeavesYet ==
  ASSUME LayersTypeOK, \A b \in Buckets : writer'.stay[b] = MaxLayers, UNCHANGED layers
  PROVE  Superfluous' /\ Leaving' = {}
<1>1. \A b \in Buckets : \A n \in DOMAIN layers[b] : n \in Nat /\ n <= MaxLayers
  BY LayersAssumption, LenProperties DEF LayersTypeOK, Overlays
<1>2. \A b \in Buckets : Len(layers[b]) <= MaxLayers /\ Len(layers[b]) \in Nat
  BY LayersAssumption DEF LayersTypeOK, Overlays
<1>. QED  BY <1>1, <1>2, LayersAssumption DEF Superfluous, Leaving, AllLayers, Overlays

\* A pass begins with nothing filed.
LEMMA AppendsTurnKeeps ==
  ASSUME PassInv, NEW S \in (SUBSET Buckets) \ {{}}, AppendsTurn(S)
  PROVE  PassInv'
<1>. USE LayersAssumption DEF PassInv
<1>1. /\ appended \in Nat /\ appended' = appended + 1 /\ appended' \in TurnNumbers
      /\ appended = core.turns
  BY DEF AppendsTurn, LayersTypeOK, TurnNumbers, Damaged
<1>2. /\ writer'.at = "file" /\ writer'.todo = S /\ writer'.wrote /\ writer'.written = 0
      /\ writer' \in Writers /\ \A b \in Buckets : writer'.stay[b] = MaxLayers
  BY AtRest DEF AppendsTurn, Resting, Writers
<1>3. /\ words' = [words EXCEPT ![appended + 1] = S] /\ writer.at = "none" /\ ~search.locked
      /\ UNCHANGED <<base, layers, table, core, search, cache, events>>
  BY DEF AppendsTurn, LockIsFree
<1>4. words' \in [TurnNumbers -> SUBSET Buckets] /\ words'[appended'] = S
  BY <1>1, <1>3 DEF LayersTypeOK
<1>5. LayersTypeOK'
  <2>1. \A b \in Buckets : Overlays(b)' = Overlays(b)
    BY <1>3, SameFiles
  <2>. QED  BY <1>1, <1>2, <1>3, <1>4, <2>1 DEF LayersTypeOK, Writers
<1>6. LayersShape'
  BY <1>2, <1>3 DEF LayersShape
<1>7. Filed'
  BY <1>1, <1>2, <1>3, <1>4 DEF Filed, LayersTypeOK, Table, Core
<1>8. Superfluous'
  BY <1>2, <1>3, NothingLeavesYet
<1>9. Counted'
  BY <1>2, <1>3, SameFiles DEF Counted
<1>10. Covered'
  <2>1. \A b \in Buckets : OfBucket(b, core.turns)' = OfBucket(b, core.turns)
    BY <1>1, <1>3 DEF OfBucket, LayersTypeOK, TurnNumbers
  <2>. QED  BY <2>1, <1>3, SameFiles DEF Covered
<1>. QED  BY <1>5, <1>6, <1>7, <1>8, <1>9, <1>10

\* Files only grow.
Grows ==
  \A b \in Buckets :
    /\ base[b] \subseteq base'[b]
    /\ \A n \in DOMAIN layers[b] : n \in DOMAIN layers'[b] /\ layers[b][n] \subseteq layers'[b][n]

\* A step that removes no file loses no posting and counts no fewer.
LEMMA GrowsCounts ==
  ASSUME PassInv, LayersTypeOK', LayersShape', Grows
  PROVE  /\ CountOf <= CountOf' /\ CountOf \in Nat /\ CountOf' \in Nat
         /\ \A b \in Buckets : Holding(b) \subseteq Holding(b)'
<1>. USE LayersAssumption DEF PassInv
<1>1. /\ HasBase \subseteq HasBase' /\ HasBase' \subseteq Buckets
  BY DEF Grows, HasBase
<1>2. AllLayers \subseteq AllLayers' /\ AllLayers' \subseteq Buckets \X (1..MaxLayers)
  <2>1. \A b \in Buckets : /\ DOMAIN layers[b] = 1..Overlays(b) /\ Overlays(b) \in Nat
                           /\ DOMAIN layers'[b] = 1..Overlays(b)' /\ Overlays(b)' \in Nat
    BY LenProperties DEF LayersShape, Overlays
  <2>2. \A l \in AllLayers : l[1] \in Buckets /\ l[2] \in 1..MaxLayers /\ l[2] \in 1..Overlays(l[1])
    BY <2>1 DEF AllLayers
  <2>3. ASSUME NEW l \in AllLayers
        PROVE  l[2] <= Overlays(l[1])'
    <3>1. l[1] \in Buckets /\ l[2] \in DOMAIN layers[l[1]]
      BY <2>1, <2>2
    <3>2. l[2] \in DOMAIN layers'[l[1]]
      BY <3>1 DEF Grows
    <3>. QED  BY <2>1, <3>1, <3>2
  <2>. QED  BY <2>3 DEF AllLayers
<1>3. /\ Cardinality(HasBase) <= Cardinality(HasBase')
      /\ Cardinality(HasBase) \in Nat /\ Cardinality(HasBase') \in Nat
  BY <1>1, FilesCount
<1>4. /\ Cardinality(AllLayers) <= Cardinality(AllLayers')
      /\ Cardinality(AllLayers) \in Nat /\ Cardinality(AllLayers') \in Nat
  BY <1>2, FilesCount
<1>5. \A b \in Buckets : Holding(b) \subseteq Holding(b)'
  BY DEF Grows, Holding
<1>. QED  BY <1>3, <1>4, <1>5 DEF CountOf

\* What a worker of a pass does to one bucket.
LEMMA FilingKeeps ==
  ASSUME PassInv, NEW b \in Buckets, Filing(b), LayersTypeOK', LayersShape', Grows, Superfluous',
         UNCHANGED <<words, appended, table, core>>,
         writer'.at = "file", writer'.todo = writer.todo \ {b}, writer'.wrote = writer.wrote,
         writer'.written = writer.written, appended \in Holding(b)'
  PROVE  PassInv'
<1>. USE LayersAssumption DEF PassInv
<1>1. writer.wrote /\ writer.at = "file"
  BY DEF Filing, Filed
<1>2. CountOf <= CountOf' /\ \A c \in Buckets : Holding(c) \subseteq Holding(c)'
  BY GrowsCounts
<1>3. words[appended] \subseteq Buckets
  BY DEF LayersTypeOK
<1>4. Filed'
  BY <1>1, <1>2, <1>3 DEF Filed
<1>5. Counted'
  <2>1. core.count \in Nat
    BY DEF LayersTypeOK, Core
  <2>. QED  BY <1>1, <1>2, <2>1, GrowsCounts DEF Counted
<1>6. Covered'
  BY <1>2 DEF Covered, OfBucket
<1>. QED  BY <1>4, <1>5, <1>6

\* The locals of a pass that is done with a bucket.
LEMMA WriterFiled ==
  ASSUME writer \in Writers, NEW b \in Buckets, NEW k \in 0..MaxLayers,
         writer' = [writer EXCEPT !.todo = @ \ {b}, !.stay[b] = k]
  PROVE  /\ writer' \in Writers /\ writer'.at = writer.at /\ writer'.todo = writer.todo \ {b}
         /\ writer'.wrote = writer.wrote /\ writer'.written = writer.written
         /\ writer'.stay \in Staying /\ writer'.stay[b] = k
         /\ \A c \in Buckets \ {b} : writer'.stay[c] = writer.stay[c]
<1>. DEFINE after == [writer.stay EXCEPT ![b] = k]
<1>1. after \in Staying /\ after[b] = k /\ \A c \in Buckets \ {b} : after[c] = writer.stay[c]
  BY DEF Writers, Staying
<1>2. writer' = [writer EXCEPT !.todo = @ \ {b}, !.stay = after]
  BY DEF Writers
<1>. HIDE DEF after
<1>. QED  BY <1>1, <1>2 DEF Writers

\* A bucket's first posting.
LEMMA WritesBucketKeeps ==
  ASSUME PassInv, NEW b \in Buckets, WritesBucket(b)
  PROVE  PassInv' /\ Grows
<1>. USE LayersAssumption DEF PassInv
<1>1. /\ writer.at = "file" /\ b \in writer.todo /\ base[b] = {} /\ layers[b] = << >>
      /\ base' = [base EXCEPT ![b] = {appended}]
      /\ writer' = [writer EXCEPT !.todo = @ \ {b}]
      /\ UNCHANGED <<words, appended, layers, table, core, search, cache, events>>
  BY DEF WritesBucket, Filing, LayersTypeOK
<1>2. /\ writer' \in Writers /\ writer'.at = "file" /\ writer'.todo = writer.todo \ {b}
      /\ writer'.wrote = writer.wrote /\ writer'.written = writer.written
      /\ writer'.stay = writer.stay
  BY <1>1 DEF LayersShape, Writers
<1>3. base' \in Bases /\ base'[b] = {appended} /\ \A c \in Buckets \ {b} : base'[c] = base[c]
  BY <1>1 DEF LayersTypeOK, Bases
<1>4. \A c \in Buckets : Overlays(c)' = Overlays(c)
  BY <1>1 DEF Overlays
<1>5. LayersTypeOK'
  BY <1>1, <1>2, <1>3, <1>4 DEF LayersTypeOK, Writers
<1>6. LayersShape'
  BY <1>1, <1>2 DEF LayersShape
<1>7. Grows
  BY <1>1, <1>3 DEF Grows
<1>8. Superfluous'
  <2>1. DOMAIN layers[b] = {}
    BY <1>1
  <2>. QED  BY <1>1, <1>2, <1>3, <2>1 DEF Superfluous, Repeats
<1>9. appended \in Holding(b)'
  BY <1>3 DEF Holding
<1>10. Filing(b)
  BY <1>1 DEF Filing
<1>. QED  BY <1>1, <1>2, <1>5, <1>6, <1>7, <1>8, <1>9, <1>10, FilingKeeps

\* All of a bucket in one file.
LEMMA FoldsKeeps ==
  ASSUME PassInv, NEW b \in Buckets, Folds(b)
  PROVE  PassInv' /\ Grows
<1>. USE LayersAssumption DEF PassInv
<1>1. /\ writer.at = "file" /\ b \in writer.todo /\ base[b] # {}
      /\ base' = [base EXCEPT ![b] = Holding(b) \cup {appended}]
      /\ writer' = [writer EXCEPT !.todo = @ \ {b}, !.stay[b] = 0]
      /\ UNCHANGED <<words, appended, layers, table, core, search, cache, events>>
  BY DEF Folds, Filing, LayersTypeOK
<1>2. /\ writer' \in Writers /\ writer'.at = "file" /\ writer'.todo = writer.todo \ {b}
      /\ writer'.wrote = writer.wrote /\ writer'.written = writer.written
      /\ writer'.stay \in Staying /\ writer'.stay[b] = 0
      /\ \A c \in Buckets \ {b} : writer'.stay[c] = writer.stay[c]
  <2>1. writer \in Writers /\ 0 \in 0..MaxLayers
    BY DEF LayersShape
  <2>. QED  BY <1>1, <2>1, WriterFiled, Zenon
<1>3. Holding(b) \subseteq TurnNumbers
  BY DEF Holding, LayersTypeOK, Bases
<1>4. /\ base' \in Bases /\ base'[b] = Holding(b) \cup {appended}
      /\ \A c \in Buckets \ {b} : base'[c] = base[c]
  BY <1>1, <1>3 DEF LayersTypeOK, Bases
<1>5. \A c \in Buckets : Overlays(c)' = Overlays(c)
  BY <1>1 DEF Overlays
<1>6. LayersTypeOK'
  <2>1. \A c \in Buckets : base'[c] = {} => layers'[c] = << >>
    BY <1>1, <1>4 DEF LayersTypeOK
  <2>. QED  BY <1>1, <1>2, <1>4, <1>5, <2>1 DEF LayersTypeOK
<1>7. LayersShape'
  BY <1>1, <1>2 DEF LayersShape
<1>8. Grows
  BY <1>1, <1>4 DEF Grows, Holding
<1>9. Superfluous'
  <2>1. \A n \in DOMAIN layers[b] : layers[b][n] \subseteq base'[b]
    BY <1>4 DEF Holding
  <2>2. writer'.stay[b] = 0 /\ \A c \in Buckets \ {b} : writer'.stay[c] = writer.stay[c]
    BY <1>2
  <2>. QED  BY <1>1, <1>4, <2>1, <2>2 DEF Superfluous, Repeats
<1>10. appended \in Holding(b)'
  BY <1>4 DEF Holding
<1>11. Filing(b)
  BY <1>1 DEF Filing
<1>. QED  BY <1>1, <1>2, <1>6, <1>7, <1>8, <1>9, <1>10, <1>11, FilingKeeps

\* A new overlay, with those from the n-th on in it.
LEMMA MergesFromKeeps ==
  ASSUME PassInv, NEW b \in Buckets, NEW n \in 1..(Overlays(b) + 1), MergesFrom(b, n)
  PROVE  PassInv' /\ Grows
<1>. USE LayersAssumption DEF PassInv
<1>. DEFINE merged == {appended} \cup UNION {layers[b][k] : k \in n..Overlays(b)}
            old == layers[b]
            new == Put(old, n, merged)
<1>1. /\ writer.at = "file" /\ b \in writer.todo /\ base[b] # {} /\ n <= MaxLayers
      /\ layers' = [layers EXCEPT ![b] = new]
      /\ writer' = [writer EXCEPT !.todo = @ \ {b}, !.stay[b] = n]
      /\ UNCHANGED <<words, appended, base, table, core, search, cache, events>>
  BY DEF MergesFrom, Filing, Fits, Put
<1>2. /\ old \in Seq(SUBSET TurnNumbers) /\ Overlays(b) = Len(old) /\ Len(old) \in Nat
      /\ DOMAIN old = 1..Len(old) /\ Len(old) <= MaxLayers /\ n \in Nat /\ n >= 1
  BY LenProperties DEF LayersShape, Overlays, LayersTypeOK
<1>3. merged \in SUBSET TurnNumbers /\ merged # {} /\ appended \in merged
  <2>1. \A k \in n..Overlays(b) : k \in DOMAIN layers[b]
    BY <1>2
  <2>. QED  BY <2>1 DEF LayersTypeOK
<1>4. /\ new \in Seq(SUBSET TurnNumbers) /\ Len(new) = (IF n <= Len(old) THEN Len(old) ELSE n)
      /\ new[n] = merged /\ \A i \in 1..Len(old) : i # n => new[i] = old[i]
  <2>. DEFINE Sets == SUBSET TurnNumbers
  <2>1. n \in 1..(Len(old) + 1) /\ old \in Seq(Sets) /\ merged \in Sets
    BY <1>2, <1>3
  <2>. HIDE DEF merged, old, Sets
  <2>2. /\ new \in Seq(Sets) /\ Len(new) = (IF n <= Len(old) THEN Len(old) ELSE n)
        /\ new[n] = merged /\ \A i \in 1..Len(old) : i # n => new[i] = old[i]
    BY <2>1, PutAt
  <2>. QED  BY <2>2 DEF Sets
<1>. HIDE DEF new
<1>5. /\ layers' \in [Buckets -> Seq(SUBSET TurnNumbers)] /\ layers'[b] = new
      /\ \A c \in Buckets \ {b} : layers'[c] = layers[c]
  <2>. HIDE DEF merged, old
  <2>. QED  BY <1>1, <1>4 DEF LayersShape
<1>6. DOMAIN new = 1..Len(new) /\ Len(new) <= MaxLayers /\ Len(new) \in Nat /\ n \in DOMAIN new
  BY <1>1, <1>2, <1>4, LenProperties
<1>7. /\ writer' \in Writers /\ writer'.at = "file" /\ writer'.todo = writer.todo \ {b}
      /\ writer'.wrote = writer.wrote /\ writer'.written = writer.written
      /\ writer'.stay \in Staying /\ writer'.stay[b] = n
      /\ \A c \in Buckets \ {b} : writer'.stay[c] = writer.stay[c]
  <2>1. writer \in Writers /\ n \in 0..MaxLayers
    BY <1>1, <1>2 DEF LayersShape
  <2>. QED  BY <1>1, <2>1, WriterFiled, Zenon
<1>8. \A i \in DOMAIN new : i = n \/ (i \in DOMAIN old /\ new[i] = old[i])
  BY <1>2, <1>4, <1>6
<1>9. \A i \in DOMAIN old : i \in DOMAIN new
  BY <1>2, <1>4, <1>6
<1>10. \A i \in n..Len(old) : old[i] \subseteq merged
  BY <1>2
<1>. HIDE DEF merged
<1>11. \A i \in DOMAIN old : i \in DOMAIN new /\ old[i] \subseteq new[i]
  <2>1. SUFFICES ASSUME NEW i \in DOMAIN old PROVE i \in DOMAIN new /\ old[i] \subseteq new[i]
    OBVIOUS
  <2>2. CASE i = n
    BY <2>2, <1>2, <1>4, <1>9, <1>10
  <2>. QED  BY <2>2, <1>2, <1>4, <1>9
<1>12. Grows
  BY <1>1, <1>5, <1>11 DEF Grows
<1>13. LayersTypeOK'
  <2>1. \A i \in DOMAIN new : new[i] \in (SUBSET TurnNumbers) \ {{}}
    <3>1. \A i \in DOMAIN old : old[i] \in (SUBSET TurnNumbers) \ {{}}
      BY DEF LayersTypeOK
    <3>. HIDE DEF old, merged
    <3>2. merged \in (SUBSET TurnNumbers) \ {{}} /\ new[n] = merged
      BY <1>3, <1>4
    <3>. QED  BY <1>8, <3>1, <3>2
  <2>2. /\ \A c \in Buckets : Overlays(c)' \in 0..MaxLayers
        /\ \A c \in Buckets \ {b} : Overlays(c)' = Overlays(c)
    BY <1>5, <1>6 DEF Overlays, LayersTypeOK
  <2>3. \A c \in Buckets : /\ \A i \in DOMAIN layers'[c] : layers'[c][i] \in (SUBSET TurnNumbers) \ {{}}
                           /\ base'[c] = {} => layers'[c] = << >>
    BY <1>1, <1>5, <2>1 DEF LayersTypeOK
  <2>. QED  BY <1>1, <1>7, <2>2, <2>3 DEF LayersTypeOK, Writers
<1>14. LayersShape'
  BY <1>1, <1>5, <1>7 DEF LayersShape
<1>15. Superfluous'
  <2>1. writer'.stay[b] = n /\ \A c \in Buckets \ {b} : writer'.stay[c] = writer.stay[c]
    BY <1>7
  <2>2. \A i \in DOMAIN new : i > n => new[i] \subseteq merged
    BY <1>2, <1>6, <1>8, <1>10
  <2>3. Repeats(b)' = merged
    BY <1>2, <1>4, <1>5, <2>1 DEF Repeats
  <2>4. \A c \in Buckets \ {b} : Repeats(c)' = Repeats(c)
    BY <1>1, <1>5, <2>1 DEF Repeats
  <2>. QED  BY <1>5, <2>1, <2>2, <2>3, <2>4 DEF Superfluous
<1>16. appended \in Holding(b)'
  BY <1>3, <1>4, <1>5, <1>6 DEF Holding
<1>17. Filing(b)
  BY <1>1 DEF Filing
<1>. QED  BY <1>1, <1>7, <1>12, <1>13, <1>14, <1>15, <1>16, <1>17, FilingKeeps

\* The rows, then the manifest.
LEMMA CommitsKeeps ==
  ASSUME PassInv, Commits
  PROVE  PassInv' /\ Grows /\ (UNCHANGED core \/ core'.file = core.file + 1)
         /\ (UNCHANGED core => writer'.at = "file" /\ table'.file = table.file + 1)
         /\ (~UNCHANGED core => UNCHANGED table)
<1>. USE LayersAssumption DEF PassInv
<1>1. /\ writer.at = "file" /\ writer.todo = {} /\ writer.written \in {0, 1}
      /\ UNCHANGED <<words, appended, base, layers, search, cache, events>>
  BY DEF Commits, AllFiled, LayersShape
<1>2. /\ core.file \in Nat /\ core.turns \in 0..MaxTurns /\ core.count \in Nat
      /\ table.file \in Nat /\ table.turns \in 0..MaxTurns /\ appended \in 1..MaxTurns
      /\ core = [file |-> core.file, turns |-> core.turns, count |-> core.count]
  BY DEF LayersTypeOK, Core, Table, TurnNumbers
<1>3. /\ writer' = [writer EXCEPT !.written = @ + 1,
                                  !.at = IF writer.written = 1 THEN "drop" ELSE @]
      /\ writer' \in Writers /\ writer'.stay = writer.stay /\ writer'.todo = {}
      /\ writer'.wrote = writer.wrote /\ writer'.written = writer.written + 1
      /\ writer'.at = (IF writer.written = 1 THEN "drop" ELSE "file")
  <2>1. writer' = [writer EXCEPT !.written = @ + 1,
                                 !.at = IF writer.written = 1 THEN "drop" ELSE @]
    BY DEF Commits
  <2>2. writer.written + 1 \in 0..2 /\ writer \in Writers
    BY <1>1 DEF LayersShape
  <2>. QED  BY <2>1, <2>2, <1>1 DEF Writers
<1>4. /\ \A b \in Buckets : Holding(b)' = Holding(b) /\ Overlays(b)' = Overlays(b)
      /\ CountOf' = CountOf /\ AllLayers' = AllLayers /\ HasBase' = HasBase
  BY <1>1, SameFiles
<1>5. Leaving' = Leaving /\ Promised' = Promised
  BY <1>3, <1>4 DEF Leaving, Promised
<1>6. Grows
  BY <1>1 DEF Grows
<1>7. Superfluous'
  BY <1>1, <1>3 DEF Superfluous, Repeats
<1>8. CASE writer.written = 0
  <2>1. /\ core' = core
        /\ table' = [file |-> table.file + 1,
                     turns |-> IF writer.wrote THEN appended ELSE table.turns]
    BY <1>8, <1>1 DEF Commits, CommitOrder
  <2>2. table' \in Table
    BY <2>1, <1>2 DEF Table
  <2>3. LayersTypeOK'
    BY <2>1, <2>2, <1>1, <1>3, <1>4, <1>8 DEF LayersTypeOK, Writers
  <2>4. LayersShape'
    BY <1>1, <1>3, <1>8 DEF LayersShape
  <2>5. Filed'
    <3>1. words[appended] \subseteq Buckets
      BY DEF LayersTypeOK
    <3>2. writer'.at = "file" /\ writer'.written = 1 /\ writer'.todo = {}
      BY <1>3, <1>8
    <3>3. table'.turns = (IF writer.wrote THEN appended ELSE table.turns)
      BY <2>1
    <3>4. core.turns <= table'.turns /\ table'.turns <= appended
      BY <3>3, <1>1, <1>2 DEF Filed
    <3>. QED  BY <3>1, <3>2, <3>3, <3>4, <2>1, <1>1, <1>3, <1>4, <1>5 DEF Filed
  <2>6. Counted'
    BY <2>1, <1>3, <1>4, <1>8 DEF Counted
  <2>7. Covered'
    BY <2>1, <1>1, <1>4 DEF Covered, OfBucket
  <2>. QED  BY <2>1, <2>3, <2>4, <2>5, <2>6, <2>7, <1>3, <1>6, <1>7, <1>8
<1>9. CASE writer.written = 1
  <2>1. core' = Stamped /\ table' = table
    BY <1>9, <1>1 DEF Commits, CommitOrder
  <2>2. /\ core'.file = core.file + 1 /\ core' \in Core
        /\ core'.turns = (IF writer.wrote THEN appended ELSE core.turns)
        /\ core'.count = (IF writer.wrote THEN Promised ELSE core.count)
    <3>1. Promised \in Nat
      BY CountIsNat
    <3>. QED  BY <2>1, <3>1, <1>2 DEF Stamped, Core
  <2>3. core' # core
    BY <2>2, <1>2
  <2>4. LayersTypeOK'
    BY <2>1, <2>2, <1>1, <1>3, <1>4, <1>9 DEF LayersTypeOK, Writers
  <2>5. LayersShape'
    BY <1>1, <1>3, <1>9 DEF LayersShape
  <2>6. Filed'
    BY <2>1, <2>2, <1>1, <1>2, <1>3, <1>9 DEF Filed
  <2>7. Counted'
    <3>1. writer.wrote => core'.count = Promised' /\ Promised' <= CountOf'
      BY <2>2, <1>4, <1>5, CountIsNat
    <3>2. ~writer.wrote => core'.count <= CountOf' /\ CountOf' = Promised'
      <4>1. ~writer.wrote => Leaving = {}
        BY <1>1 DEF Filed
      <4>. QED  BY <4>1, <2>2, <1>4, <1>5, FS_EmptySet, CountIsNat DEF Promised, Counted
    <3>. QED  BY <3>1, <3>2, <2>2, <1>4, <1>5, CountIsNat DEF Counted
  <2>8. Covered'
    <3>1. SUFFICES ASSUME NEW b \in Buckets, NEW t \in OfBucket(b, core.turns)'
                   PROVE  t \in Holding(b)
      BY <1>4 DEF Covered
    <3>2. t \in 1..core'.turns /\ b \in words[t]
      BY <1>1 DEF OfBucket
    <3>3. CASE t <= core.turns
      BY <3>2, <3>3, <1>2 DEF Covered, OfBucket
    <3>4. CASE t > core.turns
      <4>1. writer.wrote /\ t = appended
        BY <3>2, <3>4, <2>2, <1>1, <1>2 DEF Filed
      <4>. QED  BY <4>1, <3>2, <1>1 DEF Filed
    <3>. QED  BY <3>2, <3>3, <3>4, <1>2
  <2>. QED  BY <2>1, <2>2, <2>3, <2>4, <2>5, <2>6, <2>7, <2>8, <1>6, <1>7
<1>. QED  BY <1>1, <1>8, <1>9

\* A file that leaves is repeated in one that stays.
LEMMA DropsLastKeeps ==
  ASSUME PassInv, NEW b \in Buckets, DropsLast(b)
  PROVE  PassInv'
<1>. USE LayersAssumption DEF PassInv
<1>. DEFINE old == layers[b]
            m == Len(layers[b])
            new == SubSeq(old, 1, m - 1)
<1>1. /\ writer.at = "drop" /\ <<b, m>> \in Leaving
      /\ layers' = [layers EXCEPT ![b] = new]
      /\ UNCHANGED <<words, appended, base, table, core, writer, search, cache, events>>
  BY DEF DropsLast, MayDrop, IsLast, Overlays
<1>2. /\ old \in Seq(SUBSET TurnNumbers) /\ m \in Nat /\ DOMAIN old = 1..m
      /\ \A i \in 1..m : old[i] \in SUBSET TurnNumbers
  BY LenProperties, ElementOfSeq DEF LayersShape
<1>3. /\ m \in 1..MaxLayers /\ writer.stay[b] < m /\ writer.stay[b] \in Nat
  BY <1>1 DEF Leaving, AllLayers, LayersTypeOK, Staying
<1>4. /\ new \in Seq(SUBSET TurnNumbers) /\ Len(new) = m - 1
      /\ \A i \in 1..(m - 1) : new[i] = old[i]
  <2>. HIDE DEF old
  <2>. QED  BY <1>2, <1>3, SubSeqProperties
<1>5. DOMAIN new = 1..(m - 1)
  BY <1>4, LenProperties
<1>. HIDE DEF new
<1>6. /\ layers' \in [Buckets -> Seq(SUBSET TurnNumbers)] /\ layers'[b] = new
      /\ \A c \in Buckets \ {b} : layers'[c] = layers[c]
  BY <1>1, <1>4 DEF LayersShape
<1>7. /\ Overlays(b)' = m - 1 /\ Overlays(b) = m
      /\ \A c \in Buckets \ {b} : Overlays(c)' = Overlays(c)
  BY <1>4, <1>6 DEF Overlays
<1>8. LayersTypeOK'
  <2>1. \A c \in Buckets : Overlays(c)' \in 0..MaxLayers
    BY <1>2, <1>3, <1>7 DEF LayersTypeOK
  <2>2. \A i \in DOMAIN new : new[i] \in (SUBSET TurnNumbers) \ {{}}
    BY <1>2, <1>4, <1>5 DEF LayersTypeOK
  <2>3. base[b] # {}
    BY <1>2, <1>3 DEF LayersTypeOK
  <2>4. \A c \in Buckets : /\ \A i \in DOMAIN layers'[c] : layers'[c][i] \in (SUBSET TurnNumbers) \ {{}}
                           /\ base'[c] = {} => layers'[c] = << >>
    BY <1>1, <1>6, <2>2, <2>3 DEF LayersTypeOK
  <2>. QED  BY <1>1, <2>1, <2>4 DEF LayersTypeOK
<1>9. LayersShape'
  BY <1>1, <1>6 DEF LayersShape
<1>10. \A c \in Buckets : Holding(c)' = Holding(c)
  <2>1. Holding(b)' \subseteq Holding(b)
    BY <1>1, <1>2, <1>4, <1>5, <1>6 DEF Holding
  <2>2. ASSUME NEW t \in Holding(b) PROVE t \in Holding(b)'
    <3>1. CASE t \in base[b]
      BY <3>1, <1>1 DEF Holding
    <3>2. CASE \E i \in 1..m : t \in old[i]
      <4>1. PICK i \in 1..m : t \in old[i]
        BY <3>2
      <4>2. CASE i < m
        <5>1. i \in DOMAIN layers'[b] /\ t \in layers'[b][i]
          BY <4>1, <4>2, <1>2, <1>4, <1>5, <1>6
        <5>. QED  BY <5>1 DEF Holding
      <4>3. CASE i = m /\ writer.stay[b] = 0
        BY <4>1, <4>3, <1>1, <1>2, <1>3 DEF Superfluous, Repeats, Holding
      <4>4. CASE i = m /\ writer.stay[b] # 0
        <5>1. t \in layers[b][writer.stay[b]]
          BY <4>1, <4>4, <1>2, <1>3 DEF Superfluous, Repeats
        <5>2. writer.stay[b] \in 1..(m - 1)
          BY <4>4, <1>3
        <5>3. writer.stay[b] \in DOMAIN layers'[b] /\ t \in layers'[b][writer.stay[b]]
          BY <5>1, <5>2, <1>4, <1>5, <1>6
        <5>. QED  BY <5>3 DEF Holding
      <4>. QED  BY <4>2, <4>3, <4>4, <1>2
    <3>. QED  BY <3>1, <3>2, <1>2 DEF Holding
  <2>3. \A c \in Buckets \ {b} : Holding(c)' = Holding(c)
    BY <1>1, <1>6 DEF Holding
  <2>. QED  BY <2>1, <2>2, <2>3
<1>11. Filed'
  BY <1>1 DEF Filed
<1>12. Superfluous'
  <2>1. \A c \in Buckets \ {b} : Repeats(c)' = Repeats(c)
    BY <1>1, <1>6 DEF Repeats
  <2>2. Repeats(b)' = Repeats(b)
    BY <1>1, <1>3, <1>4, <1>6 DEF Repeats
  <2>. QED  BY <2>1, <2>2, <1>1, <1>2, <1>4, <1>5, <1>6 DEF Superfluous
<1>13. Counted'
  <2>1. HasBase' = HasBase
    BY <1>1 DEF HasBase
  <2>2. AllLayers' = AllLayers \ {<<b, m>>}
    BY <1>2, <1>3, <1>7 DEF AllLayers
  <2>3. Leaving' = Leaving \ {<<b, m>>}
    BY <1>1, <2>2 DEF Leaving
  <2>4. <<b, m>> \in AllLayers /\ <<b, m>> \in Leaving
    BY <1>1 DEF Leaving
  <2>5. /\ Cardinality(AllLayers') = Cardinality(AllLayers) - 1
        /\ Cardinality(Leaving') = Cardinality(Leaving) - 1
        /\ Cardinality(AllLayers) \in Nat /\ Cardinality(Leaving) \in Nat
        /\ Cardinality(Leaving') \in Nat /\ Cardinality(AllLayers') \in Nat
    <3>1. AllLayers \subseteq Buckets \X (1..MaxLayers) /\ Leaving \subseteq Buckets \X (1..MaxLayers)
      BY DEF AllLayers, Leaving
    <3>2. Leaving' \in SUBSET Leaving /\ AllLayers' \in SUBSET AllLayers
      BY <2>2, <2>3
    <3>. QED  BY <3>1, <3>2, <2>2, <2>3, <2>4, FilesCount
  <2>6. Cardinality(HasBase) \in Nat
    BY FilesCount DEF HasBase
  <2>7. Promised' = Promised /\ Promised' <= CountOf'
    BY <2>1, <2>5, <2>6 DEF Promised, CountOf
  <2>8. core.count \in Nat /\ CountOf' \in Nat /\ Promised \in Nat
    <3>1. CountOf' = Cardinality(HasBase) + Cardinality(AllLayers')
      BY <2>1 DEF CountOf
    <3>2. core.count \in Nat
      BY DEF LayersTypeOK, Core
    <3>. QED  BY <3>1, <3>2, <2>5, <2>6, CountIsNat
  <2>. QED  BY <1>1, <2>7, <2>8 DEF Counted
<1>14. Covered'
  BY <1>1, <1>10 DEF Covered, OfBucket
<1>. QED  BY <1>8, <1>9, <1>11, <1>12, <1>13, <1>14

\* A file that stays is one more than was promised.
LEMMA CannotDropKeeps ==
  ASSUME PassInv, NEW b \in Buckets, CannotDrop(b)
  PROVE  PassInv'
<1>. USE LayersAssumption DEF PassInv
<1>. DEFINE after == [writer.stay EXCEPT ![b] = MaxLayers]
<1>1. /\ writer.at = "drop" /\ writer' = [writer EXCEPT !.stay = after]
      /\ events' \in 0..MaxEvents
      /\ UNCHANGED <<words, appended, base, layers, table, core, search, cache>>
  BY DEF CannotDrop, MayDrop, Event, LayersShape, Writers, LayersTypeOK
<1>2. /\ after \in Staying /\ after[b] = MaxLayers
      /\ \A c \in Buckets \ {b} : after[c] = writer.stay[c]
  BY DEF LayersTypeOK, Staying
<1>. HIDE DEF after
<1>3. writer' \in Writers /\ writer'.at = "drop" /\ writer'.stay = after
  BY <1>1, <1>2 DEF LayersShape, Writers
<1>4. /\ \A c \in Buckets : Holding(c)' = Holding(c) /\ Overlays(c)' = Overlays(c)
      /\ CountOf' = CountOf /\ AllLayers' = AllLayers
  BY <1>1, SameFiles
<1>5. \A c \in Buckets : Overlays(c) \in 0..MaxLayers
  BY DEF LayersTypeOK
<1>6. LayersTypeOK' /\ LayersShape'
  BY <1>1, <1>2, <1>3, <1>4 DEF LayersTypeOK, LayersShape
<1>7. Filed'
  BY <1>1, <1>3 DEF Filed
<1>8. Superfluous'
  <2>1. \A n \in DOMAIN layers[b] : n \in Nat /\ n <= MaxLayers
    BY <1>5, LenProperties DEF LayersShape, Overlays
  <2>2. \A c \in Buckets \ {b} : Repeats(c)' = Repeats(c)
    BY <1>1, <1>2, <1>3 DEF Repeats
  <2>. QED  BY <2>1, <2>2, <1>1, <1>2, <1>3 DEF Superfluous
<1>9. Counted'
  <2>1. Leaving' \in SUBSET Leaving
    BY <1>2, <1>3, <1>4, <1>5 DEF Leaving, AllLayers, LayersTypeOK, Staying
  <2>2. /\ Cardinality(Leaving') <= Cardinality(Leaving)
        /\ Cardinality(Leaving') \in Nat /\ Cardinality(Leaving) \in Nat
    <3>1. Leaving \subseteq Buckets \X (1..MaxLayers)
      BY DEF Leaving, AllLayers
    <3>. QED  BY <2>1, <3>1, FilesCount
  <2>3. Promised <= Promised' /\ Promised' \in Int /\ Promised \in Nat
    BY <2>2, <1>4, CountIsNat DEF Promised
  <2>4. core.count \in Nat
    BY DEF LayersTypeOK, Core
  <2>. QED  BY <1>1, <1>4, <2>3, <2>4 DEF Counted
<1>10. Covered'
  BY <1>1, <1>4 DEF Covered, OfBucket
<1>. QED  BY <1>6, <1>7, <1>8, <1>9, <1>10

\* The pass is over, or a pass for no turn begins, or the manifest alone is
\* written: no file of a bucket changes and none leaves.
LEMMA QuietKeeps ==
  ASSUME PassInv, UNCHANGED <<words, appended, base, layers, table>>,
         core' \in Core, core'.turns = core.turns, core'.count = core.count,
         writer' \in Writers, writer'.at \in {"none", "file"}, ~writer'.wrote, writer'.todo = {},
         writer'.written = 0, \A b \in Buckets : writer'.stay[b] = MaxLayers,
         search.locked => writer'.at = "none", UNCHANGED <<search, cache>>,
         events' \in 0..MaxEvents
  PROVE  PassInv'
<1>. USE LayersAssumption DEF PassInv
<1>1. Superfluous' /\ Leaving' = {}
  BY NothingLeavesYet
<1>2. /\ \A b \in Buckets : Holding(b)' = Holding(b) /\ Overlays(b)' = Overlays(b)
      /\ CountOf' = CountOf
  BY SameFiles
<1>3. LayersTypeOK'
  BY <1>2 DEF LayersTypeOK, Writers
<1>4. LayersShape'
  BY DEF LayersShape
<1>5. Filed'
  BY <1>1 DEF Filed
<1>6. Counted'
  BY <1>2 DEF Counted
<1>7. Covered'
  BY <1>2 DEF Covered, OfBucket
<1>. QED  BY <1>1, <1>3, <1>4, <1>5, <1>6, <1>7

\* A rebuild writes every bucket and both files of the manifest anew.
LEMMA RebuildsKeeps ==
  ASSUME PassInv, Rebuilds
  PROVE  PassInv' /\ core'.file = core.file + 1 /\ table'.file = table.file + 1
<1>. USE LayersAssumption DEF PassInv
<1>. DEFINE bs == {b \in Buckets : OfBucket(b, appended) # {}}
<1>1. /\ writer.at = "none" /\ ~search.locked /\ events' \in 0..MaxEvents
      /\ base' = [b \in Buckets |-> OfBucket(b, appended)]
      /\ layers' = [b \in Buckets |-> << >>]
      /\ table' = [file |-> table.file + 1, turns |-> appended]
      /\ core' = [file |-> core.file + 1, turns |-> appended, count |-> Cardinality(bs)]
      /\ UNCHANGED <<words, appended, writer, search, cache>>
  BY DEF Rebuilds, LockIsFree, Event, LayersTypeOK
<1>2. /\ appended \in 1..MaxTurns /\ core.file \in Nat /\ table.file \in Nat
      /\ Cardinality(bs) \in Nat
  BY FilesCount DEF LayersTypeOK, TurnNumbers, Core, Table
<1>3. base' \in Bases
  BY <1>1, <1>2 DEF Bases, OfBucket, TurnNumbers
<1>4. /\ layers' \in [Buckets -> Seq(SUBSET TurnNumbers)]
      /\ \A b \in Buckets : Overlays(b)' = 0 /\ layers'[b] = << >> /\ DOMAIN layers'[b] = {}
  BY <1>1, EmptySeq DEF Overlays
<1>. HIDE DEF bs
<1>5. core' \in Core /\ table' \in Table
  BY <1>1, <1>2 DEF Core, Table
<1>6. LayersTypeOK'
  BY <1>1, <1>3, <1>4, <1>5 DEF LayersTypeOK
<1>7. LayersShape'
  BY <1>1, <1>4 DEF LayersShape
<1>8. Filed'
  BY <1>1, <1>2 DEF Filed
<1>9. Superfluous'
  BY <1>4 DEF Superfluous
<1>10. Counted'
  <2>1. HasBase' = bs
    BY <1>1 DEF HasBase, bs
  <2>2. AllLayers' = {}
    BY <1>4 DEF AllLayers
  <2>. QED  BY <2>1, <2>2, <1>1, <1>2, FS_EmptySet DEF Counted, CountOf
<1>11. Covered'
  BY <1>1 DEF Covered, OfBucket, Holding
<1>. QED  BY <1>1, <1>6, <1>7, <1>8, <1>9, <1>10, <1>11

-----------------------------------------------------------------------------
(* The steps of a search.                                                   *)

\* A search changes nothing of the store.
LEMMA SearchKeepsPass ==
  ASSUME PassInv, UnchangedStore, search' \in Searching, cache' \in Caches,
         search'.at \in Reading => search'.bucket \in Buckets,
         search'.locked => writer.at = "none"
  PROVE  PassInv'
<1>. USE DEF PassInv, UnchangedStore
<1>1. /\ \A b \in Buckets : Holding(b)' = Holding(b) /\ Overlays(b)' = Overlays(b)
      /\ CountOf' = CountOf /\ AllLayers' = AllLayers
  BY SameFiles
<1>2. Leaving' = Leaving /\ Promised' = Promised
  BY <1>1 DEF Leaving, Promised
<1>3. LayersTypeOK'
  BY <1>1 DEF LayersTypeOK, Searching
<1>4. LayersShape'
  BY DEF LayersShape
<1>5. Filed' /\ Superfluous'
  BY <1>1, <1>2 DEF Filed, Superfluous, Repeats, LayersTypeOK
<1>6. Counted'
  BY <1>1, <1>2 DEF Counted
<1>7. Covered'
  BY <1>1 DEF Covered, OfBucket
<1>. QED  BY <1>3, <1>4, <1>5, <1>6, <1>7

\* The fields of a search, of the manifest's files and of the cache.
LEMMA SearchFields ==
  ASSUME PassInv
  PROVE  /\ search.before \in Nat /\ search.locked \in BOOLEAN /\ search.keys \in Nat \X Nat
         /\ search.core \in Core /\ search.table \in Table /\ search.listed \in 0..MaxLayers
         /\ search.read \in 0..MaxLayers /\ search.got \in SUBSET TurnNumbers
         /\ search.missing \in BOOLEAN /\ search.calm \in BOOLEAN
         /\ search.bucket \in Buckets \cup {NoBucket} /\ search \in Searching
         /\ cache.keys \in Nat \X Nat /\ cache.core \in Core /\ cache.table \in Table
         /\ cache \in Caches
<1>1. search \in Searching /\ cache \in Caches
  BY DEF PassInv, LayersShape
<1>2. cache.keys \in Nat \X Nat /\ cache.core \in Core /\ cache.table \in Table
  BY <1>1 DEF Caches
<1>. QED  BY <1>1, <1>2 DEF Searching

\* The numbers in the two files are numbers.
LEMMA Numbers ==
  ASSUME PassInv
  PROVE  /\ core \in Core /\ table \in Table /\ appended \in Nat
         /\ core.file \in Nat /\ core.turns \in Nat /\ table.file \in Nat /\ table.turns \in Nat
<1>1. core \in Core /\ table \in Table /\ appended \in Nat
  BY DEF PassInv, LayersTypeOK, TurnNumbers
<1>. QED  BY <1>1 DEF Core, Table

\* So are those a search and a cache hold.
LEMMA SeenNumbers ==
  ASSUME PassInv
  PROVE  /\ search.core.file \in Nat /\ search.core.turns \in Nat /\ search.table.turns \in Nat
         /\ cache.core.file \in Nat /\ cache.core.turns \in Nat /\ cache.table.file \in Nat
<1>1. search.core.file \in Nat /\ search.core.turns \in Nat /\ search.table.turns \in Nat
  BY SearchFields DEF Core, Table
<1>2. cache.core.file \in Nat /\ cache.core.turns \in Nat /\ cache.table.file \in Nat
  BY SearchFields DEF Core, Table
<1>. QED  BY <1>1, <1>2

\* And those of the files they were read from.
LEMMA Keys ==
  ASSUME PassInv
  PROVE  /\ search.keys[1] \in Nat /\ search.keys[2] \in Nat
         /\ cache.keys[1] \in Nat /\ cache.keys[2] \in Nat
BY SearchFields

\* The manifest commits what is there.
LEMMA CommitThere ==
  ASSUME PassInv
  PROVE  CommitIsCovered
<1>1. core.turns <= appended /\ core.turns <= table.turns /\ core.turns \in Nat /\ appended \in Nat
      /\ table.turns \in Nat
  BY DEF PassInv, Filed, LayersTypeOK, Core, Table, TurnNumbers
<1>2. core.count <= CountOf /\ core.count \in Nat /\ CountOf \in Nat
  BY CountIsNat DEF PassInv, Counted, LayersTypeOK, Core
<1>. QED  BY <1>1, <1>2 DEF CommitIsCovered, ShortOf, PassInv, Covered

\* The cache stays true while nothing is written, and so does what a search
\* knows before it has read a posting.
LEMMA CacheStays ==
  ASSUME LayersInv, UnchangedStore, cache' = cache
  PROVE  Cached'
BY DEF LayersInv, Cached, Seen, UnchangedStore

\* A search that has read no bucket yet has missed none.
LEMMA NothingRead ==
  ASSUME search'.at \notin {"base", "layers", "end", "done"}
  PROVE  Found' /\ CalmSearchIsWhole'
BY DEF Found, CalmSearchIsWhole, At

\* What a search knows at its next place, beside a store that stood still.
LEMMA LooksOn ==
  ASSUME LayersInv, UnchangedStore,
         search'.at \in Known, search'.before = search.before,
         search'.core.turns <= appended, search'.missing => search'.at = "end",
         search'.read # 0 => search'.at \in {"layers", "end"},
         search.before = core.file =>
           /\ search'.core = core /\ search'.table.turns >= core.turns
           /\ ~search'.missing /\ (search'.at = "end" => search'.bucket \in Buckets)
  PROVE  Looked'
<1>1. search'.before <= core'.file /\ search'.core.turns <= appended' /\ core' = core
  BY DEF LayersInv, Looked, UnchangedStore
<1>2. /\ search'.at \notin {"stat_table", "read_core", "read_table"}
      /\ search'.at \in {"end", "done"} \/ ~search'.missing
      /\ search'.at \in {"layers", "end", "done"} \/ search'.read = 0
  BY DEF Known, Reading
<1>. QED  BY <1>1, <1>2 DEF Looked, Calm

\* A search begins, and notes which files there are.
LEMMA SearchesKeeps ==
  ASSUME LayersInv, Searches
  PROVE  LayersInv'
<1>1. UnchangedStore /\ cache' = cache /\ PassInv
  BY DEF Searches, LayersInv
<1>2. NoSearch \in Searching /\ NoSearch.core.turns = 0 /\ ~NoSearch.missing /\ NoSearch.read = 0
  BY LayersAssumption DEF NoSearch, Searching, NoCore, NoTable, Core, Table, Reading
<1>3. search' = [NoSearch EXCEPT !.at = "stat_core", !.before = core.file,
                                 !.locked = (writer.at = "none")]
  BY DEF Searches
<1>4. /\ search'.at = "stat_core" /\ search'.before = core.file
      /\ search'.locked = (writer.at = "none") /\ search'.core = NoSearch.core /\ ~search'.missing
      /\ search'.read = 0
  BY <1>2, <1>3 DEF NoSearch
<1>5. search' \in Searching
  <2>1. core.file \in Nat /\ (writer.at = "none") \in BOOLEAN
    BY <1>1, Numbers
  <2>. QED  BY <1>2, <1>3, <2>1 DEF Searching
<1>6. PassInv'
  <2>1. cache' \in Caches
    BY <1>1, SearchFields
  <2>2. search'.locked => writer.at = "none"
    BY <1>4
  <2>3. search'.at \notin Reading
    BY <1>4 DEF Reading
  <2>. QED  BY <1>1, <1>5, <2>1, <2>2, <2>3, SearchKeepsPass
<1>7. Looked'
  <2>1. core' = core /\ appended' = appended /\ table' = table
    BY <1>1 DEF UnchangedStore
  <2>. QED  BY <1>1, <1>2, <1>4, <2>1, Numbers DEF Looked, Known, Reading
<1>8. Found' /\ CalmSearchIsWhole'
  BY <1>4, NothingRead
<1>. QED  BY <1>1, <1>6, <1>7, <1>8, CacheStays DEF LayersInv

\* The search looks at manifest.gob.
LEMMA StatsCoreKeeps ==
  ASSUME LayersInv, StatsCore
  PROVE  LayersInv'
<1>1. UnchangedStore /\ cache' = cache /\ PassInv /\ search.at = "stat_core"
  BY DEF StatsCore, LayersInv, At
<1>2. search' = [search EXCEPT !.at = "stat_table", !.keys = <<core.file, 0>>]
  BY DEF StatsCore
<1>3. /\ search' \in Searching /\ search'.at = "stat_table" /\ search'.before = search.before
      /\ search'.locked = search.locked /\ search'.core = search.core
      /\ search'.keys = <<core.file, 0>> /\ search'.missing = search.missing /\ search'.read = search.read
  <2>1. <<core.file, 0>> \in Nat \X Nat
    BY <1>1, Numbers
  <2>. QED  BY <1>1, <1>2, <2>1, SearchFields DEF Searching
<1>4. PassInv'
  <2>1. cache' \in Caches /\ (search.locked => writer.at = "none")
    BY <1>1, SearchFields DEF PassInv, LayersTypeOK
  <2>2. search'.at \notin Reading
    BY <1>3 DEF Reading
  <2>. QED  BY <1>1, <1>3, <2>1, <2>2, SearchKeepsPass
<1>5. Looked'
  <2>1. core' = core /\ appended' = appended /\ table' = table
    BY <1>1 DEF UnchangedStore
  <2>2. search.before <= core.file /\ search.core.turns <= appended /\ ~search.missing /\ search.read = 0
    BY <1>1 DEF LayersInv, Looked
  <2>. QED  BY <1>1, <1>3, <2>1, <2>2, Numbers DEF Looked, Known, Reading
<1>6. Found' /\ CalmSearchIsWhole'
  BY <1>3, NothingRead
<1>. QED  BY <1>1, <1>4, <1>5, <1>6, CacheStays DEF LayersInv

\* The manifest, from the cache or from its two files.
LEMMA StatsTableKeeps ==
  ASSUME LayersInv, StatsTable
  PROVE  LayersInv'
<1>. DEFINE keys == <<search.keys[1], table.file>>
<1>1. UnchangedStore /\ cache' = cache /\ PassInv /\ search.at = "stat_table"
  BY DEF StatsTable, LayersInv, At
<1>2. search' = IF keys = cache.keys
                THEN [search EXCEPT !.at = "check", !.keys = <<0, 0>>,
                                    !.core = cache.core, !.table = cache.table]
                ELSE [search EXCEPT !.at = "read_core", !.keys = keys]
  BY DEF StatsTable
<1>3. keys \in Nat \X Nat /\ keys[1] = search.keys[1] /\ keys[2] = table.file
  BY <1>1, Numbers, Keys
<1>4. cache' \in Caches /\ (search.locked => writer.at = "none")
  BY <1>1, SearchFields DEF PassInv, LayersTypeOK
<1>5. /\ core' = core /\ appended' = appended /\ table' = table
      /\ search.before <= search.keys[1] /\ search.keys[1] <= core.file
      /\ search.core.turns <= appended /\ ~search.missing /\ search.read = 0 /\ search.before <= core.file
  BY <1>1 DEF UnchangedStore, LayersInv, Looked
<1>. HIDE DEF keys
<1>6. CASE keys = cache.keys
  <2>1. search' = [search EXCEPT !.at = "check", !.keys = <<0, 0>>,
                                 !.core = cache.core, !.table = cache.table]
    BY <1>2, <1>6
  <2>2. /\ search' \in Searching /\ search'.at = "check" /\ search'.before = search.before
        /\ search'.locked = search.locked /\ search'.core = cache.core
        /\ search'.table = cache.table /\ search'.missing = search.missing /\ search'.read = search.read
    BY <1>1, <2>1, SearchFields DEF Searching
  <2>3. PassInv'
    <3>1. search'.at \notin Reading
      BY <2>2 DEF Reading
    <3>. QED  BY <1>1, <1>4, <2>2, <3>1, SearchKeepsPass
  <2>4. /\ search.keys[1] <= cache.core.file /\ table.file <= cache.table.file
        /\ Seen(cache.core, core) /\ Seen(cache.table, table) /\ cache.core.turns <= appended
    BY <1>3, <1>6 DEF LayersInv, Cached
  <2>5. cache.table = table
    BY <1>1, <2>4, Numbers, SeenNumbers DEF Seen
  <2>6. search.before = core.file => cache.core = core
    BY <1>1, <1>5, <2>4, Numbers, SeenNumbers, Keys, SearchFields DEF Seen
  <2>7. core.turns <= table.turns
    BY <1>1 DEF PassInv, Filed
  <2>8. table.turns >= core.turns
    BY <1>1, <2>7, Numbers
  <2>9. search'.at \in Known /\ search'.at # "end"
    BY <2>2 DEF Known
  <2>10. Looked'
    BY <1>1, <1>5, <2>2, <2>4, <2>5, <2>6, <2>8, <2>9, LooksOn
  <2>11. Found' /\ CalmSearchIsWhole'
    BY <2>2, NothingRead
  <2>. QED  BY <1>1, <2>3, <2>10, <2>11, CacheStays DEF LayersInv
<1>7. CASE keys # cache.keys
  <2>1. search' = [search EXCEPT !.at = "read_core", !.keys = keys]
    BY <1>2, <1>7
  <2>2. /\ search' \in Searching /\ search'.at = "read_core" /\ search'.before = search.before
        /\ search'.locked = search.locked /\ search'.core = search.core
        /\ search'.keys = keys /\ search'.missing = search.missing /\ search'.read = search.read
    BY <1>1, <1>3, <2>1, SearchFields DEF Searching
  <2>3. PassInv'
    <3>1. search'.at \notin Reading
      BY <2>2 DEF Reading
    <3>. QED  BY <1>1, <1>4, <2>2, <3>1, SearchKeepsPass
  <2>4. Looked'
    BY <1>1, <1>3, <1>5, <2>2, Numbers DEF Looked, Known, Reading
  <2>5. Found' /\ CalmSearchIsWhole'
    BY <2>2, NothingRead
  <2>. QED  BY <1>1, <2>3, <2>4, <2>5, CacheStays DEF LayersInv
<1>. QED  BY <1>6, <1>7

\* It reads manifest.gob.
LEMMA ReadsCoreKeeps ==
  ASSUME LayersInv, ReadsCore
  PROVE  LayersInv'
<1>1. UnchangedStore /\ cache' = cache /\ PassInv /\ search.at = "read_core"
  BY DEF ReadsCore, LayersInv, At
<1>2. search' = [search EXCEPT !.at = "read_table", !.core = core]
  BY DEF ReadsCore
<1>3. /\ search' \in Searching /\ search'.at = "read_table" /\ search'.before = search.before
      /\ search'.locked = search.locked /\ search'.core = core
      /\ search'.keys = search.keys /\ search'.missing = search.missing /\ search'.read = search.read
  BY <1>1, <1>2, SearchFields, Numbers DEF Searching
<1>4. PassInv'
  <2>1. cache' \in Caches /\ (search.locked => writer.at = "none")
    BY <1>1, SearchFields DEF PassInv, LayersTypeOK
  <2>2. search'.at \notin Reading
    BY <1>3 DEF Reading
  <2>. QED  BY <1>1, <1>3, <2>1, <2>2, SearchKeepsPass
<1>5. Looked'
  <2>1. core' = core /\ appended' = appended /\ table' = table
    BY <1>1 DEF UnchangedStore
  <2>2. /\ search.before <= core.file /\ core.turns <= appended /\ ~search.missing /\ search.read = 0
        /\ search.before <= search.keys[1] /\ search.keys[1] <= core.file
        /\ search.keys[2] <= table.file
    BY <1>1, Numbers DEF LayersInv, Looked, PassInv, Filed
  <2>3. Seen(core, core)
    BY <1>1, Numbers DEF Seen
  <2>. QED  BY <1>1, <1>3, <2>1, <2>2, <2>3 DEF Looked, Known, Reading
<1>6. Found' /\ CalmSearchIsWhole'
  BY <1>3, NothingRead
<1>. QED  BY <1>1, <1>4, <1>5, <1>6, CacheStays DEF LayersInv

\* It reads sessions.gob.
LEMMA ReadsTableKeeps ==
  ASSUME LayersInv, ReadsTable
  PROVE  LayersInv'
<1>1. UnchangedStore /\ PassInv /\ search.at = "read_table"
  BY DEF ReadsTable, LayersInv, At
<1>2. /\ search' = [search EXCEPT !.at = "check", !.keys = <<0, 0>>, !.table = table]
      /\ cache' = [keys |-> search.keys, core |-> search.core, table |-> table]
  BY DEF ReadsTable, KeysToKeep
<1>3. /\ search' \in Searching /\ search'.at = "check" /\ search'.before = search.before
      /\ search'.locked = search.locked /\ search'.core = search.core
      /\ search'.table = table /\ search'.missing = search.missing /\ search'.read = search.read
  BY <1>1, <1>2, SearchFields, Numbers DEF Searching
<1>4. cache' \in Caches
  BY <1>1, <1>2, SearchFields, Numbers DEF Caches
<1>5. PassInv'
  <2>1. search.locked => writer.at = "none"
    BY <1>1 DEF PassInv, LayersTypeOK
  <2>2. search'.at \notin Reading
    BY <1>3 DEF Reading
  <2>. QED  BY <1>1, <1>3, <1>4, <2>1, <2>2, SearchKeepsPass
<1>6. /\ core' = core /\ appended' = appended /\ table' = table
      /\ search.before <= search.keys[1] /\ search.keys[1] <= core.file
      /\ search.keys[2] <= table.file /\ search.keys[1] <= search.core.file
      /\ Seen(search.core, core) /\ search.core.turns <= appended /\ ~search.missing /\ search.read = 0
  BY <1>1 DEF UnchangedStore, LayersInv, Looked
<1>7. Looked'
  <2>1. search'.at \in Known /\ search'.at # "end"
    BY <1>3 DEF Known
  <2>2. search.before = core.file => search.core = core
    BY <1>1, <1>6, Numbers, SeenNumbers, Keys, SearchFields DEF Seen
  <2>3. table.turns >= core.turns
    BY <1>1, Numbers DEF PassInv, Filed
  <2>. QED  BY <1>1, <1>3, <1>6, <2>1, <2>2, <2>3, LooksOn
<1>8. Cached'
  <2>1. Seen(table, table)
    BY <1>1, Numbers DEF Seen
  <2>. QED  BY <1>1, <1>2, <1>6, <2>1 DEF Cached
<1>9. Found' /\ CalmSearchIsWhole'
  BY <1>3, NothingRead
<1>. QED  BY <1>5, <1>7, <1>8, <1>9 DEF LayersInv

\* A step of a search keeps the rest of the invariant.
LEMMA SearchKeeps ==
  ASSUME LayersInv, UnchangedStore, cache' = cache, search' \in Searching,
         search'.bucket = search.bucket \/ search'.bucket \in Buckets \/ search'.at = "idle",
         search'.locked => search.locked,
         search'.at \in Reading => search.at \in Reading \/ search'.bucket \in Buckets,
         Looked', Found', CalmSearchIsWhole'
  PROVE  LayersInv'
<1>1. PassInv
  BY DEF LayersInv
<1>2. cache' \in Caches /\ (search.locked => writer.at = "none")
  BY <1>1, SearchFields DEF PassInv, LayersTypeOK
<1>3. search'.at \in Reading => search'.bucket \in Buckets
  BY <1>1 DEF PassInv, LayersShape, Reading
<1>4. PassInv'
  BY <1>1, <1>2, <1>3, SearchKeepsPass
<1>. QED  BY <1>4, CacheStays DEF LayersInv

\* The files of the manifest are there, if it is the one there is.
LEMMA ChecksKeeps ==
  ASSUME LayersInv, NEW b \in Buckets, Checks(b)
  PROVE  LayersInv'
<1>1. UnchangedStore /\ cache' = cache /\ PassInv /\ search.at = "check"
  BY DEF Checks, LayersInv, At
<1>2. search' = IF ShortOf(search.core)
                THEN [search EXCEPT !.at = "end", !.missing = TRUE]
                ELSE [search EXCEPT !.at = "list", !.bucket = b]
  BY DEF Checks
<1>3. /\ search.core.turns <= appended /\ ~search.missing /\ search.read = 0
      /\ search.before = core.file => search.core = core /\ search.table.turns >= core.turns
  BY <1>1 DEF LayersInv, Looked, Known, Calm
<1>4. ~ShortOf(core)
  BY <1>1, CommitThere DEF CommitIsCovered
<1>5. CASE ShortOf(search.core)
  <2>1. search' = [search EXCEPT !.at = "end", !.missing = TRUE]
    BY <1>2, <1>5
  <2>2. /\ search' \in Searching /\ search'.at = "end" /\ search'.before = search.before
        /\ search'.locked = search.locked /\ search'.core = search.core
        /\ search'.bucket = search.bucket /\ search'.read = search.read
    BY <1>1, <2>1, SearchFields DEF Searching
  <2>3. search.before # core.file
    BY <1>3, <1>4, <1>5
  <2>4. Looked'
    <3>. search'.at \in Known
      BY <2>2 DEF Known
    <3>. QED  BY <1>1, <1>3, <2>2, <2>3, LooksOn
  <2>5. Found' /\ CalmSearchIsWhole'
    BY <1>1, <2>2, <2>3 DEF Found, Calm, CalmSearchIsWhole, At, UnchangedStore
  <2>. QED  BY <1>1, <2>2, <2>4, <2>5, SearchKeeps DEF Reading
<1>6. CASE ~ShortOf(search.core)
  <2>1. search' = [search EXCEPT !.at = "list", !.bucket = b]
    BY <1>2, <1>6
  <2>2. /\ search' \in Searching /\ search'.at = "list" /\ search'.before = search.before
        /\ search'.locked = search.locked /\ search'.core = search.core /\ search'.bucket = b
        /\ search'.read = search.read /\ search'.missing = search.missing
        /\ search'.table = search.table
    BY <1>1, <2>1, SearchFields DEF Searching, Reading
  <2>3. Looked'
    <3>. search'.at \in Known
      BY <2>2 DEF Known, Reading
    <3>. QED  BY <1>1, <1>3, <2>2, LooksOn
  <2>4. Found' /\ CalmSearchIsWhole'
    BY <2>2, NothingRead
  <2>. QED  BY <1>1, <2>2, <2>3, <2>4, SearchKeeps DEF Reading
<1>. QED  BY <1>5, <1>6

\* What a search that is past its check knows, it keeps knowing.
LEMMA ReadsOn ==
  ASSUME LayersInv, UnchangedStore, search.at \in Reading, search'.at \in Reading \cup {"end"},
         search'.before = search.before, search'.core = search.core,
         search'.table = search.table, search'.missing = search.missing,
         search'.bucket = search.bucket,
         search'.read # 0 => search'.at \in {"layers", "end"}
  PROVE  Looked' /\ CalmSearchIsWhole'
<1>1. search.at \in Known /\ search'.at \in Known /\ search'.at # "done"
  BY DEF Known, Reading
<1>2. search.bucket \in Buckets /\ ~search.missing
  BY DEF LayersInv, PassInv, LayersShape, Looked, Reading
<1>3. /\ search.core.turns <= appended
      /\ search.before = core.file => search.core = core /\ search.table.turns >= core.turns
  BY <1>1 DEF LayersInv, Looked, Calm
<1>. QED  BY <1>1, <1>2, <1>3, LooksOn DEF CalmSearchIsWhole, At

\* It lists an overlay.
LEMMA ListsKeeps ==
  ASSUME LayersInv, Lists
  PROVE  LayersInv'
<1>1. UnchangedStore /\ cache' = cache /\ PassInv /\ search.at = "list"
  BY DEF Lists, LayersInv, At
<1>2. search' = IF search.listed < Overlays(search.bucket)
                THEN [search EXCEPT !.listed = @ + 1]
                ELSE [search EXCEPT !.at = "base"]
  BY DEF Lists
<1>3. search.bucket \in Buckets /\ search.read = 0
  BY <1>1 DEF LayersInv, PassInv, LayersShape, Looked, Reading
<1>4. Overlays(search.bucket) \in 0..MaxLayers /\ search.listed \in 0..MaxLayers
  BY <1>1, <1>3, SearchFields DEF PassInv, LayersTypeOK
<1>5. CASE search.listed < Overlays(search.bucket)
  <2>1. search' = [search EXCEPT !.listed = @ + 1]
    BY <1>2, <1>5
  <2>2. search.listed + 1 \in 0..MaxLayers
    BY <1>4, <1>5, LayersAssumption
  <2>3. /\ search' \in Searching /\ search'.at = "list" /\ search'.before = search.before
        /\ search'.locked = search.locked /\ search'.core = search.core
        /\ search'.bucket = search.bucket /\ search'.read = search.read
        /\ search'.missing = search.missing /\ search'.table = search.table
    BY <1>1, <2>1, <2>2, SearchFields DEF Searching
  <2>4. Looked' /\ CalmSearchIsWhole'
    BY <1>1, <1>3, <2>3, ReadsOn DEF Reading
  <2>5. Found'
    BY <2>3, NothingRead
  <2>. QED  BY <1>1, <2>3, <2>4, <2>5, SearchKeeps DEF Reading
<1>6. CASE ~(search.listed < Overlays(search.bucket))
  <2>1. search' = [search EXCEPT !.at = "base"]
    BY <1>2, <1>6
  <2>2. /\ search' \in Searching /\ search'.at = "base" /\ search'.before = search.before
        /\ search'.locked = search.locked /\ search'.core = search.core
        /\ search'.bucket = search.bucket /\ search'.read = search.read
        /\ search'.missing = search.missing /\ search'.table = search.table
        /\ search'.listed = search.listed
    BY <1>1, <2>1, SearchFields DEF Searching, Reading
  <2>3. Looked' /\ CalmSearchIsWhole'
    BY <1>1, <1>3, <2>2, ReadsOn DEF Reading
  <2>4. Found'
    <3>1. DOMAIN layers[search.bucket] = 1..Overlays(search.bucket)
      BY <1>1, <1>3, LenProperties DEF PassInv, LayersShape, Overlays
    <3>2. (0 + 1..search.listed) \cap DOMAIN layers[search.bucket] = DOMAIN layers[search.bucket]
      BY <3>1, <1>4, <1>6
    <3>3. Ahead(0) = UNION {layers[search.bucket][n] : n \in DOMAIN layers[search.bucket]}
      BY <3>2 DEF Ahead
    <3>4. Wanted \subseteq base[search.bucket] \cup Ahead(0)
      BY <1>1, <1>3, <3>3 DEF PassInv, Covered, Wanted, Holding
    <3>5. Wanted' = Wanted /\ Ahead(0)' = Ahead(0) /\ base' = base
      BY <1>1, <2>2 DEF Wanted, Ahead, OfBucket, UnchangedStore
    <3>. QED  BY <2>2, <3>4, <3>5 DEF Found, At
  <2>. QED  BY <1>1, <2>2, <2>3, <2>4, SearchKeeps DEF Reading
<1>. QED  BY <1>5, <1>6

\* It reads the bucket's file.
LEMMA ReadsBaseKeeps ==
  ASSUME LayersInv, ReadsBase
  PROVE  LayersInv'
<1>. DEFINE b == search.bucket
<1>1. UnchangedStore /\ cache' = cache /\ PassInv /\ search.at = "base"
  BY DEF ReadsBase, LayersInv, At
<1>2. search' = [search EXCEPT !.got = base[b], !.at = IF base[b] = {} THEN "end" ELSE "layers"]
  BY DEF ReadsBase
<1>3. b \in Buckets /\ search.read = 0
  BY <1>1 DEF LayersInv, PassInv, LayersShape, Looked, Reading
<1>4. base[b] \in SUBSET TurnNumbers
  BY <1>1, <1>3 DEF PassInv, LayersTypeOK, Bases
<1>. HIDE DEF b
<1>5. /\ search' \in Searching /\ search'.before = search.before /\ search'.got = base[b]
      /\ search'.at = (IF base[b] = {} THEN "end" ELSE "layers")
      /\ search'.locked = search.locked /\ search'.core = search.core
      /\ search'.bucket = search.bucket /\ search'.read = search.read
      /\ search'.missing = search.missing /\ search'.table = search.table
      /\ search'.listed = search.listed
  BY <1>1, <1>2, <1>4, SearchFields DEF Searching, Reading
<1>6. search'.at \in {"end", "layers"}
  BY <1>5
<1>7. Looked' /\ CalmSearchIsWhole'
  BY <1>1, <1>3, <1>5, <1>6, ReadsOn DEF Reading
<1>8. Found'
  <2>1. SUFFICES ASSUME search.before = core.file PROVE Found'
    BY <1>1, <1>5 DEF Found, Calm, UnchangedStore
  <2>2. Wanted \subseteq base[b] \cup Ahead(0)
    BY <1>1, <2>1 DEF LayersInv, Found, Calm, At, b
  <2>3. Wanted' = Wanted /\ Ahead(0)' = Ahead(0) /\ base' = base /\ layers' = layers
    BY <1>1, <1>5 DEF Wanted, Ahead, OfBucket, UnchangedStore
  <2>4. CASE base[b] = {}
    <3>1. Ahead(0) = {}
      BY <1>1, <1>3, <2>4 DEF PassInv, LayersTypeOK, Ahead, b
    <3>. QED  BY <1>5, <2>2, <2>3, <2>4, <3>1 DEF Found, At
  <2>5. CASE base[b] # {}
    <3>1. (1..search'.read) = {} /\ search'.at = "layers" /\ search'.read = 0
      BY <1>3, <1>5, <2>5
    <3>. QED  BY <1>5, <2>2, <2>3, <3>1 DEF Found, At, b
  <2>. QED  BY <2>4, <2>5
<1>9. search'.locked => search.locked
  BY <1>5
<1>. QED  BY <1>1, <1>5, <1>7, <1>8, <1>9, SearchKeeps DEF Reading

\* It reads an overlay, if it is still there.
LEMMA ReadsLayerKeeps ==
  ASSUME LayersInv, ReadsLayer
  PROVE  LayersInv'
<1>. DEFINE b == search.bucket
            n == search.read + 1
            rest == UNION {layers[b][k] : k \in (n + 1..search.listed) \cap DOMAIN layers[b]}
            more == IF n <= Overlays(b) THEN search.got \cup layers[b][n] ELSE search.got
<1>1. UnchangedStore /\ cache' = cache /\ PassInv /\ search.at = "layers" /\ search.read < search.listed
  BY DEF ReadsLayer, LayersInv, At
<1>2. search' = [search EXCEPT !.read = n, !.got = more]
  BY DEF ReadsLayer
<1>3. b \in Buckets
  BY <1>1 DEF PassInv, LayersShape, Reading
<1>4. search.read \in Nat /\ n \in Nat /\ n \in 0..MaxLayers /\ n \in 1..search.listed /\ search.got \in SUBSET TurnNumbers
  BY <1>1, SearchFields, LayersAssumption
<1>5. DOMAIN layers[b] = 1..Overlays(b) /\ Overlays(b) \in Nat
  BY <1>1, <1>3, LenProperties DEF PassInv, LayersShape, Overlays
<1>6. \A k \in DOMAIN layers[b] : layers[b][k] \in SUBSET TurnNumbers
  BY <1>1, <1>3 DEF PassInv, LayersTypeOK
<1>7. more \in SUBSET TurnNumbers
  BY <1>4, <1>5, <1>6
<1>8. search.got \subseteq more /\ (n \in DOMAIN layers[b] => layers[b][n] \subseteq more)
  BY <1>4, <1>5
<1>. HIDE DEF b, n, more, rest
<1>10. /\ search' \in Searching /\ search'.before = search.before /\ search'.got = more
       /\ search'.at = "layers" /\ search'.locked = search.locked /\ search'.core = search.core
       /\ search'.bucket = search.bucket /\ search'.read = n
       /\ search'.missing = search.missing /\ search'.table = search.table
       /\ search'.listed = search.listed
  BY <1>1, <1>2, <1>4, <1>7, SearchFields DEF Searching
<1>11. Looked' /\ CalmSearchIsWhole'
  BY <1>1, <1>10, ReadsOn DEF Reading
<1>12. Found'
  <2>1. SUFFICES ASSUME search.before = core.file PROVE Found'
    BY <1>1, <1>10 DEF Found, Calm, UnchangedStore
  <2>2. /\ Wanted \subseteq search.got \cup Ahead(search.read)
        /\ writer.at = "drop" =>
             /\ base[b] \subseteq search.got
             /\ \A k \in (1..search.read) \cap DOMAIN layers[b] : layers[b][k] \subseteq search.got
    BY <1>1, <2>1 DEF LayersInv, Found, Calm, At, b
  <2>3. Wanted' = Wanted /\ Ahead(search.read)' = rest /\ base' = base /\ layers' = layers /\ writer' = writer
    BY <1>1, <1>10 DEF Wanted, Ahead, OfBucket, UnchangedStore, rest, b
  <2>4. Ahead(search.read) \subseteq more \cup rest
    <3>1. SUFFICES ASSUME NEW t \in Ahead(search.read) PROVE t \in more \cup rest
      OBVIOUS
    <3>2. PICK k \in (search.read + 1..search.listed) \cap DOMAIN layers[b] : t \in layers[b][k]
      BY <3>1 DEF Ahead, b
    <3>3. CASE k = n
      BY <3>2, <3>3, <1>8
    <3>4. CASE k # n
      <4>1. k \in (n + 1..search.listed) \cap DOMAIN layers[b]
        BY <3>2, <3>4, <1>4, <1>5, SearchFields DEF n
      <4>. QED  BY <3>2, <4>1 DEF rest
    <3>. QED  BY <3>3, <3>4
  <2>5. Wanted \subseteq more \cup rest
    BY <2>2, <2>4, <1>8
  <2>6. ASSUME writer.at = "drop"
        PROVE  /\ base[b] \subseteq more
               /\ \A k \in (1..n) \cap DOMAIN layers[b] : layers[b][k] \subseteq more
    <3>1. ASSUME NEW k \in (1..n) \cap DOMAIN layers[b] PROVE layers[b][k] \subseteq more
      <4>1. CASE k = n
        BY <4>1, <3>1, <1>8
      <4>2. CASE k # n
        <5>1. k \in (1..search.read) \cap DOMAIN layers[b]
          BY <3>1, <4>2, <1>4 DEF n
        <5>. QED  BY <5>1, <2>2, <2>6, <1>8
      <4>. QED  BY <4>1, <4>2
    <3>. QED  BY <2>2, <2>6, <3>1, <1>8
  <2>7. search'.at # "base" /\ search'.at # "end"
    BY <1>10
  <2>8. Wanted' \subseteq search'.got \cup Ahead(search.read)'
    BY <1>10, <2>3, <2>5
  <2>9. writer'.at = "drop" =>
          /\ base'[search'.bucket] \subseteq search'.got
          /\ \A k \in (1..search'.read) \cap DOMAIN layers'[search'.bucket] :
               layers'[search'.bucket][k] \subseteq search'.got
    BY <1>10, <2>3, <2>6 DEF b
  <2>. QED  BY <2>7, <2>8, <2>9 DEF Found, At
<1>. QED  BY <1>1, <1>10, <1>11, <1>12, SearchKeeps DEF Reading

\* A search that saw no commit has read everything it wanted.
LEMMA SearchEndsKeeps ==
  ASSUME LayersInv, SearchEnds
  PROVE  LayersInv'
<1>1. /\ UnchangedStore /\ cache' = cache /\ PassInv
      /\ search.at = "end" \/ (search.at = "layers" /\ search.read = search.listed)
  BY DEF SearchEnds, LayersInv, At
<1>2. search' = [search EXCEPT !.at = "done", !.locked = FALSE, !.calm = (search.before = core.file)]
  BY DEF SearchEnds
<1>3. /\ search' \in Searching /\ search'.before = search.before /\ search'.got = search.got
      /\ search'.at = "done" /\ search'.locked = FALSE /\ search'.core = search.core
      /\ search'.bucket = search.bucket /\ search'.calm = (search.before = core.file)
      /\ search'.missing = search.missing /\ search'.table = search.table
  <2>1. (search.before = core.file) \in BOOLEAN
    OBVIOUS
  <2>. QED  BY <1>1, <1>2, <2>1, SearchFields DEF Searching
<1>4. search.at \in Known
  BY <1>1 DEF Known, Reading
<1>5. Looked'
  <2>1. core' = core /\ appended' = appended
    BY <1>1 DEF UnchangedStore
  <2>2. search.before <= core.file /\ search.core.turns <= appended
    BY DEF LayersInv, Looked
  <2>. QED  BY <1>3, <2>1, <2>2 DEF Looked, Known, Reading
<1>6. Found'
  BY <1>3 DEF Found, At
<1>7. CalmSearchIsWhole'
  <2>1. SUFFICES ASSUME search.before = core.file
                 PROVE  /\ search.core.file = search.before
                        /\ search.table.turns >= search.core.turns
                        /\ ~search.missing
                        /\ OfBucket(search.bucket, search.core.turns) \subseteq search.got
    <3>1. words' = words
      BY <1>1 DEF UnchangedStore
    <3>2. OfBucket(search.bucket, search.core.turns)' = OfBucket(search.bucket, search.core.turns)
      BY <1>3, <3>1 DEF OfBucket
    <3>. QED  BY <1>3, <2>1, <3>2 DEF CalmSearchIsWhole, At
  <2>2. search.core = core /\ search.table.turns >= core.turns /\ ~search.missing
    BY <1>4, <2>1 DEF LayersInv, Looked, Calm
  <2>3. Wanted \subseteq search.got
    <3>1. CASE search.at = "end"
      BY <2>1, <3>1 DEF LayersInv, Found, Calm, At
    <3>2. CASE search.at = "layers" /\ search.read = search.listed
      <4>1. Wanted \subseteq search.got \cup Ahead(search.read)
        BY <2>1, <3>2 DEF LayersInv, Found, Calm, At
      <4>2. (search.read + 1..search.listed) = {}
        BY <1>1, <3>2, SearchFields
      <4>3. Ahead(search.read) = {}
        BY <4>2 DEF Ahead
      <4>. QED  BY <4>1, <4>3
    <3>. QED  BY <1>1, <3>1, <3>2
  <2>. QED  BY <2>1, <2>2, <2>3 DEF Wanted
<1>8. search'.at \notin Reading
  BY <1>3 DEF Reading
<1>. QED  BY <1>1, <1>3, <1>5, <1>6, <1>7, <1>8, SearchKeeps

\* It looks at the manifest again and answers.
LEMMA AnswersKeeps ==
  ASSUME LayersInv, Answers
  PROVE  LayersInv'
<1>1. UnchangedStore /\ cache' = cache /\ PassInv /\ search' = NoSearch
  BY DEF Answers, LayersInv
<1>2. /\ NoSearch \in Searching /\ NoSearch.core.turns = 0 /\ ~NoSearch.missing
      /\ NoSearch.read = 0 /\ NoSearch.at = "idle" /\ NoSearch.before = 0 /\ ~NoSearch.locked
  BY LayersAssumption DEF NoSearch, Searching, NoCore, NoTable, Core, Table, Reading
<1>3. Looked'
  <2>1. core' = core /\ appended' = appended
    BY <1>1 DEF UnchangedStore
  <2>. QED  BY <1>1, <1>2, <2>1, Numbers DEF Looked, Known, Reading
<1>4. Found' /\ CalmSearchIsWhole'
  BY <1>1, <1>2, NothingRead
<1>5. search'.at \notin Reading
  BY <1>1, <1>2 DEF Reading
<1>. QED  BY <1>1, <1>2, <1>3, <1>4, <1>5, SearchKeeps

-----------------------------------------------------------------------------
(* The steps of a pass, as a search meets them.                             *)

\* What was searched for in the turns there were stays what it was.
LEMMA TurnsStay ==
  ASSUME NEW n \in Nat, NEW b, n <= appended, appended \in Nat,
         \A t \in 1..appended : words'[t] = words[t]
  PROVE  {t \in 1..n : b \in words'[t]} = OfBucket(b, n)
BY DEF OfBucket

\* A write beside a search changes nothing it has, only whether that is still current.
LEMMA StoreKeepsLook ==
  ASSUME LayersInv, PassInv', search' = search, cache' = cache,
         core' = core \/ core'.file = core.file + 1,
         table' = table \/ table'.file = table.file + 1,
         appended <= appended', \A t \in 1..appended : words'[t] = words[t]
  PROVE  Cached' /\ Looked' /\ CalmSearchIsWhole'
<1>. USE DEF LayersInv
<1>1. appended' \in Nat /\ core'.file \in Nat /\ table'.file \in Nat
  BY DEF PassInv, LayersTypeOK, TurnNumbers, Core, Table
<1>2. /\ core.file \in Nat /\ table.file \in Nat /\ appended \in Nat
      /\ core.file <= core'.file /\ table.file <= table'.file
  BY <1>1, Numbers
<1>3. ASSUME NEW m, m.file \in Nat, Seen(m, core)
      PROVE  Seen(m, core')
  BY <1>1, <1>2, <1>3 DEF Seen
<1>4. ASSUME NEW m, m.file \in Nat, Seen(m, table)
      PROVE  Seen(m, table')
  BY <1>1, <1>2, <1>4 DEF Seen
<1>5. Cached'
  <2>1. Seen(cache.core, core') /\ Seen(cache.table, table')
    BY <1>3, <1>4, SeenNumbers DEF Cached
  <2>2. cache.core.turns <= appended'
    BY <1>1, <1>2, SeenNumbers DEF Cached
  <2>. QED  BY <2>1, <2>2 DEF Cached
<1>6. Looked'
  <2>1. search.before <= core'.file /\ search.core.turns <= appended'
    BY <1>1, <1>2, SearchFields, SeenNumbers DEF Looked
  <2>2. search.at \in {"stat_table", "read_core", "read_table"} =>
          search.before <= search.keys[1] /\ search.keys[1] <= core'.file
    BY <1>1, <1>2, Keys DEF Looked
  <2>3. search.at \in {"read_core", "read_table"} => search.keys[2] <= table'.file
    BY <1>1, <1>2, Keys DEF Looked
  <2>4. search.at = "read_table" =>
          Seen(search.core, core') /\ search.keys[1] <= search.core.file
    BY <1>3, SeenNumbers DEF Looked
  <2>5. search.before = core'.file => search.before = core.file /\ core' = core
    BY <1>1, <1>2, SearchFields DEF Looked
  <2>6. search.at \in Known /\ search.before = core'.file =>
          /\ search.core = core' /\ search.table.turns >= core'.turns
          /\ ~search.missing /\ (search.at = "end" => search.bucket \in Buckets)
    BY <2>5 DEF Looked, Calm
  <2>. QED  BY <2>1, <2>2, <2>3, <2>4, <2>6 DEF Looked, Calm
<1>7. CalmSearchIsWhole'
  <2>1. OfBucket(search.bucket, search.core.turns)' = OfBucket(search.bucket, search.core.turns)
    <3>1. search.core.turns \in Nat /\ search.core.turns <= appended
      BY SeenNumbers DEF Looked
    <3>2. {t \in 1..search.core.turns : search.bucket \in words'[t]} =
            OfBucket(search.bucket, search.core.turns)
      BY <1>2, <3>1, TurnsStay
    <3>. QED  BY <3>2 DEF OfBucket
  <2>. QED  BY <2>1 DEF CalmSearchIsWhole, At
<1>. QED  BY <1>5, <1>6, <1>7

\* A commit is what a search notices.
LEMMA CommitEndsCalm ==
  ASSUME LayersInv, PassInv', search' = search, core'.file = core.file + 1
  PROVE  Found'
<1>1. search.before <= core.file /\ search.before \in Nat /\ core.file \in Nat
  BY SearchFields, Numbers DEF LayersInv, Looked
<1>2. search.before # core'.file
  BY <1>1
<1>. QED  BY <1>2 DEF Found, Calm

\* What is only added to takes nothing from a search,
LEMMA GrowingKeepsFound ==
  ASSUME LayersInv, search' = search, core' = core,
         appended <= appended', \A t \in 1..appended : words'[t] = words[t],
         Grows, writer'.at = "drop" => writer.at = "drop" /\ UNCHANGED <<base, layers>>
  PROVE  Found'
<1>. DEFINE b == search.bucket
<1>. USE DEF LayersInv
<1>1. core.turns \in Nat /\ appended \in Nat /\ core.turns <= appended
  BY Numbers DEF PassInv, Filed
<1>2. Wanted' = Wanted
  <2>1. {t \in 1..core.turns : search.bucket \in words'[t]} = OfBucket(search.bucket, core.turns)
    BY <1>1, TurnsStay
  <2>. QED  BY <2>1 DEF Wanted, OfBucket
<1>3. SUFFICES ASSUME Calm PROVE Found'
  BY DEF Found, Calm
<1>4. CASE search.at \in {"base", "layers"}
  <2>1. b \in Buckets
    BY <1>4 DEF PassInv, LayersShape, Reading
  <2>2. /\ base[b] \subseteq base'[b]
        /\ \A n \in DOMAIN layers[b] : n \in DOMAIN layers'[b] /\ layers[b][n] \subseteq layers'[b][n]
    BY <2>1 DEF Grows
  <2>3. ASSUME NEW k \in Nat
        PROVE  UNION {layers[b][n] : n \in (k + 1..search.listed) \cap DOMAIN layers[b]}
                 \subseteq UNION {layers'[b][n] : n \in (k + 1..search.listed) \cap DOMAIN layers'[b]}
    BY <2>2
  <2>4. Ahead(0) \subseteq Ahead(0)' /\ Ahead(search.read) \subseteq Ahead(search.read)'
    BY <2>3, SearchFields DEF Ahead
  <2>5. CASE search.at = "base"
    <3>1. Wanted \subseteq base[b] \cup Ahead(0)
      BY <1>3, <2>5 DEF Found, At
    <3>2. Wanted' \subseteq base'[search'.bucket] \cup Ahead(0)'
      BY <1>2, <2>2, <2>4, <3>1
    <3>. QED  BY <2>5, <3>2 DEF Found, At
  <2>6. CASE search.at = "layers"
    <3>1. /\ Wanted \subseteq search.got \cup Ahead(search.read)
          /\ writer.at = "drop" =>
               /\ base[b] \subseteq search.got
               /\ \A n \in (1..search.read) \cap DOMAIN layers[b] : layers[b][n] \subseteq search.got
      BY <1>3, <2>6 DEF Found, At
    <3>2. Wanted' \subseteq search'.got \cup Ahead(search.read)'
      BY <1>2, <2>4, <3>1
    <3>3. writer'.at = "drop" =>
             /\ base'[search'.bucket] \subseteq search'.got
             /\ \A n \in (1..search'.read) \cap DOMAIN layers'[search'.bucket] :
                  layers'[search'.bucket][n] \subseteq search'.got
      BY <3>1
    <3>. QED  BY <2>6, <3>2, <3>3 DEF Found, At
  <2>. QED  BY <1>4, <2>5, <2>6
<1>5. CASE search.at \notin {"base", "layers"}
  <2>1. search.at = "end" => Wanted \subseteq search.got
    BY <1>3 DEF Found, At
  <2>. QED  BY <1>2, <1>5, <2>1 DEF Found, At
<1>. QED  BY <1>4, <1>5

\* and what is removed is repeated where the search has been or will come to.
LEMMA Dropped ==
  ASSUME PassInv, NEW b \in Buckets, DropsLast(b)
  PROVE  /\ Overlays(b) \in 1..MaxLayers
         /\ writer.stay[b] \in Nat /\ writer.stay[b] < Overlays(b)
         /\ DOMAIN layers[b] = 1..Overlays(b) /\ DOMAIN layers'[b] = 1..(Overlays(b) - 1)
         /\ \A i \in 1..(Overlays(b) - 1) : layers'[b][i] = layers[b][i]
         /\ \A c \in Buckets \ {b} : layers'[c] = layers[c]
         /\ layers[b][Overlays(b)] \subseteq Repeats(b)
<1>. USE LayersAssumption DEF PassInv
<1>. DEFINE old == layers[b]
            m == Len(layers[b])
            new == SubSeq(old, 1, m - 1)
<1>1. /\ <<b, m>> \in Leaving /\ layers' = [layers EXCEPT ![b] = new]
  BY DEF DropsLast, MayDrop, IsLast, Overlays
<1>2. /\ old \in Seq(SUBSET TurnNumbers) /\ m \in Nat /\ DOMAIN old = 1..m
      /\ \A i \in 1..m : old[i] \in SUBSET TurnNumbers
  BY LenProperties, ElementOfSeq DEF LayersShape
<1>3. /\ m \in 1..MaxLayers /\ writer.stay[b] < m /\ writer.stay[b] \in Nat
  BY <1>1 DEF Leaving, AllLayers, LayersTypeOK, Staying
<1>4. /\ new \in Seq(SUBSET TurnNumbers) /\ Len(new) = m - 1
      /\ \A i \in 1..(m - 1) : new[i] = old[i]
  <2>. HIDE DEF old
  <2>. QED  BY <1>2, <1>3, SubSeqProperties
<1>5. DOMAIN new = 1..(m - 1)
  BY <1>4, LenProperties
<1>. HIDE DEF new
<1>6. layers'[b] = new /\ \A c \in Buckets \ {b} : layers'[c] = layers[c]
  BY <1>1 DEF LayersShape
<1>7. layers[b][m] \subseteq Repeats(b)
  BY <1>2, <1>3 DEF Superfluous
<1>. QED  BY <1>2, <1>3, <1>4, <1>5, <1>6, <1>7 DEF Overlays

\* An overlay is removed only where what replaced it has been or will be read.
LEMMA DroppingKeepsFound ==
  ASSUME LayersInv, NEW b \in Buckets, DropsLast(b)
  PROVE  Found'
<1>. USE DEF LayersInv
<1>. DEFINE m == Overlays(b)
            stay == writer.stay[b]
            lists == search.listed
            Rest(k) == UNION {layers[b][n] : n \in (k + 1..lists) \cap DOMAIN layers[b]}
            Rest1(k) == UNION {layers'[b][n] : n \in (k + 1..lists) \cap DOMAIN layers'[b]}
<1>1. /\ writer.at = "drop"
      /\ UNCHANGED <<words, appended, base, table, core, writer, search, cache, events>>
  BY DEF DropsLast, MayDrop
<1>2. /\ m \in 1..MaxLayers /\ stay \in Nat /\ stay < m
      /\ DOMAIN layers[b] = 1..m /\ DOMAIN layers'[b] = 1..(m - 1)
      /\ \A i \in 1..(m - 1) : layers'[b][i] = layers[b][i]
      /\ \A c \in Buckets \ {b} : layers'[c] = layers[c]
      /\ layers[b][m] \subseteq (IF stay = 0 THEN base[b] ELSE layers[b][stay])
  BY Dropped DEF Repeats
<1>3. lists \in Nat /\ search.read \in Nat
  BY SearchFields, LayersAssumption
<1>4. Wanted' = Wanted
  BY <1>1 DEF Wanted, OfBucket
<1>. HIDE DEF m, stay, lists
\* What is left to read lacks at most what the bucket or an earlier overlay holds.
<1>5. ASSUME NEW k \in Nat, NEW t \in Rest(k)
      PROVE  \/ t \in Rest1(k)
             \/ t \in base[b]
             \/ stay \in (1..k) \cap DOMAIN layers[b] /\ t \in layers[b][stay]
  <2>1. PICK n \in (k + 1..lists) \cap DOMAIN layers[b] : t \in layers[b][n]
    BY <1>5
  <2>2. CASE n # m
    <3>1. n \in (k + 1..lists) \cap DOMAIN layers'[b] /\ layers'[b][n] = layers[b][n]
      BY <2>1, <2>2, <1>2, <1>3
    <3>. QED  BY <2>1, <3>1
  <2>3. CASE n = m /\ stay = 0
    BY <2>1, <2>3, <1>2
  <2>4. CASE n = m /\ stay # 0 /\ stay <= k
    BY <2>1, <2>4, <1>2
  <2>5. CASE n = m /\ stay # 0 /\ ~(stay <= k)
    <3>1. t \in layers[b][stay]
      BY <2>1, <2>5, <1>2
    <3>2. stay \in (k + 1..lists) \cap DOMAIN layers'[b] /\ layers'[b][stay] = layers[b][stay]
      BY <2>1, <2>5, <1>2, <1>3
    <3>. QED  BY <3>1, <3>2
  <2>. QED  BY <2>2, <2>3, <2>4, <2>5
<1>6. CASE search.bucket # b
  <2>1. search.bucket \in Buckets => layers'[search.bucket] = layers[search.bucket]
    BY <1>2, <1>6
  <2>2. search.at \in {"base", "layers"} => search.bucket \in Buckets
    BY DEF PassInv, LayersShape, Reading
  <2>3. search.at \in {"base", "layers"} =>
          Ahead(0)' = Ahead(0) /\ Ahead(search.read)' = Ahead(search.read)
    BY <1>1, <2>1, <2>2 DEF Ahead
  <2>. QED  BY <1>1, <1>4, <2>1, <2>2, <2>3 DEF Found, Calm, At
<1>7. CASE search.bucket = b
  <2>1. /\ Ahead(0) = Rest(0) /\ Ahead(0)' = Rest1(0)
        /\ Ahead(search.read) = Rest(search.read) /\ Ahead(search.read)' = Rest1(search.read)
    BY <1>1, <1>7 DEF Ahead, lists
  <2>2. SUFFICES ASSUME Calm PROVE Found'
    BY <1>1 DEF Found, Calm
  <2>3. CASE At("base")
    <3>1. Wanted \subseteq base[b] \cup Rest(0)
      BY <1>7, <2>1, <2>2, <2>3 DEF Found
    <3>2. Wanted \subseteq base[b] \cup Rest1(0)
      <4>1. (1..0) = {}
        OBVIOUS
      <4>. QED  BY <3>1, <4>1, <1>5
    <3>. QED  BY <1>1, <1>4, <1>7, <2>1, <2>3, <3>2 DEF Found, At
  <2>4. CASE At("layers")
    <3>1. /\ Wanted \subseteq search.got \cup Rest(search.read)
          /\ base[b] \subseteq search.got
          /\ \A n \in (1..search.read) \cap DOMAIN layers[b] : layers[b][n] \subseteq search.got
      BY <1>1, <1>7, <2>1, <2>2, <2>4 DEF Found
    <3>2. Wanted \subseteq search.got \cup Rest1(search.read)
      BY <3>1, <1>3, <1>5
    <3>3. \A n \in (1..search.read) \cap DOMAIN layers'[b] : layers'[b][n] \subseteq search.got
      BY <3>1, <1>2
    <3>. QED  BY <1>1, <1>4, <1>7, <2>1, <2>4, <3>1, <3>2, <3>3 DEF Found, At
  <2>5. CASE ~At("base") /\ ~At("layers")
    BY <1>1, <1>4, <2>2, <2>5 DEF Found, At, Calm
  <2>. QED  BY <2>3, <2>4, <2>5
<1>. QED  BY <1>6, <1>7

-----------------------------------------------------------------------------
(* The invariant is inductive.                                              *)

\* The manifest alone is written again.
LEMMA UpdatesCoreKeeps ==
  ASSUME PassInv, UpdatesCore
  PROVE  PassInv'
<1>. USE DEF PassInv
<1>1. /\ writer.at = "none" /\ ~search.locked /\ core' = [core EXCEPT !.file = @ + 1]
      /\ events' \in 0..MaxEvents
      /\ UNCHANGED <<words, appended, base, layers, table, writer, search, cache>>
  BY LayersAssumption DEF UpdatesCore, LockIsFree, Event, LayersTypeOK
<1>2. core' \in Core /\ core'.turns = core.turns /\ core'.count = core.count
  BY <1>1, Numbers DEF Core
<1>3. /\ \A b \in Buckets : Holding(b)' = Holding(b) /\ Overlays(b)' = Overlays(b)
      /\ CountOf' = CountOf
  BY <1>1, SameFiles
<1>4. LayersTypeOK'
  BY <1>1, <1>2, <1>3 DEF LayersTypeOK
<1>5. LayersShape' /\ Superfluous'
  BY <1>1 DEF LayersShape, Superfluous, Repeats
<1>6. Filed'
  BY <1>1, <1>2 DEF Filed
<1>7. Counted'
  BY <1>1, <1>2, <1>3 DEF Counted
<1>8. Covered'
  BY <1>1, <1>2, <1>3 DEF Covered, OfBucket
<1>. QED  BY <1>4, <1>5, <1>6, <1>7, <1>8

\* Files that nothing touched are no smaller.
LEMMA SameGrows == UNCHANGED <<base, layers>> => Grows
BY DEF Grows

\* A bucket's postings are filed: in a new overlay, in a merged one or in the file.
LEMMA FilingStep ==
  ASSUME LayersInv, NEW b \in Buckets,
         \/ WritesBucket(b) \/ Folds(b) \/ \E n \in 1..(Overlays(b) + 1) : MergesFrom(b, n)
  PROVE  LayersInv'
<1>1. PassInv
  BY DEF LayersInv
<1>2. PassInv' /\ Grows
  BY <1>1, WritesBucketKeeps, FoldsKeeps, MergesFromKeeps
<1>3. /\ UNCHANGED <<words, appended, table, core, search, cache, events>>
      /\ writer.at = "file" /\ writer'.at = writer.at
  <2>1. writer.at = "file" /\ writer \in Writers
    BY <1>1 DEF WritesBucket, Folds, MergesFrom, Filing, PassInv, LayersShape
  <2>2. CASE WritesBucket(b)
    BY <2>1, <2>2 DEF WritesBucket, Writers
  <2>3. CASE Folds(b)
    BY <2>1, <2>3 DEF Folds, Writers
  <2>4. ASSUME NEW n \in 1..(Overlays(b) + 1), MergesFrom(b, n)
        PROVE  /\ UNCHANGED <<words, appended, table, core, search, cache, events>>
               /\ writer'.at = writer.at
    BY <2>1, <2>4 DEF MergesFrom, Writers
  <2>. QED  BY <2>1, <2>2, <2>3, <2>4
<1>4. appended <= appended'
  BY <1>1, <1>3, Numbers
<1>5. Cached' /\ Looked' /\ CalmSearchIsWhole'
  BY <1>2, <1>3, <1>4, StoreKeepsLook
<1>6. Found'
  BY <1>2, <1>3, <1>4, GrowingKeepsFound
<1>. QED  BY <1>2, <1>5, <1>6 DEF LayersInv

\* A pass begins.
LEMMA AppendsTurnStep ==
  ASSUME LayersInv, NEW S \in (SUBSET Buckets) \ {{}}, AppendsTurn(S)
  PROVE  LayersInv'
<1>1. PassInv
  BY DEF LayersInv
<1>2. PassInv'
  BY <1>1, AppendsTurnKeeps
<1>3. /\ UNCHANGED <<base, layers, table, core, search, cache, events>>
      /\ appended' = appended + 1 /\ words' = [words EXCEPT ![appended + 1] = S]
      /\ writer'.at = "file"
  BY AtRest DEF AppendsTurn, Resting
<1>4. appended <= appended' /\ \A t \in 1..appended : words'[t] = words[t]
  <2>1. appended \in 1..MaxTurns /\ words \in [TurnNumbers -> SUBSET Buckets]
    BY <1>1 DEF PassInv, LayersTypeOK, TurnNumbers
  <2>. QED  BY <1>3, <2>1, LayersAssumption DEF TurnNumbers
<1>5. Cached' /\ Looked' /\ CalmSearchIsWhole'
  BY <1>2, <1>3, <1>4, StoreKeepsLook
<1>6. Found'
  BY <1>3, <1>4, SameGrows, GrowingKeepsFound
<1>. QED  BY <1>2, <1>5, <1>6 DEF LayersInv

\* The steps after which the files of a bucket are what they were.
LEMMA QuietStep ==
  ASSUME LayersInv, PassInv',
         UNCHANGED <<words, appended, base, layers, search, cache>>,
         core' = core \/ core'.file = core.file + 1,
         table' = table \/ table'.file = table.file + 1,
         core' = core /\ writer'.at = "drop" => writer.at = "drop"
  PROVE  LayersInv'
<1>1. appended <= appended'
  BY Numbers DEF LayersInv
<1>2. Cached' /\ Looked' /\ CalmSearchIsWhole'
  BY <1>1, StoreKeepsLook
<1>3. CASE core' = core
  <2>1. Found'
    BY <1>1, <1>3, SameGrows, GrowingKeepsFound
  <2>. QED  BY <1>2, <2>1 DEF LayersInv
<1>4. CASE core'.file = core.file + 1
  BY <1>2, <1>4, CommitEndsCalm DEF LayersInv
<1>. QED  BY <1>3, <1>4

\* The rest of what a pass does, and a kill.
LEMMA PassStep ==
  ASSUME LayersInv, Commits \/ Finishes \/ UpdatesBoth \/ UpdatesCore \/ KillWriter
  PROVE  LayersInv'
<1>1. PassInv
  BY DEF LayersInv
<1>2. UNCHANGED <<words, appended, base, layers, search, cache>>
  BY DEF Commits, Finishes, UpdatesBoth, UpdatesCore, KillWriter
<1>3. CASE Commits
  <2>1. /\ PassInv' /\ (core' = core \/ core'.file = core.file + 1)
        /\ (core' = core => writer'.at = "file" /\ table'.file = table.file + 1)
        /\ (core' # core => table' = table)
    BY <1>1, <1>3, CommitsKeeps
  <2>2. table' = table \/ table'.file = table.file + 1
    BY <2>1
  <2>3. ~(core' = core /\ writer'.at = "drop")
    BY <2>1
  <2>. QED  BY <1>2, <2>1, <2>2, <2>3, QuietStep
<1>4. CASE UpdatesCore
  <2>1. /\ PassInv' /\ core'.file = core.file + 1 /\ table' = table
        /\ (writer'.at = "drop" => writer.at = "drop")
    <3>1. core \in Core
      BY <1>1, Numbers
    <3>. QED  BY <1>1, <1>4, <3>1, UpdatesCoreKeeps DEF UpdatesCore, Core
  <2>. QED  BY <1>2, <2>1, QuietStep
<1>5. CASE Finishes \/ UpdatesBoth \/ KillWriter
  <2>1. /\ core' = core /\ table' = table /\ events' \in 0..MaxEvents
        /\ writer' = Resting \/ writer' = [Resting EXCEPT !.at = "file"]
        /\ search.locked => writer' = Resting
    <3>1. events \in 0..MaxEvents /\ (search.locked => writer.at = "none")
      BY <1>1 DEF PassInv, LayersTypeOK
    <3>. QED  BY <1>5, <3>1, LayersAssumption DEF Finishes, UpdatesBoth, KillWriter, Event, LockIsFree
  <2>2. /\ writer' \in Writers /\ writer'.at \in {"none", "file"} /\ ~writer'.wrote
        /\ writer'.todo = {} /\ writer'.written = 0
        /\ \A b \in Buckets : writer'.stay[b] = MaxLayers
        /\ search.locked => writer'.at = "none"
    <3>2. CASE writer' = Resting
      BY <3>2, AtRest
    <3>3. CASE writer' = [Resting EXCEPT !.at = "file"] /\ ~search.locked
      <4>1. /\ writer' \in Writers /\ writer'.at = "file" /\ writer'.todo = Resting.todo
            /\ writer'.wrote = Resting.wrote /\ writer'.written = Resting.written
            /\ writer'.stay = Resting.stay
        BY <3>3, AtRest DEF Writers
      <4>. QED  BY <3>3, <4>1, AtRest
    <3>. QED  BY <2>1, <3>2, <3>3
  <2>3. PassInv'
    <3>1. core' \in Core
      BY <1>1, <2>1, Numbers
    <3>. QED  BY <1>1, <1>2, <2>1, <2>2, <3>1, QuietKeeps
  <2>. QED  BY <1>2, <2>1, <2>2, <2>3, QuietStep
<1>. QED  BY <1>3, <1>4, <1>5

\* A rebuild.
LEMMA RebuildsStep ==
  ASSUME LayersInv, Rebuilds
  PROVE  LayersInv'
<1>1. PassInv' /\ core'.file = core.file + 1 /\ table'.file = table.file + 1
  BY RebuildsKeeps DEF LayersInv
<1>2. UNCHANGED <<words, appended, writer, search, cache>>
  BY DEF Rebuilds
<1>3. appended <= appended'
  BY <1>2, Numbers DEF LayersInv
<1>4. Cached' /\ Looked' /\ CalmSearchIsWhole'
  BY <1>1, <1>2, <1>3, StoreKeepsLook
<1>. QED  BY <1>1, <1>2, <1>4, CommitEndsCalm DEF LayersInv

\* An overlay that a merge repeats goes, or may not.
LEMMA DropsStep ==
  ASSUME LayersInv, NEW b \in Buckets, DropsLast(b) \/ CannotDrop(b)
  PROVE  LayersInv'
<1>1. PassInv
  BY DEF LayersInv
<1>2. CASE DropsLast(b)
  <2>1. PassInv'
    BY <1>1, <1>2, DropsLastKeeps
  <2>2. UNCHANGED <<words, appended, base, table, core, writer, search, cache, events>>
    BY <1>2 DEF DropsLast
  <2>3. appended <= appended'
    BY <1>1, <2>2, Numbers
  <2>4. Cached' /\ Looked' /\ CalmSearchIsWhole'
    BY <2>1, <2>2, <2>3, StoreKeepsLook
  <2>. QED  BY <1>2, <2>1, <2>4, DroppingKeepsFound DEF LayersInv
<1>3. CASE CannotDrop(b)
  <2>1. PassInv'
    BY <1>1, <1>3, CannotDropKeeps
  <2>2. /\ UNCHANGED <<words, appended, base, layers, table, core, search, cache>>
        /\ writer.at = "drop"
    BY <1>3 DEF CannotDrop, MayDrop
  <2>. QED  BY <2>1, <2>2, QuietStep
<1>. QED  BY <1>2, <1>3

\* The first index, and no search.
LEMMA LayersStart == LayersInit => LayersInv
<1>. SUFFICES ASSUME LayersInit PROVE LayersInv
  OBVIOUS
<1>1. PassInv
  BY StartInv
<1>2. /\ search = NoSearch /\ cache = [keys |-> <<0, 0>>, core |-> NoCore, table |-> NoTable]
      /\ core.file = 1 /\ table = [file |-> 1, turns |-> 1] /\ appended = 1
  BY DEF LayersInit
<1>3. /\ NoSearch.at = "idle" /\ NoSearch.before = 0 /\ NoSearch.core.turns = 0
      /\ ~NoSearch.missing /\ NoSearch.read = 0
  BY DEF NoSearch, NoCore
<1>4. Cached
  BY <1>2 DEF Cached, Seen, NoCore, NoTable
<1>5. Looked
  BY <1>2, <1>3 DEF Looked, Known, Reading
<1>6. Found /\ CalmSearchIsWhole
  BY <1>2, <1>3 DEF Found, CalmSearchIsWhole, At
<1>. QED  BY <1>1, <1>4, <1>5, <1>6 DEF LayersInv

\* Nothing happens.
LEMMA LayersStutter ==
  ASSUME LayersInv, UNCHANGED layerVars
  PROVE  LayersInv'
<1>1. UnchangedStore /\ search' = search /\ cache' = cache /\ PassInv
  BY DEF UnchangedStore, layerVars, LayersInv
<1>2. search \in Searching
  BY <1>1, SearchFields
<1>3. appended' = appended /\ words' = words /\ core' = core /\ table' = table
  BY <1>1 DEF UnchangedStore
<1>4. Looked'
  BY <1>1, <1>3 DEF LayersInv, Looked, Seen, Calm
<1>5. Found'
  <2>1. Wanted' = Wanted /\ Ahead(0)' = Ahead(0) /\ Ahead(search.read)' = Ahead(search.read)
    BY <1>1 DEF UnchangedStore, Wanted, OfBucket, Ahead
  <2>. QED  BY <1>1, <2>1 DEF LayersInv, Found, Calm, At, UnchangedStore
<1>6. CalmSearchIsWhole'
  BY <1>1, <1>3 DEF LayersInv, CalmSearchIsWhole, At, OfBucket
<1>. QED  BY <1>1, <1>2, <1>4, <1>5, <1>6, SearchKeeps

\* Every step keeps the invariant.
LEMMA LayersStep ==
  ASSUME LayersInv, [LayersNext]_layerVars
  PROVE  LayersInv'
<1>1. ASSUME NEW S \in (SUBSET Buckets) \ {{}}, AppendsTurn(S)
      PROVE  LayersInv'
  BY <1>1, AppendsTurnStep
<1>2. ASSUME NEW b \in Buckets,
             \/ WritesBucket(b) \/ Folds(b) \/ \E n \in 1..(Overlays(b) + 1) : MergesFrom(b, n)
      PROVE  LayersInv'
  BY <1>2, FilingStep
<1>3. ASSUME NEW b \in Buckets, DropsLast(b) \/ CannotDrop(b)
      PROVE  LayersInv'
  BY <1>3, DropsStep
<1>4. ASSUME NEW b \in Buckets, Checks(b)
      PROVE  LayersInv'
  BY <1>4, ChecksKeeps
<1>5. CASE Commits \/ Finishes \/ UpdatesBoth \/ UpdatesCore \/ KillWriter
  BY <1>5, PassStep
<1>6. CASE Rebuilds
  BY <1>6, RebuildsStep
<1>7. CASE Searches \/ StatsCore \/ StatsTable \/ ReadsCore \/ ReadsTable
  BY <1>7, SearchesKeeps, StatsCoreKeeps, StatsTableKeeps, ReadsCoreKeeps, ReadsTableKeeps
<1>8. CASE Lists \/ ReadsBase \/ ReadsLayer \/ SearchEnds \/ Answers
  BY <1>8, ListsKeeps, ReadsBaseKeeps, ReadsLayerKeeps, SearchEndsKeeps, AnswersKeeps
<1>9. CASE UNCHANGED layerVars
  BY <1>9, LayersStutter
<1>. QED  BY <1>1, <1>2, <1>3, <1>4, <1>5, <1>6, <1>7, <1>8, <1>9 DEF LayersNext

\* So it holds always.
LEMMA LayersAlways == LayersSpec => []LayersInv
<1>1. LayersInv /\ [LayersNext]_layerVars => LayersInv'
  BY LayersStep
<1>. QED  BY <1>1, LayersStart, PTL DEF LayersSpec

\* However many buckets, overlays and turns there are: the state of the postings
\* has its types, no bucket has more overlays than a read may open and none has
\* any without its own file, and no pass runs while a search has the lock.
THEOREM LayersTyped == LayersSpec => []LayersTypeOK
<1>1. LayersInv => LayersTypeOK
  BY DEF LayersInv, PassInv
<1>. QED  BY <1>1, LayersAlways, PTL

\* Wherever a pass was killed and whatever would not be removed: what
\* manifest.gob commits is there, in files a read goes through (addOverlay,
\* commitManifest, dropStale, recordsDamage).
THEOREM CommitCovered == LayersSpec => []CommitIsCovered
<1>1. LayersInv => CommitIsCovered
  BY CommitThere DEF LayersInv
<1>. QED  BY <1>1, LayersAlways, PTL

\* A search that saw the same manifest before and after its reads
\* (inOneGeneration) found every posting that manifest commits, though a pass
\* was merging and removing overlays while it went from file to file.
THEOREM CalmWhole == LayersSpec => []CalmSearchIsWhole
<1>1. LayersInv => CalmSearchIsWhole
  BY DEF LayersInv
<1>. QED  BY <1>1, LayersAlways, PTL
=============================================================================
