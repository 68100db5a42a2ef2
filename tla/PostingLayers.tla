--------------------------- MODULE PostingLayers ---------------------------
(***************************************************************************)
(* What an append in place does to the postings, and a search beside it.   *)
(* The postings of a pass go into overlays next to the buckets             *)
(* (bucket_layers.go), which are merged into one another and, in the end,  *)
(* into the bucket; the files a merge repeats are removed once the         *)
(* manifest, two files, is written (manifest.go). A search reads file      *)
(* after file by its path, under the lock or, while a pass holds that,     *)
(* without it, and takes the manifest from its process's cache while both  *)
(* its files are the ones that were cached.                                *)
(*                                                                         *)
(* A turn is named by its place in the log; a posting is the turn it       *)
(* points at. A rebuild, and the swap it ends in, is one step here.        *)
(***************************************************************************)
EXTENDS Integers, Sequences, FiniteSets

CONSTANTS
  Buckets,     \* the buckets of the words that are searched for
  NoBucket,    \* none of them yet
  MaxTurns,    \* turns appended to the log
  MaxLayers,   \* maxOverlays: overlays of one bucket
  MaxEvents    \* passes killed, removals refused, manifests written for no turn

ASSUME LayersAssumption ==
  /\ IsFiniteSet(Buckets) /\ NoBucket \notin Buckets
  /\ MaxTurns \in Nat \ {0} /\ MaxLayers \in Nat \ {0}
  /\ MaxEvents \in Nat

VARIABLES
  words,     \* the buckets of each turn's words
  appended,  \* turns in records.bin
  base,      \* the postings in each bucket, none where it has no file
  layers,    \* its overlays, oldest first
  table,     \* sessions.gob: which file, and the turns its rows count
  core,      \* manifest.gob: which file, and the turns and postings files it commits
  writer,    \* what the holder of the lock is doing
  search,    \* what the search is doing
  cache,     \* the manifest its process has cached, and of which two files
  events     \* how many there were

layerVars == <<words, appended, base, layers, table, core, writer, search, cache,
               events>>

TurnNumbers == 1..MaxTurns
Bases == [Buckets -> SUBSET TurnNumbers]
\* The layers of a bucket from which on a merge made the rest superfluous.
Staying == [Buckets -> 0..MaxLayers]

Table == [file : Nat, turns : 0..MaxTurns]
Core == [file : Nat, turns : 0..MaxTurns, count : Nat]
Resting == [at |-> "none", todo |-> {}, stay |-> [b \in Buckets |-> MaxLayers],
            wrote |-> FALSE, written |-> 0]
NoCore == [file |-> 0, turns |-> 0, count |-> 0]
NoTable == [file |-> 0, turns |-> 0]
NoSearch == [at |-> "idle", bucket |-> NoBucket, before |-> 0,
             locked |-> FALSE, keys |-> <<0, 0>>, core |-> NoCore, table |-> NoTable,
             listed |-> 0, read |-> 0, got |-> {}, missing |-> FALSE, calm |-> FALSE]

Overlays(b) == Len(layers[b])
Holding(b) == base[b] \cup UNION {layers[b][n] : n \in DOMAIN layers[b]}
OfBucket(b, n) == {t \in 1..n : b \in words[t]}

\* countBucketFiles, and of those the ones that are leaving.
HasBase == {b \in Buckets : base[b] # {}}
AllLayers == {l \in Buckets \X (1..MaxLayers) : l[2] <= Overlays(l[1])}
Leaving == {l \in AllLayers : l[2] > writer.stay[l[1]]}
CountOf == Cardinality(HasBase) + Cardinality(AllLayers)

\* recordsDamage.
ShortOf(c) == appended < c.turns \/ CountOf < c.count
Damaged == appended # core.turns \/ ShortOf(core)

LockIsFree == writer.at = "none" /\ ~search.locked
Event == events < MaxEvents /\ events' = events + 1

LayersInit ==
  /\ \E S \in (SUBSET Buckets) \ {{}} :
       /\ words = [t \in TurnNumbers |-> IF t = 1 THEN S ELSE {}]
       /\ base = [b \in Buckets |-> IF b \in S THEN {1} ELSE {}]
       /\ core = [file |-> 1, turns |-> 1, count |-> Cardinality(S)]
  /\ layers = [b \in Buckets |-> <<>>]
  /\ appended = 1 /\ table = [file |-> 1, turns |-> 1]
  /\ writer = Resting /\ search = NoSearch
  /\ cache = [keys |-> <<0, 0>>, core |-> NoCore, table |-> NoTable]
  /\ events = 0
-----------------------------------------------------------------------------
\* ingestAppend, appendImportedRecords: the records first.
AppendsTurn(S) ==
  /\ LockIsFree /\ ~Damaged /\ appended < MaxTurns
  /\ appended' = appended + 1
  /\ words' = [words EXCEPT ![appended + 1] = S]
  /\ writer' = [Resting EXCEPT !.at = "file", !.todo = S, !.wrote = TRUE]
  /\ UNCHANGED <<base, layers, table, core, search, cache, events>>

\* addOverlay, by one of its workers: a bucket that has no file yet is written,
Filing(b) == writer.at = "file" /\ b \in writer.todo
AllFiled == writer.at = "file" /\ writer.todo = {}

WritesBucket(b) ==
  /\ Filing(b) /\ base[b] = {}
  /\ base' = [base EXCEPT ![b] = {appended}]
  /\ writer' = [writer EXCEPT !.todo = @ \ {b}]
  /\ UNCHANGED <<words, appended, layers, table, core, search, cache, events>>

\* the new overlay takes in those from the n-th on (their sizes say which),
Fits_Always(n) == TRUE
Fits(n) == n <= MaxLayers

MergesFrom(b, n) ==
  /\ Filing(b) /\ base[b] # {} /\ Fits(n)
  /\ LET merged == {appended} \cup UNION {layers[b][k] : k \in n..Overlays(b)}
     IN layers' = [layers EXCEPT ![b] =
                     SubSeq(@, 1, n - 1) \o <<merged>> \o SubSeq(@, n + 1, Len(@))]
  /\ writer' = [writer EXCEPT !.todo = @ \ {b}, !.stay[b] = n]
  /\ UNCHANGED <<words, appended, base, table, core, search, cache, events>>

\* or all of them fold into the bucket.
Folds(b) ==
  /\ Filing(b) /\ base[b] # {}
  /\ base' = [base EXCEPT ![b] = Holding(b) \cup {appended}]
  /\ writer' = [writer EXCEPT !.todo = @ \ {b}, !.stay[b] = 0]
  /\ UNCHANGED <<words, appended, layers, table, core, search, cache, events>>

\* stampStore: the files that leave are not counted; a writer that added no
\* record keeps what the manifest committed.
Promised_All == CountOf
Promised == CountOf - Cardinality(Leaving)
Stamped == IF writer.wrote
           THEN [file |-> core.file + 1, turns |-> appended, count |-> Promised]
           ELSE [core EXCEPT !.file = @ + 1]

\* commitManifest: sessions.gob lands, then manifest.gob.
CommitOrder_CoreFirst == <<"core", "table">>
CommitOrder == <<"table", "core">>

Commits ==
  /\ AllFiled
  /\ IF CommitOrder[writer.written + 1] = "table"
     THEN /\ table' = [file |-> table.file + 1, turns |-> IF writer.wrote THEN appended ELSE table.turns]
          /\ UNCHANGED core
     ELSE core' = Stamped /\ UNCHANGED table
  /\ writer' = [writer EXCEPT !.written = @ + 1, !.at = IF writer.written = 1 THEN "drop" ELSE @]
  /\ UNCHANGED <<words, appended, base, layers, search, cache, events>>

\* dropStale: each bucket's newest first.
MayDrop_Early == AllFiled \/ writer.at = "drop"
MayDrop == writer.at = "drop"
IsLast(b) == <<b, Overlays(b)>> \in Leaving

DropsLast(b) ==
  /\ MayDrop /\ IsLast(b)
  /\ layers' = [layers EXCEPT ![b] = SubSeq(@, 1, Len(@) - 1)]
  /\ UNCHANGED <<words, appended, base, table, core, writer, search, cache, events>>

\* A file that will not go ends it for its bucket.
CannotDrop(b) ==
  /\ MayDrop /\ IsLast(b) /\ Event
  /\ writer' = [writer EXCEPT !.stay[b] = MaxLayers]
  /\ UNCHANGED <<words, appended, base, layers, table, core, search, cache>>

Finishes ==
  /\ writer.at = "drop" /\ Leaving = {}
  /\ writer' = Resting
  /\ UNCHANGED <<words, appended, base, layers, table, core, search, cache, events>>

\* followRenames, WriteBack: both files, no record.
UpdatesBoth ==
  /\ LockIsFree /\ Event
  /\ writer' = [Resting EXCEPT !.at = "file"]
  /\ UNCHANGED <<words, appended, base, layers, table, core, search, cache>>

\* PutCompaction, commitExportWatermarks: manifest.gob alone.
UpdatesCore ==
  /\ LockIsFree /\ Event
  /\ core' = [core EXCEPT !.file = @ + 1]
  /\ UNCHANGED <<words, appended, base, layers, table, writer, search, cache>>

\* A pass that finds damage, or is asked to, reads everything again into a new
\* index.
Rebuilds ==
  /\ LockIsFree
  /\ IF Damaged THEN UNCHANGED events ELSE Event
  /\ base' = [b \in Buckets |-> OfBucket(b, appended)]
  /\ layers' = [b \in Buckets |-> <<>>]
  /\ table' = [file |-> table.file + 1, turns |-> appended]
  /\ core' = [file |-> core.file + 1, turns |-> appended,
              count |-> Cardinality({b \in Buckets : OfBucket(b, appended) # {}})]
  /\ UNCHANGED <<words, appended, writer, search, cache>>

KillWriter ==
  /\ writer.at # "none" /\ Event
  /\ writer' = Resting
  /\ UNCHANGED <<words, appended, base, layers, table, core, search, cache>>
-----------------------------------------------------------------------------
At(place) == search.at = place
UnchangedStore == UNCHANGED <<words, appended, base, layers, table, core, writer, events>>

\* inOneGeneration: which file the manifest is, before the read;
\* searchDetailedRead: under the lock where that is free.
Searches ==
  /\ At("idle")
  /\ search' = [NoSearch EXCEPT !.at = "stat_core", !.before = core.file,
                                !.locked = writer.at = "none"]
  /\ UnchangedStore /\ UNCHANGED cache

\* readManifestCached: which files they are now,
StatsCore ==
  /\ At("stat_core")
  /\ search' = [search EXCEPT !.at = "stat_table", !.keys = <<core.file, 0>>]
  /\ UnchangedStore /\ UNCHANGED cache

StatsTable ==
  /\ At("stat_table")
  /\ LET keys == <<search.keys[1], table.file>>
     IN search' = IF keys = cache.keys
                  THEN [search EXCEPT !.at = "check", !.keys = <<0, 0>>,
                                      !.core = cache.core, !.table = cache.table]
                  ELSE [search EXCEPT !.at = "read_core", !.keys = keys]
  /\ UnchangedStore /\ UNCHANGED cache

\* and, where they are not the cached ones, what is in them.
ReadsCore ==
  /\ At("read_core")
  /\ search' = [search EXCEPT !.at = "read_table", !.core = core]
  /\ UnchangedStore /\ UNCHANGED cache

\* What is read is kept under the files that were there before.
KeysToKeep_After == <<core.file, table.file>>
KeysToKeep == search.keys

ReadsTable ==
  /\ At("read_table")
  /\ search' = [search EXCEPT !.at = "check", !.keys = <<0, 0>>, !.table = table]
  /\ cache' = [keys |-> KeysToKeep, core |-> search.core, table |-> table]
  /\ UnchangedStore

\* recordsReadable: a longer log will do.
Checks(b) ==
  /\ At("check")
  /\ search' = IF ShortOf(search.core)
               THEN [search EXCEPT !.at = "end", !.missing = TRUE]
               ELSE [search EXCEPT !.at = "list", !.bucket = b]
  /\ UnchangedStore /\ UNCHANGED cache

\* bucketLayers looks for one after the other.
Lists ==
  /\ At("list")
  /\ search' = IF search.listed < Overlays(search.bucket)
               THEN [search EXCEPT !.listed = @ + 1]
               ELSE [search EXCEPT !.at = "base"]
  /\ UnchangedStore /\ UNCHANGED cache

ReadsBase ==
  /\ At("base")
  /\ search' = [search EXCEPT !.got = base[search.bucket],
                              !.at = IF base[search.bucket] = {} THEN "end" ELSE "layers"]
  /\ UnchangedStore /\ UNCHANGED cache

\* readBucketToken, bucketReader.postings: an overlay that is gone since was
\* merged into another.
ReadsLayer ==
  /\ At("layers") /\ search.read < search.listed
  /\ LET n == search.read + 1
     IN search' = [search EXCEPT !.read = n,
                     !.got = IF n <= Overlays(search.bucket) THEN @ \cup layers[search.bucket][n] ELSE @]
  /\ UnchangedStore /\ UNCHANGED cache

SearchEnds ==
  /\ At("end") \/ (At("layers") /\ search.read = search.listed)
  /\ search' = [search EXCEPT !.at = "done", !.locked = FALSE, !.calm = search.before = core.file]
  /\ UnchangedStore /\ UNCHANGED cache

Answers ==
  /\ At("done") /\ search' = NoSearch
  /\ UnchangedStore /\ UNCHANGED cache

LayersNext ==
  \/ \E S \in (SUBSET Buckets) \ {{}} : AppendsTurn(S)
  \/ \E b \in Buckets :
       \/ WritesBucket(b) \/ Folds(b) \/ DropsLast(b) \/ CannotDrop(b) \/ Checks(b)
       \/ \E n \in 1..(Overlays(b) + 1) : MergesFrom(b, n)
  \/ Commits \/ Finishes \/ UpdatesBoth \/ UpdatesCore \/ Rebuilds \/ KillWriter
  \/ Searches \/ StatsCore \/ StatsTable \/ ReadsCore \/ ReadsTable
  \/ Lists \/ ReadsBase \/ ReadsLayer \/ SearchEnds \/ Answers

LayersSpec == LayersInit /\ [][LayersNext]_layerVars
-----------------------------------------------------------------------------
\* Types; never more overlays than a read may open, none without its bucket, and
\* no pass while a search has the lock.
LayersTypeOK ==
  /\ words \in [TurnNumbers -> SUBSET Buckets] /\ appended \in TurnNumbers
  /\ base \in Bases
  /\ \A b \in Buckets : /\ Overlays(b) \in 0..MaxLayers
                        /\ \A n \in DOMAIN layers[b] : layers[b][n] \in (SUBSET TurnNumbers) \ {{}}
                        /\ base[b] = {} => layers[b] = <<>>
  /\ table \in Table /\ core \in Core
  /\ writer.at \in {"none", "file", "drop"} /\ writer.stay \in Staying
  /\ search.core \in Core /\ search.table \in Table /\ search.got \subseteq TurnNumbers
  /\ search.bucket \in Buckets \cup {NoBucket} /\ search.listed \in 0..MaxLayers
  /\ search.locked => writer.at = "none"
  /\ events \in 0..MaxEvents

\* At every moment, whatever was killed: what manifest.gob commits is there. The
\* rows of sessions.gob count every turn it does, the postings of those turns
\* are in the files a read goes through, and no file it promised is missing.
CommitIsCovered ==
  /\ table.turns >= core.turns /\ ~ShortOf(core)
  /\ \A b \in Buckets : OfBucket(b, core.turns) \subseteq Holding(b)

\* A search that found the same manifest before and after used that manifest
\* and no older rows, was not told that files are missing, and found every
\* posting that manifest commits.
CalmSearchIsWhole ==
  At("done") /\ search.calm =>
    /\ search.core.file = search.before
    /\ search.table.turns >= search.core.turns
    /\ ~search.missing /\ OfBucket(search.bucket, search.core.turns) \subseteq search.got
=============================================================================
