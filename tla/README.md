# deja-vu: the index, specified and verified

deja-vu indexes the transcripts that coding agents leave on a machine and answers searches over
them, from the command line, from an MCP server and from the hooks of the agents themselves. Many
short processes share one index directory. One at a time may write it, under a file lock; all of
them may be killed at any moment; readers and hooks do not wait for the lock. Records travel to
other machines, sessions are forgotten and restored, and hooks hand an agent what it would lose in
a compaction. This directory specifies those parts in TLA+, checks them with TLC and proves their
main promises with TLAPS.

## 1. The system

### Components, their state and their operations

Paths are under `src/internal/index/` unless they begin with `cmd/`, which is `src/cmd/`.

| component | state | operations | correct when |
|---|---|---|---|
| index directory (`store_swap.go`, `lock_unix.go`) | `dir`, `dir.tmp`, `dir.old`, `dir.old.N`, `dir.lock` | `lockDir`, `swapIndexDir`, `recoverIndexDir` | an index is recoverable after any kill or refused rename, and it is never an older one |
| record log (`append_replace.go`, `store_io.go`) | `records.bin`, hard-linked between directories; `append.pending`, `scrub.pending` | append, cut back, kill and zero records, walk | the log holds what the manifest claims, once; replaced text is erased |
| passes (`replace_pass.go`, `ingest*.go`) | locals of one process: the manifest to be, dead records, key table | rebuild, replace, append, metadata write | each commits one version of every session it read and keeps the sessions whose transcripts are gone |
| postings (`bucket_layers.go`, `store_bucket.go`) | buckets and their overlays | write, merge, fold, remove what a merge repeats | every committed posting is in a file a read goes through, and no read opens more than a few |
| manifest (`manifest.go`, `manifest_cache.go`) | `sessions.gob`, `manifest.gob`; a process's cache of both | `commitManifest`, `stampStore`, `recordsDamage`, `readManifestCached` | what lands last covers only what is there; damage is found before more is written |
| readers (`retrieval*.go`, `swap_window.go`) | the manifest they read, an open log, the layers they listed | `searchDetailedRead`, `inOneGeneration`, `walkRecordsStable` | an answer comes from one generation of the index and is whole |
| walk (`ingest_walk.go`, `ingest_append.go`, `ingest_incremental.go`) | the `FileState` of each transcript | stat, decide, read, settle, commit | no line is indexed twice or skipped |
| freshness keeper, builds (`keepfresh.go`, `ingest_ensure.go`, `cmd/deja/digest_cache.go`, `warmup_owner.go`) | last verdict and its stamp, `warmup.sentinel` | check, verdict, claim, take over, build | a query is not told of a staleness that is over; the index catches up |
| forgetting (`privacy.go`) | `tombstones` and their mirror in `dir` | `Forget`, `Unforget` | a forgotten session stays away, a restored one stays |
| sync (`sync.go`, `sync_import.go`, `cmd/deja/sync_ssh.go`) | watermarks and boundary sets, the dedupe ledger | export, commit, import, pull, push | a record crosses, and is kept once |
| compaction packets (`compaction.go`, `cmd/deja/hook_compaction.go`, `hook_seen.go`) | the packet in `manifest.gob`, `.hookseen`, `.hookseen.lock` | capture, look, hand over, note, forget, rotate | each compaction's packet is handed over, and once |
| deferred text (`cmd/deja/hook_deferred.go`) | `deferred/<session>/` | leave, replace, sweep, take | each text is told once, and none is lost without a reason |
| sidecars, ranking, sources, redaction, digest, installers, screens | derived files, formats | | data transformation, tested by examples |

Components interact through the directory. A process takes `dir.lock`, and the taker first finishes
what a killed holder left (`recoverIndexDir`). Then it runs a pass, which writes `dir.tmp` and swaps
it in, or writes into `dir` itself, and lets go. The log of the live index is *linked* into
`dir.tmp` when a pass may append to it, so two directories and any number of open readers can share
one file. Readers look at `dir` by path whenever they like. Hooks make `dir`, or write and remove
files in it, without the lock. Clients write, restart and delete transcripts all the while. An
import appends to the index like a pass; a forget rewrites it; the tombstone mirror, the hooks' text
and the packets ride along with a swap. What a capture stores goes through the index lock, what a
hook has shown goes through `.hookseen` and a lock that only some hooks take.

### What is hard here

Kills between any two file operations. Renames and removals that Windows refuses while a reader
holds a file. A log shared by an old and a new manifest. Readers and hooks that act between two
renames or between two files of a commit. Marks that must appear before, and go after, what they
describe. Verdicts, walks and cached manifests used after the state they were made of changed.
Batches sent again, torn, or committed before they arrived. Files rewritten whole by one process
while another appends. `PROJECT.json` lists the hazards at their lines, with the properties that
cover each.

## 2. The modules

| module | what it models |
|---|---|
| `AtomicIndex` | what the index promises: the version of each session it answers from moves forward in single commits |
| `IndexStore` | the directory, the log, the marks, the lock holder step by step, clients, hooks, kills and refusals; `Promise == INSTANCE AtomicIndex` |
| `IndexReaders` | a search and a record walk without the lock, beside every step of `IndexStore` |
| `PostingLayers` | the postings of passes in place, the two files of the manifest, a search with its process's cache |
| `TranscriptIngest` | one transcript by half lines, its client, and one pass over it |
| `KeptFresh` | the keeper, its verdicts, queries, the claim of a detached build and the builds |
| `Forgetting` | forget and unforget over two copies of the tombstones, passes, rebuilds, imports |
| `SyncExchange` | a sender, a receiver and the processes that exchange between them |
| `PacketDelivery` | the hooks of one session and the packet that outlives its compaction |
| `DeferredText` | hooks that leave text and hooks that take it |
| `MCIndexStore`, `MCIndexReaders`, `MCSyncExchange` | symmetry sets and values for TLC |
| `MCReadersAndPostings`, `MCStoreAndHooks`, `MCLocal` | independent parts under one run: the part is chosen at the start, so their state spaces add instead of multiplying |
| `*Proofs`, `NaturalBounds` | section 4 |

### `IndexStore`

* `doc[s][v]` is the first turn the transcript of `s` holds at version `v`. A client that appends
  keeps it and one that starts the file over raises it. So version `v` holds the turns
  `doc[s][v]..v`, and whether a file "only grew" (`canAppendIncremental`) can be told from it.
* `live`, `tmp`, `parked[n]` are `dir`, `dir.tmp`, and `dir.old` (0) or `dir.old.N`. A directory is
  a record: its log's name (the inode, and at the same time the manifest's `Generation`), the
  committed size, the key table `strs`, the dead records, the rows, the manifest file's identity,
  the offsets the postings name, both marks, and whether hook text waits in it.
* `logs[l]` is the file's content; a record is the key id it is filed under and its turn. Sizes
  and offsets count records instead of bytes.
* `pc` and `job` are the holder's place in the code and its locals, lost in a kill.

Actions follow the code in order. `Lock`, then `RecoverPresent` or `RecoverMissing`, `CutTail`,
`Unmark` and `Rescrub` are `recoverIndexDir`. `Rebuild`, `ReplaceWhole`, `ReplaceAppending`,
`AppendInPlace` and `WriteMetadata` start the passes, `WriteRecord` writes one record, and `Seal`
or `CommitAppend` writes the manifest. `ClearSpot`, `Park`, `CarryState`, `Install` (or
`InstallRefused` and `Restore`) and `Tidy` are `swapIndexDir`. `BlankWords`, `ZeroRecord`,
`Unscrub` and `ScrubStops` are the scrub. `Crash` may follow any of them. `MakeHollow`, `Defer` and
`Take` are the hooks: a hook that leaves text, or asks for a warmup, makes the directory when it is
not there, also between the two renames of a swap.

What is left to choice, so that more is allowed than the code does: which stale sessions a pass
takes, which kind of pass runs where its guard permits it, and whether the caller sweeps `dir.tmp`
(`Sweep`). What is simplified: the manifest's two files are one and the postings are the set of
offsets named in them (`PostingLayers` has both in detail); record text is a turn number;
transcripts are read in one step (`TranscriptIngest` has the reading); a first build of many sessions,
which installs a partial index of the newest before the full one (`publishNewestFirst`), swaps once.

### `IndexReaders` and `PostingLayers`

A reader changes nothing, so one reader stands for any number. In `IndexReaders` it notes the
manifest file, reads it, opens the log by path, and reads record by record what is there *at that
moment*. It then compares as its kind does: `inOneGeneration` compares the file's identity,
`walkRecordsStable` the generation. An open log keeps its name from being reused (`Pinned`), as an
open inode does.

In `PostingLayers` a posting is the turn it points at. `base[b]` is a bucket's file and `layers[b]`
its overlays, oldest first, `k.1`, `k.2` and so on in the code. An append writes its records in
one step, then files each bucket (`WritesBucket`, `MergesFrom`, `Folds`: one of the workers of
`addOverlays`), then writes `sessions.gob` and `manifest.gob` (`Commits`, twice, in `CommitOrder`),
then removes what the merges repeat, newest first (`DropsLast`, `CannotDrop`). `writer.stay` says
which overlays of a bucket stay, so `Leaving` is the files of `stale`, and `Promised` is what
`stampStore` writes. `UpdatesBoth` stands for the writers that add no record and write both files,
`UpdatesCore` for those that write `manifest.gob` alone. The search takes the lock if it is free,
stats both files, answers from its cache or reads both, checks the count and the log's length,
lists the overlays one after the other and reads each by its path. Left to choice: the sizes that
decide from which overlay on a merge takes in. Simplified: a rebuild and its swap are one step
(`IndexStore` has them), dead postings are not there, and a turn is one record.

### `TranscriptIngest`

The transcript is a sequence of half lines and newlines, each with the line it is of; a line may be
left half written. `held` is the `FileState` of the manifest: size, time, `SafeSize`, and the sample
that tells whether a grown file is the one that was read. A pass stats (`Stat`), finds the last
complete line (`FindSafe`), samples (`TakeSample`), decides between nothing, touched, append and
replace (`Decide`), reads at most to where the walk stood (`Read`), reads again when the file moved
(`Check`, `readSettled`), writes records without those a killed append left (`AppendRecords`), and
commits. Between any two of these the client says a line, goes on with one, or rewinds. `Beside`
says whether the index holds other transcripts. Where it holds none, a manifest that has committed
nothing does not notice the tail a killed append left (`MustRebuild`, from `recordsDamage`), and the
history `overlooked` says that it came to that.

### `KeptFresh`

`latest` and `covered` are versions of the stores and of the index, `gen` counts the index's writes
(`Stamp`). The keeper's check locks, walks, acts and publishes its verdict with the stamp it read;
a query takes the verdict and compares. Hooks and the keeper ask for a detached build through
`warmup.sentinel`: created exclusively, taken over when its owner is dead, adopted by the child,
cleared at the end. A child looks before it locks and reuses that walk only while the stamp stands.
Time is a step: a tick, a lock given up, a claim gone quiet.

### `Forgetting` and `SyncExchange`

In `Forgetting` each place of `op[p]` is a point between two writes of `Forget` (tombstone file,
index, mirror) or of `Unforget` (index, tombstone file, mirror). `LoseConfig` and
`LoseIndex` remove one directory.

In `SyncExchange` a record is `<<session, instant>>`; `wm` and `edge` are a source's watermark and
boundary set, `job[p]` an exchange by process `p` between its export, its delivery and its commit,
`copies` what the receiver's index holds, `ledger` its dedupe keys. `tail` is what a killed import
left past the committed size; a receiver that is `bare`, whose manifest commits no record, does not
take it for damage (`Damaged`), and the next import commits it: as `strays`, filed under ids that no
table names, until a new session is given such an id (`Adoptable`). `Export` selects, holds back by
rule, clamps and plans the watermark; `Deliver`, `DeliverTorn`, `Refuse` and `KillImport` are what
may become of a batch; `Commit` moves the watermark under the second lock, a pull before it is
delivered and a push after. `Die` ends an exchange anywhere.

### `PacketDelivery` and `DeferredText`

A packet is its number, the time it was captured, and the state of the transcript it shows. The
rows of `.hookseen` kept are those about compactions. Hosts are of four kinds: one that *tells* deja
before it compacts (`runHookPrecompactFor`, without the lock), one whose transcript *shows* a
compaction afterwards (`catchUpCompactionWith`), one that does and whose hooks take no lock, *apart*
(Crush, CodeWhale, Antigravity, goose), and one that tells and drops what some of its hooks print,
so that `runHookDeferred` *defers* (Grok; and any host while text waits for its session). The last
two catch what a hook writes and note it all the same (`Collect`, `NoteCollected`): the lock is let
go, and then the answer is kept under `deferred/` (`Keeps`), or printed with what waits there
(`TakesWaiting`, `Prints`), which the next hook that can speak is also given without asking for a
packet (`HandsWaiting`). `answer[p]` and `waiting` are the packets that are so far. Rewrites of
`.hookseen` are two steps, reading and replacing, so that appends between them are lost. The
histories `handed`, `consumed`, `unnoted`, `failing` and `tardy` are read by the properties only.

In `DeferredText` the session's directory holds texts and texts still being written; `mute` hooks
sweep, make the directory, remove what their kind replaces, write and rename, each a step; `heard`
hooks rename the directory away and tell what fits. No lock is taken anywhere.

## 3. The checks

Every run checks deadlock too. Names of logs and of buckets are symmetric in the runs without
liveness; nothing else is declared so.

| run | bounds | checks | shows |
|---|---|---|---|
| `StoreKilled` | 2 sessions, 2 logs, 2 turns each, 3 passes, 1 kill, spots 0..1 | `LogMatchesRows`, `NoTurnTwice`, `TailUnread`, `ErasedWhenUnmarked`, `PromiseKept`, `CopyRemains` | a kill anywhere loses, repeats and revives nothing |
| `StoreRefused` | 1 session, 3 logs, 4 passes, 1 kill; removals, installs and restores refused; failing scrubs; hook text | `TypeOK`, `PromiseKept`, `CopyRemains` | refusals pile up copies, and still the newest is recovered |
| `StoreSettles`, store | 1 session, 2 logs, 3 passes, 1 kill; installs and restores refused; hooks that make the directory and leave text, an empty index | `Settles`, `DeferredTextMoves` | everything left half done is finished, and waiting text is carried along |
| `StoreSettles`, packet | 4 kinds of host, 2 hooks, 2 captures, 1 trouble (none where answers are caught) | `PacketTypeOK`, `SecondCopyHasAReason`, `FailureHoldsOld`, `PacketArrives` | a packet is handed over, twice only for a reason, and an old one not for a new compaction |
| `StoreSettles`, text | 2 hooks that leave 3 texts of two kinds, 2 that take, 1 mishap | `TextTypeOK`, `ToldOnce`, `NoneGoesUntold` | races for a directory nobody locks repeat and lose nothing silently |
| `Readers`, records | 1 session, 3 logs, 3 passes | `ReaderTypeOK`, `SearchInOneGeneration` | a search that saw the same manifest twice saw one generation |
| `Readers`, one bucket | 4 turns, 2 overlays, 1 event | `LayersTypeOK`, `CommitIsCovered`, `CalmSearchIsWhole` | merges, a kill, a refusal, another writer: what is committed is found |
| `Readers`, two buckets | 3 turns, 2 overlays, no event | the same | the files of several buckets against one count |
| `Exchange` | 2 sessions in one database and 1 of its own, 2 processes, boundary cap 1, 1 fault | `ExchangeTypeOK`, `SettledWasHanded`, `NoRecordTwice`, `ImportedIsSearchable`, `AlwaysCaughtUp` | what is passed was handed over, is kept once, and arrives |
| `Local`, forget | 2 sessions, 2 processes, 2 kills, 1 directory lost | `ForgetTypeOK`, `ForgottenStaysOut`, `MissingIsListed`, `LiftedStaysLifted` | forgotten stays out, restored stays in, nothing vanishes unlisted |
| `Local`, keep | 1 build, keeper and hook, 2 changes, 1 death | `FreshTypeOK`, `StaleIsTrue`, `CoverageOnlyGrows`, `AlwaysCatchesUp` | verdicts are true when used, and the index catches up |
| `Local`, ingest | 3 lines, 1 without a time, 1 rewind, 1 kill | `IngestTypeOK`, `UntouchedIsHeld`, `NoLineTwice`, `TranscriptIsIndexed` | every line of a file left alone is indexed once |
| `HollowDir`, `LostScrub`, `LostText`, `EmptyIndex`, `StaleWalk`, `LostReimport` | each the smallest that reaches it | one property | section 5 |

Why the bounds suffice.

* The store: a fault in the swap needs one index to lose, one pass to interrupt and one to follow
  it: three passes and one kill. Two turns give a session a version to fall back to, and a
  transcript a way to be started over. Two sessions let one pass replace the first and carry the
  second, or replace them in turn. Two logs are enough without readers because a new log is only
  needed while one other is linked; where copies may stay parked, or readers hold a file, there are
  three. `MaxParked` 1 makes a refused removal use the last spot (16 in the code). With
  `DeadShareCompact` 2 (4 in the code) logs of two or three records reach both sides of the
  compaction threshold.
* The postings: the limit of two overlays (`maxOverlays` is larger) is reached by the third turn of
  a bucket and passed by the fourth, whether the pass folds, merges or was killed before its
  removals. A second bucket is there so that the count can be right in sum and wrong in place.
  Searches are not bounded. Two buckets over three turns with a kill or a refused removal, and one
  bucket over five turns, were checked once each (6.5 and 5.7 million states).
* The view of `Readers` replaces each number of a manifest file by whether it is the file that is
  there now. Numbers are only ever compared with the current file and, within a search, with those
  of its cache and with the one it began on; the view keeps these comparisons.
* The exchange: the cap is reached by the second record of an instant, the clamp by one rule, the
  ledger by one forget. Two faults were checked once for the safety properties (1.2 million states).
* Forgetting: two kills interrupt a forget and the operation that repeats it. Beyond one lost
  directory the properties do not hold (section 4).
* A transcript: the third line lets an append resume on a line that was torn twice; two and three
  rewinds, and an index that holds other transcripts (`Beside`, where nothing can be overlooked),
  were checked once each. `Exchange` has a receiver without records of its own, the harder case;
  `OwnRecords = TRUE` was checked once.
* Packets: two captures are an old packet and a new one, two hooks one that reads and one that
  writes between. Where answers are caught, one that is printed or waits in vain is trouble of its
  own, so `MCMaxTroubles` gives those hosts none besides; one for the hosts that defer was checked
  once too (0.69 million states, liveness included).

Counters (`writes`, `crashes`, `events`, `troubles`, `mishaps`, ...) only bound the faults; with
them exhausted every system can still go on, so there is no deadlock to excuse.

### Fairness

* `FairSpec` (store) is weakly fair to `Lock` and to the holder's steps. The first is the code's
  schedule: a server's keeper checks every 15 seconds, each hook asks for a warmup when it finds no
  index, and `SweepStaleTmp` takes the lock when anything was left behind. The second says that a
  process which runs goes on, unless it is killed (`Crash`, bounded). Nothing is assumed of clients
  and hooks, nor of a pass ever being begun: `Leave` is always an alternative. `Settles` is checked
  without failing scrubs, since one that fails every time can never finish.
* `FreshFairness`: queries keep coming, timers fire, processes that are not killed go on, and
  nobody is refused the index lock for ever (strong fairness of `CheckLocks` and `ChildLocks`: the
  lock is held again and again by others, and `flock` with a poll gets its turn).
* `ExchangeFairness`: the scheduled push is run again and again (the timer `deja` installs), an
  exchange under way goes on, and a damaged receiver reindexes.
* `IngestSpec`: a pass goes on and another follows.
* `PacketFairness`: a hook that runs goes on; while the session does, hooks that can speak come; and
  text nobody takes is dropped in the end (`deferredTTL`, and the sweep of every later hook).

### Mutants

Each property of a passing run has a mutant (`PROJECT.json`): a definition named `X_Wrong` beside
`X`, which drops a guard, a union, a step or an order the way an edit of the code might, and which
the run then refutes. They are not part of any specification.

## 4. The proofs

Each proof module states an inductive invariant, shows it holds at the start and after every action
(one step per action), and derives the theorems. Constants are arbitrary under the assumptions of
their modules, unless a hypothesis is named.

| module | theorems | rests on |
|---|---|---|
| `IndexStoreProofs` | `TypeCorrect` | `TypeInv`: `TypeOK` and `Present` |
| | `RecoverableOnlyAdvances`, `CopyAlwaysRemains` | `PromiseInv`: `TypeInv`, `Placed`, `Forward` |
| | `TextMovesAlong` | `CarriageInv`: `TypeInv`, `Carrying` |
| `IndexStoreLogProofs` | `TailNeverRead` | `TailInv`: `TypeInv`, `Single`, `Apart`, `Marked`, `AllUnread` |
| | `LogTold`, `EachTurnOnce` | `LogInv`: `TailInv`, `DocOrder`, `AllTruthful`, `Writing`, `Staged` |
| | `ErasedUnlessMarked` | `EraseInv`: `LogInv`, `AllScrubbed`, the marks of a pass and of a scrub |
| `IndexReadersProofs` | `ReaderTyped`, `OneGeneration` | `ReadInv`: `LogInv`, `Stamped`, what the reader has seen and read |
| `PostingLayersProofs` | `LayersTyped`, `CommitCovered`, `CalmWhole` | `LayersInv`: the pass (`Filed`, `Superfluous`, `Counted`, `Covered`) and the search |
| `LocalProofs` | `ForgettingTyped`, `ForgottenForGood`, `NothingMissingUnlisted`, `LiftedForGood` | `ForgetInv`: types, `Planned`, `Copies` |
| | `FreshTyped`, `StaleAnswersAreTrue`, `CoverageNeverBack` | `FreshInv`: types, `Walks`, `Verdicts` |
| | `IngestTyped`, `EachLineOnce`, `LeftAloneIsWhole` | `IngestInv`: `Typed`, `OnceInv`, `TrueInv` |
| `SyncExchangeProofs` | `ExchangeTyped`, `PassedWasHanded`, `HeldOnce`, `ImportedIsFound` | `SenderInv` and `ReceiverInv` |
| `HookProofs` | `DeferringTyped`, `TakenByOne`, `NoneLost` | `TextInv` |
| | `PacketTyped`, `SecondCopyExplained`, `OldHeldBack` | `PacketInv` |
| `NaturalBounds` | least and greatest members of sets of naturals | well-founded induction of the library |

**The store.** `TypeOK` is not inductive: the step that cuts the tail needs a log under `live`, the
scrub needs `live` in its place, a staged manifest has to be there to be renamed. `Present` says so
by the holder's place. For the promise (`IndexStore` implements `AtomicIndex` under
`at <- Recoverable.rows`), `Placed` says where the indexes are at each place of the holder: every
directory has a manifest, nothing is parked past recovery unless `dir` is there, and during a swap
the parked copy is the one with the highest number, hence the one recovery would take. `Forward`
says that what is recoverable, held in memory or staged never claims less than the recoverable
index, nor more than the transcripts hold. Each action then leaves the recoverable rows alone or is
one of the two that commit, `Install` and `CommitAppend`. Both theorems assume
`"mkdir" \notin HookActs` and `"recover" \notin Refusals`: the first because the promise does *not*
hold with such hooks (run `HollowDir`), be it a warmup request or a text that makes the directory, the
second because `recoverIndexDir` goes on after a restore
that Windows refuses, and the rebuild that follows replaces the copy it could not restore.

`TextMovesAlong` needs only the second of them, since the property names the two ways text is lost: a
kill between the carry and the rename, and a hook that makes the directory while the one with the text
is out of its place. `Carrying` keeps of `Placed` what such a hook cannot disturb: past recovery
nothing is parked unless `dir` is there, the copy a swap parked is the newest, hence the one that
comes back, and its text has gone into `dir.tmp` before the rename. So what is cleared, swept or
dropped has no text a hook would still find, also where `deferText` made `dir` itself.

**The record log.** The live log is shared: an appending replacement writes to it through the link
in `dir.tmp`, an in-place append directly, and a kill leaves either tail there. `TailInv` says whose
log grows. While a pass writes, no copy is parked beside `dir` (`Apart`); the mark is where the
appending pass put it and nowhere else (`Marked`); and what it appends is filed under ids past the
live key table, so the manifest there reads the tail under no session (`AllUnread`). `LogInv` then
says of every manifest on disk that it is truthful: under each session are the turns of the version
of its row, each once, and every name of its key table is of a session it lists. Three facts carry it
through a pass: what is under no id of a manifest, or behind its size, adds nothing to what it reads
(`TailIsNobodys`, `SamePrefix`); a record it lists as dead may become anything (`ErasedIsNobodys`);
and each record written is off what is still to be written and on what the log holds (`Covers`).
`EraseInv` adds, for each directory, that a dead record is erased and in no posting unless the mark
is there (`AllScrubbed`), that a pass begins without a mark, and which dead records a scrub under
way has left.

The hypotheses are places where the code differs or the property fails. `"remove" \notin Refusals`
is every system but Windows: where a parked copy can stay, it may outlive the log it shares, and
`StoreRefused` checks what still holds there. `~EmptyIndex` excludes what run `EmptyIndex` shows to
break these very properties, and `~ScrubFails` what run `LostScrub` shows.

**The readers.** What a search compares, the identity of the manifest file, is a stamp. `Stamped`
says that stamps are given in order and that what a reader may be shown never goes back
(`Onward`): the manifest in `dir`, or the copy that recovery will take. Hence a file that is there
before and after was there all the while, and in that time no pass took a record it lists from its
log (`Kept`). `Seen`, `Reading` and `Answered` say what the reader holds at each of its places, and
that a finished answer stays true, since versions of a transcript never change.

**The postings.** `Filed` says what a pass has written, bucket by bucket; `Superfluous`, that each
overlay it is about to remove is repeated in one that stays; `Counted`, that the manifest promises
no file that leaves; `Covered`, that every committed posting is in the bucket's file or an overlay.
`Looked` and `Found` say of a search that saw no commit which overlays it has still to read, and
that what is not among them it has. `LayersAssumption` asks for a finite set of buckets, whose files
are counted (256 in the code).

**Forgetting.** `Planned` says of each place of an operation how the set it carries stands to the
two copies of the tombstones; `Twins`, that without a kill or a loss the copies agree but between
the two writes of an operation. The three safety theorems assume `MaxWipes <= 1`: with both copies
lost nothing remembers.

**Freshness.** A verdict that says stale carries a stamp, and under that stamp the index is behind
if it still has it (`Behind`); a walk made before the lock covers no less than the index as long as
the stamp stands (`Walks`). Both follow from one fact about every step: the index does not move
without its stamp (`Onwards`).

**The transcript.** A client never writes a byte twice, even after a rewind, and what an index, a pass
or a sample has of it was written (`Typed`). So a sample that fits the file after a step of the client
fitted it before, and the file is the same up to there (`MovedFits`): a state whose sample fits, or
whose time is still the file's, stands for the lines it stood for when it was taken (`SureOf`).
`TrueInv` says so of the state held, of the walk's state and of what is read and written under it, at
each place of a pass, as long as no walk found the file cut back under it (`slipped`). `OnceInv` says
that no committed line is in the file past the size held, hence none in what an append reads; that
`dropStoredRepeats` finds nothing to drop here is part of the proof (`AllUnstored`). What is read is
recorded under the state of the walk that preceded it and no later one, also when `readSettled` looks
again: `TrueInv` holds at `check` what it holds at `commit`. All of it is as long as no tail was
`overlooked`; without one, a log longer than committed is rebuilt before anything is appended.

**The exchange.** `Watermarks` and `Pending` say that all a watermark passes, or an exchange under
way will pass, is done or in its batch; the clamp and the boundary set each keep a part of it.
`Ledgered` and `Whole` say what a dedupe row means, over a tail and over strays as well. The theorems
assume that instants are bounded (`NEW last \in Nat`; they are 64-bit nanoseconds), which makes newest
and oldest exist without a finite set of records. `ImportedIsFound` assumes `PromptRestore`; `LostReimport` shows why.

**Deferred text.** `TextInv` adds that a text being written is so by one hook and not yet in place
(`InOneHook`), and that one in place is in the directory, with one hook that took it, or told, and
in one of them only (`InOnePlace`).

**Packets.** `PacketInv` adds `Numbered` (numbers in use are of captures begun), `Places` (who holds
the lock where), `Barred` (a failure stands while its mark is in the file and no other compaction
is under way) and `Noted`. Of each packet whose note was not lost, `Unlost` says that it was handed
over once at most and is then noted or about to be; that one on its way to the host, caught or
waiting (`InHand`), is noted, was not handed over and is in no hook that could write it again; and
that it is in one place only (`OnePlace`), so that keeping, taking and printing add no second copy.

Only model-checked:

* liveness, which is beyond the prover: `Settles`, `AlwaysCatchesUp`, `AlwaysCaughtUp`,
  `TranscriptIsIndexed`, `PacketArrives`;
* `TypeOK`, `PromiseKept` and `CopyRemains` are proved for refused removals too, but what the log
  says where parked copies may stay is checked by no run and proved by no theorem.

## 5. Where the code and its documents disagree

Six runs expect a violation; `PROJECT.json` quotes the lines.

1. `HollowDir`: the holder dies between the two renames of a swap; a hook's `requestWarmup` makes
   the missing directory, as `deferText` may too; recovery takes that for the index and removes the
   parked copy. The sessions whose transcripts are gone are lost. The documents promise a recoverable
   copy (#181).
2. `LostScrub`: a scrub and its retry fail, then an appending replacement swaps in a directory
   without the mark. The earlier replaced text is never erased.
3. `LostText`: the holder dies between `carryIndexState` and the install. The hooks' text is in
   `dir.tmp`, which the next pass removes.
4. `EmptyIndex`: over a manifest that committed no record, a killed append's tail is not taken for
   damage, and its turns are found twice. `TranscriptIngest` (`overlooked`) and `SyncExchange`
   (`strays`, `revived`) have the same exception, and their properties name it.
5. `StaleWalk`: a record walk forgives a changed manifest of the same generation, but an appending
   replacement keeps the generation and zeroes records the walk's manifest lists.
6. `LostReimport`: an imported session is forgotten and restored; the first thing to come back is
   one new record of it, and the full import then skips the others as held.

The passing runs leave the causes out or name them, so that what they show is what holds otherwise: none
that checks `PromiseKept` or `CopyRemains` has a hook that makes the directory, none that checks
`NoTurnTwice` an empty index, `ErasedWhenUnmarked` no failing scrub, `SearchInOneGeneration` is about
searches only, `Exchange` has `PromptRestore`; `DeferredTextMoves`, `UntouchedIsHeld`, `NoLineTwice`,
`TranscriptIsIndexed` and `NoRecordTwice` run with the cause and name it as an exception. `StoreSettles`
has hooks that make the directory and an empty index too. `Settles` holds there, and tells nothing of
these two: a store settles in a directory a hook made, with the copy lost, and over a tail that nobody
notices.

Weaker than a document says, and stated that way in a property:

* "one delivery per compaction" (`cmd/deja/hook_compaction.go:22`) holds but for the reasons
  `SecondCopyHasAReason` lists;
* "a closed output pipe does not consume the next recovery" (`hook_compaction.go:509`) holds where a
  hook writes to its host. Where the answer is caught, it is noted while it is in memory or under
  `deferred/`, and used up when the hook is killed before it keeps or prints it, when the host has
  gone by then, when the next prompt's text replaces it or when nobody takes it in two hours
  (`consumed` in `PacketArrives`);
* "an older successful packet cannot masquerade as the state of this compaction"
  (`hook_compaction.go:303`) holds of what is stored. A packet that waits under `deferred/` when a
  later capture fails is told by the next hook that can speak (`FailureHoldsOld` speaks of what a hook
  hands over of its own). A capture killed after it cleared the marks and before it wrote the one of
  its failure leaves no mark, and a packet stored before it and not delivered yet is handed over;
* an import killed after its records leaves some the ledger does not know (`revived` in
  `NoRecordTwice`), which a rebuild keeps or, in an index without records, the next import commits;
* a pull that fails after the far side committed loses its batch until a full one (`lost` in
  `SettledWasHanded`); a record indexed out of order is never exported incrementally (`late`);
* a file rewound below what the walk stated may keep a torn line until it changes (`slipped` in
  `UntouchedIsHeld`); a killed append to the first transcript of an index may leave its lines twice
  (`overlooked`);
* a text found in a directory judged quiet, or too long, is dropped (`excused`). One whose directory is
  taken between its `MkdirAll` and its rename is lost before it was ever in place, and not counted.

Read in the code and not modelled: one import of a directory with the same record in two files
stores it twice for a session not held yet, and the undo of a refused file (`sync_import.go:140`)
also takes back dedupe keys an earlier good file set. A mirror write that fails in `Unforget`
(`privacy.go:239`) leaves the key in the mirror. A refused restore in `recoverIndexDir`
(`store_swap.go:311`) is followed by a rebuild. A rewrite in place can be read half written by a
rebuild (`ingest.go:253`). A claim judged dead is removed by name (`digest_cache.go:754`). A capture
that `PutCompaction` refuses as older blocks the newer packet that is stored. A rotation of `.hookseen`
keeps the rows of its caller's session up to 4000 and other sessions' marks up to 1000
(`hook_seen.go:390`), so a delivery may be forgotten past those. `DamageReason`
(`manifest.go:836`) reads the manifest and counts files without `inOneGeneration`, and can
transiently report missing postings beside a pass. Two stats that both find no manifest compare as
equal (`manifest_cache.go:123`).

## 6. Not modelled, and why

The map covers a small share of the repository, whose larger part is outside a model's use: about
a hundred parsers, each of one harness's format, the installers that edit those harnesses'
configuration, the text of answers, ranking, redaction, digests, mined sidecars, screens,
benchmarks and documentation tools. They transform data without a protocol, their errors are wrong
output for an input, and examples test them better. Usage counters and the peers file are one locked
read-modify-write each. The embedding sidecar changes the order of answers only. `atomicfile`
(temp file, fsync, rename) is taken as one step. Power loss, where a rename lands before the data,
is not modelled: a kill loses the process, not the disk's order.

Within the modelled parts: relays and content keys of notes in the exchange; selectors and sub-agent
runs in forgetting; databases, shared sessions, followed renames and in-place compaction of a
transcript; the offset table and text files written after a commit; dead postings blanked in place
and the overlays of a staged index; a change of policy or of the recall switch during a session
(`PacketArrives` takes them as constant); which event of which host defers; two detached builds
at a time (one is checked; `LocalProofs` is for any number); the partial index of a first build;
hosts that catch a compaction up in one hook without the lock and then answer in another with it
(Command Code, Amp), whose steps are those of the kinds modelled.

## 7. Plan

Done: the store and its promise; readers; postings and the two files of the manifest; ingest;
freshness and claims; forgetting; the exchange; packets and deferred text; the theorems of
section 4, which state every safety property of the passing runs. What would add most next, in this
order:

1. The log where parked copies may stay (`"remove" \in Refusals`), as a run and then a theorem.
2. Relays of imported records, and the ledger under several files of one import.
