------------------------ MODULE MCReadersAndPostings ------------------------
(* A reader beside the passes of the store, and a search beside the postings *)
(* of passes in place, these over one bucket with a disturbance or over two  *)
(* without: models of one index, each alone. Which one runs is chosen at the *)
(* start, so that their state spaces add.                                    *)
EXTENDS IndexReaders, PostingLayers, TLC

\* Names of logs and of buckets are interchangeable.
NameSymmetry == Permutations(LogIds) \cup Permutations(Buckets)

VARIABLE part

EitherInit ==
  /\ part \in {"records", "one bucket", "two buckets"}
  /\ ReadInit /\ LayersInit
  /\ part # "two buckets" => Cardinality(words[1]) = 1

InRecords(A) == part = "records" /\ A /\ UNCHANGED <<layerVars, part>>
InPostings(A) == part # "records" /\ A /\ UNCHANGED <<vars, rd, part>>
Disturbs(A) == part = "one bucket" /\ InPostings(A)

\* The bounds of the two: the last turn is for one bucket alone.
MayAppend(S) == IF part = "one bucket" THEN S = words[1] ELSE appended < MaxTurns - 1

\* The disjuncts of ReadNext and of LayersNext.
EitherNext ==
  \/ InRecords(StoreStep) \/ InRecords(Read /\ UNCHANGED vars)
  \/ \E S \in (SUBSET Buckets) \ {{}} : InPostings(MayAppend(S) /\ AppendsTurn(S))
  \/ \E b \in Buckets :
       \/ InPostings(WritesBucket(b)) \/ InPostings(Folds(b)) \/ InPostings(DropsLast(b))
       \/ Disturbs(CannotDrop(b)) \/ InPostings(Checks(b))
       \/ \E n \in 1..(Overlays(b) + 1) : InPostings(MergesFrom(b, n))
  \/ InPostings(Commits) \/ InPostings(Finishes) \/ Disturbs(UpdatesBoth)
  \/ Disturbs(UpdatesCore) \/ Disturbs(Rebuilds) \/ Disturbs(KillWriter)
  \/ InPostings(Searches) \/ InPostings(StatsCore) \/ InPostings(StatsTable)
  \/ InPostings(ReadsCore) \/ InPostings(ReadsTable) \/ InPostings(Lists)
  \/ InPostings(ReadsBase) \/ InPostings(ReadsLayer) \/ InPostings(SearchEnds)
  \/ InPostings(Answers)

\* Which of the manifest's two files was seen matters only as being, or not,
\* the one that is there now, and in a search as the one it or its process
\* saw before: a file that is gone never returns.
IsNow(m) == [m EXCEPT !.file = @ = core.file]
AreNow(keys) == <<keys[1] = core.file, keys[2] = table.file>>
EitherView ==
  <<part, vars, rd, words, appended, base, layers, writer, events,
    table.turns, IsNow(core), AreNow(cache.keys), IsNow(cache.core), cache.table.turns,
    [search EXCEPT !.before = @ = core.file, !.keys = AreNow(@),
                   !.core = IsNow(@), !.table.file = 0],
    search.keys[1] = cache.keys[1], search.core.file = search.before>>

EitherSpec == EitherInit /\ [][EitherNext]_<<part, vars, rd, layerVars>>
=============================================================================
