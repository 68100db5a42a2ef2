-------------------------- MODULE TranscriptIngest --------------------------
(***************************************************************************)
(* One transcript and the index of it (ingest_walk.go,                     *)
(* ingest_incremental.go, ingest_append.go, ingest.go).  Its client        *)
(* appends to it byte by byte, and now and then rewinds it to an earlier   *)
(* line, while passes stat it, sample its head and tail, decide whether to *)
(* append, read up to the size the walk saw, look at it again and commit.  *)
(* A pass is killed anywhere, or refuses what changed under it and leaves  *)
(* it to the next one.                                                     *)
(*                                                                         *)
(* The index may hold other transcripts beside it.  Where it holds none, a *)
(* manifest that has committed nothing does not notice what a killed pass  *)
(* left in the log (recordsDamage), and the next pass writes the lines     *)
(* again behind it: the properties below except what follows, and the run  *)
(* EmptyIndex shows it.                                                    *)
(*                                                                         *)
(* A line is three bytes: half of it, the whole of it (a last line that    *)
(* parses although its newline is missing), and its newline.  What the     *)
(* index holds of a line is its second byte.                               *)
(***************************************************************************)
EXTENDS Integers, Sequences, FiniteSets

CONSTANTS
  MaxLines,      \* bound on the lines the client writes
  MaxRewinds,    \* bound on rewinds
  MaxPassKills,  \* bound on passes killed
  Undated,       \* the lines whose message carries no time
  Beside         \* the index holds records of other transcripts

ASSUME IngestAssumption ==
  /\ MaxLines \in Nat /\ MaxRewinds \in Nat /\ MaxPassKills \in Nat
  /\ Undated \subseteq Nat /\ Beside \in BOOLEAN

VARIABLES
  transcript,   \* the bytes of the file
  mtime,        \* how often it was written
  said,         \* the lines begun
  rewinds,
  indexed,      \* there is an index
  held,         \* the FileState its manifest has for the file, or NotHeld
  stored,       \* records.bin: the lines in it
  committed,    \* how many of them the manifest commits
  pass,         \* the pass, its walk's FileState and what it read
  slipped,      \* history: a walk found the file shorter than it had stated it
  overlooked,   \* history: the log has held a tail that no pass could notice
  passKills

client == <<transcript, mtime, said, rewinds>>
store == <<indexed, held, stored, committed>>
bounds == <<slipped, overlooked, passKills>>
ingestVars == <<client, store, pass, bounds>>

Bytes == (1..MaxLines) \X (1..3)
Sizes == 0..3 * MaxLines
MTimes == 0..3 * MaxLines + MaxRewinds
IsFileState(f) == /\ f.size \in Sizes /\ f.mtime \in MTimes /\ f.safe \in Sizes
                  /\ f.sample.to \in Sizes /\ f.sample.bytes \in Seq(Bytes)
NoSample == [to |-> 0, bytes |-> << >>]
NotHeld == [size |-> 0, mtime |-> 0, safe |-> 0, sample |-> NoSample, known |-> FALSE]
Resting == [at |-> "rest", how |-> "none", walk |-> NotHeld, read |-> << >>, tries |-> 0]
RecordsSize == committed + (IF Beside THEN 1 ELSE 0)   \* 0 only where nothing is committed

IngestTypeOK ==
  /\ transcript \in Seq(Bytes) /\ Len(transcript) \in Sizes
  /\ mtime \in MTimes /\ said \in 0..MaxLines /\ rewinds \in 0..MaxRewinds
  /\ indexed \in BOOLEAN /\ IsFileState(held) /\ held.mtime <= mtime
  /\ stored \in Seq(Bytes) /\ committed \in 0..Len(stored)
  /\ committed < Len(stored) =>
       pass.at = "manifest" \/ pass.how \in {"none", "rebuild"} \/ overlooked
  /\ pass.at \in {"rest", "safe", "sample", "decide", "read", "check", "commit", "manifest"}
  /\ IsFileState(pass.walk) /\ pass.walk.mtime <= mtime
  /\ pass.tries \in 0..2
  /\ slipped \in BOOLEAN /\ overlooked \in BOOLEAN /\ passKills \in 0..MaxPassKills
  /\ overlooked => ~Beside

IngestInit ==
  /\ transcript = << >> /\ mtime = 0 /\ said = 0 /\ rewinds = 0
  /\ indexed \in BOOLEAN /\ held = NotHeld /\ stored = << >> /\ committed = 0
  /\ pass = Resting /\ slipped = FALSE /\ overlooked = FALSE /\ passKills = 0

-----------------------------------------------------------------------------
(* The client. *)

LineOpen == Len(transcript) % 3 # 0

Say ==
  /\ ~LineOpen /\ said < MaxLines
  /\ said' = said + 1
  /\ transcript' = Append(transcript, <<said + 1, 1>>)
  /\ mtime' = mtime + 1
  /\ UNCHANGED <<rewinds, store, pass, bounds>>

SayOn ==
  /\ LineOpen
  /\ transcript' = Append(transcript, <<said, (Len(transcript) % 3) + 1>>)
  /\ mtime' = mtime + 1
  /\ UNCHANGED <<said, rewinds, store, pass, bounds>>

Rewind(lines) ==
  /\ rewinds < MaxRewinds /\ 3 * lines < Len(transcript)
  /\ transcript' = SubSeq(transcript, 1, 3 * lines)
  /\ mtime' = mtime + 1 /\ rewinds' = rewinds + 1
  /\ UNCHANGED <<said, store, pass, bounds>>

-----------------------------------------------------------------------------
(* What is read off the file. *)

Least(m, n) == IF m < n THEN m ELSE n

\* The lines between two offsets that parse: the rest of a line that began before
\* the first does not, and a line parses from its second byte on.
Parsed(from, to) ==
  LET before == (from + 2) \div 3
      upto   == (Least(to, Len(transcript)) + 1) \div 3
  IN  [k \in 1..(upto - before) |-> transcript[3 * (before + k) - 1]]

\* lastCompleteLineOffset: a file shorter than its size is taken as complete.
CompleteTo(size) ==
  IF size > Len(transcript) THEN size
  ELSE CHOOSE n \in 0..size :
         /\ n = 0 \/ transcript[n][2] = 3
         /\ \A m \in n + 1..size : transcript[m][2] # 3

\* filePrefixSample: a hash of the length and of what the file has of it.
Sample(n) == [to |-> n, bytes |-> SubSeq(transcript, 1, Least(n, Len(transcript)))]

\* resumeOffset
ResumeAt(f) == IF f.safe = 0 THEN f.size ELSE f.safe

-----------------------------------------------------------------------------
(* A pass. *)

End == pass' = Resting

Stat ==
  /\ pass.at = "rest"
  /\ pass' = [pass EXCEPT
       !.at = IF held.known /\ held.size = Len(transcript) /\ held.mtime = mtime
              THEN "decide" ELSE "safe",
       !.walk = IF held.known /\ held.size = Len(transcript) /\ held.mtime = mtime
                THEN held
                ELSE [NotHeld EXCEPT !.size = Len(transcript), !.mtime = mtime,
                                     !.known = TRUE]]
  /\ UNCHANGED <<client, store, bounds>>

FindSafe ==
  /\ pass.at = "safe"
  /\ pass' = [pass EXCEPT !.at = "sample", !.walk.safe = CompleteTo(pass.walk.size)]
  /\ slipped' = (slipped \/ Len(transcript) < pass.walk.size)
  /\ UNCHANGED <<client, store, overlooked, passKills>>

TakeSample ==
  /\ pass.at = "sample"
  /\ pass' = [pass EXCEPT !.at = IF pass.how = "none" THEN "decide" ELSE "read",
                          !.walk.sample = Sample(pass.walk.safe)]
  /\ UNCHANGED <<client, store, bounds>>

\* A log longer than the manifest committed is rebuilt, as a missing index is;
\* over a manifest that committed no record at all its length is not looked at.
MustRebuild_NotLonger == ~indexed
MustRebuild == ~indexed \/ (RecordsSize > 0 /\ Len(stored) # committed)

Same == held.known /\ held.size = pass.walk.size /\ held.mtime = pass.walk.mtime

TouchedOnly ==
  /\ held.known /\ held.size = pass.walk.size
  /\ held.safe = held.size /\ pass.walk.safe = pass.walk.size
  /\ held.sample # NoSample /\ held.sample = pass.walk.sample

CanAppend_TornTail ==
  /\ held.known /\ pass.walk.size > held.size
  /\ held.sample # NoSample => Sample(held.safe) = held.sample
CanAppend ==
  /\ held.known /\ pass.walk.size > held.size
  /\ held.safe = held.size
  /\ held.sample # NoSample => Sample(held.safe) = held.sample

\* What the pass will do with the file; a touched one is recorded, not read.
\* (Over a manifest that committed nothing, recording it takes what a killed pass
\* left in the log for committed; that tail was overlooked already.)
Decide ==
  /\ pass.at = "decide"
  /\ LET how == IF MustRebuild THEN "rebuild"
                ELSE IF Same THEN "none"
                ELSE IF TouchedOnly THEN "touch"
                ELSE IF ~held.known THEN "new"
                ELSE IF CanAppend THEN "append"
                ELSE "replace"
     IN  /\ IF how \in {"none", "touch"} THEN End
            ELSE pass' = [pass EXCEPT !.at = "read", !.how = how]
         /\ held' = IF how = "touch" THEN [held EXCEPT !.mtime = pass.walk.mtime] ELSE held
  /\ UNCHANGED <<client, indexed, stored, committed, bounds>>

\* readTo holds the read to the size the walk saw.
ReadTo_End == Len(transcript)
ReadTo == pass.walk.size

\* A rebuild does not look at the file again.
Read ==
  /\ pass.at = "read"
  /\ pass' = [pass EXCEPT
       !.at = IF pass.how = "rebuild" THEN "commit" ELSE "check",
       !.read = Parsed(IF pass.how = "append" THEN ResumeAt(held) ELSE 0, ReadTo)]
  /\ UNCHANGED <<client, store, bounds>>

ReadAsWalked ==
  \/ Len(transcript) = pass.walk.size /\ mtime = pass.walk.mtime
  \/ /\ pass.walk.sample # NoSample /\ Len(transcript) >= pass.walk.size
     /\ Sample(pass.walk.safe) = pass.walk.sample

\* Appended to, the file waits for the next pass; read whole, it is stated and
\* read again, twice at most.
Check_KeepsTheRead ==
  /\ pass.at = "check"
  /\ IF pass.how = "append" /\ ~ReadAsWalked THEN End
     ELSE pass' = [pass EXCEPT !.at = "commit", !.walk.size = Len(transcript),
                               !.walk.mtime = mtime]
  /\ UNCHANGED <<client, store, bounds>>
Check ==
  /\ pass.at = "check"
  /\ IF ReadAsWalked THEN pass' = [pass EXCEPT !.at = "commit"]
     ELSE IF pass.how = "append" \/ pass.tries = 2 THEN End
     ELSE pass' = [pass EXCEPT !.at = "safe", !.tries = @ + 1, !.read = << >>,
                     !.walk = [NotHeld EXCEPT !.size = Len(transcript), !.mtime = mtime,
                                              !.known = TRUE]]
  /\ UNCHANGED <<client, store, bounds>>

\* dropStoredRepeats, in order: only a line with a time is known for one the log
\* holds, and with no line committed the session has no row and nothing is looked up.
Nth(S, k) == CHOOSE i \in S : Cardinality({j \in S : j <= i}) = k
Unstored(lines) ==
  LET kept == {i \in DOMAIN lines :
                 \/ committed = 0 \/ lines[i][1] \in Undated
                 \/ \A j \in DOMAIN stored : stored[j] # lines[i]}
  IN  [k \in 1..Cardinality(kept) |-> lines[Nth(kept, k)]]

\* In place: the log first, the manifest after it.
AppendRecords ==
  /\ pass.at = "commit" /\ pass.how \in {"append", "new"}
  /\ stored' = stored \o Unstored(pass.read)
  /\ pass' = [pass EXCEPT !.at = "manifest"]
  /\ UNCHANGED <<client, indexed, held, committed, bounds>>

CommitManifest ==
  /\ pass.at = "manifest"
  /\ held' = pass.walk /\ committed' = Len(stored)
  /\ End
  /\ UNCHANGED <<client, indexed, stored, bounds>>

\* Into a directory that replaces the live one.
Replace ==
  /\ pass.at = "commit" /\ pass.how \in {"replace", "rebuild"}
  /\ stored' = pass.read /\ committed' = Len(pass.read)
  /\ held' = pass.walk /\ indexed' = TRUE
  /\ overlooked' = FALSE
  /\ End
  /\ UNCHANGED <<client, slipped, passKills>>

\* Between the log and the manifest it leaves a tail, which the next pass notices
\* if any record is committed.
KillPass ==
  /\ pass.at # "rest" /\ passKills < MaxPassKills
  /\ passKills' = passKills + 1
  /\ overlooked' = (overlooked \/ (RecordsSize = 0 /\ Len(stored) > committed))
  /\ End
  /\ UNCHANGED <<client, store, slipped>>

-----------------------------------------------------------------------------
PassStep ==
  \/ Stat \/ FindSafe \/ TakeSample \/ Decide \/ Read \/ Check
  \/ AppendRecords \/ CommitManifest \/ Replace

IngestNext ==
  \/ Say \/ SayOn \/ \E lines \in 0..MaxLines : Rewind(lines)
  \/ PassStep \/ KillPass

\* Passes keep being run; nothing is asked of the client.
IngestSpec == IngestInit /\ [][IngestNext]_ingestVars /\ WF_ingestVars(PassStep)

-----------------------------------------------------------------------------
Committed == SubSeq(stored, 1, committed)

\* Where the manifest's record of the file matches the file, so that passes leave
\* it alone, the index holds its lines: all, in order, each once; unless a walk
\* slipped or a tail was overlooked.
UntouchedIsHeld ==
  (held.known /\ held.size = Len(transcript) /\ held.mtime = mtime)
    => slipped \/ overlooked \/ Committed = Parsed(0, Len(transcript))

\* No line is committed twice, whatever was torn, killed or retried before it,
\* except behind a tail that was overlooked.
NoLineTwice ==
  overlooked \/ \A i, j \in DOMAIN Committed : Committed[i] = Committed[j] => i = j

\* Once the client is done, the index comes to hold the transcript and nothing
\* that was rewound away, with the same exceptions.
TranscriptIsIndexed ==
  <>[](slipped \/ overlooked \/ Committed = Parsed(0, Len(transcript)))
=============================================================================
