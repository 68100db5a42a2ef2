---------------------------- MODULE DeferredText ----------------------------
(***************************************************************************)
(* Text that waits for a session (hook_deferred.go). Some hosts drop what  *)
(* a hook prints at one event and show what it prints at another: a hook   *)
(* of the first kind, here mute, leaves its answer as a file in the        *)
(* session's directory under deferred/, and the next hook that is heard    *)
(* takes the whole directory by renaming it away. Nobody holds a lock.     *)
(***************************************************************************)
EXTENDS Integers, FiniteSets

CONSTANTS
  Texts,       \* what hooks may leave: pairs <<kind, name>>
  Mute,        \* processes whose answer the host drops
  Heard,       \* processes whose answer it shows
  NoBox,       \* the session has no directory
  MaxMishaps   \* hooks killed, answers not taken, and two hours gone by

\* A session's directory: files, temporary files, left alone for two hours.
Boxes == [files : SUBSET Texts, temps : SUBSET Texts, quiet : BOOLEAN]

ASSUME TextAssumption ==
  /\ \A t \in Texts : t[1] \in {"start", "prompt", "tool"}
  /\ NoBox \notin Boxes
  /\ MaxMishaps \in Nat

VARIABLES
  box,       \* the session's directory
  old,       \* texts that have waited for more than two hours
  mute,      \* what each mute hook is doing
  taken,     \* what each hook that is heard has renamed away
  mishaps,   \* how many there were
  told,      \* history: times each text was put before the session
  placed,    \* history: texts that were in the directory
  excused    \* history: texts replaced, too old or too long, or gone with a hook

textVars == <<box, old, mute, taken, mishaps, told, placed, excused>>

Kind(t) == t[1]
\* deferredKind: the digest and the answer to the newest prompt replace what
\* came before, what is about a tool adds up.
ReplacingKinds == {"start", "prompt"}

NewBox == [files |-> {}, temps |-> {}, quiet |-> FALSE]
Nothing == [at |-> "idle", text |-> <<"none", 0>>]
Deferring == {"sweep", "mkdir", "replace", "write", "rename"}
Files == IF box = NoBox THEN {} ELSE box.files
InHands == UNION {taken[p] : p \in Heard}

TextTypeOK ==
  /\ box \in Boxes \cup {NoBox}
  /\ mute \in [Mute -> {Nothing} \cup [at : Deferring, text : Texts]]
  /\ taken \in [Heard -> SUBSET placed]
  /\ told \in [Texts -> 0..2] /\ mishaps \in 0..MaxMishaps
  /\ placed \subseteq Texts /\ excused \subseteq placed
  /\ old \subseteq placed /\ Files \subseteq placed

TextInit ==
  /\ box = NoBox /\ old = {}
  /\ mute = [m \in Mute |-> Nothing] /\ taken = [p \in Heard |-> {}]
  /\ mishaps = 0
  /\ told = [t \in Texts |-> 0] /\ placed = {} /\ excused = {}
-----------------------------------------------------------------------------
Mishap == mishaps < MaxMishaps /\ mishaps' = mishaps + 1
Now(m, at) == mute[m].at = at
Then(m, at) == mute' = [mute EXCEPT ![m].at = at]
GivesUp(m) == mute' = [mute EXCEPT ![m] = Nothing]
Unsaid(t) == t \notin placed /\ \A m \in Mute : mute[m].text # t

\* deferText begins, and sweepDeferred finds the directory left alone for more
\* than deferredTTL.
Defers(m, t) ==
  /\ Now(m, "idle") /\ Unsaid(t)
  /\ mute' = [mute EXCEPT ![m] = [at |-> IF box # NoBox /\ box.quiet THEN "sweep" ELSE "mkdir",
                                  text |-> t]]
  /\ UNCHANGED <<box, old, taken, mishaps, told, placed, excused>>

\* It removes the directory, whatever is in it by then.
Sweeps(m) ==
  /\ Now(m, "sweep")
  /\ box' = NoBox /\ excused' = excused \cup Files
  /\ Then(m, "mkdir")
  /\ UNCHANGED <<old, taken, mishaps, told, placed>>

MakesBox(m) ==
  /\ Now(m, "mkdir")
  /\ box' = IF box = NoBox THEN NewBox ELSE box
  /\ Then(m, IF Kind(mute[m].text) \in ReplacingKinds THEN "replace" ELSE "write")
  /\ UNCHANGED <<old, taken, mishaps, told, placed, excused>>

\* The files of its kind go.
Replaces(m) ==
  /\ Now(m, "replace")
  /\ LET gone == {t \in Files : Kind(t) = Kind(mute[m].text)}
     IN /\ excused' = excused \cup gone
        /\ box' = IF box = NoBox THEN box
                  ELSE [box EXCEPT !.files = @ \ gone, !.quiet = @ /\ gone = {}]
  /\ Then(m, "write")
  /\ UNCHANGED <<old, taken, mishaps, told, placed>>

\* The text is written beside its name, where the directory is still there,
WritesText(m) ==
  /\ Now(m, "write")
  /\ IF box = NoBox
     THEN GivesUp(m) /\ UNCHANGED box
     ELSE /\ Then(m, "rename")
          /\ box' = [box EXCEPT !.temps = @ \cup {mute[m].text}, !.quiet = FALSE]
  /\ UNCHANGED <<old, taken, mishaps, told, placed, excused>>

\* A file's name holds the kind, the time, a sequence number and the process,
\* so no text is renamed over another.
Beside_SameInstant(t) == {f \in box.files : Kind(f) # Kind(t)}
Beside(t) == box.files

\* and renamed into place, where it is still the same directory.
RenamesText(m) ==
  /\ Now(m, "rename")
  /\ LET t == mute[m].text
     IN IF box = NoBox \/ t \notin box.temps
        THEN UNCHANGED <<box, placed>>
        ELSE /\ box' = [box EXCEPT !.temps = @ \ {t}, !.files = Beside(t) \cup {t}, !.quiet = FALSE]
             /\ placed' = placed \cup {t}
  /\ GivesUp(m)
  /\ UNCHANGED <<old, taken, mishaps, told, excused>>
-----------------------------------------------------------------------------
\* takeDeferred: the directory is renamed away, so that one hook has it.
Away_Left == UNCHANGED box
Away == box' = NoBox

\* A name with a dot is of a text still being written.
Whole_AnyName == box.files \cup box.temps
Whole == box.files

TakesBox(p) ==
  /\ taken[p] = {} /\ box # NoBox
  /\ Away
  /\ taken' = [taken EXCEPT ![p] = Whole]
  /\ UNCHANGED <<old, mute, mishaps, told, placed, excused>>

NothingWaits(p) == taken[p] = {} /\ box = NoBox /\ UNCHANGED textVars

\* What is not too old, and fits under deferredMax, is put in front of the
\* hook's own answer; what was taken is removed.
Tells(p) ==
  /\ taken[p] # {}
  /\ \E fit \in SUBSET (taken[p] \ old) :
       /\ told' = [t \in Texts |-> IF t \in fit /\ told[t] < 2 THEN told[t] + 1 ELSE told[t]]
       /\ excused' = excused \cup (taken[p] \ fit)
  /\ taken' = [taken EXCEPT ![p] = {}]
  /\ UNCHANGED <<box, old, mute, mishaps, placed>>

\* The hook is killed first, or the host does not take its answer.
TextLost(p) ==
  /\ taken[p] # {} /\ Mishap
  /\ excused' = excused \cup taken[p]
  /\ taken' = [taken EXCEPT ![p] = {}]
  /\ UNCHANGED <<box, old, mute, told, placed>>

KillMute(m) ==
  /\ ~Now(m, "idle") /\ Mishap
  /\ GivesUp(m)
  /\ UNCHANGED <<box, old, taken, told, placed, excused>>

\* deferredTTL passes.
TwoHours ==
  /\ Mishap
  /\ old' = old \cup Files
  /\ box' = IF box = NoBox THEN box ELSE [box EXCEPT !.quiet = TRUE]
  /\ UNCHANGED <<mute, taken, told, placed, excused>>

TextNext ==
  \/ \E m \in Mute :
       \/ \E t \in Texts : Defers(m, t)
       \/ Sweeps(m) \/ MakesBox(m) \/ Replaces(m) \/ WritesText(m) \/ RenamesText(m)
       \/ KillMute(m)
  \/ \E p \in Heard : TakesBox(p) \/ NothingWaits(p) \/ Tells(p) \/ TextLost(p)
  \/ TwoHours

TextSpec == TextInit /\ [][TextNext]_textVars
-----------------------------------------------------------------------------
\* Two hooks that race for what waits hand it over once.
ToldOnce == \A t \in Texts : told[t] < 2

\* A text that came into the directory is there, or in the hands of a hook, or
\* was told, replaced by a newer of its kind, too old or too long, or gone with
\* a hook or a directory found quiet: no
\* order of hooks that leave, replace, sweep and take loses one otherwise.
NoneGoesUntold ==
  \A t \in placed : t \in Files \cup InHands \cup excused \/ told[t] > 0
=============================================================================
