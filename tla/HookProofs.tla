----------------------------- MODULE HookProofs -----------------------------
(***************************************************************************)
(* What the hooks of a session promise one another: two parts that share   *)
(* no state.                                                               *)
(* Of DeferredText, for any number of hooks of either kind and any texts:  *)
(* no text is told twice, and none is lost but for the reasons             *)
(* NoneGoesUntold names. The inductive invariant says that a text is in    *)
(* one place: with the hook that leaves it, in the session's directory, in *)
(* the hands of one hook, or told.                                         *)
(* Of PacketDelivery, for any number of hooks, captures and troubles and   *)
(* for every kind of host: a packet is handed over twice only where its    *)
(* note was lost, and one that was stored before does not pass for a       *)
(* compaction that could not be captured.                                  *)
(***************************************************************************)
EXTENDS DeferredText, PacketDelivery, TLAPS

-----------------------------------------------------------------------------
(* DeferredText.                                                            *)

\* A text is left by one hook, which has not put it in place yet.
InOneHook ==
  \A m, n \in Mute :
    mute[m] # Nothing => /\ mute[m].text \notin placed
                         /\ mute[n].text = mute[m].text => n = m

\* A text in place is in the directory, with one hook, or told, and once.
InOnePlace ==
  /\ \A p, q \in Heard : taken[p] \cap taken[q] # {} => p = q
  /\ \A p \in Heard : taken[p] \cap Files = {}
  /\ \A t \in Texts : told[t] > 0 => /\ t \in placed \ Files
                                     /\ \A p \in Heard : t \notin taken[p]

TextInv == TextTypeOK /\ InOneHook /\ InOnePlace /\ ToldOnce /\ NoneGoesUntold

\* Nothing is held, told or left when no hook has run.
LEMMA TextStart == TextInit => TextInv
<1> SUFFICES ASSUME TextInit PROVE TextInv
  OBVIOUS
<1>1. TextTypeOK
  BY TextAssumption DEF TextInit, TextTypeOK, Files
<1>2. InOneHook
  BY DEF TextInit, InOneHook
<1>3. InOnePlace /\ ToldOnce /\ NoneGoesUntold
  BY DEF TextInit, InOnePlace, ToldOnce, NoneGoesUntold, Files
<1> QED
  BY <1>1, <1>2, <1>3 DEF TextInv

\* What Files is of a directory, and of none.
LEMMA FilesOf ==
  /\ box = NoBox => Files = {}
  /\ box \in Boxes => Files = box.files /\ box # NoBox
BY TextAssumption DEF Files

\* The texts in the directory after a step.
LEMMA FilesNext ==
  /\ box' = NoBox => Files' = {}
  /\ box' \in Boxes => Files' = box'.files /\ box' # NoBox
BY TextAssumption DEF Files

\* A hook that leaves a text is not one that rests.
LEMMA LeavesText ==
  ASSUME TextTypeOK, NEW m \in Mute, mute[m].at \in Deferring
  PROVE  mute[m] # Nothing /\ mute[m].text \in Texts
BY DEF TextTypeOK, Nothing, Deferring

\* Steps of a mute hook before its text is in place: no text moves but those
\* that are replaced or swept away.
LEMMA MuteKeeps ==
  ASSUME TextInv, UNCHANGED <<old, taken, told, placed>>,
         box' \in Boxes \cup {NoBox}, Files' \subseteq Files,
         excused' = excused \cup (Files \ Files'),
         mute' \in [Mute -> {Nothing} \cup [at : Deferring, text : Texts]],
         mishaps' \in 0..MaxMishaps, InOneHook'
  PROVE  TextInv'
<1>1. TextTypeOK'
  BY DEF TextInv, TextTypeOK
<1>2. InOnePlace' /\ ToldOnce'
  BY DEF TextInv, TextTypeOK, InOnePlace, ToldOnce
<1>3. NoneGoesUntold'
  BY DEF TextInv, TextTypeOK, NoneGoesUntold, InHands
<1> QED
  BY <1>1, <1>2, <1>3 DEF TextInv

\* A hook that goes on with the text it has, or gives it up.
LEMMA MuteGoesOn ==
  ASSUME TextInv, NEW m \in Mute, mute[m] # Nothing, UNCHANGED placed,
         \/ \E at \in Deferring : Then(m, at)
         \/ GivesUp(m)
  PROVE  InOneHook' /\ mute' \in [Mute -> {Nothing} \cup [at : Deferring, text : Texts]]
<1>1. CASE \E at \in Deferring : Then(m, at)
  <2> PICK at \in Deferring : Then(m, at)
    BY <1>1
  <2>1. mute[m] \in [at : Deferring, text : Texts]
    BY DEF TextInv, TextTypeOK
  <2>2. \A n \in Mute : mute'[n] = IF n = m THEN [mute[m] EXCEPT !.at = at] ELSE mute[n]
    BY DEF Then, TextInv, TextTypeOK
  <2>a. [mute[m] EXCEPT !.at = at] = [at |-> at, text |-> mute[m].text]
    BY <2>1
  <2>3. \A n \in Mute : mute'[n].text = mute[n].text /\ (mute'[n] # Nothing => mute[n] # Nothing)
    BY <2>2, <2>a DEF TextInv, TextTypeOK
  <2>4. mute' \in [Mute -> {Nothing} \cup [at : Deferring, text : Texts]]
    BY <2>1, <2>2, <2>a DEF Then, TextInv, TextTypeOK
  <2> QED
    BY <2>3, <2>4 DEF TextInv, TextTypeOK, InOneHook
<1>2. CASE GivesUp(m)
  <2>1. \A n \in Mute : mute'[n] = IF n = m THEN Nothing ELSE mute[n]
    BY <1>2 DEF GivesUp, TextInv, TextTypeOK
  <2>2. \A n \in Mute : mute[n] # Nothing => mute[n].text # Nothing.text
    BY TextAssumption DEF TextInv, TextTypeOK, Nothing
  <2>3. InOneHook'
    BY <2>1, <2>2 DEF TextInv, InOneHook
  <2> QED
    BY <1>2, <2>3 DEF GivesUp, TextInv, TextTypeOK
<1> QED
  BY <1>1, <1>2

\* A hook has a text to leave.
LEMMA DefersKeeps ==
  ASSUME TextInv, NEW m \in Mute, NEW t \in Texts, Defers(m, t)
  PROVE  TextInv'
<1>1. PICK at \in {"sweep", "mkdir"} : mute' = [mute EXCEPT ![m] = [at |-> at, text |-> t]]
  BY DEF Defers
<1>2. mute' \in [Mute -> {Nothing} \cup [at : Deferring, text : Texts]]
  BY <1>1 DEF TextInv, TextTypeOK, Deferring
<1>3. \A n \in Mute : mute'[n] = IF n = m THEN [at |-> at, text |-> t] ELSE mute[n]
  BY <1>1 DEF TextInv, TextTypeOK
<1>4. InOneHook'
  BY <1>3 DEF Defers, Unsaid, TextInv, InOneHook
<1>5. Files' = Files /\ UNCHANGED <<box, old, taken, mishaps, told, placed, excused>>
  BY DEF Defers, Files
<1>6. TextTypeOK'
  BY <1>2, <1>5 DEF TextInv, TextTypeOK
<1>7. InOnePlace' /\ ToldOnce' /\ NoneGoesUntold'
  BY <1>5 DEF TextInv, InOnePlace, ToldOnce, NoneGoesUntold, InHands
<1> QED
  BY <1>4, <1>6, <1>7 DEF TextInv

\* It removes a directory it finds quiet.
LEMMA SweepsKeeps ==
  ASSUME TextInv, NEW m \in Mute, Sweeps(m)
  PROVE  TextInv'
<1>1. mute[m] # Nothing
  BY DEF Sweeps, Now, Nothing
<1>2. \E at \in Deferring : Then(m, at)
  BY DEF Sweeps, Deferring
<1>3. Files' = {}
  BY FilesNext DEF Sweeps
<1> QED
  BY <1>1, <1>2, <1>3, MuteGoesOn, MuteKeeps DEF Sweeps, TextInv, TextTypeOK

\* It makes the directory.
LEMMA MakesBoxKeeps ==
  ASSUME TextInv, NEW m \in Mute, MakesBox(m)
  PROVE  TextInv'
<1>1. mute[m] # Nothing
  BY DEF MakesBox, Now, Nothing
<1>2. \E at \in Deferring : Then(m, at)
  BY DEF MakesBox, Deferring
<1>3. NewBox \in Boxes /\ NewBox.files = {}
  BY DEF NewBox, Boxes
<1>4. Files' = Files /\ box' \in Boxes \cup {NoBox}
  BY <1>3, FilesOf, FilesNext DEF MakesBox, TextInv, TextTypeOK
<1> QED
  BY <1>1, <1>2, <1>4, MuteGoesOn, MuteKeeps DEF MakesBox, TextInv, TextTypeOK

\* It removes what its text replaces.
LEMMA ReplacesKeeps ==
  ASSUME TextInv, NEW m \in Mute, Replaces(m)
  PROVE  TextInv'
<1> DEFINE gone == {t \in Files : Kind(t) = Kind(mute[m].text)}
<1>1. mute[m] # Nothing
  BY DEF Replaces, Now, Nothing
<1>2. \E at \in Deferring : Then(m, at)
  BY DEF Replaces, Deferring
<1>3. Files' = Files \ gone /\ box' \in Boxes \cup {NoBox}
  <2>1. CASE box = NoBox
    BY <2>1, FilesOf, FilesNext DEF Replaces
  <2>2. CASE box \in Boxes
    <3>1. box' = [box EXCEPT !.files = @ \ gone, !.quiet = @ /\ gone = {}]
      BY <2>2, TextAssumption DEF Replaces
    <3>2. box' = [files |-> box.files \ gone, temps |-> box.temps,
                  quiet |-> (box.quiet /\ gone = {})]
      BY <3>1, <2>2 DEF Boxes
    <3>3. (box.quiet /\ gone = {}) \in BOOLEAN
      OBVIOUS
    <3>4. box' \in Boxes /\ box'.files = box.files \ gone
      BY <3>2, <3>3, <2>2 DEF Boxes
    <3> QED
      BY <3>4, <2>2, FilesOf, FilesNext
  <2> QED
    BY <2>1, <2>2 DEF TextInv, TextTypeOK
<1>4. excused' = excused \cup (Files \ Files')
  BY <1>3 DEF Replaces
<1> QED
  BY <1>1, <1>2, <1>3, <1>4, MuteGoesOn, MuteKeeps DEF Replaces, TextInv, TextTypeOK

\* It writes its text.
LEMMA WritesKeeps ==
  ASSUME TextInv, NEW m \in Mute, WritesText(m)
  PROVE  TextInv'
<1>1. mute[m] # Nothing /\ mute[m].text \in Texts
  BY LeavesText DEF WritesText, Now, TextInv, Deferring
<1>2. (\E at \in Deferring : Then(m, at)) \/ GivesUp(m)
  BY DEF WritesText, Deferring
<1>3. Files' = Files /\ box' \in Boxes \cup {NoBox}
  <2>1. CASE box = NoBox
    BY <2>1, FilesOf, FilesNext DEF WritesText
  <2>2. CASE box \in Boxes
    <3>1. box' = [box EXCEPT !.temps = @ \cup {mute[m].text}, !.quiet = FALSE]
      BY <2>2, TextAssumption DEF WritesText
    <3>2. box' \in Boxes /\ box'.files = box.files
      BY <3>1, <2>2, <1>1 DEF Boxes
    <3> QED
      BY <3>2, <2>2, FilesOf, FilesNext
  <2> QED
    BY <2>1, <2>2 DEF TextInv, TextTypeOK
<1> QED
  BY <1>1, <1>2, <1>3, MuteGoesOn, MuteKeeps DEF WritesText, TextInv, TextTypeOK

\* The text comes into place, where it was not, or nothing does.
LEMMA RenamesKeeps ==
  ASSUME TextInv, NEW m \in Mute, RenamesText(m)
  PROVE  TextInv'
<1> DEFINE t == mute[m].text
<1>1. mute[m] # Nothing /\ t \in Texts /\ t \notin placed
  BY LeavesText DEF RenamesText, Now, TextInv, Deferring, InOneHook
<1>2. CASE UNCHANGED <<box, placed>>
  <2>1. Files' = Files
    BY <1>2 DEF Files
  <2> QED
    BY <1>1, <1>2, <2>1, MuteGoesOn, MuteKeeps DEF RenamesText, TextInv, TextTypeOK
<1>3. CASE /\ box # NoBox
           /\ box' = [box EXCEPT !.temps = @ \ {t}, !.files = Beside(t) \cup {t}, !.quiet = FALSE]
           /\ placed' = placed \cup {t}
  <2>1. box \in Boxes
    BY <1>3 DEF TextInv, TextTypeOK
  <2>2. box' \in Boxes /\ box'.files = box.files \cup {t}
    BY <1>1, <1>3, <2>1 DEF Boxes, Beside
  <2>3. Files' = Files \cup {t}
    BY <2>1, <2>2, FilesOf, FilesNext
  <2>4. \A n \in Mute : mute'[n] = IF n = m THEN Nothing ELSE mute[n]
    BY DEF RenamesText, GivesUp, TextInv, TextTypeOK
  <2>5. mute' \in [Mute -> {Nothing} \cup [at : Deferring, text : Texts]]
    BY DEF RenamesText, GivesUp, TextInv, TextTypeOK
  <2>6. \A n \in Mute : mute[n] # Nothing => mute[n].text # Nothing.text
    BY TextAssumption DEF TextInv, TextTypeOK, Nothing
  <2>7. InOneHook'
    BY <1>1, <1>3, <2>4, <2>6 DEF TextInv, InOneHook
  <2>8. UNCHANGED <<old, taken, mishaps, told, excused>>
    BY DEF RenamesText
  <2>9. \A p \in Heard : t \notin taken[p]
    BY <1>1 DEF TextInv, TextTypeOK
  <2>10. told[t] = 0
    BY <1>1 DEF TextInv, TextTypeOK, InOnePlace
  <2>11. TextTypeOK'
    BY <1>1, <1>3, <2>2, <2>3, <2>5, <2>8 DEF TextInv, TextTypeOK
  <2>12. InOnePlace' /\ ToldOnce'
    BY <1>3, <2>3, <2>8, <2>9, <2>10 DEF TextInv, TextTypeOK, InOnePlace, ToldOnce
  <2>13. NoneGoesUntold'
    BY <1>3, <2>3, <2>8 DEF TextInv, NoneGoesUntold, InHands
  <2> QED
    BY <2>7, <2>11, <2>12, <2>13 DEF TextInv
<1> QED
  BY <1>2, <1>3 DEF RenamesText

\* It is killed.
LEMMA KillMuteKeeps ==
  ASSUME TextInv, NEW m \in Mute, KillMute(m)
  PROVE  TextInv'
<1>1. mute[m] # Nothing
  BY DEF KillMute, Now, Nothing
<1>2. GivesUp(m) /\ UNCHANGED <<box, old, taken, told, placed, excused>>
  BY DEF KillMute
<1>3. mishaps' \in 0..MaxMishaps
  BY TextAssumption DEF KillMute, Mishap, TextInv, TextTypeOK
<1>4. Files' = Files
  BY <1>2 DEF Files
<1> QED
  BY <1>1, <1>2, <1>3, <1>4, MuteGoesOn, MuteKeeps DEF TextInv, TextTypeOK

\* Renaming the directory away leaves what was in it with one hook.
LEMMA TakesKeeps ==
  ASSUME TextInv, NEW p \in Heard, TakesBox(p)
  PROVE  TextInv'
<1>1. box \in Boxes /\ Files = box.files
  BY FilesOf DEF TakesBox, TextInv, TextTypeOK
<1>2. Files' = {} /\ box' = NoBox
  BY FilesNext DEF TakesBox, Away
<1>3. \A q \in Heard : taken'[q] = IF q = p THEN Files ELSE taken[q]
  BY <1>1 DEF TakesBox, Whole, TextInv, TextTypeOK
<1>4. UNCHANGED <<old, mute, mishaps, told, placed, excused>> /\ taken[p] = {}
  BY DEF TakesBox
<1>5. TextTypeOK'
  BY <1>1, <1>2, <1>4 DEF TakesBox, Whole, TextInv, TextTypeOK
<1>6. InOneHook'
  BY <1>4 DEF TextInv, InOneHook
<1>7. InOnePlace' /\ ToldOnce'
  BY <1>2, <1>3, <1>4 DEF TextInv, TextTypeOK, InOnePlace, ToldOnce
<1>8. NoneGoesUntold'
  <2> SUFFICES ASSUME NEW t \in placed, t \notin excused, ~(told[t] > 0)
               PROVE  \E q \in Heard : t \in taken'[q]
    BY <1>4 DEF NoneGoesUntold, InHands
  <2>1. CASE t \in Files
    BY <2>1, <1>3
  <2>2. CASE t \notin Files
    <3>1. PICK q \in Heard : t \in taken[q]
      BY <2>2 DEF TextInv, NoneGoesUntold, InHands
    <3> QED
      BY <3>1, <1>3, <1>4
  <2> QED
    BY <2>1, <2>2
<1> QED
  BY <1>5, <1>6, <1>7, <1>8 DEF TextInv

\* What one hook had is told, or excused.
LEMMA TellsKeeps ==
  ASSUME TextInv, NEW p \in Heard, Tells(p)
  PROVE  TextInv'
<1>1. PICK fit \in SUBSET (taken[p] \ old) :
        /\ told' = [t \in Texts |-> IF t \in fit /\ told[t] < 2 THEN told[t] + 1 ELSE told[t]]
        /\ excused' = excused \cup (taken[p] \ fit)
  BY DEF Tells
<1>2. UNCHANGED <<box, old, mute, mishaps, placed>>
  BY DEF Tells
<1>3. \A q \in Heard : taken'[q] = IF q = p THEN {} ELSE taken[q]
  BY DEF Tells, TextInv, TextTypeOK
<1>4. Files' = Files
  BY <1>2 DEF Files
<1>5. taken[p] \subseteq placed
  BY DEF TextInv, TextTypeOK
<1>6. told' \in [Texts -> 0..2]
  BY <1>1 DEF TextInv, TextTypeOK
<1>7. \A t \in Texts : /\ t \in fit => told[t] = 0 /\ told'[t] = 1
                       /\ t \notin fit => told'[t] = told[t]
  BY <1>1 DEF TextInv, TextTypeOK, InOnePlace
<1>8. TextTypeOK'
  BY <1>1, <1>2, <1>4, <1>5, <1>6 DEF Tells, TextInv, TextTypeOK
<1>9. InOneHook'
  BY <1>2 DEF TextInv, InOneHook
<1>10. InOnePlace' /\ ToldOnce'
  BY <1>1, <1>2, <1>3, <1>4, <1>5, <1>7 DEF TextInv, TextTypeOK, InOnePlace, ToldOnce
<1>11. NoneGoesUntold'
  <2> SUFFICES ASSUME NEW t \in placed, t \notin Files, t \notin excused', ~(told'[t] > 0)
               PROVE  \E q \in Heard : t \in taken'[q]
    BY <1>2, <1>4 DEF NoneGoesUntold, InHands
  <2>1. t \in Texts /\ t \notin fit /\ ~(told[t] > 0) /\ t \notin excused
    BY <1>1, <1>7 DEF TextInv, TextTypeOK
  <2>2. PICK q \in Heard : t \in taken[q]
    BY <2>1 DEF TextInv, NoneGoesUntold, InHands
  <2>3. q # p
    BY <2>1, <2>2, <1>1
  <2> QED
    BY <2>2, <2>3, <1>3
<1> QED
  BY <1>8, <1>9, <1>10, <1>11 DEF TextInv

\* A hook that took texts is killed.
LEMMA LostKeeps ==
  ASSUME TextInv, NEW p \in Heard, TextLost(p)
  PROVE  TextInv'
<1>1. excused' = excused \cup taken[p] /\ UNCHANGED <<box, old, mute, told, placed>>
  BY DEF TextLost
<1>2. \A q \in Heard : taken'[q] = IF q = p THEN {} ELSE taken[q]
  BY DEF TextLost, TextInv, TextTypeOK
<1>3. Files' = Files
  BY <1>1 DEF Files
<1>4. mishaps' \in 0..MaxMishaps
  BY TextAssumption DEF TextLost, Mishap, TextInv, TextTypeOK
<1>5. TextTypeOK'
  BY <1>1, <1>3, <1>4 DEF TextLost, TextInv, TextTypeOK
<1>6. InOneHook' /\ InOnePlace' /\ ToldOnce'
  BY <1>1, <1>2, <1>3 DEF TextInv, InOneHook, InOnePlace, ToldOnce
<1>7. NoneGoesUntold'
  <2> SUFFICES ASSUME NEW t \in placed, t \notin Files, t \notin excused', ~(told[t] > 0)
               PROVE  \E q \in Heard : t \in taken'[q]
    BY <1>1, <1>3 DEF NoneGoesUntold, InHands
  <2>1. PICK q \in Heard : t \in taken[q]
    BY <1>1 DEF TextInv, NoneGoesUntold, InHands
  <2> QED
    BY <2>1, <1>1, <1>2
<1> QED
  BY <1>5, <1>6, <1>7 DEF TextInv

\* What waits grows old.
LEMMA TwoHoursKeeps ==
  ASSUME TextInv, TwoHours
  PROVE  TextInv'
<1>1. UNCHANGED <<mute, taken, told, placed, excused>> /\ old' = old \cup Files
  BY DEF TwoHours
<1>2. Files' = Files /\ box' \in Boxes \cup {NoBox}
  <2>1. CASE box = NoBox
    BY <2>1, FilesOf, FilesNext DEF TwoHours
  <2>2. CASE box \in Boxes
    <3>1. box' = [box EXCEPT !.quiet = TRUE]
      BY <2>2, TextAssumption DEF TwoHours
    <3>2. box' \in Boxes /\ box'.files = box.files
      BY <3>1, <2>2 DEF Boxes
    <3> QED
      BY <3>2, <2>2, FilesOf, FilesNext
  <2> QED
    BY <2>1, <2>2 DEF TextInv, TextTypeOK
<1>3. mishaps' \in 0..MaxMishaps
  BY TextAssumption DEF TwoHours, Mishap, TextInv, TextTypeOK
<1> QED
  BY <1>1, <1>2, <1>3
     DEF TextInv, TextTypeOK, InOneHook, InOnePlace, ToldOnce, NoneGoesUntold, InHands

\* Every step keeps the invariant.
LEMMA TextStep == TextInv /\ [TextNext]_textVars => TextInv'
<1> SUFFICES ASSUME TextInv, [TextNext]_textVars PROVE TextInv'
  OBVIOUS
<1>1. CASE UNCHANGED textVars
  <2>1. Files' = Files
    BY <1>1 DEF textVars, Files
  <2> QED
    BY <1>1, <2>1 DEF textVars, TextInv, TextTypeOK, InOneHook, InOnePlace,
                      ToldOnce, NoneGoesUntold, InHands
<1>2. CASE \E m \in Mute : \/ \E t \in Texts : Defers(m, t)
                          \/ Sweeps(m) \/ MakesBox(m) \/ Replaces(m)
                          \/ WritesText(m) \/ RenamesText(m) \/ KillMute(m)
  BY <1>2, DefersKeeps, SweepsKeeps, MakesBoxKeeps, ReplacesKeeps, WritesKeeps,
     RenamesKeeps, KillMuteKeeps
<1>3. CASE \E p \in Heard : TakesBox(p) \/ NothingWaits(p) \/ Tells(p) \/ TextLost(p)
  BY <1>1, <1>3, TakesKeeps, TellsKeeps, LostKeeps DEF NothingWaits
<1>4. CASE TwoHours
  BY <1>4, TwoHoursKeeps
<1> QED
  BY <1>1, <1>2, <1>3, <1>4 DEF TextNext

\* So it holds always.
LEMMA TextAlways == TextSpec => []TextInv
BY TextStart, TextStep, PTL DEF TextSpec

\* The state of deferText, sweepDeferred and takeDeferred keeps its types; what
\* hooks have taken had been put in place whole.
THEOREM DeferringTyped == TextSpec => []TextTypeOK
<1>1. TextInv => TextTypeOK
  BY DEF TextInv
<1> QED
  BY <1>1, TextAlways, PTL

\* takeDeferred's rename gives what waits to one hook: no text is told twice,
\* whatever the hooks, the texts and the mishaps.
THEOREM TakenByOne == TextSpec => []ToldOnce
<1>1. TextInv => ToldOnce
  BY DEF TextInv
<1> QED
  BY <1>1, TextAlways, PTL

\* No order of deferText, sweepDeferred and takeDeferred loses a text that came
\* into place, but for the reasons NoneGoesUntold names.
THEOREM NoneLost == TextSpec => []NoneGoesUntold
<1>1. TextInv => NoneGoesUntold
  BY DEF TextInv
<1> QED
  BY <1>1, TextAlways, PTL

-----------------------------------------------------------------------------
(* PacketDelivery.                                                          *)

\* Packets have numbers, a hook that stores, checks or hands over one has its
\* number, and one that found a compaction the state it found.
Numbered ==
  /\ packet # NoPacket => packet.number > 0
  /\ \A p \in Hooks :
       /\ hook[p].at \in {"put", "check", "write", "note", "collected"} => hook[p].number > 0
       /\ hook[p].at = "seen" => hook[p].digest > 0

\* A hook that catches up holds the lock it will answer under; one that notes
\* what it wrote to the host has one.
Places ==
  \A p \in Hooks : /\ host = "shows" /\ hook[p].at \in Compacting => seenLock = p
                   /\ hook[p].at = "note" => host # "apart"

\* A failure stands while its row does and no other compaction is under way.
Barred ==
  /\ tardy # {} => failing
  /\ failing => /\ Unavailable \in seenRows
                /\ \A p \in Hooks : hook[p].at \notin Compacting

Has(p, n, ats) == hook[p].at \in ats /\ hook[p].number = n

\* What hooks have read was in the file, or its note was lost.
ReadRows ==
  \A p \in Hooks, n \in Packets :
    Delivered(n) \in hook[p].file => Delivered(n) \in seenRows \/ n \in unnoted

\* A packet that was noted and is on its way to the host, and that it is so in
\* one place: in what one hook caught, or in what waits.
InHand(n) == n \in waiting \/ \E p \in Hooks : n \in answer[p]

OnePlace(n) ==
  \A p \in Hooks : n \in answer[p] => /\ n \notin waiting
                                      /\ \A q \in Hooks \ {p} : n \notin answer[q]

\* Of a packet whose note was not lost: it was handed over once at most; a hook
\* about to write it is the first; one on its way is noted, nobody else's, and
\* was not handed over; what was handed over is noted, or is about to be.
Unlost(n) ==
  /\ handed[n] < 2
  /\ \A p \in Hooks : Has(p, n, {"write", "collected"}) => handed[n] = 0
  /\ InHand(n) => /\ handed[n] = 0 /\ Delivered(n) \in seenRows
                  /\ \A p \in Hooks : ~Has(p, n, {"write", "collected", "note"})
  /\ OnePlace(n)
  /\ handed[n] > 0 => Delivered(n) \in seenRows \/ \E p \in Hooks : Has(p, n, {"note"})

Noted == ReadRows /\ \A n \in Packets \ unnoted : Unlost(n)

PacketInv == PacketTypeOK /\ Numbered /\ Places /\ Barred /\ FailureHoldsOld /\ Noted
-----------------------------------------------------------------------------
\* Hook p is this in the next state, and no other hook changes.
Becomes(p, at, file, number, digest) ==
  /\ hook' \in [Hooks -> HookOf(captures')]
  /\ hook'[p].at = at /\ hook'[p].file = file
  /\ hook'[p].number = number /\ hook'[p].digest = digest
  /\ \A q \in Hooks \ {p} : hook'[q] = hook[q]

AllPlaces == {"idle"} \cup Compacting \cup Answering \cup Saying \cup Rotating

\* The rows of two packets, and the mark of a failure, are not taken for each other.
LEMMA RowNames ==
  /\ \A n \in Packets : Delivered(n) \in Rows /\ Delivered(n) # Unavailable /\ Seen(n) \in Rows
  /\ \A m, n \in Packets : Delivered(m) = Delivered(n) => m = n
  /\ \A m, n \in Packets : Delivered(m) # Seen(n) /\ Seen(m) # Unavailable
  /\ Unavailable \in Rows
BY DEF Rows, Delivered, Seen, Unavailable

\* A hook that is set to what a hook may be.
LEMMA SetsHook ==
  ASSUME PacketTypeOK, captures' \in captures..MaxCaptures,
         NEW p \in Hooks, NEW h \in HookOf(captures'), hook' = [hook EXCEPT ![p] = h]
  PROVE  Becomes(p, h.at, h.file, h.number, h.digest)
<1>1. \A q \in Hooks : hook[q] \in HookOf(captures')
  BY PacketAssumption DEF PacketTypeOK, HookOf
<1>2. hook \in [Hooks -> HookOf(captures')]
  BY <1>1 DEF PacketTypeOK
<1>3. hook' \in [Hooks -> HookOf(captures')] /\ hook'[p] = h
      /\ \A q \in Hooks \ {p} : hook'[q] = hook[q]
  BY <1>2
<1> QED
  BY <1>3 DEF Becomes

\* A step that captures nothing.
LEMMA NoCapture ==
  ASSUME PacketTypeOK, captures' = captures
  PROVE  captures' \in captures..MaxCaptures
BY PacketAssumption DEF PacketTypeOK

\* What a hook is, field by field.
LEMMA HookFields ==
  ASSUME PacketTypeOK, NEW p \in Hooks
  PROVE  /\ hook[p] \in HookOf(captures)
         /\ hook[p].at \in AllPlaces /\ hook[p].file \in SUBSET Rows
         /\ hook[p].number \in 0..captures /\ hook[p].digest \in 0..MaxCaptures
BY DEF PacketTypeOK, HookOf, AllPlaces

\* What is left of a hook that goes on.
LEMMA Went ==
  ASSUME PacketTypeOK, captures' = captures, NEW p \in Hooks, NEW at \in AllPlaces,
         GoesTo(p, at)
  PROVE  Becomes(p, at, hook[p].file, hook[p].number, hook[p].digest)
<1> DEFINE h == [hook[p] EXCEPT !.at = at]
<1>1. h \in HookOf(captures')
  BY HookFields DEF HookOf, AllPlaces
<1>2. h.at = at /\ h.file = hook[p].file /\ h.number = hook[p].number
      /\ h.digest = hook[p].digest
  BY HookFields DEF HookOf
<1>3. hook' = [hook EXCEPT ![p] = h]
  BY DEF GoesTo
<1> HIDE DEF h
<1>4. Becomes(p, h.at, h.file, h.number, h.digest)
  BY <1>1, <1>3, SetsHook, NoCapture
<1> QED
  BY <1>2, <1>4

\* What is left of one that ends: the lock, if it had it, is free.
LEMMA Ended ==
  ASSUME PacketTypeOK, captures' = captures, NEW p \in Hooks, Ends(p)
  PROVE  /\ Becomes(p, "idle", {}, 0, 0)
         /\ seenLock' = IF seenLock = p THEN NoHook ELSE seenLock
<1>1. Resting \in HookOf(captures')
  BY PacketAssumption DEF Resting, HookOf, PacketTypeOK
<1>2. Becomes(p, Resting.at, Resting.file, Resting.number, Resting.digest)
  BY <1>1, SetsHook, NoCapture DEF Ends
<1> QED
  BY <1>2 DEF Ends, Resting

\* What is left of one whose capture failed.
LEMMA Failed ==
  ASSUME PacketTypeOK, captures' = captures, NEW p \in Hooks, Fails(p)
  PROVE  Becomes(p, "bar", {}, 0, 0)
<1> DEFINE h == [Resting EXCEPT !.at = "bar"]
<1>1. h \in HookOf(captures') /\ h.at = "bar" /\ h.file = {} /\ h.number = 0 /\ h.digest = 0
  BY PacketAssumption DEF Resting, HookOf, PacketTypeOK, Compacting
<1>2. hook' = [hook EXCEPT ![p] = h]
  BY DEF Fails
<1> HIDE DEF h
<1>3. Becomes(p, h.at, h.file, h.number, h.digest)
  BY <1>1, <1>2, SetsHook, NoCapture
<1> QED
  BY <1>1, <1>3

\* The end of a capture: of the hook, or of its catching up.
LEMMA CapturedEnds ==
  ASSUME PacketTypeOK, captures' = captures, NEW p \in Hooks, Captured(p)
  PROVE  IF host \in {"tells", "defers"}
         THEN /\ Becomes(p, "idle", {}, 0, 0)
              /\ seenLock' = IF seenLock = p THEN NoHook ELSE seenLock
         ELSE Becomes(p, "look", {}, 0, 0) /\ seenLock' = seenLock
<1> DEFINE h == [Resting EXCEPT !.at = "look"]
<1>1. h \in HookOf(captures') /\ h.at = "look" /\ h.file = {} /\ h.number = 0 /\ h.digest = 0
  BY PacketAssumption DEF Resting, HookOf, PacketTypeOK, Answering
<1>2. CASE host \notin {"tells", "defers"}
  <2>1. hook' = [hook EXCEPT ![p] = h] /\ seenLock' = seenLock
    BY <1>2 DEF Captured
  <2> HIDE DEF h
  <2>2. Becomes(p, h.at, h.file, h.number, h.digest)
    BY <1>1, <2>1, SetsHook, NoCapture
  <2> QED
    BY <1>1, <1>2, <2>1, <2>2
<1>3. CASE host \in {"tells", "defers"}
  BY <1>3, Ended DEF Captured
<1> QED
  BY <1>2, <1>3
-----------------------------------------------------------------------------
\* What is on its way stays so or goes, to the host in one copy.
Moved(n) ==
  OnePlace(n) => /\ OnePlace(n)'
                 /\ InHand(n)' => InHand(n) /\ handed'[n] = handed[n]
                 /\ \/ handed'[n] = handed[n]
                    \/ InHand(n) /\ handed[n] \in Nat /\ handed'[n] \in Nat
                       /\ handed'[n] = handed[n] + 1

\* The hands of hook p, which goes to this place, and what waits.
Hands(p, at) ==
  /\ handed' \in [Packets -> 0..2]
  /\ answer' \in [Hooks -> SUBSET Packets] /\ waiting' \subseteq Packets
  /\ \A q \in Hooks \ {p} : answer'[q] = answer[q]
  /\ answer'[p] # {} => at \in Saying
  /\ \A n \in Packets : Moved(n)

\* A step of one hook that does not begin to write or to note a packet: what
\* was noted stays, or its note is lost and said to be.
Quiet(p, at, file, number, digest) ==
  /\ Becomes(p, at, file, number, digest) /\ Hands(p, at)
  /\ UNCHANGED host
  /\ captures' \in captures..MaxCaptures /\ troubles' \in 0..MaxTroubles[host]
  /\ packet' \in [number : 0..captures', digest : 0..MaxCaptures]
  /\ packet' # NoPacket => packet'.number > 0
  /\ seenRows' \subseteq Rows /\ consumed' \subseteq Packets
  /\ unnoted \subseteq unnoted' /\ unnoted' \subseteq Packets
  /\ \A n \in Packets \ unnoted' : Delivered(n) \in seenRows => Delivered(n) \in seenRows'
  /\ at \notin {"write", "collected", "note"}
  /\ at \in {"put", "check"} => number > 0
  /\ at = "seen" => digest > 0
  /\ file \subseteq hook[p].file \cup seenRows
  /\ hook[p].at = "note" => hook[p].number \in unnoted'

\* How the lock goes with what the hook does.
Locks(p, at) ==
  /\ seenLock' \in Hooks \cup {NoHook}
  /\ \A q \in Hooks \ {p} : (seenLock = q) <=> (seenLock' = q)
  /\ at \in Answering /\ host # "apart" => seenLock' = p
  /\ at \in {"idle"} \cup Saying \cup Rotating => seenLock' # p
  /\ host = "shows" /\ at \in Compacting => seenLock' = p

Verdict == Barred /\ FailureHoldsOld /\ tardy \subseteq Hooks /\ failing \in BOOLEAN

\* Where nothing is on its way, and nothing begins to be, the hands stay.
LEMMA HandsStay ==
  ASSUME PacketInv, NEW p \in Hooks, NEW at, UNCHANGED <<handed, answer, waiting>>,
         hook[p].at \notin Saying
  PROVE  Hands(p, at)
<1>1. answer[p] = {}
  BY DEF PacketInv, PacketTypeOK
<1>2. \A n \in Packets : (InHand(n)' <=> InHand(n)) /\ (OnePlace(n)' <=> OnePlace(n))
  BY DEF InHand, OnePlace
<1>3. \A n \in Packets : Moved(n)
  BY <1>2 DEF Moved
<1> QED
  BY <1>1, <1>3 DEF Hands, PacketInv, PacketTypeOK

\* A step that neither writes nor notes keeps what is noted.
LEMMA QuietNoted ==
  ASSUME PacketInv, NEW p \in Hooks, NEW at, NEW file, NEW number, NEW digest,
         Quiet(p, at, file, number, digest)
  PROVE  Noted'
<1>1. ReadRows'
  BY DEF Quiet, Becomes, PacketInv, Noted, ReadRows
<1>2. ASSUME NEW n \in Packets \ unnoted' PROVE Unlost(n)'
  <2>1. Unlost(n) /\ n \notin unnoted
    BY <1>2 DEF Quiet, PacketInv, Noted
  <2>2. \A q \in Hooks, ats \in SUBSET {"write", "collected", "note"} :
          Has(q, n, ats)' => Has(q, n, ats) /\ q # p
    BY DEF Quiet, Becomes, Has
  <2>3. ~Has(p, n, {"note"})
    BY <1>2 DEF Quiet, Has
  <2>4. \A q \in Hooks \ {p} : Has(q, n, {"note"}) => Has(q, n, {"note"})'
    BY DEF Quiet, Becomes, Has
  <2>5. Delivered(n) \in seenRows => Delivered(n) \in seenRows'
    BY <1>2 DEF Quiet
  <2>6. Moved(n) /\ OnePlace(n)
    BY <1>2, <2>1 DEF Quiet, Hands, Unlost
  <2>7. OnePlace(n)' /\ (InHand(n)' => InHand(n) /\ handed'[n] = handed[n])
    BY <2>6 DEF Moved
  <2>8. \/ handed'[n] = handed[n]
        \/ InHand(n) /\ handed[n] = 0 /\ handed'[n] = 1
    BY <2>1, <2>6 DEF Moved, Unlost
  <2>9. \A q \in Hooks : Has(q, n, {"write", "collected"}) => Has(q, n, {"write", "collected", "note"})
    BY DEF Has
  <2>10. handed'[n] < 2
    BY <2>1, <2>8 DEF Unlost
  <2>11. \A q \in Hooks : Has(q, n, {"write", "collected"})' => handed'[n] = 0
    BY <2>1, <2>2, <2>8, <2>9 DEF Unlost
  <2>12. InHand(n)' => /\ handed'[n] = 0 /\ Delivered(n) \in seenRows'
                       /\ \A q \in Hooks : ~Has(q, n, {"write", "collected", "note"})'
    BY <2>1, <2>2, <2>5, <2>7 DEF Unlost
  <2>13. handed'[n] > 0 => \/ Delivered(n) \in seenRows'
                           \/ \E q \in Hooks : Has(q, n, {"note"})'
    BY <2>1, <2>3, <2>4, <2>5, <2>8 DEF Unlost
  <2> QED
    BY <2>7, <2>10, <2>11, <2>12, <2>13 DEF Unlost
<1> QED
  BY <1>1, <1>2 DEF Noted

\* The lock and the type, of any step of one hook.
LEMMA StepTyped ==
  ASSUME PacketInv, NEW p \in Hooks, NEW at, NEW file, NEW number, NEW digest,
         Becomes(p, at, file, number, digest), Locks(p, at), Verdict',
         UNCHANGED host,
         captures' \in captures..MaxCaptures, troubles' \in 0..MaxTroubles[host],
         packet' \in [number : 0..captures', digest : 0..MaxCaptures],
         packet' # NoPacket => packet'.number > 0,
         seenRows' \subseteq Rows, consumed' \subseteq Packets, unnoted' \subseteq Packets,
         handed' \in [Packets -> 0..2],
         answer' \in [Hooks -> SUBSET Packets], waiting' \subseteq Packets,
         \A q \in Hooks \ {p} : answer'[q] = answer[q], answer'[p] # {} => at \in Saying,
         at = "note" => host # "apart",
         at \in {"put", "check", "write", "note", "collected"} => number > 0,
         at = "seen" => digest > 0
  PROVE  PacketTypeOK' /\ Numbered' /\ Places' /\ Barred' /\ FailureHoldsOld'
<1>1. PacketTypeOK'
  <2>1. captures' \in 0..MaxCaptures
    BY PacketAssumption DEF PacketInv, PacketTypeOK
  <2>2. \A q \in Hooks : /\ hook'[q].at \in Answering /\ host' # "apart" => seenLock' = q
                         /\ hook'[q].at \in {"idle"} \cup Saying \cup Rotating => seenLock' # q
                         /\ answer'[q] # {} => hook'[q].at \in Saying
    BY DEF Becomes, Locks, PacketInv, PacketTypeOK
  <2> QED
    BY <2>1, <2>2 DEF Becomes, Locks, Verdict, PacketInv, PacketTypeOK
<1>2. Numbered'
  BY DEF Becomes, PacketInv, Numbered, NoPacket
<1>3. Places'
  BY DEF Becomes, Locks, PacketInv, Places
<1> QED
  BY <1>1, <1>2, <1>3 DEF Verdict

\* Such a step keeps the invariant where it keeps the lock in order and the verdict.
LEMMA QuietKeeps ==
  ASSUME PacketInv, NEW p \in Hooks, NEW at, NEW file, NEW number, NEW digest,
         Quiet(p, at, file, number, digest), Locks(p, at), Verdict'
  PROVE  PacketInv'
<1>1. Noted'
  BY QuietNoted
<1>2. PacketTypeOK' /\ Numbered' /\ Places' /\ Barred' /\ FailureHoldsOld'
  BY StepTyped DEF Quiet, Hands
<1> QED
  BY <1>1, <1>2 DEF PacketInv

\* The verdict stays where its row does and no hook begins to compact, or to
\* hand over.
LEMMA VerdictStays ==
  ASSUME PacketInv, NEW p \in Hooks, NEW at, NEW file, NEW number, NEW digest,
         Becomes(p, at, file, number, digest), UNCHANGED <<failing, tardy>>,
         Unavailable \in seenRows => Unavailable \in seenRows',
         at \in Compacting => hook[p].at \in Compacting,
         at \in {"write", "collected", "note", "answer"} =>
           hook[p].at \in {"write", "collected", "note", "answer"},
         at = "print" => hook[p].at \in {"write", "collected", "note", "answer"} \/ number = 0
  PROVE  Verdict'
BY DEF Becomes, PacketInv, PacketTypeOK, Barred, FailureHoldsOld, Verdict

\* A new compaction ends what an earlier failure said.
LEMMA VerdictOver ==
  ASSUME NewCompaction
  PROVE  Verdict'
BY DEF NewCompaction, Verdict, Barred, FailureHoldsOld

\* The lock, of a hook that keeps it, or ends.
LEMMA LockStays ==
  ASSUME PacketInv, NEW p \in Hooks, NEW at, UNCHANGED seenLock,
         at \in Answering /\ host # "apart" => hook[p].at \in Answering \/ seenLock = p,
         at \in {"idle"} \cup Saying \cup Rotating =>
           hook[p].at \in {"idle"} \cup Saying \cup Rotating,
         host = "shows" /\ at \in Compacting => hook[p].at \in Answering \cup Compacting
  PROVE  Locks(p, at)
BY DEF PacketInv, PacketTypeOK, Places, Locks

\* A hook that ends has no lock.
LEMMA LockEnds ==
  ASSUME PacketInv, NEW p \in Hooks,
         seenLock' = IF seenLock = p THEN NoHook ELSE seenLock
  PROVE  Locks(p, "idle")
BY PacketAssumption DEF PacketInv, PacketTypeOK, Locks, Answering, Compacting, Saying
-----------------------------------------------------------------------------
\* A host tells that it will compact.
LEMMA PrecompactKeeps ==
  ASSUME PacketInv, NEW p \in Hooks, Precompact(p)
  PROVE  PacketInv'
<1>1. Becomes(p, "forget", hook[p].file, hook[p].number, hook[p].digest)
  BY Went DEF Precompact, PacketInv, AllPlaces, Compacting
<1>2. Verdict'
  BY VerdictOver DEF Precompact
<1>3. Locks(p, "forget")
  BY LockStays DEF Precompact, Compacting, Answering, Saying, Rotating
<1>0. Hands(p, "forget")
  BY HandsStay DEF Precompact, IsAt, Saying
<1>4. Quiet(p, "forget", hook[p].file, hook[p].number, hook[p].digest)
  BY <1>0, <1>1, NoCapture DEF Precompact, IsAt, Quiet, PacketInv, PacketTypeOK, Numbered
<1> QED
  BY <1>2, <1>3, <1>4, QuietKeeps

\* A hook that can answer starts.
LEMMA SpeaksKeeps ==
  ASSUME PacketInv, NEW p \in Hooks, Speaks(p)
  PROVE  PacketInv'
<1>1. Becomes(p, "begun", hook[p].file, hook[p].number, hook[p].digest)
  BY Went DEF Speaks, PacketInv, AllPlaces, Answering
<1>2. Verdict'
  BY <1>1 DEF Speaks, IsAt, Becomes, PacketInv, PacketTypeOK, Barred, FailureHoldsOld,
              Verdict, Compacting
<1>3. Locks(p, "begun")
  BY PacketAssumption
     DEF Speaks, PacketInv, PacketTypeOK, Locks, Compacting, Answering, Saying, Rotating
<1>0. Hands(p, "begun")
  BY HandsStay DEF Speaks, IsAt, Saying
<1>4. Quiet(p, "begun", hook[p].file, hook[p].number, hook[p].digest)
  BY <1>0, <1>1, NoCapture DEF Speaks, IsAt, Quiet, PacketInv, PacketTypeOK, Numbered
<1> QED
  BY <1>2, <1>3, <1>4, QuietKeeps

\* A hook sees a compaction in the transcript.
LEMMA CatchUpKeeps ==
  ASSUME PacketInv, NEW p \in Hooks, CatchUp(p)
  PROVE  PacketInv'
<1>1. PICK t \in States : hook' = [hook EXCEPT ![p].at = "seen", ![p].digest = t]
  BY DEF CatchUp
<1> DEFINE h == [hook[p] EXCEPT !.at = "seen", !.digest = t]
<1>2. t \in 1..MaxCaptures
  BY PacketAssumption DEF CatchUp, States, PacketInv, PacketTypeOK
<1>3. h \in HookOf(captures') /\ h.at = "seen" /\ h.file = hook[p].file
      /\ h.number = hook[p].number /\ h.digest = t
  <2>1. t \in 0..MaxCaptures
    BY <1>2
  <2> QED
    BY <2>1, HookFields DEF CatchUp, PacketInv, HookOf, Compacting
<1>4. hook' = [hook EXCEPT ![p] = h]
  BY <1>1
<1> HIDE DEF h
<1>5. Becomes(p, "seen", hook[p].file, hook[p].number, t)
  <2>1. Becomes(p, h.at, h.file, h.number, h.digest)
    BY <1>3, <1>4, SetsHook, NoCapture DEF CatchUp, PacketInv
  <2> QED
    BY <1>3, <2>1
<1>6. Verdict'
  BY VerdictOver DEF CatchUp
<1>7. Locks(p, "seen")
  BY LockStays DEF CatchUp, IsAt, Compacting, Answering, Saying, Rotating
<1>0. Hands(p, "seen")
  BY HandsStay DEF CatchUp, IsAt, Saying
<1>8. Quiet(p, "seen", hook[p].file, hook[p].number, t)
  BY <1>0, <1>2, <1>5, NoCapture DEF CatchUp, IsAt, Quiet, PacketInv, PacketTypeOK, Numbered
<1> QED
  BY <1>6, <1>7, <1>8, QuietKeeps

\* It notes that it has seen it.
LEMMA RememberSeenKeeps ==
  ASSUME PacketInv, NEW p \in Hooks, RememberSeen(p)
  PROVE  PacketInv'
<1>1. Becomes(p, "forget", hook[p].file, hook[p].number, hook[p].digest)
  BY Went DEF RememberSeen, PacketInv, AllPlaces, Compacting
<1>2. Verdict'
  BY <1>1, VerdictStays DEF RememberSeen, IsAt, Compacting
<1>3. Locks(p, "forget")
  BY LockStays DEF RememberSeen, IsAt, Compacting, Answering, Saying, Rotating
<1>4. Seen(hook[p].digest) \in Rows
  BY RowNames DEF RememberSeen, IsAt, PacketInv, PacketTypeOK, HookOf, Numbered, Packets
<1>0. Hands(p, "forget")
  BY HandsStay DEF RememberSeen, IsAt, Saying
<1>5. Quiet(p, "forget", hook[p].file, hook[p].number, hook[p].digest)
  BY <1>0, <1>1, <1>4, NoCapture
     DEF RememberSeen, IsAt, Quiet, PacketInv, PacketTypeOK, Numbered
<1> QED
  BY <1>2, <1>3, <1>5, QuietKeeps

\* What a hook reads of the file is in it.
LEMMA Reads ==
  ASSUME PacketInv, NEW p \in Hooks, NEW at \in {"forgetting", "clearing", "rotating"},
         hook' = [hook EXCEPT ![p].at = at, ![p].file = seenRows],
         hook[p].at \in IF at = "rotating" THEN {"idle"} ELSE {"forget", "clear"},
         troubles' \in 0..MaxTroubles[host],
         UNCHANGED <<host, seenRows, packet, seenLock, answer, waiting, captures, handed,
                     consumed, unnoted, failing, tardy>>
  PROVE  PacketInv'
<1> DEFINE h == [hook[p] EXCEPT !.at = at, !.file = seenRows]
<1>1. h \in HookOf(captures') /\ h.at = at /\ h.file = seenRows
      /\ h.number = hook[p].number /\ h.digest = hook[p].digest
  BY HookFields DEF PacketInv, PacketTypeOK, HookOf, Compacting, Rotating
<1>2. hook' = [hook EXCEPT ![p] = h]
  OBVIOUS
<1> HIDE DEF h
<1>3. Becomes(p, at, seenRows, hook[p].number, hook[p].digest)
  <2>1. Becomes(p, h.at, h.file, h.number, h.digest)
    BY <1>1, <1>2, SetsHook, NoCapture DEF PacketInv
  <2> QED
    BY <1>1, <2>1
<1>4. Verdict'
  BY <1>3, VerdictStays DEF Compacting
<1>5. Locks(p, at)
  BY LockStays DEF Compacting, Answering, Saying, Rotating
<1>0. Hands(p, at)
  BY HandsStay DEF Saying
<1>6. Quiet(p, at, seenRows, hook[p].number, hook[p].digest)
  BY <1>0, <1>3, NoCapture DEF Quiet, PacketInv, PacketTypeOK, Numbered
<1> QED
  BY <1>4, <1>5, <1>6, QuietKeeps

\* A rewrite drops no row that was read but the one a new compaction clears,
\* and says what it lost.
LEMMA RewriteNotes ==
  ASSUME PacketInv, NEW p \in Hooks, NEW rows \in {hook[p].file, hook[p].file \ {Unavailable}},
         Rewrites(p, rows)
  PROVE  /\ seenRows' \subseteq Rows
         /\ unnoted \subseteq unnoted' /\ unnoted' \subseteq Packets
         /\ \A n \in Packets \ unnoted' : Delivered(n) \in seenRows => Delivered(n) \in seenRows'
BY RowNames DEF Rewrites, PacketInv, PacketTypeOK, HookOf

\* A rewrite of the file keeps the verdict on a failure.
LEMMA RewriteVerdict ==
  ASSUME PacketInv, NEW p \in Hooks, NEW at, NEW file, NEW number, NEW digest,
         Becomes(p, at, file, number, digest),
         \/ Rewrites(p, hook[p].file)
         \/ Rewrites(p, hook[p].file \ {Unavailable}) /\ hook[p].at \in Compacting,
         at \in Compacting => hook[p].at \in Compacting,
         at \notin {"write", "collected", "note"} \cup Saying
  PROVE  Verdict'
<1>1. failing' \in BOOLEAN /\ tardy' \subseteq Hooks
  BY DEF Rewrites, PacketInv, PacketTypeOK
<1>2. tardy' # {} => failing'
  BY DEF Rewrites, PacketInv, Barred
<1>3. failing' => /\ failing /\ Unavailable \in seenRows'
  BY DEF Rewrites, PacketInv, Barred
<1>4. failing' => \A q \in Hooks : hook'[q].at \notin Compacting
  BY <1>3 DEF Becomes, PacketInv, Barred
<1>5. FailureHoldsOld'
  BY DEF Becomes, Rewrites, PacketInv, PacketTypeOK, FailureHoldsOld, Saying
<1> QED
  BY <1>1, <1>2, <1>3, <1>4, <1>5 DEF Verdict, Barred

\* A rewrite of the file, as it was read, keeps the invariant.
LEMMA RewriteKeeps ==
  ASSUME PacketInv, NEW p \in Hooks, NEW at \in {"clear", "capture"},
         NEW rows \in {hook[p].file, hook[p].file \ {Unavailable}},
         Rewrites(p, rows), hook[p].at \in {"forgetting", "clearing"},
         hook' = [hook EXCEPT ![p].at = at, ![p].file = {}],
         UNCHANGED <<host, packet, seenLock, answer, waiting, captures, troubles, handed,
                     consumed>>
  PROVE  PacketInv'
<1> DEFINE h == [hook[p] EXCEPT !.at = at, !.file = {}]
<1>1. h \in HookOf(captures') /\ h.at = at /\ h.file = {}
      /\ h.number = hook[p].number /\ h.digest = hook[p].digest
  BY HookFields DEF PacketInv, PacketTypeOK, HookOf, Compacting
<1>2. hook' = [hook EXCEPT ![p] = h]
  OBVIOUS
<1> HIDE DEF h
<1>3. Becomes(p, at, {}, hook[p].number, hook[p].digest)
  <2>1. Becomes(p, h.at, h.file, h.number, h.digest)
    BY <1>1, <1>2, SetsHook, NoCapture DEF PacketInv
  <2> QED
    BY <1>1, <2>1
<1>4. Verdict'
  BY <1>3, RewriteVerdict DEF Compacting, Saying
<1>5. Locks(p, at)
  BY LockStays DEF Compacting, Answering, Saying, Rotating
<1>0. Hands(p, at)
  BY HandsStay DEF Saying
<1>6. Quiet(p, at, {}, hook[p].number, hook[p].digest)
  BY <1>0, <1>3, NoCapture, RewriteNotes DEF Quiet, PacketInv, PacketTypeOK, Numbered
<1> QED
  BY <1>4, <1>5, <1>6, QuietKeeps

\* The file is cut to its newest rows.
LEMMA RotatesKeeps ==
  ASSUME PacketInv, NEW p \in Hooks, Rotates(p)
  PROVE  PacketInv'
<1>1. Becomes(p, "idle", {}, 0, 0) /\ Locks(p, "idle")
  BY Ended, LockEnds DEF Rotates, PacketInv
<1>2. Verdict'
  BY <1>1, RewriteVerdict DEF Rotates, Compacting, Saying
<1>0. Hands(p, "idle")
  BY HandsStay DEF Rotates, IsAt, Saying
<1>3. Quiet(p, "idle", {}, 0, 0)
  BY <1>0, <1>1, NoCapture, RewriteNotes DEF Rotates, IsAt, Quiet, PacketInv, PacketTypeOK, Numbered
<1> QED
  BY <1>1, <1>2, <1>3, QuietKeeps

\* A hook captures a packet.
LEMMA CaptureKeeps ==
  ASSUME PacketInv, NEW p \in Hooks, Capture(p)
  PROVE  PacketInv'
<1>1. PICK t \in IF hook[p].digest = 0 THEN States ELSE {hook[p].digest} :
        hook' = [hook EXCEPT ![p].at = "put", ![p].number = captures + 1, ![p].digest = t]
  BY DEF Capture
<1> DEFINE h == [hook[p] EXCEPT !.at = "put", !.number = captures + 1, !.digest = t]
<1>2. captures' = captures + 1 /\ captures' \in captures..MaxCaptures /\ captures \in Nat
  BY PacketAssumption DEF Capture, PacketInv, PacketTypeOK
<1>3. t \in 0..MaxCaptures
  <2>1. hook[p].digest \in 0..MaxCaptures
    BY HookFields DEF PacketInv
  <2>2. t \in 1..(captures + 1) \/ t = hook[p].digest
    BY DEF States
  <2>3. captures + 1 \in 0..MaxCaptures /\ MaxCaptures \in Nat
    BY <1>2, PacketAssumption
  <2> QED
    BY <1>2, <2>1, <2>2, <2>3
<1>4. h \in HookOf(captures') /\ h.at = "put" /\ h.file = hook[p].file
      /\ h.number = captures + 1 /\ h.digest = t
  <2>1. captures + 1 \in 0..captures'
    BY <1>2
  <2> QED
    BY <1>3, <2>1, HookFields DEF PacketInv, HookOf, Compacting
<1>5. hook' = [hook EXCEPT ![p] = h]
  BY <1>1
<1> HIDE DEF h
<1>6. Becomes(p, "put", hook[p].file, captures + 1, t)
  <2>1. Becomes(p, h.at, h.file, h.number, h.digest)
    BY <1>2, <1>4, <1>5, SetsHook DEF PacketInv
  <2> QED
    BY <1>4, <2>1
<1>7. Verdict'
  BY <1>6, VerdictStays DEF Capture, IsAt, Compacting
<1>8. Locks(p, "put")
  BY LockStays DEF Capture, IsAt, Compacting, Answering, Saying, Rotating
<1>9. packet' \in [number : 0..captures', digest : 0..MaxCaptures]
  BY <1>2 DEF Capture, PacketInv, PacketTypeOK
<1>0. Hands(p, "put")
  BY HandsStay DEF Capture, IsAt, Saying
<1>10. Quiet(p, "put", hook[p].file, captures + 1, t)
  BY <1>0, <1>2, <1>6, <1>9 DEF Capture, IsAt, Quiet, PacketInv, PacketTypeOK, Numbered
<1> QED
  BY <1>7, <1>8, <1>10, QuietKeeps

\* It cannot.
LEMMA FailsKeeps ==
  ASSUME PacketInv, NEW p \in Hooks, CannotRead(p) \/ CannotPut(p)
  PROVE  PacketInv'
<1>1. Becomes(p, "bar", {}, 0, 0)
  BY Failed DEF CannotRead, CannotPut, PacketInv
<1>2. Verdict'
  BY <1>1, VerdictStays DEF CannotRead, CannotPut, IsAt, Compacting
<1>3. Locks(p, "bar")
  BY LockStays DEF CannotRead, CannotPut, IsAt, Compacting, Answering, Saying, Rotating
<1>0. Hands(p, "bar")
  BY HandsStay DEF CannotRead, CannotPut, IsAt, Saying
<1>4. Quiet(p, "bar", {}, 0, 0)
  BY <1>0, <1>1, NoCapture
     DEF CannotRead, CannotPut, IsAt, Quiet, PacketInv, PacketTypeOK, Numbered
<1> QED
  BY <1>2, <1>3, <1>4, QuietKeeps

\* Where a hook is after a capture: ended, or about to answer.
LEMMA CapturedAt ==
  ASSUME PacketInv, captures' = captures, NEW p \in Hooks, Captured(p),
         hook[p].at \in Compacting, UNCHANGED host
  PROVE  \E at \in {"idle", "look"} : Becomes(p, at, {}, 0, 0) /\ Locks(p, at)
<1>1. CASE host \in {"tells", "defers"}
  BY <1>1, CapturedEnds, LockEnds DEF PacketInv
<1>2. CASE host \notin {"tells", "defers"}
  <2>1. Becomes(p, "look", {}, 0, 0) /\ seenLock' = seenLock
    BY <1>2, CapturedEnds DEF PacketInv
  <2>2. host # "apart" => seenLock = p
    BY <1>2, PacketAssumption DEF PacketInv, PacketTypeOK, Places
  <2>3. Locks(p, "look")
    BY <2>1, <2>2, LockStays DEF Compacting, Saying, Rotating
  <2> QED
    BY <2>1, <2>3
<1> QED
  BY <1>1, <1>2

\* It stores it.
LEMMA PutKeeps ==
  ASSUME PacketInv, NEW p \in Hooks, Put(p)
  PROVE  PacketInv'
<1>1. PICK at \in {"idle", "look"} : Becomes(p, at, {}, 0, 0) /\ Locks(p, at)
  BY CapturedAt DEF Put, IsAt, Compacting
<1>2. Verdict'
  BY <1>1, VerdictStays DEF Put, Compacting
<1>3. /\ packet' \in [number : 0..captures', digest : 0..MaxCaptures]
      /\ packet' # NoPacket => packet'.number > 0
  BY HookFields DEF Put, IsAt, PacketInv, PacketTypeOK, HookOf, Numbered
<1>0. Hands(p, at)
  BY HandsStay DEF Put, IsAt, Saying
<1>4. Quiet(p, at, {}, 0, 0)
  BY <1>0, <1>1, <1>3, NoCapture DEF Put, IsAt, Quiet, PacketInv, PacketTypeOK
<1> QED
  BY <1>1, <1>2, <1>4, QuietKeeps

\* The row that blocks what is stored stands for the failure, unless another
\* compaction is under way.
LEMMA BlockKeeps ==
  ASSUME PacketInv, NEW p \in Hooks, BlockOldPacket(p)
  PROVE  PacketInv'
<1>1. PICK at \in {"idle", "look"} : Becomes(p, at, {}, 0, 0) /\ Locks(p, at)
  BY CapturedAt DEF BlockOldPacket, IsAt, Compacting
<1>2. Verdict'
  BY <1>1 DEF BlockOldPacket, Becomes, Verdict, Barred, FailureHoldsOld, Compacting
<1>0. Hands(p, at)
  BY HandsStay DEF BlockOldPacket, IsAt, Saying
<1>3. Quiet(p, at, {}, 0, 0)
  BY <1>0, <1>1, NoCapture, RowNames
     DEF BlockOldPacket, IsAt, Quiet, PacketInv, PacketTypeOK, Numbered
<1> QED
  BY <1>1, <1>2, <1>3, QuietKeeps

\* A hook that ends before it hands anything over, or after it could not.
LEMMA EndsQuietly ==
  ASSUME PacketInv, NEW p \in Hooks, Ends(p),
         UNCHANGED <<host, seenRows, packet, answer, waiting, captures, handed, consumed,
                     unnoted, failing, tardy>>,
         troubles' \in 0..MaxTroubles[host],
         hook[p].at \notin {"note"} \cup Saying
  PROVE  PacketInv'
<1>1. Becomes(p, "idle", {}, 0, 0) /\ Locks(p, "idle")
  BY Ended, LockEnds DEF PacketInv
<1>2. Verdict'
  BY <1>1, VerdictStays DEF Compacting
<1>0. Hands(p, "idle")
  BY HandsStay DEF Saying
<1>3. Quiet(p, "idle", {}, 0, 0)
  BY <1>0, <1>1, NoCapture DEF Quiet, PacketInv, PacketTypeOK, Numbered
<1> QED
  BY <1>1, <1>2, <1>3, QuietKeeps

\* A hook looks for a packet to hand over.
LEMMA LookKeeps ==
  ASSUME PacketInv, NEW p \in Hooks, Look(p)
  PROVE  PacketInv'
<1>1. CASE packet = NoPacket
  BY <1>1, EndsQuietly DEF Look, IsAt, Saying, PacketInv, PacketTypeOK
<1>2. CASE packet # NoPacket
  <2> DEFINE h == [hook[p] EXCEPT !.at = "check", !.number = packet.number]
  <2>1. h \in HookOf(captures') /\ h.at = "check" /\ h.file = hook[p].file
        /\ h.number = packet.number /\ h.digest = hook[p].digest
    BY HookFields DEF Look, PacketInv, PacketTypeOK, HookOf, Answering
  <2>2. hook' = [hook EXCEPT ![p] = h] /\ seenLock' = seenLock /\ packet.number > 0
    BY <1>2 DEF Look, PacketInv, Numbered
  <2> HIDE DEF h
  <2>3. Becomes(p, "check", hook[p].file, packet.number, hook[p].digest)
    <3>1. Becomes(p, h.at, h.file, h.number, h.digest)
      BY <2>1, <2>2, SetsHook, NoCapture DEF Look, PacketInv
    <3> QED
      BY <2>1, <3>1
  <2>4. Verdict'
    BY <2>3, VerdictStays DEF Look, Compacting
  <2>5. Locks(p, "check")
    BY <2>2, LockStays DEF Look, IsAt, Compacting, Answering, Saying, Rotating
  <2>0. Hands(p, "check")
    BY HandsStay DEF Look, IsAt, Saying
  <2>6. Quiet(p, "check", hook[p].file, packet.number, hook[p].digest)
    BY <2>0, <2>2, <2>3, NoCapture DEF Look, IsAt, Quiet, PacketInv, PacketTypeOK, Numbered
  <2> QED
    BY <2>4, <2>5, <2>6, QuietKeeps
<1> QED
  BY <1>1, <1>2

\* The packet it holds is one that was captured.
LEMMA NumberIsAPacket ==
  ASSUME PacketInv, NEW p \in Hooks, hook[p].at \in {"write", "collected", "note"}
  PROVE  hook[p].number \in Packets
<1>1. hook[p].number \in 0..captures /\ hook[p].number > 0
  BY HookFields DEF PacketInv, Numbered
<1>2. captures \in 0..MaxCaptures /\ MaxCaptures \in Nat
  BY PacketAssumption DEF PacketInv, PacketTypeOK
<1> QED
  BY <1>1, <1>2 DEF Packets

\* A hook on its way to a packet is the first to it, if its note was not lost:
\* it was not handed over and is not on its way.
First(n) == handed[n] = 0 /\ ~InHand(n)

\* What other hooks have does not change.
LEMMA OthersHave ==
  ASSUME NEW p \in Hooks, NEW at, NEW file, NEW number, NEW digest,
         Becomes(p, at, file, number, digest)
  PROVE  /\ \A q \in Hooks \ {p}, n \in Packets :
              /\ Has(q, n, {"note"})' <=> Has(q, n, {"note"})
              /\ Has(q, n, {"write", "collected"})' <=> Has(q, n, {"write", "collected"})
              /\ Has(q, n, {"write", "collected", "note"})'
                   <=> Has(q, n, {"write", "collected", "note"})
         /\ \A n \in Packets :
              /\ Has(p, n, {"note"})' <=> at = "note" /\ number = n
              /\ Has(p, n, {"write", "collected"})'
                   <=> at \in {"write", "collected"} /\ number = n
              /\ Has(p, n, {"write", "collected", "note"})'
                   <=> at \in {"write", "collected", "note"} /\ number = n
BY DEF Becomes, Has

\* A hook about to write a packet is the first to it.
LEMMA WriterIsFirst ==
  ASSUME PacketInv, NEW p \in Hooks, NEW n \in Packets \ unnoted,
         Has(p, n, {"write", "collected"})
  PROVE  First(n)
<1>1. Unlost(n)
  BY DEF PacketInv, Noted
<1>2. Has(p, n, {"write", "collected", "note"})
  BY DEF Has
<1> QED
  BY <1>1, <1>2 DEF Unlost, First

\* Nor does what is on its way, where nothing is put there.
LEMMA InHandStays ==
  ASSUME UNCHANGED <<answer, waiting>>
  PROVE  \A n \in Packets : (InHand(n)' <=> InHand(n)) /\ (OnePlace(n)' <=> OnePlace(n))
BY DEF InHand, OnePlace

\* It writes.
LEMMA WritesKeep ==
  ASSUME PacketInv, NEW p \in Hooks, NEW at \in {"write", "collected"},
         hook[p].at \in {"check", "write"}, GoesTo(p, at), Verdict',
         UNCHANGED <<host, seenRows, packet, seenLock, answer, waiting, captures, troubles,
                     handed, consumed, unnoted, failing, tardy>>,
         \A n \in Packets \ unnoted : n = hook[p].number => First(n)
  PROVE  PacketInv'
<1> DEFINE m == hook[p].number
<1>1. Becomes(p, at, hook[p].file, m, hook[p].digest)
  BY Went DEF PacketInv, AllPlaces, Answering
<1>2. Locks(p, at)
  BY LockStays DEF Compacting, Answering, Saying, Rotating
<1>3. answer[p] = {}
  BY DEF PacketInv, PacketTypeOK, Saying
<1>4. PacketTypeOK' /\ Numbered' /\ Places' /\ Barred' /\ FailureHoldsOld'
  BY <1>1, <1>2, <1>3, StepTyped, NoCapture DEF PacketInv, PacketTypeOK, Numbered
<1>5. ReadRows'
  BY <1>1 DEF Becomes, PacketInv, Noted, ReadRows
<1>6. ASSUME NEW n \in Packets \ unnoted' PROVE Unlost(n)'
  <2>1. Unlost(n) /\ (n = m => First(n))
    BY <1>6 DEF PacketInv, Noted
  <2>2. (InHand(n)' <=> InHand(n)) /\ (OnePlace(n)' <=> OnePlace(n))
    BY <1>6, InHandStays
  <2>3. \A q \in Hooks : /\ Has(q, n, {"write", "collected"})' =>
                              Has(q, n, {"write", "collected"}) \/ n = m
                         /\ Has(q, n, {"write", "collected", "note"})' =>
                              Has(q, n, {"write", "collected", "note"}) \/ n = m
                         /\ Has(q, n, {"note"}) => Has(q, n, {"note"})'
    <3>1. ~Has(p, n, {"note"})
      BY DEF Has
    <3> QED
      BY <1>1, <1>6, <3>1, OthersHave
  <2> QED
    BY <2>1, <2>2, <2>3 DEF Unlost, First
<1> QED
  BY <1>4, <1>5, <1>6 DEF PacketInv, Noted

\* A hook that found no row, and no hook holds the lock beside it, is the first
\* to write the packet.
LEMMA ConsultKeeps ==
  ASSUME PacketInv, NEW p \in Hooks, Consult(p)
  PROVE  PacketInv'
<1> DEFINE m == hook[p].number
<1>1. CASE HeldBack(m)
  BY <1>1, EndsQuietly DEF Consult, IsAt, Saying, PacketInv, PacketTypeOK
<1>2. CASE ~HeldBack(m)
  <2>1. Becomes(p, "write", hook[p].file, m, hook[p].digest)
    BY <1>2, Went DEF Consult, PacketInv, AllPlaces, Answering
  <2>2. Delivered(m) \notin seenRows /\ Unavailable \notin seenRows
    BY <1>2 DEF HeldBack
  <2>3. Verdict'
    BY <2>1, <2>2
       DEF Consult, Becomes, PacketInv, PacketTypeOK, Barred, FailureHoldsOld, Verdict
  <2>4. ASSUME NEW n \in Packets \ unnoted, n = m PROVE First(n)
    <3>1. Unlost(n) /\ handed[n] \in 0..2
      BY DEF PacketInv, PacketTypeOK, Noted
    <3>2. \A q \in Hooks : ~Has(q, n, {"note"})
      BY DEF Consult, IsAt, Has, PacketInv, PacketTypeOK, Places, Answering
    <3> QED
      BY <2>2, <2>4, <3>1, <3>2 DEF Unlost, First
  <2> QED
    BY <1>2, <2>3, <2>4, WritesKeep DEF Consult, IsAt
<1> QED
  BY <1>1, <1>2

\* What it writes is caught.
LEMMA CollectKeeps ==
  ASSUME PacketInv, NEW p \in Hooks, Collect(p)
  PROVE  PacketInv'
<1>1. Becomes(p, "collected", hook[p].file, hook[p].number, hook[p].digest)
  BY Went DEF Collect, PacketInv, AllPlaces, Answering
<1>2. Verdict'
  BY <1>1, VerdictStays DEF Collect, IsAt, Compacting
<1>3. \A n \in Packets \ unnoted : n = hook[p].number => First(n)
  BY WriterIsFirst DEF Collect, IsAt, Has
<1> QED
  BY <1>2, <1>3, WritesKeep DEF Collect, IsAt

\* A copy more of these.
LEMMA CopiesAre ==
  ASSUME PacketInv, NEW ns \in SUBSET Packets, handed' = Copies(ns)
  PROVE  /\ handed' \in [Packets -> 0..2]
         /\ \A n \in Packets \ ns : handed'[n] = handed[n]
         /\ \A n \in ns : handed[n] < 2 => handed'[n] = handed[n] + 1
         /\ \A n \in ns : ~(handed[n] < 2) => handed'[n] = handed[n]
BY DEF Copies, PacketInv, PacketTypeOK

\* It hands the packet over.
LEMMA HandOverKeeps ==
  ASSUME PacketInv, NEW p \in Hooks, HandOver(p)
  PROVE  PacketInv'
<1> DEFINE m == hook[p].number
<1>1. Becomes(p, "note", hook[p].file, m, hook[p].digest)
  BY Went DEF HandOver, PacketInv, AllPlaces, Answering
<1>2. Verdict'
  BY <1>1, VerdictStays DEF HandOver, IsAt, Compacting
<1>3. Locks(p, "note")
  BY LockStays DEF HandOver, IsAt, Compacting, Answering, Saying, Rotating
<1>4. m \in Packets
  BY NumberIsAPacket DEF HandOver, IsAt
<1>5. /\ handed' \in [Packets -> 0..2]
      /\ \A n \in Packets \ {m} : handed'[n] = handed[n]
      /\ handed[m] = 0 => handed'[m] < 2
  BY <1>4, CopiesAre DEF HandOver
<1>6. PacketTypeOK' /\ Numbered' /\ Places' /\ Barred' /\ FailureHoldsOld'
  <2>1. answer[p] = {}
    BY DEF HandOver, IsAt, PacketInv, PacketTypeOK, Saying
  <2> QED
    BY <1>1, <1>2, <1>3, <1>4, <1>5, <2>1, StepTyped, NoCapture
       DEF HandOver, IsAt, PacketInv, PacketTypeOK, Numbered, Packets
<1>7. ReadRows'
  BY <1>1 DEF HandOver, Becomes, PacketInv, Noted, ReadRows
<1>8. ASSUME NEW n \in Packets \ unnoted' PROVE Unlost(n)'
  <2>1. Unlost(n) /\ UNCHANGED <<host, seenRows, answer, waiting>> /\ n \notin unnoted
    BY <1>8 DEF HandOver, PacketInv, Noted
  <2>2. (InHand(n)' <=> InHand(n)) /\ (OnePlace(n)' <=> OnePlace(n))
    BY <1>8, <2>1, InHandStays
  <2>3. \A q \in Hooks \ {p} : ~Has(q, n, {"write", "collected"})
    BY DEF HandOver, IsAt, Has, PacketInv, PacketTypeOK, Answering
  <2>4. /\ \A q \in Hooks : ~Has(q, n, {"write", "collected"})'
        /\ \A q \in Hooks : Has(q, n, {"write", "collected", "note"})' =>
                              Has(q, n, {"write", "collected", "note"}) \/ n = m
        /\ \A q \in Hooks : Has(q, n, {"note"}) => Has(q, n, {"note"})'
    <3>1. ~Has(p, n, {"note"})
      BY DEF HandOver, IsAt, Has
    <3> QED
      BY <1>1, <1>8, <2>3, <3>1, OthersHave
  <2>5. CASE n = m
    <3>1. First(n)
      BY <2>1, <2>5, WriterIsFirst DEF HandOver, IsAt, Has
    <3>2. Has(p, n, {"note"})'
      BY <1>1, <1>8, <2>5, OthersHave
    <3>3. ~InHand(n)' /\ handed'[n] < 2
      BY <1>5, <2>2, <2>5, <3>1 DEF First
    <3> QED
      BY <2>1, <2>2, <2>4, <3>2, <3>3 DEF Unlost
  <2>6. CASE n # m
    <3>1. handed'[n] = handed[n]
      BY <1>5, <1>8, <2>6
    <3> QED
      BY <2>1, <2>2, <2>4, <2>6, <3>1 DEF Unlost
  <2> QED
    BY <2>5, <2>6
<1> QED
  BY <1>6, <1>7, <1>8 DEF PacketInv, Noted

\* It notes that it did.
LEMMA NoteKeeps ==
  ASSUME PacketInv, NEW p \in Hooks, Note(p)
  PROVE  PacketInv'
<1> DEFINE m == hook[p].number
<1>1. m \in Packets
  BY NumberIsAPacket DEF Note, IsAt
<1>2. /\ seenRows' = seenRows \cup {Delivered(m)}
      /\ UNCHANGED <<host, packet, answer, waiting, captures, troubles,
                     handed, consumed, unnoted, failing, tardy>>
  BY DEF Note
<1>3. Becomes(p, "idle", {}, 0, 0) /\ Locks(p, "idle")
  BY <1>2, Ended, LockEnds DEF Note, PacketInv
<1>4. Verdict'
  BY <1>2, <1>3, VerdictStays DEF Compacting
<1>5. PacketTypeOK' /\ Numbered' /\ Places' /\ Barred' /\ FailureHoldsOld'
  <2>1. seenRows' \subseteq Rows
    BY <1>1, <1>2, RowNames DEF PacketInv, PacketTypeOK
  <2>2. answer[p] = {}
    BY DEF Note, IsAt, PacketInv, PacketTypeOK, Saying
  <2> QED
    BY <1>2, <1>3, <1>4, <2>1, <2>2, StepTyped, NoCapture DEF PacketInv, PacketTypeOK, Numbered
<1>6. ReadRows'
  BY <1>2, <1>3 DEF Becomes, PacketInv, Noted, ReadRows
<1>7. ASSUME NEW n \in Packets \ unnoted' PROVE Unlost(n)'
  <2>1. Unlost(n)
    BY <1>2, <1>7 DEF PacketInv, Noted
  <2>2. (InHand(n)' <=> InHand(n)) /\ (OnePlace(n)' <=> OnePlace(n))
    BY <1>2, <1>7, InHandStays
  <2>3. /\ \A q \in Hooks : /\ Has(q, n, {"write", "collected"})' => Has(q, n, {"write", "collected"})
                            /\ Has(q, n, {"write", "collected", "note"})' =>
                                 Has(q, n, {"write", "collected", "note"})
        /\ \A q \in Hooks \ {p} : Has(q, n, {"note"}) => Has(q, n, {"note"})'
    BY <1>3, <1>7, OthersHave
  <2>4. Has(p, n, {"note"}) => Delivered(n) \in seenRows'
    BY <1>2 DEF Has
  <2> QED
    BY <1>2, <2>1, <2>2, <2>3, <2>4 DEF Unlost
<1> QED
  BY <1>5, <1>6, <1>7 DEF PacketInv, Noted

\* It notes what was caught.
LEMMA NoteCollectedKeeps ==
  ASSUME PacketInv, NEW p \in Hooks, NoteCollected(p)
  PROVE  PacketInv'
<1> DEFINE m == hook[p].number
           others == {q \in Hooks \ {p} : hook[q].number = m /\ hook[q].at \in {"write", "collected"}}
           at == IF host = "apart" THEN "print" ELSE "answer"
<1>1. m \in Packets
  BY NumberIsAPacket DEF NoteCollected, IsAt
<1>2. /\ seenRows' = seenRows \cup {Delivered(m)}
      /\ unnoted' = IF host = "apart" /\ others # {} THEN unnoted \cup {m} ELSE unnoted
      /\ answer' = [answer EXCEPT ![p] = {m}]
      /\ UNCHANGED <<host, packet, waiting, captures, troubles, handed, consumed, failing, tardy>>
  BY DEF NoteCollected
<1>3. at \in Saying /\ Becomes(p, at, hook[p].file, m, hook[p].digest)
  BY <1>2, Went DEF NoteCollected, PacketInv, AllPlaces, Saying
<1>4. Locks(p, at)
  BY <1>3, PacketAssumption
     DEF NoteCollected, PacketInv, PacketTypeOK, Locks, Answering, Compacting, Saying
<1>5. Verdict'
  BY <1>2, <1>3, VerdictStays DEF NoteCollected, IsAt, Compacting, Saying
<1>6. /\ answer' \in [Hooks -> SUBSET Packets] /\ answer'[p] = {m}
      /\ \A q \in Hooks \ {p} : answer'[q] = answer[q]
  BY <1>1, <1>2 DEF PacketInv, PacketTypeOK
<1>7. PacketTypeOK' /\ Numbered' /\ Places' /\ Barred' /\ FailureHoldsOld'
  <2>1. seenRows' \subseteq Rows /\ unnoted' \subseteq Packets
    BY <1>1, <1>2, RowNames DEF PacketInv, PacketTypeOK
  <2>2. at # "note" /\ at # "seen" /\ (m \in Nat /\ m > 0)
    BY <1>1, PacketAssumption DEF Packets
  <2> QED
    BY <1>2, <1>3, <1>4, <1>5, <1>6, <2>1, <2>2, StepTyped, NoCapture
       DEF PacketInv, PacketTypeOK, Numbered
<1>8. ReadRows'
  BY <1>2, <1>3 DEF Becomes, PacketInv, Noted, ReadRows
<1>9. ASSUME NEW n \in Packets \ unnoted' PROVE Unlost(n)'
  <2>1. Unlost(n) /\ n \notin unnoted
    BY <1>2, <1>9 DEF PacketInv, Noted
  <2>2. /\ \A q \in Hooks : /\ Has(q, n, {"write", "collected"})' =>
                                 Has(q, n, {"write", "collected"}) /\ q # p
                            /\ Has(q, n, {"write", "collected", "note"})' =>
                                 Has(q, n, {"write", "collected", "note"}) /\ q # p
        /\ \A q \in Hooks \ {p} : Has(q, n, {"note"}) => Has(q, n, {"note"})'
    BY <1>3, <1>9, OthersHave DEF Saying
  <2>3. ~Has(p, n, {"note"})
    BY DEF NoteCollected, IsAt, Has
  <2>4. CASE n = m
    <3>1. First(n)
      BY <2>1, <2>4, WriterIsFirst DEF NoteCollected, IsAt, Has
    <3>2. \A q \in Hooks \ {p} : ~Has(q, n, {"write", "collected", "note"})
      <4>1. CASE host = "apart"
        <5>1. others = {}
          BY <1>2, <1>9, <2>4, <4>1
        <5>2. \A q \in Hooks : ~Has(q, n, {"note"})
          BY <4>1 DEF Has, PacketInv, Places
        <5> QED
          BY <2>4, <5>1, <5>2 DEF Has
      <4>2. CASE host # "apart"
        BY <4>2 DEF NoteCollected, IsAt, Has, PacketInv, PacketTypeOK, Answering
      <4> QED
        BY <4>1, <4>2
    <3>3. OnePlace(n)'
      BY <1>2, <1>6, <2>4, <3>1 DEF First, InHand, OnePlace
    <3>4. handed'[n] = 0 /\ Delivered(n) \in seenRows'
      BY <1>2, <2>4, <3>1 DEF First
    <3> QED
      BY <2>2, <3>2, <3>3, <3>4 DEF Unlost
  <2>5. CASE n # m
    <3>1. \A q \in Hooks : n \in answer'[q] => n \in answer[q]
      BY <1>6, <2>5
    <3>2. InHand(n)' => InHand(n)
      BY <1>2, <3>1 DEF InHand
    <3>3. OnePlace(n)'
      BY <1>2, <2>1, <3>1 DEF Unlost, OnePlace
    <3>4. handed'[n] = handed[n] /\ (Delivered(n) \in seenRows => Delivered(n) \in seenRows')
      BY <1>2
    <3> QED
      BY <2>1, <2>2, <2>3, <3>2, <3>3, <3>4 DEF Unlost
  <2> QED
    BY <2>4, <2>5
<1> QED
  BY <1>7, <1>8, <1>9 DEF PacketInv, Noted

\* A hook ends, and lets go of what it caught: kept, printed, or lost.
LEMMA LetsGo ==
  ASSUME PacketInv, NEW p \in Hooks, Ends(p), answer' = [answer EXCEPT ![p] = {}],
         waiting' \in {waiting, waiting \cup answer[p]},
         \/ handed' = handed
         \/ handed' = Copies(answer[p]) /\ waiting' = waiting,
         UNCHANGED <<host, seenRows, packet, captures, failing, tardy>>,
         troubles' \in 0..MaxTroubles[host], consumed' \subseteq Packets,
         unnoted \subseteq unnoted', unnoted' \subseteq Packets,
         hook[p].at = "note" => hook[p].number \in unnoted'
  PROVE  PacketInv'
<1>1. Becomes(p, "idle", {}, 0, 0) /\ Locks(p, "idle")
  BY Ended, LockEnds DEF PacketInv
<1>2. Verdict'
  BY <1>1, VerdictStays DEF Compacting
<1>3. /\ answer' \in [Hooks -> SUBSET Packets] /\ answer'[p] = {}
      /\ \A q \in Hooks \ {p} : answer'[q] = answer[q]
      /\ answer[p] \subseteq Packets /\ waiting' \subseteq Packets
  BY DEF PacketInv, PacketTypeOK
<1>4. handed' \in [Packets -> 0..2]
  BY <1>3, CopiesAre DEF PacketInv, PacketTypeOK
<1>5. ASSUME NEW n \in Packets, OnePlace(n) PROVE OnePlace(n)' /\ (InHand(n)' => InHand(n))
  BY <1>3, <1>5 DEF OnePlace, InHand
<1>6. ASSUME NEW n \in Packets, OnePlace(n), handed'[n] # handed[n]
      PROVE  /\ InHand(n) /\ ~InHand(n)'
             /\ handed[n] \in Nat /\ handed'[n] \in Nat /\ handed'[n] = handed[n] + 1
  <2>1. handed' = Copies(answer[p]) /\ waiting' = waiting
    BY <1>6
  <2>2. n \in answer[p] /\ handed'[n] = handed[n] + 1
    BY <1>3, <1>6, <2>1, CopiesAre
  <2>3. InHand(n) /\ ~InHand(n)'
    BY <1>3, <1>6, <2>1, <2>2 DEF OnePlace, InHand
  <2>4. handed[n] \in Nat /\ handed'[n] \in Nat
    BY <1>4 DEF PacketInv, PacketTypeOK
  <2> QED
    BY <2>2, <2>3, <2>4
<1>7. \A n \in Packets : Moved(n)
  BY <1>5, <1>6 DEF Moved
<1>8. Hands(p, "idle")
  BY <1>3, <1>4, <1>7 DEF Hands
<1>9. Quiet(p, "idle", {}, 0, 0)
  BY <1>1, <1>8, NoCapture DEF Quiet, PacketInv, PacketTypeOK, Numbered
<1> QED
  BY <1>1, <1>2, <1>9, QuietKeeps

\* It keeps its answer.
LEMMA KeepsKeeps ==
  ASSUME PacketInv, NEW p \in Hooks, Keeps(p)
  PROVE  PacketInv'
<1>1. consumed' \subseteq Packets /\ troubles' \in 0..MaxTroubles[host]
  BY DEF Keeps, PacketInv, PacketTypeOK
<1> QED
  BY <1>1, LetsGo DEF Keeps, IsAt, PacketInv, PacketTypeOK

\* It prints it.
LEMMA PrintsKeeps ==
  ASSUME PacketInv, NEW p \in Hooks, Prints(p)
  PROVE  PacketInv'
<1>1. consumed' \subseteq Packets /\ troubles' \in 0..MaxTroubles[host]
  BY DEF Prints, PacketInv, PacketTypeOK
<1> QED
  BY <1>1, LetsGo DEF Prints, IsAt, PacketInv, PacketTypeOK

\* A hook takes what waits.
Takes(p) ==
  /\ hook[p].at \in {"idle"} \cup Saying
  /\ answer' = [answer EXCEPT ![p] = answer[p] \cup waiting] /\ waiting' = {}
  /\ UNCHANGED <<host, seenRows, packet, seenLock, captures, troubles, handed, consumed, unnoted>>

\* It keeps the invariant.
LEMMA TakingKeeps ==
  ASSUME PacketInv, NEW p \in Hooks, NEW file, NEW number, NEW digest,
         Becomes(p, "print", file, number, digest), Verdict', Takes(p),
         file \subseteq hook[p].file \cup seenRows
  PROVE  PacketInv'
<1>1. Locks(p, "print")
  <2>1. seenLock # p /\ seenLock \in Hooks \cup {NoHook} /\ seenLock' = seenLock
    BY DEF Takes, PacketInv, PacketTypeOK
  <2>2. "print" \notin Answering \cup Compacting
    BY DEF Answering, Compacting
  <2> QED
    BY <2>1, <2>2 DEF Locks
<1>2. /\ answer' \in [Hooks -> SUBSET Packets] /\ answer'[p] = answer[p] \cup waiting
      /\ \A q \in Hooks \ {p} : answer'[q] = answer[q]
  BY DEF Takes, PacketInv, PacketTypeOK
<1>3. ASSUME NEW n \in Packets, OnePlace(n) PROVE OnePlace(n)' /\ (InHand(n)' => InHand(n))
  BY <1>2, <1>3 DEF Takes, OnePlace, InHand
<1>4. \A n \in Packets : Moved(n)
  BY <1>3 DEF Takes, Moved
<1>5. Hands(p, "print")
  BY <1>2, <1>4 DEF Takes, Hands, Saying, PacketInv, PacketTypeOK
<1>6. Quiet(p, "print", file, number, digest)
  BY <1>5, NoCapture DEF Takes, Quiet, Saying, PacketInv, PacketTypeOK, Numbered
<1> QED
  BY <1>1, <1>6, QuietKeeps

\* A hook that has an answer puts what waits in front of it.
LEMMA TakesWaitingKeeps ==
  ASSUME PacketInv, NEW p \in Hooks, TakesWaiting(p)
  PROVE  PacketInv'
<1>1. Becomes(p, "print", hook[p].file, hook[p].number, hook[p].digest)
  BY Went DEF TakesWaiting, PacketInv, AllPlaces, Saying
<1>2. Verdict'
  BY <1>1, VerdictStays DEF TakesWaiting, IsAt, Compacting
<1>3. Takes(p)
  BY DEF TakesWaiting, IsAt, Saying, Takes
<1> QED
  BY <1>1, <1>2, <1>3, TakingKeeps

\* One that has none says what waits, which no row holds back.
LEMMA HandsWaitingKeeps ==
  ASSUME PacketInv, NEW p \in Hooks, HandsWaiting(p)
  PROVE  PacketInv'
<1> DEFINE h == [Resting EXCEPT !.at = "print"]
<1>1. h \in HookOf(captures') /\ h.at = "print" /\ h.file = {} /\ h.number = 0 /\ h.digest = 0
  BY PacketAssumption DEF HandsWaiting, Resting, HookOf, PacketInv, PacketTypeOK, Saying
<1>2. hook' = [hook EXCEPT ![p] = h] /\ captures' = captures
  BY DEF HandsWaiting
<1> HIDE DEF h
<1>3. Becomes(p, "print", {}, 0, 0)
  <2>1. Becomes(p, h.at, h.file, h.number, h.digest)
    BY <1>1, <1>2, SetsHook, NoCapture DEF PacketInv
  <2> QED
    BY <1>1, <2>1
<1>4. Verdict'
  BY <1>3 DEF HandsWaiting, IsAt, Becomes, PacketInv, PacketTypeOK, Barred, FailureHoldsOld,
              Verdict, Compacting
<1>5. answer' = [answer EXCEPT ![p] = answer[p] \cup waiting]
  <2>1. answer[p] = {}
    BY DEF HandsWaiting, IsAt, Saying, PacketInv, PacketTypeOK
  <2> QED
    BY <2>1 DEF HandsWaiting
<1>6. Takes(p)
  BY <1>5 DEF HandsWaiting, IsAt, Takes
<1> QED
  BY <1>3, <1>4, <1>6, TakingKeeps

\* What waits is lost.
LEMMA WaitingLostKeeps ==
  ASSUME PacketInv, NEW m \in Packets, WaitingLost(m)
  PROVE  PacketInv'
<1>1. PacketTypeOK' /\ Numbered' /\ Places' /\ Barred' /\ FailureHoldsOld' /\ ReadRows'
  BY DEF WaitingLost, PacketInv, PacketTypeOK, Numbered, Places, Barred, FailureHoldsOld,
         Noted, ReadRows
<1>2. ASSUME NEW n \in Packets \ unnoted' PROVE Unlost(n)'
  <2>1. Unlost(n) /\ UNCHANGED <<host, seenRows, hook, answer, handed>>
    BY <1>2 DEF WaitingLost, PacketInv, Noted
  <2>2. waiting' \subseteq waiting
    BY DEF WaitingLost
  <2>3. (InHand(n)' => InHand(n)) /\ (OnePlace(n) => OnePlace(n)')
    BY <2>1, <2>2 DEF InHand, OnePlace
  <2>4. \A q \in Hooks : /\ Has(q, n, {"note"})' <=> Has(q, n, {"note"})
                         /\ Has(q, n, {"write", "collected"})' <=> Has(q, n, {"write", "collected"})
                         /\ Has(q, n, {"write", "collected", "note"})'
                              <=> Has(q, n, {"write", "collected", "note"})
    BY <2>1 DEF Has
  <2> QED
    BY <2>1, <2>3, <2>4 DEF Unlost
<1> QED
  BY <1>1, <1>2 DEF PacketInv, Noted

\* Troubles stay within their bound.
LEMMA TroubleCounted ==
  ASSUME PacketInv, Trouble
  PROVE  troubles' \in 0..MaxTroubles[host]
<1>1. MaxTroubles[host] \in Nat
  BY PacketAssumption DEF PacketInv, PacketTypeOK
<1> QED
  BY <1>1 DEF Trouble, PacketInv, PacketTypeOK

\* Nobody reads the answer.
LEMMA PipeClosedKeeps ==
  ASSUME PacketInv, NEW p \in Hooks, PipeClosed(p)
  PROVE  PacketInv'
BY TroubleCounted, EndsQuietly
   DEF PipeClosed, IsAt, AfterClosed, Saying, PacketInv, PacketTypeOK

\* A hook is killed.
LEMMA KillHookKeeps ==
  ASSUME PacketInv, NEW p \in Hooks, KillHook(p)
  PROVE  PacketInv'
<1>1. troubles' \in 0..MaxTroubles[host]
  BY TroubleCounted DEF KillHook
<1>2. /\ consumed' \subseteq Packets /\ unnoted' \subseteq Packets
  BY NumberIsAPacket DEF KillHook, IsAt, PacketInv, PacketTypeOK
<1> QED
  BY <1>1, <1>2, LetsGo DEF KillHook, IsAt

\* Captures of other sessions push the packet out, or it is forgotten.
LEMMA TrimmedKeeps ==
  ASSUME PacketInv, PacketTrimmed
  PROVE  PacketInv'
<1>1. NoPacket \in [number : 0..captures, digest : 0..MaxCaptures]
  BY PacketAssumption DEF NoPacket, PacketInv, PacketTypeOK
<1>2. PacketTypeOK'
  BY <1>1, TroubleCounted DEF PacketTrimmed, PacketInv, PacketTypeOK
<1>3. Numbered' /\ Places' /\ Barred' /\ FailureHoldsOld' /\ ReadRows'
  BY DEF PacketTrimmed, PacketInv, Numbered, Places, Barred, FailureHoldsOld, Noted, ReadRows
<1>4. \A n \in Packets \ unnoted' : Unlost(n)'
  BY DEF PacketTrimmed, PacketInv, Noted, Unlost, Has, InHand, OnePlace
<1> QED
  BY <1>2, <1>3, <1>4 DEF PacketInv, Noted

\* The file is read to be rewritten, or rewritten.
LEMMA FileStepsKeep ==
  ASSUME PacketInv, NEW p \in Hooks,
         \/ ReadsToForget(p) \/ Forgets(p) \/ ReadsToClear(p) \/ Clears(p) \/ ReadsToRotate(p)
  PROVE  PacketInv'
<1>1. CASE ReadsToForget(p)
  BY <1>1, Reads DEF ReadsToForget, IsAt, PacketInv, PacketTypeOK
<1>2. CASE ReadsToClear(p)
  BY <1>2, Reads DEF ReadsToClear, IsAt, PacketInv, PacketTypeOK
<1>3. CASE ReadsToRotate(p)
  BY <1>3, Reads, TroubleCounted DEF ReadsToRotate, IsAt
<1>4. CASE Forgets(p)
  BY <1>4, RewriteKeeps DEF Forgets, KeptRows, IsAt
<1>5. CASE Clears(p)
  BY <1>5, RewriteKeeps DEF Clears, IsAt
<1> QED
  BY <1>1, <1>2, <1>3, <1>4, <1>5

\* No packet and no hook.
LEMMA PacketStart == PacketInit => PacketInv
<1> SUFFICES ASSUME PacketInit PROVE PacketInv
  OBVIOUS
<1>1. PacketTypeOK
  <2>1. Resting \in HookOf(0) /\ Resting.at = "idle"
    BY PacketAssumption DEF Resting, HookOf
  <2>2. MaxTroubles[host] \in Nat /\ NoPacket \in [number : 0..0, digest : 0..MaxCaptures]
    BY PacketAssumption DEF PacketInit, NoPacket
  <2>3. hook \in [Hooks -> HookOf(captures)] /\ \A p \in Hooks : hook[p].at = "idle"
    BY <2>1 DEF PacketInit
  <2>4. handed \in [Packets -> 0..2] /\ captures \in 0..MaxCaptures
        /\ packet \in [number : 0..captures, digest : 0..MaxCaptures]
    BY <2>2, PacketAssumption DEF PacketInit
  <2>5. troubles \in 0..MaxTroubles[host]
    BY <2>2 DEF PacketInit
  <2> QED
    BY <2>3, <2>4, <2>5, PacketAssumption DEF PacketInit, PacketTypeOK, Answering, Saying
<1>2. Numbered /\ Places /\ Barred /\ FailureHoldsOld /\ Noted
  BY DEF PacketInit, Resting, Numbered, Places, Barred, FailureHoldsOld, Noted, ReadRows,
         Unlost, Has, InHand, OnePlace, Compacting
<1> QED
  BY <1>1, <1>2 DEF PacketInv

\* Every step keeps the invariant.
LEMMA PacketStep == PacketInv /\ [PacketNext]_packetVars => PacketInv'
<1> SUFFICES ASSUME PacketInv, [PacketNext]_packetVars PROVE PacketInv'
  OBVIOUS
<1>1. CASE UNCHANGED packetVars
  <2>1. PacketTypeOK' /\ Numbered' /\ Places' /\ Barred' /\ FailureHoldsOld' /\ ReadRows'
    BY <1>1 DEF packetVars, PacketInv, PacketTypeOK, Numbered, Places, Barred,
                FailureHoldsOld, Noted, ReadRows
  <2>2. \A n \in Packets \ unnoted' : Unlost(n)'
    BY <1>1 DEF packetVars, PacketInv, Noted, Unlost, Has, InHand, OnePlace
  <2> QED
    BY <2>1, <2>2 DEF PacketInv, Noted
<1>2. CASE PacketTrimmed \/ \E n \in Packets : WaitingLost(n)
  BY <1>2, TrimmedKeeps, WaitingLostKeeps
<1>3. ASSUME NEW p \in Hooks,
             \/ Precompact(p) \/ Speaks(p) \/ HandsWaiting(p) \/ CatchUp(p)
             \/ ReadsToRotate(p) \/ KillHook(p)
             \/ RememberSeen(p) \/ ReadsToForget(p) \/ Forgets(p) \/ ReadsToClear(p)
             \/ Clears(p) \/ Capture(p) \/ CannotRead(p) \/ Put(p) \/ CannotPut(p)
             \/ BlockOldPacket(p) \/ Look(p) \/ Consult(p) \/ HandOver(p) \/ PipeClosed(p)
             \/ Note(p) \/ Collect(p) \/ NoteCollected(p) \/ Keeps(p) \/ TakesWaiting(p)
             \/ Prints(p) \/ Rotates(p)
      PROVE  PacketInv'
  BY <1>3, PrecompactKeeps, SpeaksKeeps, CatchUpKeeps, KillHookKeeps, RememberSeenKeeps,
     FileStepsKeep, CaptureKeeps, FailsKeeps, PutKeeps, BlockKeeps, LookKeeps, ConsultKeeps,
     HandOverKeeps, PipeClosedKeeps, NoteKeeps, CollectKeeps, NoteCollectedKeeps, KeepsKeeps,
     TakesWaitingKeeps, HandsWaitingKeeps, PrintsKeeps, RotatesKeeps
<1> QED
  BY <1>1, <1>2, <1>3 DEF PacketNext

\* So it holds always.
LEMMA PacketAlways == PacketSpec => []PacketInv
BY PacketStart, PacketStep, PTL DEF PacketSpec

\* The state of the hooks keeps its types, and a hook that answers holds the
\* lock where its host's hooks take one.
THEOREM PacketTyped == PacketSpec => []PacketTypeOK
<1>1. PacketInv => PacketTypeOK
  BY DEF PacketInv
<1> QED
  BY <1>1, PacketAlways, PTL

\* "One delivery per compaction" (hook_compaction.go), but for the packets
\* whose note was lost: for every kind of host, those that drop what some hooks
\* print among them, and any hooks and captures.
THEOREM SecondCopyExplained == PacketSpec => []SecondCopyHasAReason
<1>1. PacketInv => SecondCopyHasAReason
  <2> SUFFICES ASSUME PacketInv, NEW n \in Packets \ unnoted PROVE ~(handed[n] > 1)
    BY DEF SecondCopyHasAReason
  <2>1. handed[n] < 2 /\ handed[n] \in 0..2
    BY DEF PacketInv, PacketTypeOK, Noted, Unlost
  <2> QED
    BY <2>1
<1> QED
  BY <1>1, PacketAlways, PTL

\* blockOldPacket's row keeps the hooks that begin after the failure it stands
\* for from handing over an older packet of their own; what an earlier one put
\* under deferred/ is not asked.
THEOREM OldHeldBack == PacketSpec => []FailureHoldsOld
<1>1. PacketInv => FailureHoldsOld
  BY DEF PacketInv
<1> QED
  BY <1>1, PacketAlways, PTL
=============================================================================
