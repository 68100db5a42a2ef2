----------------------------- MODULE KeptFresh ------------------------------
(***************************************************************************)
(* How an index is kept up with its stores while nobody waits for it: the  *)
(* keeper of a long-lived server checks on a timer and appends what is     *)
(* short (keepfresh.go, ingest_ensure.go), hands anything else to a        *)
(* detached `deja index` under a claim file (digest_cache.go,              *)
(* warmup_owner.go), and queries take its last verdict.  The detached      *)
(* build walks the stores before it has the lock and reuses that walk when *)
(* nobody wrote the index meanwhile.  Processes are killed, claims are     *)
(* left behind, transcripts are written all the while.                     *)
(*                                                                         *)
(* The stores are a version, counted by their changes; the index covers    *)
(* one.  A limit of time is a step: a claim goes quiet.                    *)
(***************************************************************************)
EXTENDS Naturals

CONSTANTS
  Children,     \* detached builds: a slot is free again when its process is gone
  NoChild,      \* not a child
  Requesters,   \* processes that ask for a build; "keeper" is one
  Stamps,       \* request stamps of claims, told apart while they are in use
  NoStamp,      \* a build started without a claim
  NoClaim,      \* there is no warmup.sentinel
  MaxChanges,   \* bound on the changes to the stores
  MaxDeaths     \* bound on processes killed and checks that fail

\* A stamp is never one still in use: the code makes it of a clock.
ASSUME FreshAssumption ==
  /\ {NoChild, "none", "keeper"} \intersect Children = {} /\ NoStamp \notin Stamps
  /\ \A used \in [Children -> Stamps \union {NoStamp}] :
       \E s \in Stamps : \A c \in Children : used[c] # s
  /\ "keeper" \in Requesters
  /\ MaxChanges \in Nat /\ MaxDeaths \in Nat

VARIABLES
  latest,     \* the version of the stores
  covered,    \* the version the index covers
  rewrites,   \* the versions above it that no append can bring in
  gen,        \* Stamp: how often the index was written
  holder,     \* "none", "keeper" or a child
  keep,       \* the keeper's check
  verdict,    \* what the last check published
  query,      \* a query taking the verdict
  req,        \* requestWarmup of each requester
  claim,      \* warmup.sentinel
  child,      \* the detached builds
  deaths

index == <<covered, rewrites, gen>>
keeping == <<keep, verdict>>
warming == <<req, claim, child>>
freshVars == <<latest, index, holder, keeping, query, warming, deaths>>

Versions == 0..MaxChanges
Idle == [at |-> "idle", walked |-> 0, stale |-> FALSE, stamp |-> 0]
NoQuery == [at |-> "rest", stamp |-> 0]
Unborn == [at |-> "rest", stamp |-> NoStamp, walked |-> 0, gen |-> 0]

FreshTypeOK ==
  /\ latest \in Versions /\ rewrites \subseteq covered + 1..latest
  /\ covered \in 0..latest /\ gen \in Nat
  /\ holder \in {"none", "keeper"} \union Children
  /\ holder = "keeper" <=> keep.at \in {"walk", "act"}
  /\ \A c \in Children : holder = c <=> child[c].at = "build"
  /\ keep \in [at : {"idle", "want", "walk", "act", "publish"},
               walked : Versions, stale : BOOLEAN, stamp : Nat]
  /\ verdict \in [stale : BOOLEAN, stamp : Nat]
  /\ query \in [at : {"rest", "compare"}, stamp : Nat]
  /\ req \in [Requesters -> {"rest", "ask", "claim", "take", "create", "spawn"}]
  /\ claim = NoClaim \/ claim \in [stamp : Stamps, owner : Children \union {NoChild},
                                   quiet : BOOLEAN]
  /\ child \in [Children -> [at : {"rest", "born", "look", "lock", "build", "clear"},
                             stamp : Stamps \union {NoStamp}, walked : Versions, gen : Nat]]
  /\ deaths \in 0..MaxDeaths

FreshInit ==
  /\ latest = 0 /\ rewrites = {} /\ covered = 0 /\ gen = 0 /\ holder = "none"
  /\ keep = [Idle EXCEPT !.at = "want"]
  /\ verdict = [stale |-> FALSE, stamp |-> 0]
  /\ query = NoQuery
  /\ req = [r \in Requesters |-> "rest"]
  /\ claim = NoClaim /\ child = [c \in Children |-> Unborn]
  /\ deaths = 0

-----------------------------------------------------------------------------
(* The stores. *)

Change(rewrite) ==
  /\ latest < MaxChanges
  /\ latest' = latest + 1
  /\ rewrites' = IF rewrite THEN rewrites \union {latest'} ELSE rewrites
  /\ UNCHANGED <<covered, gen, holder, keeping, query, warming, deaths>>

\* A pass writes what it walked, and nothing when that is what the index covers.
Write(walked) ==
  /\ covered' = walked
  /\ rewrites' = {v \in rewrites : walked < v}
  /\ gen' = IF walked = covered THEN gen ELSE gen + 1

-----------------------------------------------------------------------------
(* The keeper. *)

\* The first check runs at once, the others on the ticker.  A tick is skipped when
\* no query came for keepIdleAfter, and a query whose verdict is old brings the
\* next one forward: a tick that is late or early.  onStale runs inside a check.
Tick ==
  /\ keep.at = "idle" /\ req["keeper"] = "rest"
  /\ keep' = [keep EXCEPT !.at = "want"]
  /\ UNCHANGED <<latest, index, holder, verdict, query, warming, deaths>>

LockFree_Always == TRUE
LockFree == holder = "none"

CheckLocks ==
  /\ keep.at = "want" /\ LockFree
  /\ holder' = "keeper"
  /\ keep' = [keep EXCEPT !.at = "walk"]
  /\ UNCHANGED <<latest, index, verdict, query, warming, deaths>>

\* Held past keepLockPatience: the last verdict stands.
CheckGivesUp ==
  /\ keep.at = "want" /\ ~LockFree
  /\ keep' = [keep EXCEPT !.at = "idle"]
  /\ UNCHANGED <<latest, index, holder, verdict, query, warming, deaths>>

CheckWalks ==
  /\ keep.at = "walk"
  /\ keep' = [keep EXCEPT !.at = "act", !.walked = latest]
  /\ UNCHANGED <<latest, index, holder, verdict, query, warming, deaths>>

\* staleLocked: an append is done here, anything else is for a detached build.
HandsOff(walked) == \E v \in rewrites : v <= walked

CheckActs ==
  /\ keep.at = "act"
  /\ IF HandsOff(keep.walked) THEN UNCHANGED index ELSE Write(keep.walked)
  /\ keep' = [Idle EXCEPT !.at = "publish", !.stale = HandsOff(keep.walked),
                         !.stamp = IF HandsOff(keep.walked) THEN gen ELSE 0]
  /\ holder' = "none"
  /\ UNCHANGED <<latest, verdict, query, warming, deaths>>

\* A check that fails publishes that nothing is known to be behind.
CheckFails ==
  /\ keep.at = "act" /\ deaths < MaxDeaths
  /\ keep' = [Idle EXCEPT !.at = "publish"]
  /\ holder' = "none" /\ deaths' = deaths + 1
  /\ UNCHANGED <<latest, index, verdict, query, warming>>

\* The stamp of the verdict is the one read under the lock.
StampOf_Late(k) == gen
StampOf(k) == k.stamp

AsksAgain_Once(k) == k.stale /\ ~verdict.stale
AsksAgain(k) == k.stale

CheckPublishes ==
  /\ keep.at = "publish"
  /\ verdict' = [stale |-> keep.stale, stamp |-> StampOf(keep)]
  /\ keep' = Idle
  /\ req' = IF AsksAgain(keep) THEN [req EXCEPT !["keeper"] = "ask"] ELSE req
  /\ UNCHANGED <<latest, index, holder, query, claim, child, deaths>>

\* A query takes the verdict; one that says the index is behind it believes only
\* while the index has the stamp the verdict came with.
Ask ==
  /\ query.at = "rest"
  /\ query' = IF verdict.stale THEN [at |-> "compare", stamp |-> verdict.stamp] ELSE NoQuery
  /\ UNCHANGED <<latest, index, holder, keep, verdict, warming, deaths>>

AnswersStale_Unchecked == query.at = "compare"
AnswersStale == query.at = "compare" /\ query.stamp = gen

Answer ==
  /\ query.at = "compare"
  /\ query' = NoQuery
  /\ UNCHANGED <<latest, index, holder, keeping, warming, deaths>>

-----------------------------------------------------------------------------
(* The claim and the request. *)

Running(c) == child[c].at # "rest"
OwnerLive == /\ claim # NoClaim /\ claim.owner # NoChild
             /\ Running(claim.owner) /\ child[claim.owner].stamp = claim.stamp
Publishing == \E c \in Children : child[c].at \in {"look", "lock", "build"}

WarmupRunning ==
  Publishing \/ ~LockFree \/ OwnerLive \/ (claim # NoClaim /\ ~claim.quiet)

\* A live owner's claim stands; one that names nobody stands until it is quiet.
ClaimHeld_Forever == OwnerLive \/ claim.owner = NoChild
ClaimHeld == OwnerLive \/ (claim.owner = NoChild /\ ~claim.quiet)

Requests(r, at) == req' = [req EXCEPT ![r] = at]

\* A hook asks whenever it finds the index behind; the keeper only when no build
\* is known to run.
HookAsks(r) ==
  /\ r # "keeper" /\ req[r] = "rest" /\ covered < latest
  /\ Requests(r, "claim")
  /\ UNCHANGED <<latest, index, holder, keeping, query, claim, child, deaths>>

KeeperAsks ==
  /\ req["keeper"] = "ask"
  /\ Requests("keeper", IF WarmupRunning THEN "rest" ELSE "claim")
  /\ UNCHANGED <<latest, index, holder, keeping, query, claim, child, deaths>>

NewStamp == CHOOSE s \in Stamps : \A c \in Children : Running(c) => child[c].stamp # s

\* O_EXCL: the sentinel is made, or there is one to be judged.
Create(r) ==
  /\ req[r] \in {"claim", "create"}
  /\ IF claim = NoClaim
     THEN /\ claim' = [stamp |-> NewStamp, owner |-> NoChild, quiet |-> FALSE]
          /\ Requests(r, "spawn")
     ELSE /\ Requests(r, IF ClaimHeld \/ req[r] = "create" THEN "rest" ELSE "take")
          /\ UNCHANGED claim
  /\ UNCHANGED <<latest, index, holder, keeping, query, child, deaths>>

\* Removed by name: what it holds by now was not looked at again.
TakeOver(r) ==
  /\ req[r] = "take"
  /\ claim' = NoClaim
  /\ Requests(r, "create")
  /\ UNCHANGED <<latest, index, holder, keeping, query, child, deaths>>

\* The child is given the stamp the sentinel holds when it is started, none when
\* it was removed meanwhile, and is named there as its owner.
Spawn(r, c) ==
  /\ req[r] = "spawn" /\ ~Running(c)
  /\ child' = [child EXCEPT ![c] =
       [Unborn EXCEPT !.at = "born",
                      !.stamp = IF claim = NoClaim THEN NoStamp ELSE claim.stamp]]
  /\ claim' \in (IF claim = NoClaim THEN {NoClaim} ELSE {claim, [claim EXCEPT !.owner = c]})
  /\ Requests(r, "rest")
  /\ UNCHANGED <<latest, index, holder, keeping, query, deaths>>

\* Killed between the claim and the child, or the child does not start.
SpawnFails(r) ==
  /\ req[r] = "spawn" /\ deaths < MaxDeaths
  /\ deaths' = deaths + 1
  /\ Requests(r, "rest")
  /\ UNCHANGED <<latest, index, holder, keeping, query, claim, child>>

\* warmupDeadAfter without a word from anybody.
Quiet ==
  /\ claim # NoClaim /\ ~claim.quiet /\ ~Publishing
  /\ claim' = [claim EXCEPT !.quiet = TRUE]
  /\ UNCHANGED <<latest, index, holder, keeping, query, req, child, deaths>>

-----------------------------------------------------------------------------
(* The detached build. *)

Owns(c) == claim # NoClaim /\ claim.stamp = child[c].stamp
Goes(c, at) ==
  child' = [child EXCEPT ![c] = [Unborn EXCEPT !.at = at, !.stamp = child[c].stamp]]

ChildAdopts(c) ==
  /\ child[c].at = "born"
  /\ claim' = IF Owns(c) THEN [claim EXCEPT !.owner = c] ELSE claim
  /\ Goes(c, "look")
  /\ UNCHANGED <<latest, index, holder, keeping, query, req, deaths>>

\* CheckUpToDate walks without the lock and notes what the walk began from.
ChildLooks(c) ==
  /\ child[c].at = "look"
  /\ child' = [child EXCEPT ![c] =
       IF covered = latest THEN [@ EXCEPT !.at = "clear"]
                           ELSE [@ EXCEPT !.at = "lock", !.walked = latest, !.gen = gen]]
  /\ UNCHANGED <<latest, index, holder, keeping, query, req, claim, deaths>>

\* EnsureChecked: the walk is used only while nobody wrote the index since, and
\* no listing changed.
ReusesWalk_Always(c) == TRUE
ReusesWalk(c) == child[c].gen = gen

ChildLocks(c) ==
  /\ child[c].at = "lock" /\ LockFree
  /\ holder' = c
  /\ \E walked \in (IF ReusesWalk(c) THEN {child[c].walked, latest} ELSE {latest}) :
       child' = [child EXCEPT ![c].at = "build", ![c].walked = walked]
  /\ UNCHANGED <<latest, index, keeping, query, req, claim, deaths>>

\* A directory that is replaced takes the sentinel with it.
ChildBuilds(c) ==
  /\ child[c].at = "build"
  /\ Write(child[c].walked)
  /\ claim' \in (IF child[c].walked = covered THEN {claim} ELSE {claim, NoClaim})
  /\ holder' = "none"
  /\ Goes(c, "clear")
  /\ UNCHANGED <<latest, keeping, query, req, deaths>>

ChildClears(c) ==
  /\ child[c].at = "clear"
  /\ claim' = IF Owns(c) \/ child[c].stamp = NoStamp THEN NoClaim ELSE claim
  /\ child' = [child EXCEPT ![c] = Unborn]
  /\ UNCHANGED <<latest, index, holder, keeping, query, req, deaths>>

KillChild(c) ==
  /\ Running(c) /\ deaths < MaxDeaths
  /\ child' = [child EXCEPT ![c] = Unborn]
  /\ holder' = IF holder = c THEN "none" ELSE holder
  /\ deaths' = deaths + 1
  /\ UNCHANGED <<latest, index, keeping, query, req, claim>>

-----------------------------------------------------------------------------
FreshNext ==
  \/ \E rewrite \in BOOLEAN : Change(rewrite)
  \/ Tick \/ CheckLocks \/ CheckGivesUp \/ CheckWalks \/ CheckActs \/ CheckFails
  \/ CheckPublishes \/ Ask \/ Answer
  \/ KeeperAsks \/ Quiet
  \/ \E r \in Requesters :
       \/ HookAsks(r) \/ Create(r) \/ TakeOver(r) \/ SpawnFails(r)
       \/ \E c \in Children : Spawn(r, c)
  \/ \E c \in Children :
       ChildAdopts(c) \/ ChildLooks(c) \/ ChildLocks(c) \/ ChildBuilds(c) \/ ChildClears(c) \/ KillChild(c)

KeeperGoesOn == CheckWalks \/ CheckActs \/ CheckPublishes \/ KeeperAsks
RequesterGoesOn(r) == Create(r) \/ TakeOver(r) \/ \E c \in Children : Spawn(r, c)
ChildGoesOn(c) == ChildAdopts(c) \/ ChildLooks(c) \/ ChildBuilds(c) \/ ChildClears(c)

\* Queries keep coming, timers fire, processes that were not killed run on, and
\* nobody is refused the index lock for ever.
FreshFairness ==
  /\ WF_freshVars(Ask) /\ WF_freshVars(Answer)
  /\ SF_freshVars(Tick) /\ SF_freshVars(CheckLocks)
  /\ WF_freshVars(KeeperGoesOn) /\ WF_freshVars(Quiet)
  /\ \A r \in Requesters : WF_freshVars(RequesterGoesOn(r))
  /\ \A c \in Children : WF_freshVars(ChildGoesOn(c)) /\ SF_freshVars(ChildLocks(c))

FreshSpec == FreshInit /\ [][FreshNext]_freshVars /\ FreshFairness

-----------------------------------------------------------------------------
\* A query that says the index is behind is right: the verdict it took was
\* reached against the index as it is now, and no build has landed since.
StaleIsTrue == AnswersStale => covered < latest

\* No pass takes the index back to an older walk, whoever wrote it in between.
CoverageOnlyGrows == [][covered' >= covered]_freshVars

\* As long as queries come, the index catches up with the stores: no claim left
\* by a dead process, no old verdict and no busy lock stops that.
AlwaysCatchesUp == []<>(covered = latest)
=============================================================================
