SPECIFICATION LocalSpec
CONSTANTS
  Keys = {a, b}
  Procs = {p, q}
  NoProc = NoProc
  MaxKills = 2
  MaxWipes = 1
  Children = {c1}
  NoChild = NoChild
  Requesters = {"keeper", "hook"}
  Stamps = {1, 2}
  NoStamp = NoStamp
  NoClaim = NoClaim
  MaxChanges = 2
  MaxDeaths = 1
  MaxLines = 3
  MaxRewinds = 1
  MaxPassKills = 1
  Undated = {2}
  Beside = FALSE
INVARIANTS ForgetTypeOK ForgottenStaysOut MissingIsListed LiftedStaysLifted
INVARIANTS FreshTypeOK StaleIsTrue
INVARIANTS IngestTypeOK UntouchedIsHeld NoLineTwice
PROPERTIES CoverageOnlyGrows AlwaysCatchesUp TranscriptIsIndexed
