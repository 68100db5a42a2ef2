SPECIFICATION EitherSpec
CONSTANTS
  Sessions = {a}
  LogIds = {l1, l2, l3}
  NoDir = NoDir
  NoLog = NoLog
  MaxVersion = 2
  MaxWrites = 3
  MaxCrashes = 0
  MaxParked = 0
  DeadShareCompact = 2
  Refusals = {}
  HookActs = {}
  EmptyIndex = FALSE
  ScrubFails = FALSE
  Buckets = {b1, b2}
  NoBucket = NoBucket
  MaxTurns = 4
  MaxLayers = 2
  MaxEvents = 1
SYMMETRY NameSymmetry
VIEW EitherView
INVARIANTS ReaderTypeOK SearchInOneGeneration
INVARIANTS LayersTypeOK CommitIsCovered CalmSearchIsWhole
