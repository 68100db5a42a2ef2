SPECIFICATION ReadSpec
CONSTANTS
  Sessions = {a}
  LogIds = {l1, l2, l3}
  NoDir = NoDir
  NoLog = NoLog
  MaxVersion = 2
  MaxWrites = 2
  MaxCrashes = 0
  MaxParked = 0
  DeadShareCompact = 2
  Refusals = {}
  HookActs = {}
  EmptyIndex = FALSE
  ScrubFails = FALSE
SYMMETRY LogSymmetry
INVARIANT OldManifestStaysTrue
