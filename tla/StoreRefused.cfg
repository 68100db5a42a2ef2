SPECIFICATION Spec
CONSTANTS
  Sessions = {a}
  LogIds = {l1, l2, l3}
  NoDir = NoDir
  NoLog = NoLog
  MaxVersion = 2
  MaxWrites = 4
  MaxCrashes = 1
  MaxParked = 1
  DeadShareCompact = 2
  Refusals = {"remove", "install", "restore"}
  HookActs = {"defer"}
  EmptyIndex = FALSE
  ScrubFails = TRUE
SYMMETRY LogSymmetry
INVARIANT TypeOK
PROPERTIES PromiseKept CopyRemains
