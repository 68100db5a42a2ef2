SPECIFICATION Spec
CONSTANTS
  Sessions = {a, b}
  LogIds = {l1, l2}
  NoDir = NoDir
  NoLog = NoLog
  MaxVersion = 2
  MaxWrites = 3
  MaxCrashes = 0
  MaxParked = 0
  DeadShareCompact = 2
  Refusals = {}
  HookActs = {}
  EmptyIndex = FALSE
  ScrubFails = TRUE
SYMMETRY LogSymmetry
INVARIANT ErasedWhenUnmarked
