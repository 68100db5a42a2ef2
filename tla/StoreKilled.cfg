SPECIFICATION Spec
CONSTANTS
  Sessions = {a, b}
  LogIds = {l1, l2}
  NoDir = NoDir
  NoLog = NoLog
  MaxVersion = 2
  MaxWrites = 3
  MaxCrashes = 1
  MaxParked = 1
  DeadShareCompact = 2
  Refusals = {}
  HookActs = {}
  EmptyIndex = FALSE
  ScrubFails = FALSE
SYMMETRY LogSymmetry
INVARIANTS LogMatchesRows NoTurnTwice TailUnread ErasedWhenUnmarked
PROPERTIES PromiseKept CopyRemains
