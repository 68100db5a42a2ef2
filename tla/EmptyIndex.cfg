SPECIFICATION Spec
CONSTANTS
  Sessions = {a}
  LogIds = {l1, l2}
  NoDir = NoDir
  NoLog = NoLog
  MaxVersion = 1
  MaxWrites = 3
  MaxCrashes = 1
  MaxParked = 0
  DeadShareCompact = 2
  Refusals = {}
  HookActs = {}
  EmptyIndex = TRUE
  ScrubFails = FALSE
INVARIANT NoTurnTwice
