SPECIFICATION BesideSpec
CONSTANTS
  Sessions = {a}
  LogIds = {l1, l2}
  NoDir = NoDir
  NoLog = NoLog
  MaxVersion = 2
  MaxWrites = 3
  MaxCrashes = 1
  MaxParked = 1
  DeadShareCompact = 2
  Refusals = {"install", "restore"}
  HookActs = {"mkdir", "defer"}
  EmptyIndex = TRUE
  ScrubFails = FALSE
  Hosts = {"tells", "shows", "apart", "defers"}
  Hooks = {h, k}
  NoHook = NoHook
  MaxCaptures = 2
  MaxTroubles <- MCMaxTroubles
  Texts <- MCTexts
  Mute = {m, n}
  Heard = {h, k}
  NoBox = NoBox
  MaxMishaps = 1
INVARIANTS PacketTypeOK SecondCopyHasAReason FailureHoldsOld
INVARIANTS TextTypeOK ToldOnce NoneGoesUntold
PROPERTIES Settles DeferredTextMoves PacketArrives
