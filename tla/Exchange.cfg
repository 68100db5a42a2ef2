SPECIFICATION ExchangeSpec
CONSTANTS
  a = a
  b = b
  c = c
  Records <- MCRecords
  Known <- MCKnown
  Database <- MCDatabase
  Jobs = {"timer", "hand"}
  Scheduled = "timer"
  BoundaryCap = 1
  PromptRestore = TRUE
  OwnRecords = FALSE
  MaxFaults = 1
INVARIANTS ExchangeTypeOK SettledWasHanded NoRecordTwice
PROPERTIES ImportedIsSearchable AlwaysCaughtUp
