SPECIFICATION ExchangeSpec
CONSTANTS
  a = a
  b = b
  c = c
  Records <- MCRecords
  Known <- MCKnown
  Database <- MCDatabase
  Jobs = {"timer", "hand"}
  Scheduled = "timer"
  BoundaryCap = 1
  PromptRestore = FALSE
  OwnRecords = FALSE
  MaxFaults = 1
PROPERTIES ImportedIsSearchable
