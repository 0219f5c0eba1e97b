SPECIFICATION LedgerSpec
CONSTANTS
  HistoryLimit = 2
  ScanFactor = 2
  Acts = {"turn_on", "activate"}
  MaxActions = 4
  MaxLines = 4
  MaxBoots = 1
CHECK_DEADLOCK FALSE
INVARIANTS
  LedgerSound
