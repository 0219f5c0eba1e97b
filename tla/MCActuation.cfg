SPECIFICATION Spec
CONSTANTS
  Origins = {"api", "telegram"}
  Tools <- MCTools
  Args <- HomeArgs
  PolicyEnabled = TRUE
  AllowedTools <- NoRules
  DeniedTools <- UndoRules
  ConfirmTools = {}
  ToolLimits <- NoLimits
  ToolTtl = 1
  Retention = 2
  MaxToolConfirmations = 1
  Window = 1
  HistoryLimit = 2
  ScanFactor = 2
  Devices = {"lamp", "heater"}
  Target <- MCTarget
  InitialState <- MCInitialState
  Commands <- HomeCommands
  Confirmers = {c1, c2}
  AllowedOrigins = {"api"}
  OriginLimit <- MCLimits
  Safety <- MCSafety
  ConfirmTtl = 1
  MaxPending = 1
  MaxSlots = 3
  MaxAudit = 4
  MaxTime = 1
  MaxBoots = 1
CHECK_DEADLOCK FALSE
SYMMETRY Handlers
INVARIANTS
  EveryExecutionPaid
  GuardedRunsConfirmed
  CapturedUndoRestores
