SPECIFICATION Spec
CONSTANTS
  Origins <- MCOrigins
  Tools <- MCTools
  Args = {"a"}
  PolicyEnabled = TRUE
  AllowedTools <- MCAllowed
  DeniedTools <- MCDenied
  ConfirmTools <- MCConfirm
  ToolLimits <- MCLimits
  ToolTtl = 1
  Retention = 3
  MaxToolConfirmations = 1
  Window = 2
  ConfirmedFlags = {FALSE, TRUE}
  MaxCalls = 4
  MaxTime = 3
CHECK_DEADLOCK FALSE
INVARIANTS
  EveryRunHasItsOwnLeg
  WindowNeverExceeded
