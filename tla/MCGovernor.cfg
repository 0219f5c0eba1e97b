SPECIFICATION Spec
CONSTANTS
  Managed = {"genie-core", "llm", "homeassistant", "jellyfin"}
  NightSwap = TRUE
  Levels = {0, 2}
  StopOptins = 2
  ZramLevel = 1
  MaxFailures = 2
  MaxCommands = 2
  MaxShifts = 1
  MaxCrashes = 1
INVARIANTS
  ServicesFollowMode
  ResidentModelFits
PROPERTIES
  ModeSettles
