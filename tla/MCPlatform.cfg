SPECIFICATION Spec
CONSTANTS
  Clients = {c1, c2}
  Menus <- MCMenus
  Slots <- MCSlots
  MaxOpens = 3
  MaxFaults = 1
  TokenSet = TRUE
  OriginTokens = {"telegram"}
  RequireToken = FALSE
  Wires <- MCWires
  MaxLine = 3
  MaxHeaderLine = 3
  MaxHeaders = 2
  MaxHeaderBytes = 6
  MaxBody = 2
  MaxResponse = 9
  MaxChunkLine = 2
  ReadSize = 4
  Endpoints <- MCEndpoints
  Units = {"core", "mqtt"}
  Disabled = {}
  Unprobed = {"mqtt"}
  AlertEvery = 2
  Retention = 1
  MaxMinutes = 3
  MaxChanges = 2
  MaxRestarts = 1
  Voices = {v1, v2}
  VoicePermits = 2
  Answers <- MCAnswers
  MaxPiece = 4
  MaxSpoken = 5
  AudioOptions <- MCAudio
  MaxTrouble = 1
  MaxAdapterRestarts = 1
  Versions <- MCVersions
  Prefixed = TRUE
  MaxComponent = 1000
  Binaries <- MCBinaries
  MaxReleases = 1
  MaxCopyFaults = 2
CHECK_DEADLOCK FALSE
INVARIANTS
  EffectsAuthorised
  ReadExactly
  HealthReported
  VoiceAnsweredWhole
  UpdatesSound
PROPERTIES
  DashboardReleased
