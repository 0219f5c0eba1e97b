SPECIFICATION Spec
CONSTANTS
  Retention = 1
  MaxMessages = 3
  MaxSessions = 1
  IdleTtl = 1
  Handlers = {h1, h2}
  NoHandler = NoHandler
  ClientIds = {client}
  MaxHistory = 2
  TurnLimit = 1
  MaxTurns = 2
  MaxTime = 2
  MaxFaults = 1
  MaxClears = 1
CHECK_DEADLOCK FALSE
SYMMETRY Connections
INVARIANTS
  RunningTurnSeen
  PromptEndsWithTurn
  ConversationWhole
