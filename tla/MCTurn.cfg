CONSTANTS
    Sentences <- MCSentences
    Routes <- MCRoutes
    Replies <- MCReplies
    Histories <- MCHistories
    Posts <- MCPosts
    MaxHistory = 4
    Runtime = TRUE
    MaxBody = 10
    Overhead = 2
    Envelope = 1
    CompactSystem = 2
    CompactEscapes = 1
    Context = 8
    ProxyOn = TRUE
    Trigger = {"overflow", "decline"}
    TimerLimit = 1
SPECIFICATION TurnSpec
INVARIANTS
  RoutedAsMeant
  ReplyShown
  EffectsRecorded
  RequestsSound
PROPERTIES
  TurnEnds
