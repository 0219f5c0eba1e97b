SPECIFICATION Spec
CONSTANTS
  MaxSentences = 2
  MinChars = 2
  MinClause = 2
  Replies <- AllReplies
  ToolReplies <- CallReplies
  Unspoken <- MuteReplies
  MaxToken = 2
  Profiles = {dana}
  NoSpeaker = NoSpeaker
  LocalMinScore = 82
  Denoisers = {"deepfilternet"}
  Utterances = {"ghost", "filler", "quick", "search", "talk"}
  Providers = {"local", "fixed"}
  Modes = {"wake", "ptt"}
  MaxCycles = 2
  MaxCrashes = 1
CHECK_DEADLOCK FALSE
INVARIANTS
  HearsOnlyUser
  SpokenFaithfully
PROPERTIES
  ResumesListening
