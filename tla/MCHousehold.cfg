SPECIFICATION Spec
CONSTANTS
  Searchers = {s1, s2}
  Keys = {"weather", "news", "pw"}
  PrivateKeys = {"pw"}
  Ttl = 2
  Timeout = 1
  MaxEntries = 1
  MaxTime = 4
  SkillFiles = {"timer", "timer2", "greedy", "broken"}
  SkillName <- MCSkillName
  Signed = {"timer", "greedy", "broken"}
  ManifestOk = {"timer", "timer2", "greedy"}
  Denied = {"greedy"}
  Unusable = {"broken"}
  RequireSignature = TRUE
  RequireManifest = TRUE
  Callers = {t1, t2}
  MaxCalls = 5
  Limit = 2
  Themes = {1, 150, 369}
  MaxMemories = 3
  Topics <- MCTopics
  MaxRows = 2
  MaxMs = 1
  Askers = {a1, a2}
  Households <- MCHouseholds
  GraphTtl = 1
  CallTimeout = 1
  MaxEdits = 1
  MaxAsks = 2
  MemoIds = {1, 2}
  Contents = {"note", "diet"}
  MayHear = {"note"}
  FolderOf <- MCFolder
  Columns = {"tracking", "policy"}
  PolicyColumns = {"policy"}
  MinRecalls = 1
  MinScore = 40
  MaxPromotions = 1
  Measures = {20, 90}
  MaxRecalls = 1
  MaxChanges = 2
  MaxFaults = 1
  MaxDeaths = 1
  Stories <- MCStories
  PartOf <- MCPartOf
  EndOf <- MCEndOf
  StartOf <- MCStartOf
  Numbers = {"40"}
  RowLimit <- MCRowLimit
  FoundLimit = 2
  LineLimit = 3
  TokenBudget = 3
  Proper = {"dana", "ann", "rex", "york"}
  RecentLimit = 4
  MaxTold = 3
  MaxStarts = 2
CHECK_DEADLOCK FALSE
INVARIANTS
  SearchAnswersFresh
  SkillsSound
  RecallSound
  HouseholdAnswered
  TargetsSound
  ExportSound
  
