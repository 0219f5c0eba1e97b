SPECIFICATION Spec
CONSTANTS
  Facts <- MCFacts
  Similar <- MCSimilar
  Profile <- MCProfile
  KindLimit = 3
  MaxAge = 1
  MaxBatch = 1
  MaxId = 2
  MaxTime = 1
  MaxFaults = 1
  MaxBoots = 1
INVARIANTS
  AnswersShareable
  StoredIsWritable
  LiveRowsProjected
PROPERTIES
  StatementsTake
