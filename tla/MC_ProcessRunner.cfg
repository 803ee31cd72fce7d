CONSTANTS
  h1 = h1
  h2 = h2
  Heir <- MCHeir
  MaxOutput = 2
  Message = 1
  MaxWritten = 3
SPECIFICATION FairSpec
INVARIANTS NoOrphans TruthfulResult
PROPERTIES SettlesOnce Settles
CHECK_DEADLOCK FALSE
