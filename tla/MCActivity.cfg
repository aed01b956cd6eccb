SPECIFICATION MCSpec
CONSTANTS
  Second = 2
  Turns = {1, 2}
  Remarks <- Chatter
  PendingLimit = 1
  MaxTime = 4
  MaxRemarks = 2
  MaxConnections = 2
  MaxReads = 1
  MaxCrashes = 1
INVARIANTS  NoOvercount ShownSurvives FlushedIsSaved OnlyObserved
CHECK_DEADLOCK FALSE
VIEW View
