SPECIFICATION FairSpec
CONSTANTS
  Titles = {"a"}
  InitialPending <- OneGoal
  FixTitles = {}
  Workers = {w1, w2}
  NoGoal = NoGoal
  NoWorker = NoWorker
  AutoFix = FALSE
  Resuming = FALSE
  MaxChanges = 0
PROPERTIES ShutdownEnds
CHECK_DEADLOCK FALSE
