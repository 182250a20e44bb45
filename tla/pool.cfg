SPECIFICATION FairSpec
CONSTANTS
  Titles = {"a", "b", "fix"}
  InitialPending <- TwoGoals
  FixTitles = {"fix"}
  Workers = {w1, w2}
  NoGoal = NoGoal
  NoWorker = NoWorker
  AutoFix = TRUE
  Resuming = TRUE
  MaxChanges = 1
INVARIANTS TypeOK OneGoalAtATime NoGoalTwice PausedMeansIdle PointerForHeadOnly
PROPERTIES QueuedGoalRuns ShutdownEndsButFor
CHECK_DEADLOCK FALSE
