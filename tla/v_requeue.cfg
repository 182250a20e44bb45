SPECIFICATION Spec
CONSTANTS
  Titles = {"a", "b"}
  InitialPending <- TwoGoals
  FixTitles = {}
  Workers = {w1}
  NoGoal = NoGoal
  NoWorker = NoWorker
  AutoFix = FALSE
  Resuming = FALSE
  MaxChanges = 1
INVARIANTS FinishedNotTaken
CHECK_DEADLOCK FALSE
