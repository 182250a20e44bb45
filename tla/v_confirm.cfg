SPECIFICATION Spec
CONSTANTS
  r1 = r1
  r2 = r2
  r3 = r3
  Requests = {r1, r2}
  Kinds <- TextThenYes
  Timer = Timer
  Nobody = Nobody
  AgentReplies = {"none"}
  MaxBusy = 1
  MaxDeaths = 0
  MaxExpiries = 0
PROPERTIES YesQueuesTheDraft
CHECK_DEADLOCK FALSE
