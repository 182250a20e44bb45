SPECIFICATION Spec
CONSTANTS
  r1 = r1
  r2 = r2
  r3 = r3
  Requests = {r1, r2, r3}
  Kinds <- ThreeRequests
  Timer = Timer
  Nobody = Nobody
  AgentReplies = {"spec", "none", "missing"}
  MaxBusy = 2
  MaxDeaths = 1
  MaxExpiries = 1
INVARIANTS TypeOK QueuedIsWritten QueuedOnce DraftAccountedFor NothingUnconfirmed NothingOverlooked
CHECK_DEADLOCK FALSE
