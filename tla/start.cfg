SPECIFICATION Spec
CONSTANTS
  Cmds = {c1, c2}
  NoDaemon = NoDaemon
  Nothing = Nothing
  Skills <- TwoRevisions
  NgrokChoices = {TRUE, FALSE}
  MaxDeaths = 1
SYMMETRY CommandSymmetry
INVARIANTS TypeOK NamedBundlesComplete OneDaemon
PROPERTIES SyncedMeansInstalled SeenDaemonSpared
CHECK_DEADLOCK FALSE
