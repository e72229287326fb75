SPECIFICATION FairSpec
CONSTANTS
  Pids = {p1, p2, p3}
  Init1 = init
  Manager = manager
INVARIANTS GroupKillIsOurs
PROPERTIES ExitMeansGone ExitReported
