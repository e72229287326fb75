SPECIFICATION Spec
CONSTANTS
  Names = {"a", "b", "c"}
  Loads <- OneDropped
  Slack = 1
  MaxShutdown = 60
  MaxTime = 10
INVARIANTS TimeoutsHonoured
\* The daemon ends, and with it its clock.
CHECK_DEADLOCK FALSE
