SPECIFICATION FairDaemonSpec
CONSTANTS
  a = a
  Names = {a}
  Loads <- SmallLoads
  MaxCommands = 1
  MaxQueue = 2
PROPERTIES GracefulStop OnlyDeadGroupsRemoved SupervisionGoesOn RunReturns
