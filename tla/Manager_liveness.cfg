SPECIFICATION FairSpec
CONSTANTS
  a = a
  b = b
  c = c
  Names = {a, b}
  Loads <- PairLoads
PROPERTIES ShutdownCompletes DroppedDisappears WaitingIsDecided
