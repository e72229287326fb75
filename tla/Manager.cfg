SPECIFICATION Spec
CONSTANTS
  a = a
  b = b
  c = c
  Names = {a, b, c}
  Loads <- ChainLoads
INVARIANTS DroppedStaysDown
PROPERTIES LaunchNeedsDependencies DependentsStopFirst AllReachedOnce EachIsSupervised
