SPECIFICATION Spec
CONSTANTS
  Configs <- ServiceConfigs
  KillGrace = 1
  MaxTime = 3
  MaxLaunches = 3
INVARIANTS TypeOK ChildIffAlive StopSticks RestartsCounted
PROPERTIES RestartBudget BackoffDoubles NoFalseAlarm ImplementsAbstractService
