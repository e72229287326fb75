SPECIFICATION FairSpec
CONSTANTS
  Configs <- HeartbeatConfigs
  KillGrace = 1
  MaxTime = 3
  MaxLaunches = 1
PROPERTIES UnhealthyIsRestarted
