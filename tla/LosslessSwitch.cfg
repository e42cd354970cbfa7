SPECIFICATION SwitchSpec
CONSTANTS
  p1 = p1
  p2 = p2
  p3 = p3
  Port <- MCPort
  Traffics <- MCTraffics
  MaxSize = 9
  MaxQueued = 1
INVARIANTS
  LosslessOneHot
  OneMore
  NoLostWakeup
PROPERTIES
  EveryPauseEnds
CHECK_DEADLOCK FALSE
