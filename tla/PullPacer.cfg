SPECIFICATION Spec
CONSTANTS
  NumFlows = 3
  DrainTime = 2
  MaxWaiting = 2
INVARIANTS
  NoLostWakeup
  TakeTurns
PROPERTIES
  Paced
  Served
