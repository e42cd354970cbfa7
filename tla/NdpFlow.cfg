SPECIFICATION NdpSpec
CONSTANTS
  FlowPackets = 3
  InitWindow = 2
  Networks <- MCNetworks
INVARIANTS
  OneCopy
  PullsClock
PROPERTIES
  InStep
  Finishes
CHECK_DEADLOCK FALSE
