SPECIFICATION TcpSpec
CONSTANTS
  MSS = 2
  FlowPackets = 4
  InitWindow = 3
  MaxTroubles = 3
INVARIANTS
  AcksPrefix
  TimerRuns
  WithinFlow
PROPERTIES
  Reliable
CHECK_DEADLOCK FALSE
