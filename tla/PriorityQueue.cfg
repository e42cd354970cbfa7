SPECIFICATION Spec
CONSTANTS
  MaxQueued = 2
  MaxPackets = 6
  MaxEvents = 2
INVARIANTS
  OneService
  OvertakenOnce
  PauseHonoured
CHECK_DEADLOCK FALSE
