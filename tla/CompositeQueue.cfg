SPECIFICATION Spec
CONSTANTS
  Packets = {1, 2, 3, 4, 5, 6}
  Returnable = {1, 2, 3}
  DataSizes = {4, 5}
  HeaderSize = 3
  MaxSizes = {5, 8}
  RatioHigh = 2
  RatioLow = 1
INVARIANTS
  OneService
  WeightedTurns
PROPERTIES
  NothingVanishes
  Moves
CHECK_DEADLOCK FALSE
