SPECIFICATION Spec
CONSTANTS
  Cities <- MCCities
  Sats <- MCSats
  Isls <- MCIsls
  Skies <- MCSkies
  Garbage <- MCGarbage
  Calls = 2
  Number = 2
  Infinity = 30
INVARIANTS
  HeapInOrder
  ShortestDistances
  RoutesDisjoint
CHECK_DEADLOCK FALSE
