SPECIFICATION Spec
CONSTANTS
  Sizes = {1, 2}
  BufSizes = {2, 3}
  Rates = {1, 2}
  MaxLight = 3
  MaxPackets = 3
  MaxTime = 4
  Reuses = {TRUE, FALSE}
INVARIANTS
  BooksKept
  InOrder
PROPERTIES
  NeverEarly
  Drains
CHECK_DEADLOCK FALSE
