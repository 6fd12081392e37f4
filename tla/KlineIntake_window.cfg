SPECIFICATION Spec
CONSTANTS
  Capacity = 3
  MaxMinute = 6
  RestLimit = 2
  QueueCap = 2
  AtrCandles = 2
INVARIANTS TypeOK WindowExact PartialOnlyIfLost HolesAreLosses AtrsAreNeighbours
