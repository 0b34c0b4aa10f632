SPECIFICATION Spec
VIEW StateView
CONSTANTS
  EndsBy = 10
  Used = {0, 1, 5, 8, 10}
  Value = {0, 1}
  Default = 0
  Capacity = 3
  LSBytes = 160
  Keep = 2
  Boundary = 2
  Policy = {"FWF", "LS", "SP", "LRU", "LS_RAND", "LG_RAND"}
  MaxTime = 6
  NA = NA
  Careful = TRUE
INVARIANTS
  TypeOK
  CountsMatch
PROPERTIES
  EvictsAsNamed
  ImplementsStore
