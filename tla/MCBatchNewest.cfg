SPECIFICATION Spec
VIEW StateView
CONSTANTS
  EndsBy = 10
  Used = {0, 1, 2, 5, 10}
  Value = {0, 1}
  Default = 0
  Capacity = 3
  LSBytes = 160
  Keep = 2
  Boundary = 2
  Policy = {"FWF"}
  MaxTime = 5
  NA = NA
  Careful = FALSE
PROPERTIES
  PutSets
