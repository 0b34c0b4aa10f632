SPECIFICATION HSpec
VIEW StateView
CONSTANTS
  Absent = Absent
  NA = NA
  Cap = 2
  EndsBy = 3
  Value = {0, 1}
  Default = 0
  MaxBatch = 2
  CountMod = 8
  Careful = FALSE
PROPERTY RangePutsKeepTheRest
