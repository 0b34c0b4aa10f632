SPECIFICATION Spec
VIEW StateView
CONSTANTS
  SparseCap = 2
  DenseCap = 3
  Threshold <- MCThreshold
  Default = 0
  EndsBy = 5
  Value = {0, 1}
  InternalCap = 2
  Splitter = {"M"}
  MaxBatch = 2
  SizeMod = 16
  NA = NA
  Careful = FALSE
PROPERTIES
  RangeGetsFindAll
