SPECIFICATION Spec
VIEW StateView
CONSTANTS
  SparseCap = 2
  DenseCap = 3
  Threshold <- MCThreshold
  Default = 0
  EndsBy = 5
  Value = {0, 1}
  InternalCap = 2
  Splitter = {"M", "T", "A", "RS"}
  MaxBatch = 2
  SizeMod = 16
  NA = NA
  Careful = TRUE
INVARIANTS
  TypeOK
  TreeSound
  CursorIsPath
  PinsBalance
PROPERTIES
  ImplementsMap
  NnzFollows
