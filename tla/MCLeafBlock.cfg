SPECIFICATION Spec
VIEW StateView
CONSTANTS
  SparseCap = 3
  DenseCap = 5
  Default = 0
  EndsBy = 9
  Value = {0, 1}
  Splitter = {"M", "A", "T", "RS"}
  Threshold <- MCThreshold
INVARIANTS
  TypeOK
  SegmentSound
  NothingOverflows
PROPERTIES
  ImplementsLeaf
