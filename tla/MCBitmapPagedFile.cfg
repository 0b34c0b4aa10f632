SPECIFICATION Spec
CONSTANTS
  zero = zero
  bitmap = bitmap
  a = a
  Image <- Contents
  ZeroImage = zero
  HeaderImage = bitmap
  NumBits = 3
  NumHeaderPages = 1
  WordMod = 5
INVARIANTS
  TypeOK
  BitsWithinExtent
  DiskBitsInFile
PROPERTIES
  OnlyWritesChangePages
  AllocationIsFresh
  OutOfSpaceMeansFull
