SPECIFICATION HSpec
VIEW StateView
CONSTANTS
  zero = zero
  a = a
  Image <- Contents
  ZeroImage = zero
  HeaderImage = a
  NumBits = 2
  NumHeaderPages = 1
  WordMod = 8
  NumSlots = 2
  Slot <- Positions
  HEAD = HEAD
  NULL = NULL
  CountMod = 1
  MaxPins = 2
  OverwritePIDs = {0, 1}
  DisposePins = {1}
INVARIANTS
  TypeOK
  HashMatchesSlots
  UnpinnedAreListed
  CachedIsAllocated
  BlockObjectFresh
  CleanIsOnDisk
PROPERTIES
  PinnedPagesStay
  ImplementsPageStore
  ImplementsPagePool
