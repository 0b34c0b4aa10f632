SPECIFICATION Spec
CONSTANTS
  zero = zero
  bitmap = bitmap
  a = a
  Image <- Contents
  ZeroImage = zero
  HeaderImage = bitmap
  NumBits = 3
  NumHeaderPages = 1
  WordMod = 5
INVARIANT ExtentWithinBitmap
