SPECIFICATION Spec
CONSTANTS
  r1 = r1
  r2 = r2
  r3 = r3
  r4 = r4
  Slot <- Records
  HEAD = HEAD
  NULL = NULL
  CountMod = 8
INVARIANTS
  TypeOK
  LinksInverse
  WalksAgree
PROPERTY ImplementsQueue
