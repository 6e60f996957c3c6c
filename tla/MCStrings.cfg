SPECIFICATION Spec
CONSTANTS
  k = k
  x = x
  y = y
  o1 = o1
  o2 = o2
  o3 = o3
  Nil = Nil
  Text <- MCText
  FixedText <- MCFixedText
  Object <- MCObject
  hash <- MCHash
  STRING_SIZE = 3
  INIT_SLOTS = 1
  MIN_CAP = 2
  USIZE_MAX = 1021
  MaxSlots = 4
  MaxLen = 3
  MaxRefusals = 1
SYMMETRY Symmetric
INVARIANTS
  InternOK
  Interned
  RootsLive
  BytesExact
  LoadBound
  PauseHonoured
