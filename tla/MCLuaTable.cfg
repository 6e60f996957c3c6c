SPECIFICATION Spec
CONSTANTS
  a = a
  b = b
  c = c
  Nil = Nil
  Index <- MCIndex
  Name <- MCName
  Value <- Key
  Stored <- MCStored
  hash <- MCHash
  Presize <- MCPresize
  LOOKUP_BITS = 8
  ARRAY_MIN = 1
  HASH_MIN = 2
  CROWD = 2
  INDEX_BITS = 8
  MAX_INDEX = 100
  MaxArray = 64
  MaxHash = 16
  MaxRehash = 3
  Walked <- MCWalked
INVARIANTS
  TypeOK
  ReadsBack
  LenIsBorder
  RoomAsAsked
  ArrayStays
  RoomAfterRehash
  TraversalExact
CONSTRAINT
  Explored
CHECK_DEADLOCK FALSE
