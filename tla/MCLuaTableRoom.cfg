SPECIFICATION Assignments
CONSTANTS
  a = a
  b = b
  c = c
  Nil = Nil
  Index <- SmallIndex
  Name <- ManyNames
  Value <- Key
  Stored <- MCStored
  hash <- MCHash
  Presize <- NoPresize
  LOOKUP_BITS = 1
  ARRAY_MIN = 2
  HASH_MIN = 2
  CROWD = 2
  INDEX_BITS = 8
  MAX_INDEX = 100
  MaxArray = 8
  MaxHash = 16
  MaxRehash = 6
  Walked <- MCWalked
INVARIANTS
  RoomAfterRehash
CHECK_DEADLOCK FALSE
