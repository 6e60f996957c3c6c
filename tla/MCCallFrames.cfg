SPECIFICATION Spec
CONSTANTS
  NSlots = 10
  MaxFrames = 3
  StackMin = 2
  StackUsed = {1, 6}
  HostMax = 0
  MaxParams = 1
  MaxResults = 1
  VARARG = VARARG
  Value = {a}
  Nil = Nil
  Err = Err
CONSTRAINT Foreseen
VIEW View
INVARIANTS
  StackRoom
  WindowRestored
PROPERTIES
  ImplementsCalls
