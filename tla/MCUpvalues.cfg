SPECIFICATION Spec
CONSTANTS
  NSlots = 4
  MaxMarks = 4
  MaxArgs = 1
  MaxProtectedArgs = 0
  Capture = {h1, h2}
  Upvalue = {u1, u2}
  NVars = 5
  Value = {a, b}
  Blank = Blank
  Nil = Nil
INVARIANTS
  OnePerVariable
  FramesClosed
SYMMETRY Symmetric
VIEW View
PROPERTIES
  ImplementsCells
