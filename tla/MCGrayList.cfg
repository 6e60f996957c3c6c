SPECIFICATION Spec
CONSTANTS
  globals = globals
  registry = registry
  g = g
  f = f
  k = k
  u = u
  Nil = Nil
  Container <- MCContainer
  Closure <- MCClosure
  String <- MCString
  Upvalue <- MCUpvalue
  Root <- MCRoot
  Fixed <- MCFixed
  NSlots = 1
SYMMETRY Symmetric
INVARIANTS
  ListShape
PROPERTIES
  ImplementsGc
CHECK_DEADLOCK FALSE
