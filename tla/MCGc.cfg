SPECIFICATION FairSpec
CONSTANTS
  globals = globals
  f = f
  t = t
  x = x
  u = u
  Nil = Nil
  Container <- MCContainer
  String <- MCString
  Upvalue <- MCUpvalue
  Root <- MCRoot
  Closure <- MCClosure
  Fixed <- MCFixed
  NSlots = 2
INVARIANTS
  Tricolour
  CycleExact
PROPERTIES
  FreedIsGarbage
  CollectionEnds
CHECK_DEADLOCK FALSE
