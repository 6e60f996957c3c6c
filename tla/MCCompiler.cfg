CONSTANTS
  MAX_RK = 255
  MAX_REG = 250
  FIELDS_PER_FLUSH = 2
  StackSize = 24
  Programs <- AllPrograms
  Avoided = {"operand with jumps", "boolean operand", "nil folded at a jump target", "not of jumps", "assignment conflict", "value of a test", "values of for in"}
SPECIFICATION Spec
INVARIANTS
  AllocatorAsserts
  FrameFits
PROPERTIES
  OutcomeIsMeaning
  CulpritNamed
  Ends
CHECK_DEADLOCK FALSE
