SPECIFICATION Spec
SYMMETRY Symmetry
CONSTANTS
  g = g  p = p  f = f  s = s  x = x
  Table = {g, p}
  Function = {f}
  String = {s}
  Ordinary = {x}
  Nil = Nil
  Absent = Absent
  MT_MAX_LOOP = 4
  Used <- MCUsed
  Stored <- MCStored
  Operator = {"__unm"}
  MaxKeys = 2
INVARIANTS IndexAgrees AssignAgrees UndefinedIsUnassigned
