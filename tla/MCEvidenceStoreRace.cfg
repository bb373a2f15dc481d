SPECIFICATION Spec
CONSTANTS
  Writers = {p1, p2}
  Contents = {c1}
  MaxInodes = 6
  MaxOps = 1
  Exclusive = {}
  Faulty = {}
INVARIANT AnyAckedReadable
