SPECIFICATION Spec
CONSTANTS
  Writers = {p1, p2, p3}
  Contents = {c1, c2}
  MaxInodes = 11
  MaxOps = 1
  Exclusive = {c1}
  Faulty = {c1}
SYMMETRY Interchangeable
INVARIANTS PublishedWhole AckedReadable
PROPERTY RefinesArchive
