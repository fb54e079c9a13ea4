SPECIFICATION Spec
CONSTANTS
  Field = {f1, f2}
  Template = {t1, t2}
  NPC = {n1}
  Request = {p1}
  CacheOn = TRUE
  Miss = miss
  MaxVersion = 3
  Faults = FALSE
SYMMETRY Symm
INVARIANT
  SerialIntegrity
