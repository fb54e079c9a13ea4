SPECIFICATION Spec
CONSTANTS
  Field = {f1, f2}
  Template = {t1}
  NPC = {n1}
  Request = {p1, p2}
  CacheOn = FALSE
  Miss = miss
  MaxVersion = 3
  Faults = TRUE
SYMMETRY Symm
INVARIANTS
  TypeOK
  IInv
  LiveRefsMatch
PROPERTY
  EditsOnlyDisabled
