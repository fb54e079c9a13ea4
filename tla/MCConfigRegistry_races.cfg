SPECIFICATION Spec
CONSTANTS
  Word = {w1, w2}
  NodeType = {t1}
  FSM = {f1}
  Tree = {b1}
  NPC = {n1}
  Region = {}
  Blank = blank
  Seeded = {t1}
  Request = {p1, p2}
  Faults = TRUE
  CountMayFail = TRUE
  MaxVersion <- MCMaxVersion
  WordMax = 0
  TypeMax = 1
  FSMMax = 3
  TreeMax = 3
  NPCMax = 2
  RegionMax = 2
SYMMETRY Symm
INVARIANTS
  TypeOK
  IInv
PROPERTY
  EditsOnlyDisabled
\* The model stops where every row is deleted or at its bound.
CHECK_DEADLOCK FALSE
