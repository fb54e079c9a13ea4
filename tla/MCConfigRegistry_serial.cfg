SPECIFICATION Spec
CONSTANTS
  Word = {w1}
  NodeType = {t1}
  FSM = {f1}
  Tree = {b1}
  NPC = {n1}
  Region = {g1}
  Blank = blank
  Seeded = {w1}
  Request = {p1}
  Faults = FALSE
  CountMayFail = FALSE
  MaxVersion <- MCMaxVersion
  WordMax = 2
  TypeMax = 2
  FSMMax = 3
  TreeMax = 3
  NPCMax = 3
  RegionMax = 2
INVARIANTS
  SerialIntegrity
  SerialInv
  ExportSound
PROPERTY
  DeletesOnlyUnnamed
\* The model stops where every row is deleted or at its bound.
CHECK_DEADLOCK FALSE
