SPECIFICATION Spec
CONSTANTS
  Name = {n1}
  Fsm = {f1}
  Tree = {b1}
  NodeType = {t1}
  Cond = cond
  Request = {p1, p2}
  MaxOpenConns = 3
  MaxVersion <- MCMaxVersion
  FieldMax = 1
  KeyMax = 3
  MaxRevision = 2
  Faults = TRUE
SYMMETRY Symm
INVARIANTS
  IInv
  StuckOnlyByPool
  SoloIntegrity
PROPERTIES
  SoloAttaches
  ImplementsTable
