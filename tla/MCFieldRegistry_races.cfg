SPECIFICATION FairSpec
CONSTANTS
  Field = {f1, f2}
  Request = {p1, p2}
  Holder = {u1}
  BBHolder = {u1}
  LeafShape = {a, b}
  Reference = reference
  Widens <- MCWidens
  ExposeInput = {FALSE}
  MaxVersion = 2
  Faults = TRUE
  a = a
  b = b
INVARIANTS
  TypeOK
  IInv
  Acyclic
  NoBlindWrite
PROPERTIES
  TableSpec
  RequestsFinish
\* The model stops where every field is deleted or has reached MaxVersion.
CHECK_DEADLOCK FALSE
