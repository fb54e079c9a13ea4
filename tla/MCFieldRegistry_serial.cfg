SPECIFICATION Spec
CONSTANTS
  Field = {f1, f2, f3}
  Request = {p1}
  Holder = {}
  BBHolder = {}
  LeafShape = {a}
  Reference = reference
  Widens <- MCWidens
  ExposeInput = {TRUE, FALSE}
  MaxVersion = 3
  Faults = FALSE
  a = a
  b = b
SYMMETRY FieldSymm
INVARIANT
  SerialIntegrity
\* The model stops where every field is deleted or has reached MaxVersion.
CHECK_DEADLOCK FALSE
