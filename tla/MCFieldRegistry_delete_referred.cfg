SPECIFICATION Spec
CONSTANTS
  Field = {f1, f2}
  Request = {p1, p2}
  Holder = {}
  BBHolder = {}
  LeafShape = {a}
  Reference = reference
  Widens <- MCWidens
  ExposeInput = {FALSE}
  MaxVersion = 5
  Faults = FALSE
  a = a
  b = b
PROPERTY
  DeletesOnlyUnreferred
CHECK_DEADLOCK FALSE
