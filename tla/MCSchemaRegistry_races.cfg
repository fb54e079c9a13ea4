SPECIFICATION Spec
CONSTANTS
  s1 = s1
  s2 = s2
  o1 = o1
  o2 = o2
  Unset = unset
  Option = {}
  Pattern = {}
  Schema = {s1}
  EventType = {e1}
  Holder = {fsm}
  Request = {p1, p2}
  Type <- Ints
  Constraints <- Ranges
  Values <- Numbers
  Absent = absent
  MaxVersion = 3
  Faults = TRUE
SYMMETRY Symm
INVARIANTS
  TypeOK
  IInv
  ConfigIsReferred
PROPERTY
  ReferredOnlyLoosens
\* The model stops where every row is deleted or at MaxVersion.
CHECK_DEADLOCK FALSE
