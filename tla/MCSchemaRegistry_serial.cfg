SPECIFICATION Spec
CONSTANTS
  s1 = s1
  s2 = s2
  o1 = o1
  o2 = o2
  Unset = unset
  Option = {o1, o2}
  Pattern = {}
  Schema = {s1, s2}
  EventType = {e1}
  Holder = {}
  Request = {p1}
  Type <- Mixed
  Constraints <- MixedConstraints
  Values <- MixedValues
  Absent = absent
  MaxVersion = 3
  Faults = FALSE
INVARIANTS
  RefsMatchConfig
  CacheCurrent
  StoredValuesFit
\* The model stops where every row is deleted or at MaxVersion.
CHECK_DEADLOCK FALSE
