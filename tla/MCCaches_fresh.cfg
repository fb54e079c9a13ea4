SPECIFICATION BothSpec
CONSTANTS
  Reader = {r1, r2}
  Writer = {w1, w2}
  ListWriter = {w1}
  WriteOrder = {"del_first", "commit_first"}
  Miss = miss
  Nobody = nobody
  MaxCommit = 2
  MaxVersion = 2
  Faults = TRUE
INVARIANTS
  TypeOK
  ListTypeOK
PROPERTIES
  LockReleasedByOwner
  EventuallyFresh
  ListsEventuallyFresh
