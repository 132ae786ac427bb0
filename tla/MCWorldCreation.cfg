SPECIFICATION MCSpec
CONSTANTS
  p1 = p1
  p2 = p2
  p3 = p3
  i1 = i1
  i2 = i2
  Player = {p1, p2, p3}
  Item = {i1, i2}
  Null = Null
  Serial <- MCSerial
  WorldSize = 2
  ArchiveSize = 1
  Saves = TRUE
  Deletes = {"archived"}
  Being = {d, e}
  Script = {a, b}
  Timed = {b}
  High = {1, 2, 3}
  Cap = 1
  Slack = 1
  MaxBorn = 3
INVARIANT DeferredAreCreated
CHECK_DEADLOCK FALSE
