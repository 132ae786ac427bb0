SPECIFICATION MCSpec
CONSTANTS
  Player = {p1}
  Item = {i1}
  Node = {n1, n2, n3}
  Key <- MCKey
  ScriptKey <- MCScriptKey
  MaxDelay = 1
  MaxOps = 1
  NoEntity = NoEntity
  NoKey = NoKey
  Conn = {c1, c2}
  Char = {q1, q2}
  Account = {a1}
  MaxSlots = 2
  NoConn = NoConn
  NoPlayer = NoPlayer
  NoAccount = NoAccount
  Timeout = 2
INVARIANTS TypesOK TrackedOnce NodesBelong LingererHasTimer SavesUndisturbed
PROPERTIES CancelReachesAll KeepsPresence LingererLeaves SessionKeepsPresence HungIsAborted
