SPECIFICATION MCSpec
CONSTANTS
  Conn = {c1, c2}
  Player = {p1, p2, p3}
  Account = {a1, a2}
  MaxSlots = 2
  Relogin = FALSE
  NoConn = NoConn
  NoPlayer = NoPlayer
  NoAccount = NoAccount
  Caller = {asker, s1, s2}
  Staff = {s1, s2}
  Nobody = Nobody
INVARIANT DeletedStaysDeleted
