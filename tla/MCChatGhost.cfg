SPECIFICATION Spec
CONSTANTS
  gm = gm
  p1 = p1
  p2 = p2
  newbie = newbie
  c1 = c1
  c2 = c2
  Player = {gm, p1, p2}
  Account = {gm, p1, p2}
  AccountOf <- MCAccountOf
  Rank <- MCRank
  Nick = {n1, n2, n3}
  Conf = {newbie, c1}
  Newbie = newbie
  ConfName = {help, other}
  Seeded = help
  Password = {long}
  Long = {long}
  None = None
SYMMETRY Symmetry
INVARIANT UsersAreConnected
