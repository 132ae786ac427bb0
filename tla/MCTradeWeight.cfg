CONSTANTS
  p1 = p1
  p2 = p2
  p3 = p3
  i1 = i1
  i2 = i2
  t1 = t1
  t2 = t2
  Player = {p1, p2, p3}
  Item = {i1, i2}
  Trade = {t1, t2}
  Ground = Ground
  Settled = Settled
  NoTrade = NoTrade
  MaxSpot = 1
  Reach = 0
  Crashes = FALSE
  Trader = {q1, q2}
  Ware = {w1}
  Deal = {u1}
  s1 = s1
  s2 = s2
  Stack = {s1, s2, s3}
  Bag = {g}
  Body = Body
  Pack = Pack
  Bank = Bank
  Null = Null
  Gold = 4
  Per = 2
  Own = 1
  Limit = 4
  PileMax = 3
SPECIFICATION MCSpec
INVARIANT StoredIsContents
