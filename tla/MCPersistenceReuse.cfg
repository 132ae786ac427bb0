SPECIFICATION MCSpec
CONSTANTS
  anne = anne
  bob = bob
  Login = {anne, bob, carl}
  Spaced = {carl}
  Level = {0, 2}
  Char = {c1}
  MaxNum = 2
  None = None
  Conn = {1, 2}
  Slots = 2
  Expiry = 1
  MaxTime = 2
  MaxNonce = 3
SYMMETRY Symmetry
INVARIANT NumbersAreNotReused
