SPECIFICATION Spec
INVARIANTS TypeOK TokensRotateOnce OneLivePerLogin
PROPERTIES RevocationsTakeEffect
CONSTANTS
  u1 = u1 old = old new = new NoCall = NoCall
  c1 = c1 c2 = c2 c3 = c3 c4 = c4 c5 = c5
  Users = {u1}
  Passwords = {old, new}
  FirstHash <- MCFirstHash
  Calls = {c1, c2, c3, c4}
  MayBe <- MCAnything
  Threshold = 2
  MaxExpired = 1
SYMMETRY MCSymmetry
CHECK_DEADLOCK FALSE
