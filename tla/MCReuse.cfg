SPECIFICATION Spec
PROPERTIES ReuseEndsChain
CONSTANTS
  u1 = u1 old = old new = new NoCall = NoCall
  c1 = c1 c2 = c2 c3 = c3 c4 = c4 c5 = c5
  Users = {u1}
  Passwords = {old}
  FirstHash <- MCFirstHash
  Calls = {c1, c2, c3, c4}
  MayBe <- MCRefreshes
  Threshold = 2
  MaxExpired = 0
CHECK_DEADLOCK FALSE
