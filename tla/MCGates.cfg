SPECIFICATION FairSpec
CONSTANTS
  i1 = i1 n1 = n1 l1 = l1 l2 = l2 q1 = q1 NoKey = NoKey
  Logins = {l1, l2}
  Guarded = {q1}
  Ips = {i1}
  Names = {n1}
  Max <- MCMax
INVARIANTS LimitsAreKept
PROPERTIES StatusTakesHold
CHECK_DEADLOCK FALSE
