SPECIFICATION AuditedSpec
INVARIANTS AdjustmentsLogged AdjustAnswersAreTrue
PROPERTIES ImplementsAtomicPoints MismatchesAreRaces
CONSTANTS
  u1 = u1 u2 = u2 k1 = k1 k2 = k2
  r1 = r1 g1 = g1 g2 = g2 a1 = a1 a2 = a2 why = why NoCall = NoCall
  j1 = j1 j2 = j2 l1 = l1
  Users = {u1, u2}
  Keys = {k1, k2}
  Rounds = {r1}
  Games = {g1, g2}
  Admins = {a1, a2}
  Reasons = {why}
  BetCalls = {}
  AdjustCalls = {j1, j2}
  ApplyCalls = {l1}
  MaxClock = 1
  MaxAudits = 1
  MaxSafe = 2
  Calls <- MCCalls
  ItemLists <- MCLists
  Items <- MCItems
  Stake <- MCStake
  BetRequests <- MCBetRequests
  AdjustRequests <- MCAdjustRequests
  ApplyRequests <- MCApplyRequests
  Opening <- MCOpening
  GameOf <- MCGameOf
  Deadline <- MCDeadline
CHECK_DEADLOCK FALSE
