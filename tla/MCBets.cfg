SPECIFICATION FairSpec
INVARIANTS TypeOK LedgerIsChain BetsMatchDebits OncePerKey RacesResolve BetAnswersAreTrue MergedItemsAreSound
PROPERTIES NoBetInClosedRound ImplementsAtomicPoints EveryCallEnds
CONSTANTS
  u1 = u1 u2 = u2 k1 = k1 k2 = k2
  r1 = r1 g1 = g1 g2 = g2 a1 = a1 a2 = a2 why = why NoCall = NoCall
  b1 = b1 b2 = b2 j1 = j1
  Users = {u1, u2}
  Keys = {k1, k2}
  Rounds = {r1}
  Games = {g1, g2}
  Admins = {a1, a2}
  Reasons = {why}
  BetCalls = {b1, b2}
  AdjustCalls = {j1}
  ApplyCalls = {}
  MaxClock = 1
  MaxSafe = 2
  Calls <- MCCalls
  ItemLists <- MCLists
  Items <- MCItems
  Stake <- MCStake
  BetRequests <- MCBetRequests
  AdjustRequests <- MCContendingAdjust
  ApplyRequests <- MCApplyRequests
  Opening <- MCOpening
  GameOf <- MCGameOf
  Deadline <- MCDeadline
CHECK_DEADLOCK FALSE
