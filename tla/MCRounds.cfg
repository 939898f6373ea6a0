SPECIFICATION FairSpec
INVARIANTS OneLiveRound NumbersInOrder
PROPERTIES ImplementsLifecycle DueRoundsMove
CONSTANTS
  e1 = e1 e2 = e2 g1 = g1 g2 = g2 Nobody = Nobody Ghost = Ghost
  Engines = {e1, e2}
  Games = {g1}
  ActiveGames <- OneGame
  Window = 1
  Skew <- MCSkew
  MaxClock = 1
  MaxRounds <- MCMaxRounds
  MaxFaults = 1
