SPECIFICATION Spec
CONSTANTS
    None = None
    Base = 2
    IdleDigits <- MCIdle
    availableChips = {2}
    RANDOM_COUNTS <- MCRandomCounts
    OpenSeconds = 3
    LockSeconds = 1
    LastChance = 2
    PAYOUT <- MCPayout
    OpeningBalance = 4
    PreviewBalance = 1
    PreviewStake = 1
    PreviewWinAmount = 1
    PreviewBets <- MCPreviewBets
    PreviewDraw = 3
    Draws = {1, 6}
    PollTimes = {7000, 9500}
    MaxWorth = 4
    Clicked <- MCClicked
INVARIANTS
    StakesAreTheBets
    MarkedCellsWereWon
    NothingLeftRevealed
    RingsAreOfTheirDraw
    RingsLandOnTheDraw
PROPERTIES
    PointsConserved
    BetsStandOnceLocked
    RoundsKeepComing
