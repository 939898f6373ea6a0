SPECIFICATION Spec
CONSTANTS
    Today = 1
    MaxReports = 2
    MaxSubmits = 2
    MaxLate = 1
    MaxExits = 2
    GameId = 694
    CATEGORIES = {1, 2}
    DrawGames = 2
    Full = 2
    Jumps = {0, 1}
    Signups <- MCSignups
    TodaysDate <- MCToday
    Draws = {7, 314}
    MaxRounds = 2
INVARIANTS
    ScreensTellTheTruth
    ReportFollowsRange
PROPERTIES
    PagesKeepTheirPlayer
    PagesSettle
