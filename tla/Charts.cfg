\* The charts for every choice of three messages, with midnight between the query of
\* the daily chart and its layout.
SPECIFICATION Spec
CONSTANTS
    Day = 6
    Steps <- MCSteps
    MaxBars = 3
    Earliest = 1
    DayRanges = {0, 1}
    Models = {"m1", "m2"}
    Incoming <- MCIncoming
    NoTime <- MCNoTime
    Windows <- MCWindows
    Shift = 13
    Jump <- MCJump
    Late = TRUE
    Start = 11
    MaxNow = 13
    MaxMessages = 3
INVARIANTS TypeOK BarsBounded NoEventDropped BarsOnTheClock DailyExact UsageOfThisWindow
