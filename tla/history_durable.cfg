SPECIFICATION FairHistory
CONSTANTS
    t1 = t1
    t2 = t2
    Turns = {t1, t2}
    ToolTurns = {t1, t2}
    MaxHistory = 6
    CompactKeep = 4
    MaxRestarts = 2
CHECK_DEADLOCK FALSE
INVARIANTS
    LoneNewIsFinal
    SerialTurnsSurviveRestart
    RuntimeDeleteIsFinal
    ToolRowsFollowTheirCarrier
PROPERTY DeleteIsAnswered
