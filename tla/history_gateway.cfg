SPECIFICATION ChannelHistorySpec
CONSTANTS
    t1 = t1
    t2 = t2
    Turns = {t1, t2}
    ToolTurns = {}
    MaxHistory = 6
    CompactKeep = 4
    MaxRestarts = 1
CHECK_DEADLOCK FALSE
INVARIANT GatewayDeleteIsFinal
