SPECIFICATION FairTurn
CONSTANTS
    pty = pty
    reader = reader
    Tools = {pty, reader}
    SelfAsking = {pty}
    ReadOnlyTools = {reader}
    GuestTools = {reader}
    Presets <- AllPresets
    MaxIterations = 2
    MaxCalls = 2
    MaxSwitches = 1
CHECK_DEADLOCK FALSE
INVARIANTS
    TypeOK
    BatchesObeyThePolicy
    AuditTellsTheTruth
PROPERTIES
    NoToolsAfterNo
    StoppedTurnsEnd
