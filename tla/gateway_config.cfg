SPECIFICATION FairConfig
CONSTANTS
    w1 = w1
    w2 = w2
    p1 = p1
    p2 = p2
    o1 = o1
    t0 = t0
    Consoles = {w1, w2}
    Pairings = {p1, p2}
    Outsiders = {o1}
    OldTokens = {t0}
    Revokes <- DeletesOld
    Casts <- AnyThree
CHECK_DEADLOCK FALSE
INVARIANTS
    ConsoleWritesCompose
    PairedTokensLast
    RevocationLasts
PROPERTIES
    ReloadConverges
