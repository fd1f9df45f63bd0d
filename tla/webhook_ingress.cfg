SPECIFICATION FairWebhooks
CONSTANTS
    h1 = h1
    h2 = h2
    m1 = m1
    m2 = m2
    m3 = m3
    n1 = n1
    w1 = w1
    NoKey = NoKey
    Handlers = {h1, h2}
    Keys = {m1, m2, m3, n1, w1}
    Scenarios <- SendersTogether
    Ttl = 2
    MaxKeys = 1
INVARIANTS
    OneWorkerPerKey
    AcksAreEarned
    NoSecondTurnInsideTtl
PROPERTY StrandedKeysComeBack
