SPECIFICATION BoardSpec
CONSTANTS
    t1 = t1
    t2 = t2
    t3 = t3
    a1 = a1
    a2 = a2
    w1 = w1
    w2 = w2
    Nobody = Nobody
    Tasks = {t1, t2, t3}
    First = t1
    Agents = {a1, a2}
    Named = {a1}
    Hands <- FewHands
    Web = {w1, w2}
    MaxCalls = 1
SYMMETRY Interchangeable
CHECK_DEADLOCK FALSE
INVARIANTS
    SubtasksHaveParents
PROPERTIES
    ReviewsAreNotSkipped
    IllegalMovesAreRaces
    HandlersAreSerial
