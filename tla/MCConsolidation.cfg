SPECIFICATION FairSpec
CONSTANTS
    Sessions = {s1, s2}
    Excluded = {s2}
    MaxBatch = 2
    None = None
    MaxEvents = 3
    MaxTrouble = 1
INVARIANT NothingPassedOver
INVARIANT FinishedTurnIsTakenUp
PROPERTY RetiredLoopEnds
