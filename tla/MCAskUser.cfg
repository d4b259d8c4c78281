SPECIFICATION FairSpec
CONSTANTS
    Requests = {r1, r2}
    Responders = {p1, p2}
    Sessions = {s1}
    MaxRemoves = 1
    None = None
INVARIANT AnswerMatchesQuestion
INVARIANT SlotWhilePending
PROPERTY TimelyAnswerIsUsed
PROPERTY CallsEnd
