SPECIFICATION Spec
CONSTANTS
    Sessions = {s1}
    Excluded = {}
    MaxBatch = 2
    None = None
    MaxEvents = 2
    MaxTrouble = 1
INVARIANT DreamCursorMeansConsolidated
