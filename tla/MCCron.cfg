SPECIFICATION Spec
CONSTANTS
  Jobs = {"once", "often", "daily"}
  Kind <- MCKind
  At <- MCAt
  Minutes = {1, 2, 3}
  Matching = {1, 3}
  Callers = {p1}
  Torn = Torn
  NoTime = NoTime
  MaxTime = 3
  MaxCalls = 2
  MaxBusy = 1
  MaxStops = 1
  MaxFaults = 1
INVARIANTS NeverTooOften FileIsExact
PROPERTIES EveryOccurrenceFires
CHECK_DEADLOCK FALSE
