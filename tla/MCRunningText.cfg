SPECIFICATION Spec
CONSTANTS
  Threads = {t1, t2}
  MaxRetries = 2
  Threshold = 2
  Cooldown = 2
  Entities = {"meeting", "person"}
  EventEntities = {"meeting"}
  Packages <- MCPackages
INVARIANTS TextMatchesLists
