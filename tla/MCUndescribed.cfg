SPECIFICATION Spec
CONSTANTS
  Sessions = {s1}
  Tools = {"a", "b", "c"}
  Unknown = "made up"
  AlwaysOnTools = {}
  Undescribed = {"b"}
  Unprobed = {"c"}
  Skills = {"k1", "k2"}
  SkillName <- MCSkillName
  Modes = {"disabled", "progressive", "selective", "auto"}
  SchemaBudget = 5
  CatalogBudget = 3
  SchemaTokens = 10
  CatalogTokens = 2
  MaxTurns = 2
  MaxIterations = 2
  MaxChanges = 2
INVARIANTS AllVisible
CHECK_DEADLOCK FALSE
