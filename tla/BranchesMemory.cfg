SPECIFICATION Spec
CONSTANTS
  a1 = a1
  human = human
  Agents <- OneAgent
  Human = human
  RelationCallers <- NoCallers
  Limits <- MemoryLimits
INVARIANT MemoryCoversCursor
CHECK_DEADLOCK FALSE
