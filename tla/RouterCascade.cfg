SPECIFICATION Spec
CONSTANTS
  a1 = a1
  a2 = a2
  human = human
  c1 = c1
  background = background
  none = none
  Agents <- MCAgents
  Human <- human
  Clients <- MCOneCaller
  Background <- background
  NoDrain <- none
  Calls <- StudioCalls
  MaxParallel = 2
  Settings <- HookOn
  RelationCallers <- NoRelation
  Controls <- NoControls
  TornWrites = FALSE
  MaxSeq = 3
  MaxRestarts = 0
  MaxStops = 0
INVARIANTS
  CascadeWithinLimit
PROPERTIES
  ImplementsDelivery
SYMMETRY Symmetry
CHECK_DEADLOCK FALSE
