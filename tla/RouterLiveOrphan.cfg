SPECIFICATION Spec
CONSTANTS
  a1 = a1
  a2 = a2
  human = human
  c1 = c1
  background = background
  none = none
  Agents <- MCAgents
  Human <- human
  Clients <- MCOneCaller
  Background <- background
  NoDrain <- none
  Calls <- CliCalls
  MaxParallel = 2
  Settings <- HookOn
  RelationCallers <- MCAgents
  Controls <- NoControls
  TornWrites = FALSE
  MaxSeq = 2
  MaxRestarts = 0
  MaxStops = 0
INVARIANTS
  OrphansHaveNoWorker
CHECK_DEADLOCK FALSE
