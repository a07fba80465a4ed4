SPECIFICATION FairSpec
CONSTANTS
  a1 = a1
  a2 = a2
  human = human
  c1 = c1
  background = background
  none = none
  Agents <- MCAgents
  Human <- human
  Clients <- MCOneCaller
  Background <- background
  NoDrain <- none
  Calls <- CliCalls
  MaxParallel = 1
  Settings <- HookToggled
  RelationCallers <- NoRelation
  Controls <- AllControls
  TornWrites = FALSE
  MaxSeq = 2
  MaxRestarts = 0
  MaxStops = 1
INVARIANTS
  ParallelBound
PROPERTIES
  DrainTerminates
  MentionsServed
  WaitEndsDrained
CHECK_DEADLOCK FALSE
