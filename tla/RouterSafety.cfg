SPECIFICATION Spec
CONSTANTS
  a1 = a1
  a2 = a2
  human = human
  c1 = c1
  background = background
  none = none
  Agents <- MCAgents
  Human <- human
  Clients <- MCOneCaller
  Background <- background
  NoDrain <- none
  Calls <- AgentCalls
  MaxParallel = 2
  Settings <- HookOn
  RelationCallers <- MCAgents
  Controls <- AllControls
  TornWrites = FALSE
  MaxSeq = 2
  MaxRestarts = 1
  MaxStops = 1
INVARIANTS
  TypeOK
  NoRequestLost
  RunningHasWorker
  DiscardedRunIsSilent
  ReplyFollowsDelivery
  DeliveredOnce
PROPERTIES
  OrphanIsFinal
CONSTRAINTS FewRuns
SYMMETRY Symmetry
CHECK_DEADLOCK FALSE
