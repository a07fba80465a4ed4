SPECIFICATION RuntimeSpec
CONSTANTS
  Written <- MCWritten
  Fold <- MCFold
  Slug <- MCSlug
  Skills = {"s", "t"}
  Disks <- MCDisks
  RuntimeLimits <- MCRuntimeLimits
  Runs = {"r1", "r2", "r3"}
  Calls = {"c1", "c2", "c3", "c4"}
  Caller <- MCCaller
  RelationOf <- MCRelationOf
  AgentOf <- MCAgentOf
  MaxAttempts = 2
  PoolSize = 4
  CallLimits <- MCCallLimits
  Scenarios <- MCScenarios
INVARIANTS
  RuntimeTypeOK
  AcceptedTeamsResolve
  
  
  
  LanesAreTheTeams
  OneChildAtATime
  OutcomesSurviveRecovery
  RecoveryFailsAttempts
PROPERTY
  RelationCallsEnd
CHECK_DEADLOCK FALSE
