SPECIFICATION Spec
CONSTANTS
  a1 = a1
  human = human
  Agents <- OneAgent
  Human = human
  RelationCallers <- OneAgent
  Limits <- SafetyLimits
INVARIANTS TypeOK NoForeignHistory  ReplyInRunBranch 
   StudioShowsConversation
PROPERTIES BranchHistoryKept 
CHECK_DEADLOCK FALSE
