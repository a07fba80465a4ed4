SPECIFICATION BackendSpec
CONSTANTS
  Packages <- MCPackages
  Inside <- MCInside
  Releases = {"a1", "t1", "s1", "s2"}
  PackageOf <- MCPackageOf
  Risky = {"a1", "s2"}
  Skills = {"lint"}
  Commits = {"c1", "c2"}
  SkillsOf <- MCSkillsOf
  PackageLimits <- MCPackageLimits
  Pages = {p1}
  MaxFrames = 3
  MaxItems = 2
  StreamLimits <- MCStreamLimits
  Teams = {"local", "bought"}
  Conversations = {"local", "chat", "bought"}
  TeamOf <- MCTeamOf
  Base <- MCBase
  Messages = {"m"}
  SessionLimits <- MCSessionLimits
  TerminalLimits <- MCTerminalLimits
  PackageOfTeam <- MCPackageOfTeam
  Scenarios <- MCScenarios
INVARIANTS
  BackendTypeOK
  LockedPackagesIntact
  
  ResumedPageShowsLastSnapshot
  OnlyReopeningDisturbs
  
  
PROPERTY
  PagesCatchUp
CHECK_DEADLOCK FALSE
