------------------------------ MODULE MCStudio ------------------------------
(* Instances of StudioBackend for TLC: one scenario per part, with as much  *)
(* of the other parts as the part meets.                                    *)
EXTENDS StudioBackend

MCPackages  == {"acme", "acme/team", "solo"}
MCInside    == [p \in MCPackages |-> IF p = "acme" THEN {"acme/team"} ELSE {}]
MCPackageOf == [a1 |-> "acme", t1 |-> "acme/team", s1 |-> "solo", s2 |-> "solo"]
MCSkillsOf  ==
  [a1 |-> [lint |-> "c1"], t1 |-> [lint |-> "none"],
   s1 |-> [lint |-> "c1"], s2 |-> [lint |-> "c2"]]

\* The team "local" is the workspace's own, "bought" comes in a package.
MCTeamOf == [local |-> "local", chat |-> "local", bought |-> "bought"]
MCBase   == [local |-> "local", bought |-> "bought"]
MCPackageOfTeam == [local |-> Nobody, bought |-> "solo"]

Commands(n, cut)      == [commands |-> n, cuts |-> cut]
Watches(n, times, b)  == [changes |-> n, connects |-> times, beats |-> b]
Opened(n, events, r)  == [objects |-> n, events |-> events, restarts |-> r]
Prints(n, times, out) == [prints |-> n, opens |-> times, polls |-> out]

Scenario(packages, stream, session, terminal) ==
  [packages |-> packages, stream |-> stream, session |-> session, terminal |-> terminal]

MCScenarios == {
  Scenario(Commands(3, 1), Watches(0, 0, 0), Opened(0, 0, 0), Prints(0, 0, 0)),
  Scenario(Commands(2, 1), Watches(0, 0, 0), Opened(1, 0, 0), Prints(0, 0, 0)),
  Scenario(Commands(0, 0), Watches(2, 2, 1), Opened(1, 1, 1), Prints(0, 0, 0)),
  Scenario(Commands(0, 0), Watches(2, 3, 1), Opened(1, 0, 0), Prints(0, 0, 0)),
  Scenario(Commands(0, 0), Watches(0, 0, 0), Opened(3, 1, 0), Prints(0, 0, 0)),
  Scenario(Commands(0, 0), Watches(0, 0, 0), Opened(2, 2, 0), Prints(0, 0, 0)),
  Scenario(Commands(0, 0), Watches(0, 0, 0), Opened(2, 1, 1), Prints(0, 0, 0)),
  Scenario(Commands(0, 0), Watches(0, 0, 0), Opened(1, 3, 1), Prints(0, 0, 0)),
  Scenario(Commands(0, 0), Watches(0, 0, 0), Opened(1, 0, 0), Prints(3, 2, 2))}

MCPackageLimits  == {s.packages : s \in MCScenarios}
MCStreamLimits   == {s.stream : s \in MCScenarios}
MCSessionLimits  == {s.session : s \in MCScenarios}
MCTerminalLimits == {s.terminal : s \in MCScenarios}
=============================================================================
