----------------------- MODULE MCConversationBranches -----------------------
(* Instances of ConversationBranches for TLC. *)
EXTENDS StudioView

CONSTANTS a1, human

OneAgent  == {a1}
NoCallers == {}

Within(controls, seq, branchCount, runCount, restartCount) ==
  [controls |-> controls, seq |-> seq, branches |-> branchCount, runs |-> runCount,
   restarts |-> restartCount]

\* Prompts and branches, without a restart and with one; replays; a branch of a branch.
SafetyLimits == {Within(Controls \ {"resume"}, 3, 1, 2, 0),
                 Within({"edit", "create"}, 3, 1, 2, 1),
                 Within({"edit", "resume", "switch"}, 3, 1, 1, 1),
                 Within({"edit"}, 4, 2, 2, 0)}

MemoryLimits == {Within({"edit"}, 4, 1, 2, 0)}
=============================================================================
