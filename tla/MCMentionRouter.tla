-------------------------- MODULE MCMentionRouter --------------------------
(* Small conversations for TLC to check MentionRouter on.                   *)
EXTENDS RouterDelivery, TLC

CONSTANTS a1, a2, human, c1, background, none

MCAgents    == {a1, a2}
MCOneCaller == {c1}

\* The command line waits for its drain, the Studio backend does not; the API also
\* takes messages of agents from outside their runs.
CliCalls    == {[author |-> human, wait |-> TRUE]}
StudioCalls == {[author |-> human, wait |-> FALSE]}
AgentCalls  == StudioCalls \union {[author |-> a, wait |-> FALSE] : a \in {a1, a2}}

HookOn      == {[mentionHook |-> TRUE, maxCascade |-> 1]}
HookToggled == {[mentionHook |-> TRUE, maxCascade |-> 1], [mentionHook |-> FALSE, maxCascade |-> 1]}

NoRelation  == {}

AllControls == {"cancel", "clear", "configure"}
NoControls  == {}

\* Bound: runs started in one behaviour.
FewRuns     == Len(runs) <= 2

\* Nothing tells two agents apart but their place in Agents and RelationCallers.
Symmetry    == Permutations({a1, a2})
============================================================================
