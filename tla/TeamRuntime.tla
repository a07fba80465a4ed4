------------------------------ MODULE TeamRuntime ------------------------------
(***************************************************************************)
(* A team in use: it is instantiated from its file, its agents run and     *)
(* call one another, their graphs are built when they are first needed, it *)
(* is closed and instantiated again, and the process may die at any step.  *)
(* One conversation of the team has runs; other conversations are seen by  *)
(* the graphs they ask for.                                                *)
(***************************************************************************)
EXTENDS TeamInstantiation, RelationCalls

CONSTANT Scenarios  \* bounds: first files and disks, and the limits taken with them

ASSUME RuntimeAssumption ==
  Scenarios \subseteq [files : SUBSET Written, disks : SUBSET Disks, team : RuntimeLimits, calls : CallLimits]

runtimeVars == <<teamVars, callVars>>

RuntimeInit ==
  /\ InstantiationInit /\ CallsInit
  /\ \E s \in Scenarios : file \in s.files /\ disk \in s.disks /\ left = s.team /\ remains = s.calls

\* The registry gives the graph of an agent, or tries to build it.
NeedsGraph(a) == IF a \in DOMAIN graphs THEN UNCHANGED teamVars ELSE AskGraph(a)

\* A run or a call of another conversation needs the graph of an agent.
OtherNeedsGraph ==
  /\ stage = "ready"
  /\ \E a \in Askable(team) : AskGraph(a)
  /\ UNCHANGED callVars

\* MentionRouter._run_agent: a run whose graph cannot be built has failed.
RunStarts(r) ==
  /\ stage = "ready" /\ team.conversation /\ AgentOf[r] \in Participants(team.agents)
  /\ NeedsGraph(AgentOf[r])
  /\ StartRun(r, IF AgentOf[r] \in DOMAIN graphs' THEN "thinking" ELSE "raised")

\* The relation a call is of.
Related(c) == {r \in ToSet(team.relations) : r.type = "tool" /\ r.id = RelationOf[c]}

Target(c) == (CHOOSE r \in Related(c) : TRUE).to

\* RelationTool.run asks for the graph of the target first.
CallRelation(c) ==
  /\ stage = "ready" /\ at[c] = "asked" /\ Related(c) # {}
  /\ NeedsGraph(Target(c))
  /\ IF Target(c) \in DOMAIN graphs' THEN Resolve(c) ELSE RaisesAtOnce(c)

Computes(i) == Works(i) /\ UNCHANGED teamVars

Instantiates ==
  /\ \/ Load \/ OpenCheckpointer \/ CheckpointerFails \/ BuildFails \/ ConversationFails
     \/ ~team.conversation /\ Build
  /\ UNCHANGED callVars

\* MentionAwareTeam opens the conversation's store.
OpensConversation == stage = "opened" /\ team.conversation /\ Build /\ CallsRecovered

Closes == CloseTeam /\ CallsClosed

FilesChange == (EditFile \/ ChangeSkill) /\ UNCHANGED callVars

\* What is in sqlite stays.
Crash ==
  /\ CallsCrash
  /\ stage' = "idle" /\ graphs' = <<>> /\ handle' = {}
  /\ UNCHANGED <<file, disk, team, lanes, failure, left>>

RuntimeNext ==
  \/ Instantiates \/ OpensConversation \/ Closes \/ FilesChange \/ Crash
  \/ OtherNeedsGraph
  \/ \E r \in Runs : RunStarts(r)
  \/ \E c \in Calls : CallRelation(c)
  \/ \E i \in Invocations : Computes(i)

\* As long as a thread of the executor or a coroutine of the loop can go on, one does.
RuntimeFairness ==
  WF_callVars(\/ \E i \in Invocations : Computes(i)
              \/ \E c \in Calls : CallRelation(c))

RuntimeSpec == RuntimeInit /\ [][RuntimeNext]_runtimeVars /\ RuntimeFairness

----------------------------------------------------------------------------
(* Properties.                                                              *)

\* The types of the parts.
RuntimeTypeOK == InstantiationTypeOK /\ CallsTypeOK
=============================================================================
