----------------------------- MODULE StudioView -----------------------------
(***************************************************************************)
(* The state the Studio backend sends its pages, as a function of the      *)
(* conversation: StudioStateFactory filters the events of the branch once  *)
(* more, names the state of each run from its record, and points the queue *)
(* at the messages that wait.  Times, labels, token counts and the private *)
(* messages of the agents' threads are left out.                           *)
(*                                                                         *)
(* The view is taken in one piece.  MentionAwareTeam.state reads each      *)
(* table on its own; what a page can see between two reads is not modelled.*)
(***************************************************************************)
EXTENDS ConversationBranches

\* Mutation of StudioEvents: the event a branch starts from is the first it leaves out.
StudioEventsBefore ==
  {i \in Visible(current) :
     \/ events[i].branch = current
     \/ events[i].branch = Main /\ (branches[current].originSeq = NoLimit
                                    \/ i < branches[current].originSeq)}

\* _visible_events: the branch's own events and what it inherits of the main branch.
StudioEvents ==
  {i \in Visible(current) :
     \/ events[i].branch = current
     \/ events[i].branch = Main /\ (branches[current].originSeq = NoLimit
                                    \/ i <= branches[current].originSeq)}

\* list_agent_states: those of the branch users look at.
AgentStates == agent[current]

\* _activity.
ActiveAgents == {a \in Agents : AgentStates[a].running \/ AgentStates[a].queued}

\* list_deliveries: a run that ended, or was given up, has one with its status; a later one
\* of a run given up adds no other message to what follows.
Deliveries == {r \in RunsOf(current) : runs[r].status # "running"}

\* _run_status_from_persisted.
ShownStatus(run) ==
  IF run.commit = "orphaned" THEN "unknown"
  ELSE CASE run.status = "running"             -> "running"
         [] run.status \in {"failed", "empty"} -> "failed"
         [] run.status = "stopped"             -> "stopped"
         [] run.status = "ignored"             -> "superseded"
         [] OTHER                              -> "completed"

\* _runs: every run an agent holds and every delivery has a record here, so the summaries
\* made of them add none.
RunSummaries ==
  [r \in RunsOf(current) |->
     [agent |-> runs[r].agent, status |-> ShownStatus(runs[r]), checkpoint |-> runs[r].stable]]

\* _queue: the agents that wait, and the deliveries that failed.
PendingItems ==
  {[agent |-> a, status |-> "pending", event |-> AgentStates[a].queuedAfter,
    canCancel |-> ~AgentStates[a].running] : a \in {b \in Agents : AgentStates[b].queued}}

FailedItems ==
  {[agent |-> runs[r].agent, status |-> "failed", event |-> runs[r].snapshot, canCancel |-> FALSE] :
     r \in {d \in Deliveries : runs[d].status \in {"failed", "empty"}}}

\* _checkpoint_capabilities, of the checkpoints the history reader finds in the branch.
OfferedCheckpoints == [a \in Agents |-> UsableCheckpoints(current, a)]

\* _main_branch and _branch_summary.
BranchSummaries ==
  [b \in Branches |-> [current |-> b = current, archived |-> b # Main /\ branches[b].archived]]

\* from_legacy_state.
StudioState ==
  [events |-> StudioEvents, active |-> ActiveAgents, runs |-> RunSummaries,
   queue |-> PendingItems \union FailedItems, checkpoints |-> OfferedCheckpoints,
   branches |-> BranchSummaries]

\* Of a branch of a branch the messages written in between are missing in Studio.
OneLevel == current = Main \/ branches[current].parent = Main

----------------------------------------------------------------------------

\* What Studio shows is the conversation.  It shows no message the branch does not have, and
\* all of them where the branch comes from the main one; what the queue waits for and what
\* failed is a message shown; a run is shown running while a thread of this process works on
\* it, and the run of an agent that is running is shown so; a checkpoint offered to branch
\* from remembers only messages that are shown (of agents no injected prompt has overtaken);
\* and the branch shown is never archived.
StudioShowsConversation ==
  LET shown == StudioState
  IN /\ shown.events \subseteq Visible(current)
     /\ OneLevel => Visible(current) \subseteq shown.events
     /\ \A item \in shown.queue : item.event \in Visible(current)
     /\ \A r \in DOMAIN shown.runs : shown.runs[r].status = "running" =>
          \E w \in Workers : worker[w].run = r /\ worker[w].pc \in {"invoking", "completing"}
     /\ \A a \in Agents : AgentStates[a].running =>
          /\ a \in shown.active
          /\ AgentStates[a].currentRun \in DOMAIN shown.runs
          /\ shown.runs[AgentStates[a].currentRun].status = "running"
     /\ OneLevel => \A a \in Agents : \A cp \in shown.checkpoints[a] :
          Overtaken(a) \/ MemoryOf(cp) \subseteq shown.events
     /\ ~shown.branches[current].archived
=============================================================================
