------------------------ MODULE ConversationBranches ------------------------
(***************************************************************************)
(* The branches of a conversation: the events each one shows, the private  *)
(* thread of checkpoints each agent has in it, and the frontiers a new     *)
(* branch takes the threads of its parent over from.                       *)
(*                                                                         *)
(* Users edit messages, resume checkpoints, inject prompts, create, switch *)
(* and archive branches while agents run.  Waking agents is the business   *)
(* of MentionRouter: here a pending agent of the current branch may start  *)
(* at any time, and the records of one delivery are one step.  The thread  *)
(* id of an agent is a function of branch and agent, so <<b, a>> stands    *)
(* for the physical thread.  The conversation is persisted in sqlite.      *)
(***************************************************************************)
EXTENDS AgentDelivery, Sequences, FiniteSets

CONSTANTS
  Agents,           \* the conversation's participants
  Human,            \* the author id of human messages
  RelationCallers,  \* the agents with a tool relation to another agent
  Limits            \* bounds: how far the behaviours checked may go

\* The operations users reach for, besides messages.
Controls == {"edit", "resume", "inject", "create", "switch", "archive"}

ASSUME BranchesAssumption ==
  /\ Human \notin Agents
  /\ RelationCallers \subseteq Agents
  /\ Limits \subseteq [controls : SUBSET Controls, seq : Nat, branches : Nat, runs : Nat,
                       restarts : Nat]

VARIABLES
  events,    \* [author, branch, before, run]: before is frontier_before_event_id
  branches,  \* [parent, originEvent, originCheckpoint, originSeq, archived]
  current,   \* the branch users look at
  agent,     \* AgentDeliveryState of each agent in each branch
  thread,    \* team_conversation_branch_threads: [status, commit] of each agent
  saved,     \* the checkpoints ever written: [parent, memory], memory a set of events
  stored,    \* the checkpoints each physical thread holds
  frontiers, \* team_conversation_thread_frontiers, by created_at
  runs,      \* the run records
  worker,    \* where each agent is in _run_agent and in inject_agent_prompt
  call,      \* where a user is in edit_human_message or resume_checkpoint
  restarts,  \* how often the backend has restarted
  limits     \* the controls used, and how many events, branches, runs and restarts there are

vars == <<events, branches, current, agent, thread, saved, stored, frontiers, runs, worker,
          call, restarts, limits>>

Main         == 0     \* "branch_main", which has no record
NoEvent      == 0
NoCheckpoint == 0
NoLimit      == -1    \* origin_event_seq is None

Lanes      == {"router", "inject"}
Workers    == Agents \X Lanes
Branches   == 0 .. Len(branches)
IdleWorker == [pc |-> "idle", branch |-> Main, run |-> NoRun, low |-> 0, snapshot |-> 0,
               from |-> NoCheckpoint, thread |-> Main]
IdleCall   == [pc |-> "idle", event |-> NoEvent, branch |-> Main, agent |-> Human,
               checkpoint |-> NoCheckpoint]
NoThread   == [status |-> "none", commit |-> NoRun]

Init ==
  /\ events    = <<>>
  /\ branches  = <<>>
  /\ current   = Main
  /\ agent     = [b \in {Main} |-> [a \in Agents |-> NewDeliveryState]]
  /\ thread    = [b \in {Main} |-> [a \in Agents |-> NoThread]]
  /\ saved     = <<>>
  /\ stored    = [b \in {Main} |-> [a \in Agents |-> {}]]
  /\ frontiers = <<>>
  /\ runs      = <<>>
  /\ worker    = [w \in Workers |-> IdleWorker]
  /\ call      = IdleCall
  /\ restarts  = 0
  /\ limits    \in Limits

----------------------------------------------------------------------------
(* The store's records, one commit each.                                    *)

\* save_agent_state.
SaveAgentState(b, a, s) == agent' = [agent EXCEPT ![b][a] = s]

\* _save_run, of a new run or of one there is.
SaveRun(r, run) ==
  runs' = [q \in 1 .. Later(r, Len(runs)) |-> IF q = r THEN run ELSE runs[q]]

\* _save_branch_thread.
SaveThread(b, a, row) == thread' = [thread EXCEPT ![b][a] = row]

\* list_runs(branch_id).
RunsOf(b) == {r \in 1 .. Len(runs) : runs[r].branch = b}

----------------------------------------------------------------------------
(* What a branch shows: _event_visible_in_branch_id.                        *)

Own(b) == {i \in 1 .. Len(events) : events[i].branch = b}

\* The events up to the one the branch starts from.
Inherits(b) == {i \in 1 .. Len(events) :
                  branches[b].originSeq = NoLimit \/ i <= branches[b].originSeq}

\* Mutation of Visible: the event the branch starts from limits nothing.
VisibleUnlimited(b) ==
  LET Whole[c \in Branches] == Own(c) \union (IF c = Main THEN {} ELSE Whole[branches[c].parent])
  IN Whole[b]

\* The parent is older than the branch, so the recursion ends without visited_branch_ids.
Shown[b \in Branches] ==
  Own(b) \union (IF b = Main THEN {} ELSE Inherits(b) \intersect Shown[branches[b].parent])

\* list_events(branch_id); the sequence number of an event is its place in events.
Visible(b) == Shown[b]

Greatest(S) == CHOOSE x \in S \union {0} : \A y \in S : y <= x

\* _latest_visible_event.
Latest(b) == Greatest(Visible(b))

\* Mutation of NewEvent: the event goes to the branch users look at.
CurrentEvent(author, b, before, run) ==
  [author |-> author, branch |-> current,
   before |-> IF before = NoEvent THEN Latest(b) ELSE before, run |-> run]

\* append_event: the frontier before an event is its caller's, or the previous event's.
NewEvent(author, b, before, run) ==
  [author |-> author, branch |-> b,
   before |-> IF before = NoEvent THEN Latest(b) ELSE before, run |-> run]

----------------------------------------------------------------------------
(* Checkpoints and frontiers.                                               *)

LatestCheckpoint(b, a) == Greatest(stored[b][a])

MemoryOf(cp) == IF cp = NoCheckpoint THEN {} ELSE saved[cp].memory

\* _checkpoint_chain: a checkpoint and its ancestors.
Chain[cp \in 0 .. Len(saved)] ==
  IF cp = NoCheckpoint THEN {} ELSE {cp} \union Chain[saved[cp].parent]

\* A graph that runs on a thread adds a checkpoint below the one it continues from.
Writes(b, a, from, delivered) ==
  /\ saved'  = Append(saved, [parent |-> from, memory |-> MemoryOf(from) \union delivered])
  /\ stored' = [stored EXCEPT ![b][a] = @ \union {Len(saved) + 1}]

SameKey(f, g) == f.event = g.event /\ f.agent = g.agent

Without(k) == SubSeq(frontiers, 1, k - 1) \o SubSeq(frontiers, k + 1, Len(frontiers))

\* record_thread_frontier: an upsert, whose key leaves the branch out.
RecordFrontier(f) ==
  LET old == {k \in 1 .. Len(frontiers) : SameKey(f, frontiers[k])}
  IN Append(IF old = {} THEN frontiers ELSE Without(CHOOSE k \in old : TRUE), f)

FrontiersOf(b, a) == {k \in 1 .. Len(frontiers) : frontiers[k].branch = b /\ frontiers[k].agent = a}

\* get_thread_frontier, else _latest_thread_frontier_for_checkpoint, in the parent branch.
ForkSource(b, a) ==
  LET own      == FrontiersOf(branches[b].parent, a)
      atEvent  == {k \in own : frontiers[k].event = branches[b].originEvent}
      atCheckpoint == {k \in own : frontiers[k].checkpoint = branches[b].originCheckpoint}
  IN IF b = Main THEN 0
     ELSE IF atEvent # {} THEN Greatest(atEvent)
     ELSE IF branches[b].originCheckpoint = NoCheckpoint THEN 0
     ELSE Greatest(atCheckpoint)

\* _fork_branch_thread_if_possible goes on to the thread forker.
Forks(b, a) ==
  /\ ForkSource(b, a) # 0
  /\ frontiers[ForkSource(b, a)].usable
  /\ frontiers[ForkSource(b, a)].checkpoint # NoCheckpoint

\* ThreadForker.fork_checkpoint: "target physical thread already has checkpoints".
ForkRefused(b, a) == thread[b][a].status # "active" /\ Forks(b, a) /\ stored[b][a] # {}

\* Mutation of ForkedCheckpoints: the parent's thread is cloned as it is now.
ForkWhole(b, a) ==
  IF Forks(b, a) THEN stored[frontiers[ForkSource(b, a)].thread][a] ELSE stored[b][a]

\* What fork_checkpoint makes the thread hold: the chain up to the frontier.
ForkedCheckpoints(b, a) ==
  IF Forks(b, a) THEN Chain[frontiers[ForkSource(b, a)].checkpoint] ELSE stored[b][a]

\* Mutation of EnsureThread: the thread is forked and no row says so.
ForkUnrecorded(b, a, commit) ==
  /\ stored' = [stored EXCEPT ![b][a] = IF thread[b][a].status = "active" THEN @
                                         ELSE ForkedCheckpoints(b, a)]
  /\ UNCHANGED thread

\* ensure_branch_thread, where it does not raise.
EnsureThread(b, a, commit) ==
  IF thread[b][a].status = "active"
    THEN UNCHANGED <<thread, stored>>
    ELSE /\ SaveThread(b, a, [status |-> "active", commit |-> commit])
         /\ stored' = [stored EXCEPT ![b][a] = ForkedCheckpoints(b, a)]

----------------------------------------------------------------------------
(* Messages.                                                                *)

Room(n) == Len(events) + n <= limits.seq

Asks(b, targets, seq) ==
  agent' = [agent EXCEPT ![b] = [a \in Agents |-> IF a \in targets THEN Enqueue(@[a], seq) ELSE @[a]]]

\* append_human_message in the current branch.
AppendHumanMessage ==
  /\ Room(1)
  /\ events' = Append(events, NewEvent(Human, current, NoEvent, NoRun))
  /\ \E targets \in SUBSET Agents : Asks(current, targets, Len(events) + 1)
  /\ UNCHANGED <<branches, current, thread, saved, stored, frontiers, runs, worker, call, restarts, limits>>

----------------------------------------------------------------------------
(* Branches.                                                                *)

\* Mutation of ForkCursor: what the child inherits counts as read.
OriginCursor(s, originSeq) == IF originSeq = NoLimit THEN s.lastDelivered ELSE originSeq

\* _initialize_branch_agent_states: a child's cursor lies within what it inherits.
ForkCursor(s, originSeq) ==
  IF originSeq = NoLimit \/ s.lastDelivered <= originSeq THEN s.lastDelivered ELSE originSeq

\* create_branch with its agent states; nothing is queued or running in the child.
CreateBranch(parent, event, checkpoint, seq) ==
  LET new == Len(branches) + 1
  IN /\ new <= limits.branches
     /\ branches' = Append(branches, [parent |-> parent, originEvent |-> event,
                                      originCheckpoint |-> checkpoint, originSeq |-> seq,
                                      archived |-> FALSE])
     /\ agent' = [b \in 0 .. new |->
                    IF b = new
                      THEN [a \in Agents |-> [NewDeliveryState EXCEPT
                              !.lastDelivered = ForkCursor(agent[parent][a], seq)]]
                      ELSE agent[b]]
     /\ thread' = [b \in 0 .. new |-> IF b = new THEN [a \in Agents |-> NoThread] ELSE thread[b]]

SpaceFor(next) == [b \in 0 .. Len(branches) + 1 |->
                     IF b = Len(branches) + 1 THEN [a \in Agents |-> {}] ELSE next[b]]

\* switch_branch: an archived branch cannot become current.
SwitchTo(b) ==
  current' = IF b = Main \/ ~branches[b].archived THEN b ELSE current

SwitchBranch(b) ==
  /\ "switch" \in limits.controls
  /\ b # current
  /\ SwitchTo(b)
  /\ UNCHANGED <<events, branches, agent, thread, saved, stored, frontiers, runs, worker, call,
                 restarts, limits>>

\* archive_branch refuses the main branch, the current one and one archived before.
ArchiveBranch(b) ==
  /\ "archive" \in limits.controls
  /\ b \notin {Main, current}
  /\ ~branches[b].archived
  /\ branches' = [branches EXCEPT ![b].archived = TRUE]
  /\ UNCHANGED <<events, current, agent, thread, saved, stored, frontiers, runs, worker, call,
                 restarts, limits>>

\* CheckpointHistoryReader.checkpoints: what the agent's thread in the branch holds.
Listed(b, a) == stored[b][a]

\* _checkpoint_usability: what the branch's frontiers and committed runs call usable, and
\* every checkpoint of a branch without such records.
UsableCheckpoints(b, a) ==
  LET recorded == \/ \E k \in 1 .. Len(frontiers) : frontiers[k].branch = b
                  \/ \E r \in RunsOf(b) : runs[r].latest # NoCheckpoint
  IN {cp \in Listed(b, a) :
        \/ ~recorded
        \/ \E k \in FrontiersOf(b, a) : frontiers[k].usable /\ frontiers[k].checkpoint = cp
        \/ \E r \in RunsOf(b) : /\ runs[r].agent = a /\ runs[r].commit = "committed"
                                /\ runs[r].stable = cp}

\* _conversation_event: the latest event in the messages of the checkpoint.
OriginSeq(cp) == IF MemoryOf(cp) = {} THEN NoLimit ELSE Greatest(MemoryOf(cp))

\* create_branch of the API, from a checkpoint.
CreateBranchFromCheckpoint(a) ==
  /\ "create" \in limits.controls
  /\ \E cp \in UsableCheckpoints(current, a) : CreateBranch(current, NoEvent, cp, OriginSeq(cp))
  /\ stored' = SpaceFor(stored)
  /\ UNCHANGED <<events, current, saved, frontiers, runs, worker, call, restarts, limits>>

----------------------------------------------------------------------------
(* edit_human_message: three operations of the store.                       *)

\* The branch starts after the event before the edited one.
EditCreatesBranch(i) ==
  /\ "edit" \in limits.controls
  /\ call.pc = "idle"
  /\ i \in Visible(current)
  /\ events[i].author = Human
  /\ CreateBranch(current, events[i].before, NoCheckpoint,
                  Greatest({j \in Visible(current) : j < i}))
  /\ stored' = SpaceFor(stored)
  /\ call' = [call EXCEPT !.pc = "edited", !.event = i, !.branch = Len(branches) + 1]
  /\ UNCHANGED <<events, current, saved, frontiers, runs, worker, restarts, limits>>

CallSwitchesBranch ==
  /\ call.pc \in {"edited", "replayed"}
  /\ SwitchTo(call.branch)
  /\ call' = [call EXCEPT !.pc = IF @ = "edited" THEN "editing" ELSE "resuming"]
  /\ UNCHANGED <<events, branches, agent, thread, saved, stored, frontiers, runs, worker, restarts, limits>>

\* The new version goes to the new branch, whatever branch is current by now.
EditAppends ==
  /\ call.pc = "editing"
  /\ Room(1)
  /\ events' = Append(events, NewEvent(Human, call.branch, events[call.event].before, NoRun))
  /\ \E targets \in SUBSET Agents : Asks(call.branch, targets, Len(events) + 1)
  /\ call' = IdleCall
  /\ UNCHANGED <<branches, current, thread, saved, stored, frontiers, runs, worker, restarts, limits>>

----------------------------------------------------------------------------
(* resume_checkpoint: the replay, then the branch for its reply.            *)

\* The graph runs on the thread of the checkpoint, in the branch that is current.
\* Bound: replays add no more checkpoints than there may be events.
ResumeInvokes(a) ==
  /\ "resume" \in limits.controls
  /\ call.pc = "idle"
  /\ Len(saved) < limits.seq
  /\ \E cp \in UsableCheckpoints(current, a) :
       /\ Writes(current, a, cp, {})
       /\ call' = [pc |-> "invoked", event |-> NoEvent, branch |-> current, agent |-> a,
                   checkpoint |-> cp]
  /\ UNCHANGED <<events, branches, current, agent, thread, frontiers, runs, worker, restarts, limits>>

\* The replay raised, or ended without a final text: what it wrote stays.
ResumeFails ==
  /\ call.pc = "invoked"
  /\ call' = IdleCall
  /\ UNCHANGED <<events, branches, current, agent, thread, saved, stored, frontiers, runs, worker,
                 restarts, limits>>

ResumeCreatesBranch ==
  /\ call.pc = "invoked"
  /\ CreateBranch(call.branch, NoEvent, call.checkpoint, OriginSeq(call.checkpoint))
  /\ stored' = SpaceFor(stored)
  /\ call' = [call EXCEPT !.pc = "replayed", !.branch = Len(branches) + 1]
  /\ UNCHANGED <<events, current, saved, frontiers, runs, worker, restarts, limits>>

\* The reply goes to the branch that is current by now.
ResumeAppends ==
  /\ call.pc = "resuming"
  /\ Room(1)
  /\ events' = Append(events, NewEvent(call.agent, current, NoEvent, NoRun))
  /\ call' = IdleCall
  /\ UNCHANGED <<branches, current, agent, thread, saved, stored, frontiers, runs, worker, restarts, limits>>

----------------------------------------------------------------------------
(* _run_agent.                                                              *)

\* A drain chose the agent in the branch that was current.
WorkerChosen(a) ==
  /\ worker[<<a, "router">>].pc = "idle"
  /\ PendingIdle(agent[current][a])
  /\ worker' = [worker EXCEPT ![<<a, "router">>].pc = "reading"]
  /\ UNCHANGED <<events, branches, current, agent, thread, saved, stored, frontiers, runs, call,
                 restarts, limits>>

\* The worker takes the branch that is current by now; with nothing to read it ends.
WorkerReads(a) ==
  LET s     == agent[current][a]
      w     == <<a, "router">>
      found == Latest(current) > s.lastDelivered
  IN /\ worker[w].pc = "reading"
     /\ worker' = [worker EXCEPT ![w] =
          IF found THEN [@ EXCEPT !.pc = "starting", !.branch = current, !.thread = current,
                                  !.low = s.lastDelivered, !.snapshot = Latest(current)]
                   ELSE IdleWorker]
     /\ IF found THEN UNCHANGED agent
        ELSE SaveAgentState(current, a,
               CompleteRun(s, IF s.currentRun = NoRun THEN BlankRun ELSE s.currentRun,
                           s.lastDelivered, FALSE))
     /\ UNCHANGED <<events, branches, current, thread, saved, stored, frontiers, runs, call,
                    restarts, limits>>

\* What the sync builder projects of the events after the cursor: those of others.
Projected(w) ==
  {i \in Visible(worker[w].branch) :
     worker[w].low < i /\ i <= worker[w].snapshot /\ events[i].author # w[1]}

NewRun(a, lane, b, low, snapshot) ==
  [agent |-> a, lane |-> lane, branch |-> b, low |-> low, snapshot |-> snapshot,
   status |-> "running", commit |-> "pending", stable |-> NoCheckpoint, latest |-> NoCheckpoint]

\* ensure_branch_thread and mark_run_started; a refused fork ends the thread outside the
\* try block, and the agent stays queued.
WorkerStartsRun(a) ==
  LET w == <<a, "router">>
      b == worker[w].branch
      r == Len(runs) + 1
  IN /\ worker[w].pc = "starting"
     /\ IF ForkRefused(b, a)
          THEN /\ worker' = [worker EXCEPT ![w] = IdleWorker]
               /\ UNCHANGED <<agent, thread, stored, runs>>
          ELSE /\ r <= limits.runs
               /\ EnsureThread(b, a, r)
               /\ SaveRun(r, NewRun(a, "router", b, worker[w].low, worker[w].snapshot))
               /\ SaveAgentState(b, a, MarkRunStarted(agent[b][a], r, worker[w].snapshot))
               /\ worker' = [worker EXCEPT ![w].pc = "invoking", ![w].run = r]
     /\ UNCHANGED <<events, branches, current, saved, frontiers, call, restarts, limits>>

\* The graph runs on the thread: from its latest checkpoint, or from the injected one,
\* with no further message (low = snapshot).
WorkerInvokes(w) ==
  LET a == w[1]
      t == worker[w].thread
  IN /\ worker[w].pc = "invoking"
     /\ w[2] = "router" => Projected(w) # {}
     /\ Writes(t, a, IF w[2] = "router" THEN LatestCheckpoint(t, a) ELSE worker[w].from,
               Projected(w))
     /\ worker' = [worker EXCEPT ![w].pc = "completing"]
     /\ UNCHANGED <<events, branches, current, agent, thread, frontiers, runs, call, restarts, limits>>

\* _committed_causal_commit_ids: of the threads here, each is created by a run.
CommittedIds == {r \in 1 .. Len(runs) : runs[r].commit = "committed"}

\* reconcile_incomplete_commits: pending runs are orphaned and release their agents, and
\* the threads created by a run that is not committed are orphaned too.
Reconcile(threads) ==
  LET Lost(r) == runs[r].commit = "pending"
  IN /\ runs' = [r \in 1 .. Len(runs) |->
                   IF Lost(r)
                     THEN [runs[r] EXCEPT !.status = "failed", !.commit = "orphaned",
                                          !.latest = LatestCheckpoint(runs[r].branch, runs[r].agent)]
                     ELSE runs[r]]
     /\ agent' = [b \in Branches |-> [a \in Agents |->
                    IF \E r \in 1 .. Len(runs) : Lost(r) /\ r = agent[b][a].currentRun
                      THEN ReleaseRun(agent[b][a], agent[b][a].currentRun) ELSE agent[b][a]]]
     /\ thread' = [b \in Branches |-> [a \in Agents |->
                     IF threads[b][a].status = "active" /\ threads[b][a].commit \notin CommittedIds
                       THEN [threads[b][a] EXCEPT !.status = "orphaned"] ELSE threads[b][a]]]

\* A relation tool opens a store to resolve the thread of the agent it calls.
WorkerCallsRelationTool(w) ==
  /\ worker[w].pc = "invoking"
  /\ w[1] \in RelationCallers
  /\ Reconcile(thread)
  /\ UNCHANGED <<events, branches, current, saved, stored, frontiers, worker, call, restarts, limits>>

----------------------------------------------------------------------------
(* complete_run, record_delivery and what it settles.                       *)

Stable(status) == status \in {"empty", "skipped", "stopped", "success"}

\* Mutation of SettledRun: the checkpoint of a failed run counts as stable.
SettledAsStable(r, status) ==
  LET latest == LatestCheckpoint(runs[r].branch, runs[r].agent)
  IN IF runs[r].commit = "orphaned" THEN runs[r]
     ELSE [runs[r] EXCEPT !.status = status, !.commit = "committed",
                          !.latest = latest, !.stable = latest]

\* Mutation of SettledRun: an orphaned run is completed like any other.
SettledAnyway(r, status) ==
  LET latest == LatestCheckpoint(runs[r].branch, runs[r].agent)
  IN [runs[r] EXCEPT !.status = status, !.commit = "committed", !.latest = latest,
                     !.stable = IF Stable(status) THEN latest ELSE @]

\* _complete_run_record_from_delivery: an orphaned run keeps its record.
SettledRun(r, status) ==
  LET latest == LatestCheckpoint(runs[r].branch, runs[r].agent)
  IN IF runs[r].commit = "orphaned" THEN runs[r]
     ELSE [runs[r] EXCEPT !.status = status, !.commit = "committed", !.latest = latest,
                          !.stable = IF Stable(status) THEN latest ELSE @]

\* _record_terminal_run_frontier: at the last event the run had read.
TerminalFrontier(r, status) ==
  LET run  == SettledRun(r, status)
      last == Greatest({i \in Visible(run.branch) : i <= run.snapshot})
  IN IF \/ runs[r].commit = "orphaned" \/ status = "success"
        \/ last = NoEvent \/ run.latest = NoCheckpoint
       THEN frontiers
       ELSE RecordFrontier([event |-> last, agent |-> run.agent, branch |-> run.branch,
                            thread |-> run.branch, checkpoint |-> run.latest, run |-> r,
                            usable |-> run.stable # NoCheckpoint])

\* A result only counts while its run is the current one; an injected one always does.
Outcomes(w) ==
  LET s == agent[worker[w].branch][w[1]]
  IN IF w[2] = "inject" THEN {"success", "empty", "failed"}
     ELSE IF OwnsRun(s, worker[w].run) THEN {"success", "empty", "failed", "stopped"}
     ELSE {"ignored", "failed"}

Settles(w, status) ==
  LET a    == w[1]
      b    == worker[w].branch
      r    == worker[w].run
      done == CompleteRun(agent[b][a], r, worker[w].snapshot, status \notin {"failed", "stopped"})
  IN /\ SaveAgentState(b, a, IF runs[r].commit = "orphaned" THEN done
                             ELSE ClearRunAgentState(done, r, worker[w].snapshot, status))
     /\ SaveRun(r, SettledRun(r, status))
     /\ frontiers' = TerminalFrontier(r, status)
     /\ worker' = [worker EXCEPT ![w] = IF status = "success" /\ Room(1)
                                          THEN [@ EXCEPT !.pc = "replying"] ELSE IdleWorker]
     /\ UNCHANGED <<events, branches, current, thread, saved, stored, call, restarts, limits>>

WorkerCompletes(w) ==
  /\ worker[w].pc = "completing"
  /\ \E status \in Outcomes(w) : Settles(w, status)

\* Nothing to project: the agent wrote every event itself.
WorkerSkips(a) ==
  /\ worker[<<a, "router">>].pc = "invoking"
  /\ Projected(<<a, "router">>) = {}
  /\ Settles(<<a, "router">>, "skipped")

\* The invocation raises before it has written a checkpoint.
WorkerRaises(w) ==
  /\ worker[w].pc = "invoking"
  /\ Settles(w, "failed")

\* _append_public_reply: the event, its frontier, and the agents it mentions.
WorkerReplies(w) ==
  LET a == w[1]
      b == worker[w].branch
      t == worker[w].thread
      i == Len(events) + 1
  IN /\ worker[w].pc = "replying"
     /\ Room(1)
     /\ events' = Append(events, NewEvent(a, b, NoEvent, worker[w].run))
     /\ frontiers' = IF stored[t][a] = {} THEN frontiers
                     ELSE RecordFrontier([event |-> i, agent |-> a, branch |-> b, thread |-> t,
                                          checkpoint |-> LatestCheckpoint(t, a),
                                          run |-> worker[w].run, usable |-> TRUE])
     /\ \E targets \in SUBSET (Agents \ {a}) : Asks(b, targets, i)
     /\ worker' = [worker EXCEPT ![w] = IdleWorker]
     /\ UNCHANGED <<branches, current, thread, saved, stored, runs, call, restarts, limits>>

----------------------------------------------------------------------------
(* inject_agent_prompt, up to the invocation; then as a worker.             *)

\* _latest_usable_thread_frontier.
UsableFrontiers(b, a) ==
  {k \in FrontiersOf(b, a) : frontiers[k].usable /\ frontiers[k].checkpoint # NoCheckpoint}

\* update_state adds the prompt below the frontier's checkpoint; the run takes the agent
\* over from whatever run it had, and has read everything there is.
InjectStarts(a) ==
  LET w == <<a, "inject">>
      b == current
      f == frontiers[Greatest(UsableFrontiers(b, a))]
      r == Len(runs) + 1
  IN /\ "inject" \in limits.controls
     /\ worker[w].pc = "idle"
     /\ UsableFrontiers(b, a) # {}
     /\ r <= limits.runs
     /\ Writes(f.thread, a, f.checkpoint, {})
     /\ SaveRun(r, NewRun(a, "inject", b, Latest(b), Latest(b)))
     /\ SaveAgentState(b, a, MarkRunStarted(agent[b][a], r, Latest(b)))
     /\ worker' = [worker EXCEPT ![w] =
          [pc |-> "invoking", branch |-> b, run |-> r, low |-> Latest(b), snapshot |-> Latest(b),
           from |-> Len(saved) + 1, thread |-> f.thread]]
     /\ UNCHANGED <<events, branches, current, thread, frontiers, call, restarts, limits>>

----------------------------------------------------------------------------

\* A crash may fall after the fork of a run that starts and before its record.
Interrupted == {a \in Agents : /\ worker[<<a, "router">>].pc = "starting"
                              /\ ~ForkRefused(worker[<<a, "router">>].branch, a)}

\* The new process finds what the stores have saved, and reconciles it.  With nobody at
\* work a restart changes nothing here, so it is left out.
Restart ==
  /\ restarts < limits.restarts
  /\ call # IdleCall \/ \E w \in Workers : worker[w] # IdleWorker
  /\ restarts' = restarts + 1
  /\ worker'   = [w \in Workers |-> IdleWorker]
  /\ call'     = IdleCall
  /\ \E cut \in {{}} \union {{a} : a \in Interrupted} :
       LET Cut(b, a) == /\ a \in cut /\ worker[<<a, "router">>].branch = b
                        /\ thread[b][a].status # "active"
       IN /\ Reconcile([b \in Branches |-> [a \in Agents |->
                 IF Cut(b, a) THEN [status |-> "active", commit |-> LostRun] ELSE thread[b][a]]])
          /\ stored' = [b \in Branches |-> [a \in Agents |->
                 IF Cut(b, a) THEN ForkedCheckpoints(b, a) ELSE stored[b][a]]]
  /\ UNCHANGED <<events, branches, current, saved, frontiers, limits>>

Next ==
  \/ AppendHumanMessage
  \/ \E b \in Branches : SwitchBranch(b) \/ ArchiveBranch(b)
  \/ \E i \in 1 .. Len(events) : EditCreatesBranch(i)
  \/ CallSwitchesBranch \/ EditAppends \/ ResumeFails \/ ResumeCreatesBranch \/ ResumeAppends
  \/ \E a \in Agents : \/ CreateBranchFromCheckpoint(a) \/ ResumeInvokes(a) \/ InjectStarts(a)
                       \/ WorkerChosen(a) \/ WorkerReads(a) \/ WorkerStartsRun(a) \/ WorkerSkips(a)
  \/ \E w \in Workers : \/ WorkerInvokes(w) \/ WorkerCallsRelationTool(w) \/ WorkerCompletes(w)
                        \/ WorkerRaises(w) \/ WorkerReplies(w)
  \/ Restart

Spec == Init /\ [][Next]_vars

----------------------------------------------------------------------------
(* Properties.                                                              *)

Commits     == {"pending", "committed", "orphaned"}
Statuses    == {"running", "success", "empty", "skipped", "stopped", "ignored", "failed"}
Events      == 0 .. Len(events)
Checkpoints == 0 .. Len(saved)
RunIds      == 0 .. Len(runs)

\* The records of the stores and of the threads at work refer to what exists.
TypeOK ==
  /\ events \in Seq([author : Agents \union {Human}, branch : Branches, before : Events, run : RunIds])
  /\ branches \in Seq([parent : Branches, originEvent : Events, originCheckpoint : Checkpoints,
                       originSeq : Events \union {NoLimit}, archived : BOOLEAN])
  /\ current \in Branches
  /\ agent \in [Branches -> [Agents -> DeliveryStates(Events, RunIds \union {BlankRun})]]
  /\ thread \in [Branches -> [Agents -> [status : {"none", "active", "orphaned"},
                                        commit : RunIds \union {LostRun}]]]
  /\ saved \in Seq([parent : Checkpoints, memory : SUBSET Events])
  /\ stored \in [Branches -> [Agents -> SUBSET Checkpoints]]
  /\ frontiers \in Seq([event : Events, agent : Agents, branch : Branches, thread : Branches,
                        checkpoint : Checkpoints, run : RunIds, usable : BOOLEAN])
  /\ runs \in Seq([agent : Agents, lane : Lanes, branch : Branches, low : Events, snapshot : Events,
                   status : Statuses, commit : Commits, stable : Checkpoints, latest : Checkpoints])
  /\ worker \in [Workers -> [pc : {"idle", "reading", "starting", "invoking", "completing", "replying"},
                             branch : Branches, run : RunIds, low : Events, snapshot : Events,
                             from : Checkpoints, thread : Branches]]
  /\ call \in [pc : {"idle", "edited", "editing", "invoked", "replayed", "resuming"},
               event : Events, branch : Branches, agent : Agents \union {Human},
               checkpoint : Checkpoints]
  /\ restarts \in 0 .. limits.restarts
  /\ limits \in Limits

\* A branch that starts at an event keeps the history it was made with: whatever happens
\* in the branches around it, only messages written in it are added to what it shows.
BranchHistoryKept ==
  [][\A b \in Branches \ {Main} :
       branches[b].originSeq # NoLimit =>
         /\ Visible(b) \subseteq Visible(b)'
         /\ \A i \in Visible(b)' : i \in Visible(b) \/ events'[i].branch = b]_vars

\* A prompt was injected beside a run of the agent, and ended without a reply on a checkpoint
\* of that run, which remembers more than the prompt's snapshot: its frontier says less.
Overtaken(a) ==
  \E r \in 1 .. Len(runs) :
    /\ runs[r].agent = a /\ runs[r].lane = "inject" /\ runs[r].status = "empty"
    /\ ~(MemoryOf(runs[r].stable) \subseteq 0 .. runs[r].snapshot)

\* An agent never remembers, in a branch, a message the branch does not show: neither the
\* version an edit has replaced, nor what followed it in the parent; but an agent that an
\* injected prompt has overtaken may.
NoForeignHistory ==
  \A b \in Branches, a \in Agents :
    Overtaken(a) \/ \A cp \in stored[b][a] : MemoryOf(cp) \subseteq Visible(b)

\* The branches a branch comes from, itself included.
Ancestors[b \in Branches] == IF b = Main THEN {Main} ELSE {b} \union Ancestors[branches[b].parent]

\* What the cursor of an agent has passed in a branch, some run of that agent was given,
\* in the branch or in one it comes from, unless a prompt was injected over it.
NothingSkipped ==
  \A b \in Branches, a \in Agents : \A i \in Visible(b) :
    i <= agent[b][a].lastDelivered =>
      \E r \in 1 .. Len(runs) :
        /\ runs[r].agent = a
        /\ runs[r].branch \in Ancestors[b]
        /\ runs[r].commit = "committed"
        /\ i <= runs[r].snapshot
        /\ runs[r].lane = "inject" \/ runs[r].low < i

\* A run replies at most once, after all it was given, and in the branch it was started
\* in, wherever users have switched to meanwhile.
ReplyInRunBranch ==
  \A i \in 1 .. Len(events) : events[i].run # NoRun =>
    LET run == runs[events[i].run]
    IN /\ events[i].author = run.agent
       /\ events[i].branch = run.branch
       /\ i > run.snapshot
       /\ \A j \in 1 .. Len(events) : events[j].run = events[i].run => j = i

\* A frontier new branches may take a thread over from is that of a run the router has
\* committed with a stable outcome: a failed, orphaned or unfinished run gives none.  Its
\* checkpoint remembers nothing after its event, but for agents a prompt has overtaken.
UsableFrontierSettled ==
  \A k \in 1 .. Len(frontiers) :
    LET run == runs[frontiers[k].run]
    IN frontiers[k].usable /\ run.lane = "router" =>
         /\ run.commit = "committed" /\ Stable(run.status)
         /\ \/ Overtaken(frontiers[k].agent)
            \/ MemoryOf(frontiers[k].checkpoint) \subseteq 0 .. frontiers[k].event

\* Only a thread whose first run was lost is in the way of a fork (an agent refused one
\* stays queued for good); a thread that was never lost is taken up again.
RefusalNeedsOrphan ==
  \A b \in Branches, a \in Agents : ForkRefused(b, a) => thread[b][a].status = "orphaned"

\* Once a run is committed or orphaned, nothing that happens later rewrites it: a process
\* that reconciles, and the thread of a run given up, never meet on one record.
CommitIsFinal ==
  [][\A r \in 1 .. Len(runs) : runs[r].commit # "pending" => runs'[r] = runs[r]]_vars

\* What the cursor of an agent says it has read in a branch, the agent remembers there, or
\* wrote itself, once a run has taken the thread of the branch up.
MemoryCoversCursor ==
  \A b \in Branches, a \in Agents : stored[b][a] # {} =>
    \A i \in Visible(b) :
      i <= agent[b][a].lastDelivered /\ events[i].author # a =>
        i \in MemoryOf(LatestCheckpoint(b, a))
=============================================================================
