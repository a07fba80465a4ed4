------------------------- MODULE BranchHistory_proofs -------------------------
(***************************************************************************)
(* What the branches of a conversation show, what the agents remember in   *)
(* them, what their cursors say, and what Studio shows of it, for any      *)
(* agents and any bounds.                                                  *)
(***************************************************************************)
EXTENDS ConversationBranches_proofs, StudioView


----------------------------------------------------------------------------
(* The kinds of steps, and what each does to every record.                  *)

\* From the start of a run to its reply, its thread has it.
AtRun(w) == worker[w].pc \in {"invoking", "completing", "replying"}

Becomes(w, x) == worker'[w] = x /\ \A v \in Workers : v # w => worker'[v] = worker[v]

AgentBecomes(b, a, s) ==
  /\ agent'[b][a] = s
  /\ \A d \in Branches, x \in Agents : <<d, x>> # <<b, a>> => agent'[d][x] = agent[d][x]

\* The agent has read what it had read, and at most gives its run up.
Calm(s, t) ==
  /\ s.lastDelivered = t.lastDelivered
  /\ s.running => t.running /\ s.currentRun = t.currentRun
  /\ s.currentRun \in {t.currentRun, NoRun}

AgentsCalm == \A b \in Branches, a \in Agents : Calm(agent'[b][a], agent[b][a])

\* An edit under way stays the one it is.
CallKept ==
  call'.pc \in {"edited", "editing"} =>
    /\ call.pc \in {"edited", "editing"} /\ call'.event = call.event /\ call'.branch = call.branch

Recorded(f) ==
  \A k \in 1 .. Len(frontiers') :
    frontiers'[k] = f \/ \E j \in 1 .. Len(frontiers) : frontiers'[k] = frontiers[j]

ControlStep ==
  /\ UNCHANGED <<events, agent, thread, saved, stored, frontiers, runs, worker>>
  /\ Len(branches') = Len(branches) /\ CallKept

\* The router chooses an agent, reads what there is for it, or is refused the fork of its thread.
ReadStep ==
  /\ UNCHANGED <<events, branches, current, thread, saved, stored, frontiers, runs, call>>
  /\ AgentsCalm
  /\ \E a \in Agents : \E x :
       /\ worker[<<a, "router">>].pc \in {"idle", "reading", "starting"}
       /\ Becomes(<<a, "router">>, x)
       /\ \/ x.pc \in {"idle", "reading"}
          \/ /\ x.pc = "starting" /\ x.branch = current /\ x.snapshot = Latest(current)
             /\ x.low = agent[current][a].lastDelivered /\ x.low < x.snapshot

\* Somebody says something in a branch: a user, a replayed agent, or a run that ends.
SpeakStep ==
  /\ UNCHANGED <<branches, current, thread, saved, stored, runs>>
  /\ AgentsCalm
  /\ Len(events') = Len(events) + 1
  /\ \E b \in Branches, before \in Events :
       /\ events'[Len(events) + 1].branch = b
       /\ events'[Len(events) + 1].before = IF before = NoEvent THEN Latest(b) ELSE before
       /\ \/ before = NoEvent
          \/ call.pc = "editing" /\ b = call.branch /\ before = events[call.event].before
       /\ \/ /\ UNCHANGED <<frontiers, worker>> /\ CallKept
             /\ events'[Len(events) + 1].run = NoRun
          \/ /\ UNCHANGED call
             /\ \E w \in Workers :
                  /\ worker[w].pc = "replying" /\ worker[w].branch = b
                  /\ Becomes(w, IdleWorker)
                  /\ events'[Len(events) + 1].author = w[1]
                  /\ events'[Len(events) + 1].run = worker[w].run
                  /\ \/ UNCHANGED frontiers
                     \/ /\ stored[b][w[1]] # {}
                        /\ Recorded([event |-> Len(events) + 1, agent |-> w[1], branch |-> b,
                                     thread |-> b, checkpoint |-> LatestCheckpoint(b, w[1]),
                                     run |-> worker[w].run, usable |-> TRUE])

\* A branch is created, from an event or from a checkpoint.
CreateStep ==
  /\ UNCHANGED <<events, saved, frontiers, runs, worker>>
  /\ Len(branches') = Len(branches) + 1
  /\ \A b \in Branches : /\ agent'[b] = agent[b] /\ thread'[b] = thread[b]
                         /\ stored'[b] = stored[b]
  /\ \E parent \in Branches :
       LET new  == Len(branches) + 1
           made == branches'[new]
       IN  /\ made.parent = parent
           /\ \A a \in Agents :
                /\ agent'[new][a] = [NewDeliveryState EXCEPT
                     !.lastDelivered = ForkCursor(agent[parent][a], made.originSeq)]
                /\ thread'[new][a] = NoThread /\ stored'[new][a] = {}
           /\ \/ /\ made.originEvent = NoEvent /\ CallKept
                 /\ made.originSeq = OriginSeq(made.originCheckpoint)
              \/ \E i \in Visible(current) :
                   /\ made.originEvent = events[i].before /\ made.originCheckpoint = NoCheckpoint
                   /\ made.originSeq = Greatest({j \in Visible(current) : j < i})
                   /\ parent = current /\ call'.event = i /\ call'.branch = new

\* A checkpoint is written below from, and remembers what was given besides.
Adds(b, a, from, given) ==
  /\ Len(saved') = Len(saved) + 1
  /\ saved'[Len(saved) + 1].parent = from
  /\ saved'[Len(saved) + 1].memory = MemoryOf(from) \union given
  /\ stored'[b][a] = stored[b][a] \union {Len(saved) + 1}
  /\ \A d \in Branches, x \in Agents : <<d, x>> # <<b, a>> => stored'[d][x] = stored[d][x]

\* A graph runs: of a checkpoint that is replayed, or of a run.
WriteStep ==
  /\ UNCHANGED <<events, branches, current, agent, thread, frontiers, runs>>
  /\ \E b \in Branches, a \in Agents :
       \/ /\ UNCHANGED worker /\ CallKept
          /\ \E from \in stored[b][a] : Adds(b, a, from, {})
       \/ /\ UNCHANGED call
          /\ \E w \in Workers :
               /\ w[1] = a /\ worker[w].branch = b /\ worker[w].pc = "invoking"
               /\ Becomes(w, [worker[w] EXCEPT !.pc = "completing"])
               /\ Adds(b, a, IF w[2] = "router" THEN LatestCheckpoint(b, a) ELSE worker[w].from,
                       Projected(w))

\* A run starts: its record, its agent and its thread.
Starts(w, x) ==
  LET r == Len(runs) + 1
  IN  /\ Len(runs') = r /\ \A q \in 1 .. Len(runs) : runs'[q] = runs[q]
      /\ runs'[r] = NewRun(w[1], w[2], x.branch, x.low, x.snapshot)
      /\ Becomes(w, x) /\ x.pc = "invoking" /\ x.run = r
      /\ \E s : /\ AgentBecomes(x.branch, w[1], s)
                /\ s.lastDelivered = agent[x.branch][w[1]].lastDelivered
                /\ s.currentRun = r

InjectStep ==
  /\ UNCHANGED <<events, branches, current, thread, frontiers, call>>
  /\ \E a \in Agents : \E x :
       /\ worker[<<a, "inject">>].pc = "idle" /\ Starts(<<a, "inject">>, x)
       /\ x.branch = current /\ x.low = Latest(current) /\ x.snapshot = Latest(current)
       /\ x.from = Len(saved) + 1
       /\ \E k \in UsableFrontiers(current, a) : Adds(current, a, frontiers[k].checkpoint, {})

StartStep ==
  /\ UNCHANGED <<events, branches, current, saved, frontiers, call>>
  /\ \E a \in Agents :
       LET w == <<a, "router">>
           b == worker[w].branch
       IN  /\ worker[w].pc = "starting" /\ ~ForkRefused(b, a)
           /\ \E x : /\ Starts(w, x) /\ x.branch = b
                     /\ x.low = worker[w].low /\ x.snapshot = worker[w].snapshot
           /\ thread'[b][a].status = "active"
           /\ stored'[b][a] = IF thread[b][a].status = "active" THEN stored[b][a]
                              ELSE ForkedCheckpoints(b, a)
           /\ \A d \in Branches, y \in Agents : <<d, y>> # <<b, a>> =>
                stored'[d][y] = stored[d][y] /\ thread'[d][y] = thread[d][y]

\* A run ends, and its agent with it unless it has another run by now.
SettleStep ==
  /\ UNCHANGED <<events, branches, current, thread, saved, stored, call>>
  /\ \E w \in Workers, status \in Statuses \ {"running"} :
       LET r   == worker[w].run
           old == agent[worker[w].branch][w[1]]
       IN  /\ AtWork(w)
           /\ w[2] = "inject" => status \in {"success", "empty", "failed"}
           /\ status \in {"success", "empty", "skipped", "stopped"} /\ w[2] = "router" =>
                old.currentRun = r \/ status = "skipped"
           /\ Len(runs') = Len(runs) /\ runs'[r] = SettledRun(r, status)
           /\ \A q \in 1 .. Len(runs) : q # r => runs'[q] = runs[q]
           /\ \E x : /\ Becomes(w, x)
                     /\ \/ x = IdleWorker
                        \/ status = "success" /\ x = [worker[w] EXCEPT !.pc = "replying"]
           /\ \E s : /\ AgentBecomes(worker[w].branch, w[1], s)
                     /\ IF old.currentRun = r
                          THEN /\ ~s.running /\ s.currentRun = NoRun
                               /\ s.lastDelivered \in
                                    {old.lastDelivered, Later(worker[w].snapshot, old.lastDelivered)}
                          ELSE s = old
           /\ \/ UNCHANGED frontiers
              \/ /\ runs[r].commit # "orphaned" /\ status # "success" /\ LastRead(r) # NoEvent
                 /\ LatestCheckpoint(runs[r].branch, runs[r].agent) # NoCheckpoint
                 /\ Recorded(TerminalRecord(r, status))

\* A process reconciles: a relation tool's, or the new one after a restart, which may find a
\* thread forked for a run that was never recorded.
ReconcileStep ==
  /\ UNCHANGED <<events, branches, current, saved, frontiers>> /\ CallKept
  /\ Len(runs') = Len(runs)
  /\ \A r \in 1 .. Len(runs) :
       IF runs[r].commit = "pending"
         THEN /\ runs'[r].commit = "orphaned" /\ runs'[r].status = "failed"
              /\ runs'[r].stable = runs[r].stable
         ELSE runs'[r] = runs[r]
  /\ AgentsCalm
  /\ \A b \in Branches, a \in Agents :
       /\ agent[b][a].currentRun \in 1 .. Len(runs)
       /\ runs[agent[b][a].currentRun].commit = "pending"
       => agent'[b][a].currentRun = NoRun /\ ~agent'[b][a].running
  /\ \A b \in Branches, a \in Agents :
       thread'[b][a].status = "none" => thread[b][a].status = "none" /\ stored'[b][a] = stored[b][a]
  /\ \/ UNCHANGED <<stored, worker>>
     \/ /\ \A w \in Workers : worker'[w] = IdleWorker
        /\ \A b \in Branches, a \in Agents :
             \/ stored'[b][a] = stored[b][a]
             \/ /\ worker[<<a, "router">>].pc = "starting" /\ worker[<<a, "router">>].branch = b
                /\ ~ForkRefused(b, a) /\ thread[b][a].status # "active"
                /\ stored'[b][a] = ForkedCheckpoints(b, a)

StepKinds ==
  \/ ControlStep \/ ReadStep \/ SpeakStep \/ CreateStep \/ WriteStep \/ InjectStep \/ StartStep
  \/ SettleStep \/ ReconcileStep

LEMMA AsksAre ==
  ASSUME TypeInv, NEW b \in Branches, NEW targets \in SUBSET Agents, NEW seq, Asks(b, targets, seq)
  PROVE  AgentsCalm
<1> DEFINE next == [a \in Agents |-> IF a \in targets THEN Enqueue(agent[b][a], seq) ELSE agent[b][a]]
<1>1. agent' = [agent EXCEPT ![b] = next] /\ agent \in [Branches -> [Agents -> DeliverySet(Events, RunIds)]]
  BY ThreadsAre DEF Asks
<1>2. ASSUME NEW d \in Branches, NEW a \in Agents
      PROVE  Calm(Enqueue(agent[d][a], seq), agent[d][a]) /\ Calm(agent[d][a], agent[d][a])
  <2>1. agent[d][a] \in DeliverySet(Events, RunIds)
    BY <1>1
  <2> QED
    BY <2>1 DEF Calm, Enqueue, DeliverySet, DeliveryStates
<1>3. \A d \in Branches, a \in Agents :
        agent'[d][a] = IF d = b /\ a \in targets THEN Enqueue(agent[d][a], seq) ELSE agent[d][a]
  <2> QED
    BY <1>1
<1> QED
  BY <1>2, <1>3 DEF AgentsCalm

LEMMA AgentsStayCalm ==
  ASSUME TypeInv, UNCHANGED agent
  PROVE  AgentsCalm
BY DEF AgentsCalm, Calm

LEMMA WorkerBecomes ==
  ASSUME TypeInv, NEW w \in Workers, NEW x, worker' = [worker EXCEPT ![w] = x]
  PROVE  Becomes(w, x)
BY WorkersAre DEF Becomes

LEMMA AgentIsSaved ==
  ASSUME TypeInv, NEW b \in Branches, NEW a \in Agents, NEW s, SaveAgentState(b, a, s)
  PROVE  AgentBecomes(b, a, s)
BY ThreadsAre DEF AgentBecomes, SaveAgentState

LEMMA FrontierIsRecorded ==
  ASSUME TypeInv, NEW f, frontiers' = RecordFrontier(f)
  PROVE  Recorded(f)
<1> DEFINE S == FrontierSet(Branches, Events, Checkpoints, RunIds) \union {f}
<1>1. frontiers \in Seq(S) /\ f \in S
  BY FrontiersAre, SequencesGrow
<1> HIDE DEF S
<1> QED
  BY <1>1, FrontierRecorded DEF Recorded

LEMMA ControlIs ==
  ASSUME TypeInv,
         \/ \E b \in Branches : SwitchBranch(b) \/ ArchiveBranch(b)
         \/ CallSwitchesBranch \/ ResumeFails \/ UNCHANGED vars
  PROVE  ControlStep
<1>1. UNCHANGED <<events, agent, thread, saved, stored, frontiers, runs, worker>>
  BY DEF SwitchBranch, ArchiveBranch, CallSwitchesBranch, ResumeFails, vars
<1>2. Len(branches') = Len(branches)
  <2>1. ASSUME NEW b \in Branches, ArchiveBranch(b) PROVE Len(branches') = Len(branches)
    <3>1. branches' = [branches EXCEPT ![b].archived = TRUE]
      BY <2>1 DEF ArchiveBranch
    <3>2. branches \in Seq(BranchSet(Branches, Events, Checkpoints))
      BY BranchesAre
    <3> QED
      BY <3>1, <3>2
  <2> QED
    BY <2>1 DEF SwitchBranch, CallSwitchesBranch, ResumeFails, vars
<1>3. CallKept
  BY CallIs DEF CallKept, SwitchBranch, ArchiveBranch, CallSwitchesBranch, ResumeFails, vars, IdleCall, CallSet
<1> QED
  BY <1>1, <1>2, <1>3 DEF ControlStep

LEMMA HumanSpeaks ==
  ASSUME TypeInv, AppendHumanMessage
  PROVE  SpeakStep
<1>1. PICK targets \in SUBSET Agents : Asks(current, targets, Len(events) + 1)
  BY DEF AppendHumanMessage
<1>2. /\ events' = Append(events, NewEvent(Human, current, NoEvent, NoRun))
      /\ UNCHANGED <<branches, current, thread, saved, stored, frontiers, runs, worker, call>>
  BY DEF AppendHumanMessage
<1>3. AgentsCalm
  BY <1>1, Sizes, AsksAre
<1>4. /\ Len(events') = Len(events) + 1
      /\ LET e == events'[Len(events) + 1]
         IN  /\ e.branch = current /\ e.run = NoRun
             /\ e.before = IF NoEvent = NoEvent THEN Latest(current) ELSE NoEvent
  BY <1>2, Sizes, SmallIds, EventAppended
<1>5. CallKept
  BY <1>2 DEF CallKept
<1> QED
  BY <1>2, <1>3, <1>4, <1>5, Sizes, SmallIds DEF SpeakStep

LEMMA EditSpeaks ==
  ASSUME TypeInv, EditAppends
  PROVE  SpeakStep
<1> DEFINE b == call.branch
           before == events[call.event].before
<1>1. PICK targets \in SUBSET Agents : Asks(b, targets, Len(events) + 1)
  BY DEF EditAppends
<1>2. /\ events' = Append(events, NewEvent(Human, b, before, NoRun))
      /\ call.pc = "editing" /\ call' = IdleCall
      /\ UNCHANGED <<branches, current, thread, saved, stored, frontiers, runs, worker>>
  BY DEF EditAppends
<1>3. b \in Branches /\ before \in Events
  BY <1>2, CallIs, EventsAre
<1> HIDE DEF b, before
<1>4. AgentsCalm
  BY <1>1, <1>3, AsksAre
<1>5. /\ Len(events') = Len(events) + 1
      /\ LET e == events'[Len(events) + 1]
         IN  /\ e.branch = b /\ e.run = NoRun
             /\ e.before = IF before = NoEvent THEN Latest(b) ELSE before
  BY <1>2, <1>3, SmallIds, EventAppended
<1>6. CallKept
  BY <1>2 DEF CallKept, IdleCall
<1>7. /\ \/ before = NoEvent
         \/ call.pc = "editing" /\ b = call.branch /\ before = events[call.event].before
  BY <1>2 DEF b, before
<1> QED
  BY <1>2, <1>3, <1>4, <1>5, <1>6, <1>7 DEF SpeakStep

LEMMA ReplaySpeaks ==
  ASSUME TypeInv, ResumeAppends
  PROVE  SpeakStep
<1> DEFINE author == call.agent
<1>1. /\ events' = Append(events, NewEvent(author, current, NoEvent, NoRun))
      /\ call' = IdleCall
      /\ UNCHANGED <<branches, current, agent, thread, saved, stored, frontiers, runs, worker>>
  BY DEF ResumeAppends
<1>2. author \in Agents \union {Human}
  BY CallIs
<1> HIDE DEF author
<1>3. /\ Len(events') = Len(events) + 1
      /\ LET e == events'[Len(events) + 1]
         IN  /\ e.branch = current /\ e.run = NoRun
             /\ e.before = IF NoEvent = NoEvent THEN Latest(current) ELSE NoEvent
  BY <1>1, <1>2, Sizes, SmallIds, EventAppended
<1>4. CallKept /\ AgentsCalm
  BY <1>1, AgentsStayCalm DEF CallKept, IdleCall
<1> QED
  BY <1>1, <1>3, <1>4, Sizes, SmallIds DEF SpeakStep

LEMMA WorkerSpeaks ==
  ASSUME TypeInv, NEW w \in Workers, WorkerReplies(w)
  PROVE  SpeakStep
<1> DEFINE a == w[1]
           b == worker[w].branch
           r == worker[w].run
           f == [event |-> Len(events) + 1, agent |-> a, branch |-> b, thread |-> b,
                 checkpoint |-> LatestCheckpoint(b, a), run |-> r, usable |-> TRUE]
<1>0. /\ worker[w].pc = "replying" /\ a \in Agents /\ b \in Branches /\ worker[w].thread = b
      /\ r \in RunIds
  BY WorkersAre, Sizes DEF WorkerReplies, RunIds
<1>1. PICK targets \in SUBSET Agents : Asks(b, targets, Len(events) + 1)
  BY DEF WorkerReplies
<1>2. /\ events' = Append(events, NewEvent(a, b, NoEvent, r))
      /\ frontiers' = IF stored[b][a] = {} THEN frontiers ELSE RecordFrontier(f)
      /\ worker' = [worker EXCEPT ![w] = IdleWorker]
      /\ UNCHANGED <<branches, current, thread, saved, stored, runs, call>>
  BY <1>0 DEF WorkerReplies
<1>3. UNCHANGED frontiers \/ (stored[b][a] # {} /\ Recorded(f))
  <2> HIDE DEF f
  <2> QED
    BY <1>2, FrontierIsRecorded
<1>4. Becomes(w, IdleWorker)
  BY <1>2, WorkerBecomes
<1>5. /\ Len(events') = Len(events) + 1 /\ AgentsCalm
      /\ LET e == events'[Len(events) + 1]
         IN  /\ e.branch = b /\ e.run = r /\ e.author = a
             /\ e.before = IF NoEvent = NoEvent THEN Latest(b) ELSE NoEvent
  <2> HIDE DEF a, b, r
  <2> QED
    BY <1>0, <1>1, <1>2, Sizes, SmallIds, EventAppended, AsksAre
<1>6. \E v \in Workers :
        /\ worker[v].pc = "replying" /\ worker[v].branch = b /\ Becomes(v, IdleWorker)
        /\ events'[Len(events) + 1].author = v[1]
        /\ events'[Len(events) + 1].run = worker[v].run
        /\ \/ UNCHANGED frontiers
           \/ /\ stored[b][v[1]] # {}
              /\ Recorded([event |-> Len(events) + 1, agent |-> v[1], branch |-> b,
                           thread |-> b, checkpoint |-> LatestCheckpoint(b, v[1]),
                           run |-> worker[v].run, usable |-> TRUE])
  BY <1>0, <1>3, <1>4, <1>5
<1> HIDE DEF a, b, r, f
<1> QED
  BY <1>0, <1>2, <1>5, <1>6, SmallIds DEF SpeakStep

\* What BranchCreated says, in the form of the step.
LEMMA CreationIs ==
  ASSUME TypeInv, NEW parent \in Branches, NEW event \in Events, NEW checkpoint \in Checkpoints,
         NEW seq \in Events \union {NoLimit}, CreateBranch(parent, event, checkpoint, seq),
         stored' = SpaceFor(stored)
  PROVE  LET new == Len(branches) + 1
         IN  /\ Len(branches') = new
             /\ branches'[new].parent = parent /\ branches'[new].originEvent = event
             /\ branches'[new].originCheckpoint = checkpoint /\ branches'[new].originSeq = seq
             /\ \A b \in Branches : /\ agent'[b] = agent[b] /\ thread'[b] = thread[b]
                                    /\ stored'[b] = stored[b]
             /\ \A a \in Agents :
                  /\ agent'[new][a] = [NewDeliveryState EXCEPT
                       !.lastDelivered = ForkCursor(agent[parent][a], seq)]
                  /\ thread'[new][a] = NoThread /\ stored'[new][a] = {}
BY BranchCreated

LEMMA CheckpointCreates ==
  ASSUME TypeInv,
         \/ \E a \in Agents : CreateBranchFromCheckpoint(a)
         \/ ResumeCreatesBranch
  PROVE  CreateStep
<1>1. PICK parent \in Branches, cp \in Checkpoints :
        /\ CreateBranch(parent, NoEvent, cp, OriginSeq(cp)) /\ stored' = SpaceFor(stored)
        /\ UNCHANGED <<events, saved, frontiers, runs, worker>> /\ CallKept
  <2>1. ASSUME NEW a \in Agents, CreateBranchFromCheckpoint(a)
        PROVE  \E cp \in Checkpoints : CreateBranch(current, NoEvent, cp, OriginSeq(cp))
    <3>1. PICK cp \in UsableCheckpoints(current, a) : CreateBranch(current, NoEvent, cp, OriginSeq(cp))
      BY <2>1 DEF CreateBranchFromCheckpoint
    <3>2. cp \in stored[current][a]
      BY DEF UsableCheckpoints, Listed
    <3>3. cp \in Checkpoints
      BY <3>2, Sizes, ThreadsAre DEF Checkpoints
    <3> QED
      BY <3>1, <3>3
  <2>2. ASSUME ResumeCreatesBranch
        PROVE  /\ CreateBranch(call.branch, NoEvent, call.checkpoint, OriginSeq(call.checkpoint))
               /\ CallKept
    BY <2>2, CallIs DEF ResumeCreatesBranch, CallKept, CallSet
  <2>3. call.branch \in Branches /\ call.checkpoint \in Checkpoints
    BY CallIs
  <2> QED
    BY <2>1, <2>2, <2>3, Sizes DEF CreateBranchFromCheckpoint, ResumeCreatesBranch, CallKept
<1> DEFINE seq == OriginSeq(cp)
           new == Len(branches) + 1
<1>2. seq \in Events \union {NoLimit} /\ CreateBranch(parent, NoEvent, cp, seq)
  BY <1>1, OriginSeqType
<1> HIDE DEF seq
<1>3. /\ Len(branches') = new
      /\ branches'[new].parent = parent /\ branches'[new].originEvent = NoEvent
      /\ branches'[new].originCheckpoint = cp /\ branches'[new].originSeq = seq
      /\ \A b \in Branches : /\ agent'[b] = agent[b] /\ thread'[b] = thread[b]
                             /\ stored'[b] = stored[b]
      /\ \A a \in Agents :
           /\ agent'[new][a] = [NewDeliveryState EXCEPT
                !.lastDelivered = ForkCursor(agent[parent][a], seq)]
           /\ thread'[new][a] = NoThread /\ stored'[new][a] = {}
  BY <1>1, <1>2, SmallIds, CreationIs
<1>4. branches'[new].originSeq = OriginSeq(branches'[new].originCheckpoint)
  BY <1>3 DEF seq
<1> QED
  BY <1>1, <1>3, <1>4 DEF CreateStep

LEMMA EditCreates ==
  ASSUME TypeInv, NEW i \in 1 .. Len(events), EditCreatesBranch(i)
  PROVE  CreateStep
<1> DEFINE event == events[i].before
           seq   == Greatest({j \in Visible(current) : j < i})
           new   == Len(branches) + 1
<1>1. event \in Events /\ i \in Visible(current)
  BY EventsAre DEF EditCreatesBranch
<1>2. seq \in Events
  <2>1. {j \in Visible(current) : j < i} \in SUBSET (0 .. Len(events))
    BY Sizes, LatestIs
  <2> QED
    BY <2>1, Sizes, GreatestIs DEF Events
<1>3. /\ CreateBranch(current, event, NoCheckpoint, seq) /\ stored' = SpaceFor(stored)
      /\ call' = [call EXCEPT !.pc = "edited", !.event = i, !.branch = new]
      /\ UNCHANGED <<events, current, saved, frontiers, runs, worker>>
  BY DEF EditCreatesBranch
<1>4. call'.event = i /\ call'.branch = new
  BY <1>3, CallIs DEF CallSet
<1> HIDE DEF event, seq
<1>5. /\ Len(branches') = new
      /\ branches'[new].parent = current /\ branches'[new].originEvent = event
      /\ branches'[new].originCheckpoint = NoCheckpoint /\ branches'[new].originSeq = seq
      /\ \A b \in Branches : /\ agent'[b] = agent[b] /\ thread'[b] = thread[b]
                             /\ stored'[b] = stored[b]
      /\ \A a \in Agents :
           /\ agent'[new][a] = [NewDeliveryState EXCEPT
                !.lastDelivered = ForkCursor(agent[current][a], seq)]
           /\ thread'[new][a] = NoThread /\ stored'[new][a] = {}
  BY <1>1, <1>2, <1>3, SmallIds, Sizes, CreationIs
<1>6. branches'[new].originEvent = events[i].before
  BY <1>5 DEF event
<1>7. branches'[new].originSeq = Greatest({j \in Visible(current) : j < i})
  BY <1>5 DEF seq
<1> QED
  BY <1>1, <1>3, <1>4, <1>5, <1>6, <1>7, Sizes DEF CreateStep

LEMMA WritesAdd ==
  ASSUME TypeInv, NEW b \in Branches, NEW a \in Agents, NEW from \in Checkpoints,
         NEW given \in SUBSET Events, Writes(b, a, from, given)
  PROVE  Adds(b, a, from, given)
BY CheckpointWritten DEF Adds

LEMMA ReplayWrites ==
  ASSUME TypeInv, NEW a \in Agents, ResumeInvokes(a)
  PROVE  WriteStep
<1>1. PICK cp \in UsableCheckpoints(current, a) : Writes(current, a, cp, {})
  BY DEF ResumeInvokes
<1>2. cp \in stored[current][a] /\ cp \in Checkpoints
  <2>1. cp \in stored[current][a]
    BY <1>1 DEF UsableCheckpoints, Listed
  <2> QED
    BY <2>1, Sizes, ThreadsAre DEF Checkpoints
<1>3. /\ UNCHANGED <<events, branches, current, agent, thread, frontiers, runs, worker>>
      /\ CallKept
  BY DEF ResumeInvokes, CallKept
<1>4. Adds(current, a, cp, {})
  BY <1>1, <1>2, Sizes, WritesAdd
<1> QED
  BY <1>2, <1>3, <1>4, Sizes DEF WriteStep

LEMMA WorkerWrites ==
  ASSUME TypeInv, NEW w \in Workers, WorkerInvokes(w)
  PROVE  WriteStep
<1> DEFINE a == w[1]
           b == worker[w].branch
           from == IF w[2] = "router" THEN LatestCheckpoint(b, a) ELSE worker[w].from
           given == Projected(w)
           next == [worker[w] EXCEPT !.pc = "completing"]
<1>1. /\ a \in Agents /\ b \in Branches /\ worker[w].thread = b
      /\ worker[w].from \in Checkpoints /\ worker[w].pc = "invoking"
  BY WorkersAre DEF WorkerInvokes
<1>2. from \in Checkpoints
  BY <1>1, LatestIs
<1>3. given \in SUBSET Events
  BY <1>1, LatestIs, Sizes DEF Projected, Events
<1>4. /\ Writes(b, a, from, given)
      /\ worker' = [worker EXCEPT ![w] = next]
      /\ UNCHANGED <<events, branches, current, agent, thread, frontiers, runs, call>>
  BY <1>1, WorkersAre DEF WorkerInvokes
<1>5. Becomes(w, next)
  BY <1>4, WorkerBecomes
<1>6. Adds(b, a, from, given)
  <2> HIDE DEF a, b, from, given
  <2> QED
    BY <1>1, <1>2, <1>3, <1>4, WritesAdd
<1> HIDE DEF from, next
<1> QED
  BY <1>1, <1>4, <1>5, <1>6 DEF WriteStep, from, next

LEMMA RunStarts ==
  ASSUME TypeInv, NEW w \in Workers, NEW b \in Branches, NEW low \in Events, NEW snapshot \in Events,
         SaveRun(Len(runs) + 1, NewRun(w[1], w[2], b, low, snapshot)),
         SaveAgentState(b, w[1], MarkRunStarted(agent[b][w[1]], Len(runs) + 1, snapshot)),
         NEW x, Becomes(w, x), x.pc = "invoking", x.run = Len(runs) + 1, x.branch = b,
         x.low = low, x.snapshot = snapshot
  PROVE  Starts(w, x)
<1> DEFINE a == w[1]
           lane == w[2]
           s == MarkRunStarted(agent[b][a], Len(runs) + 1, snapshot)
<1>1. a \in Agents /\ lane \in Lanes
  BY WorkersAre
<1>2. AgentBecomes(b, a, s)
  BY <1>1, AgentIsSaved
<1>3. s.lastDelivered = agent[b][a].lastDelivered /\ s.currentRun = Len(runs) + 1
  <2>1. agent[b][a] \in DeliverySet(Events, RunIds)
    BY <1>1, ThreadsAre
  <2> QED
    BY <2>1 DEF MarkRunStarted, DeliverySet, DeliveryStates
<1>4. SaveRun(Len(runs) + 1, NewRun(a, lane, b, low, snapshot))
  OBVIOUS
<1> HIDE DEF a, lane, s
<1>5. /\ Len(runs') = Len(runs) + 1
      /\ runs'[Len(runs) + 1] = NewRun(a, lane, b, low, snapshot)
      /\ \A r \in 1 .. Len(runs) : runs'[r] = runs[r]
  BY <1>1, <1>4, RunAdded
<1> QED
  BY <1>2, <1>3, <1>5 DEF Starts, a, lane

LEMMA InjectionStarts ==
  ASSUME TypeInv, NEW a \in Agents, InjectStarts(a)
  PROVE  InjectStep
<1> DEFINE w == <<a, "inject">>
           b == current
           k == Greatest(UsableFrontiers(b, a))
           f == frontiers[k]
           seen == Latest(b)
           next == [pc |-> "invoking", branch |-> b, run |-> Len(runs) + 1, low |-> seen,
                    snapshot |-> seen, from |-> Len(saved) + 1, thread |-> f.thread]
<1>0. /\ w \in Workers /\ b \in Branches /\ seen \in Events /\ w[1] = a /\ w[2] = "inject"
  BY Sizes, LatestIs DEF Workers, Lanes
<1>1. k \in UsableFrontiers(b, a) /\ k \in 1 .. Len(frontiers)
  <2>1. UsableFrontiers(b, a) \in SUBSET (0 .. Len(frontiers)) /\ 0 \notin UsableFrontiers(b, a)
    BY Sizes DEF UsableFrontiers, FrontiersOf
  <2>2. /\ k \in UsableFrontiers(b, a) \union {0} /\ \A y \in UsableFrontiers(b, a) : y <= k
    BY <2>1, Sizes, GreatestIs
  <2>3. UsableFrontiers(b, a) # {}
    BY DEF InjectStarts
  <2> HIDE DEF k
  <2>4. k # 0
    <3>1. \A y \in UsableFrontiers(b, a) : y \in 0 .. Len(frontiers) /\ y # 0
      BY <2>1
    <3> QED
      BY <2>2, <2>3, <3>1, Sizes
  <2> QED
    BY <2>1, <2>2, <2>4, Sizes
<1>2. f.thread = b /\ f.branch = b /\ f.checkpoint \in Checkpoints
  BY <1>1, FrontiersAre, Sizes DEF UsableFrontiers, FrontiersOf, Checkpoints
<1>3. /\ Writes(b, a, f.checkpoint, {})
      /\ SaveRun(Len(runs) + 1, NewRun(w[1], w[2], b, seen, seen))
      /\ SaveAgentState(b, w[1], MarkRunStarted(agent[b][w[1]], Len(runs) + 1, seen))
      /\ worker' = [worker EXCEPT ![w] = next]
      /\ UNCHANGED <<events, branches, current, thread, frontiers, call>>
  BY <1>0, <1>2 DEF InjectStarts
<1>4. Becomes(w, next)
  BY <1>0, <1>3, WorkerBecomes
<1>5. Starts(w, next)
  <2>1. /\ next.pc = "invoking" /\ next.run = Len(runs) + 1 /\ next.branch = b /\ next.low = seen
        /\ next.snapshot = seen
    OBVIOUS
  <2> HIDE DEF w, b, seen, next
  <2> QED
    BY <1>0, <1>3, <1>4, <2>1, RunStarts
<1>6. Adds(b, a, f.checkpoint, {})
  <2> DEFINE cp == f.checkpoint
  <2>1. cp \in Checkpoints /\ Writes(b, a, cp, {}) /\ {} \in SUBSET Events
    BY <1>2, <1>3
  <2> HIDE DEF b, f, cp
  <2>2. Adds(b, a, cp, {})
    BY <1>0, <2>1, WritesAdd
  <2> QED
    BY <2>2 DEF cp
<1>7. /\ next.branch = current /\ next.low = Latest(current) /\ next.snapshot = Latest(current)
      /\ next.from = Len(saved) + 1 /\ worker[<<a, "inject">>].pc = "idle"
  BY DEF InjectStarts
<1> HIDE DEF next, k
<1> QED
  BY <1>1, <1>3, <1>5, <1>6, <1>7 DEF InjectStep

LEMMA RouterReads ==
  ASSUME TypeInv, NEW a \in Agents, WorkerChosen(a) \/ WorkerReads(a)
  PROVE  ReadStep
<1> DEFINE w == <<a, "router">>
           s == agent[current][a]
           chosen == [worker[w] EXCEPT !.pc = "reading"]
           read == [worker[w] EXCEPT !.pc = "starting", !.branch = current, !.thread = current,
                      !.low = s.lastDelivered, !.snapshot = Latest(current)]
           done == CompleteRun(s, IF s.currentRun = NoRun THEN BlankRun ELSE s.currentRun,
                               s.lastDelivered, FALSE)
<1>0. /\ w \in Workers /\ worker[w] \in WorkerSet(Branches, Events, Checkpoints, RunIds)
      /\ current \in Branches /\ Latest(current) \in Events
      /\ s \in DeliverySet(Events, RunIds) /\ s.lastDelivered \in Events
  <2>1. w \in Workers
    BY DEF Workers, Lanes
  <2>2. s \in DeliverySet(Events, RunIds)
    BY Sizes, ThreadsAre
  <2> QED
    BY <2>1, <2>2, WorkersAre, Sizes, LatestIs DEF DeliverySet, DeliveryStates
<1>1. UNCHANGED <<events, branches, current, thread, saved, stored, frontiers, runs, call>>
  BY DEF WorkerChosen, WorkerReads
<1>2. /\ worker[w].pc \in {"idle", "reading"}
      /\ \/ worker' = [worker EXCEPT ![w] = chosen]
         \/ worker' = [worker EXCEPT ![w] = read] /\ s.lastDelivered < Latest(current)
         \/ worker' = [worker EXCEPT ![w] = IdleWorker]
      /\ UNCHANGED agent \/ SaveAgentState(current, a, done)
  <2>1. Events \in SUBSET Nat
    BY SmallIds
  <2> QED
    BY <1>0, <2>1, WorkersAre DEF WorkerChosen, WorkerReads
<1>3. AgentsCalm
  <2>1. CASE UNCHANGED agent
    BY <2>1, AgentsStayCalm
  <2>2. CASE SaveAgentState(current, a, done)
    <3>1. Calm(done, s)
      BY <1>0 DEF Calm, CompleteRun, OwnsRun, DeliverySet, DeliveryStates
    <3>2. \A d \in Branches, y \in Agents : Calm(agent[d][y], agent[d][y])
      BY DEF Calm
    <3> HIDE DEF done
    <3>3. AgentBecomes(current, a, done)
      BY <1>0, <2>2, AgentIsSaved
    <3> QED
      BY <3>1, <3>2, <3>3 DEF AgentsCalm, AgentBecomes
  <2> QED
    BY <1>2, <2>1, <2>2
<1>4. /\ chosen.pc = "reading" /\ IdleWorker.pc = "idle"
      /\ read.pc = "starting" /\ read.branch = current /\ read.snapshot = Latest(current)
      /\ read.low = s.lastDelivered
  BY <1>0 DEF WorkerSet, IdleWorker
<1> HIDE DEF chosen, read
<1>5. \E x : /\ Becomes(w, x)
             /\ \/ x.pc \in {"idle", "reading"}
                \/ /\ x.pc = "starting" /\ x.branch = current /\ x.snapshot = Latest(current)
                   /\ x.low = s.lastDelivered /\ x.low < x.snapshot
  <2>1. CASE worker' = [worker EXCEPT ![w] = chosen]
    BY <1>0, <1>4, <2>1, WorkerBecomes
  <2>2. CASE worker' = [worker EXCEPT ![w] = read] /\ s.lastDelivered < Latest(current)
    <3>1. Becomes(w, read)
      BY <1>0, <2>2, WorkerBecomes
    <3> QED
      BY <1>4, <2>2, <3>1
  <2>3. CASE worker' = [worker EXCEPT ![w] = IdleWorker]
    BY <1>0, <1>4, <2>3, WorkerBecomes
  <2> QED
    BY <1>2, <2>1, <2>2, <2>3
<1> QED
  BY <1>1, <1>2, <1>3, <1>5 DEF ReadStep

LEMMA RouterStarts ==
  ASSUME TypeInv, NEW a \in Agents, WorkerStartsRun(a)
  PROVE  ReadStep \/ StartStep
<1> DEFINE w == <<a, "router">>
           b == worker[w].branch
           r == Len(runs) + 1
           low == worker[w].low
           seen == worker[w].snapshot
           next == [worker[w] EXCEPT !.pc = "invoking", !.run = r]
<1>0. /\ w \in Workers /\ w[1] = a /\ w[2] = "router"
      /\ worker[w] \in WorkerSet(Branches, Events, Checkpoints, RunIds)
      /\ b \in Branches /\ seen \in Events /\ low \in Events /\ worker[w].pc = "starting"
  <2>1. w \in Workers
    BY DEF Workers, Lanes
  <2> QED
    BY <2>1, WorkersAre DEF WorkerStartsRun
<1>1. UNCHANGED <<events, branches, current, saved, frontiers, call>>
  BY DEF WorkerStartsRun
<1>2. CASE worker' = [worker EXCEPT ![w] = IdleWorker] /\ UNCHANGED <<agent, thread, stored, runs>>
  <2>1. Becomes(w, IdleWorker) /\ IdleWorker.pc = "idle"
    BY <1>0, <1>2, WorkerBecomes DEF IdleWorker
  <2>2. AgentsCalm
    BY <1>2, AgentsStayCalm
  <2> QED
    BY <1>0, <1>1, <1>2, <2>1, <2>2 DEF ReadStep
<1>3. CASE /\ ~ForkRefused(b, a)
           /\ EnsureThread(b, a, r) /\ SaveRun(r, NewRun(a, "router", b, low, seen))
           /\ SaveAgentState(b, a, MarkRunStarted(agent[b][a], r, seen))
           /\ worker' = [worker EXCEPT ![w].pc = "invoking", ![w].run = r]
  <2>1. worker' = [worker EXCEPT ![w] = next]
    BY <1>0, <1>3, WorkersAre
  <2>2. /\ next.pc = "invoking" /\ next.run = r /\ next.branch = b /\ next.low = low
        /\ next.snapshot = seen
    BY <1>0 DEF WorkerSet
  <2>3. Starts(w, next)
    <3>1. /\ SaveRun(Len(runs) + 1, NewRun(w[1], w[2], b, low, seen))
          /\ SaveAgentState(b, w[1], MarkRunStarted(agent[b][w[1]], Len(runs) + 1, seen))
      BY <1>0, <1>3
    <3>2. Becomes(w, next)
      BY <1>0, <2>1, WorkerBecomes
    <3> HIDE DEF w, b, low, seen, next
    <3> QED
      BY <1>0, <2>2, <3>1, <3>2, RunStarts
  <2>4. /\ thread'[b][a].status = "active"
        /\ stored'[b][a] = IF thread[b][a].status = "active" THEN stored[b][a]
                           ELSE ForkedCheckpoints(b, a)
        /\ \A d \in Branches, y \in Agents : <<d, y>> # <<b, a>> =>
             stored'[d][y] = stored[d][y] /\ thread'[d][y] = thread[d][y]
    <3>1. EnsureThread(b, a, r) /\ RunIds \subseteq RunIds \union {r}
      BY <1>3
    <3> HIDE DEF b, r
    <3>2. r \in RunIds \union {r}
      OBVIOUS
    <3> DEFINE ids == RunIds \union {r}
    <3>3. RunIds \subseteq ids /\ r \in ids
      BY <3>1
    <3> HIDE DEF ids
    <3> QED
      BY <1>0, <3>1, <3>3, ThreadEnsured
  <2> HIDE DEF next
  <2> QED
    BY <1>0, <1>1, <1>3, <2>2, <2>3, <2>4 DEF StartStep
<1> QED
  BY <1>2, <1>3 DEF WorkerStartsRun

LEMMA SettlingIs ==
  ASSUME TypeInv, NEW w \in Workers, AtWork(w), NEW status \in Statuses \ {"running"},
         Settles(w, status),
         w[2] = "inject" => status \in {"success", "empty", "failed"},
         /\ status \in {"success", "empty", "skipped", "stopped"} /\ w[2] = "router"
         => agent[worker[w].branch][w[1]].currentRun = worker[w].run \/ status = "skipped"
  PROVE  SettleStep
<1> DEFINE a    == w[1]
           b    == worker[w].branch
           r    == worker[w].run
           run  == SettledRun(r, status)
           seen == worker[w].snapshot
           old  == agent[b][a]
           delivered == status \notin {"failed", "stopped"}
           done == CompleteRun(old, r, seen, delivered)
           s    == IF runs[r].commit = "orphaned" THEN done
                   ELSE ClearRunAgentState(done, r, seen, status)
           next == [worker[w] EXCEPT !.pc = "replying"]
<1>0. /\ a \in Agents /\ b \in Branches /\ r \in 1 .. Len(runs) /\ seen \in Events
      /\ worker[w] \in WorkerSet(Branches, Events, Checkpoints, RunIds)
      /\ r # NoRun /\ old \in DeliverySet(Events, RunIds)
  BY WorkersAre, ThreadsAre, Sizes DEF AtWork, NoRun
<1>1. /\ SaveAgentState(b, a, s)
      /\ SaveRun(r, run)
      /\ frontiers' = TerminalFrontier(r, status)
      /\ \/ status = "success" /\ worker' = [worker EXCEPT ![w] = next]
         \/ worker' = [worker EXCEPT ![w] = IdleWorker]
      /\ UNCHANGED <<events, branches, current, thread, saved, stored, call>>
  BY WorkersAre DEF Settles
<1>2. \/ status = "success" /\ Becomes(w, next)
      \/ Becomes(w, IdleWorker)
  <2> HIDE DEF next
  <2> QED
    BY <1>1, WorkerBecomes
<1>3. /\ Len(runs') = Len(runs) /\ runs'[r] = run
      /\ \A q \in 1 .. Len(runs) : q # r => runs'[q] = runs[q]
  <2>1. run \in RunSet(Branches, Events, Checkpoints)
    BY <1>0, SettledIs
  <2> HIDE DEF run, r
  <2> QED
    BY <1>0, <1>1, <2>1, RunSaved, Sizes
<1>4. AgentBecomes(b, a, s)
  <2> HIDE DEF s, a, b
  <2> QED
    BY <1>0, <1>1, AgentIsSaved
<1>5. IF old.currentRun = r
        THEN /\ ~s.running /\ s.currentRun = NoRun
             /\ s.lastDelivered \in {old.lastDelivered, Later(seen, old.lastDelivered)}
        ELSE s = old
  <2>1. CASE old.currentRun = r
    <3>1. /\ ~done.running /\ done.currentRun = NoRun
          /\ done.lastDelivered \in {old.lastDelivered, Later(seen, old.lastDelivered)}
      <4> HIDE DEF old, r, seen, delivered
      <4> QED
        BY <1>0, <2>1 DEF CompleteRun, OwnsRun, DeliverySet, DeliveryStates
    <3>2. s = done
      <4> HIDE DEF done
      <4> QED
        BY <1>0, <3>1 DEF ClearRunAgentState, OwnsRun
    <3> HIDE DEF s, done
    <3> QED
      BY <2>1, <3>1, <3>2
  <2>2. CASE old.currentRun # r
    BY <2>2 DEF CompleteRun, ClearRunAgentState, OwnsRun
  <2> QED
    BY <2>1, <2>2
<1>6. \/ UNCHANGED frontiers
      \/ /\ runs[r].commit # "orphaned" /\ status # "success" /\ LastRead(r) # NoEvent
         /\ LatestCheckpoint(runs[r].branch, runs[r].agent) # NoCheckpoint
         /\ Recorded(TerminalRecord(r, status))
  <2> DEFINE f == TerminalRecord(r, status)
  <2>1. \/ frontiers' = frontiers
        \/ /\ runs[r].commit # "orphaned" /\ status # "success" /\ LastRead(r) # NoEvent
           /\ LatestCheckpoint(runs[r].branch, runs[r].agent) # NoCheckpoint
           /\ frontiers' = RecordFrontier(f)
    BY <1>0, <1>1, SettledIs
  <2> HIDE DEF f
  <2>2. frontiers' = RecordFrontier(f) => Recorded(f)
    BY FrontierIsRecorded
  <2> QED
    BY <2>1, <2>2 DEF f
<1> HIDE DEF s, run, next
<1>7. \E y : /\ Becomes(w, y)
             /\ \/ y = IdleWorker
                \/ status = "success" /\ y = [worker[w] EXCEPT !.pc = "replying"]
  BY <1>2 DEF next
<1> QED
  BY <1>0, <1>1, <1>3, <1>4, <1>5, <1>6, <1>7 DEF SettleStep, run

LEMMA RunEnds ==
  ASSUME TypeInv,
         \/ \E w \in Workers : WorkerCompletes(w) \/ WorkerRaises(w)
         \/ \E a \in Agents : WorkerSkips(a)
  PROVE  SettleStep
<1>1. ASSUME NEW w \in Workers, WorkerCompletes(w)
      PROVE  SettleStep
  <2>1. PICK status \in Outcomes(w) : Settles(w, status)
    BY <1>1 DEF WorkerCompletes
  <2>2. /\ AtWork(w) /\ status \in Statuses \ {"running"}
        /\ w[2] = "inject" => status \in {"success", "empty", "failed"}
    <3>1. w[2] = "inject" => Outcomes(w) = {"success", "empty", "failed"}
      BY DEF Outcomes
    <3>2. Outcomes(w) \subseteq {"success", "empty", "failed", "stopped", "ignored"}
      BY DEF Outcomes
    <3> QED
      BY <1>1, <3>1, <3>2 DEF WorkerCompletes, AtWork, Statuses
  <2>3. /\ status \in {"success", "empty", "skipped", "stopped"} /\ w[2] = "router"
        => agent[worker[w].branch][w[1]].currentRun = worker[w].run \/ status = "skipped"
    BY DEF Outcomes, OwnsRun
  <2> QED
    BY <2>1, <2>2, <2>3, SettlingIs
<1>2. ASSUME NEW w \in Workers, WorkerRaises(w)
      PROVE  SettleStep
  <2>1. AtWork(w) /\ Settles(w, "failed") /\ "failed" \in Statuses \ {"running"}
    BY <1>2 DEF WorkerRaises, AtWork, Statuses
  <2> QED
    BY <2>1, SettlingIs
<1>3. ASSUME NEW a \in Agents, WorkerSkips(a)
      PROVE  SettleStep
  <2> DEFINE w == <<a, "router">>
  <2>1. /\ w \in Workers /\ w[2] = "router" /\ AtWork(w) /\ Settles(w, "skipped")
        /\ "skipped" \in Statuses \ {"running"}
    BY <1>3 DEF WorkerSkips, AtWork, Statuses, Workers, Lanes
  <2> HIDE DEF w
  <2> QED
    BY <2>1, SettlingIs
<1> QED
  BY <1>1, <1>2, <1>3

\* What reconciling makes of runs, agents and the rows of threads.
LEMMA ReconciledAre ==
  ASSUME TypeInv, NEW threads \in [Branches -> [Agents -> ThreadSet(RunIds)]], Reconcile(threads)
  PROVE  /\ Len(runs') = Len(runs)
         /\ \A r \in 1 .. Len(runs) :
              IF runs[r].commit = "pending"
                THEN /\ runs'[r].commit = "orphaned" /\ runs'[r].status = "failed"
                     /\ runs'[r].stable = runs[r].stable
                ELSE runs'[r] = runs[r]
         /\ AgentsCalm
         /\ \A b \in Branches, a \in Agents :
              /\ agent[b][a].currentRun \in 1 .. Len(runs)
              /\ runs[agent[b][a].currentRun].commit = "pending"
              => agent'[b][a].currentRun = NoRun /\ ~agent'[b][a].running
         /\ \A b \in Branches, a \in Agents :
              thread'[b][a].status = "none" => threads[b][a].status = "none"
<1>1. /\ Len(runs') = Len(runs)
      /\ \A r \in 1 .. Len(runs) :
           IF runs[r].commit = "pending"
             THEN /\ runs'[r].commit = "orphaned" /\ runs'[r].status = "failed"
                  /\ runs'[r].stable = runs[r].stable
             ELSE runs'[r] = runs[r]
      /\ \A b \in Branches, a \in Agents :
           agent'[b][a] = IF /\ agent[b][a].currentRun \in 1 .. Len(runs)
                             /\ runs[agent[b][a].currentRun].commit = "pending"
                            THEN ReleaseRun(agent[b][a], agent[b][a].currentRun)
                            ELSE agent[b][a]
      /\ \A b \in Branches, a \in Agents :
           \/ thread'[b][a] = threads[b][a]
           \/ threads[b][a].status = "active" /\ thread'[b][a].status = "orphaned"
  BY RunsReconciled
<1>2. ASSUME NEW b \in Branches, NEW a \in Agents
      PROVE  LET s == agent[b][a]
                 t == ReleaseRun(s, s.currentRun)
             IN  Calm(s, s) /\ Calm(t, s) /\ t.currentRun = NoRun /\ ~t.running
  <2>1. agent[b][a] \in DeliverySet(Events, RunIds)
    BY ThreadsAre
  <2> QED
    BY <2>1 DEF Calm, ReleaseRun, OwnsRun, DeliverySet, DeliveryStates
<1>3. AgentsCalm
  BY <1>1, <1>2 DEF AgentsCalm
<1> QED
  BY <1>1, <1>2, <1>3

LEMMA ToolReconciles ==
  ASSUME TypeInv, NEW w \in Workers, WorkerCallsRelationTool(w)
  PROVE  ReconcileStep
<1>1. /\ Reconcile(thread)
      /\ UNCHANGED <<events, branches, current, saved, stored, frontiers, worker>> /\ CallKept
  BY DEF WorkerCallsRelationTool, CallKept
<1>2. thread \in [Branches -> [Agents -> ThreadSet(RunIds)]]
  BY ThreadsAre
<1> QED
  BY <1>1, <1>2, ReconciledAre DEF ReconcileStep

LEMMA RestartReconciles ==
  ASSUME TypeInv, Restart
  PROVE  ReconcileStep
<1>1. /\ UNCHANGED <<events, branches, current, saved, frontiers>> /\ CallKept
      /\ \A w \in Workers : worker'[w] = IdleWorker
  BY DEF Restart, CallKept, IdleCall
<1>2. PICK threads \in [Branches -> [Agents -> ThreadSet(RunIds)]] :
        /\ Reconcile(threads)
        /\ \A b \in Branches, a \in Agents :
             \/ threads[b][a] = thread[b][a] /\ stored'[b][a] = stored[b][a]
             \/ /\ worker[<<a, "router">>].pc = "starting"
                /\ worker[<<a, "router">>].branch = b
                /\ ~ForkRefused(b, a) /\ thread[b][a].status # "active"
                /\ threads[b][a].status = "active"
                /\ stored'[b][a] = ForkedCheckpoints(b, a)
  BY RestartIs
<1>3. \A b \in Branches, a \in Agents :
        thread'[b][a].status = "none" => threads[b][a].status = "none"
  BY <1>2, ReconciledAre
<1>4. \A b \in Branches, a \in Agents :
        thread'[b][a].status = "none" => thread[b][a].status = "none" /\ stored'[b][a] = stored[b][a]
  <2> SUFFICES ASSUME NEW b \in Branches, NEW a \in Agents, thread'[b][a].status = "none"
               PROVE  thread[b][a].status = "none" /\ stored'[b][a] = stored[b][a]
    OBVIOUS
  <2>1. threads[b][a].status = "none"
    BY <1>3
  <2>2. threads[b][a] = thread[b][a] /\ stored'[b][a] = stored[b][a]
    BY <1>2, <2>1
  <2> QED
    BY <2>1, <2>2
<1> QED
  BY <1>1, <1>2, <1>4, ReconciledAre DEF ReconcileStep

LEMMA StepIs ==
  ASSUME TypeInv, [Next]_vars
  PROVE  StepKinds
<1>1. ASSUME NEW a \in Agents,
             \/ CreateBranchFromCheckpoint(a) \/ ResumeInvokes(a) \/ InjectStarts(a)
             \/ WorkerChosen(a) \/ WorkerReads(a) \/ WorkerStartsRun(a) \/ WorkerSkips(a)
      PROVE  StepKinds
  BY <1>1, CheckpointCreates, ReplayWrites, InjectionStarts, RouterReads, RouterStarts, RunEnds
  DEF StepKinds
<1>2. ASSUME NEW w \in Workers,
             \/ WorkerInvokes(w) \/ WorkerCallsRelationTool(w) \/ WorkerCompletes(w)
             \/ WorkerRaises(w) \/ WorkerReplies(w)
      PROVE  StepKinds
  BY <1>2, WorkerWrites, ToolReconciles, WorkerSpeaks, RunEnds DEF StepKinds
<1>3. ASSUME \/ \E i \in 1 .. Len(events) : EditCreatesBranch(i)
             \/ ResumeCreatesBranch \/ Restart \/ AppendHumanMessage \/ EditAppends \/ ResumeAppends
      PROVE  StepKinds
  BY <1>3, CheckpointCreates, EditCreates, RestartReconciles, HumanSpeaks, EditSpeaks, ReplaySpeaks
  DEF StepKinds
<1>4. ASSUME \/ \E b \in Branches : SwitchBranch(b) \/ ArchiveBranch(b)
             \/ CallSwitchesBranch \/ ResumeFails \/ UNCHANGED vars
      PROVE  StepKinds
  BY <1>4, ControlIs DEF StepKinds
<1> QED
  BY <1>1, <1>2, <1>3, <1>4 DEF Next

----------------------------------------------------------------------------
(* Whose a run is, and where its reply goes.                                *)

Matches(x, w, run) ==
  /\ run.agent = w[1] /\ run.lane = w[2] /\ run.branch = x.branch /\ run.low = x.low
  /\ run.snapshot = x.snapshot

\* A run is that of its thread, and no event is its reply as yet.
WorkersMatch ==
  \A w \in Workers : AtRun(w) =>
    /\ Matches(worker[w], w, runs[worker[w].run])
    /\ \A i \in 1 .. Len(events) : events[i].run # worker[w].run

DistinctRuns ==
  \A v, w \in Workers : AtRun(v) /\ AtRun(w) /\ worker[v].run = worker[w].run => v = w

RepliesInv == WorkersMatch /\ DistinctRuns /\ ReplyInRunBranch

SameWork(x, y) == x.run = y.run /\ x.branch = y.branch /\ x.low = y.low /\ x.snapshot = y.snapshot

\* No run is started and no reply appended.
LeavesReplies ==
  /\ \A w \in Workers : AtRun(w)' => AtRun(w) /\ SameWork(worker'[w], worker[w])
  /\ \A i \in 1 .. Len(events') : i > Len(events) => events'[i].run = NoRun

BeginsRun ==
  \E w \in Workers :
    /\ worker'[w].pc = "invoking" /\ worker'[w].run = Len(runs) + 1
    /\ Len(runs') = Len(runs) + 1 /\ Matches(worker'[w], w, runs'[Len(runs) + 1])
    /\ \A v \in Workers : v # w => worker'[v] = worker[v]
    /\ UNCHANGED events

AppendsReply ==
  \E w \in Workers :
    /\ worker[w].pc = "replying" /\ ~AtRun(w)'
    /\ \A v \in Workers : v # w => worker'[v] = worker[v]
    /\ Len(events') = Len(events) + 1
    /\ LET e == events'[Len(events) + 1]
       IN  e.author = w[1] /\ e.branch = worker[w].branch /\ e.run = worker[w].run
    /\ UNCHANGED runs

LEMMA QuietReplies ==
  ASSUME TypeInv, StoresKept, RepliesInv, LeavesReplies, Len(events') \in Nat
  PROVE  RepliesInv'
<1> USE Sizes
<1>1. \A i \in 1 .. Len(events') :
        events'[i].run # NoRun => i \in 1 .. Len(events) /\ events'[i] = events[i]
  BY DEF LeavesReplies, StoresKept, EventsKept
<1>2. \A w \in Workers : AtRun(w) => worker[w].run \in 1 .. Len(runs)
  BY WorkersAre DEF AtRun
<1>3. WorkersMatch'
  <2>1. ASSUME NEW w \in Workers, AtRun(w)'
        PROVE  /\ Matches(worker'[w], w, runs'[worker'[w].run])
               /\ \A i \in 1 .. Len(events') : events'[i].run # worker'[w].run
    <3>1. AtRun(w) /\ SameWork(worker'[w], worker[w]) /\ worker[w].run \in 1 .. Len(runs)
      BY <1>2, <2>1 DEF LeavesReplies
    <3>2. /\ Matches(worker[w], w, runs[worker[w].run])
          /\ \A i \in 1 .. Len(events) : events[i].run # worker[w].run
      BY <3>1 DEF RepliesInv, WorkersMatch
    <3>3. RunKept(worker[w].run) /\ worker[w].run # NoRun
      BY <3>1 DEF StoresKept, RunsKept, NoRun
    <3> QED
      BY <1>1, <3>1, <3>2, <3>3 DEF SameWork, Matches, RunKept
  <2> QED
    BY <2>1 DEF WorkersMatch
<1>4. DistinctRuns'
  BY DEF RepliesInv, DistinctRuns, LeavesReplies, SameWork
<1>5. ReplyInRunBranch'
  <2>1. ASSUME NEW i \in 1 .. Len(events'), events'[i].run # NoRun
        PROVE  LET run == runs'[events'[i].run]
               IN /\ events'[i].author = run.agent
                  /\ events'[i].branch = run.branch
                  /\ i > run.snapshot
                  /\ \A j \in 1 .. Len(events') : events'[j].run = events'[i].run => j = i
    <3>1. /\ i \in 1 .. Len(events) /\ events'[i] = events[i] /\ events[i].run # NoRun
          /\ events[i].run \in 1 .. Len(runs)
      BY <1>1, <2>1, EventsAre DEF RunIds, NoRun
    <3>2. RunKept(events[i].run)
      BY <3>1 DEF StoresKept, RunsKept
    <3> QED
      BY <1>1, <3>1, <3>2 DEF RepliesInv, ReplyInRunBranch, RunKept
  <2> QED
    BY <2>1 DEF ReplyInRunBranch
<1> QED
  BY <1>3, <1>4, <1>5 DEF RepliesInv

LEMMA StartReplies ==
  ASSUME TypeInv, StoresKept, RepliesInv, BeginsRun
  PROVE  RepliesInv'
<1> DEFINE r == Len(runs) + 1
<1>0. Len(runs) \in Nat /\ Len(events) \in Nat
  BY Sizes
<1>1. PICK w \in Workers :
        /\ worker'[w].pc = "invoking" /\ worker'[w].run = r
        /\ Len(runs') = r /\ Matches(worker'[w], w, runs'[r])
        /\ \A v \in Workers : v # w => worker'[v] = worker[v]
        /\ UNCHANGED events
  BY DEF BeginsRun
<1>2. \A i \in 1 .. Len(events) : events[i].run \in 0 .. Len(runs)
  BY EventsAre DEF RunIds
<1>3. \A v \in Workers : v # w /\ AtRun(v)' =>
        AtRun(v) /\ worker'[v] = worker[v] /\ worker[v].run \in 1 .. Len(runs)
  BY <1>1, WorkersAre DEF AtRun
<1>4. WorkersMatch'
  <2>1. ASSUME NEW v \in Workers, AtRun(v)'
        PROVE  /\ Matches(worker'[v], v, runs'[worker'[v].run])
               /\ \A i \in 1 .. Len(events') : events'[i].run # worker'[v].run
    <3>1. CASE v = w
      BY <1>0, <1>1, <1>2, <3>1
    <3>2. CASE v # w
      <4>1. AtRun(v) /\ worker'[v] = worker[v] /\ worker[v].run \in 1 .. Len(runs)
        BY <1>3, <2>1, <3>2
      <4>2. RunKept(worker[v].run)
        BY <4>1 DEF StoresKept, RunsKept
      <4> QED
        BY <1>1, <4>1, <4>2 DEF RepliesInv, WorkersMatch, Matches, RunKept
    <3> QED
      BY <3>1, <3>2
  <2> QED
    BY <2>1 DEF WorkersMatch
<1>5. DistinctRuns'
  BY <1>0, <1>1, <1>3 DEF RepliesInv, DistinctRuns
<1>6. ReplyInRunBranch'
  <2>1. \A i \in 1 .. Len(events) : events[i].run # NoRun => RunKept(events[i].run)
    BY <1>2 DEF StoresKept, RunsKept, NoRun
  <2> QED
    BY <1>1, <2>1 DEF RepliesInv, ReplyInRunBranch, RunKept
<1> QED
  BY <1>4, <1>5, <1>6 DEF RepliesInv

LEMMA ReplyReplies ==
  ASSUME TypeInv, StoresKept, RepliesInv, AppendsReply
  PROVE  RepliesInv'
<1> DEFINE n == Len(events) + 1
<1>0. Len(runs) \in Nat /\ Len(events) \in Nat
  BY Sizes
<1>1. PICK w \in Workers :
        /\ worker[w].pc = "replying" /\ ~AtRun(w)'
        /\ \A v \in Workers : v # w => worker'[v] = worker[v]
        /\ Len(events') = n
        /\ events'[n].author = w[1] /\ events'[n].branch = worker[w].branch
        /\ events'[n].run = worker[w].run
        /\ UNCHANGED runs
  BY DEF AppendsReply
<1>2. /\ AtRun(w) /\ worker[w].run \in 1 .. Len(runs) /\ Matches(worker[w], w, runs[worker[w].run])
      /\ \A i \in 1 .. Len(events) : events[i].run # worker[w].run
      /\ runs[worker[w].run].snapshot \in 0 .. Len(events)
  <2>1. AtRun(w) /\ worker[w].run \in 1 .. Len(runs)
    BY <1>1, WorkersAre DEF AtRun
  <2> QED
    BY <2>1, RunsAre DEF RepliesInv, WorkersMatch, Events
<1>3. \A i \in 1 .. Len(events) : events'[i] = events[i]
  BY DEF StoresKept, EventsKept
<1>4. \A i \in 1 .. n : i # n => i \in 1 .. Len(events)
  BY <1>0
<1>5. WorkersMatch'
  <2>1. ASSUME NEW v \in Workers, AtRun(v)'
        PROVE  /\ Matches(worker'[v], v, runs'[worker'[v].run])
               /\ \A i \in 1 .. Len(events') : events'[i].run # worker'[v].run
    <3>1. v # w /\ worker'[v] = worker[v] /\ AtRun(v)
      BY <1>1, <2>1 DEF AtRun
    <3>2. worker[v].run # worker[w].run
      BY <1>2, <3>1 DEF RepliesInv, DistinctRuns
    <3> QED
      BY <1>1, <1>3, <1>4, <3>1, <3>2 DEF RepliesInv, WorkersMatch
  <2> QED
    BY <2>1 DEF WorkersMatch
<1>6. DistinctRuns'
  BY <1>1 DEF RepliesInv, DistinctRuns, AtRun
<1>7. ReplyInRunBranch'
  <2>1. ASSUME NEW i \in 1 .. Len(events'), events'[i].run # NoRun
        PROVE  LET run == runs[events'[i].run]
               IN /\ events'[i].author = run.agent
                  /\ events'[i].branch = run.branch
                  /\ i > run.snapshot
                  /\ \A j \in 1 .. Len(events') : events'[j].run = events'[i].run => j = i
    <3>1. CASE i = n
      BY <1>0, <1>1, <1>2, <1>3, <1>4, <3>1 DEF Matches
    <3>2. CASE i # n
      <4>1. i \in 1 .. Len(events) /\ events'[i] = events[i]
        BY <1>1, <1>3, <1>4, <3>2
      <4>2. \A j \in 1 .. Len(events') : events'[j].run = events'[i].run => j \in 1 .. Len(events)
        BY <1>1, <1>2, <1>4, <4>1
      <4> QED
        BY <1>3, <2>1, <4>1, <4>2 DEF RepliesInv, ReplyInRunBranch
    <3> QED
      BY <3>1, <3>2
  <2> QED
    BY <1>1, <2>1 DEF ReplyInRunBranch
<1> QED
  BY <1>5, <1>6, <1>7 DEF RepliesInv

LEMMA StartsBegin ==
  ASSUME TypeInv, NEW w \in Workers, NEW x, Starts(w, x), UNCHANGED events
  PROVE  BeginsRun
<1>1. LET run == runs'[Len(runs) + 1]
      IN  /\ run.agent = w[1] /\ run.lane = w[2] /\ run.branch = x.branch /\ run.low = x.low
          /\ run.snapshot = x.snapshot
  BY DEF Starts, NewRun
<1>2. /\ worker'[w] = x /\ x.pc = "invoking" /\ x.run = Len(runs) + 1
      /\ Len(runs') = Len(runs) + 1
      /\ \A v \in Workers : v # w => worker'[v] = worker[v]
  BY DEF Starts, Becomes
<1> QED
  BY <1>1, <1>2 DEF BeginsRun, Matches

\* Only a run that has ended well appends a reply, and only a start makes a run.
LEMMA RepliesOnlyThere ==
  ASSUME TypeInv, StepKinds
  PROVE  LeavesReplies \/ BeginsRun \/ AppendsReply
<1>0. Len(events) \in Nat
  BY Sizes
<1>1. CASE ControlStep
  BY <1>0, <1>1 DEF ControlStep, LeavesReplies, SameWork, AtRun
<1>2. CASE ReadStep
  <2>1. PICK a, x :
          /\ a \in Agents
          /\ Becomes(<<a, "router">>, x) /\ x.pc \in {"idle", "reading", "starting"}
    BY <1>2 DEF ReadStep
  <2>2. \A w \in Workers : AtRun(w)' => worker'[w] = worker[w]
    BY <2>1 DEF Becomes, AtRun
  <2>3. UNCHANGED events
    BY <1>2 DEF ReadStep
  <2> QED
    BY <1>0, <2>2, <2>3 DEF LeavesReplies, SameWork, AtRun
<1>3. CASE SpeakStep
  <2>1. Len(events') = Len(events) + 1 /\ UNCHANGED runs
    BY <1>3 DEF SpeakStep
  <2>2. CASE UNCHANGED worker /\ events'[Len(events) + 1].run = NoRun
    BY <1>0, <2>1, <2>2 DEF LeavesReplies, SameWork, AtRun
  <2>3. CASE \E w \in Workers :
               /\ worker[w].pc = "replying" /\ Becomes(w, IdleWorker)
               /\ events'[Len(events) + 1].branch = worker[w].branch
               /\ events'[Len(events) + 1].author = w[1]
               /\ events'[Len(events) + 1].run = worker[w].run
    BY <2>1, <2>3 DEF AppendsReply, Becomes, AtRun, IdleWorker
  <2> QED
    BY <1>3, <2>2, <2>3 DEF SpeakStep
<1>4. CASE CreateStep
  BY <1>0, <1>4 DEF CreateStep, LeavesReplies, SameWork, AtRun
<1>5. CASE WriteStep
  <2>1. UNCHANGED events
    BY <1>5 DEF WriteStep
  <2>2. CASE UNCHANGED worker
    BY <1>0, <2>1, <2>2 DEF LeavesReplies, SameWork, AtRun
  <2>3. ASSUME NEW w \in Workers, worker[w].pc = "invoking",
               Becomes(w, [worker[w] EXCEPT !.pc = "completing"])
        PROVE  LeavesReplies
    <3>1. SameWork([worker[w] EXCEPT !.pc = "completing"], worker[w])
      BY WorkersAre DEF SameWork, WorkerSet
    <3>2. ASSUME NEW v \in Workers, AtRun(v)'
          PROVE  AtRun(v) /\ SameWork(worker'[v], worker[v])
      <4>1. CASE v = w
        BY <2>3, <3>1, <4>1 DEF AtRun, Becomes
      <4>2. CASE v # w
        <5>1. worker'[v] = worker[v]
          BY <2>3, <4>2 DEF Becomes
        <5> QED
          BY <3>2, <5>1 DEF AtRun, SameWork
      <4> QED
        BY <4>1, <4>2
    <3> QED
      BY <1>0, <2>1, <3>2 DEF LeavesReplies
  <2> QED
    BY <1>5, <2>2, <2>3 DEF WriteStep
<1>6. CASE InjectStep
  <2>1. PICK a \in Agents : \E x : Starts(<<a, "inject">>, x) /\ UNCHANGED events
    BY <1>6 DEF InjectStep
  <2>2. <<a, "inject">> \in Workers
    BY DEF Workers, Lanes
  <2> QED
    BY <2>1, <2>2, StartsBegin
<1>7. CASE StartStep
  <2>1. PICK a \in Agents : \E x : Starts(<<a, "router">>, x) /\ UNCHANGED events
    BY <1>7 DEF StartStep
  <2>2. <<a, "router">> \in Workers
    BY DEF Workers, Lanes
  <2> QED
    BY <2>1, <2>2, StartsBegin
<1>8. CASE SettleStep
  <2>1. UNCHANGED events
    BY <1>8 DEF SettleStep
  <2>2. PICK w, x :
          /\ w \in Workers
          /\ AtWork(w) /\ Becomes(w, x)
          /\ x = IdleWorker \/ x = [worker[w] EXCEPT !.pc = "replying"]
    BY <1>8 DEF SettleStep
  <2>3. AtRun(w)' => SameWork(x, worker[w])
    BY <2>2, WorkersAre DEF SameWork, WorkerSet, AtRun, Becomes, IdleWorker
  <2> QED
    BY <1>0, <2>1, <2>2, <2>3 DEF LeavesReplies, SameWork, AtRun, AtWork, Becomes
<1>9. CASE ReconcileStep
  <2>1. UNCHANGED events
    BY <1>9 DEF ReconcileStep
  <2>2. \A w \in Workers : AtRun(w)' => worker'[w] = worker[w]
    BY <1>9 DEF ReconcileStep, AtRun, IdleWorker
  <2> QED
    BY <1>0, <2>1, <2>2 DEF LeavesReplies, SameWork, AtRun
<1> QED
  BY <1>1, <1>2, <1>3, <1>4, <1>5, <1>6, <1>7, <1>8, <1>9 DEF StepKinds

LEMMA RepliesStep ==
  ASSUME TypeInv, RepliesInv, [Next]_vars
  PROVE  RepliesInv'
<1>1. TypeInv' /\ StoresKept /\ (LeavesReplies \/ BeginsRun \/ AppendsReply)
  BY TypedStep, StepIs, RepliesOnlyThere DEF StepTyped
<1>2. Len(events') \in Nat
  BY <1>1 DEF TypeInv, TypeOK
<1> QED
  BY <1>1, <1>2, QuietReplies, StartReplies, ReplyReplies

LEMMA InitReplies == Init => RepliesInv
<1> SUFFICES ASSUME Init PROVE RepliesInv
  OBVIOUS
<1>1. events = <<>> /\ \A w \in Workers : worker[w] = IdleWorker
  BY DEF Init
<1>2. 1 .. Len(events) = {} /\ IdleWorker.pc = "idle"
  BY <1>1 DEF IdleWorker
<1> QED
  BY <1>1, <1>2 DEF RepliesInv, WorkersMatch, DistinctRuns, ReplyInRunBranch, AtRun

\* What is true of the records together: the types, what is final, and whose the replies are.
LEMMA TypeInvariant == Spec => []TypeInv
<1>1. TypeInv /\ [Next]_vars => TypeInv'
  BY TypedStep DEF StepTyped
<1> QED
  BY <1>1, InitTyped, PTL DEF Spec

LEMMA RepliesInvariant == Spec => []RepliesInv
<1>1. TypeInv /\ RepliesInv /\ [Next]_vars => RepliesInv'
  BY RepliesStep
<1> QED
  BY <1>1, InitReplies, TypeInvariant, PTL DEF Spec

\* A run replies at most once (_append_public_reply), in the branch it was started in and after
\* all it was given: switching branches, prompts injected beside it, edits and restarts never
\* give a run a second reply, nor put its reply where another branch's readers see it.
THEOREM ReplyInRunBranchCorrect == Spec => []ReplyInRunBranch
<1>1. RepliesInv => ReplyInRunBranch
  BY DEF RepliesInv
<1> QED
  BY <1>1, RepliesInvariant, PTL

----------------------------------------------------------------------------
(* What the record of a run says of it.                                     *)

\* The run an agent has is its own, and is not over.
RunsHeld ==
  \A b \in Branches, a \in Agents :
    LET s == agent[b][a]
    IN  /\ s.running => s.currentRun \in 1 .. Len(runs)
        /\ s.currentRun \in 1 .. Len(runs) =>
             /\ runs[s.currentRun].commit = "pending"
             /\ runs[s.currentRun].agent = a /\ runs[s.currentRun].branch = b

\* A run that is not over has a thread at work on it, and no run has a stable checkpoint
\* before it is committed.
RunStatuses ==
  \A r \in 1 .. Len(runs) :
    /\ runs[r].commit = "pending" <=> runs[r].status = "running"
    /\ runs[r].commit = "pending" => \E w \in Workers : AtWork(w) /\ worker[w].run = r
    /\ runs[r].commit # "committed" => runs[r].stable = NoCheckpoint

RepliesSettled ==
  \A a \in Agents :
    LET w == <<a, "router">>
    IN  worker[w].pc = "replying" =>
          runs[worker[w].run].commit = "committed" /\ runs[worker[w].run].status = "success"

FrontiersSettled ==
  \A k \in 1 .. Len(frontiers) :
    LET run == runs[frontiers[k].run]
    IN  frontiers[k].usable /\ run.lane = "router" => run.commit = "committed" /\ Stable(run.status)

HoldsInv == RunsHeld /\ RunStatuses /\ RepliesSettled /\ FrontiersSettled

LEMMA CalmHolds ==
  ASSUME TypeInv, RunsHeld, AgentsCalm, UNCHANGED runs, Len(branches') = Len(branches)
  PROVE  RunsHeld'
<1>1. Branches' = Branches /\ 0 \notin 1 .. Len(runs)
  BY Sizes DEF Branches
<1>2. ASSUME NEW b \in Branches, NEW a \in Agents
      PROVE  LET s == agent'[b][a]
             IN  /\ s.running => s.currentRun \in 1 .. Len(runs)
                 /\ s.currentRun \in 1 .. Len(runs) =>
                      /\ runs[s.currentRun].commit = "pending"
                      /\ runs[s.currentRun].agent = a /\ runs[s.currentRun].branch = b
  <2>1. Calm(agent'[b][a], agent[b][a])
    BY DEF AgentsCalm
  <2> QED
    BY <1>1, <2>1 DEF RunsHeld, Calm, NoRun
<1> QED
  BY <1>1, <1>2 DEF RunsHeld

LEMMA CreateHolds ==
  ASSUME TypeInv, RunsHeld, CreateStep
  PROVE  RunsHeld'
<1> DEFINE new == Len(branches) + 1
<1>1. /\ Branches' = Branches \union {new} /\ 0 \notin 1 .. Len(runs) /\ UNCHANGED runs
      /\ \A b \in Branches : agent'[b] = agent[b]
  BY Sizes DEF Branches, CreateStep
<1>2. \A a \in Agents : ~agent'[new][a].running /\ agent'[new][a].currentRun = NoRun
  BY DEF CreateStep, NewDeliveryState
<1> QED
  BY <1>1, <1>2 DEF RunsHeld, NoRun

LEMMA StartHolds ==
  ASSUME TypeInv, RunsHeld, NEW w \in Workers, NEW x, x.branch \in Branches, Starts(w, x),
         Len(branches') = Len(branches)
  PROVE  RunsHeld'
<1> DEFINE r == Len(runs) + 1
           b == x.branch
           a == w[1]
<1>1. Branches' = Branches /\ Len(runs) \in Nat /\ b \in Branches /\ a \in Agents
  BY Sizes, WorkersAre DEF Branches
<1>2. /\ Len(runs') = r /\ \A q \in 1 .. Len(runs) : runs'[q] = runs[q]
      /\ runs'[r].commit = "pending" /\ runs'[r].agent = a /\ runs'[r].branch = b
  BY DEF Starts, NewRun
<1>3. /\ agent'[b][a].currentRun = r
      /\ \A d \in Branches, y \in Agents : <<d, y>> # <<b, a>> => agent'[d][y] = agent[d][y]
  BY DEF Starts, AgentBecomes
<1>4. \A d \in Branches, y \in Agents :
        agent[d][y].currentRun \in 0 .. Len(runs) \union {BlankRun}
  BY ThreadsAre DEF DeliverySet, DeliveryStates, RunIds
<1> HIDE DEF b, a
<1>5. ASSUME NEW d \in Branches, NEW y \in Agents
      PROVE  LET s == agent'[d][y]
             IN  /\ s.running => s.currentRun \in 1 .. Len(runs')
                 /\ s.currentRun \in 1 .. Len(runs') =>
                      /\ runs'[s.currentRun].commit = "pending"
                      /\ runs'[s.currentRun].agent = y /\ runs'[s.currentRun].branch = d
  <2>1. CASE <<d, y>> = <<b, a>>
    BY <1>1, <1>2, <1>3, <2>1
  <2>2. CASE <<d, y>> # <<b, a>>
    <3>1. agent'[d][y] = agent[d][y] /\ agent[d][y].currentRun # r
      BY <1>1, <1>3, <1>4, <2>2 DEF BlankRun
    <3> QED
      BY <1>1, <1>2, <3>1 DEF RunsHeld
  <2> QED
    BY <2>1, <2>2
<1> QED
  BY <1>1, <1>5 DEF RunsHeld

LEMMA SettleHolds ==
  ASSUME TypeInv, StoresKept, RepliesInv, RunsHeld, SettleStep
  PROVE  RunsHeld'
<1>1. PICK w \in Workers, status \in Statuses \ {"running"} :
        LET r   == worker[w].run
            old == agent[worker[w].branch][w[1]]
        IN  /\ AtWork(w)
            /\ Len(runs') = Len(runs)
            /\ \A q \in 1 .. Len(runs) : q # r => runs'[q] = runs[q]
            /\ \E s : /\ AgentBecomes(worker[w].branch, w[1], s)
                      /\ IF old.currentRun = r THEN ~s.running /\ s.currentRun = NoRun ELSE s = old
  BY DEF SettleStep
<1> DEFINE r == worker[w].run
           b == worker[w].branch
           a == w[1]
<1>2. Branches' = Branches /\ b \in Branches /\ a \in Agents /\ 0 \notin 1 .. Len(runs)
  BY WorkersAre, Sizes DEF SettleStep, Branches
<1>3. r \in 1 .. Len(runs) /\ runs[r].agent = a /\ runs[r].branch = b
  <2>1. AtRun(w) /\ worker[w].run \in 1 .. Len(runs)
    BY <1>1, WorkersAre DEF AtWork, AtRun
  <2> QED
    BY <2>1 DEF RepliesInv, WorkersMatch, Matches
<1>4. PICK s : /\ agent'[b][a] = s
               /\ \A d \in Branches, y \in Agents : <<d, y>> # <<b, a>> => agent'[d][y] = agent[d][y]
               /\ IF agent[b][a].currentRun = r THEN ~s.running /\ s.currentRun = NoRun
                  ELSE s = agent[b][a]
  BY <1>1 DEF AgentBecomes
<1>5. Len(runs') = Len(runs) /\ \A q \in 1 .. Len(runs) : q # r => runs'[q] = runs[q]
  BY <1>1
<1> HIDE DEF r, b, a
<1>6. ASSUME NEW d \in Branches, NEW y \in Agents
      PROVE  LET t == agent'[d][y]
             IN  /\ t.running => t.currentRun \in 1 .. Len(runs')
                 /\ t.currentRun \in 1 .. Len(runs') =>
                      /\ runs'[t.currentRun].commit = "pending"
                      /\ runs'[t.currentRun].agent = y /\ runs'[t.currentRun].branch = d
  <2>1. CASE agent'[d][y] = agent[d][y] /\ agent[d][y].currentRun # r
    BY <1>5, <2>1 DEF RunsHeld
  <2>2. CASE <<d, y>> = <<b, a>> /\ agent[b][a].currentRun = r
    BY <1>2, <1>4, <2>2 DEF NoRun
  <2>3. CASE <<d, y>> # <<b, a>>
    <3>1. agent[d][y].currentRun # r
      BY <1>3, <2>3 DEF RunsHeld
    <3> QED
      BY <1>4, <2>1, <2>3, <3>1
  <2> QED
    BY <1>4, <2>1, <2>2, <2>3
<1> QED
  BY <1>2, <1>6 DEF RunsHeld

LEMMA ReconcileHolds ==
  ASSUME TypeInv, StoresKept, RunsHeld, ReconcileStep
  PROVE  RunsHeld'
<1>1. /\ Branches' = Branches /\ 0 \notin 1 .. Len(runs) /\ Len(runs') = Len(runs)
      /\ \A q \in 1 .. Len(runs) : runs[q].commit # "pending" => runs'[q] = runs[q]
      /\ \A b \in Branches, a \in Agents : Calm(agent'[b][a], agent[b][a])
      /\ \A b \in Branches, a \in Agents :
           /\ agent[b][a].currentRun \in 1 .. Len(runs)
           /\ runs[agent[b][a].currentRun].commit = "pending"
           => agent'[b][a].currentRun = NoRun /\ ~agent'[b][a].running
  BY Sizes DEF ReconcileStep, Branches, AgentsCalm
<1>2. ASSUME NEW b \in Branches, NEW a \in Agents
      PROVE  LET s == agent'[b][a]
             IN  ~s.running /\ s.currentRun \notin 1 .. Len(runs)
  <2>1. CASE agent[b][a].currentRun \in 1 .. Len(runs)
    BY <1>1, <2>1 DEF RunsHeld, NoRun
  <2>2. CASE agent[b][a].currentRun \notin 1 .. Len(runs)
    BY <1>1, <2>2 DEF RunsHeld, NoRun, Calm
  <2> QED
    BY <2>1, <2>2
<1> QED
  BY <1>1, <1>2 DEF RunsHeld

\* The record of a run is that of the run before, of a run begun, or of one that is over.
LEMMA StatusesStay ==
  ASSUME TypeInv, RunStatuses, UNCHANGED runs,
         \A w \in Workers : AtWork(w) => AtWork(w)' /\ worker'[w].run = worker[w].run
  PROVE  RunStatuses'
BY DEF RunStatuses

LEMMA StatusesBegin ==
  ASSUME TypeInv, RunStatuses, NEW w \in Workers, NEW x, ~AtWork(w), Starts(w, x)
  PROVE  RunStatuses'
<1> DEFINE r == Len(runs) + 1
<1>1. /\ Len(runs') = r /\ \A q \in 1 .. Len(runs) : runs'[q] = runs[q]
      /\ runs'[r].commit = "pending" /\ runs'[r].status = "running"
      /\ runs'[r].stable = NoCheckpoint
      /\ AtWork(w)' /\ worker'[w].run = r
      /\ \A v \in Workers : AtWork(v) => AtWork(v)' /\ worker'[v].run = worker[v].run
  BY DEF Starts, NewRun, Becomes, AtWork
<1>2. \A q \in 1 .. r : q = r \/ q \in 1 .. Len(runs)
  BY Sizes
<1> HIDE DEF r
<1> QED
  BY <1>1, <1>2 DEF RunStatuses

LEMMA StatusesSettle ==
  ASSUME TypeInv, RunStatuses, SettleStep, StoresKept
  PROVE  RunStatuses'
<1>1. PICK w \in Workers, status \in Statuses \ {"running"} :
        LET r == worker[w].run
        IN  /\ AtWork(w)
            /\ Len(runs') = Len(runs) /\ runs'[r] = SettledRun(r, status)
            /\ \A q \in 1 .. Len(runs) : q # r => runs'[q] = runs[q]
            /\ \E x : Becomes(w, x)
  BY DEF SettleStep
<1> DEFINE r == worker[w].run
<1>2. r \in 1 .. Len(runs)
  BY <1>1, WorkersAre DEF AtWork
<1>3. \A v \in Workers : v # w => worker'[v] = worker[v]
  BY <1>1 DEF Becomes
<1>4. /\ runs'[r].commit # "pending" /\ runs'[r].status # "running"
      /\ runs'[r].commit # "committed" => runs'[r].stable = NoCheckpoint
  <2>1. CASE runs[r].commit = "orphaned"
    BY <1>1, <1>2, <2>1 DEF SettledRun, RunStatuses
  <2>2. CASE runs[r].commit # "orphaned"
    <3>1. runs'[r] = SettledRun(r, status)
      BY <1>1
    <3>2. runs[r] \in RunSet(Branches, Events, Checkpoints)
      BY <1>2, RunsAre
    <3> HIDE DEF r
    <3>3. runs'[r].commit = "committed" /\ runs'[r].status = status
      BY <2>2, <3>1, <3>2 DEF SettledRun, RunSet
    <3> QED
      BY <1>1, <3>3
  <2> QED
    BY <2>1, <2>2
<1>5. ASSUME NEW q \in 1 .. Len(runs), q # r, runs[q].commit = "pending"
      PROVE  \E v \in Workers : AtWork(v)' /\ worker'[v].run = q
  <2>1. PICK v \in Workers : AtWork(v) /\ worker[v].run = q
    BY <1>5 DEF RunStatuses
  <2> QED
    BY <1>3, <1>5, <2>1 DEF AtWork
<1> HIDE DEF r
<1> QED
  BY <1>1, <1>4, <1>5 DEF RunStatuses, r

LEMMA StatusesReconcile ==
  ASSUME TypeInv, RunStatuses, ReconcileStep
  PROVE  RunStatuses'
BY DEF RunStatuses, ReconcileStep

\* A result of the router's only counts while the agent has the run.
LEMMA SettledBySuccess ==
  ASSUME TypeInv, RepliesInv, RunsHeld, RunStatuses, NEW w \in Workers, NEW status \in Statuses,
         AtWork(w), w[2] = "router", status \in {"success", "empty", "skipped", "stopped"},
         agent[worker[w].branch][w[1]].currentRun = worker[w].run \/ status = "skipped",
         runs[worker[w].run].commit # "orphaned",
         runs'[worker[w].run] = SettledRun(worker[w].run, status)
  PROVE  runs'[worker[w].run].commit = "committed" /\ runs'[worker[w].run].status = status
<1> DEFINE r == worker[w].run
<1>1. r \in 1 .. Len(runs)
  BY WorkersAre DEF AtWork
<1>2. runs[r] \in RunSet(Branches, Events, Checkpoints)
  BY <1>1, RunsAre
<1> HIDE DEF r
<1> QED
  BY <1>1, <1>2 DEF SettledRun, RunSet, r

LEMMA RepliesStaySettled ==
  ASSUME TypeInv, RepliesInv, FinalKept, HoldsInv,
         \A a \in Agents : worker'[<<a, "router">>].pc = "replying" =>
           worker[<<a, "router">>].pc = "replying"
           /\ worker'[<<a, "router">>].run = worker[<<a, "router">>].run
  PROVE  RepliesSettled'
<1>1. ASSUME NEW a \in Agents, worker'[<<a, "router">>].pc = "replying"
      PROVE  LET r == worker'[<<a, "router">>].run
             IN  runs'[r].commit = "committed" /\ runs'[r].status = "success"
  <2>1. <<a, "router">> \in Workers
    BY DEF Workers, Lanes
  <2>2. /\ worker[<<a, "router">>].run \in 1 .. Len(runs)
        /\ worker'[<<a, "router">>].run = worker[<<a, "router">>].run
    BY <1>1, <2>1, WorkersAre
  <2> QED
    BY <1>1, <2>2 DEF HoldsInv, RepliesSettled, FinalKept
<1> QED
  BY <1>1 DEF RepliesSettled

LEMMA RepliesSettle ==
  ASSUME TypeInv, RepliesInv, FinalKept, HoldsInv, SettleStep
  PROVE  RepliesSettled'
<1>1. PICK w \in Workers, status \in Statuses \ {"running"} :
        LET r   == worker[w].run
            old == agent[worker[w].branch][w[1]]
        IN  /\ AtWork(w)
            /\ status \in {"success", "empty", "skipped", "stopped"} /\ w[2] = "router" =>
                 old.currentRun = r \/ status = "skipped"
            /\ runs'[r] = SettledRun(r, status)
            /\ \E x : /\ Becomes(w, x)
                      /\ \/ x = IdleWorker
                         \/ status = "success" /\ x = [worker[w] EXCEPT !.pc = "replying"]
  BY DEF SettleStep
<1>2. ASSUME NEW a \in Agents, worker'[<<a, "router">>].pc = "replying", w # <<a, "router">>
      PROVE  LET r == worker'[<<a, "router">>].run
             IN  runs'[r].commit = "committed" /\ runs'[r].status = "success"
  <2>1. <<a, "router">> \in Workers
    BY DEF Workers, Lanes
  <2>2. worker'[<<a, "router">>] = worker[<<a, "router">>]
    BY <1>1, <1>2, <2>1 DEF Becomes
  <2>3. worker[<<a, "router">>].run \in 1 .. Len(runs)
    BY <1>2, <2>1, <2>2, WorkersAre
  <2> QED
    BY <1>2, <2>2, <2>3 DEF HoldsInv, RepliesSettled, FinalKept
<1>3. ASSUME NEW a \in Agents, worker'[<<a, "router">>].pc = "replying", w = <<a, "router">>
      PROVE  LET r == worker'[<<a, "router">>].run
             IN  runs'[r].commit = "committed" /\ runs'[r].status = "success"
  <2>1. status = "success" /\ worker'[w] = [worker[w] EXCEPT !.pc = "replying"]
    BY <1>1, <1>3 DEF Becomes, IdleWorker
  <2>2. worker'[w].run = worker[w].run /\ worker[w].run \in 1 .. Len(runs) /\ w[2] = "router"
    BY <1>1, <1>3, <2>1, WorkersAre DEF WorkerSet, AtWork
  <2>3. runs[worker[w].run].commit = "pending"
    BY <1>1, <1>3, <2>1, <2>2, WorkersAre DEF HoldsInv, RunsHeld
  <2>4. runs'[worker[w].run].commit = "committed" /\ runs'[worker[w].run].status = status
    BY <1>1, <2>1, <2>2, <2>3, SettledBySuccess DEF HoldsInv
  <2> QED
    BY <1>3, <2>1, <2>2, <2>4
<1> QED
  BY <1>2, <1>3 DEF RepliesSettled

\* A frontier stays, or is the one that is recorded.
LEMMA FrontiersStaySettled ==
  ASSUME TypeInv, StoresKept, FinalKept, FrontiersSettled, NEW f,
         UNCHANGED frontiers \/ Recorded(f),
         f.usable /\ runs'[f.run].lane = "router" =>
           runs'[f.run].commit = "committed" /\ Stable(runs'[f.run].status)
  PROVE  FrontiersSettled'
<1>1. \A k \in 1 .. Len(frontiers) :
        LET run == runs'[frontiers[k].run]
        IN  frontiers[k].usable /\ run.lane = "router" => run.commit = "committed" /\ Stable(run.status)
  <2> SUFFICES ASSUME NEW k \in 1 .. Len(frontiers), frontiers[k].usable,
                      runs'[frontiers[k].run].lane = "router"
               PROVE  LET run == runs'[frontiers[k].run]
                      IN  run.commit = "committed" /\ Stable(run.status)
    OBVIOUS
  <2>1. frontiers[k].run \in 1 .. Len(runs)
    BY FrontiersAre
  <2>2. runs[frontiers[k].run].lane = "router"
    BY <2>1 DEF StoresKept, RunsKept, RunKept
  <2> QED
    BY <2>1, <2>2 DEF FrontiersSettled, FinalKept
<1>2. \A k \in 1 .. Len(frontiers') :
        frontiers'[k] = f \/ \E j \in 1 .. Len(frontiers) : frontiers'[k] = frontiers[j]
  BY DEF Recorded
<1> QED
  BY <1>1, <1>2 DEF FrontiersSettled

LEMMA FrontierOfReply ==
  ASSUME TypeInv, RepliesInv, StoresKept, FinalKept, HoldsInv, SpeakStep
  PROVE  FrontiersSettled'
<1>1. CASE UNCHANGED frontiers
  BY <1>1, FrontiersStaySettled, FrontiersAre DEF HoldsInv, FrontiersSettled, SpeakStep
<1>2. CASE ~UNCHANGED frontiers
  <2>1. PICK b \in Branches, w \in Workers :
          /\ worker[w].pc = "replying"
          /\ Recorded([event |-> Len(events) + 1, agent |-> w[1], branch |-> b, thread |-> b,
                       checkpoint |-> LatestCheckpoint(b, w[1]), run |-> worker[w].run,
                       usable |-> TRUE])
    BY <1>2 DEF SpeakStep
  <2> DEFINE f == [event |-> Len(events) + 1, agent |-> w[1], branch |-> b, thread |-> b,
                   checkpoint |-> LatestCheckpoint(b, w[1]), run |-> worker[w].run,
                   usable |-> TRUE]
  <2>2. runs' = runs /\ f.run = worker[w].run
    BY DEF SpeakStep
  <2>3. runs[worker[w].run].lane = w[2]
    BY <2>1, WorkersAre DEF RepliesInv, WorkersMatch, Matches, AtRun
  <2>4. w[2] = "router" => w = <<w[1], "router">> /\ w[1] \in Agents
    BY DEF Workers
  <2>5. runs[worker[w].run].lane = "router" =>
          runs[worker[w].run].commit = "committed" /\ Stable(runs[worker[w].run].status)
    BY <2>1, <2>3, <2>4 DEF HoldsInv, RepliesSettled, Stable
  <2> HIDE DEF f
  <2> QED
    BY <2>1, <2>2, <2>5, FrontiersStaySettled DEF HoldsInv, f
<1> QED
  BY <1>1, <1>2

LEMMA FrontierOfEnd ==
  ASSUME TypeInv, RunsInv, StoresKept, FinalKept, HoldsInv, SettleStep
  PROVE  FrontiersSettled'
<1>1. CASE UNCHANGED frontiers
  <2> DEFINE f == [usable |-> FALSE]
  <2>1. ~f.usable
    OBVIOUS
  <2> HIDE DEF f
  <2> QED
    BY <1>1, <2>1, FrontiersStaySettled DEF HoldsInv
<1>2. CASE ~UNCHANGED frontiers
  <2>1. PICK w \in Workers, status \in Statuses \ {"running"} :
          LET r == worker[w].run
          IN  /\ AtWork(w) /\ runs'[r] = SettledRun(r, status)
              /\ runs[r].commit # "orphaned"
              /\ Recorded(TerminalRecord(r, status))
    BY <1>2 DEF SettleStep
  <2> DEFINE r == worker[w].run
             f == TerminalRecord(r, status)
  <2>2. r \in 1 .. Len(runs) /\ runs[r].commit # "committed" /\ runs[r].stable = NoCheckpoint
    BY <2>1 DEF RunsInv, WorkersOwnRecords, HoldsInv, RunStatuses
  <2>3. runs[r] \in RunSet(Branches, Events, Checkpoints)
    BY <2>2, RunsAre
  <2>4. f.run = r /\ f.usable = (runs'[r].stable # NoCheckpoint)
    BY <2>1 DEF TerminalRecord
  <2>5. runs'[r] = SettledRun(r, status) /\ runs[r].commit # "orphaned"
    BY <2>1
  <2> HIDE DEF r
  <2>6. /\ runs'[r].commit = "committed" /\ runs'[r].status = status
        /\ runs'[r].stable # NoCheckpoint => Stable(status)
    BY <2>2, <2>3, <2>5 DEF SettledRun, RunSet
  <2>7. Recorded(f)
    BY <2>1 DEF r
  <2> HIDE DEF f
  <2> QED
    BY <2>4, <2>6, <2>7, FrontiersStaySettled DEF HoldsInv
<1> QED
  BY <1>1, <1>2

\* Frontiers and replies stay as they were where a step records none and lets no run end.
LEMMA QuietHolds ==
  ASSUME TypeInv, RepliesInv, StoresKept, FinalKept, HoldsInv, UNCHANGED frontiers,
         \A a \in Agents : worker'[<<a, "router">>].pc = "replying" =>
           worker[<<a, "router">>].pc = "replying"
           /\ worker'[<<a, "router">>].run = worker[<<a, "router">>].run
  PROVE  RepliesSettled' /\ FrontiersSettled'
<1> DEFINE f == [usable |-> FALSE]
<1>1. ~f.usable
  OBVIOUS
<1> HIDE DEF f
<1> QED
  BY <1>1, RepliesStaySettled, FrontiersStaySettled DEF HoldsInv

LEMMA HoldsStep ==
  ASSUME TypeInv, RunsInv, RepliesInv, HoldsInv, [Next]_vars
  PROVE  HoldsInv'
<1>0. StoresKept /\ StepKinds /\ FinalKept
  BY TypedStep, StepIs, RunsStep DEF StepTyped
<1>1. CASE ControlStep
  <2>1. RunsHeld'
    BY <1>1, AgentsStayCalm, CalmHolds DEF ControlStep, HoldsInv
  <2>2. RunStatuses'
    BY <1>1, StatusesStay DEF ControlStep, HoldsInv, AtWork
  <2>3. RepliesSettled' /\ FrontiersSettled'
    BY <1>0, <1>1, QuietHolds DEF ControlStep
  <2> QED
    BY <2>1, <2>2, <2>3 DEF HoldsInv
<1>2. CASE ReadStep
  <2>1. PICK a, x :
          /\ a \in Agents
          /\ worker[<<a, "router">>].pc \in {"idle", "reading", "starting"}
          /\ Becomes(<<a, "router">>, x) /\ x.pc \in {"idle", "reading", "starting"}
    BY <1>2 DEF ReadStep
  <2>2. \A w \in Workers : w = <<a, "router">> \/ worker'[w] = worker[w]
    BY <2>1 DEF Becomes
  <2>3. RunsHeld'
    BY <1>2, CalmHolds DEF ReadStep, HoldsInv
  <2>4. RunStatuses'
    BY <1>2, <2>1, <2>2, StatusesStay DEF ReadStep, HoldsInv, AtWork
  <2>5. \A y \in Agents : <<y, "router">> \in Workers
    BY DEF Workers, Lanes
  <2>6. RepliesSettled' /\ FrontiersSettled'
    BY <1>0, <1>2, <2>1, <2>2, <2>5, QuietHolds DEF ReadStep, Becomes
  <2> QED
    BY <2>3, <2>4, <2>6 DEF HoldsInv
<1>3. CASE SpeakStep
  <2>1. UNCHANGED worker \/ \E w \in Workers : worker[w].pc = "replying" /\ Becomes(w, IdleWorker)
    BY <1>3 DEF SpeakStep
  <2>2. RunsHeld'
    BY <1>3, CalmHolds DEF SpeakStep, HoldsInv
  <2>3. RunStatuses'
    BY <1>3, <2>1, StatusesStay DEF SpeakStep, HoldsInv, AtWork, Becomes
  <2>4. FrontiersSettled'
    BY <1>0, <1>3, FrontierOfReply
  <2>5. \A y \in Agents : <<y, "router">> \in Workers
    BY DEF Workers, Lanes
  <2>6. RepliesSettled'
    BY <1>0, <2>1, <2>5, RepliesStaySettled DEF Becomes, IdleWorker
  <2> QED
    BY <2>2, <2>3, <2>4, <2>6 DEF HoldsInv
<1>4. CASE CreateStep
  <2>1. RunsHeld'
    BY <1>4, CreateHolds DEF HoldsInv
  <2>2. RunStatuses'
    BY <1>4, StatusesStay DEF CreateStep, HoldsInv, AtWork
  <2>3. RepliesSettled' /\ FrontiersSettled'
    BY <1>0, <1>4, QuietHolds DEF CreateStep
  <2> QED
    BY <2>1, <2>2, <2>3 DEF HoldsInv
<1>5. CASE WriteStep
  <2>1. \/ UNCHANGED worker
        \/ \E w \in Workers : /\ worker[w].pc = "invoking"
                              /\ Becomes(w, [worker[w] EXCEPT !.pc = "completing"])
    BY <1>5 DEF WriteStep
  <2>2. \A w \in Workers :
          \/ worker'[w] = worker[w]
          \/ worker'[w].pc = "completing" /\ worker'[w].run = worker[w].run
    <3>1. \A w \in Workers : LET x == [worker[w] EXCEPT !.pc = "completing"]
                             IN  x.pc = "completing" /\ x.run = worker[w].run
      BY WorkersAre DEF WorkerSet
    <3> QED
      BY <2>1, <3>1 DEF Becomes
  <2>3. RunsHeld'
    BY <1>5, AgentsStayCalm, CalmHolds DEF WriteStep, HoldsInv
  <2>4. RunStatuses'
    BY <1>5, <2>2, StatusesStay DEF WriteStep, HoldsInv, AtWork
  <2>5. \A y \in Agents : <<y, "router">> \in Workers
    BY DEF Workers, Lanes
  <2>6. RepliesSettled' /\ FrontiersSettled'
    BY <1>0, <1>5, <2>2, <2>5, QuietHolds DEF WriteStep
  <2> QED
    BY <2>3, <2>4, <2>6 DEF HoldsInv
<1>6. ASSUME NEW w \in Workers, NEW x, x.branch \in Branches, ~AtWork(w), Starts(w, x),
             Len(branches') = Len(branches), UNCHANGED frontiers
      PROVE  HoldsInv'
  <2>1. RunsHeld' /\ RunStatuses'
    BY <1>6, StartHolds, StatusesBegin DEF HoldsInv
  <2>2. \A y \in Agents : <<y, "router">> \in Workers
    BY DEF Workers, Lanes
  <2>3. RepliesSettled' /\ FrontiersSettled'
    BY <1>0, <1>6, <2>2, QuietHolds DEF Starts, Becomes
  <2> QED
    BY <2>1, <2>3 DEF HoldsInv
<1>7. CASE InjectStep
  <2>1. PICK a, x :
          /\ a \in Agents
          /\ worker[<<a, "inject">>].pc = "idle" /\ Starts(<<a, "inject">>, x) /\ x.branch = current
    BY <1>7 DEF InjectStep
  <2>2. <<a, "inject">> \in Workers /\ ~AtWork(<<a, "inject">>)
    BY <2>1 DEF Workers, Lanes, AtWork
  <2> QED
    BY <1>6, <1>7, <2>1, <2>2, Sizes DEF InjectStep
<1>8. CASE StartStep
  <2>1. PICK a, x :
          /\ a \in Agents
          /\ worker[<<a, "router">>].pc = "starting" /\ Starts(<<a, "router">>, x)
          /\ x.branch = worker[<<a, "router">>].branch
    BY <1>8 DEF StartStep
  <2>2. <<a, "router">> \in Workers /\ ~AtWork(<<a, "router">>)
    BY <2>1 DEF Workers, Lanes, AtWork
  <2> QED
    BY <1>6, <1>8, <2>1, <2>2, WorkersAre DEF StartStep
<1>9. CASE SettleStep
  <2>1. RunsHeld' /\ RunStatuses'
    BY <1>0, <1>9, SettleHolds, StatusesSettle DEF HoldsInv
  <2>2. RepliesSettled' /\ FrontiersSettled'
    BY <1>0, <1>9, RepliesSettle, FrontierOfEnd
  <2> QED
    BY <2>1, <2>2 DEF HoldsInv
<1>10. CASE ReconcileStep
  <2>1. RunsHeld' /\ RunStatuses'
    BY <1>0, <1>10, ReconcileHolds, StatusesReconcile DEF HoldsInv
  <2>2. \A y \in Agents : <<y, "router">> \in Workers
    BY DEF Workers, Lanes
  <2>3. RepliesSettled' /\ FrontiersSettled'
    BY <1>0, <1>10, <2>2, QuietHolds DEF ReconcileStep, IdleWorker
  <2> QED
    BY <2>1, <2>3 DEF HoldsInv
<1> QED
  BY <1>0, <1>1, <1>2, <1>3, <1>4, <1>5, <1>7, <1>8, <1>9, <1>10 DEF StepKinds

LEMMA InitHolds == Init => HoldsInv
<1> SUFFICES ASSUME Init PROVE HoldsInv
  OBVIOUS
<1>1. /\ runs = <<>> /\ frontiers = <<>> /\ branches = <<>>
      /\ \A a \in Agents : agent[Main][a] = NewDeliveryState
      /\ \A w \in Workers : worker[w] = IdleWorker
  BY DEF Init
<1>2. 1 .. Len(runs) = {} /\ 1 .. Len(frontiers) = {} /\ Branches = {Main}
  BY <1>1 DEF Branches, Main
<1>3. \A y \in Agents : <<y, "router">> \in Workers
  BY DEF Workers, Lanes
<1>4. RunsHeld /\ RepliesSettled
  BY <1>1, <1>2, <1>3 DEF RunsHeld, RepliesSettled, NewDeliveryState, IdleWorker
<1> QED
  BY <1>2, <1>4 DEF HoldsInv, RunStatuses, FrontiersSettled

LEMMA HoldsInvariant == Spec => []HoldsInv
<1>1. TypeInv /\ RunsInv /\ RepliesInv /\ HoldsInv /\ [Next]_vars => HoldsInv'
  BY HoldsStep
<1> QED
  BY <1>1, InitHolds, TypeInvariant, RunsInvariant, RepliesInvariant, PTL DEF Spec

----------------------------------------------------------------------------
(* What a thread holds before and after its first run.                      *)

UnusedThreads ==
  \A b \in Branches, a \in Agents : thread[b][a].status = "none" => stored[b][a] = {}

WorkersHaveThreads ==
  \A w \in Workers : AtWork(w) => thread[worker[w].branch][w[1]].status # "none"

FrontiersStored ==
  \A k \in 1 .. Len(frontiers) : frontiers[k].checkpoint \in stored[frontiers[k].branch][frontiers[k].agent]

ThreadsInv == UnusedThreads /\ WorkersHaveThreads /\ FrontiersStored

\* A thread loses no checkpoint, and no record of its being used.
ThreadsKept ==
  \A b \in Branches, a \in Agents :
    /\ stored[b][a] \subseteq stored'[b][a]
    /\ thread'[b][a].status = "none" => thread[b][a].status = "none"

\* The thread a fork goes to is empty, or it is refused.
LEMMA ForkKeeps ==
  ASSUME NEW b \in Branches, NEW a \in Agents, ~ForkRefused(b, a), thread[b][a].status # "active"
  PROVE  stored[b][a] \subseteq ForkedCheckpoints(b, a)
BY DEF ForkRefused, ForkedCheckpoints

LEMMA ThreadsDoKeep ==
  ASSUME TypeInv, StepKinds
  PROVE  ThreadsKept
<1>1. CASE UNCHANGED <<thread, stored>>
  BY <1>1 DEF ThreadsKept
<1>2. CASE CreateStep
  BY <1>2 DEF CreateStep, ThreadsKept
<1>3. ASSUME NEW b \in Branches, NEW a \in Agents, NEW from, NEW given, Adds(b, a, from, given),
             UNCHANGED thread
      PROVE  ThreadsKept
  BY <1>3 DEF Adds, ThreadsKept
<1>4. CASE WriteStep
  <2>1. UNCHANGED thread
    BY <1>4 DEF WriteStep
  <2>2. PICK b \in Branches, a \in Agents : \E from, given : Adds(b, a, from, given)
    BY <1>4 DEF WriteStep
  <2> QED
    BY <1>3, <2>1, <2>2
<1>5. CASE InjectStep
  <2>1. UNCHANGED thread /\ current \in Branches
    BY <1>5, Sizes DEF InjectStep
  <2>2. PICK a \in Agents : \E from : Adds(current, a, from, {})
    BY <1>5 DEF InjectStep
  <2> QED
    BY <1>3, <2>1, <2>2
<1>6. CASE StartStep
  <2>1. PICK a \in Agents :
          LET b == worker[<<a, "router">>].branch
          IN  /\ ~ForkRefused(b, a) /\ thread'[b][a].status = "active"
              /\ stored'[b][a] = IF thread[b][a].status = "active" THEN stored[b][a]
                                 ELSE ForkedCheckpoints(b, a)
              /\ \A d \in Branches, y \in Agents : <<d, y>> # <<b, a>> =>
                   stored'[d][y] = stored[d][y] /\ thread'[d][y] = thread[d][y]
    BY <1>6 DEF StartStep
  <2>2. worker[<<a, "router">>].branch \in Branches
    BY WorkersAre DEF Workers, Lanes
  <2> QED
    BY <2>1, <2>2, ForkKeeps DEF ThreadsKept
<1>7. CASE ReconcileStep
  <2>1. \A b \in Branches, a \in Agents :
          thread'[b][a].status = "none" => thread[b][a].status = "none"
    BY <1>7 DEF ReconcileStep
  <2>2. CASE UNCHANGED stored
    BY <2>1, <2>2 DEF ThreadsKept
  <2>3. CASE \A b \in Branches, a \in Agents :
               \/ stored'[b][a] = stored[b][a]
               \/ /\ worker[<<a, "router">>].pc = "starting" /\ worker[<<a, "router">>].branch = b
                  /\ ~ForkRefused(b, a) /\ thread[b][a].status # "active"
                  /\ stored'[b][a] = ForkedCheckpoints(b, a)
    BY <2>1, <2>3, ForkKeeps DEF ThreadsKept
  <2> QED
    BY <1>7, <2>2, <2>3 DEF ReconcileStep
<1> QED
  BY <1>1, <1>2, <1>4, <1>5, <1>6, <1>7
  DEF StepKinds, ControlStep, ReadStep, SpeakStep, SettleStep

LEMMA FrontiersStayStored ==
  ASSUME TypeInv, ThreadsKept, FrontiersStored, NEW f, UNCHANGED frontiers \/ Recorded(f),
         UNCHANGED frontiers \/ f.checkpoint \in stored'[f.branch][f.agent]
  PROVE  FrontiersStored'
<1>1. \A k \in 1 .. Len(frontiers) :
        frontiers[k].checkpoint \in stored'[frontiers[k].branch][frontiers[k].agent]
  BY FrontiersAre DEF FrontiersStored, ThreadsKept
<1>2. CASE UNCHANGED frontiers
  BY <1>1, <1>2 DEF FrontiersStored
<1>3. CASE ~UNCHANGED frontiers
  <2>1. /\ f.checkpoint \in stored'[f.branch][f.agent]
        /\ \A k \in 1 .. Len(frontiers') :
             frontiers'[k] = f \/ \E j \in 1 .. Len(frontiers) : frontiers'[k] = frontiers[j]
    BY <1>3 DEF Recorded
  <2> QED
    BY <1>1, <2>1 DEF FrontiersStored
<1> QED
  BY <1>2, <1>3

\* Where a step records a frontier, what it says is in the thread.
LEMMA RecordedAreStored ==
  ASSUME TypeInv, RepliesInv, ThreadsKept, FrontiersStored, StepKinds
  PROVE  FrontiersStored'
<1>1. CASE UNCHANGED frontiers
  BY <1>1, FrontiersStayStored
<1>2. CASE SpeakStep /\ ~UNCHANGED frontiers
  <2>1. PICK b \in Branches, w \in Workers :
          /\ stored[b][w[1]] # {} /\ UNCHANGED stored
          /\ Recorded([event |-> Len(events) + 1, agent |-> w[1], branch |-> b, thread |-> b,
                       checkpoint |-> LatestCheckpoint(b, w[1]), run |-> worker[w].run,
                       usable |-> TRUE])
    BY <1>2 DEF SpeakStep
  <2> DEFINE f == [event |-> Len(events) + 1, agent |-> w[1], branch |-> b, thread |-> b,
                   checkpoint |-> LatestCheckpoint(b, w[1]), run |-> worker[w].run,
                   usable |-> TRUE]
  <2>2. LatestCheckpoint(b, w[1]) \in stored[b][w[1]]
    <3>1. w[1] \in Agents
      BY WorkersAre
    <3>2. /\ stored[b][w[1]] \in SUBSET (1 .. Len(saved))
          /\ LatestCheckpoint(b, w[1]) \in stored[b][w[1]] \union {NoCheckpoint}
          /\ \A c \in stored[b][w[1]] : c <= LatestCheckpoint(b, w[1])
      BY <3>1, ThreadsAre, LatestIs
    <3> QED
      BY <2>1, <3>2 DEF NoCheckpoint
  <2>3. f.checkpoint \in stored'[f.branch][f.agent] /\ Recorded(f)
    BY <2>1, <2>2
  <2> HIDE DEF f
  <2> QED
    BY <2>3, FrontiersStayStored
<1>3. CASE SettleStep /\ ~UNCHANGED frontiers
  <2>1. PICK r, status :
          /\ r \in 1 .. Len(runs) /\ UNCHANGED stored
          /\ LatestCheckpoint(runs[r].branch, runs[r].agent) # NoCheckpoint
          /\ Recorded(TerminalRecord(r, status))
    BY <1>3, WorkersAre DEF SettleStep, AtWork
  <2> DEFINE f == TerminalRecord(r, status)
  <2>2. f.checkpoint \in stored'[f.branch][f.agent] /\ Recorded(f)
    BY <2>1, RunsAre, LatestIs DEF TerminalRecord
  <2> HIDE DEF f
  <2> QED
    BY <2>2, FrontiersStayStored
<1> QED
  BY <1>1, <1>2, <1>3
  DEF StepKinds, ControlStep, ReadStep, CreateStep, WriteStep, InjectStep, StartStep, ReconcileStep

LEMMA ThreadsStep ==
  ASSUME TypeInv, RepliesInv, ThreadsInv, [Next]_vars
  PROVE  ThreadsInv'
<1>0. StepKinds /\ ThreadsKept
  BY StepIs, ThreadsDoKeep
<1>1. FrontiersStored'
  BY <1>0, RecordedAreStored DEF ThreadsInv
<1>2. \A w \in Workers : worker[w].branch \in Branches /\ w[1] \in Agents
  BY WorkersAre
<1>3. ASSUME \A w \in Workers : AtWork(w)' => AtWork(w) /\ worker'[w].branch = worker[w].branch
      PROVE  WorkersHaveThreads'
  BY <1>0, <1>2, <1>3 DEF ThreadsInv, WorkersHaveThreads, ThreadsKept
<1>4. ASSUME Len(branches') = Len(branches),
             \A b \in Branches, a \in Agents :
               thread'[b][a].status = "none" /\ thread[b][a].status = "none" => stored'[b][a] = stored[b][a]
      PROVE  UnusedThreads'
  <2>1. Branches' = Branches
    BY <1>4 DEF Branches
  <2> QED
    BY <1>0, <1>4, <2>1 DEF ThreadsInv, UnusedThreads, ThreadsKept
<1>5. CASE ControlStep
  BY <1>1, <1>3, <1>4, <1>5 DEF ThreadsInv, ControlStep, AtWork
<1>6. CASE ReadStep
  <2>1. WorkersHaveThreads'
    BY <1>3, <1>6 DEF ReadStep, AtWork, Becomes
  <2>2. UnusedThreads'
    BY <1>4, <1>6 DEF ReadStep
  <2> QED
    BY <1>1, <2>1, <2>2 DEF ThreadsInv
<1>7. CASE SpeakStep
  <2>1. WorkersHaveThreads'
    <3>1. UNCHANGED worker \/ \E w \in Workers : Becomes(w, IdleWorker)
      BY <1>7 DEF SpeakStep
    <3> QED
      BY <1>3, <3>1 DEF AtWork, Becomes, IdleWorker
  <2>2. UnusedThreads'
    BY <1>4, <1>7 DEF SpeakStep
  <2> QED
    BY <1>1, <2>1, <2>2 DEF ThreadsInv
<1>8. CASE CreateStep
  <2>1. WorkersHaveThreads'
    BY <1>3, <1>8 DEF CreateStep, AtWork
  <2>2. UnusedThreads'
    <3>1. Branches' = Branches \union {Len(branches) + 1}
      BY <1>8, Sizes DEF CreateStep, Branches
    <3>2. \A a \in Agents : stored'[Len(branches) + 1][a] = {}
      BY <1>8 DEF CreateStep
    <3>3. \A b \in Branches : thread'[b] = thread[b] /\ stored'[b] = stored[b]
      BY <1>8 DEF CreateStep
    <3> QED
      BY <3>1, <3>2, <3>3 DEF ThreadsInv, UnusedThreads
  <2> QED
    BY <1>1, <2>1, <2>2 DEF ThreadsInv
<1>9. ASSUME NEW b \in Branches, NEW a \in Agents, NEW from, NEW given, Adds(b, a, from, given),
             UNCHANGED <<branches, thread>>, thread[b][a].status # "none"
      PROVE  UnusedThreads'
  BY <1>4, <1>9 DEF Adds
<1>10. CASE WriteStep
  <2>1. UNCHANGED <<branches, thread>>
    BY <1>10 DEF WriteStep
  <2>2. PICK b \in Branches, a \in Agents :
          \/ UNCHANGED worker /\ \E from \in stored[b][a] : Adds(b, a, from, {})
          \/ \E w \in Workers :
               /\ w[1] = a /\ worker[w].branch = b /\ worker[w].pc = "invoking"
               /\ Becomes(w, [worker[w] EXCEPT !.pc = "completing"])
               /\ \E from, given : Adds(b, a, from, given)
    BY <1>10 DEF WriteStep
  <2>3. \E from, given : Adds(b, a, from, given)
    BY <2>2
  <2>4. thread[b][a].status # "none"
    BY <2>2 DEF ThreadsInv, UnusedThreads, WorkersHaveThreads, AtWork
  <2>5. UnusedThreads'
    BY <1>9, <2>1, <2>3, <2>4
  <2>6. WorkersHaveThreads'
    <3>1. \A w \in Workers : LET x == [worker[w] EXCEPT !.pc = "completing"]
                             IN  x.branch = worker[w].branch
      BY WorkersAre DEF WorkerSet
    <3> QED
      BY <1>3, <2>2, <3>1 DEF AtWork, Becomes
  <2> QED
    BY <1>1, <2>5, <2>6 DEF ThreadsInv
<1>11. ASSUME NEW w \in Workers, NEW x, Starts(w, x), x.branch \in Branches,
              thread'[x.branch][w[1]].status # "none"
       PROVE  WorkersHaveThreads'
  BY <1>0, <1>2, <1>11 DEF Starts, Becomes, AtWork, ThreadsInv, WorkersHaveThreads, ThreadsKept
<1>12. CASE InjectStep
  <2>1. PICK a, x :
          /\ a \in Agents
          /\ Starts(<<a, "inject">>, x) /\ x.branch = current
          /\ \E k \in UsableFrontiers(current, a) : Adds(current, a, frontiers[k].checkpoint, {})
    BY <1>12 DEF InjectStep
  <2>2. current \in Branches /\ <<a, "inject">> \in Workers /\ <<a, "inject">>[1] = a
    BY <2>1, Sizes DEF Workers, Lanes
  <2>3. thread[current][a].status # "none"
    BY <2>1, <2>2 DEF ThreadsInv, UnusedThreads, FrontiersStored, UsableFrontiers, FrontiersOf
  <2>4. UNCHANGED <<branches, thread>>
    BY <1>12 DEF InjectStep
  <2>5. UnusedThreads'
    BY <1>9, <2>1, <2>2, <2>3, <2>4
  <2>6. WorkersHaveThreads'
    BY <1>11, <2>1, <2>2, <2>3, <2>4
  <2> QED
    BY <1>1, <2>5, <2>6 DEF ThreadsInv
<1>13. CASE StartStep
  <2>1. PICK a \in Agents :
          LET w == <<a, "router">>
              b == worker[w].branch
          IN  /\ \E x : Starts(w, x) /\ x.branch = b
              /\ thread'[b][a].status = "active"
              /\ \A d \in Branches, y \in Agents : <<d, y>> # <<b, a>> =>
                   stored'[d][y] = stored[d][y] /\ thread'[d][y] = thread[d][y]
    BY <1>13 DEF StartStep
  <2>2. /\ <<a, "router">> \in Workers /\ <<a, "router">>[1] = a
        /\ worker[<<a, "router">>].branch \in Branches
    BY <1>2 DEF Workers, Lanes
  <2>3. WorkersHaveThreads'
    BY <1>11, <2>1, <2>2
  <2>4. UnusedThreads'
    BY <1>4, <1>13, <2>1 DEF StartStep
  <2> QED
    BY <1>1, <2>3, <2>4 DEF ThreadsInv
<1>14. CASE SettleStep
  <2>1. WorkersHaveThreads'
    <3>1. \A w \in Workers : LET x == [worker[w] EXCEPT !.pc = "replying"]
                             IN  x.pc = "replying"
      BY WorkersAre DEF WorkerSet
    <3>2. PICK w, x :
            w \in Workers /\ Becomes(w, x) /\ (x = IdleWorker \/ x = [worker[w] EXCEPT !.pc = "replying"])
      BY <1>14 DEF SettleStep
    <3>3. x.pc \in {"idle", "replying"}
      <4>1. CASE x = IdleWorker
        BY <4>1 DEF IdleWorker
      <4>2. CASE x = [worker[w] EXCEPT !.pc = "replying"]
        BY <3>1, <4>2
      <4> QED
        BY <3>2, <4>1, <4>2
    <3>4. /\ worker'[w].pc \in {"idle", "replying"}
          /\ \A v \in Workers : v # w => worker'[v] = worker[v]
      BY <3>2, <3>3 DEF Becomes
    <3> QED
      BY <1>3, <3>4 DEF AtWork
  <2>2. UnusedThreads'
    BY <1>4, <1>14 DEF SettleStep
  <2> QED
    BY <1>1, <2>1, <2>2 DEF ThreadsInv
<1>15. CASE ReconcileStep
  <2>1. WorkersHaveThreads'
    BY <1>3, <1>15 DEF ReconcileStep, AtWork, IdleWorker
  <2>2. UnusedThreads'
    BY <1>4, <1>15 DEF ReconcileStep
  <2> QED
    BY <1>1, <2>1, <2>2 DEF ThreadsInv
<1> QED
  BY <1>0, <1>5, <1>6, <1>7, <1>8, <1>10, <1>12, <1>13, <1>14, <1>15 DEF StepKinds

LEMMA InitThreads == Init => ThreadsInv
<1> SUFFICES ASSUME Init PROVE ThreadsInv
  OBVIOUS
<1>1. /\ frontiers = <<>> /\ branches = <<>>
      /\ \A a \in Agents : stored[Main][a] = {}
      /\ \A w \in Workers : worker[w] = IdleWorker
  BY DEF Init
<1>2. 1 .. Len(frontiers) = {} /\ Branches = {Main}
  BY <1>1 DEF Branches, Main
<1> QED
  BY <1>1, <1>2 DEF ThreadsInv, UnusedThreads, WorkersHaveThreads, FrontiersStored, AtWork, IdleWorker

LEMMA ThreadsInvariant == Spec => []ThreadsInv
<1>1. TypeInv /\ RepliesInv /\ ThreadsInv /\ [Next]_vars => ThreadsInv'
  BY ThreadsStep
<1> QED
  BY <1>1, InitThreads, TypeInvariant, RepliesInvariant, PTL DEF Spec

\* A thread that was never lost is taken up again, or is empty and can be forked to: whatever
\* runs, replays and prompts wrote, only a thread whose first run was lost refuses one.
THEOREM RefusalNeedsOrphanCorrect == Spec => []RefusalNeedsOrphan
<1>1. TypeInv /\ ThreadsInv => RefusalNeedsOrphan
  <2> SUFFICES ASSUME TypeInv, ThreadsInv, NEW b \in Branches, NEW a \in Agents, ForkRefused(b, a)
               PROVE  thread[b][a].status = "orphaned"
    BY DEF RefusalNeedsOrphan
  <2>1. thread[b][a].status \in {"none", "active", "orphaned"}
    BY ThreadsAre DEF ThreadSet
  <2> QED
    BY <2>1 DEF ForkRefused, ThreadsInv, UnusedThreads
<1> QED
  BY <1>1, TypeInvariant, ThreadsInvariant, PTL

----------------------------------------------------------------------------
(* What a branch shows.                                                     *)

ShownEquations ==
  /\ Shown \in [Branches -> SUBSET (1 .. Len(events))]
  /\ Shown[Main] = Own(Main)
  /\ \A b \in 1 .. Len(branches) :
       Shown[b] = Own(b) \union (Inherits(b) \intersect Shown[branches[b].parent])

AncestorsEquations ==
  /\ Ancestors[Main] = {Main}
  /\ \A b \in 1 .. Len(branches) : Ancestors[b] = {b} \union Ancestors[branches[b].parent]

OriginsTyped ==
  \A b \in 1 .. Len(branches) : /\ branches[b].originCheckpoint \in Checkpoints
                                /\ branches[b].originSeq \in Events \union {NoLimit}

\* ShownIs, AncestorsIs and BranchesAre, of the state after a step.
LEMMA EquationsHold == TypeInv' => ShownEquations' /\ AncestorsEquations' /\ OriginsTyped'
<1>1. TypeInv => ShownEquations /\ AncestorsEquations /\ OriginsTyped
  BY ShownIs, AncestorsIs, BranchesAre DEF ShownEquations, AncestorsEquations, OriginsTyped
<1> QED
  BY <1>1, PTL

LEMMA ShownNext ==
  TypeInv' => /\ Shown' \in [Branches' -> SUBSET (1 .. Len(events'))]
              /\ Shown'[Main] = Own(Main)'
              /\ \A b \in 1 .. Len(branches') :
                   Shown'[b] = Own(b)' \union (Inherits(b)' \intersect Shown'[branches'[b].parent])
BY EquationsHold DEF ShownEquations

\* A branch comes to show new events alone, and shows all it did.
LEMMA ShownGrows ==
  ASSUME TypeInv, TypeInv', StoresKept
  PROVE  \A b \in Branches : Shown'[b] \intersect 1 .. Len(events) = Shown[b]
<1> DEFINE n == Len(events)
           T == {b \in Branches : Shown'[b] \intersect 1 .. n = Shown[b]}
<1>0. /\ n \in Nat /\ Branches \subseteq Branches' /\ Len(events') \in Nat /\ n <= Len(events')
      /\ \A b \in 1 .. Len(branches) : b \in 1 .. Len(branches') /\ b # Main /\ b \in Branches
      /\ Main \in Branches
  <2>1. Len(events') \in Nat /\ Len(branches') \in Nat
    BY DEF TypeInv, TypeOK
  <2> QED
    BY <2>1, Sizes, SmallIds DEF StoresKept, BranchesKept, EventsKept, Branches, Main
<1>1. ASSUME NEW b \in Branches PROVE Own(b)' \intersect 1 .. n = Own(b)
  BY <1>0 DEF Own, StoresKept, EventsKept
<1>2. ASSUME NEW b \in 1 .. Len(branches) PROVE Inherits(b)' \intersect 1 .. n = Inherits(b)
  BY <1>0 DEF Inherits, StoresKept, BranchesKept
<1>3. Main \in T
  BY <1>0, <1>1, ShownIs, ShownNext
<1>4. ASSUME NEW b \in 1 .. Len(branches), branches[b].parent \in T
      PROVE  b \in T
  <2>1. /\ Shown[b] = Own(b) \union (Inherits(b) \intersect Shown[branches[b].parent])
        /\ Shown'[b] = Own(b)' \union (Inherits(b)' \intersect Shown'[branches[b].parent])
    BY <1>0, ShownIs, ShownNext DEF StoresKept, BranchesKept
  <2> QED
    BY <1>0, <1>1, <1>2, <1>4, <2>1
<1>5. Branches \subseteq T
  <2> HIDE DEF T
  <2> QED
    BY <1>3, <1>4, BranchInduction
<1> QED
  BY <1>5

VisibleGrows ==
  \A b \in Branches :
    /\ Visible(b) \subseteq Visible(b)' /\ Visible(b)' \intersect 1 .. Len(events) = Visible(b)
    /\ \A i \in Visible(b)' : i \in Visible(b) \/ i > Len(events)
    /\ b # Main /\ branches[b].originSeq # NoLimit =>
         \A i \in Visible(b)' : i \in Visible(b) \/ events'[i].branch = b

LEMMA VisibleDoesGrow ==
  ASSUME TypeInv, TypeInv', StoresKept
  PROVE  VisibleGrows
<1> DEFINE n == Len(events)
<1>0. n \in Nat /\ Len(events') \in Nat /\ Len(branches') \in Nat
  BY Sizes DEF TypeInv, TypeOK
<1>1. ASSUME NEW b \in Branches
      PROVE  /\ Shown[b] \subseteq Shown'[b] /\ Shown'[b] \intersect 1 .. n = Shown[b]
             /\ \A i \in Shown'[b] : i \in 1 .. Len(events') /\ (i \in Shown[b] \/ i > n)
  <2>1. Shown'[b] \intersect 1 .. n = Shown[b] /\ Shown[b] \in SUBSET (1 .. n)
    BY ShownGrows, ShownIs
  <2>2. Shown'[b] \in SUBSET (1 .. Len(events'))
    <3>1. b \in Branches'
      BY Sizes DEF StoresKept, BranchesKept, Branches, TypeInv, TypeOK
    <3> QED
      BY <3>1, ShownNext
  <2> QED
    BY <1>0, <2>1, <2>2
<1>2. ASSUME NEW b \in Branches \ {Main}, branches[b].originSeq # NoLimit,
             NEW i \in Shown'[b], i > n
      PROVE  events'[i].branch = b
  <2>1. b \in 1 .. Len(branches) /\ b \in 1 .. Len(branches')
    <3>1. Len(branches) <= Len(branches') /\ b \in 0 .. Len(branches) /\ b # 0 /\ Len(branches) \in Nat
      BY Sizes DEF StoresKept, BranchesKept, Main
    <3> QED
      BY <1>0, <3>1
  <2>2. branches'[b].originSeq = branches[b].originSeq /\ branches[b].originSeq \in 0 .. n
    BY <1>2, <2>1, BranchesAre DEF StoresKept, BranchesKept, Events
  <2>3. i \in Own(b)' \/ i \in Inherits(b)'
    BY <1>2, <2>1, ShownNext
  <2>4. i \notin Inherits(b)'
    BY <1>0, <1>1, <1>2, <2>2 DEF Inherits
  <2> QED
    BY <2>3, <2>4 DEF Own
<1> QED
  BY <1>1, <1>2 DEF VisibleGrows, Visible

\* A branch that shows an event shows all that the event's own branch showed before it.
LEMMA ShownBefore ==
  ASSUME TypeInv
  PROVE  \A b \in Branches : \A i \in Visible(b) :
           /\ i \in 1 .. Len(events) /\ events[i].branch \in Branches
           /\ i \in Visible(events[i].branch)
           /\ \A j \in Visible(events[i].branch) : j <= i => j \in Visible(b)
<1> DEFINE Closed(b) == \A i \in Shown[b] : \A j \in Shown[events[i].branch] : j <= i => j \in Shown[b]
           T == {b \in Branches : Closed(b)}
<1>0. /\ Main \in Branches /\ Len(events) \in Nat
      /\ \A b \in 1 .. Len(branches) : b \in Branches /\ b # Main
      /\ \A b \in Branches : Shown[b] \in SUBSET (1 .. Len(events))
      /\ \A b \in Branches : b = Main \/ b \in 1 .. Len(branches)
  BY Sizes, SmallIds, ShownIs DEF Main
<1>1. \A b \in Branches : \A i \in Own(b) : events[i].branch = b
  BY DEF Own
<1>2. Main \in T
  BY <1>0, <1>1, ShownIs
<1>3. ASSUME NEW b \in 1 .. Len(branches), branches[b].parent \in T
      PROVE  b \in T
  <2>1. Shown[b] = Own(b) \union (Inherits(b) \intersect Shown[branches[b].parent])
    BY ShownIs
  <2>2. ASSUME NEW i \in Shown[b], NEW j \in Shown[events[i].branch], j <= i
        PROVE  j \in Shown[b]
    <3>1. CASE i \in Own(b)
      BY <1>0, <1>1, <2>2, <3>1
    <3>2. CASE i \in Inherits(b) \intersect Shown[branches[b].parent]
      <4>1. j \in Shown[branches[b].parent] /\ branches[b].parent \in Branches
        BY <1>3, <2>2, <3>2
      <4>2. j \in 1 .. Len(events) /\ i \in 1 .. Len(events)
        BY <1>0, <3>2, <4>1
      <4>3. branches[b].originSeq \in 0 .. Len(events) \union {NoLimit}
        BY BranchesAre DEF Events
      <4>4. j \in Inherits(b)
        BY <1>0, <2>2, <3>2, <4>2, <4>3 DEF Inherits
      <4> QED
        BY <2>1, <4>1, <4>4
    <3> QED
      BY <2>1, <2>2, <3>1, <3>2
  <2> QED
    BY <1>0, <2>2
<1>4. Branches \subseteq T
  <2> HIDE DEF T
  <2> QED
    BY <1>2, <1>3, BranchInduction
<1>5. ASSUME NEW b \in Branches, NEW i \in Shown[b]
      PROVE  /\ i \in 1 .. Len(events) /\ events[i].branch \in Branches
             /\ i \in Shown[events[i].branch]
  <2>1. i \in 1 .. Len(events)
    BY <1>0
  <2>2. events[i].branch \in Branches /\ i \in Own(events[i].branch)
    BY <2>1, EventsAre DEF Own
  <2> QED
    BY <1>0, <2>1, <2>2, ShownIs
<1> QED
  BY <1>4, <1>5 DEF Visible

\* Whatever happens in the branches around it, a branch that starts at an event shows what it
\* was made with and what is written in it (_event_visible_in_branch_id): sequence numbers
\* are given out once and in order, and a branch's parent and origin never change.
THEOREM BranchHistoryKeptCorrect == Spec => BranchHistoryKept
<1>1. TypeInv /\ [Next]_vars =>
        [\A b \in Branches \ {Main} :
           branches[b].originSeq # NoLimit =>
             /\ Visible(b) \subseteq Visible(b)'
             /\ \A i \in Visible(b)' : i \in Visible(b) \/ events'[i].branch = b]_vars
  BY TypedStep, VisibleDoesGrow DEF StepTyped, VisibleGrows
<1> QED
  BY <1>1, TypeInvariant, PTL DEF Spec, BranchHistoryKept

----------------------------------------------------------------------------
(* What the agents remember.                                                *)

\* What an agent remembers in a branch, and what the fork of its thread would give it there.
Remembered(b, a) == {i \in Events : \E cp \in stored[b][a] : i \in MemoryOf(cp)}
ForkedMemory(b, a) == {i \in Events : \E cp \in ForkedCheckpoints(b, a) : i \in MemoryOf(cp)}

HistoryShown ==
  \A b \in Branches, a \in Agents : Overtaken(a) \/ Remembered(b, a) \subseteq Visible(b)

MemoryGrows == \A c \in 1 .. Len(saved) : MemoryOf(saved[c].parent) \subseteq MemoryOf(c)

\* A frontier a branch may start from remembers nothing later than its event.
FrontiersCover ==
  \A k \in 1 .. Len(frontiers) : frontiers[k].usable =>
    \/ Overtaken(frontiers[k].agent)
    \/ MemoryOf(frontiers[k].checkpoint) \subseteq 0 .. frontiers[k].event

\* The event or the checkpoint a branch starts from lies within what it inherits.
OriginWithin(x) ==
  /\ x.originEvent # NoEvent => x.originSeq # NoLimit /\ x.originEvent <= x.originSeq
  /\ x.originCheckpoint # NoCheckpoint => \A i \in MemoryOf(x.originCheckpoint) :
       x.originSeq # NoLimit /\ i <= x.originSeq

Origins == \A b \in 1 .. Len(branches) : OriginWithin(branches[b])

\* The frontier before an event is one its branch shows, of an edit still under way too.
Befores ==
  /\ \A i \in 1 .. Len(events) :
       LET before == events[i].before
       IN  before # NoEvent => before \in Visible(events[i].branch) /\ before < i
  /\ call.pc \in {"edited", "editing"} =>
       LET before == events[call.event].before
       IN  before # NoEvent => before \in Visible(call.branch)

\* A prompt that is injected reads no message, and continues from a checkpoint of its thread.
Prompts ==
  \A a \in Agents :
    LET w == <<a, "inject">>
    IN  worker[w].pc = "invoking" =>
          /\ worker[w].from \in stored[worker[w].branch][a]
          /\ worker[w].low = worker[w].snapshot

\* What a run of the router reads up to covers what its agent remembers in the branch, and
\* until it has its thread, what the branch inherits.
Readings ==
  \A a \in Agents :
    LET w == <<a, "router">>
        b == worker[w].branch
    IN  /\ worker[w].pc \in {"starting", "invoking", "completing"} =>
             Overtaken(a) \/ Remembered(b, a) \subseteq 0 .. worker[w].snapshot
        /\ worker[w].pc = "starting" /\ b # Main =>
             \A i \in Visible(b) : i <= branches[b].originSeq => i <= worker[w].snapshot

MemoryInv ==
  HistoryShown /\ MemoryGrows /\ FrontiersCover /\ Origins /\ Befores /\ Prompts /\ Readings

LEMMA MemoryIs ==
  ASSUME TypeInv
  PROVE  \A c \in Checkpoints : MemoryOf(c) \in SUBSET Events
BY SavedAre, Sizes DEF MemoryOf, Checkpoints, NoCheckpoint

LEMMA MemoryKept ==
  ASSUME TypeInv, StoresKept
  PROVE  \A c \in Checkpoints : MemoryOf(c)' = MemoryOf(c)
BY Sizes DEF MemoryOf, Checkpoints, NoCheckpoint, StoresKept, SavedKept

LEMMA OvertakenStays ==
  ASSUME TypeInv, TypeInv', StoresKept, FinalKept, RunStatuses, NEW a \in Agents, Overtaken(a)
  PROVE  Overtaken(a)'
<1>1. PICK r \in 1 .. Len(runs), c \in Checkpoints :
        /\ runs[r].agent = a /\ runs[r].lane = "inject" /\ runs[r].status = "empty"
        /\ c = runs[r].stable /\ ~(MemoryOf(c) \subseteq 0 .. runs[r].snapshot)
  BY RunsAre DEF Overtaken
<1>2. runs'[r] = runs[r]
  BY <1>1 DEF FinalKept, RunStatuses
<1>3. r \in 1 .. Len(runs')
  <2>1. Len(runs') \in Nat /\ Len(runs) \in Nat /\ Len(runs) <= Len(runs')
    BY Sizes DEF TypeInv, TypeOK, StoresKept, RunsKept
  <2> QED
    BY <2>1
<1>4. MemoryOf(c)' = MemoryOf(c)
  BY MemoryKept
<1> QED
  BY <1>1, <1>2, <1>3, <1>4 DEF Overtaken, MemoryOf

\* What a checkpoint goes back to remembers no more than it does.
LEMMA ChainRemembers ==
  ASSUME TypeInv, MemoryGrows
  PROVE  \A c \in Checkpoints : \A d \in Chain[c] : MemoryOf(d) \subseteq MemoryOf(c)
<1> DEFINE T == {c \in Checkpoints : \A d \in Chain[c] : MemoryOf(d) \subseteq MemoryOf(c)}
<1>0. Checkpoints = 0 .. Len(saved) /\ Len(saved) \in Nat
  BY Sizes DEF Checkpoints
<1>1. NoCheckpoint \in T
  BY <1>0, ChainIs DEF NoCheckpoint
<1>2. ASSUME NEW c \in 1 .. Len(saved), saved[c].parent \in T
      PROVE  c \in T
  <2>1. c \in Checkpoints /\ Chain[c] = {c} \union Chain[saved[c].parent]
    BY <1>0, ChainIs
  <2>2. MemoryOf(saved[c].parent) \subseteq MemoryOf(c)
    BY DEF MemoryGrows
  <2> QED
    BY <1>2, <2>1, <2>2
<1>3. Checkpoints \subseteq T
  <2> HIDE DEF T
  <2> QED
    BY <1>1, <1>2, CheckpointInduction
<1> QED
  BY <1>3

\* A fork gives an agent what the branch shows, of what it inherits.
LEMMA ForkGives ==
  ASSUME TypeInv, ThreadsInv, MemoryInv, NEW b \in Branches, NEW a \in Agents, Forks(b, a),
         ~Overtaken(a)
  PROVE  \A i \in ForkedMemory(b, a) :
           /\ b # Main /\ i \in Visible(b)
           /\ branches[b].originSeq # NoLimit /\ i <= branches[b].originSeq
<1> DEFINE k == ForkSource(b, a)
           c == frontiers[k].checkpoint
           p == branches[b].parent
<1>1. /\ b # Main /\ k \in 1 .. Len(frontiers) /\ frontiers[k].agent = a /\ frontiers[k].branch = p
      /\ frontiers[k].usable
      /\ \/ frontiers[k].event = branches[b].originEvent
         \/ c = branches[b].originCheckpoint /\ branches[b].originCheckpoint # NoCheckpoint
  BY ForkSourceIs
<1>2. /\ b \in 1 .. Len(branches) /\ p \in Branches
      /\ branches[b].originSeq \in 0 .. Len(events) \union {NoLimit}
      /\ branches[b].originEvent \in 0 .. Len(events)
  BY <1>1, Sizes, BranchesAre DEF Main, Events
<1>3. /\ c \in stored[p][a] /\ c \in Checkpoints /\ frontiers[k].event \in 1 .. Len(events)
      /\ MemoryOf(c) \subseteq 0 .. frontiers[k].event
  <2> HIDE DEF k
  <2>1. c \in Checkpoints /\ frontiers[k].event \in 1 .. Len(events)
    BY <1>1, FrontiersAre, Sizes DEF Checkpoints
  <2>2. c \in stored[p][a]
    BY <1>1 DEF ThreadsInv, FrontiersStored
  <2>3. FrontiersCover
    BY DEF MemoryInv
  <2>4. MemoryOf(c) \subseteq 0 .. frontiers[k].event
    BY <1>1, <2>3 DEF FrontiersCover
  <2> QED
    BY <2>1, <2>2, <2>4
<1>4. ForkedCheckpoints(b, a) = Chain[c]
  BY DEF ForkedCheckpoints
<1>5. OriginWithin(branches[b])
  BY <1>2 DEF MemoryInv, Origins
<1> HIDE DEF k, c, p
<1>6. ASSUME NEW i \in ForkedMemory(b, a)
      PROVE  i \in MemoryOf(c) /\ i \in Visible(p) /\ i \in 1 .. Len(events)
  <2>1. PICK d \in Chain[c] : i \in MemoryOf(d)
    BY <1>4, <1>6 DEF ForkedMemory
  <2>2. i \in MemoryOf(c) /\ i \in Events
    BY <1>3, <1>6, <2>1, ChainRemembers DEF MemoryInv, ForkedMemory
  <2>3. i \in Visible(p)
    BY <1>2, <1>3, <2>2 DEF MemoryInv, HistoryShown, Remembered
  <2> QED
    BY <1>2, <2>2, <2>3, LatestIs
<1>7. ASSUME NEW i \in ForkedMemory(b, a)
      PROVE  branches[b].originSeq # NoLimit /\ i <= branches[b].originSeq
  <2>1. CASE frontiers[k].event = branches[b].originEvent
    BY <1>2, <1>3, <1>5, <1>6, <1>7, <2>1, Sizes DEF OriginWithin, NoEvent, NoLimit
  <2>2. CASE c = branches[b].originCheckpoint /\ branches[b].originCheckpoint # NoCheckpoint
    BY <1>5, <1>6, <1>7, <2>2 DEF OriginWithin
  <2> QED
    BY <1>1, <2>1, <2>2 DEF c
<1>8. ASSUME NEW i \in ForkedMemory(b, a)
      PROVE  i \in Visible(b)
  <2>1. i \in Inherits(b)
    BY <1>6, <1>7, <1>8 DEF Inherits
  <2> QED
    BY <1>2, <1>6, <1>8, <2>1, ShownIs DEF Visible, p
<1> QED
  BY <1>1, <1>7, <1>8

LEMMA LessRemembered ==
  ASSUME TypeInv, StoresKept, NEW b \in Branches, NEW a \in Agents,
         stored'[b][a] \subseteq stored[b][a]
  PROVE  Remembered(b, a)' \subseteq Remembered(b, a)
<1>1. \A c \in stored[b][a] : MemoryOf(c)' = MemoryOf(c) /\ MemoryOf(c) \in SUBSET Events
  BY ThreadsAre, Sizes, MemoryKept, MemoryIs DEF Checkpoints
<1> QED
  BY <1>1 DEF Remembered

LEMMA ForkRemembered ==
  ASSUME TypeInv, StoresKept, NEW b \in Branches, NEW a \in Agents,
         stored'[b][a] = ForkedCheckpoints(b, a)
  PROVE  Remembered(b, a)' \subseteq ForkedMemory(b, a)
<1>1. \A c \in ForkedCheckpoints(b, a) : MemoryOf(c)' = MemoryOf(c) /\ MemoryOf(c) \in SUBSET Events
  BY ForkedCheckpointsType, Sizes, MemoryKept, MemoryIs DEF Checkpoints
<1> QED
  BY <1>1 DEF Remembered, ForkedMemory

LEMMA AddsMemory ==
  ASSUME TypeInv, TypeInv', StoresKept, NEW b \in Branches, NEW a \in Agents,
         NEW from \in stored[b][a] \union {NoCheckpoint}, NEW given, Adds(b, a, from, given)
  PROVE  /\ Remembered(b, a)' \subseteq Remembered(b, a) \union given
         /\ \A d \in Branches, y \in Agents : <<d, y>> # <<b, a>> =>
              Remembered(d, y)' \subseteq Remembered(d, y)
<1>1. PICK new \in Nat \ {0} :
        /\ stored'[b][a] = stored[b][a] \union {new}
        /\ saved'[new].memory = MemoryOf(from) \union given
        /\ \A d \in Branches, y \in Agents : <<d, y>> # <<b, a>> => stored'[d][y] = stored[d][y]
  BY Sizes DEF Adds
<1>2. Len(saved) \in Nat /\ stored[b][a] \in SUBSET (1 .. Len(saved)) /\ new # NoCheckpoint
  BY Sizes, ThreadsAre DEF NoCheckpoint
<1>3. MemoryOf(new)' = MemoryOf(from) \union given
  BY <1>1, <1>2 DEF MemoryOf
<1>4. \A c \in stored[b][a] : MemoryOf(c)' = MemoryOf(c) /\ MemoryOf(c) \in SUBSET Events
  BY <1>2, MemoryKept, MemoryIs DEF Checkpoints
<1>5. MemoryOf(from) \subseteq Remembered(b, a)
  BY <1>4 DEF Remembered, MemoryOf
<1>6. ASSUME NEW i \in Remembered(b, a)' PROVE i \in Remembered(b, a) \union given
  <2>1. PICK c \in stored'[b][a] : i \in MemoryOf(c)'
    BY <1>6 DEF Remembered
  <2>2. CASE c = new
    BY <1>3, <1>5, <2>1, <2>2
  <2>3. CASE c \in stored[b][a]
    BY <1>4, <2>1, <2>3 DEF Remembered
  <2> QED
    BY <1>1, <2>1, <2>2, <2>3
<1>7. ASSUME NEW d \in Branches, NEW y \in Agents, <<d, y>> # <<b, a>>
      PROVE  Remembered(d, y)' \subseteq Remembered(d, y)
  BY <1>1, <1>7, LessRemembered
<1> QED
  BY <1>6, <1>7

\* An agent comes to remember what its run is given to read, or what its thread is forked with.
Recalls(b, a) ==
  LET w == <<a, "router">>
  IN  \/ Remembered(b, a)' \subseteq Remembered(b, a)
      \/ /\ worker[w].pc = "invoking" /\ worker[w].branch = b
         /\ Remembered(b, a)' \subseteq Remembered(b, a) \union Projected(w)
      \/ /\ worker[w].pc = "starting" /\ worker[w].branch = b /\ Forks(b, a)
         /\ Remembered(b, a)' \subseteq ForkedMemory(b, a)

LEMMA WritesRecall ==
  ASSUME TypeInv, TypeInv', StoresKept, Prompts, WriteStep
  PROVE  \A d \in Branches, y \in Agents : Recalls(d, y)
<1>1. PICK b \in Branches, a \in Agents :
        \/ \E from \in stored[b][a] : Adds(b, a, from, {})
        \/ \E w \in Workers :
             /\ w[1] = a /\ worker[w].branch = b /\ worker[w].pc = "invoking"
             /\ Adds(b, a, IF w[2] = "router" THEN LatestCheckpoint(b, a) ELSE worker[w].from,
                     Projected(w))
  BY DEF WriteStep
<1>2. CASE \E from \in stored[b][a] : Adds(b, a, from, {})
  <2>1. PICK from \in stored[b][a] : Adds(b, a, from, {})
    BY <1>2
  <2>2. \A d \in Branches, y \in Agents : Remembered(d, y)' \subseteq Remembered(d, y)
    BY <2>1, AddsMemory
  <2> QED
    BY <2>2 DEF Recalls
<1>3. ASSUME NEW w \in Workers, w[1] = a, worker[w].branch = b, worker[w].pc = "invoking",
             Adds(b, a, IF w[2] = "router" THEN LatestCheckpoint(b, a) ELSE worker[w].from,
                  Projected(w))
      PROVE  \A d \in Branches, y \in Agents : Recalls(d, y)
  <2>1. w = <<a, "router">> \/ w = <<a, "inject">>
    <3>1. PICK l \in Lanes : w = <<w[1], l>>
      BY DEF Workers
    <3>2. w = <<a, l>>
      BY <1>3, <3>1
    <3> QED
      BY <3>2 DEF Lanes
  <2>2. CASE w = <<a, "router">>
    <3>1. Adds(b, a, LatestCheckpoint(b, a), Projected(w))
      <4>1. w[2] = "router"
        BY <2>2
      <4> QED
        BY <1>3, <4>1
    <3>2. LatestCheckpoint(b, a) \in stored[b][a] \union {NoCheckpoint}
      BY LatestIs
    <3>3. /\ Remembered(b, a)' \subseteq Remembered(b, a) \union Projected(w)
          /\ \A d \in Branches, y \in Agents : <<d, y>> # <<b, a>> =>
               Remembered(d, y)' \subseteq Remembered(d, y)
      BY <3>1, <3>2, AddsMemory
    <3> QED
      BY <1>3, <2>2, <3>3 DEF Recalls
  <2>3. CASE w = <<a, "inject">>
    <3>1. worker[w].from \in stored[b][a] /\ worker[w].low = worker[w].snapshot
      BY <1>3, <2>3 DEF Prompts
    <3>2. worker[w].snapshot \in Nat /\ Visible(b) \in SUBSET (1 .. Len(events))
      BY WorkersAre, Sizes, LatestIs DEF Events
    <3>3. Projected(w) = {}
      BY <1>3, <3>1, <3>2, Sizes DEF Projected
    <3>4. Adds(b, a, worker[w].from, {})
      <4>1. w[2] = "inject"
        BY <2>3
      <4> QED
        BY <1>3, <3>3, <4>1
    <3>5. \A d \in Branches, y \in Agents : Remembered(d, y)' \subseteq Remembered(d, y)
      BY <3>1, <3>4, AddsMemory
    <3> QED
      BY <3>5 DEF Recalls
  <2> QED
    BY <2>1, <2>2, <2>3
<1> QED
  BY <1>1, <1>2, <1>3

LEMMA StartRecalls ==
  ASSUME TypeInv, TypeInv', StoresKept, StartStep
  PROVE  \A d \in Branches, y \in Agents : Recalls(d, y)
<1>1. PICK a \in Agents, b \in Branches :
        /\ worker[<<a, "router">>].pc = "starting" /\ worker[<<a, "router">>].branch = b
        /\ stored'[b][a] = IF thread[b][a].status = "active" THEN stored[b][a]
                           ELSE ForkedCheckpoints(b, a)
        /\ \A d \in Branches, y \in Agents : <<d, y>> # <<b, a>> => stored'[d][y] = stored[d][y]
  <2>1. \A a \in Agents : worker[<<a, "router">>].branch \in Branches
    BY WorkersAre DEF Workers, Lanes
  <2> QED
    BY <2>1 DEF StartStep
<1>3. ASSUME NEW d \in Branches, NEW y \in Agents, stored'[d][y] = stored[d][y]
      PROVE  Recalls(d, y)
  BY <1>3, LessRemembered DEF Recalls
<1>4. CASE thread[b][a].status = "active" \/ ~Forks(b, a)
  <2>1. stored'[b][a] = stored[b][a]
    BY <1>1, <1>4 DEF ForkedCheckpoints
  <2>2. ASSUME NEW d \in Branches, NEW y \in Agents PROVE stored'[d][y] = stored[d][y]
    BY <1>1, <2>1
  <2> QED
    BY <1>3, <2>2
<1>5. CASE thread[b][a].status # "active" /\ Forks(b, a)
  <2>1. Remembered(b, a)' \subseteq ForkedMemory(b, a)
    BY <1>1, <1>5, ForkRemembered
  <2>2. Recalls(b, a)
    BY <1>1, <1>5, <2>1 DEF Recalls
  <2> QED
    BY <1>1, <1>3, <2>2
<1> QED
  BY <1>4, <1>5

LEMMA ReconcileRecalls ==
  ASSUME TypeInv, TypeInv', StoresKept, ReconcileStep
  PROVE  \A d \in Branches, y \in Agents : Recalls(d, y)
<1>1. ASSUME NEW d \in Branches, NEW y \in Agents, stored'[d][y] = stored[d][y]
      PROVE  Recalls(d, y)
  BY <1>1, LessRemembered DEF Recalls
<1>2. CASE UNCHANGED stored
  BY <1>1, <1>2
<1>3. CASE \A b \in Branches, a \in Agents :
             \/ stored'[b][a] = stored[b][a]
             \/ /\ worker[<<a, "router">>].pc = "starting" /\ worker[<<a, "router">>].branch = b
                /\ ~ForkRefused(b, a) /\ thread[b][a].status # "active"
                /\ stored'[b][a] = ForkedCheckpoints(b, a)
  <2>1. ASSUME NEW b \in Branches, NEW a \in Agents, stored'[b][a] # stored[b][a]
        PROVE  Recalls(b, a)
    <3>1. /\ worker[<<a, "router">>].pc = "starting" /\ worker[<<a, "router">>].branch = b
          /\ stored'[b][a] = ForkedCheckpoints(b, a)
      BY <1>3, <2>1
    <3>2. Forks(b, a)
      BY <2>1, <3>1 DEF ForkedCheckpoints
    <3>3. Remembered(b, a)' \subseteq ForkedMemory(b, a)
      BY <3>1, ForkRemembered
    <3> QED
      BY <3>1, <3>2, <3>3 DEF Recalls
  <2> QED
    BY <1>1, <2>1
<1> QED
  BY <1>2, <1>3 DEF ReconcileStep

\* Whatever the step, and in a branch it creates an agent remembers nothing.
LEMMA MemoryComes ==
  ASSUME TypeInv, TypeInv', StoresKept, ThreadsInv, Prompts, StepKinds
  PROVE  /\ \A b \in Branches, a \in Agents : Recalls(b, a)
         /\ \A b \in Branches', a \in Agents : b \notin Branches => Remembered(b, a)' = {}
<1>1. CASE UNCHANGED stored
  <2>1. \A b \in Branches, a \in Agents : Recalls(b, a)
    BY <1>1, LessRemembered DEF Recalls
  <2>2. Branches' = Branches
    <3>1. DOMAIN stored = Branches /\ DOMAIN stored' = Branches'
      BY DEF TypeInv, TypeOK
    <3> QED
      BY <1>1, <3>1
  <2> QED
    BY <2>1, <2>2
<1>2. ASSUME Len(branches') = Len(branches), \A b \in Branches, a \in Agents : Recalls(b, a)
      PROVE  /\ \A b \in Branches, a \in Agents : Recalls(b, a)
             /\ \A b \in Branches', a \in Agents : b \notin Branches => Remembered(b, a)' = {}
  BY <1>2 DEF Branches
<1>3. CASE CreateStep
  <2>1. \A b \in Branches, a \in Agents : Recalls(b, a)
    BY <1>3, LessRemembered DEF CreateStep, Recalls
  <2>2. ASSUME NEW b \in Branches', NEW a \in Agents, b \notin Branches
        PROVE  Remembered(b, a)' = {}
    <3>1. b = Len(branches) + 1
      BY <1>3, <2>2, Sizes DEF CreateStep, Branches
    <3>2. stored'[b][a] = {}
      BY <1>3, <3>1 DEF CreateStep
    <3> QED
      BY <3>2 DEF Remembered
  <2> QED
    BY <2>1, <2>2
<1>4. CASE WriteStep
  BY <1>2, <1>4, WritesRecall DEF WriteStep
<1>5. CASE InjectStep
  <2>1. PICK a, k :
            /\ a \in Agents
            /\ k \in UsableFrontiers(current, a)
            /\ Adds(current, a, frontiers[k].checkpoint, {})
    BY <1>5 DEF InjectStep
  <2>2. frontiers[k].checkpoint \in stored[current][a]
    BY <2>1 DEF ThreadsInv, FrontiersStored, UsableFrontiers, FrontiersOf
  <2>3. \A d \in Branches, y \in Agents : Remembered(d, y)' \subseteq Remembered(d, y)
    BY <2>1, <2>2, Sizes, AddsMemory
  <2> QED
    BY <1>2, <1>5, <2>3 DEF InjectStep, Recalls
<1>6. CASE StartStep
  BY <1>2, <1>6, StartRecalls DEF StartStep
<1>7. CASE ReconcileStep
  BY <1>2, <1>7, ReconcileRecalls DEF ReconcileStep
<1> QED
  BY <1>1, <1>3, <1>4, <1>5, <1>6, <1>7 DEF StepKinds, ControlStep, ReadStep, SpeakStep, SettleStep

\* What is known of every step.
Stepped ==
  /\ StoresKept /\ FinalKept /\ StepKinds /\ ThreadsKept /\ VisibleGrows
  /\ \A b \in Branches, a \in Agents : Recalls(b, a)
  /\ \A b \in Branches', a \in Agents : b \notin Branches => Remembered(b, a)' = {}
  /\ \A a \in Agents : Overtaken(a) => Overtaken(a)'

LEMMA NextSteps ==
  ASSUME TypeInv, RunsInv, HoldsInv, ThreadsInv, MemoryInv, [Next]_vars
  PROVE  TypeInv' /\ Stepped
<1>1. TypeInv' /\ StoresKept /\ FinalKept /\ StepKinds
  BY TypedStep, StepIs, RunsStep DEF StepTyped
<1>2. ThreadsKept /\ VisibleGrows
  BY <1>1, ThreadsDoKeep, VisibleDoesGrow
<1>3. /\ \A b \in Branches, a \in Agents : Recalls(b, a)
      /\ \A b \in Branches', a \in Agents : b \notin Branches => Remembered(b, a)' = {}
  BY <1>1, MemoryComes DEF MemoryInv
<1>4. \A a \in Agents : Overtaken(a) => Overtaken(a)'
  BY <1>1, OvertakenStays DEF HoldsInv
<1> QED
  BY <1>1, <1>2, <1>3, <1>4 DEF Stepped

LEMMA HistoryStep ==
  ASSUME TypeInv, TypeInv', Stepped, ThreadsInv, MemoryInv
  PROVE  HistoryShown'
<1>1. ASSUME NEW b \in Branches, NEW a \in Agents, ~Overtaken(a)'
      PROVE  Remembered(b, a)' \subseteq Visible(b)'
  <2>1. ~Overtaken(a) /\ Recalls(b, a) /\ Visible(b) \subseteq Visible(b)'
    BY <1>1 DEF Stepped, VisibleGrows
  <2>2. Remembered(b, a) \subseteq Visible(b)
    BY <2>1 DEF MemoryInv, HistoryShown
  <2>3. worker[<<a, "router">>].branch = b => Projected(<<a, "router">>) \subseteq Visible(b)
    BY DEF Projected
  <2>4. Forks(b, a) => ForkedMemory(b, a) \subseteq Visible(b)
    BY <2>1, ForkGives
  <2> HIDE DEF Visible
  <2> QED
    BY <2>1, <2>2, <2>3, <2>4 DEF Recalls
<1>2. ASSUME NEW b \in Branches', b \notin Branches, NEW a \in Agents
      PROVE  Remembered(b, a)' = {}
  BY <1>2 DEF Stepped
<1> QED
  BY <1>1, <1>2 DEF HistoryShown

LEMMA GrowsByOne ==
  ASSUME TypeInv, TypeInv', StoresKept, MemoryGrows, NEW b \in Branches, NEW a \in Agents,
         NEW from \in Checkpoints, NEW given, Adds(b, a, from, given)
  PROVE  MemoryGrows'
<1>1. PICK new \in Nat \ {0} :
        /\ Len(saved') = new /\ new = Len(saved) + 1
        /\ saved'[new].parent = from /\ saved'[new].memory = MemoryOf(from) \union given
  BY Sizes DEF Adds
<1>2. ASSUME NEW c \in 1 .. Len(saved') PROVE MemoryOf(saved[c].parent)' \subseteq MemoryOf(c)'
  <2>1. CASE c = new
    <3>1. MemoryOf(from)' = MemoryOf(from)
      BY MemoryKept
    <3> QED
      BY <1>1, <2>1, <3>1 DEF MemoryOf, NoCheckpoint
  <2>2. CASE c # new
    <3>1. c \in 1 .. Len(saved) /\ saved'[c] = saved[c] /\ c \in Checkpoints
      BY <1>1, <2>2, Sizes DEF StoresKept, SavedKept, Checkpoints
    <3>2. PICK p \in Checkpoints : p = saved[c].parent
      BY <3>1, SavedAre
    <3>3. MemoryOf(p)' = MemoryOf(p) /\ MemoryOf(c)' = MemoryOf(c) /\ MemoryOf(p) \subseteq MemoryOf(c)
      BY <3>1, <3>2, MemoryKept DEF MemoryGrows
    <3> QED
      BY <3>1, <3>2, <3>3 DEF MemoryOf
  <2> QED
    BY <2>1, <2>2
<1> QED
  BY <1>2 DEF MemoryGrows

LEMMA MemoryGrowsStep ==
  ASSUME TypeInv, TypeInv', Stepped, ThreadsInv, MemoryInv
  PROVE  MemoryGrows'
<1>0. StoresKept /\ StepKinds /\ MemoryGrows /\ Prompts
  BY DEF Stepped, MemoryInv
<1>1. CASE UNCHANGED saved
  BY <1>0, <1>1 DEF MemoryGrows, MemoryOf
<1>2. CASE WriteStep
  <2>1. PICK b \in Branches, a \in Agents :
          \/ \E from \in stored[b][a] : Adds(b, a, from, {})
          \/ \E w \in Workers :
               Adds(b, a, IF w[2] = "router" THEN LatestCheckpoint(b, a) ELSE worker[w].from,
                    Projected(w))
    BY <1>2 DEF WriteStep
  <2>2. /\ \A from \in stored[b][a] : from \in Checkpoints
        /\ LatestCheckpoint(b, a) \in Checkpoints
        /\ \A w \in Workers : worker[w].from \in Checkpoints
    BY ThreadsAre, Sizes, LatestIs, WorkersAre DEF Checkpoints
  <2>3. \E from \in Checkpoints : \E given : Adds(b, a, from, given)
    BY <2>1, <2>2
  <2> QED
    BY <1>0, <2>3, GrowsByOne
<1>3. CASE InjectStep
  <2>1. PICK a, k :
            /\ a \in Agents
            /\ k \in UsableFrontiers(current, a)
            /\ Adds(current, a, frontiers[k].checkpoint, {})
    BY <1>3 DEF InjectStep
  <2>2. frontiers[k].checkpoint \in Checkpoints /\ current \in Branches
    BY <2>1, FrontiersAre, Sizes DEF UsableFrontiers, FrontiersOf, Checkpoints
  <2>3. PICK b \in Branches, from \in Checkpoints : Adds(b, a, from, {})
    BY <2>1, <2>2
  <2> QED
    BY <1>0, <2>1, <2>3, GrowsByOne
<1> QED
  BY <1>0, <1>1, <1>2, <1>3
  DEF StepKinds, ControlStep, ReadStep, SpeakStep, CreateStep, StartStep, SettleStep, ReconcileStep

LEMMA OriginsStep ==
  ASSUME TypeInv, TypeInv', Stepped, MemoryInv
  PROVE  Origins'
<1>0. StoresKept /\ StepKinds /\ Origins /\ Befores
  BY DEF Stepped, MemoryInv
<1>1. ASSUME NEW b \in 1 .. Len(branches) PROVE OriginWithin(branches[b])'
  <2>1. PICK c \in Checkpoints : c = branches[b].originCheckpoint
    BY BranchesAre
  <2>2. MemoryOf(c)' = MemoryOf(c) /\ OriginWithin(branches[b])
    BY <1>0, MemoryKept DEF Origins
  <2> QED
    BY <1>0, <2>1, <2>2 DEF OriginWithin, StoresKept, BranchesKept, MemoryOf
<1>2. CASE Len(branches') = Len(branches)
  BY <1>1, <1>2 DEF Origins
<1>3. CASE CreateStep
  <2>1. PICK new \in Nat : new = Len(branches) + 1 /\ Len(branches') = new
    BY <1>3, Sizes DEF CreateStep
  <2>2. UNCHANGED <<saved, events>>
    BY <1>3 DEF CreateStep
  <2>7. PICK made : made = branches'[new]
    OBVIOUS
  <2>3. ASSUME made.originEvent = NoEvent, made.originSeq = OriginSeq(made.originCheckpoint)
        PROVE  OriginWithin(made)'
    <3>1. PICK c \in Checkpoints : c = made.originCheckpoint
      <4>1. made.originCheckpoint \in Checkpoints'
        <5>1. \A b \in 1 .. Len(branches') : branches'[b].originCheckpoint \in Checkpoints'
          BY EquationsHold DEF OriginsTyped
        <5> QED
          BY <2>1, <2>7, <5>1, Sizes
      <4> QED
        BY <2>2, <4>1 DEF Checkpoints
    <3>2. MemoryOf(c) \in SUBSET (0 .. Len(events)) /\ Len(events) \in Nat
      BY MemoryIs, Sizes DEF Events
    <3>3. \A i \in MemoryOf(c) : OriginSeq(c) # NoLimit /\ i <= OriginSeq(c)
      <4>1. /\ Greatest(MemoryOf(c)) \in 0 .. Len(events)
            /\ \A i \in MemoryOf(c) : i <= Greatest(MemoryOf(c))
        BY <3>2, GreatestIs
      <4> QED
        BY <4>1 DEF OriginSeq, NoLimit
    <3>4. MemoryOf(c)' = MemoryOf(c)
      BY <1>0, MemoryKept
    <3> QED
      BY <2>3, <3>1, <3>3, <3>4 DEF OriginWithin
  <2>4. ASSUME NEW i \in Visible(current), made.originEvent = events[i].before,
               made.originCheckpoint = NoCheckpoint,
               made.originSeq = Greatest({j \in Visible(current) : j < i})
        PROVE  OriginWithin(made)'
    <3>1. /\ i \in 1 .. Len(events) /\ current \in Branches
          /\ \A j \in Visible(events[i].branch) : j <= i => j \in Visible(current)
      BY ShownBefore, Sizes
    <3>2. events[i].before # NoEvent => events[i].before \in Visible(current) /\ events[i].before < i
      <4>1. i \in Nat /\ events[i].before \in Nat
        BY <3>1, EventsAre, Sizes DEF Events
      <4> QED
        BY <1>0, <3>1, <4>1 DEF Befores
    <3> DEFINE S == {j \in Visible(current) : j < i}
    <3>3. S \in SUBSET (0 .. Len(events)) /\ Len(events) \in Nat
      BY <3>1, LatestIs, Sizes
    <3>4. Greatest(S) \in 0 .. Len(events) /\ \A j \in S : j <= Greatest(S)
      <4> HIDE DEF S
      <4> QED
        BY <3>3, GreatestIs
    <3>5. events[i].before # NoEvent => events[i].before <= Greatest(S)
      BY <3>2, <3>4
    <3>6. made.originSeq = Greatest(S)
      BY <2>4
    <3> HIDE DEF S
    <3> QED
      BY <2>4, <3>4, <3>5, <3>6 DEF OriginWithin, NoLimit
  <2>8. OriginWithin(made)'
    BY <1>3, <2>1, <2>7, <2>3, <2>4 DEF CreateStep
  <2>5. OriginWithin(branches[new])'
    BY <2>7, <2>8 DEF OriginWithin, MemoryOf
  <2>6. \A b \in 1 .. Len(branches') : b = new \/ b \in 1 .. Len(branches)
    BY <2>1, Sizes
  <2> QED
    BY <1>1, <2>5, <2>6 DEF Origins
<1> QED
  BY <1>0, <1>2, <1>3
  DEF StepKinds, ControlStep, ReadStep, SpeakStep, WriteStep, InjectStep, StartStep, SettleStep,
      ReconcileStep

LEMMA LatestNext ==
  ASSUME TypeInv', NEW b \in Branches'
  PROVE  Visible(b)' \subseteq 1 .. Len(events')
<1>1. b \in Branches'
  OBVIOUS
<1> QED
  BY <1>1, ShownNext DEF Visible

\* A worker of the router goes on with what it has read, or has just read it.
Reading(w) == worker[w].pc \in {"starting", "invoking", "completing"}

GoesOn(w) ==
  /\ Reading(w) /\ (worker'[w].pc = "starting" => worker[w].pc = "starting")
  /\ worker'[w].branch = worker[w].branch /\ worker'[w].low = worker[w].low
  /\ worker'[w].snapshot = worker[w].snapshot

HasRead(w) ==
  /\ UNCHANGED <<events, branches, saved, stored>>
  /\ worker'[w].branch = current /\ worker'[w].snapshot = Latest(current)
  /\ worker'[w].low = agent[current][w[1]].lastDelivered

LEMMA RouterWorkers ==
  ASSUME TypeInv, StepKinds, NEW w \in Workers, w[2] = "router", Reading(w)'
  PROVE  GoesOn(w) \/ HasRead(w)
<1>1. CASE worker'[w] = worker[w]
  BY <1>1 DEF GoesOn, Reading
<1>2. CASE ReadStep /\ worker'[w] # worker[w]
  <2>1. PICK a, x :
          /\ a \in Agents
          /\ Becomes(<<a, "router">>, x)
          /\ \/ x.pc \in {"idle", "reading"}
             \/ /\ x.pc = "starting" /\ x.branch = current /\ x.snapshot = Latest(current)
                /\ x.low = agent[current][a].lastDelivered /\ x.low < x.snapshot
    BY <1>2 DEF ReadStep
  <2>2. w = <<a, "router">> /\ worker'[w] = x
    BY <1>2, <2>1 DEF Becomes
  <2>3. w[1] = a
    BY <2>2
  <2> QED
    BY <1>2, <2>1, <2>2, <2>3 DEF HasRead, ReadStep, Reading
<1>3. CASE SpeakStep /\ worker'[w] # worker[w]
  <2>1. UNCHANGED worker \/ \E v \in Workers : Becomes(v, IdleWorker)
    BY <1>3 DEF SpeakStep
  <2>2. worker'[w] = IdleWorker
    BY <1>3, <2>1 DEF Becomes
  <2> QED
    BY <2>2 DEF IdleWorker, Reading
<1>4. CASE WriteStep /\ worker'[w] # worker[w]
  <2>1. worker[w].pc = "invoking" /\ worker'[w] = [worker[w] EXCEPT !.pc = "completing"]
    BY <1>4 DEF WriteStep, Becomes
  <2>2. LET x == [worker[w] EXCEPT !.pc = "completing"]
        IN  /\ x.pc = "completing" /\ x.branch = worker[w].branch /\ x.low = worker[w].low
            /\ x.snapshot = worker[w].snapshot
    BY WorkersAre DEF WorkerSet
  <2> QED
    BY <2>1, <2>2 DEF GoesOn, Reading
<1>5. CASE InjectStep /\ worker'[w] # worker[w]
  <2>1. PICK a, x : a \in Agents /\ Becomes(<<a, "inject">>, x)
    BY <1>5 DEF InjectStep, Starts
  <2>2. w # <<a, "inject">>
    <3>1. <<a, "inject">>[2] = "inject"
      OBVIOUS
    <3> QED
      BY <3>1
  <2> QED
    BY <1>5, <2>1, <2>2 DEF Becomes
<1>6. CASE StartStep /\ worker'[w] # worker[w]
  <2>1. PICK a, x :
          /\ a \in Agents
          /\ worker[<<a, "router">>].pc = "starting" /\ Becomes(<<a, "router">>, x)
          /\ x.pc = "invoking" /\ x.branch = worker[<<a, "router">>].branch
          /\ x.low = worker[<<a, "router">>].low /\ x.snapshot = worker[<<a, "router">>].snapshot
    BY <1>6 DEF StartStep, Starts
  <2>2. w = <<a, "router">> /\ worker'[w] = x
    BY <1>6, <2>1 DEF Becomes
  <2> QED
    BY <2>1, <2>2 DEF GoesOn, Reading
<1>7. CASE SettleStep /\ worker'[w] # worker[w]
  <2>1. worker'[w] = IdleWorker \/ worker'[w] = [worker[w] EXCEPT !.pc = "replying"]
    BY <1>7 DEF SettleStep, Becomes
  <2>2. LET x == [worker[w] EXCEPT !.pc = "replying"] IN x.pc = "replying"
    BY WorkersAre DEF WorkerSet
  <2>3. CASE worker'[w] = IdleWorker
    BY <2>3 DEF IdleWorker, Reading
  <2>4. CASE worker'[w] = [worker[w] EXCEPT !.pc = "replying"]
    BY <2>2, <2>4 DEF Reading
  <2> QED
    BY <2>1, <2>3, <2>4
<1>8. CASE ReconcileStep /\ worker'[w] # worker[w]
  BY <1>8 DEF ReconcileStep, IdleWorker, Reading
<1> QED
  BY <1>1, <1>2, <1>3, <1>4, <1>5, <1>6, <1>7, <1>8 DEF StepKinds, ControlStep, CreateStep

LEMMA ReadingsStep ==
  ASSUME TypeInv, TypeInv', Stepped, ThreadsInv, MemoryInv
  PROVE  Readings'
<1>0. /\ StepKinds /\ StoresKept /\ VisibleGrows /\ Len(events) \in Nat
      /\ Branches \subseteq Branches'
  <2>1. Len(branches') \in Nat /\ Len(branches) <= Len(branches') /\ Len(branches) \in Nat
    BY Sizes DEF Stepped, StoresKept, BranchesKept, TypeInv, TypeOK
  <2> QED
    BY <2>1, Sizes DEF Stepped, Branches
<1>1. ASSUME NEW a \in Agents, NEW w \in Workers, w = <<a, "router">>, Reading(w)',
             NEW b \in Branches, b = worker'[w].branch
      PROVE  /\ Overtaken(a)' \/ Remembered(b, a)' \subseteq 0 .. worker'[w].snapshot
             /\ worker'[w].pc = "starting" /\ b # Main =>
                  \A i \in Visible(b)' : i <= branches'[b].originSeq => i <= worker'[w].snapshot
  <2>1. w[1] = a /\ w[2] = "router"
    BY <1>1
  <2>2. GoesOn(w) \/ HasRead(w)
    BY <1>0, <1>1, <2>1, RouterWorkers
  <2>3. Overtaken(a) => Overtaken(a)'
    BY DEF Stepped
  <2>4. Visible(b) \subseteq 1 .. Len(events) /\ \A i \in Visible(b) : i <= Latest(b)
    BY LatestIs
  <2>5. CASE HasRead(w)
    <3>1. b = current /\ worker'[w].snapshot = Latest(b) /\ Latest(b) \in Nat
      BY <1>1, <2>5, LatestIs, <1>0 DEF HasRead, Events
    <3>2. Remembered(b, a)' \subseteq Remembered(b, a)
      BY <1>0, <2>5, LessRemembered DEF HasRead
    <3>3. Overtaken(a) \/ Remembered(b, a) \subseteq Visible(b)
      BY DEF MemoryInv, HistoryShown
    <3>4. Visible(b)' = Visible(b)
      <4>1. Visible(b)' \subseteq 1 .. Len(events)
        BY <1>0, <1>1, <2>5, LatestNext DEF HasRead
      <4> QED
        BY <1>0, <4>1 DEF VisibleGrows
    <3> QED
      BY <2>3, <2>4, <3>1, <3>2, <3>3, <3>4
  <2>6. CASE GoesOn(w)
    <3>1. /\ Reading(w) /\ worker[w].branch = b /\ worker'[w].snapshot = worker[w].snapshot
          /\ worker'[w].pc = "starting" => worker[w].pc = "starting"
          /\ worker[w].snapshot \in Nat
      BY <1>0, <1>1, <2>6, WorkersAre DEF GoesOn, Events
    <3>2. Overtaken(a) \/ Remembered(b, a) \subseteq 0 .. worker[w].snapshot
      BY <1>1, <3>1 DEF MemoryInv, Readings, Reading
    <3>3. worker[w].pc = "starting" /\ b # Main =>
            \A i \in Visible(b) : i <= branches[b].originSeq => i <= worker[w].snapshot
      BY <1>1, <3>1 DEF MemoryInv, Readings
    <3>4. Overtaken(a) \/ Remembered(b, a)' \subseteq 0 .. worker[w].snapshot
      <4>1. Recalls(b, a)
        BY DEF Stepped
      <4>2. worker[w].branch = b => \A i \in Projected(w) : i \in Nat /\ i <= worker[w].snapshot
        BY <2>4 DEF Projected
      <4>3. CASE Remembered(b, a)' \subseteq Remembered(b, a)
        BY <3>2, <4>3
      <4>4. CASE Remembered(b, a)' \subseteq Remembered(b, a) \union Projected(w)
        BY <3>1, <3>2, <4>2, <4>4
      <4>5. CASE /\ worker[w].pc = "starting" /\ Forks(b, a)
                 /\ Remembered(b, a)' \subseteq ForkedMemory(b, a)
        BY <2>4, <3>1, <3>3, <4>5, ForkGives
      <4> QED
        BY <1>1, <4>1, <4>3, <4>4, <4>5 DEF Recalls
    <3>5. worker'[w].pc = "starting" /\ b # Main =>
            \A i \in Visible(b)' : i <= branches'[b].originSeq => i <= worker'[w].snapshot
      <4>1. ASSUME b # Main
            PROVE  /\ branches'[b].originSeq = branches[b].originSeq
                   /\ branches[b].originSeq \in 0 .. Len(events) \union {NoLimit}
        BY <1>0, <4>1, Sizes, BranchesAre DEF StoresKept, BranchesKept, Main, Events
      <4>2. \A i \in Visible(b)' : i \in Visible(b) \/ i > Len(events)
        BY <1>0 DEF VisibleGrows
      <4>3. \A i \in Visible(b)' : i \in Nat
        <5>1. b \in Branches' /\ 1 .. Len(events') \subseteq Nat
          BY <1>0
        <5> QED
          BY <5>1, LatestNext
      <4> QED
        BY <1>0, <3>1, <3>3, <4>1, <4>2, <4>3 DEF NoLimit
    <3> QED
      BY <2>3, <3>1, <3>4, <3>5
  <2> QED
    BY <2>2, <2>5, <2>6
<1>2. ASSUME NEW a \in Agents, NEW w \in Workers, w = <<a, "router">>, Reading(w)'
      PROVE  worker'[w].branch \in Branches
  <2>1. w[2] = "router"
    BY <1>2
  <2> QED
    BY <1>0, <1>2, <2>1, RouterWorkers, WorkersAre, Sizes DEF GoesOn, HasRead
<1>3. \A a \in Agents : <<a, "router">> \in Workers
  BY DEF Workers, Lanes
<1> QED
  BY <1>1, <1>2, <1>3 DEF Readings, Reading

\* A frontier stays, or is the one that is recorded.
LEMMA FrontiersStayCovered ==
  ASSUME TypeInv, Stepped, FrontiersCover, NEW f, NEW c \in Checkpoints, f.checkpoint = c,
         UNCHANGED frontiers \/ Recorded(f),
         f.usable /\ ~UNCHANGED frontiers =>
           Overtaken(f.agent)' \/ MemoryOf(c) \subseteq 0 .. f.event
  PROVE  FrontiersCover'
<1>1. ASSUME NEW k \in 1 .. Len(frontiers), frontiers[k].usable,
             NEW g, g = frontiers[k]
      PROVE  Overtaken(g.agent)' \/ MemoryOf(g.checkpoint)' \subseteq 0 .. g.event
  <2>1. g.checkpoint \in Checkpoints /\ g.agent \in Agents
    BY <1>1, FrontiersAre, Sizes DEF Checkpoints
  <2>2. /\ MemoryOf(g.checkpoint)' = MemoryOf(g.checkpoint)
        /\ Overtaken(g.agent) => Overtaken(g.agent)'
    BY <2>1, MemoryKept DEF Stepped
  <2>3. Overtaken(g.agent) \/ MemoryOf(g.checkpoint) \subseteq 0 .. g.event
    BY <1>1 DEF FrontiersCover
  <2> QED
    BY <2>2, <2>3
<1>2. MemoryOf(c)' = MemoryOf(c)
  BY MemoryKept DEF Stepped
<1>3. ASSUME NEW k \in 1 .. Len(frontiers'), frontiers'[k].usable
      PROVE  \/ Overtaken(frontiers[k].agent)'
             \/ MemoryOf(frontiers[k].checkpoint)' \subseteq 0 .. frontiers'[k].event
  <2>1. CASE UNCHANGED frontiers
    <3>1. Len(frontiers') = Len(frontiers) /\ frontiers'[k] = frontiers[k]
      BY <2>1
    <3>2. k \in 1 .. Len(frontiers) /\ frontiers[k].usable
      BY <1>3, <3>1
    <3>3. PICK g : g = frontiers[k]
      OBVIOUS
    <3>4. Overtaken(g.agent)' \/ MemoryOf(g.checkpoint)' \subseteq 0 .. g.event
      BY <1>1, <3>2, <3>3
    <3>5. frontiers'[k] = g
      BY <3>1, <3>3
    <3> QED
      BY <3>4, <3>5 DEF Overtaken, MemoryOf
  <2>2. CASE Recorded(f) /\ ~UNCHANGED frontiers
    <3>1. CASE frontiers'[k] = f
      BY <1>2, <1>3, <2>2, <3>1 DEF Overtaken, MemoryOf
    <3>2. CASE \E j \in 1 .. Len(frontiers) : frontiers'[k] = frontiers[j]
      <4>1. PICK j \in 1 .. Len(frontiers) : frontiers'[k] = frontiers[j]
        BY <3>2
      <4>2. frontiers[j].usable
        BY <1>3, <4>1
      <4>3. PICK g : g = frontiers[j]
        OBVIOUS
      <4>4. Overtaken(g.agent)' \/ MemoryOf(g.checkpoint)' \subseteq 0 .. g.event
        BY <1>1, <4>2, <4>3
      <4>5. frontiers'[k] = g
        BY <4>1, <4>3
      <4> QED
        BY <4>4, <4>5 DEF Overtaken, MemoryOf
    <3> QED
      BY <2>2, <3>1, <3>2 DEF Recorded
  <2> QED
    BY <2>1, <2>2
<1> QED
  BY <1>3 DEF FrontiersCover

\* What a thread holds when its run ends is within the last event the run has read.
LEMMA LastReadCovers ==
  ASSUME TypeInv, MemoryInv, NEW r \in 1 .. Len(runs), ~Overtaken(runs[r].agent),
         MemoryOf(LatestCheckpoint(runs[r].branch, runs[r].agent)) \subseteq 0 .. runs[r].snapshot
  PROVE  MemoryOf(LatestCheckpoint(runs[r].branch, runs[r].agent)) \subseteq 0 .. LastRead(r)
<1>1. PICK b \in Branches, a \in Agents, c \in Checkpoints :
        /\ b = runs[r].branch /\ a = runs[r].agent /\ c = LatestCheckpoint(b, a)
  BY RunsAre, LatestIs
<1>2. MemoryOf(c) \subseteq Visible(b)
  <2>1. CASE c = NoCheckpoint
    BY <2>1 DEF MemoryOf
  <2>2. CASE c \in stored[b][a]
    <3>1. MemoryOf(c) \in SUBSET Events
      BY MemoryIs
    <3> QED
      BY <1>1, <2>2, <3>1 DEF MemoryInv, HistoryShown, Remembered
  <2> QED
    BY <1>1, <2>1, <2>2, LatestIs
<1>3. \A i \in Visible(b) : i \in Nat /\ (i <= runs[r].snapshot => i <= LastRead(r))
  <2>1. "empty" \in Statuses
    BY DEF Statuses
  <2>2. Visible(b) \in SUBSET (1 .. Len(events))
    BY LatestIs
  <2> QED
    BY <1>1, <2>1, <2>2, SettledIs, Sizes
<1>4. LastRead(r) \in Nat /\ runs[r].snapshot \in Nat
  <2>1. "empty" \in Statuses
    BY DEF Statuses
  <2> QED
    BY <2>1, SettledIs, RunsAre, Sizes DEF Events
<1>5. MemoryOf(c) \subseteq 0 .. runs[r].snapshot
  BY <1>1
<1> QED
  BY <1>1, <1>2, <1>3, <1>4, <1>5

\* _append_public_reply, and _record_terminal_run_frontier.
LEMMA CoverOfReply ==
  ASSUME TypeInv, Stepped, MemoryInv, SpeakStep, ~UNCHANGED frontiers
  PROVE  FrontiersCover'
<1>1. PICK b \in Branches, w \in Workers :
        Recorded([event |-> Len(events) + 1, agent |-> w[1], branch |-> b, thread |-> b,
                  checkpoint |-> LatestCheckpoint(b, w[1]), run |-> worker[w].run,
                  usable |-> TRUE])
  BY DEF SpeakStep
<1> DEFINE f == [event |-> Len(events) + 1, agent |-> w[1], branch |-> b, thread |-> b,
                 checkpoint |-> LatestCheckpoint(b, w[1]), run |-> worker[w].run,
                 usable |-> TRUE]
<1>2. PICK c \in Checkpoints : c = LatestCheckpoint(b, w[1])
  BY LatestIs, WorkersAre
<1>3. MemoryOf(c) \subseteq 0 .. (Len(events) + 1)
  <2>1. MemoryOf(c) \in SUBSET (0 .. Len(events))
    BY MemoryIs DEF Events
  <2> QED
    BY <2>1, Sizes
<1>4. Recorded(f) /\ f.checkpoint = c /\ f.event = Len(events) + 1
  BY <1>1, <1>2
<1> HIDE DEF f
<1> QED
  BY <1>3, <1>4, FrontiersStayCovered DEF MemoryInv

LEMMA CoverOfEnd ==
  ASSUME TypeInv, TypeInv', Stepped, RunsInv, RepliesInv, HoldsInv, MemoryInv, SettleStep,
         ~UNCHANGED frontiers
  PROVE  FrontiersCover'
<1>1. PICK w, status, r, f :
        /\ w \in Workers /\ status \in Statuses \ {"running"}
        /\ r = worker[w].run /\ f = TerminalRecord(r, status)
        /\ AtWork(w) /\ (w[2] = "inject" => status \in {"success", "empty", "failed"})
        /\ Len(runs') = Len(runs) /\ runs'[r] = SettledRun(r, status)
        /\ runs[r].commit # "orphaned" /\ status # "success" /\ Recorded(f)
  BY DEF SettleStep
<1>2. r \in 1 .. Len(runs) /\ runs[r].commit # "committed" /\ runs[r].stable = NoCheckpoint
  BY <1>1 DEF RunsInv, WorkersOwnRecords, HoldsInv, RunStatuses
<1>3. /\ runs[r].agent = w[1] /\ runs[r].lane = w[2] /\ runs[r].branch = worker[w].branch
      /\ runs[r].snapshot = worker[w].snapshot
  BY <1>1 DEF RepliesInv, WorkersMatch, Matches, AtRun, AtWork
<1>4. PICK b \in Branches, a \in Agents, c \in Checkpoints :
        b = runs[r].branch /\ a = runs[r].agent /\ c = LatestCheckpoint(b, a)
  BY <1>2, RunsAre, LatestIs
<1>5. /\ runs'[r].status = status /\ runs'[r].agent = a /\ runs'[r].lane = w[2]
      /\ runs'[r].snapshot = runs[r].snapshot
      /\ runs'[r].stable = IF Stable(status) THEN c ELSE NoCheckpoint
  BY <1>1, <1>2, <1>3, <1>4, SettledIs
<1>6. f.checkpoint = c /\ f.agent = a /\ f.event = LastRead(r)
      /\ (f.usable => runs'[r].stable # NoCheckpoint)
  BY <1>1, <1>4 DEF TerminalRecord
<1>7. ASSUME Stable(status), ~Overtaken(a)'
      PROVE  MemoryOf(c) \subseteq 0 .. runs[r].snapshot
  <2>1. ~Overtaken(a)
    BY <1>7 DEF Stepped
  <2>2. CASE w[2] = "inject"
    <3>1. status = "empty"
      BY <1>1, <1>7, <2>2 DEF Stable
    <3>2. r \in 1 .. Len(runs')
      BY <1>1, <1>2
    <3>3. MemoryOf(c)' = MemoryOf(c)
      BY MemoryKept DEF Stepped
    <3>4. MemoryOf(runs[r].stable)' = MemoryOf(c)'
      BY <1>5, <1>7 DEF MemoryOf
    <3> QED
      BY <1>5, <1>7, <2>2, <3>1, <3>2, <3>3, <3>4 DEF Overtaken
  <2>3. CASE w[2] = "router"
    <3>1. w = <<a, "router">>
      BY <1>1, <1>3, <1>4, <2>3 DEF Workers
    <3>2. Remembered(b, a) \subseteq 0 .. runs[r].snapshot
      BY <1>1, <1>3, <1>4, <2>1, <3>1 DEF MemoryInv, Readings, AtWork
    <3>3. c \in stored[b][a] \union {NoCheckpoint} /\ MemoryOf(c) \in SUBSET Events
      BY <1>4, LatestIs, MemoryIs
    <3> QED
      BY <3>2, <3>3 DEF Remembered, MemoryOf
  <2> QED
    BY <1>1, <2>2, <2>3 DEF Workers, Lanes
<1>8. ASSUME f.usable PROVE Overtaken(f.agent)' \/ MemoryOf(c) \subseteq 0 .. f.event
  <2>1. Stable(status)
    BY <1>5, <1>6, <1>8
  <2>2. Overtaken(a)' \/ MemoryOf(c) \subseteq 0 .. LastRead(r)
    <3>1. Overtaken(a) => Overtaken(a)'
      BY DEF Stepped
    <3> QED
      BY <1>2, <1>4, <1>7, <2>1, <3>1, LastReadCovers
  <2> QED
    BY <1>6, <2>2
<1> QED
  BY <1>1, <1>6, <1>8, FrontiersStayCovered DEF MemoryInv

LEMMA FrontiersCoverStep ==
  ASSUME TypeInv, TypeInv', Stepped, RunsInv, RepliesInv, HoldsInv, MemoryInv
  PROVE  FrontiersCover'
<1>1. CASE UNCHANGED frontiers
  <2> DEFINE f == [checkpoint |-> NoCheckpoint, usable |-> FALSE]
  <2>1. ~f.usable /\ f.checkpoint = NoCheckpoint /\ NoCheckpoint \in Checkpoints
    BY Sizes DEF Checkpoints, NoCheckpoint
  <2> HIDE DEF f
  <2> QED
    BY <1>1, <2>1, FrontiersStayCovered DEF MemoryInv
<1>2. CASE ~UNCHANGED frontiers
  <2>1. SpeakStep \/ SettleStep
    BY <1>2 DEF Stepped, StepKinds, ControlStep, ReadStep, CreateStep, WriteStep, InjectStep,
                StartStep, ReconcileStep
  <2> QED
    BY <1>2, <2>1, CoverOfReply, CoverOfEnd
<1> QED
  BY <1>1, <1>2

LEMMA OneMoreEvent ==
  ASSUME TypeInv, TypeInv', Stepped, Befores, UNCHANGED events \/ SpeakStep,
         NEW i \in 1 .. Len(events'), NEW before, before = events'[i].before, before # NoEvent,
         NEW b, b = events'[i].branch
  PROVE  before \in Visible(b)' /\ before < i
<1>0. /\ Len(events) \in Nat /\ VisibleGrows /\ StoresKept
      /\ \A d \in Branches : /\ Latest(d) \in Events /\ Latest(d) \in Visible(d) \union {NoEvent}
                             /\ Visible(d) \in SUBSET (1 .. Len(events))
  BY Sizes, LatestIs DEF Stepped
<1>1. CASE i \in 1 .. Len(events)
  <2>1. events'[i] = events[i] /\ b \in Branches
    <3>1. events'[i] = events[i]
      BY <1>0, <1>1 DEF StoresKept, EventsKept
    <3> QED
      BY <1>1, <3>1, EventsAre
  <2>2. before \in Visible(b) /\ before < i
    BY <1>1, <2>1 DEF Befores
  <2> QED
    BY <1>0, <2>1, <2>2 DEF VisibleGrows
<1>2. CASE i \notin 1 .. Len(events)
  <2>1. SpeakStep /\ i = Len(events) + 1
    <3>1. UNCHANGED events \/ Len(events') = Len(events) + 1
      BY DEF SpeakStep
    <3>2. Len(events') # Len(events)
      BY <1>2
    <3>3. Len(events') = Len(events) + 1
      BY <3>1, <3>2
    <3> QED
      BY <1>0, <1>2, <3>2, <3>3
  <2>2. PICK d \in Branches, e \in Events :
          /\ events'[i].branch = d
          /\ events'[i].before = IF e = NoEvent THEN Latest(d) ELSE e
          /\ e = NoEvent \/ (call.pc = "editing" /\ d = call.branch /\ e = events[call.event].before)
    BY <2>1 DEF SpeakStep
  <2>3. before \in Visible(b) /\ b \in Branches
    <3>1. CASE e = NoEvent
      BY <1>0, <2>2, <3>1
    <3>2. CASE e # NoEvent
      BY <2>2, <3>2 DEF Befores
    <3> QED
      BY <3>1, <3>2
  <2> QED
    BY <1>0, <2>1, <2>3 DEF VisibleGrows
<1> QED
  BY <1>1, <1>2

LEMMA EditInProgress ==
  ASSUME TypeInv, TypeInv', Stepped, Befores, CallKept \/ UNCHANGED call,
         call'.pc \in {"edited", "editing"},
         NEW before, before = events'[call'.event].before, before # NoEvent,
         NEW b, b = call'.branch
  PROVE  before \in Visible(b)'
<1>1. call.pc \in {"edited", "editing"} /\ call'.event = call.event /\ b = call.branch
  BY DEF CallKept
<1>2. call.event \in 1 .. Len(events) /\ b \in Branches
  BY <1>1, CallIs
<1>3. before = events[call.event].before
  BY <1>1, <1>2 DEF Stepped, StoresKept, EventsKept
<1> QED
  BY <1>1, <1>2, <1>3 DEF Befores, Stepped, VisibleGrows

\* The branch an edit creates shows the frontier before the edited event.
LEMMA EditBegins ==
  ASSUME TypeInv, TypeInv', Stepped, Befores, UNCHANGED events, NEW new,
         new = Len(branches) + 1, Len(branches') = new, branches'[new].parent = current,
         NEW i \in Visible(current), NEW before, before = events[i].before, before # NoEvent,
         branches'[new].originSeq = Greatest({j \in Visible(current) : j < i})
  PROVE  before \in Visible(new)'
<1> DEFINE S == {j \in Visible(current) : j < i}
<1>1. /\ i \in 1 .. Len(events) /\ current \in Branches
      /\ \A j \in Visible(events[i].branch) : j <= i => j \in Visible(current)
      /\ Visible(current) \in SUBSET (1 .. Len(events)) /\ Len(events) \in Nat
  BY ShownBefore, Sizes, LatestIs
<1>2. before \in Visible(current) /\ before < i
  <2>1. before \in Visible(events[i].branch) /\ before < i
    BY <1>1 DEF Befores
  <2>2. i \in Nat /\ before \in Nat
    BY <1>1, EventsAre, Sizes DEF Events
  <2> QED
    BY <1>1, <2>1, <2>2
<1>3. before <= Greatest(S)
  <2>1. S \in SUBSET (0 .. Len(events)) /\ before \in S
    BY <1>1, <1>2
  <2> HIDE DEF S
  <2> QED
    BY <1>1, <2>1, GreatestIs
<1>4. before \in Inherits(new)'
  <2>1. before \in 1 .. Len(events') /\ branches'[new].originSeq = Greatest(S)
    BY <1>1, <1>2
  <2> HIDE DEF S
  <2> QED
    BY <1>3, <2>1 DEF Inherits
<1>5. before \in Shown'[current]
  BY <1>1, <1>2 DEF Stepped, VisibleGrows, Visible
<1>6. new \in 1 .. Len(branches')
  BY Sizes
<1> QED
  BY <1>4, <1>5, <1>6, ShownNext DEF Visible

LEMMA BeforesStep ==
  ASSUME TypeInv, TypeInv', Stepped, MemoryInv
  PROVE  Befores'
<1>0. StepKinds /\ Befores
  BY DEF Stepped, MemoryInv
<1>1. UNCHANGED events \/ SpeakStep
  BY <1>0 DEF StepKinds, ControlStep, ReadStep, CreateStep, WriteStep, InjectStep, StartStep,
              SettleStep, ReconcileStep
<1>2. ASSUME NEW i \in 1 .. Len(events'), NEW before, before = events'[i].before, before # NoEvent,
             NEW b, b = events'[i].branch
      PROVE  before \in Visible(b)' /\ before < i
  BY <1>0, <1>1, <1>2, OneMoreEvent
<1>3. ASSUME call'.pc \in {"edited", "editing"},
             NEW before, before = events'[call'.event].before, before # NoEvent,
             NEW b, b = call'.branch
      PROVE  before \in Visible(b)'
  <2>1. CASE CallKept \/ UNCHANGED call
    BY <1>0, <1>3, <2>1, EditInProgress
  <2>2. CASE CreateStep /\ ~CallKept
    <3>0. PICK new : new = Len(branches) + 1
      OBVIOUS
    <3>3. Len(branches') = new /\ UNCHANGED events
      BY <2>2, <3>0 DEF CreateStep
    <3>4. PICK parent \in Branches :
            LET made == branches'[Len(branches) + 1]
            IN  /\ made.parent = parent
                /\ CallKept \/ \E i \in Visible(current) :
                     /\ made.originSeq = Greatest({j \in Visible(current) : j < i})
                     /\ parent = current /\ call'.event = i /\ call'.branch = Len(branches) + 1
      BY <2>2 DEF CreateStep
    <3>1. PICK i \in Visible(current) :
            /\ branches'[new].parent = current
            /\ branches'[new].originSeq = Greatest({j \in Visible(current) : j < i})
            /\ call'.event = i /\ call'.branch = new
      BY <2>2, <3>0, <3>4
    <3>2. before = events[i].before /\ b = new
      BY <1>3, <3>1, <3>3
    <3> QED
      BY <1>0, <1>3, <3>0, <3>1, <3>2, <3>3, EditBegins
  <2>3. CallKept \/ UNCHANGED call \/ CreateStep
    BY <1>0 DEF StepKinds, ControlStep, ReadStep, SpeakStep, WriteStep, InjectStep, StartStep,
                SettleStep, ReconcileStep
  <2> QED
    BY <2>1, <2>2, <2>3
<1> QED
  BY <1>2, <1>3 DEF Befores, Visible

LEMMA PromptsStep ==
  ASSUME TypeInv, TypeInv', Stepped, MemoryInv
  PROVE  Prompts'
<1>0. StepKinds /\ ThreadsKept /\ Prompts
  BY DEF Stepped, MemoryInv
<1>1. ASSUME NEW a \in Agents, NEW w \in Workers, w = <<a, "inject">>, worker'[w].pc = "invoking"
      PROVE  \/ worker'[w] = worker[w]
             \/ /\ worker'[w].low = worker'[w].snapshot
                /\ worker'[w].from \in stored'[worker'[w].branch][a]
  <2>0. w # <<a, "router">> /\ (\A x \in Agents : w # <<x, "router">>) /\ w[2] = "inject"
    <3>1. \A x \in Agents : <<x, "router">>[2] = "router"
      OBVIOUS
    <3> QED
      BY <1>1, <3>1
  <2>1. CASE ReadStep \/ StartStep
    BY <1>1, <2>0, <2>1 DEF ReadStep, StartStep, Starts, Becomes
  <2>2. CASE SpeakStep
    <3>1. UNCHANGED worker \/ \E v \in Workers : Becomes(v, IdleWorker)
      BY <2>2 DEF SpeakStep
    <3> QED
      BY <1>1, <3>1 DEF Becomes, IdleWorker
  <2>3. CASE WriteStep
    <3>1. \A v \in Workers : LET x == [worker[v] EXCEPT !.pc = "completing"] IN x.pc = "completing"
      BY WorkersAre DEF WorkerSet
    <3>2. \/ UNCHANGED worker
          \/ \E v \in Workers : Becomes(v, [worker[v] EXCEPT !.pc = "completing"])
      BY <2>3 DEF WriteStep
    <3> QED
      BY <1>1, <3>1, <3>2 DEF Becomes
  <2>4. CASE InjectStep
    <3>1. PICK d, x, from :
            /\ d \in Agents
            /\ Becomes(<<d, "inject">>, x) /\ x.branch = current /\ x.low = Latest(current)
            /\ x.snapshot = Latest(current) /\ x.from = Len(saved) + 1
            /\ Adds(current, d, from, {})
      BY <2>4 DEF InjectStep, Starts
    <3>2. CASE d = a
      BY <1>1, <3>1, <3>2 DEF Becomes, Adds
    <3>3. CASE d # a
      <4>1. w # <<d, "inject">>
        BY <1>1, <3>3
      <4> QED
        BY <3>1, <4>1 DEF Becomes
    <3> QED
      BY <3>2, <3>3
  <2>5. CASE SettleStep
    <3>1. \A v \in Workers : LET x == [worker[v] EXCEPT !.pc = "replying"] IN x.pc = "replying"
      BY WorkersAre DEF WorkerSet
    <3>2. PICK v, x :
            v \in Workers /\ Becomes(v, x) /\ (x = IdleWorker \/ x = [worker[v] EXCEPT !.pc = "replying"])
      BY <2>5 DEF SettleStep
    <3>3. CASE x = IdleWorker
      BY <1>1, <3>2, <3>3 DEF Becomes, IdleWorker
    <3>4. CASE x = [worker[v] EXCEPT !.pc = "replying"]
      BY <1>1, <3>1, <3>2, <3>4 DEF Becomes
    <3> QED
      BY <3>2, <3>3, <3>4
  <2>6. CASE ReconcileStep
    BY <1>1, <2>6 DEF ReconcileStep, IdleWorker
  <2> QED
    BY <1>0, <2>1, <2>2, <2>3, <2>4, <2>5, <2>6 DEF StepKinds, ControlStep, CreateStep
<1>2. ASSUME NEW a \in Agents, NEW w \in Workers, w = <<a, "inject">>, worker'[w].pc = "invoking"
      PROVE  /\ worker'[w].low = worker'[w].snapshot
             /\ worker'[w].from \in stored'[worker'[w].branch][a]
  <2>1. CASE worker'[w] = worker[w]
    <3>1. /\ worker[w].branch \in Branches /\ worker[w].low = worker[w].snapshot
          /\ worker[w].from \in stored[worker[w].branch][a]
      BY <1>0, <1>2, <2>1, WorkersAre DEF Prompts
    <3> QED
      BY <1>0, <2>1, <3>1 DEF ThreadsKept
  <2> QED
    BY <1>1, <1>2, <2>1
<1>3. \A a \in Agents : <<a, "inject">> \in Workers
  BY DEF Workers, Lanes
<1> QED
  BY <1>2, <1>3 DEF Prompts

LEMMA MemoryStep ==
  ASSUME TypeInv, RunsInv, RepliesInv, HoldsInv, ThreadsInv, MemoryInv, [Next]_vars
  PROVE  MemoryInv'
<1>1. TypeInv' /\ Stepped
  BY NextSteps
<1>2. HistoryShown' /\ MemoryGrows' /\ FrontiersCover' /\ Origins'
  BY <1>1, HistoryStep, MemoryGrowsStep, FrontiersCoverStep, OriginsStep
<1>3. Befores' /\ Prompts' /\ Readings'
  BY <1>1, BeforesStep, PromptsStep, ReadingsStep
<1> QED
  BY <1>2, <1>3 DEF MemoryInv

LEMMA InitMemory == Init => MemoryInv
<1> SUFFICES ASSUME Init PROVE MemoryInv
  OBVIOUS
<1>1. /\ events = <<>> /\ branches = <<>> /\ saved = <<>> /\ frontiers = <<>>
      /\ call.pc = "idle" /\ \A a \in Agents : stored[Main][a] = {}
      /\ \A w \in Workers : worker[w].pc = "idle"
  BY DEF Init, IdleCall, IdleWorker
<1>2. Branches = {Main} /\ \A a \in Agents : <<a, "router">> \in Workers /\ <<a, "inject">> \in Workers
  BY <1>1 DEF Branches, Main, Workers, Lanes
<1>3. HistoryShown
  BY <1>1, <1>2 DEF HistoryShown, Remembered
<1>4. MemoryGrows /\ FrontiersCover /\ Origins
  BY <1>1 DEF MemoryGrows, FrontiersCover, Origins
<1>5. Befores
  BY <1>1 DEF Befores
<1>6. Prompts /\ Readings
  BY <1>1, <1>2 DEF Prompts, Readings
<1> QED
  BY <1>3, <1>4, <1>5, <1>6 DEF MemoryInv

LEMMA MemoryInvariant == Spec => []MemoryInv
<1>1. TypeInv /\ RunsInv /\ RepliesInv /\ HoldsInv /\ ThreadsInv /\ MemoryInv /\ [Next]_vars
        => MemoryInv'
  BY MemoryStep
<1> QED
  BY <1>1, InitMemory, TypeInvariant, RunsInvariant, RepliesInvariant, HoldsInvariant,
     ThreadsInvariant, PTL DEF Spec

\* Whatever edits, replays, prompts and restarts come together, an agent remembers in a branch
\* only what the branch shows: a fork takes a thread over from a frontier at or before what
\* the branch inherits (_fork_branch_thread_if_possible), and a frontier remembers nothing later
\* than its event.
THEOREM NoForeignHistoryCorrect == Spec => []NoForeignHistory
<1>1. TypeInv /\ MemoryInv => NoForeignHistory
  <2> SUFFICES ASSUME TypeInv, MemoryInv, NEW b \in Branches, NEW a \in Agents, ~Overtaken(a),
                      NEW cp \in stored[b][a]
               PROVE  MemoryOf(cp) \subseteq Visible(b)
    BY DEF NoForeignHistory
  <2>1. MemoryOf(cp) \in SUBSET Events
    BY MemoryIs, ThreadsAre, Sizes DEF Checkpoints
  <2> QED
    BY <2>1 DEF MemoryInv, HistoryShown, Remembered
<1> QED
  BY <1>1, TypeInvariant, MemoryInvariant, PTL

\* A frontier new branches may take a thread over from is that of a run the router committed
\* with a stable outcome (record_thread_frontier, _record_terminal_run_frontier), and covers
\* what its checkpoint remembers.
THEOREM UsableFrontierSettledCorrect == Spec => []UsableFrontierSettled
<1>1. HoldsInv /\ MemoryInv => UsableFrontierSettled
  BY DEF HoldsInv, FrontiersSettled, MemoryInv, FrontiersCover, UsableFrontierSettled
<1> QED
  BY <1>1, HoldsInvariant, MemoryInvariant, PTL

----------------------------------------------------------------------------
(* What the cursors of the agents have passed.                              *)

\* A run of the router reads on from no further than the cursor of its agent is by now.
NothingAhead ==
  \A w \in Workers : w[2] = "router" /\ Reading(w) =>
    worker[w].low <= agent[worker[w].branch][w[1]].lastDelivered

CursorsInv == NothingSkipped /\ NothingAhead

\* A run was given an event.
Gave(r, b, a, i) ==
  /\ runs[r].agent = a /\ runs[r].branch \in Ancestors[b] /\ runs[r].commit = "committed"
  /\ i <= runs[r].snapshot /\ (runs[r].lane = "inject" \/ runs[r].low < i)

\* A cursor stays, or moves to what a run that ends has read.
CursorMoves(b, a) ==
  LET old == agent[b][a].lastDelivered
  IN  \/ agent'[b][a].lastDelivered = old
      \/ \E w \in Workers :
           LET r == worker[w].run
           IN  /\ w[1] = a /\ AtWork(w) /\ worker[w].branch = b /\ agent[b][a].currentRun = r
               /\ agent'[b][a].lastDelivered = Later(worker[w].snapshot, old)
               /\ \E status \in Statuses : runs'[r] = SettledRun(r, status)

LEMMA AncestorsNext ==
  TypeInv' => /\ Ancestors'[Main] = {Main}
              /\ \A b \in 1 .. Len(branches') :
                   Ancestors'[b] = {b} \union Ancestors'[branches'[b].parent]
BY EquationsHold DEF AncestorsEquations

LEMMA AncestorsKept ==
  ASSUME TypeInv, TypeInv', StoresKept
  PROVE  \A b \in Branches : Ancestors'[b] = Ancestors[b] /\ b \in Ancestors[b]
<1> DEFINE T == {b \in Branches : Ancestors'[b] = Ancestors[b] /\ b \in Ancestors[b]}
<1>1. /\ Main \in Branches
      /\ \A b \in 1 .. Len(branches) : b \in 1 .. Len(branches') /\ b \in Branches
  <2>1. Len(branches') \in Nat /\ Len(branches) <= Len(branches') /\ Len(branches) \in Nat
    BY Sizes DEF StoresKept, BranchesKept, TypeInv, TypeOK
  <2> QED
    BY <2>1, Sizes, SmallIds
<1>2. Main \in T
  BY <1>1, AncestorsIs, AncestorsNext
<1>3. ASSUME NEW b \in 1 .. Len(branches), branches[b].parent \in T
      PROVE  b \in T
  <2>1. branches'[b].parent = branches[b].parent
    BY DEF StoresKept, BranchesKept
  <2>2. /\ Ancestors[b] = {b} \union Ancestors[branches[b].parent]
        /\ Ancestors'[b] = {b} \union Ancestors'[branches[b].parent]
    BY <1>1, <2>1, AncestorsIs, AncestorsNext
  <2> QED
    BY <1>1, <1>3, <2>2
<1>4. Branches \subseteq T
  <2> HIDE DEF T
  <2> QED
    BY <1>2, <1>3, BranchInduction
<1> QED
  BY <1>4

LEMMA CursorsMove ==
  ASSUME TypeInv, StepKinds
  PROVE  \A b \in Branches, a \in Agents : CursorMoves(b, a)
<1>1. CASE AgentsCalm
  BY <1>1 DEF AgentsCalm, Calm, CursorMoves
<1>2. CASE UNCHANGED agent
  BY <1>2 DEF CursorMoves
<1>3. CASE CreateStep
  BY <1>3 DEF CreateStep, CursorMoves
<1>4. CASE InjectStep
  <2>1. PICK d, x :
          /\ d \in Agents
          /\ x.branch = current
          /\ \E s : AgentBecomes(x.branch, d, s) /\ s.lastDelivered = agent[x.branch][d].lastDelivered
    <3>1. \A d : <<d, "inject">>[1] = d
      OBVIOUS
    <3> QED
      BY <1>4, <3>1 DEF InjectStep, Starts
  <2> QED
    BY <2>1, Sizes DEF AgentBecomes, CursorMoves
<1>5. CASE StartStep
  <2>1. PICK d \in Agents, b \in Branches :
          \E s : AgentBecomes(b, d, s) /\ s.lastDelivered = agent[b][d].lastDelivered
    <3>1. \A d : <<d, "router">>[1] = d
      OBVIOUS
    <3>2. \A d \in Agents : worker[<<d, "router">>].branch \in Branches
      BY WorkersAre DEF Workers, Lanes
    <3>3. PICK d, x :
            d \in Agents /\ x.branch = worker[<<d, "router">>].branch /\ Starts(<<d, "router">>, x)
      BY <1>5 DEF StartStep
    <3>4. \E s : AgentBecomes(x.branch, d, s) /\ s.lastDelivered = agent[x.branch][d].lastDelivered
      BY <3>1, <3>3 DEF Starts
    <3>5. x.branch \in Branches
      BY <3>2, <3>3
    <3> QED
      BY <3>3, <3>4, <3>5
  <2> QED
    BY <2>1 DEF AgentBecomes, CursorMoves
<1>6. CASE SettleStep
  <2>1. PICK w, status, s :
          /\ w \in Workers /\ status \in Statuses \ {"running"}
          /\ AtWork(w) /\ runs'[worker[w].run] = SettledRun(worker[w].run, status)
          /\ AgentBecomes(worker[w].branch, w[1], s)
          /\ IF agent[worker[w].branch][w[1]].currentRun = worker[w].run
               THEN s.lastDelivered \in
                      {agent[worker[w].branch][w[1]].lastDelivered,
                       Later(worker[w].snapshot, agent[worker[w].branch][w[1]].lastDelivered)}
               ELSE s = agent[worker[w].branch][w[1]]
    BY <1>6 DEF SettleStep
  <2>2. ASSUME NEW b \in Branches, NEW a \in Agents PROVE CursorMoves(b, a)
    <3>1. CASE <<b, a>> = <<worker[w].branch, w[1]>>
      <4>1. b = worker[w].branch /\ a = w[1] /\ agent'[b][a] = s
        BY <2>1, <3>1 DEF AgentBecomes
      <4>2. CASE agent[b][a].currentRun = worker[w].run
        BY <2>1, <4>1, <4>2 DEF CursorMoves
      <4>3. CASE agent[b][a].currentRun # worker[w].run
        BY <2>1, <4>1, <4>3 DEF CursorMoves
      <4> QED
        BY <4>2, <4>3
    <3>2. CASE <<b, a>> # <<worker[w].branch, w[1]>>
      BY <2>1, <3>2 DEF AgentBecomes, CursorMoves
    <3> QED
      BY <3>1, <3>2
  <2> QED
    BY <2>2
<1> QED
  BY <1>1, <1>2, <1>3, <1>4, <1>5, <1>6
  DEF StepKinds, ControlStep, ReadStep, SpeakStep, WriteStep, ReconcileStep

\* What was given stays given.
LEMMA GivenStays ==
  ASSUME TypeInv, TypeInv', StoresKept, FinalKept, NEW b \in Branches, NEW a \in Agents, NEW i,
         NEW r \in 1 .. Len(runs), Gave(r, b, a, i)
  PROVE  r \in 1 .. Len(runs') /\ Gave(r, b, a, i)'
<1>1. runs'[r] = runs[r] /\ Ancestors'[b] = Ancestors[b]
  BY AncestorsKept DEF Gave, FinalKept
<1>2. Len(runs') \in Nat /\ Len(runs) <= Len(runs') /\ Len(runs) \in Nat
  BY Sizes DEF StoresKept, RunsKept, TypeInv, TypeOK
<1> QED
  BY <1>1, <1>2 DEF Gave

\* A run that moves the cursor of its agent was given what the cursor passes.
LEMMA RunGives ==
  ASSUME TypeInv, TypeInv', Stepped, RunsInv, RepliesInv, HoldsInv, NothingAhead,
         NEW b \in Branches, NEW a \in Agents, NEW i \in Nat, i > agent[b][a].lastDelivered,
         i <= agent'[b][a].lastDelivered
  PROVE  \E r \in 1 .. Len(runs') : Gave(r, b, a, i)'
<1>0. agent[b][a].lastDelivered \in Nat
  BY ThreadsAre, Sizes DEF DeliverySet, DeliveryStates, Events
<1>1. PICK w, status, r :
        /\ w \in Workers /\ status \in Statuses
        /\ r = worker[w].run /\ w[1] = a /\ AtWork(w) /\ worker[w].branch = b
        /\ agent[b][a].currentRun = r
        /\ agent'[b][a].lastDelivered = Later(worker[w].snapshot, agent[b][a].lastDelivered)
        /\ runs'[r] = SettledRun(r, status)
  <2>1. CursorMoves(b, a)
    BY CursorsMove DEF Stepped
  <2>2. agent'[b][a].lastDelivered # agent[b][a].lastDelivered
    BY <1>0
  <2> QED
    BY <2>1, <2>2 DEF CursorMoves
<1>2. /\ r \in 1 .. Len(runs) /\ runs[r].commit = "pending"
      /\ Matches(worker[w], w, runs[r])
  <2>1. r \in 1 .. Len(runs)
    BY <1>1 DEF RunsInv, WorkersOwnRecords
  <2> QED
    BY <1>1, <2>1 DEF HoldsInv, RunsHeld, RepliesInv, WorkersMatch, AtRun, AtWork
<1>3. /\ runs'[r].commit = "committed" /\ runs'[r].agent = a /\ runs'[r].lane = w[2]
      /\ runs'[r].branch = b /\ runs'[r].low = worker[w].low
      /\ runs'[r].snapshot = worker[w].snapshot
  BY <1>1, <1>2, SettledIs DEF Matches
<1>4. i <= worker[w].snapshot
  BY <1>0, <1>1, WorkersAre, Sizes DEF Later, Events
<1>5. w[2] = "inject" \/ worker[w].low < i
  <2>1. CASE w[2] = "router"
    <3>1. worker[w].low <= agent[b][a].lastDelivered
      BY <1>1, <2>1 DEF NothingAhead, Reading, AtWork
    <3>2. worker[w].low \in Nat
      BY <1>1, WorkersAre, Sizes DEF Events
    <3> QED
      BY <1>0, <3>1, <3>2
  <2> QED
    BY <1>1, <2>1, WorkersAre DEF Lanes
<1>6. b \in Ancestors'[b]
  BY AncestorsKept DEF Stepped
<1>7. r \in 1 .. Len(runs')
  <2>1. Len(runs') \in Nat /\ Len(runs) <= Len(runs') /\ Len(runs) \in Nat
    BY Sizes DEF Stepped, StoresKept, RunsKept, TypeInv, TypeOK
  <2> QED
    BY <1>2, <2>1
<1> QED
  BY <1>3, <1>4, <1>5, <1>6, <1>7 DEF Gave

\* A branch is created with cursors that have passed what those of its parent have.
LEMMA CreationGives ==
  ASSUME TypeInv, TypeInv', Stepped, NothingSkipped, CreateStep, NEW a \in Agents,
         NEW b, b = Len(branches) + 1, NEW i \in Visible(b)', i <= agent'[b][a].lastDelivered
  PROVE  \E r \in 1 .. Len(runs') : Gave(r, b, a, i)'
<1>1. PICK parent \in Branches :
        /\ branches'[b].parent = parent
        /\ agent'[b][a] = [NewDeliveryState EXCEPT
             !.lastDelivered = ForkCursor(agent[parent][a], branches'[b].originSeq)]
  BY DEF CreateStep
<1>2. Len(branches') = b /\ UNCHANGED <<events, runs>>
  BY DEF CreateStep
<1>3. agent[parent][a].lastDelivered \in Nat
  BY ThreadsAre, Sizes DEF DeliverySet, DeliveryStates, Events
<1>4. branches'[b].originSeq \in Events \union {NoLimit}
  <2>1. \A d \in 1 .. Len(branches') : branches'[d].originSeq \in Events' \union {NoLimit}
    BY EquationsHold DEF OriginsTyped
  <2>2. b \in 1 .. Len(branches') /\ Events' = Events
    BY <1>2, Sizes DEF Events
  <2> QED
    BY <2>1, <2>2
<1>5. i \in Visible(parent) /\ i \in Nat
  <2>1. b \in 1 .. Len(branches') /\ b \notin Branches
    BY <1>2, Sizes
  <2>2. i \in Own(b)' \/ i \in Shown'[parent]
    BY <1>1, <2>1, ShownNext DEF Visible
  <2>3. i \in 1 .. Len(events)
    <3>1. b \in Branches'
      BY <1>2, Sizes DEF Branches
    <3> QED
      BY <1>2, <3>1, LatestNext
  <2>4. i \notin Own(b)'
    BY <1>2, <2>1, <2>3, EventsAre DEF Own
  <2> QED
    BY <2>2, <2>3, <2>4 DEF Stepped, VisibleGrows, Visible
<1>6. i <= agent[parent][a].lastDelivered
  <2>1. agent'[b][a].lastDelivered = ForkCursor(agent[parent][a], branches'[b].originSeq)
    BY <1>1 DEF NewDeliveryState
  <2>2. ForkCursor(agent[parent][a], branches'[b].originSeq) <= agent[parent][a].lastDelivered
    BY <1>3, <1>4, Sizes DEF ForkCursor, NoLimit, Events
  <2>3. ForkCursor(agent[parent][a], branches'[b].originSeq) \in Int
    BY <1>3, <1>4, Sizes DEF ForkCursor, NoLimit, Events
  <2> QED
    BY <1>3, <1>5, <2>1, <2>2, <2>3
<1>7. PICK r \in 1 .. Len(runs) : Gave(r, parent, a, i)
  BY <1>5, <1>6 DEF NothingSkipped, Gave
<1>8. r \in 1 .. Len(runs') /\ Gave(r, parent, a, i)'
  BY <1>7, GivenStays DEF Stepped
<1>9. Ancestors'[parent] \subseteq Ancestors'[b]
  <2>1. b \in 1 .. Len(branches')
    BY <1>2, Sizes
  <2> QED
    BY <1>1, <2>1, AncestorsNext
<1> QED
  BY <1>8, <1>9 DEF Gave

LEMMA SkippedStep ==
  ASSUME TypeInv, TypeInv', Stepped, RunsInv, RepliesInv, HoldsInv, CursorsInv
  PROVE  NothingSkipped'
<1>1. ASSUME NEW b \in Branches', NEW a \in Agents, NEW i \in Visible(b)',
             i <= agent'[b][a].lastDelivered
      PROVE  \E r \in 1 .. Len(runs') : Gave(r, b, a, i)'
  <2>1. CASE b \in Branches
    <3>1. agent[b][a].lastDelivered \in 0 .. Len(events) /\ Len(events) \in Nat
      BY <2>1, ThreadsAre, Sizes DEF DeliverySet, DeliveryStates, Events
    <3>2. i \in Nat
      BY <1>1, LatestNext
    <3>3. CASE i <= agent[b][a].lastDelivered
      <4>1. i \in Visible(b)
        BY <1>1, <2>1, <3>1, <3>2, <3>3 DEF Stepped, VisibleGrows
      <4>2. PICK r \in 1 .. Len(runs) : Gave(r, b, a, i)
        BY <2>1, <3>3, <4>1 DEF CursorsInv, NothingSkipped, Gave
      <4> QED
        BY <2>1, <4>2, GivenStays DEF Stepped
    <3>4. CASE i > agent[b][a].lastDelivered
      BY <1>1, <2>1, <3>2, <3>4, RunGives DEF CursorsInv
    <3> QED
      BY <3>1, <3>2, <3>3, <3>4
  <2>2. CASE b \notin Branches
    <3>1. CreateStep /\ b = Len(branches) + 1
      <4>1. CreateStep \/ Len(branches') = Len(branches)
        BY DEF Stepped, StepKinds, ControlStep, ReadStep, SpeakStep, WriteStep, InjectStep,
               StartStep, SettleStep, ReconcileStep
      <4>2. CreateStep
        BY <1>1, <2>2, <4>1 DEF Branches
      <4>3. Len(branches') = Len(branches) + 1
        BY <4>2 DEF CreateStep
      <4> QED
        BY <1>1, <2>2, <4>2, <4>3, Sizes DEF Branches
    <3> QED
      BY <1>1, <3>1, CreationGives DEF CursorsInv
  <2> QED
    BY <2>1, <2>2
<1> QED
  BY <1>1 DEF NothingSkipped, Gave, Visible

LEMMA AheadStep ==
  ASSUME TypeInv, TypeInv', Stepped, CursorsInv
  PROVE  NothingAhead'
<1>1. ASSUME NEW w \in Workers, w[2] = "router", Reading(w)',
             NEW b \in Branches, b = worker'[w].branch
      PROVE  worker'[w].low <= agent'[b][w[1]].lastDelivered
  <2>1. w[1] \in Agents
    BY WorkersAre
  <2>2. /\ agent[b][w[1]].lastDelivered \in Nat
        /\ agent'[b][w[1]].lastDelivered \in Nat
        /\ agent[b][w[1]].lastDelivered <= agent'[b][w[1]].lastDelivered
    <3>1. agent[b][w[1]].lastDelivered \in Nat
      BY <2>1, ThreadsAre, Sizes DEF DeliverySet, DeliveryStates, Events
    <3>2. CursorMoves(b, w[1])
      BY <2>1, CursorsMove DEF Stepped
    <3>3. \A v \in Workers : worker[v].snapshot \in Nat
      BY WorkersAre, Sizes DEF Events
    <3> QED
      BY <3>1, <3>2, <3>3 DEF CursorMoves, Later
  <2>3. CASE HasRead(w)
    <3>1. worker'[w].low = agent[b][w[1]].lastDelivered
      BY <1>1, <2>3 DEF HasRead
    <3> QED
      BY <2>2, <3>1
  <2>4. CASE GoesOn(w)
    <3>1. worker[w].low <= agent[b][w[1]].lastDelivered /\ worker'[w].low = worker[w].low
      BY <1>1, <2>4 DEF GoesOn, CursorsInv, NothingAhead
    <3>2. worker[w].low \in Nat
      BY WorkersAre, Sizes DEF Events
    <3> QED
      BY <2>2, <3>1, <3>2
  <2> QED
    BY <1>1, <2>3, <2>4, RouterWorkers DEF Stepped
<1>2. ASSUME NEW w \in Workers, w[2] = "router", Reading(w)'
      PROVE  worker'[w].branch \in Branches
  BY <1>2, RouterWorkers, WorkersAre, Sizes DEF Stepped, GoesOn, HasRead
<1> QED
  BY <1>1, <1>2 DEF NothingAhead, Reading

LEMMA InitCursors == Init => CursorsInv
<1> SUFFICES ASSUME Init PROVE CursorsInv
  OBVIOUS
<1>1. /\ events = <<>> /\ branches = <<>> /\ \A w \in Workers : worker[w].pc = "idle"
  BY DEF Init, IdleWorker
<1>2. TypeInv /\ Branches = {Main}
  BY <1>1, InitTyped DEF Branches, Main
<1>3. \A b \in Branches : Visible(b) = {}
  BY <1>1, <1>2, LatestIs
<1> QED
  BY <1>1, <1>3 DEF CursorsInv, NothingSkipped, NothingAhead, Reading

LEMMA CursorsInvariant == Spec => []CursorsInv
<1>1. TypeInv /\ RunsInv /\ RepliesInv /\ HoldsInv /\ ThreadsInv /\ MemoryInv /\ CursorsInv
        /\ [Next]_vars => CursorsInv'
  BY NextSteps, SkippedStep, AheadStep DEF CursorsInv
<1> QED
  BY <1>1, InitCursors, TypeInvariant, RunsInvariant, RepliesInvariant, HoldsInvariant,
     ThreadsInvariant, MemoryInvariant, PTL DEF Spec

\* A cursor passes no message its agent was not given: complete_run and record_delivery move it
\* to the snapshot of the run the agent holds and of no other, that run read on from where the
\* cursor was, and a new branch (_initialize_branch_agent_states) starts no further than its
\* parent was.
THEOREM NothingSkippedCorrect == Spec => []NothingSkipped
<1>1. CursorsInv => NothingSkipped
  BY DEF CursorsInv
<1> QED
  BY <1>1, CursorsInvariant, PTL

----------------------------------------------------------------------------
(* What Studio shows.                                                       *)

\* Users look at a branch that is not archived.
CurrentOpen == current = Main \/ ~branches[current].archived

\* What an agent waits for is a message its branch shows.
QueuesShown ==
  \A b \in Branches, a \in Agents : agent[b][a].queued => agent[b][a].queuedAfter \in Visible(b)

\* So is what a run has read up to, and the place of a frontier.
SnapshotsShown ==
  /\ \A r \in 1 .. Len(runs) : runs[r].snapshot \in Visible(runs[r].branch)
  /\ \A w \in Workers : worker[w].pc = "starting" => worker[w].snapshot \in Visible(worker[w].branch)
  /\ \A k \in 1 .. Len(frontiers) : frontiers[k].event \in Visible(frontiers[k].branch)

ViewInv == CurrentOpen /\ QueuesShown /\ SnapshotsShown

LEMMA OpenStep ==
  ASSUME TypeInv, CurrentOpen, [Next]_vars
  PROVE  CurrentOpen'
<1>1. ASSUME NEW b \in Branches, SwitchTo(b), UNCHANGED branches
      PROVE  CurrentOpen'
  BY <1>1 DEF SwitchTo, CurrentOpen
<1>2. ASSUME NEW b \in Branches, ArchiveBranch(b)
      PROVE  CurrentOpen'
  <2>1. branches' = [branches EXCEPT ![b].archived = TRUE] /\ b # current /\ UNCHANGED current
    BY <1>2 DEF ArchiveBranch
  <2> QED
    BY <2>1 DEF CurrentOpen
<1>3. ASSUME NEW parent, NEW event, NEW checkpoint, NEW seq,
             CreateBranch(parent, event, checkpoint, seq), UNCHANGED current
      PROVE  CurrentOpen'
  <2> DEFINE made == [parent |-> parent, originEvent |-> event, originCheckpoint |-> checkpoint,
                      originSeq |-> seq, archived |-> FALSE]
             S    == BranchSet(Branches, Events, Checkpoints) \union {made}
  <2>1. branches' = Append(branches, made)
    BY <1>3 DEF CreateBranch
  <2>2. branches \in Seq(S) /\ made \in S
    BY BranchesAre, SequencesGrow
  <2> HIDE DEF made, S
  <2>3. \A b \in 1 .. Len(branches) : branches'[b] = branches[b]
    BY <2>1, <2>2
  <2>4. current = Main \/ current \in 1 .. Len(branches)
    BY Sizes DEF Main
  <2> QED
    BY <1>3, <2>3, <2>4 DEF CurrentOpen
<1>4. ASSUME UNCHANGED <<branches, current>> PROVE CurrentOpen'
  BY <1>4 DEF CurrentOpen
<1>5. ASSUME NEW a \in Agents,
             \/ ResumeInvokes(a) \/ InjectStarts(a) \/ WorkerChosen(a) \/ WorkerReads(a)
             \/ WorkerStartsRun(a) \/ WorkerSkips(a)
      PROVE  CurrentOpen'
  BY <1>4, <1>5 DEF ResumeInvokes, InjectStarts, WorkerChosen, WorkerReads, WorkerStartsRun,
                    WorkerSkips, Settles
<1>6. ASSUME NEW w \in Workers,
             \/ WorkerInvokes(w) \/ WorkerCallsRelationTool(w) \/ WorkerCompletes(w)
             \/ WorkerRaises(w) \/ WorkerReplies(w)
      PROVE  CurrentOpen'
  BY <1>4, <1>6 DEF WorkerInvokes, WorkerCallsRelationTool, WorkerCompletes, WorkerRaises,
                    WorkerReplies, Settles
<1>7. CASE \/ AppendHumanMessage \/ EditAppends \/ ResumeFails \/ ResumeAppends \/ Restart
           \/ UNCHANGED vars
  BY <1>4, <1>7 DEF AppendHumanMessage, EditAppends, ResumeFails, ResumeAppends, Restart, vars
<1>8. CASE \/ CallSwitchesBranch \/ \E b \in Branches : SwitchBranch(b)
  BY <1>1, <1>8, CallIs DEF CallSwitchesBranch, SwitchBranch
<1>9. CASE \/ ResumeCreatesBranch \/ \E i \in 1 .. Len(events) : EditCreatesBranch(i)
           \/ \E a \in Agents : CreateBranchFromCheckpoint(a)
  BY <1>3, <1>9 DEF ResumeCreatesBranch, EditCreatesBranch, CreateBranchFromCheckpoint
<1> QED
  BY <1>2, <1>5, <1>6, <1>7, <1>8, <1>9 DEF Next

\* An agent waits for what it waited for, if it does at all.
QueueKept(s, t) == s.queued => t.queued /\ s.queuedAfter = t.queuedAfter

QueuesKept == \A b \in Branches, a \in Agents : QueueKept(agent'[b][a], agent[b][a])

LEMMA OperationsKeepQueue ==
  ASSUME TypeInv, NEW s \in DeliverySet(Events, RunIds), NEW seq \in Events
  PROVE  /\ QueueKept(s, s)
         /\ \A run \in RunIds : QueueKept(MarkRunStarted(s, run, seq), s)
         /\ \A run : \A delivered \in BOOLEAN : QueueKept(CompleteRun(s, run, seq, delivered), s)
         /\ \A run : QueueKept(ReleaseRun(s, run), s)
         /\ \A run, status : \A delivered \in BOOLEAN :
              QueueKept(ClearRunAgentState(CompleteRun(s, run, seq, delivered), run, seq, status), s)
<1>1. s \in DeliveryStates(Events, RunIds \union {BlankRun})
  BY DEF DeliverySet
<1>2. QueueKept(s, s)
  BY DEF QueueKept
<1>3. \A run \in RunIds : QueueKept(MarkRunStarted(s, run, seq), s)
  BY <1>1 DEF QueueKept, MarkRunStarted, KeepsQueue, DeliveryStates
<1>4. \A run : \A delivered \in BOOLEAN : QueueKept(CompleteRun(s, run, seq, delivered), s)
  BY <1>1 DEF QueueKept, CompleteRun, KeepsQueue, DeliveryStates
<1>5. \A run : QueueKept(ReleaseRun(s, run), s)
  BY <1>1 DEF QueueKept, ReleaseRun, DeliveryStates
<1>6. ASSUME NEW run, NEW status, NEW t \in DeliverySet(Events, RunIds)
      PROVE  QueueKept(ClearRunAgentState(t, run, seq, status), t)
  BY <1>6 DEF QueueKept, ClearRunAgentState, DeliverySet, DeliveryStates
<1>7. \A run : \A delivered \in BOOLEAN :
        CompleteRun(s, run, seq, delivered) \in DeliverySet(Events, RunIds)
  <2>1. Events \in SUBSET Nat /\ 0 \in Events /\ 0 \in RunIds
    BY Sizes DEF Events, RunIds
  <2> QED
    BY <2>1, DeliverySetKept
<1> QED
  BY <1>2, <1>3, <1>4, <1>5, <1>6, <1>7 DEF QueueKept

LEMMA SavedKeepsQueues ==
  ASSUME TypeInv, NEW b \in Branches, NEW a \in Agents, NEW s, SaveAgentState(b, a, s),
         QueueKept(s, agent[b][a])
  PROVE  QueuesKept
<1>1. AgentBecomes(b, a, s)
  BY AgentIsSaved
<1>2. \A d \in Branches, x \in Agents : QueueKept(agent[d][x], agent[d][x])
  BY DEF QueueKept
<1> QED
  BY <1>1, <1>2 DEF QueuesKept, AgentBecomes

LEMMA SameKeepsQueues ==
  ASSUME UNCHANGED agent
  PROVE  QueuesKept
BY DEF QueuesKept, QueueKept

LEMMA KeptQueuesShown ==
  ASSUME TypeInv, VisibleGrows, QueuesShown, QueuesKept, UNCHANGED branches
  PROVE  QueuesShown'
<1>1. Branches' = Branches
  BY DEF Branches
<1>2. ASSUME NEW b \in Branches, NEW a \in Agents, agent'[b][a].queued
      PROVE  agent'[b][a].queuedAfter \in Visible(b)'
  <2>1. agent[b][a].queued /\ agent'[b][a].queuedAfter = agent[b][a].queuedAfter
    BY <1>2 DEF QueuesKept, QueueKept
  <2>2. Visible(b) \subseteq Visible(b)'
    BY DEF VisibleGrows
  <2> QED
    BY <2>1, <2>2 DEF QueuesShown
<1> QED
  BY <1>1, <1>2 DEF QueuesShown

\* A message is one of its branch.
LEMMA AppendedShown ==
  ASSUME TypeInv, TypeInv', NEW b \in Branches', Len(events') = Len(events) + 1,
         events'[Len(events) + 1].branch = b
  PROVE  Len(events) + 1 \in Visible(b)'
<1>1. Len(events) + 1 \in 1 .. Len(events')
  BY Sizes
<1>2. Len(events) + 1 \in Own(b)'
  BY <1>1 DEF Own
<1>3. b = Main \/ b \in 1 .. Len(branches')
  <2>1. Branches' = 0 .. Len(branches') /\ Len(branches') \in Nat
    BY DEF Branches, TypeInv, TypeOK
  <2> QED
    BY <2>1 DEF Main
<1> QED
  BY <1>2, <1>3, ShownNext DEF Visible

LEMMA AsksShown ==
  ASSUME TypeInv, VisibleGrows, QueuesShown, UNCHANGED branches, NEW b \in Branches,
         NEW targets \in SUBSET Agents, Asks(b, targets, Len(events) + 1),
         Len(events) + 1 \in Visible(b)'
  PROVE  QueuesShown'
<1> DEFINE n    == Len(events) + 1
           next == [a \in Agents |-> IF a \in targets THEN Enqueue(agent[b][a], n) ELSE agent[b][a]]
<1>1. agent' = [agent EXCEPT ![b] = next] /\ agent \in [Branches -> [Agents -> DeliverySet(Events, RunIds)]]
  BY ThreadsAre DEF Asks
<1>2. \A d \in Branches, a \in Agents :
        agent'[d][a] = IF d = b /\ a \in targets THEN Enqueue(agent[d][a], n) ELSE agent[d][a]
  BY <1>1
<1>3. Branches' = Branches
  BY DEF Branches
<1>4. ASSUME NEW d \in Branches, NEW a \in Agents, agent'[d][a].queued
      PROVE  agent'[d][a].queuedAfter \in Visible(d)'
  <2>1. CASE d = b /\ a \in targets
    <3>1. agent[d][a] \in DeliverySet(Events, RunIds)
      BY <1>1
    <3>2. agent[d][a].queuedAfter \in 0 .. Len(events) /\ Len(events) \in Nat
      BY <3>1, Sizes DEF DeliverySet, DeliveryStates, Events
    <3>3. Enqueue(agent[d][a], n).queuedAfter = Later(n, agent[d][a].queuedAfter)
      BY <3>1 DEF Enqueue, DeliverySet, DeliveryStates
    <3>4. Later(n, agent[d][a].queuedAfter) = n
      BY <3>2 DEF Later
    <3> QED
      BY <1>2, <2>1, <3>3, <3>4
  <2>2. CASE ~(d = b /\ a \in targets)
    <3>1. agent'[d][a] = agent[d][a] /\ Visible(d) \subseteq Visible(d)'
      BY <1>2, <2>2 DEF VisibleGrows
    <3> QED
      BY <1>4, <3>1 DEF QueuesShown
  <2> QED
    BY <2>1, <2>2
<1> QED
  BY <1>3, <1>4 DEF QueuesShown

LEMMA MessagesShown ==
  ASSUME TypeInv, TypeInv', VisibleGrows, QueuesShown,
         \/ AppendHumanMessage \/ EditAppends \/ \E w \in Workers : WorkerReplies(w)
  PROVE  QueuesShown'
<1>1. ASSUME NEW b \in Branches, NEW author \in Agents \union {Human}, NEW before \in Events,
             NEW run \in RunIds, events' = Append(events, NewEvent(author, b, before, run)),
             UNCHANGED branches, NEW targets \in SUBSET Agents, Asks(b, targets, Len(events) + 1)
      PROVE  QueuesShown'
  <2>1. Len(events') = Len(events) + 1 /\ events'[Len(events) + 1].branch = b
    BY <1>1, EventAppended
  <2>2. b \in Branches'
    BY <1>1 DEF Branches
  <2>3. Len(events) + 1 \in Visible(b)'
    BY <2>1, <2>2, AppendedShown
  <2> QED
    BY <1>1, <2>3, AsksShown
<1>2. CASE AppendHumanMessage
  BY <1>1, <1>2, Sizes, SmallIds DEF AppendHumanMessage
<1>3. CASE EditAppends
  <2>1. call.branch \in Branches /\ events[call.event].before \in Events
    BY <1>3, CallIs, EventsAre DEF EditAppends
  <2> QED
    BY <1>1, <1>3, <2>1, SmallIds DEF EditAppends
<1>4. ASSUME NEW w \in Workers, WorkerReplies(w)
      PROVE  QueuesShown'
  <2>1. worker[w].branch \in Branches /\ w[1] \in Agents /\ worker[w].run \in RunIds
    BY WorkersAre
  <2>2. PICK targets \in SUBSET (Agents \ {w[1]}) : Asks(worker[w].branch, targets, Len(events) + 1)
    BY <1>4 DEF WorkerReplies
  <2>3. targets \in SUBSET Agents
    OBVIOUS
  <2>4. /\ events' = Append(events, NewEvent(w[1], worker[w].branch, NoEvent, worker[w].run))
        /\ UNCHANGED branches
    BY <1>4 DEF WorkerReplies
  <2> QED
    BY <1>1, <2>1, <2>2, <2>3, <2>4, SmallIds
<1> QED
  BY <1>2, <1>3, <1>4

LEMMA CreationKeepsQueues ==
  ASSUME TypeInv, VisibleGrows, QueuesShown, CreateStep
  PROVE  QueuesShown'
<1> DEFINE new == Len(branches) + 1
<1>1. Branches' = Branches \union {new} /\ \A b \in Branches : agent'[b] = agent[b]
  BY Sizes DEF Branches, CreateStep
<1>2. \A a \in Agents : ~agent'[new][a].queued
  BY DEF CreateStep, NewDeliveryState
<1>3. \A b \in Branches : Visible(b) \subseteq Visible(b)'
  BY DEF VisibleGrows
<1> HIDE DEF new
<1> QED
  BY <1>1, <1>2, <1>3 DEF QueuesShown

\* The steps of a run leave the queue of its agent, or drop it.
LEMMA RunsKeepQueues ==
  ASSUME TypeInv,
         \/ \E a \in Agents : WorkerReads(a) \/ WorkerStartsRun(a) \/ InjectStarts(a)
         \/ \E w \in Workers : \E status : AtWork(w) /\ Settles(w, status)
  PROVE  QueuesKept
<1>0. /\ \A b \in Branches, a \in Agents : agent[b][a] \in DeliverySet(Events, RunIds)
      /\ \A w \in Workers : /\ worker[w].branch \in Branches /\ worker[w].snapshot \in Events
                            /\ w[1] \in Agents
      /\ \A b \in Branches : Latest(b) \in Events
      /\ \A a \in Agents : <<a, "router">> \in Workers /\ <<a, "inject">> \in Workers
      /\ current \in Branches
  BY ThreadsAre, WorkersAre, LatestIs, Sizes DEF Workers, Lanes
<1>1. ASSUME NEW a \in Agents, WorkerReads(a)
      PROVE  QueuesKept
  <2> DEFINE s == agent[current][a]
  <2>1. s \in DeliverySet(Events, RunIds) /\ s.lastDelivered \in Events
    BY <1>0 DEF DeliverySet, DeliveryStates
  <2>2. \/ UNCHANGED agent
        \/ \E run : SaveAgentState(current, a, CompleteRun(s, run, s.lastDelivered, FALSE))
    BY <1>1 DEF WorkerReads
  <2>3. FALSE \in BOOLEAN
    OBVIOUS
  <2>4. \A run : QueueKept(CompleteRun(s, run, s.lastDelivered, FALSE), s)
    BY <2>1, <2>3, OperationsKeepQueue
  <2> QED
    BY <1>0, <2>2, <2>4, SavedKeepsQueues, SameKeepsQueues
<1>2. ASSUME NEW b \in Branches, NEW a \in Agents, NEW seq \in Events,
             SaveAgentState(b, a, MarkRunStarted(agent[b][a], Len(runs) + 1, seq))
      PROVE  QueuesKept
  <2>1. agent[b][a] \in DeliveryStates(Events, RunIds \union {BlankRun})
    BY <1>0 DEF DeliverySet
  <2>2. QueueKept(MarkRunStarted(agent[b][a], Len(runs) + 1, seq), agent[b][a])
    BY <2>1 DEF QueueKept, MarkRunStarted, KeepsQueue, DeliveryStates
  <2> QED
    BY <1>2, <2>2, SavedKeepsQueues
<1>3. ASSUME NEW a \in Agents, WorkerStartsRun(a)
      PROVE  QueuesKept
  <2>1. <<a, "router">> \in Workers
    BY <1>0
  <2> QED
    BY <1>0, <1>2, <1>3, <2>1, SameKeepsQueues DEF WorkerStartsRun
<1>4. ASSUME NEW a \in Agents, InjectStarts(a)
      PROVE  QueuesKept
  BY <1>0, <1>2, <1>4 DEF InjectStarts
<1>5. ASSUME NEW w \in Workers, NEW status, AtWork(w), Settles(w, status)
      PROVE  QueuesKept
  <2> DEFINE a    == w[1]
             b    == worker[w].branch
             r    == worker[w].run
             seen == worker[w].snapshot
             delivered == status \notin {"failed", "stopped"}
             done == CompleteRun(agent[b][a], r, seen, delivered)
             s    == IF runs[r].commit = "orphaned" THEN done
                     ELSE ClearRunAgentState(done, r, seen, status)
  <2>1. SaveAgentState(b, a, s)
    BY <1>5 DEF Settles
  <2>2. /\ a \in Agents /\ b \in Branches /\ seen \in Events /\ delivered \in BOOLEAN
        /\ agent[b][a] \in DeliverySet(Events, RunIds)
    BY <1>0
  <2>3. QueueKept(s, agent[b][a])
    <3> HIDE DEF a, b, r, seen, delivered
    <3>1. /\ QueueKept(done, agent[b][a])
          /\ QueueKept(ClearRunAgentState(done, r, seen, status), agent[b][a])
      BY <2>2, OperationsKeepQueue
    <3> QED
      BY <3>1
  <2> HIDE DEF s, a, b
  <2> QED
    BY <2>1, <2>2, <2>3, SavedKeepsQueues
<1> QED
  BY <1>1, <1>3, <1>4, <1>5

LEMMA ReconcileKeepsQueues ==
  ASSUME TypeInv, Restart \/ \E w \in Workers : WorkerCallsRelationTool(w)
  PROVE  QueuesKept
<1>1. PICK threads \in [Branches -> [Agents -> ThreadSet(RunIds)]] : Reconcile(threads)
  BY ThreadsAre, RestartIs DEF WorkerCallsRelationTool
<1>2. ASSUME NEW b \in Branches, NEW a \in Agents
      PROVE  QueueKept(agent'[b][a], agent[b][a])
  <2>1. agent[b][a] \in DeliverySet(Events, RunIds) /\ 0 \in Events
    BY ThreadsAre, SmallIds
  <2>2. \/ agent'[b][a] = agent[b][a]
        \/ agent'[b][a] = ReleaseRun(agent[b][a], agent[b][a].currentRun)
    BY <1>1, RunsReconciled
  <2> QED
    BY <2>1, <2>2, OperationsKeepQueue
<1> QED
  BY <1>2 DEF QueuesKept

LEMMA QueuesStep ==
  ASSUME TypeInv, TypeInv', VisibleGrows, QueuesShown, [Next]_vars
  PROVE  QueuesShown'
<1>1. CASE \/ AppendHumanMessage \/ EditAppends \/ \E w \in Workers : WorkerReplies(w)
  BY <1>1, MessagesShown
<1>2. CASE \/ ResumeCreatesBranch \/ \E i \in 1 .. Len(events) : EditCreatesBranch(i)
           \/ \E a \in Agents : CreateBranchFromCheckpoint(a)
  BY <1>2, CheckpointCreates, EditCreates, CreationKeepsQueues
<1>3. ASSUME NEW a \in Agents,
             WorkerReads(a) \/ WorkerStartsRun(a) \/ InjectStarts(a) \/ WorkerSkips(a)
      PROVE  QueuesShown'
  <2>1. <<a, "router">> \in Workers
    BY DEF Workers, Lanes
  <2>2. QueuesKept
    BY <1>3, <2>1, RunsKeepQueues DEF WorkerSkips, AtWork
  <2>3. UNCHANGED branches
    BY <1>3 DEF WorkerReads, WorkerStartsRun, InjectStarts, WorkerSkips, Settles
  <2> QED
    BY <2>2, <2>3, KeptQueuesShown
<1>4. ASSUME NEW w \in Workers,
             WorkerCompletes(w) \/ WorkerRaises(w) \/ WorkerCallsRelationTool(w)
      PROVE  QueuesShown'
  <2>1. QueuesKept
    BY <1>4, RunsKeepQueues, ReconcileKeepsQueues DEF WorkerCompletes, WorkerRaises, AtWork
  <2>2. UNCHANGED branches
    BY <1>4 DEF WorkerCompletes, WorkerRaises, WorkerCallsRelationTool, Settles
  <2> QED
    BY <2>1, <2>2, KeptQueuesShown
<1>5. CASE Restart
  BY <1>5, ReconcileKeepsQueues, KeptQueuesShown DEF Restart
<1>6. CASE \/ \E a \in Agents : ResumeInvokes(a) \/ WorkerChosen(a)
           \/ \E w \in Workers : WorkerInvokes(w)
           \/ \E b \in Branches : SwitchBranch(b)
           \/ CallSwitchesBranch \/ ResumeFails \/ ResumeAppends \/ UNCHANGED vars
  <2>1. UNCHANGED <<agent, branches>>
    BY <1>6 DEF ResumeInvokes, WorkerChosen, WorkerInvokes, SwitchBranch, CallSwitchesBranch,
                ResumeFails, ResumeAppends, vars
  <2> QED
    BY <2>1, SameKeepsQueues, KeptQueuesShown
<1>7. ASSUME NEW b \in Branches, ArchiveBranch(b)
      PROVE  QueuesShown'
  <2>1. UNCHANGED agent /\ branches' = [branches EXCEPT ![b].archived = TRUE]
    BY <1>7 DEF ArchiveBranch
  <2>2. Branches' = Branches
    BY <2>1, BranchesAre DEF Branches
  <2>3. \A d \in Branches : Visible(d) \subseteq Visible(d)'
    BY DEF VisibleGrows
  <2> QED
    BY <2>1, <2>2, <2>3 DEF QueuesShown
<1> QED
  BY <1>1, <1>2, <1>3, <1>4, <1>5, <1>6, <1>7 DEF Next

\* A run is started with what its branch shows.
LEMMA RunSnapshots ==
  ASSUME TypeInv, Stepped, SnapshotsShown
  PROVE  \A r \in 1 .. Len(runs') : runs'[r].snapshot \in Shown'[runs'[r].branch]
<1>1. ASSUME NEW r \in 1 .. Len(runs)
      PROVE  runs'[r].snapshot \in Shown'[runs'[r].branch]
  <2>1. runs'[r].snapshot = runs[r].snapshot /\ runs'[r].branch = runs[r].branch
    BY DEF Stepped, StoresKept, RunsKept, RunKept
  <2>2. runs[r].branch \in Branches /\ runs[r].snapshot \in Visible(runs[r].branch)
    BY RunsAre DEF SnapshotsShown
  <2>3. Visible(runs[r].branch) \subseteq Shown'[runs[r].branch]
    BY <2>2 DEF Stepped, VisibleGrows, Visible
  <2> QED
    BY <2>1, <2>2, <2>3
<1>2. ASSUME NEW w \in Workers, NEW x, Starts(w, x), x.branch \in Branches,
             x.snapshot \in Visible(x.branch), NEW r \in 1 .. Len(runs')
      PROVE  runs'[r].snapshot \in Shown'[runs'[r].branch]
  <2>1. Visible(x.branch) \subseteq Shown'[x.branch]
    BY <1>2 DEF Stepped, VisibleGrows, Visible
  <2>2. CASE r = Len(runs) + 1
    <3>1. runs'[r].branch = x.branch /\ runs'[r].snapshot = x.snapshot
      BY <1>2, <2>2 DEF Starts, NewRun
    <3> QED
      BY <1>2, <2>1, <3>1
  <2>3. r = Len(runs) + 1 \/ r \in 1 .. Len(runs)
    BY <1>2, Sizes DEF Starts
  <2> QED
    BY <1>1, <2>2, <2>3
<1>3. CASE InjectStep
  <2>1. PICK a, x :
          /\ a \in Agents
          /\ Starts(<<a, "inject">>, x) /\ x.branch = current /\ x.snapshot = Latest(current)
          /\ \E k \in UsableFrontiers(current, a) : Adds(current, a, frontiers[k].checkpoint, {})
    BY <1>3 DEF InjectStep
  <2>2. PICK k \in UsableFrontiers(current, a) : TRUE
    BY <2>1
  <2>3. frontiers[k].branch = current /\ k \in 1 .. Len(frontiers)
    BY <2>2 DEF UsableFrontiers, FrontiersOf
  <2>4. frontiers[k].event \in Visible(current)
    BY <2>3 DEF SnapshotsShown
  <2>5. Latest(current) \in Visible(current)
    <3>1. /\ Latest(current) \in Visible(current) \union {NoEvent}
          /\ frontiers[k].event <= Latest(current) /\ frontiers[k].event \in 1 .. Len(events)
      BY <2>3, <2>4, LatestIs, Sizes, FrontiersAre
    <3> QED
      BY <3>1, Sizes DEF NoEvent
  <2>6. <<a, "inject">> \in Workers /\ x.branch \in Branches
    BY <2>1, Sizes DEF Workers, Lanes
  <2> QED
    BY <1>2, <2>1, <2>5, <2>6
<1>4. CASE StartStep
  <2>0. PICK a \in Agents :
          /\ worker[<<a, "router">>].pc = "starting"
          /\ \E x : /\ Starts(<<a, "router">>, x) /\ x.branch = worker[<<a, "router">>].branch
                    /\ x.snapshot = worker[<<a, "router">>].snapshot
    BY <1>4 DEF StartStep
  <2>1. PICK x : /\ Starts(<<a, "router">>, x) /\ x.branch = worker[<<a, "router">>].branch
                 /\ x.snapshot = worker[<<a, "router">>].snapshot
    BY <2>0
  <2>2. <<a, "router">> \in Workers
    BY DEF Workers, Lanes
  <2>3. x.branch \in Branches /\ x.snapshot \in Visible(x.branch)
    BY <2>0, <2>1, <2>2, WorkersAre DEF SnapshotsShown
  <2> QED
    BY <1>2, <2>1, <2>2, <2>3
<1>5. CASE ~InjectStep /\ ~StartStep
  <2>1. Len(runs') = Len(runs)
    BY <1>5 DEF Stepped, StepKinds, ControlStep, ReadStep, SpeakStep, CreateStep, WriteStep,
                SettleStep, ReconcileStep
  <2> QED
    BY <1>1, <2>1
<1> QED
  BY <1>3, <1>4, <1>5

\* A thread that is to start a run goes on with what it has read, or has just read it.
LEMMA ReadSnapshots ==
  ASSUME TypeInv, Stepped, SnapshotsShown
  PROVE  \A w \in Workers : worker'[w].pc = "starting" =>
           worker'[w].snapshot \in Shown'[worker'[w].branch]
<1>1. ASSUME NEW w \in Workers, worker'[w] = worker[w], worker[w].pc = "starting"
      PROVE  worker'[w].snapshot \in Shown'[worker'[w].branch]
  <2>1. worker[w].branch \in Branches /\ worker[w].snapshot \in Visible(worker[w].branch)
    BY <1>1, WorkersAre DEF SnapshotsShown
  <2>2. Visible(worker[w].branch) \subseteq Shown'[worker[w].branch]
    BY <2>1 DEF Stepped, VisibleGrows, Visible
  <2> QED
    BY <1>1, <2>1, <2>2
<1>2. CASE ReadStep
  <2>1. PICK a, x :
          /\ a \in Agents
          /\ Becomes(<<a, "router">>, x)
          /\ \/ x.pc \in {"idle", "reading"}
             \/ /\ x.branch = current /\ x.snapshot = Latest(current)
                /\ x.low = agent[current][a].lastDelivered /\ x.low < x.snapshot
    BY <1>2 DEF ReadStep
  <2>2. ASSUME x.branch = current, x.snapshot = Latest(current),
               x.low = agent[current][a].lastDelivered, x.low < x.snapshot
        PROVE  x.snapshot \in Shown'[x.branch]
    <3>1. x.low \in Nat
      BY <2>1, <2>2, ThreadsAre, Sizes DEF DeliverySet, DeliveryStates, Events
    <3>2. Latest(current) \in Visible(current)
      BY <2>2, <3>1, LatestIs, Sizes DEF NoEvent
    <3> QED
      BY <2>2, <3>2, Sizes DEF Stepped, VisibleGrows, Visible
  <2>3. ASSUME NEW w \in Workers, worker'[w].pc = "starting"
        PROVE  worker'[w].snapshot \in Shown'[worker'[w].branch]
    <3>1. CASE w = <<a, "router">>
      BY <2>1, <2>2, <2>3, <3>1 DEF Becomes
    <3>2. CASE w # <<a, "router">>
      BY <1>1, <2>1, <2>3, <3>2 DEF Becomes
    <3> QED
      BY <3>1, <3>2
  <2> QED
    BY <2>3
<1>3. ASSUME NEW v \in Workers, NEW x, Becomes(v, x), x.pc # "starting"
      PROVE  \A w \in Workers : worker'[w].pc = "starting" =>
               worker'[w] = worker[w] /\ worker[w].pc = "starting"
  BY <1>3 DEF Becomes
<1>4. CASE ~ReadStep
  <2>1. \/ UNCHANGED worker
        \/ \A w \in Workers : worker'[w] = IdleWorker
        \/ \E v \in Workers : \E x : Becomes(v, x) /\ x.pc # "starting"
    <3>1. \A w \in Workers : /\ [worker[w] EXCEPT !.pc = "completing"].pc = "completing"
                             /\ [worker[w] EXCEPT !.pc = "replying"].pc = "replying"
      BY WorkersAre DEF WorkerSet
    <3>2. IdleWorker.pc = "idle"
      BY DEF IdleWorker
    <3>3. CASE SpeakStep \/ SettleStep \/ WriteStep
      <4>1. \/ UNCHANGED worker
            \/ \E v \in Workers : \/ Becomes(v, IdleWorker)
                                  \/ Becomes(v, [worker[v] EXCEPT !.pc = "completing"])
                                  \/ Becomes(v, [worker[v] EXCEPT !.pc = "replying"])
        BY <3>3 DEF SpeakStep, SettleStep, WriteStep
      <4> QED
        BY <3>1, <3>2, <4>1
    <3>4. CASE InjectStep \/ StartStep
      <4>1. \A a \in Agents : <<a, "router">> \in Workers /\ <<a, "inject">> \in Workers
        BY DEF Workers, Lanes
      <4>2. \E v \in Workers : \E x : Starts(v, x)
        BY <3>4, <4>1 DEF InjectStep, StartStep
      <4> QED
        BY <4>2 DEF Starts
    <3> QED
      BY <1>4, <3>3, <3>4 DEF Stepped, StepKinds, ControlStep, CreateStep, ReconcileStep
  <2>2. \A w \in Workers : worker'[w].pc = "starting" =>
          worker'[w] = worker[w] /\ worker[w].pc = "starting"
    BY <1>3, <2>1 DEF IdleWorker
  <2> QED
    BY <1>1, <2>2
<1> QED
  BY <1>2, <1>4

\* A frontier is at an event its branch shows: the reply, or the last a run has read.
LEMMA FrontierEvents ==
  ASSUME TypeInv, TypeInv', Stepped, SnapshotsShown
  PROVE  \A k \in 1 .. Len(frontiers') : frontiers'[k].event \in Shown'[frontiers'[k].branch]
<1>1. ASSUME NEW k \in 1 .. Len(frontiers)
      PROVE  frontiers[k].event \in Shown'[frontiers[k].branch]
  <2>1. frontiers[k].branch \in Branches /\ frontiers[k].event \in Visible(frontiers[k].branch)
    BY FrontiersAre DEF SnapshotsShown
  <2> QED
    BY <2>1 DEF Stepped, VisibleGrows, Visible
<1>2. ASSUME NEW f, Recorded(f), f.event \in Shown'[f.branch]
      PROVE  \A k \in 1 .. Len(frontiers') : frontiers'[k].event \in Shown'[frontiers'[k].branch]
  <2> SUFFICES ASSUME NEW k \in 1 .. Len(frontiers')
               PROVE  frontiers'[k].event \in Shown'[frontiers'[k].branch]
    OBVIOUS
  <2>1. frontiers'[k] = f \/ \E j \in 1 .. Len(frontiers) : frontiers'[k] = frontiers[j]
    BY <1>2 DEF Recorded
  <2> QED
    BY <1>1, <1>2, <2>1
<1>3. CASE UNCHANGED frontiers
  BY <1>1, <1>3
<1>4. CASE SpeakStep /\ ~UNCHANGED frontiers
  <2>1. PICK b \in Branches :
          /\ events'[Len(events) + 1].branch = b /\ Len(events') = Len(events) + 1
          /\ UNCHANGED branches
          /\ \E w \in Workers :
               Recorded([event |-> Len(events) + 1, agent |-> w[1], branch |-> b,
                         thread |-> b, checkpoint |-> LatestCheckpoint(b, w[1]),
                         run |-> worker[w].run, usable |-> TRUE])
    BY <1>4 DEF SpeakStep
  <2>2. PICK f : Recorded(f) /\ f.event = Len(events) + 1 /\ f.branch = b
    BY <2>1
  <2>3. b \in Branches'
    BY <2>1 DEF Branches
  <2>4. Len(events) + 1 \in Shown'[b]
    BY <2>1, <2>3, AppendedShown DEF Visible
  <2> QED
    BY <1>2, <2>2, <2>4
<1>5. CASE SettleStep /\ ~UNCHANGED frontiers
  <2>1. PICK w \in Workers, status \in Statuses \ {"running"} :
          /\ AtWork(w) /\ LastRead(worker[w].run) # NoEvent
          /\ Recorded(TerminalRecord(worker[w].run, status))
    BY <1>5 DEF SettleStep
  <2>2. PICK r \in 1 .. Len(runs) : r = worker[w].run
    BY <2>1, WorkersAre DEF AtWork
  <2> DEFINE b == runs[r].branch
  <2>3. b \in Branches /\ Visible(b) \in SUBSET (1 .. Len(events)) /\ Len(events) \in Nat
    BY RunsAre, LatestIs, Sizes
  <2>4. LastRead(r) \in Visible(b)
    <3> DEFINE S == {i \in Visible(b) : i <= runs[r].snapshot}
    <3>1. S \in SUBSET (0 .. Len(events))
      BY <2>3
    <3>2. Greatest(S) \in S \union {0}
      <4> HIDE DEF S
      <4> QED
        BY <2>3, <3>1, GreatestIs
    <3>3. Greatest(S) # 0
      BY <2>1, <2>2 DEF LastRead, NoEvent
    <3> QED
      BY <3>2, <3>3 DEF LastRead
  <2>5. LastRead(r) \in Shown'[b]
    BY <2>3, <2>4 DEF Stepped, VisibleGrows, Visible
  <2>6. PICK f : Recorded(f) /\ f.event = LastRead(r) /\ f.branch = b
    BY <2>1, <2>2 DEF TerminalRecord
  <2> HIDE DEF b
  <2> QED
    BY <1>2, <2>5, <2>6
<1>6. UNCHANGED frontiers \/ SpeakStep \/ SettleStep
  BY DEF Stepped, StepKinds, ControlStep, ReadStep, CreateStep, WriteStep, InjectStep, StartStep,
         ReconcileStep
<1> QED
  BY <1>3, <1>4, <1>5, <1>6

LEMMA ViewStep ==
  ASSUME TypeInv, RunsInv, HoldsInv, ThreadsInv, MemoryInv, ViewInv, [Next]_vars
  PROVE  ViewInv'
<1>1. TypeInv' /\ Stepped
  BY NextSteps
<1>2. CurrentOpen' /\ QueuesShown'
  BY <1>1, OpenStep, QueuesStep DEF ViewInv, Stepped
<1>3. SnapshotsShown'
  BY <1>1, RunSnapshots, ReadSnapshots, FrontierEvents DEF ViewInv, SnapshotsShown, Visible
<1> QED
  BY <1>2, <1>3 DEF ViewInv

LEMMA InitView == Init => ViewInv
<1> SUFFICES ASSUME Init PROVE ViewInv
  OBVIOUS
<1>1. /\ runs = <<>> /\ frontiers = <<>> /\ branches = <<>> /\ current = Main
      /\ \A a \in Agents : ~agent[Main][a].queued
      /\ \A w \in Workers : worker[w].pc = "idle"
  BY DEF Init, IdleWorker, NewDeliveryState
<1>2. 1 .. Len(runs) = {} /\ 1 .. Len(frontiers) = {} /\ Branches = {Main}
  BY <1>1 DEF Branches, Main
<1> QED
  BY <1>1, <1>2 DEF ViewInv, CurrentOpen, QueuesShown, SnapshotsShown

LEMMA ViewInvariant == Spec => []ViewInv
<1>1. TypeInv /\ RunsInv /\ RepliesInv /\ HoldsInv /\ ThreadsInv /\ MemoryInv /\ ViewInv
        /\ [Next]_vars => ViewInv'
  BY ViewStep
<1> QED
  BY <1>1, InitView, TypeInvariant, RunsInvariant, RepliesInvariant, HoldsInvariant,
     ThreadsInvariant, MemoryInvariant, PTL DEF Spec

\* A branch of the main one shows in Studio all it shows.
LEMMA StudioEventsAre ==
  ASSUME TypeInv
  PROVE  /\ StudioEvents \subseteq Visible(current)
         /\ OneLevel => Visible(current) \subseteq StudioEvents
<1>1. StudioEvents \subseteq Visible(current)
  BY DEF StudioEvents
<1>2. CASE current = Main
  <2>1. \A i \in Visible(current) : events[i].branch = current
    BY <1>2, ShownIs DEF Visible, Own
  <2> QED
    BY <1>1, <2>1 DEF StudioEvents
<1>3. ASSUME current # Main, OneLevel
      PROVE  Visible(current) \subseteq StudioEvents
  <2>1. current \in 1 .. Len(branches)
    BY <1>3, Sizes DEF Main
  <2>2. Visible(current) = Own(current) \union (Inherits(current) \intersect Own(Main))
    BY <1>3, <2>1, ShownIs DEF Visible, OneLevel
  <2> QED
    BY <2>2 DEF StudioEvents, Own, Inherits
<1> QED
  BY <1>1, <1>2, <1>3

\* What Studio shows is the conversation (StudioStateFactory, MentionAwareTeam.state), for any
\* branches, archived or created while runs go on, and any runs that end, are given up or are
\* started over by a prompt.
THEOREM StudioShowsConversationCorrect == Spec => []StudioShowsConversation
<1>1. TypeInv /\ HoldsInv /\ ViewInv /\ NoForeignHistory => StudioShowsConversation
  <2> SUFFICES ASSUME TypeInv, HoldsInv, ViewInv, NoForeignHistory
               PROVE  StudioShowsConversation
    OBVIOUS
  <2> DEFINE shown == StudioState
  <2>1. /\ shown.events = StudioEvents /\ shown.active = ActiveAgents /\ shown.runs = RunSummaries
        /\ shown.queue = PendingItems \union FailedItems
        /\ shown.checkpoints = OfferedCheckpoints /\ shown.branches = BranchSummaries
    BY DEF StudioState
  <2>2. current \in Branches
    BY Sizes
  <2>3. ASSUME NEW item \in PendingItems \union FailedItems
        PROVE  item.event \in Visible(current)
    <3>1. CASE item \in PendingItems
      <4>1. PICK a \in Agents : agent[current][a].queued /\ item.event = agent[current][a].queuedAfter
        BY <3>1 DEF PendingItems, AgentStates
      <4> QED
        BY <2>2, <4>1 DEF ViewInv, QueuesShown
    <3>2. CASE item \in FailedItems
      <4>1. PICK r \in RunsOf(current) : item.event = runs[r].snapshot
        BY <3>2 DEF FailedItems, Deliveries
      <4> QED
        BY <4>1 DEF RunsOf, ViewInv, SnapshotsShown
    <3> QED
      BY <2>3, <3>1, <3>2
  <2>4. DOMAIN RunSummaries = RunsOf(current)
    BY DEF RunSummaries
  <2>5. \A r \in RunsOf(current) :
          /\ r \in 1 .. Len(runs) /\ runs[r].branch = current
          /\ RunSummaries[r].status = ShownStatus(runs[r])
    BY DEF RunSummaries, RunsOf
  <2>6. ASSUME NEW r \in RunsOf(current), RunSummaries[r].status = "running"
        PROVE  \E w \in Workers : worker[w].run = r /\ worker[w].pc \in {"invoking", "completing"}
    <3>1. runs[r].status \in Statuses /\ runs[r].commit # "orphaned"
      BY <2>5, <2>6, RunsAre DEF ShownStatus
    <3>2. runs[r].status = "running"
      BY <2>5, <2>6, <3>1 DEF ShownStatus, Statuses
    <3>3. runs[r].commit = "pending"
      BY <2>5, <3>2 DEF HoldsInv, RunStatuses
    <3> QED
      BY <2>5, <3>3 DEF HoldsInv, RunStatuses, AtWork
  <2>7. ASSUME NEW a \in Agents, AgentStates[a].running
        PROVE  /\ a \in ActiveAgents
               /\ AgentStates[a].currentRun \in RunsOf(current)
               /\ RunSummaries[AgentStates[a].currentRun].status = "running"
    <3>1. PICK r \in 1 .. Len(runs) : r = agent[current][a].currentRun
      BY <2>2, <2>7 DEF HoldsInv, RunsHeld, AgentStates
    <3>2. runs[r].commit = "pending" /\ runs[r].branch = current
      BY <2>2, <3>1 DEF HoldsInv, RunsHeld
    <3>3. runs[r].status = "running"
      BY <3>2 DEF HoldsInv, RunStatuses
    <3>4. ShownStatus(runs[r]) = "running"
      BY <3>2, <3>3 DEF ShownStatus
    <3>5. r \in RunsOf(current)
      BY <3>2 DEF RunsOf
    <3> QED
      BY <2>5, <2>7, <3>1, <3>4, <3>5 DEF ActiveAgents, AgentStates
  <2>8. ASSUME OneLevel, NEW a \in Agents, NEW cp \in OfferedCheckpoints[a]
        PROVE  Overtaken(a) \/ MemoryOf(cp) \subseteq StudioEvents
    <3>1. cp \in stored[current][a]
      BY <2>8 DEF OfferedCheckpoints, UsableCheckpoints, Listed
    <3> QED
      BY <2>2, <2>8, <3>1, StudioEventsAre DEF NoForeignHistory
  <2>9. ~BranchSummaries[current].archived
    BY <2>2 DEF BranchSummaries, ViewInv, CurrentOpen
  <2> HIDE DEF shown
  <2> QED
    BY <2>1, <2>3, <2>4, <2>6, <2>7, <2>8, <2>9, StudioEventsAre DEF StudioShowsConversation, shown
<1> QED
  BY <1>1, TypeInvariant, HoldsInvariant, ViewInvariant, NoForeignHistoryCorrect, PTL
=============================================================================
