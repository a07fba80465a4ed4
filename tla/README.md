# A verification project for coding-agents

The repository runs teams of language-model agents: a team is loaded from YAML, its
agents are built as graphs, and, when the team has a `conversation`, a router wakes the
agents that are mentioned in a shared transcript and appends their replies. A Studio
backend serves conversations over HTTP and streams, with branches, replays and terminals;
teams come from a workspace or from installed packages. This directory holds TLA+ models
of the parts whose correctness depends on order, concurrency and failure, the TLC
configurations that check them, and TLAPS proofs about them.

Paths below are relative to the repository's root; `conversation/` stands for
`src/team_instanciator/conversation/`, `backend/` for `src/webapp_studio/backend/`.

## The system

| Component | State | Operations | What makes it correct | Module |
|---|---|---|---|---|
| Mention router (`conversation/router.py`) | dispatch lock, background thread, workers, cascade counter of a drain | enqueue_targets, dispatch, drain, stop, _run_agent, _append_public_reply | no mention lost or served for ever; at most `max_parallel_agents` runs at a time; a reply only from a run that was delivered; the cascade limit | `MentionRouter` |
| Conversation store: delivery, runs (`conversation/store.py`) | sqlite tables: events, agent delivery states, runs, deliveries, settings | append_event, enqueue, cancel_queued, mark_run_started, complete_run, request_stop, record_delivery, reconcile_incomplete_commits | cursors neither skip nor repeat events; every run settles once; recovery leaves nothing half done | `AgentDelivery`, `MentionRouter` |
| Store: branches, threads, frontiers; thread forker | branches, branch threads, frontiers, copied checkpoints | create, switch, archive, ensure_branch_thread, record_thread_frontier, fork_checkpoint | a branch shows its ancestors up to its origin and nothing later; an agent remembers what its branch shows | `ConversationBranches` |
| MentionAwareTeam (`conversation/team.py`) | none of its own | append, edit, resume_checkpoint, inject_agent_prompt, dispatch_pending, with_conversation_id | an edit leaves the parent alone; an injected prompt and a run in flight settle once each | `MentionRouter`, `ConversationBranches` |
| Relation tools, branch thread resolver, edges, model attempts | one lock per logical thread, edges, attempts of a run | run, resolve, record, on_chat_model_start / end / error | one child at a time on a thread; records say what happened; calls end | `RelationCalls` |
| Team loader, instantiation, registry, manifest | team definition, graphs, checkpointer handle, lanes | load, validate, instantiate, graph, persist, close | an accepted team can be used; a failure leaves nothing open; agents see the skills and tools they can use | `TeamInstantiation`, `TeamRuntime` |
| Team packages (`src/team_packages/`) | package and skill trees, lock file, trust file | install, update, uninstall, the trust gate | the lock file describes what is on disk; a risky team runs only when complete and trusted | `TeamPackages` |
| Studio sessions and state (`backend/api/`) | active controller, open conversations | activate, create, switch, append, state | conversations do not disturb each other; a retry appends once; the page shows the conversation | `StudioSession`, `StudioView` |
| Studio stream (`backend/streaming/`, `backend/server.py`) | frame buffer, client queues, page cursor | publish, replay, tick, put, close, reconnect | a page that resumes misses no snapshot; it catches up | `StudioStream` |
| Studio terminals | shell, reader thread, chunks, inspector's cursor | create, poll, terminate | output once and in order | `TerminalSession` |
| Interrupts, UI state, control events, side effects; viewer, prices; older web application; rendering | - | - | - | none, see "Not modelled" |

How they meet: callers (HTTP threads of Studio, the command line) append to the store and
call `dispatch`; `drain` runs on the caller's thread or on one background thread and
starts a worker thread per agent; workers call agents' graphs, whose relation tools run
other agents and open further stores on the same sqlite connection; replies enqueue other
agents. All threads share the store, whose operations are serial under one lock per store
object, and users reach for stop, cancel, branches and settings at any time. Studio keeps
every conversation it opened, with its threads, until the process ends, and sends what it
reads of the active one to the pages; the command line changes packages behind it.

Hard here: the windows between two store operations of a worker; the queue entry that
collapses several mentions into one; wakeups given while a drain is about to return; stops
that race with completions; results that arrive after their run was given up; a branch
switched, made or edited while an agent works; a store opened on a live connection, which
recovers runs that are alive; crashes between two commits or two directory replacements;
pages and polls that reconnect, retry and cross. `PROJECT.json` lists these hazards line
by line.

## Modules

| Module | What it is |
|---|---|
| `AgentDelivery` | the delivery record of one agent (`AgentDeliveryState`) and each store operation on it, as an operator from the old record to the new one; used by three of the modules below |
| `MentionRouter` | callers, drains, workers, runtime controls and restarts |
| `MentionDelivery` | the abstract specification: what a conversation promises of its messages |
| `RouterDelivery` | the refinement mapping from `MentionRouter` to `MentionDelivery` |
| `ConversationBranches` | branches, threads of checkpoints, frontiers, edits, replays, injected prompts, restarts |
| `StudioView` | the state Studio shows, as a function of the conversation |
| `TeamPackages`, `StudioStream`, `StudioSession`, `TerminalSession` | the four parts of the Studio backend and what it loads |
| `Selection` | what a list comprehension with a condition selects, for the replays of the stream and the answers of the terminal |
| `StudioBackend` | their composition |
| `TeamInstantiation`, `RelationCalls` | a team from its file to its graphs; its agents calling one another |
| `TeamRuntime` | their composition |
| `MC...` | instances for TLC |
| `..._proofs` | theorems and lemmas |

The store runs each operation on a record under its lock and ends it in one save, so one
operator is one atomic step. No module uses recursive operators; what is recursive in the
code (ancestors of a branch, chains of checkpoints, keys of nested calls) is a recursive
function.

### MentionRouter

| Model | Code |
|---|---|
| `events`, `settings`, `agent`, `runs` | the store's tables: event `i` is the one with `seq` `i`; a run's record also holds its deliveries (`deliveries`) and, as history, whether it moved the cursor (`advanced`) and from where it read (`low`) |
| `lock`, `cascade` | `_dispatch_lock`, `DispatchContext.cascade_turns` of the current drain |
| `drain[d]` | where thread `d` (a caller, or the one background thread) is in `drain()` |
| `worker[a]` | the local variables of `_run_agent(a)`, and where it is |
| `client[c]` | a caller between appending its event and dispatching |
| `asked` | history: the highest event an agent was enqueued for |
| `ClientAppends`, `ClientEnqueues`, `ClientDispatches` | `append_human_message`, `append_agent_message` |
| `DrainAcquires` ... `DrainReleases` | `drain()`: trylock, one batch, joins, the finally clause |
| `WorkerReads` ... `WorkerRecordsDelivery` | `_run_agent()`, one action per store operation |
| `WorkerAppendsReply`, `WorkerResolvesMentions`, `WorkerEnqueues` | `_append_public_reply()` |
| `WorkerRaises` | the `except` clause |
| `WorkerCallsRelationTool` | `BranchThreadResolver.resolve`, which constructs a store and so reconciles |
| `StopAgent`, `CancelQueuedAgent`, `ClearPendingQueue`, `UpdateRuntimeState` | the runtime controller |
| `Restart` | every thread gone, the new store's reconciliation run to its end |

Choices that join two steps of the code, and why they lose nothing:

- `drain` reads the number of running agents and then the pending ones. No worker is in
  flight while a drain is at that point, so nothing starts in between; a stop, an enqueue
  or a cancel that falls between the reads has the effect of one that came first.
- A worker reads its record and then the events. Its cursor moves only by itself, so an
  event appended in between is just read. The stop flag it reads here is not used.
- The hook is read after the append: no step of another thread distinguishes the orders.
  `append_human_message` appends and reads the hook in one action for the same reason.
- Testing and counting a cascade turn is one step: CPython (3.11 or later, as
  `pyproject.toml` requires) switches threads at calls and backward jumps only, and there
  is none between `router.py:342` and `:352` on that path.
- `record_delivery` inserts the delivery and settles the run in one transaction, so a
  pending run has no delivery and the branch of the recovery that finalises such a run is
  not reachable from these operations; `Reconcile` is the other branch.
- The delivery `cascade-limited` names no run and changes no state; it is not recorded.
- Agents queued for the same event are picked in any order (the code sorts by name).
- An invocation is one step that ends with a text, without, or with an exception; an
  agent with a relation tool may call it any number of times before. The sync builder's
  update is the events after the cursor that the agent did not write itself.
- The conversation stays on one branch here and is persisted in sqlite.

`MentionDelivery` knows a transcript, cursors and turns: an agent takes a turn of the
messages after its cursor, and a turn is answered at most once. `RouterDelivery` maps a
run that moved its agent's cursor to a turn (from `low`, exclusive, to `snapshot`), and a
reply of the transcript to the answer of its run's turn. Every other step of the router is
a stutter or a message.

### ConversationBranches and StudioView

Waking agents is left to `MentionRouter`: a pending agent of the current branch may start
at any time, and the records of one delivery (complete_run, record_delivery, the run's
frontier) are one step.

| Model | Code |
|---|---|
| `branches`, `current`, `Visible(b)` | `ConversationBranch` rows, the runtime state's branch, `_event_visible_in_branch_id` |
| `agent[b][a]`, `thread[b][a]`, `frontiers` | the store's rows; `<<b, a>>` stands for the physical thread of an agent in a branch, whose id is made of both |
| `saved`, `stored[b][a]` | the checkpoints written, each with the events its messages come from (`memory`), and those a thread holds |
| `worker[<<a, lane>>]` | a thread in `_run_agent` (lane "router") or in `inject_agent_prompt` |
| `call` | a user between the operations of `edit_human_message` or `resume_checkpoint` |
| `EnsureThread`, `ForkSource`, `ForkedCheckpoints`, `ForkRefused` | `ensure_branch_thread`, the lookup of a frontier, `ThreadForker.fork_checkpoint` and its refusal |
| `SettledRun`, `TerminalFrontier` | `_complete_run_record_from_delivery`, `_record_terminal_run_frontier` |
| `Reconcile`, `Restart` | `reconcile_incomplete_commits`, by a relation tool or a new process; a crash may fall between a fork and its run's record |

A message is its place in the transcript, an agent remembers a set of them. The torn start
of `MentionRouter` is not repeated here. `StudioView` computes what `StudioStateFactory`
makes of the conversation; the view is taken in one piece, while `MentionAwareTeam.state`
reads each table on its own, so what a page can see between two of those reads is not
modelled.

### StudioBackend and its parts

A handler of the backend runs on one event loop and is one step: it changes the session,
may load a team, and publishes the new state. What agents' threads change is published by
nobody; producers find it when they wake.

- `TeamPackages`: trees and skills by content, `lock` and `trusted` files, the command
  under way with what it still has to replace. A directory is removed and then copied, and
  the lock file is truncated and then written, so a cut leaves a torn tree or an unreadable
  file. A package's directory may lie in that of another ("acme/team" in "acme").
- `StudioStream`: `log` is all frames published, of which the buffer keeps the last
  `MaxFrames`; `conn[p]` is a connection's producer and bounded queue, `page[p]` what the
  page shows and the id it will resume from. The hello frame carries an id of its own.
- `StudioSession`: one object per opened conversation, with the thread of its agent; all
  write to one transcript. The insert of a reply takes the sequence number read before.
- `TerminalSession`: shell, reader thread, numbered chunks, and polls whose answers come in
  any order or never. The session belongs to the controller of one activation; another
  activation forgets it. The poll of an effect that is cancelled is dropped when its answer
  comes, not before.

### TeamRuntime and its parts

- `TeamInstantiation`: `file` is what is written, with names as written, `Fold` and `Slug`
  what the code compares them by. `Load` merges, canonicalises and validates; the other
  actions follow `TeamInstanciator.instantiate` with each way it fails; `AskGraph` is the
  registry's lazy construction. Skills in directories change at any time. The discovery of
  teams at process start is left out.
- `RelationCalls`: `at[i]` is where a run or a call is; `Resolve` and `Recover` are the two
  halves of the recovery a store performs when it is opened (it lists, then updates);
  `holder` are the process-wide locks by logical thread; `attempts` the records of model
  attempts and `count` the callback's counter. Errors are of three kinds, since the
  retrying model and the callback classify them differently (`model_reliability.py:225`,
  `:275`). The stop of the loop is not modelled in the instant between two places of a call
  that begins or ends.

Metadata that is already in a config wins over what `RunnableConfigMetadataInjector` adds,
so a nested call keeps the run of its caller: `Top[i]`.

## Runs

Bounds of the router: two agents and one caller suffice for every interleaving of interest
- a batch of two, an agent that mentions one at work, a caller beside the background
thread - with `MaxSeq` events, `MaxRestarts` restarts, `MaxStops` agents with a stop
request at a time, and in `RouterSafety` the constraint of two runs. `max_cascade_turns` is
1. Symmetry of the two agents is used in the safety runs only.

The other modules take a constant of limits (`Limits`, `Scenarios`): a set of records, one
of which a behaviour keeps from its first state on. Each record makes one part busy and
gives the others as much as that part meets, so that one run covers what would be too much
at once. They are listed with their reasons in `MCConversationBranches`, `MCStudio` and
`MCTeamRuntime`.

| Run | Question | Bounds |
|---|---|---|
| `router_safety` | with all controls, relation tools, failures and a restart: are requests, cursors, replies and run records consistent | 2 events, 2 runs, 1 restart, 1 stop |
| `router_cascade` | what replies trigger: the cascade limit, and the refinement of `MentionDelivery` | 3 events: a message and two replies, so the second meets the limit |
| `router_inline` | liveness for callers that wait for their drain, one worker at a time | 2 events, 1 stop, the hook toggled |
| `branches_safety` | edits, replays, prompts, branches and restarts around an agent at work | 3 to 4 events, 1 to 2 branches, 1 to 2 runs, 1 restart; one agent with relation tools |
| `studio_backend` | packages, sessions, stream and terminal of one backend | 3 packages, 2 commands to 3, one cut; 3 conversations of 2 teams in up to 3 objects; buffer of 3 frames, queue of 2; 3 reads, 2 terminals, 2 polls under way |
| `team_runtime` | teams that are loaded, built, used and closed while their files change; nested and parallel calls, errors, recoveries, a crash | 40 team files; up to 3 runs and 4 calls, 2 attempts per model call, 2 errors, 1 crash |
| `router_lost_wakeup` | violated: a dispatch beside a background drain that is returning | 2 events |
| `router_spin` | violated: a queued agent with nothing new is started for ever | 2 events |
| `router_live_orphan` | violated: a relation tool's call orphans its own run | 2 events |
| `router_late_stop` | violated: a stop between the flag's reading and the completion | 2 events |
| `router_torn_start` | violated: a crash between the two commits of `mark_run_started` | 1 restart |
| `branches_memory` | violated: an edit after two messages read in one run | 4 events, 1 branch, 2 runs |

A bound is enough when the case it bounds happens: every action and disjunct fires in some
passing run, and for every property `PROJECT.json` names a plausible bug in the code that
makes its run fail at these bounds.

Properties of the router:

- `NoRequestLost`: a request to wake an agent is in its queue entry, or in the snapshot of
  a run of it that has a record, unless a user removed the entry.
- `RunningHasWorker`: an agent is marked running only while a thread is at work on its
  current run and that run is pending; otherwise it would never be started again and would
  count against `max_parallel_agents`.
- `DiscardedRunIsSilent`: a run recorded as stopped or ignored moved no cursor and has no
  reply.
- `ReplyFollowsDelivery`: a reply is its run's only one and comes after the events the run
  read, its cursor and its recorded success.
- `DeliveredOnce`: each event up to an agent's cursor was read by exactly one run that
  moved the cursor. `ImplementsDelivery` says the same and more as a refinement.
- `OrphanIsFinal`: a run given up by the reconciliation stays so.
- `CascadeWithinLimit`, `ParallelBound`: the two limits.
- `DrainTerminates`, `MentionsServed`, `WaitEndsDrained`: a drain ends; a queued agent is
  started or its entry removed, unless stopped; a waiting caller returns to a conversation
  with nothing pending.

Of branches and what Studio shows of them:

- `NoForeignHistory`: an agent remembers no message its branch does not show, neither the
  version an edit replaced nor what followed it. Excepted are agents a prompt has overtaken
  (`Overtaken`): a prompt injected beside a run of the agent that ended without a reply on
  a checkpoint of that run (see "What the proofs found").
- `NothingSkipped`: what a cursor has passed, a run was given, in the branch or an ancestor
  (injected prompts excepted, which claim to have read everything: `team.py:281`).
- `ReplyInRunBranch`: one reply per run, in the branch it was started in.
- `UsableFrontierSettled`, `RefusalNeedsOrphan`: what may be forked from is settled, stable
  and, with the same exception, remembers nothing after its event; a fork is refused only
  where a run was lost.
- `BranchHistoryKept`, `CommitIsFinal`: no step takes anything from what a branch shows or
  adds what was not written in it; no step rewrites a settled run.
- `StudioShowsConversation`: events, queue, runs and checkpoints shown refer to each other
  and to the branch. In a branch of a branch Studio leaves out events of the branches in
  between (`studio_state_factory.py:336`); there the property asks for soundness only. The
  checkpoints it offers have the exception of `NoForeignHistory`.

Of Studio:

- `LockedPackagesIntact`, `RiskyTeamsAreComplete`: lock entries describe the disk, unless a
  command was cut in between; a team with executable surfaces runs only as it was locked.
- `ResumedPageShowsLastSnapshot`: a resumed page that has read its replay shows the last
  snapshot between its cursor and its hello, whatever the buffer dropped (cursors of this
  process). That snapshot can be behind the state, see "What the proofs found".
- `PagesCatchUp`: a page whose connection stays open shows the state in the end.
- `OnlyReopeningDisturbs`: a conversation opened once loses no run, event or reply to
  others.
- `RetriesAppendOnce`: a message sent again is there once.
- `TerminalOutputOnce`: the inspector shows every chunk once and in order.

Of a team at work:

- `AcceptedTeamsResolve`: a team the loader accepts is used without a lookup error, and
  each name means one participant (`NamesKnown` names what the loader does not check).
- `FailuresReleaseCheckpointer`, `LanesAreTheTeams`: no failure leaves a connection or
  loop; the lanes in the database are those of the team in use.
- `SelectedSkillsAreListed`, `VisibleToolsWork`: what an agent is shown it selected and can
  read; a tool it sees does something.
- `OneChildAtATime`: calls on one logical thread run one at a time.
- `OutcomesSurviveRecovery`, `RecoveryFailsAttempts`: attempts and edges say what happened,
  though recoveries run beside live runs; the attempts a crash cut are failed.
- `RelationCallsEnd`: calls end, unless they wait for a lock a closed team left behind
  (`async_checkpointer_loop.py:50`), and if the executor has a thread for each.

Deadlock checking is off: a conversation in which everything is done stops.

Fairness. `FairSpec` of the router: weak fairness of each thread's own steps; the operating
system schedules every thread that can run, and an invocation ends (model calls have
timeouts). `StreamFairness`: a producer is woken when its sleep ends and when there is
room in its queue, and a page reads. `RuntimeFairness`: as long as a thread of the executor
or a coroutine of the loop can go on, one does. Nothing is assumed of users: appends,
controls, failures, tool calls, connections and restarts have no fairness. The liveness of
the router holds under `CliCalls` with one worker at a time, and is violated by
`router_spin` as soon as two agents run in parallel and by `router_lost_wakeup` as soon as
callers do not wait: without parallel workers no agent is enqueued for an event it has
already read, and a caller that drains by itself needs no background thread.

## What the violated runs show

`PROJECT.json` quotes the documents each one contradicts.

1. Lost wakeup: `dispatch(wait=False)` trusts a background thread that is alive but past
   its last look at the queue (`router.py:63`, `:79`).
2. Spin: `_run_agent` without events calls `complete_run` with an empty run id, which
   `complete_run` refuses, and the queue entry stays (`router.py:136`, `store.py:602`).
3. Live orphan: a store opened by a relation tool reconciles the runs in flight
   (`branch_thread_resolver.py:28`, `store.py:2391`).
4. Late stop: `complete_run` does not look at the stop flag (`store.py:600`).
5. Torn start: two commits in `mark_run_started` (`store.py:571`). The recovery's
   `_orphan_run` has the same gap (`store.py:2782`).
6. Lost memory: a branch made by an edit keeps the cursor of its parent but forks an
   agent's thread only from a frontier, and a message read together with a later one has
   none (`store.py:3241`, `:2929`).

## What is proved

Everything below holds for any agents, callers, packages, conversations, calls, team files
and bounds the modules' named assumptions allow, and rests on nothing else except where a
premise is stated. `PROJECT.json` lists the theorems a reader should know of.

**The router.** `MentionRouter_proofs`: `TypeCorrect`, `RunningHasWorkerCorrect`,
`NoRequestLostCorrect`, `OrphanIsFinalCorrect`; the second and third if no crash tears an
operation (`~TornWrites`): with torn operations both are false in the state
`router_torn_start` reaches, where an agent is marked running without a thread and its
request is in no queue and no run.

`TypeOK` is not inductive: it does not say that the run a worker holds is a run of its own
agent, which completing and recording it need. `WorkersOwnRuns` adds this, and that a
worker reaches the store with an outcome the store knows. `RunningHasWorker` needs
`RunningHasRun` (running exactly when there is a current run; a worker without events names
none), so that a completion that does not own the agent's run leaves it alone, and the
reconciliation, which goes by runs, releases every running agent. `NoRequestLost` needs the
types only: a queue entry is removed by a user, or by an operation whose snapshot covers it
and whose run has a record. `IInv` is the conjunction; TLC agrees with it on the instance of
`router_safety`. Each action is one step of `TypeStep` and `SafeStep`; what the operations
do to one record is a lemma (`DeliveryOperationsType`), as is the growth of the transcript
and the list of runs (`Grows`).

**The abstract specification and its refinement.** `MentionDelivery` proves of itself that
each message an agent has read was in exactly one of its turns (`DeliveryInv`: turns lie
behind the cursor and apart from each other). `RouterDelivery_proofs` proves
`ImplementsDelivery`, torn operations included: initial states map to initial states, and
each step to a turn, an answer, a message or a stutter. It needs `DInv`: a run that may
still move the cursor starts at it (`WorkerDelivery`), one that may reply has moved it and
has no reply, after a `complete_run` that changed nothing another run is current, and the
runs that moved a cursor lie behind it and apart (`RunsDelivered`). `RouterDeliversOnce`
and `DeliveredOnceCorrect` come back through the mapping.

**The router's other invariants.** `RouterSafety_proofs`: `CascadeWithinLimitCorrect`;
`ParallelBoundCorrect` for finitely many agents (`DrainOrder`: a drain past the lock holds
it, and workers exist only while it joins them); `DiscardedRunIsSilentCorrect` and
`ReplyFollowsDeliveryCorrect` from `SInv`, which adds to `DInv` what each place of a worker
says of the fate of its run (`Fate`) and of its reply; `RestartSettlesRunsCorrect`, without
torn operations: after a restart no agent is marked running and what was given up has its
failed delivery. `router_torn_start` shows that the premise is needed.
`WaitEndsDrainedCorrect` takes one caller, which is the program's use of it (the command
line): no worker is left when the drain looks for the last time, so no place is taken, and
nobody else may enqueue before it gave the lock back (`StaysDrained`). A second caller
could, as the caller does beside a background drain in `router_lost_wakeup`.

**Branches.** `ConversationBranches_proofs` proves the types (`TypeOKCorrect`).
`TypeOK` is not inductive: `TypeInv` adds `Elders` (a branch's parent and a checkpoint's
parent are older than it) and `References` (what a record names exists), without which an
operation that follows a name leads out of the types. `CommitIsFinalCorrect` rests on
`RunsInv`: a run has at most one thread at work on it and is not committed while it has one,
and a reconciliation only gives up pending runs; so whatever order threads, relation tools
and restarts come in, a settled record stays.

`BranchHistory_proofs` proves what branches promise, at any depth of branches:

- What a branch shows (`Shown`), where it comes from (`Ancestors`) and what a checkpoint
  stands on (`Chain`) are recursive functions. `InheritedDefined` shows that they exist,
  as the least relation closed under their equation, and `BranchInduction` and
  `CheckpointInduction` are the induction over branches and checkpoints, over sets instead
  of predicates (`Smallest`: a set of naturals has a least element). So the equations are
  proved (`EquationsHold`), not assumed.
- `BranchHistoryKeptCorrect`: events are only appended, and a branch that starts at an
  event inherits none above it.
- `ReplyInRunBranchCorrect`: `RepliesInv` says that the record of a run has the agent,
  branch and snapshot its thread works with, that no two threads have one run, and that no
  event is yet a reply of a run at work.
- `RefusalNeedsOrphanCorrect`: `HoldsInv` (a running agent holds a pending run of its own;
  threads at work have running runs) and `ThreadsInv` (a thread no run has used holds no
  checkpoint; a frontier's checkpoint is on its thread), so that a fork meets a thread that
  is in use, empty, or lost.
- `NoForeignHistoryCorrect` and `UsableFrontierSettledCorrect`: `MemoryInv` follows a
  message from the branch that shows it into memories and back. `HistoryShown` is the
  property; `MemoryGrows`: a checkpoint remembers what its parent does; `FrontiersCover`: a
  usable frontier's checkpoint remembers nothing after its event; `Origins`, `Befores`: the
  event a branch starts from, and the one an edit precedes, are shown by the parent;
  `Prompts`, `Readings`: what a thread at work will add lies in its branch and up to its
  snapshot. A fork copies the chain below a frontier, and with `FrontiersCover` that is
  within what the new branch inherits.
- `NothingSkippedCorrect`: `CursorsInv` adds that a run of the router reads on from no
  further than where the cursor is by now (`NothingAhead`), so that what a completion moves
  the cursor over, it was given or another run was.
- `StudioShowsConversationCorrect`: `ViewInv` says that the branch users look at is not
  archived, and that what an agent waits for, what a run read up to and where a frontier is
  are messages its branch shows. `HoldsInv` ties runs shown as running to threads, and
  `NoForeignHistory` what an offered checkpoint remembers to what is shown.

**Studio.** `StudioBackend_proofs`: `RetriesAppendOnceCorrect` (`TranscriptInv`:
a handler looks its message id up and appends in one step of the event loop, and events of
agents have none), `RiskyTeamsAreCompleteCorrect`
(`EntriesComplete`: an entry of the lock file was written by an install that ended) and
`LockedPackagesIntactCorrect`. The last one is not inductive by itself: a command between
its steps leaves the disk ahead of the lock file. `IntactInv` says for each step of an
install what it has checked so far (no conflict since it began), what it has written (the
skills it began are those of the release) and what it overlaps: `TreeChangesOverlap` shows,
from the assumption on how directories nest, that a tree put in place can only change
packages inside or around it, which are recorded as changed.

`OnlyReopeningDisturbsCorrect`: `SessionInv` says of each conversation outside `disturbed`
that one object at most has it (`Alone`), how far its run is at each place of the object's
thread (`ObjectAtWork`), and of each of its runs that it was not given up, that a thread is
in the model on it while it is pending, and that once it moved the cursor no later run
starts before its snapshot (`RunAccounted`). What objects do with other conversations is one
lemma (`ElsewhereKeeps`), what reconciliation may touch another (`OpeningKeeps`).

`TerminalOutputOnceCorrect`: `PrintsInOrder` (the chunks, what the reader thread read and
what is in the pipe go on where the other ends, and nothing follows the end) and
`AnswersInOrder` (an answer has exactly the chunks between the cursor it was asked with and
its own). That a poll selects the chunks after a cursor in their order rests on the lemmas
of selections: any set of places of a list has a sequence that lists it (`ListExists`, by
the least number for which it has none), and `Selected` is the list along it
(`SelectedIs`).

`ResumedPageShowsLastSnapshotCorrect`: `StreamInv` says of a connection that resumed that
what is left in its queue and in the hands of its producer ends at the last snapshot
between cursor and hello (`Replays`, `EndsAt`): reading a frame (`EndsRead`) and putting
frames that are no snapshots (`EndsLater`, `PutsKeeps`) keep this, `ReplayIs` starts it.
`BackendTypeOKCorrect` collects the types of the four parts from these invariants.

**A team at work.** `TeamRuntime_proofs`: `OneChildAtATimeCorrect` (`LockInv`: the call
inside a child holds the lock of its key, however calls are nested or left behind by a
closed team); `FailuresReleaseCheckpointerCorrect` and `LanesAreTheTeamsCorrect`
(`HandleInv`, with `ValidTeamsHaveManifests`: the validator makes the targets of relations
agents, so the one step of `instantiate` outside its try statement cannot fail);
`OutcomesSurviveRecoveryCorrect` (`AttemptInv`: what a recovery has listed had no outcome
then, or its end raced with the recovery; `EdgeInv`: a call has no edge before it has its
lock); `RecoveryFailsAttemptsCorrect` (`WorkInv`: a call at work was asked by one at work
of the same run; `RunningInv`: an attempt that runs is that of an invocation at work, or of
a run that ended). These assume of the constants that every call descends from one run.
`AcceptedTeamsResolveCorrect` (`TeamInv`: a team in use is one the loader made of a file;
an exception the program does not explain is of a team that has a name the loader does not
look at). Every failure of a graph is the first of some that can be named
(`FirstFailureAmong`), and `KnownIn` says which of them a team allows, so one chain of
lemmas serves for the types and for the property. `SelectedSkillsAreListedCorrect` and
`VisibleToolsWorkCorrect` (`GraphInv`: what the property says of a graph, for the disk it
was built from; a graph that was built does not change). The step that carries the first is
`RoutesLead`: the routes of a backend mix the sources of all agents, and the path of a
source tells it (`PathsTell`) if slugs differ. `RuntimeTypeOKCorrect` needs `TriesInv`, that
a model call which is about to be made has a try left. `InstantiationAssumption` gives the fields of a
written file their types and lets its order list its agents; whatever else a file says is
for the validator of the model to accept or refuse.

## What the proofs found

- `NoForeignHistory` was first stated without an exception, and no instance within TLC's
  reach violates it; the proof of `FrontiersCover` failed for one step. A run of the router
  leaves a usable frontier; the agent is chosen by a drain; a prompt is injected with the
  snapshot of that moment; a message comes in, and the run of the router reads it and
  writes a checkpoint; the injected run ends without a reply, and
  `_record_terminal_run_frontier` (`store.py:2703`) records, for the last event of the
  prompt's snapshot, a usable frontier whose checkpoint remembers the later message. An edit
  of that message then forks it. `Overtaken` names exactly these agents; no document says
  what an injected prompt may see, so this is an exception and not a finding.
- `ResumedPageShowsLastSnapshot` was first stated with versions: no snapshot before the
  hello is newer than what the page shows. The instance has a buffer of three frames and
  agrees; the proof failed, and with six frames TLC shows why. A producer looks the state up
  (`server.py:382`) and waits to put the changes (`:385`); a handler publishes a newer
  snapshot; the producer goes on and publishes the one it has (`:388`), which is behind the
  state but has the greater number. A page that lost its connection before both replays
  both, shows the older state, and is not corrected before the next change, because
  its own connection starts from the state as it is. The property now says which snapshot
  is shown, not that it is the newest state; no document promises that.
- A page stores the number of its hello when it reads it, before the replay: one that is cut
  between the two resumes after frames it was never given. The model has this; the property
  speaks of what a connection replays.
- `BranchHistoryKept` said only what may be added to a branch; the proof gives that nothing
  is lost either, and the property now says so.
- `Outcomes` was a `CASE` whose guards overlapped for an injected run that owns its agent's
  run: TLC took the first, the logic allows either. It is a chain of conditions now.
- `TeamRuntime` let a run start of an agent the team does not have, and a call of a relation
  find the relation of another type by its id; no instance did either, as the scenarios with
  calls do not edit the file. The proof that only graphs of the team's agents are asked for
  failed on both; `RunStarts` and `Related` now ask what the router and the factory ask.

## What is only model-checked

- Liveness: `DrainTerminates`, `MentionsServed`, `PagesCatchUp`, `RelationCallsEnd`, which
  under fairness is out of reach of the prover.

## What is not modelled

- Interrupts: nothing under `src/src` calls `create_interrupt`, so no interrupt is ever
  there to resolve. UI state is display data per branch. Control events and side effects
  are rows appended and listed, which no operation decides by.
- The older web application is a thin HTTP layer over the same `MentionAwareTeam`; the
  checkpoint viewer and its prices only read checkpoints; the rendering of the frontend.
- Texts: prompts, YAML syntax, the encoding of thread ids, JSON shapes, mention syntax
  beyond what a name means, token bookkeeping.
- `MentionAwareTeam.state` reads table after table; `StudioView` reads them at once.
- A crash between the two commits of `mark_run_started` is in `MentionRouter` only.
- Two routers on one conversation in full detail: `with_conversation_id` is modelled in
  `StudioSession`, where a second object of a conversation reconciles and loses runs of the
  first; that both dispatch the same branch at once is not combined with the places of
  `MentionRouter`'s drain.
- Conversations that a Studio process finds on disk when it starts, and a producer's call
  in the instant between its check and its submission when a loop closes.

## What is left of the plan

The state view read table by table; two routers on one conversation place by place.
