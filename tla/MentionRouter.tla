--------------------------- MODULE MentionRouter ---------------------------
(***************************************************************************)
(* The mention router of a conversation: callers append events and ask for *)
(* a dispatch, a drain starts one worker thread per pending agent, and a   *)
(* worker takes its agent from a snapshot of the events to a reply that    *)
(* may mention, and so enqueue, other agents.                              *)
(*                                                                         *)
(* One action is one step between two points where another thread can run: *)
(* an operation of the store (atomic under its lock), the acquisition or   *)
(* release of the dispatch lock, or the start or join of threads.  The     *)
(* conversation is persisted in sqlite, and stays on one branch.           *)
(***************************************************************************)
EXTENDS AgentDelivery, Sequences, FiniteSets

CONSTANTS
  Agents,           \* the conversation's participants
  Human,            \* the author id of human messages
  Clients,          \* the threads that call the conversation's API
  Background,       \* the router's background thread
  NoDrain,          \* the dispatch lock is free
  Calls,            \* the appends clients make: [author, wait]
  MaxParallel,      \* conversation.mentions.max_parallel_agents
  Settings,         \* the runtime states users choose: [mentionHook, maxCascade]
  RelationCallers,  \* the agents with a tool relation to another agent
  Controls,         \* the other runtime controls users reach for
  TornWrites,       \* whether a crash may fall between two commits of one operation
  MaxSeq,           \* bound: events appended
  MaxRestarts,      \* bound: restarts of the backend
  MaxStops          \* bound: agents with a stop request at a time

Unlimited == 0      \* max_cascade_turns is null; otherwise it is positive

ASSUME RouterAssumption ==
  /\ Human \notin Agents
  /\ Background \notin Clients
  /\ NoDrain \notin Clients \union {Background}
  /\ Calls \subseteq [author : Agents \union {Human}, wait : BOOLEAN]
  /\ \A call \in Calls : call.author \in Agents => ~call.wait
  /\ MaxParallel \in Nat \ {0}
  /\ Settings \subseteq [mentionHook : BOOLEAN, maxCascade : Nat]
  /\ RelationCallers \subseteq Agents
  /\ Controls \subseteq {"cancel", "clear", "configure"}
  /\ TornWrites \in BOOLEAN
  /\ MaxSeq \in Nat
  /\ MaxRestarts \in Nat
  /\ MaxStops \in Nat

VARIABLES
  events,     \* the public transcript: events[seq] = [author, run]
  settings,   \* ConversationRuntimeState
  agent,      \* AgentDeliveryState of each agent
  runs,       \* the run records, in the order of their start
  lock,       \* who holds _dispatch_lock
  drain,      \* where each thread is in drain()
  cascade,    \* cascade_turns of the current drain's DispatchContext
  worker,     \* where each agent's worker thread is in _run_agent
  client,     \* where each caller is in an API call
  restarts,   \* how often the backend has restarted
  asked       \* history: the highest seq an agent was enqueued for, 0 once a user
              \* has removed its queue entry

vars == <<events, settings, agent, runs, lock, drain, cascade, worker, client,
          restarts, asked>>

Drainers == Clients \union {Background}
Seqs     == 0 .. Len(events)
Runs     == 1 .. Len(runs)

RunStatuses  == {"running", "success", "empty", "skipped", "stopped", "ignored", "failed"}
CommitStates == {"pending", "committed", "orphaned"}

IdleWorker ==
  [pc |-> "idle", run |-> NoRun, low |-> 0, snapshot |-> 0, outcome |-> "none",
   seq |-> 0, todo |-> {}]

IdleClient == [pc |-> "idle", wait |-> FALSE, seq |-> 0, todo |-> {}]

Init ==
  /\ events   = <<>>
  /\ settings \in Settings
  /\ agent    = [a \in Agents |-> NewDeliveryState]
  /\ runs     = <<>>
  /\ lock     = NoDrain
  /\ drain    = [d \in Drainers |-> "idle"]
  /\ cascade  = 0
  /\ worker   = [a \in Agents |-> IdleWorker]
  /\ client   = [c \in Clients |-> IdleClient]
  /\ restarts = 0
  /\ asked    = [a \in Agents |-> 0]

----------------------------------------------------------------------------
(* Callers: append_human_message, append_agent_message, dispatch_pending.   *)

\* Bound: an event is appended, or promised by a successful run, only when it fits.
HasRoom ==
  Len(events) + Cardinality({a \in Agents : worker[a].outcome = "success" /\ worker[a].seq = 0})
    < MaxSeq

\* A caller makes no second call before its own drain has returned.
Ready(c) == client[c].pc = "idle" /\ drain[c] = "idle"

\* The event is appended, then the hook read.  The targets are the parsed mentions, never
\* the author; a human message is dispatched with no target too.
ClientAppends(c) ==
  /\ Ready(c)
  /\ HasRoom
  /\ \E call \in Calls :
       /\ events' = Append(events, [author |-> call.author, run |-> NoRun])
       /\ \E targets \in SUBSET (Agents \ {call.author}) :
            client' = IF settings.mentionHook /\ (targets # {} \/ call.author = Human)
                        THEN [client EXCEPT ![c] =
                                [pc   |-> IF targets = {} THEN "dispatching" ELSE "enqueuing",
                                 wait |-> call.wait, seq |-> Len(events) + 1, todo |-> targets]]
                        ELSE client
  /\ UNCHANGED <<settings, agent, runs, lock, drain, cascade, worker, restarts, asked>>

\* store.enqueue: the agent's record, and what it has been asked for.
EnqueueTarget(a, seq) ==
  /\ agent' = [agent EXCEPT ![a] = Enqueue(@, seq)]
  /\ asked' = [asked EXCEPT ![a] = Later(seq, @)]

ClientEnqueues(c) ==
  /\ client[c].pc = "enqueuing"
  /\ \E a \in client[c].todo :
       /\ EnqueueTarget(a, client[c].seq)
       /\ client' = [client EXCEPT ![c].todo = @ \ {a},
                                   ![c].pc = IF client[c].todo = {a} THEN "dispatching" ELSE @]
  /\ UNCHANGED <<events, settings, runs, lock, drain, cascade, worker, restarts>>

\* dispatch: drain on the caller's thread, or on a background thread unless one lives.
StartDrain(c, wait) ==
  drain' = IF wait
             THEN [drain EXCEPT ![c] = "acquiring"]
             ELSE [drain EXCEPT ![Background] = IF @ = "idle" THEN "acquiring" ELSE @]

ClientDispatches(c) ==
  /\ client[c].pc = "dispatching"
  /\ StartDrain(c, client[c].wait)
  /\ client' = [client EXCEPT ![c] = IdleClient]
  /\ UNCHANGED <<events, settings, agent, runs, lock, cascade, worker, restarts, asked>>

\* dispatch_pending.
ClientDispatchesPending(c) ==
  /\ Ready(c)
  /\ settings.mentionHook
  /\ \E call \in Calls : StartDrain(c, call.wait)
  /\ UNCHANGED <<events, settings, agent, runs, lock, cascade, worker, client, restarts, asked>>

----------------------------------------------------------------------------
(* drain: one thread at a time passes the dispatch lock; the others return. *)

DrainAcquires(d) ==
  /\ drain[d] = "acquiring"
  /\ IF lock = NoDrain
       THEN /\ lock' = d
            /\ cascade' = 0
            /\ drain' = [drain EXCEPT ![d] = "looping"]
       ELSE /\ drain' = [drain EXCEPT ![d] = "idle"]
            /\ UNCHANGED <<lock, cascade>>
  /\ UNCHANGED <<events, settings, agent, runs, worker, client, restarts, asked>>

RunningAgents == {a \in Agents : agent[a].running}
PendingAgents == {a \in Agents : PendingIdle(agent[a])}

\* Mutation of Available: one worker too many.
AvailableOffByOne == MaxParallel + 1 - Cardinality(RunningAgents)

Available == MaxParallel - Cardinality(RunningAgents)

\* pending_idle_agent_ids(limit): those queued for the earliest events first.
IsBatch(batch) ==
  /\ batch # {}
  /\ Cardinality(batch) <= Available
  /\ Cardinality(batch) = Available \/ batch = PendingAgents
  /\ \A a \in batch, b \in PendingAgents \ batch : agent[a].queuedAfter <= agent[b].queuedAfter

DrainStartsBatch(d) ==
  /\ drain[d] = "looping"
  /\ \E batch \in SUBSET PendingAgents :
       /\ IsBatch(batch)
       /\ worker' = [a \in Agents |->
                       IF a \in batch THEN [IdleWorker EXCEPT !.pc = "reading"] ELSE worker[a]]
  /\ drain' = [drain EXCEPT ![d] = "joining"]
  /\ UNCHANGED <<events, settings, agent, runs, lock, cascade, client, restarts, asked>>

\* Nothing to start: drain returns, and its finally clause is still to run.
DrainFindsNothing(d) ==
  /\ drain[d] = "looping"
  /\ Available <= 0 \/ PendingAgents = {}
  /\ drain' = [drain EXCEPT ![d] = "releasing"]
  /\ UNCHANGED <<events, settings, agent, runs, lock, cascade, worker, client, restarts, asked>>

\* Mutation of DrainJoins: the drain ends with its first batch.
DrainJoinsOnce(d) ==
  /\ drain[d] = "joining"
  /\ \A a \in Agents : worker[a].pc = "idle"
  /\ drain' = [drain EXCEPT ![d] = "releasing"]
  /\ UNCHANGED <<events, settings, agent, runs, lock, cascade, worker, client, restarts, asked>>

\* Only the holder of the lock starts workers, so its batch is every worker there is.
DrainJoins(d) ==
  /\ drain[d] = "joining"
  /\ \A a \in Agents : worker[a].pc = "idle"
  /\ drain' = [drain EXCEPT ![d] = "looping"]
  /\ UNCHANGED <<events, settings, agent, runs, lock, cascade, worker, client, restarts, asked>>

DrainReleases(d) ==
  /\ drain[d] = "releasing"
  /\ lock' = NoDrain
  /\ drain' = [drain EXCEPT ![d] = "idle"]
  /\ UNCHANGED <<events, settings, agent, runs, cascade, worker, client, restarts, asked>>

----------------------------------------------------------------------------
(* _run_agent, up to the invocation.                                        *)

\* Mutation of ReadAfter: the last delivered event is read again.
ReadFrom(a) == IF agent[a].lastDelivered = 0 THEN 0 ELSE agent[a].lastDelivered - 1

\* What list_events gets as after_seq.
ReadAfter(a) == agent[a].lastDelivered

\* The agent's record and the events after its cursor.
WorkerReads(a) ==
  /\ worker[a].pc = "reading"
  /\ worker' = [worker EXCEPT ![a] =
       [@ EXCEPT !.low = ReadAfter(a),
                 !.snapshot = Len(events),
                 !.run = IF agent[a].currentRun = NoRun THEN BlankRun ELSE agent[a].currentRun,
                 !.pc = IF Len(events) > ReadAfter(a) THEN "starting" ELSE "ending"]]
  /\ UNCHANGED <<events, settings, agent, runs, lock, drain, cascade, client, restarts, asked>>

\* No event to deliver.
WorkerFindsNoEvents(a) ==
  /\ worker[a].pc = "ending"
  /\ agent'  = [agent EXCEPT ![a] = CompleteRun(@, worker[a].run, worker[a].low, FALSE)]
  /\ worker' = [worker EXCEPT ![a] = IdleWorker]
  /\ UNCHANGED <<events, settings, runs, lock, drain, cascade, client, restarts, asked>>

\* The sync builder projects nothing when the agent wrote every event itself.
ProjectsNothing(a) ==
  \A i \in worker[a].low + 1 .. worker[a].snapshot : events[i].author = a

NewRun(a) ==
  [agent |-> a, low |-> worker[a].low, snapshot |-> worker[a].snapshot, status |-> "running",
   commit |-> "pending", deliveries |-> {}, advanced |-> FALSE]

WorkerStartsRun(a) ==
  /\ worker[a].pc = "starting"
  /\ runs'   = Append(runs, NewRun(a))
  /\ agent'  = [agent EXCEPT ![a] = MarkRunStarted(@, Len(runs) + 1, worker[a].snapshot)]
  /\ worker' = [worker EXCEPT ![a] =
       IF ProjectsNothing(a)
         THEN [@ EXCEPT !.run = Len(runs) + 1, !.pc = "completing", !.outcome = "skipped"]
         ELSE [@ EXCEPT !.run = Len(runs) + 1, !.pc = "invoking"]]
  /\ UNCHANGED <<events, settings, lock, drain, cascade, client, restarts, asked>>

----------------------------------------------------------------------------
(* reconcile_incomplete_commits, which every ConversationStore opened on    *)
(* the conversation's connection runs: at the start of the backend, and     *)
(* whenever a relation tool resolves the thread of the agent it calls.      *)

Pending(r) == runs[r].commit = "pending"

\* Mutation of Reconcile: the runs are given up, their agents stay marked running.
ReconcileRunsOnly(states, half) ==
  /\ runs'  = [r \in Runs |->
                 IF Pending(r)
                   THEN [runs[r] EXCEPT !.status = "failed", !.commit = "orphaned"] ELSE runs[r]]
  /\ agent' = states

\* A delivery and the end of its run are one transaction, so no pending run has a
\* delivery and each one is orphaned: its record, its agent, its failed delivery.  The
\* runs in half were given up by a recovery that died after the first of these.
Reconcile(states, half) ==
  /\ runs'  = [r \in Runs |->
                 IF Pending(r)
                   THEN [runs[r] EXCEPT !.status = "failed", !.commit = "orphaned",
                                        !.deliveries = IF r \in half THEN @
                                                       ELSE @ \union {"failed"}]
                   ELSE runs[r]]
  /\ agent' = [a \in Agents |->
                 IF \E r \in Runs \ half : Pending(r) /\ states[a].currentRun = r
                   THEN ReleaseRun(states[a], states[a].currentRun)
                   ELSE states[a]]

WorkerCallsRelationTool(a) ==
  /\ worker[a].pc = "invoking"
  /\ a \in RelationCallers
  /\ Reconcile(agent, {})
  /\ UNCHANGED <<events, settings, lock, drain, cascade, worker, client, restarts, asked>>

----------------------------------------------------------------------------
(* _run_agent, from the invocation to the delivery record.                  *)

\* An exception of the sync builder, of the invocation or of _append_public_reply.
WorkerRaises(a) ==
  /\ \/ worker[a].pc \in {"invoking", "replying", "replied", "enqueuing"}
     \/ worker[a].pc = "completing" /\ worker[a].outcome = "skipped"
  /\ worker' = [worker EXCEPT ![a].pc = "completing", ![a].outcome = "failed"]
  /\ UNCHANGED <<events, settings, agent, runs, lock, drain, cascade, client, restarts, asked>>

\* is_stop_requested: only of the run that is still the current one.
StopRequested(a) == agent[a].currentRun = worker[a].run /\ agent[a].stopRequested

\* The invocation returns, and the stop flag is read.
WorkerReturns(a) ==
  /\ worker[a].pc = "invoking"
  /\ worker' = [worker EXCEPT ![a].pc = "completing",
                              ![a].outcome = IF StopRequested(a) THEN "stopped" ELSE "answered"]
  /\ UNCHANGED <<events, settings, agent, runs, lock, drain, cascade, client, restarts, asked>>

\* Mutation of OutcomesToRecord: the result of complete_run is not looked at.
OutcomesIgnoringOwner(a) ==
  IF worker[a].outcome # "answered"
    THEN {worker[a].outcome}
    ELSE {"empty"} \union {o \in {"success"} : HasRoom}

\* What record_delivery gets: a result with or without a final text counts only
\* when complete_run still found the run to be the current one.
OutcomesToRecord(a) ==
  IF worker[a].outcome # "answered"
    THEN {worker[a].outcome}
    ELSE IF OwnsRun(agent[a], worker[a].run)
           THEN {"empty"} \union {o \in {"success"} : HasRoom}
           ELSE {"ignored"}

WorkerCompletesRun(a) ==
  LET delivered == worker[a].outcome \in {"skipped", "answered"}
  IN /\ worker[a].pc = "completing"
     /\ agent' = [agent EXCEPT ![a] =
                    CompleteRun(@, worker[a].run, worker[a].snapshot, delivered)]
     /\ runs'  = [runs EXCEPT ![worker[a].run].advanced =
                    @ \/ agent'[a].lastDelivered > agent[a].lastDelivered]
     /\ \E outcome \in OutcomesToRecord(a) :
          worker' = [worker EXCEPT ![a].pc = "recording", ![a].outcome = outcome]
     /\ UNCHANGED <<events, settings, lock, drain, cascade, client, restarts, asked>>

\* Mutation of RunAfterDelivery: a late delivery settles an orphaned run again.
RunResurrected(run, status) ==
  [run EXCEPT !.deliveries = @ \union {status}, !.status = status, !.commit = "committed"]

\* _complete_run_record_from_delivery: an orphaned run keeps its record.
RunAfterDelivery(run, status) ==
  IF run.commit = "orphaned"
    THEN [run EXCEPT !.deliveries = @ \union {status}]
    ELSE [run EXCEPT !.deliveries = @ \union {status}, !.status = status, !.commit = "committed"]

\* record_delivery; the reply is appended only after it, by a run that succeeded.
WorkerRecordsDelivery(a) ==
  LET run    == worker[a].run
      status == worker[a].outcome
  IN /\ worker[a].pc = "recording"
     /\ runs'   = [runs EXCEPT ![run] = RunAfterDelivery(@, status)]
     /\ agent'  = IF runs[run].commit = "orphaned"
                    THEN agent
                    ELSE [agent EXCEPT ![a] =
                            ClearRunAgentState(@, run, worker[a].snapshot, status)]
     /\ worker' = [worker EXCEPT ![a] = IF status = "success"
                                          THEN [@ EXCEPT !.pc = "replying"] ELSE IdleWorker]
     /\ UNCHANGED <<events, settings, lock, drain, cascade, client, restarts, asked>>

----------------------------------------------------------------------------
(* _append_public_reply.                                                    *)

WorkerAppendsReply(a) ==
  /\ worker[a].pc = "replying"
  /\ events' = Append(events, [author |-> a, run |-> worker[a].run])
  /\ worker' = [worker EXCEPT ![a].pc = "replied", ![a].seq = Len(events) + 1]
  /\ UNCHANGED <<settings, agent, runs, lock, drain, cascade, client, restarts, asked>>

\* Mutation of LimitReached: one turn too many.
LimitPassed == settings.maxCascade # Unlimited /\ cascade > settings.maxCascade

LimitReached == settings.maxCascade # Unlimited /\ cascade >= settings.maxCascade

\* The hook, then the limit (the "cascade-limited" delivery, which names no run, is left
\* out); testing and counting the turn is one step of the interpreter.
WorkerResolvesMentions(a) ==
  /\ worker[a].pc = "replied"
  /\ \/ /\ worker' = [worker EXCEPT ![a] = IdleWorker]
        /\ UNCHANGED cascade
     \/ /\ settings.mentionHook
        /\ ~LimitReached
        /\ \E mentions \in SUBSET (Agents \ {a}) \ {{}} :
             worker' = [worker EXCEPT ![a].pc = "enqueuing", ![a].todo = mentions]
        /\ cascade' = cascade + 1
  /\ UNCHANGED <<events, settings, agent, runs, lock, drain, client, restarts, asked>>

WorkerEnqueues(a) ==
  /\ worker[a].pc = "enqueuing"
  /\ \E target \in worker[a].todo :
       /\ EnqueueTarget(target, worker[a].seq)
       /\ worker' = [worker EXCEPT ![a] =
                       IF worker[a].todo = {target}
                         THEN IdleWorker ELSE [worker[a] EXCEPT !.todo = @ \ {target}]]
  /\ UNCHANGED <<events, settings, runs, lock, drain, cascade, client, restarts>>

----------------------------------------------------------------------------
(* Runtime controls, from any thread, and restarts of the backend.          *)

StopAgent(a) ==
  /\ Cardinality({b \in Agents : agent[b].stopRequested} \union {a}) <= MaxStops
  /\ agent' = [agent EXCEPT ![a] = RequestStop(@)]
  /\ UNCHANGED <<events, settings, runs, lock, drain, cascade, worker, client, restarts, asked>>

Cancel(cancelled) ==
  /\ agent' = [a \in Agents |-> IF a \in cancelled THEN CancelQueued(agent[a]) ELSE agent[a]]
  /\ asked' = [a \in Agents |-> IF a \in cancelled /\ ~agent[a].running THEN 0 ELSE asked[a]]
  /\ UNCHANGED <<events, settings, runs, lock, drain, cascade, worker, client, restarts>>

CancelQueuedAgent(a) == "cancel" \in Controls /\ Cancel({a})

ClearPendingQueue ==
  "clear" \in Controls /\ Cancel({a \in Agents : agent[a].queued /\ ~agent[a].running})

UpdateRuntimeState ==
  /\ "configure" \in Controls
  /\ settings' \in Settings
  /\ UNCHANGED <<events, agent, runs, lock, drain, cascade, worker, client, restarts, asked>>

\* The agent record of a run that starts is committed before the run record.
StartsUnrecorded(a) == MarkRunStarted(agent[a], LostRun, worker[a].snapshot)

\* What a crash may leave behind: the agent inside mark_run_started, if any, and the run
\* inside the _orphan_run of a recovery that crashed in turn, if any.
Torn(set) == {{}} \union {{x} : x \in IF TornWrites THEN set ELSE {}}

\* Every thread is gone; the new process finds what the store has saved.
Restart ==
  /\ restarts < MaxRestarts
  /\ restarts' = restarts + 1
  /\ lock'     = NoDrain
  /\ drain'    = [d \in Drainers |-> "idle"]
  /\ cascade'  = 0
  /\ worker'   = [a \in Agents |-> IdleWorker]
  /\ client'   = [c \in Clients |-> IdleClient]
  /\ \E cut \in Torn({a \in Agents : worker[a].pc = "starting"}), half \in Torn({r \in Runs : Pending(r)}) :
       Reconcile([a \in Agents |-> IF a \in cut THEN StartsUnrecorded(a) ELSE agent[a]], half)
  /\ UNCHANGED <<events, settings, asked>>

----------------------------------------------------------------------------

ClientStep(c) == ClientEnqueues(c) \/ ClientDispatches(c)

DrainStep(d) ==
  \/ DrainAcquires(d) \/ DrainStartsBatch(d) \/ DrainFindsNothing(d)
  \/ DrainJoins(d) \/ DrainReleases(d)

WorkerStep(a) ==
  \/ WorkerReads(a) \/ WorkerFindsNoEvents(a) \/ WorkerStartsRun(a)
  \/ WorkerReturns(a) \/ WorkerCompletesRun(a)
  \/ WorkerRecordsDelivery(a) \/ WorkerAppendsReply(a)
  \/ WorkerResolvesMentions(a) \/ WorkerEnqueues(a)

Next ==
  \/ \E c \in Clients  : ClientAppends(c) \/ ClientDispatchesPending(c) \/ ClientStep(c)
  \/ \E d \in Drainers : DrainStep(d)
  \/ \E a \in Agents   : WorkerStep(a) \/ WorkerRaises(a) \/ WorkerCallsRelationTool(a)
  \/ \E a \in Agents   : StopAgent(a) \/ CancelQueuedAgent(a)
  \/ ClearPendingQueue \/ UpdateRuntimeState \/ Restart

Spec == Init /\ [][Next]_vars

\* The operating system runs every thread that can run, and an invocation ends.
Fairness ==
  /\ \A c \in Clients  : WF_vars(ClientStep(c))
  /\ \A d \in Drainers : WF_vars(DrainStep(d))
  /\ \A a \in Agents   : WF_vars(WorkerStep(a))

FairSpec == Spec /\ Fairness

----------------------------------------------------------------------------

EventSet(ids)  == [author : Agents \union {Human}, run : ids \union {NoRun}]
RunSet(seqs)   == [agent : Agents, low : seqs, snapshot : seqs, status : RunStatuses,
                   commit : CommitStates, deliveries : SUBSET RunStatuses, advanced : BOOLEAN]
WorkerSet(seqs, ids) ==
  [pc : {"idle", "reading", "ending", "starting", "invoking", "completing", "recording",
         "replying", "replied", "enqueuing"},
   run : ids \union {NoRun, BlankRun, LostRun}, low : seqs, snapshot : seqs,
   outcome : RunStatuses \union {"none", "answered"}, seq : seqs, todo : SUBSET Agents]
ClientSet(seqs) ==
  [pc : {"idle", "enqueuing", "dispatching"}, wait : BOOLEAN, seq : seqs, todo : SUBSET Agents]

\* The shape of the state: queue entries, cursors and snapshots lie within the
\* transcript, and every run a record or a thread names exists (store.py, router.py).
TypeOK ==
  /\ events   \in Seq(EventSet(Runs))
  /\ settings \in Settings
  /\ agent    \in [Agents -> DeliveryStates(Seqs, Runs \union {NoRun, LostRun})]
  /\ runs     \in Seq(RunSet(Seqs))
  /\ lock     \in Drainers \union {NoDrain}
  /\ drain    \in [Drainers -> {"idle", "acquiring", "looping", "joining", "releasing"}]
  /\ cascade  \in Nat
  /\ worker   \in [Agents -> WorkerSet(Seqs, Runs)]
  /\ client   \in [Clients -> ClientSet(Seqs)]
  /\ restarts \in 0 .. MaxRestarts
  /\ asked    \in [Agents -> Seqs]

\* No request to wake an agent disappears without a trace: the events it was enqueued
\* for are still asked for by its queue entry, or lie in the snapshot of a run that has
\* a record, or a user dropped them (the collapsing queue of store.py, mark_run_started
\* and complete_run, across stops, failures and restarts).
NoRequestLost ==
  \A a \in Agents :
    \/ asked[a] = 0
    \/ agent[a].queued /\ asked[a] <= agent[a].queuedAfter
    \/ \E r \in Runs : runs[r].agent = a /\ asked[a] <= runs[r].snapshot

\* An agent is marked running only while a thread is at work on its current run and
\* that run is pending: no path leaves an agent the drain would never start again.
RunningHasWorker ==
  \A a \in Agents : agent[a].running =>
    /\ worker[a].pc \in {"invoking", "completing"}
    /\ worker[a].run = agent[a].currentRun
    /\ runs[worker[a].run].agent = a
    /\ Pending(worker[a].run)

\* Never more workers than max_parallel_agents, whichever threads call drain.
ParallelBound == Cardinality({a \in Agents : worker[a].pc # "idle"}) <= MaxParallel

\* A run recorded as stopped or ignored has not moved its agent's cursor and has no
\* reply in the transcript (the late result of a stopped run is dropped).
DiscardedRunIsSilent ==
  \A r \in Runs : runs[r].deliveries \intersect {"stopped", "ignored"} # {} =>
    /\ ~runs[r].advanced
    /\ \A i \in 1 .. Len(events) : events[i].run # r

\* A reply is its run's only one, comes from the run's agent after all the events the
\* run had read, and after the run moved the cursor and recorded its success.
ReplyFollowsDelivery ==
  \A i \in 1 .. Len(events) :
    LET r == events[i].run
    IN r # NoRun =>
         /\ events[i].author = runs[r].agent
         /\ runs[r].snapshot < i
         /\ runs[r].advanced
         /\ "success" \in runs[r].deliveries
         /\ \A j \in 1 .. Len(events) : events[j].run = r => j = i

\* The cursor skips no event and repeats none: each event up to an agent's cursor was
\* in the update of exactly one run that moved it.
DeliveredOnce ==
  \A a \in Agents :
    LET moved == {r \in Runs : runs[r].agent = a /\ runs[r].advanced}
    IN /\ \A r \in moved : runs[r].snapshot <= agent[a].lastDelivered
       /\ \A i \in 1 .. agent[a].lastDelivered :
            Cardinality({r \in moved : runs[r].low < i /\ i <= runs[r].snapshot}) = 1

\* A drain takes no more cascade turns than the largest limit users set.
CascadeWithinLimit ==
  \/ \E s \in Settings : s.maxCascade = Unlimited
  \/ \E s \in Settings : cascade <= s.maxCascade

\* After a restart no agent is marked running, and every orphaned run has a failed
\* delivery ("Startup recovery creates a visible failed delivery", store.py).
RestartSettlesRuns ==
  [][restarts' # restarts =>
       /\ \A a \in Agents : ~agent'[a].running
       /\ \A r \in Runs : runs'[r].commit = "orphaned" => "failed" \in runs'[r].deliveries]_vars

\* Once reconciliation gave a run up, no late delivery brings it back.
OrphanIsFinal ==
  [][\A r \in Runs : runs[r].commit = "orphaned" =>
       runs'[r].commit = "orphaned" /\ runs'[r].status = "failed"]_vars

\* A drain comes to an end: it gives the dispatch lock back (drain of router.py).
DrainTerminates == (lock # NoDrain) ~> (lock = NoDrain)

\* A queued agent is started, or its entry removed, unless a user asks it to stop: no
\* mention waits for a wakeup that nobody gives (dispatch and drain of router.py).
MentionsServed ==
  \A a \in Agents : agent[a].queued ~> (~agent[a].queued \/ agent[a].stopRequested)

\* A caller that waited returns to a conversation with nothing left to start.
WaitEndsDrained ==
  [][\A c \in Clients : drain[c] = "releasing" /\ drain'[c] = "idle" =>
       \A a \in Agents : ~PendingIdle(agent'[a])]_vars

\* A run is given up as orphaned only when no thread is at work on it ("Run was still
\* pending when the backend restarted", store.py).
OrphansHaveNoWorker ==
  \A a \in Agents : worker[a].pc = "invoking" => runs[worker[a].run].commit # "orphaned"

\* The result of a run that a user stopped while it was the current one never moves the
\* cursor ("do not advance last_delivered_seq for the stopped snapshot").
StopHoldsTheCursor ==
  [][\A a \in Agents : agent[a].running /\ agent[a].stopRequested =>
       agent'[a].lastDelivered = agent[a].lastDelivered]_vars
============================================================================
