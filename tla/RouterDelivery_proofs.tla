----------------------- MODULE RouterDelivery_proofs -----------------------
(***************************************************************************)
(* The mention router keeps the promise of MentionDelivery for any number  *)
(* of agents, callers, events and restarts.                                *)
(***************************************************************************)
EXTENDS RouterDelivery, MentionRouter_proofs

(* The inductive invariant.                                                 *)

\* The run of a's worker has no reply in the transcript.
NoReplyYet(a) == \A i \in 1 .. Len(events) : events[i].run # worker[a].run

\* A run that may still move the cursor starts at the cursor; one that may still reply has
\* moved it; and once complete_run is past, record_delivery finds another current run.
WorkerDelivery(a) ==
  LET w == worker[a]
  IN /\ w.pc = "starting" =>
          /\ w.low = agent[a].lastDelivered
          /\ agent[a].lastDelivered < w.snapshot
     /\ w.pc = "invoking" \/ (w.pc = "completing" /\ w.outcome \in {"skipped", "answered"}) =>
          /\ NoReplyYet(a)
          /\ runs[w.run].low = agent[a].lastDelivered
          /\ agent[a].lastDelivered < w.snapshot
     /\ w.pc = "replying" \/ (w.pc = "recording" /\ w.outcome = "success") =>
          /\ NoReplyYet(a)
          /\ runs[w.run].advanced
     /\ w.pc = "recording" => agent[a].currentRun # w.run

\* A reply is one of a run that moved the cursor.
RepliesAdvanced == \A i \in 1 .. Len(events) :
                     events[i].run # NoRun => runs[events[i].run].advanced

\* The runs that moved a cursor lie behind it, each behind the ones after it.
Behind(r) ==
  runs[r].advanced =>
    /\ runs[r].low < runs[r].snapshot
    /\ runs[r].snapshot <= agent[runs[r].agent].lastDelivered

Apart(r, q) ==
  runs[r].advanced /\ runs[q].advanced /\ runs[r].agent = runs[q].agent =>
    r = q \/ runs[r].snapshot <= runs[q].low \/ runs[q].snapshot <= runs[r].low

RunsDelivered == (\A r \in Runs : Behind(r)) /\ (\A r, q \in Runs : Apart(r, q))

DInv == TypeInv /\ (\A a \in Agents : WorkerDelivery(a)) /\ RepliesAdvanced /\ RunsDelivered

\* What of a run its turn is made of.
SameTurn(r) ==
  /\ runs'[r].agent    = runs[r].agent
  /\ runs'[r].low      = runs[r].low
  /\ runs'[r].snapshot = runs[r].snapshot
  /\ runs'[r].advanced = runs[r].advanced

----------------------------------------------------------------------------

LEMMA DeliveryInit == Init => DInv /\ Delivery!Init
<1> SUFFICES ASSUME Init PROVE DInv /\ Delivery!Init
  OBVIOUS
<1>1. events = <<>> /\ runs = <<>> /\ Runs = {} /\ Len(events) = 0
  BY DEF Init, Runs
<1>2. \A a \in Agents : WorkerDelivery(a)
  BY DEF Init, WorkerDelivery, IdleWorker
<1>3. DInv
  BY <1>1, <1>2, TypeInit DEF DInv, RepliesAdvanced, RunsDelivered
<1>4. [i \in 1 .. Len(events) |-> events[i].author] = <<>>
  BY <1>1
<1>5. [a \in Agents |-> agent[a].lastDelivered] = [a \in Agents |-> 0]
  BY DEF Init, NewDeliveryState
<1>6. TurnsTaken = {} /\ TurnsAnswered = {}
  BY <1>1 DEF TurnsTaken, TurnsAnswered
<1> QED
  BY <1>3, <1>4, <1>5, <1>6 DEF Delivery!Init

\* The types the steps below need.
LEMMA DeliveryTypes ==
  ASSUME DInv
  PROVE  /\ Len(events) \in Nat /\ Len(runs) \in Nat /\ Runs = 1 .. Len(runs)
         /\ \A a \in Agents : /\ agent[a].lastDelivered \in 0 .. Len(events)
                              /\ worker[a].low \in 0 .. Len(events)
                              /\ worker[a].snapshot \in 0 .. Len(events)
                              /\ worker[a] \in WorkerSet(Seqs, Runs)
         /\ \A r \in Runs : /\ runs[r].agent \in Agents
                            /\ runs[r].low \in 0 .. Len(events)
                            /\ runs[r].snapshot \in 0 .. Len(events)
                            /\ runs[r].advanced \in BOOLEAN
         /\ \A i \in 1 .. Len(events) :
              /\ events[i].run \in Runs \union {NoRun}
              /\ events[i].author \in Agents \union {Human}
<1> USE DEF DInv, TypeInv, TypeOK
<1>1. Len(events) \in Nat /\ Len(runs) \in Nat /\ Runs = 1 .. Len(runs)
  BY DEF Runs
<1>2. ASSUME NEW a \in Agents
      PROVE  /\ agent[a].lastDelivered \in 0 .. Len(events)
             /\ worker[a].low \in 0 .. Len(events)
             /\ worker[a].snapshot \in 0 .. Len(events)
             /\ worker[a] \in WorkerSet(Seqs, Runs)
  BY DEF DeliveryStates, WorkerSet, Seqs
<1>3. ASSUME NEW r \in Runs
      PROVE  /\ runs[r].agent \in Agents
             /\ runs[r].low \in 0 .. Len(events)
             /\ runs[r].snapshot \in 0 .. Len(events)
             /\ runs[r].advanced \in BOOLEAN
  <2>1. runs[r] \in RunSet(Seqs)
    BY <1>1
  <2> QED
    BY <2>1 DEF RunSet, Seqs
<1>4. ASSUME NEW i \in 1 .. Len(events)
      PROVE  /\ events[i].run \in Runs \union {NoRun}
             /\ events[i].author \in Agents \union {Human}
  <2>1. events[i] \in EventSet(Runs)
    OBVIOUS
  <2> QED
    BY <2>1 DEF EventSet
<1> QED
  BY <1>1, <1>2, <1>3, <1>4

\* A worker that does not move keeps its part of the invariant, whatever the others do.
LEMMA DeliveryElsewhere ==
  ASSUME DInv, NEW a \in Agents, Runs \subseteq Runs',
         \/ UNCHANGED events
         \/ \E e : events' = Append(events, e) /\ e.run # worker[a].run,
         worker'[a].pc = worker[a].pc, worker'[a].run = worker[a].run,
         worker'[a].low = worker[a].low, worker'[a].snapshot = worker[a].snapshot,
         worker'[a].outcome = worker[a].outcome,
         \A r \in Runs : runs[r].agent = a => SameTurn(r),
         agent'[a].lastDelivered = agent[a].lastDelivered,
         agent'[a].currentRun \in {agent[a].currentRun, NoRun, LostRun}
  PROVE  WorkerDelivery(a)'
<1>1. WorkerDelivery(a)
  BY DEF DInv
<1>2. NoReplyYet(a) => NoReplyYet(a)'
  <2>1. CASE UNCHANGED events
    BY <2>1 DEF NoReplyYet
  <2>2. ASSUME NEW e, events' = Append(events, e), e.run # worker[a].run
        PROVE  NoReplyYet(a) => NoReplyYet(a)'
    <3>1. events \in Seq(EventSet(Runs))
      BY DEF DInv, TypeInv, TypeOK
    <3>2. /\ Len(events') = Len(events) + 1 /\ events'[Len(events) + 1] = e
          /\ \A i \in 1 .. Len(events) : events'[i] = events[i]
      BY <2>2, <3>1
    <3> QED
      BY <2>2, <3>1, <3>2 DEF NoReplyYet
  <2> QED
    BY <2>1, <2>2
<1>3. worker[a].pc \in AtWork =>
        worker[a].run \in Runs /\ SameTurn(worker[a].run) /\ worker[a].run \notin {NoRun, LostRun}
  BY DeliveryTypes DEF DInv, TypeInv, WorkersOwnRuns, NoRun, LostRun
<1>4. worker[a].pc \in {"invoking", "completing", "recording", "replying"} => worker[a].pc \in AtWork
  BY DEF AtWork
<1> QED
  BY <1>1, <1>2, <1>3, <1>4 DEF WorkerDelivery, SameTurn

\* A step that leaves the transcript, the cursors and the turns of the runs alone keeps the
\* invariant and says nothing new.
LEMMA DeliveryStutters ==
  ASSUME DInv, TypeInv', UNCHANGED events, Runs \subseteq Runs',
         \A r \in Runs : SameTurn(r), \A r \in Runs' \ Runs : ~runs'[r].advanced,
         \A a \in Agents : agent'[a].lastDelivered = agent[a].lastDelivered,
         \A a \in Agents : WorkerDelivery(a)'
  PROVE  DInv' /\ UNCHANGED Delivery!deliveryVars
<1>1. RepliesAdvanced'
  BY DeliveryTypes DEF DInv, RepliesAdvanced, SameTurn
<1>2. RunsDelivered'
  BY DeliveryTypes DEF DInv, RunsDelivered, Behind, Apart, SameTurn
<1>3. DInv'
  BY <1>1, <1>2 DEF DInv
<1>4. TurnsTaken' = TurnsTaken
  BY DEF TurnsTaken, TurnOf, SameTurn
<1>5. TurnsAnswered' = TurnsAnswered
  BY DeliveryTypes DEF TurnsAnswered, TurnOf, SameTurn
<1>6. UNCHANGED <<[i \in 1 .. Len(events) |-> events[i].author],
                  [a \in Agents |-> agent[a].lastDelivered]>>
  OBVIOUS
<1> QED
  BY <1>3, <1>4, <1>5, <1>6 DEF Delivery!deliveryVars

----------------------------------------------------------------------------
(* Steps that say nothing new.                                              *)

\* The operations on the queue and on the stop flag touch neither the cursor nor the run.
LEMMA QueueOperations ==
  ASSUME DInv, NEW a \in Agents, NEW seq, NEW run, NEW snapshot
  PROVE  /\ \A s \in {Enqueue(agent[a], seq), CancelQueued(agent[a]), RequestStop(agent[a])} :
              s.lastDelivered = agent[a].lastDelivered /\ s.currentRun = agent[a].currentRun
         /\ MarkRunStarted(agent[a], run, snapshot).lastDelivered = agent[a].lastDelivered
         /\ MarkRunStarted(agent[a], run, snapshot).currentRun = run
<1>1. agent[a] \in DeliveryStates(Seqs, Runs \union {NoRun, LostRun})
  BY DEF DInv, TypeInv, TypeOK
<1> QED
  BY <1>1 DEF DeliveryStates, Enqueue, CancelQueued, RequestStop, MarkRunStarted

\* complete_run moves the cursor to the snapshot, or nothing but the current run.
LEMMA CompletedRun ==
  ASSUME DInv, NEW a \in Agents, NEW run, NEW snapshot \in Nat, NEW delivered \in BOOLEAN
  PROVE  /\ CompleteRun(agent[a], run, snapshot, delivered).lastDelivered =
              IF delivered /\ agent[a].currentRun = run
                THEN Later(snapshot, agent[a].lastDelivered) ELSE agent[a].lastDelivered
         /\ CompleteRun(agent[a], run, snapshot, delivered).currentRun =
              IF agent[a].currentRun = run THEN NoRun ELSE agent[a].currentRun
<1>1. agent[a] \in DeliveryStates(Seqs, Runs \union {NoRun, LostRun})
  BY DEF DInv, TypeInv, TypeOK
<1>2. KeepsQueue(agent[a], snapshot) \in BOOLEAN
  BY DEF KeepsQueue
<1> QED
  BY <1>1, <1>2 DEF CompleteRun, OwnsRun, DeliveryStates

\* A step of one worker that leaves the transcript, the runs and the cursors alone.
LEMMA WorkerStutters ==
  ASSUME DInv, TypeInv', NEW a \in Agents, UNCHANGED <<events, runs>>,
         \A b \in Agents \ {a} : worker'[b] = worker[b],
         \A b \in Agents : /\ agent'[b].lastDelivered = agent[b].lastDelivered
                           /\ agent'[b].currentRun \in {agent[b].currentRun, NoRun, LostRun},
         WorkerDelivery(a)'
  PROVE  DInv' /\ UNCHANGED Delivery!deliveryVars
<1>1. Runs' = Runs /\ \A r \in Runs : SameTurn(r)
  BY DEF Runs, SameTurn
<1>2. ASSUME NEW b \in Agents \ {a} PROVE WorkerDelivery(b)'
  BY <1>1, DeliveryElsewhere
<1> QED
  BY <1>1, <1>2, DeliveryStutters

LEMMA CallersStutter ==
  ASSUME DInv, TypeInv',
         \/ \E c \in Clients  : ClientDispatchesPending(c) \/ ClientStep(c)
         \/ \E d \in Drainers : DrainStep(d)
         \/ \E a \in Agents   : StopAgent(a) \/ CancelQueuedAgent(a)
         \/ ClearPendingQueue \/ UpdateRuntimeState
  PROVE  DInv' /\ UNCHANGED Delivery!deliveryVars
<1>1. agent \in [Agents -> DeliveryStates(Seqs, Runs \union {NoRun, LostRun})]
  BY DEF DInv, TypeInv, TypeOK
<1>2. UNCHANGED <<events, runs>>
  BY DEF ClientDispatchesPending, ClientStep, ClientEnqueues, ClientDispatches, DrainStep,
         DrainAcquires, DrainStartsBatch, DrainFindsNothing, DrainJoins, DrainReleases,
         StopAgent, CancelQueuedAgent, ClearPendingQueue, Cancel, UpdateRuntimeState
<1>3. Runs' = Runs /\ \A r \in Runs : SameTurn(r)
  BY <1>2 DEF Runs, SameTurn
<1>4. ASSUME NEW a \in Agents
      PROVE  agent'[a].lastDelivered = agent[a].lastDelivered
             /\ agent'[a].currentRun = agent[a].currentRun
  <2>1. CASE \E c \in Clients : ClientEnqueues(c)
    BY <1>1, <2>1, QueueOperations DEF ClientEnqueues, EnqueueTarget
  <2>2. CASE \/ \E b \in Agents : StopAgent(b) \/ CancelQueuedAgent(b)
             \/ ClearPendingQueue
    <3>1. agent'[a] \in {agent[a], CancelQueued(agent[a]), RequestStop(agent[a])}
      BY <1>1, <2>2 DEF StopAgent, CancelQueuedAgent, ClearPendingQueue, Cancel
    <3> QED
      BY <3>1, QueueOperations
  <2>3. CASE UNCHANGED agent
    BY <2>3
  <2> QED
    BY <2>1, <2>2, <2>3
    DEF ClientDispatchesPending, ClientStep, ClientDispatches, DrainStep, DrainAcquires,
        DrainStartsBatch, DrainFindsNothing, DrainJoins, DrainReleases, UpdateRuntimeState
<1>5. ASSUME NEW a \in Agents PROVE WorkerDelivery(a)'
  <2>1. CASE worker'[a] = worker[a]
    BY <1>2, <1>3, <1>4, <2>1, DeliveryElsewhere
  <2>2. CASE worker'[a].pc = "reading"
    BY <2>2 DEF WorkerDelivery
  <2>3. CASE \E d \in Drainers : DrainStartsBatch(d)
    <3>1. worker'[a] = worker[a] \/ worker'[a].pc = "reading"
      BY <2>3 DEF DrainStartsBatch, IdleWorker
    <3> QED
      BY <2>1, <2>2, <3>1
  <2> QED
    BY <2>1, <2>3
    DEF ClientDispatchesPending, ClientStep, ClientEnqueues, ClientDispatches, DrainStep,
        DrainAcquires, DrainFindsNothing, DrainJoins, DrainReleases, StopAgent,
        CancelQueuedAgent, ClearPendingQueue, Cancel, UpdateRuntimeState
<1> QED
  BY <1>2, <1>3, <1>4, <1>5, DeliveryStutters

\* Recovery gives runs up and releases their agents, and moves no cursor.
LEMMA RecoveryStutters ==
  ASSUME DInv, TypeInv', Restart \/ \E a \in Agents : WorkerCallsRelationTool(a)
  PROVE  DInv' /\ UNCHANGED Delivery!deliveryVars
<1> DEFINE states == [Agents -> DeliveryStates(Seqs, Runs \union {NoRun, LostRun})]
<1>1. agent \in states
  BY DEF DInv, TypeInv, TypeOK
<1>2. PICK found, half :
        /\ found \in states
        /\ Reconcile(found, half)
        /\ \A a \in Agents : found[a].lastDelivered = agent[a].lastDelivered
        /\ \A a \in Agents : found[a] = agent[a] \/ \A b \in Agents : worker'[b].pc = "idle"
  <2>1. CASE \E a \in Agents : WorkerCallsRelationTool(a)
    BY <1>1, <2>1 DEF WorkerCallsRelationTool
  <2>2. CASE Restart
    <3>1. PICK cut, half :
            Reconcile([a \in Agents |-> IF a \in cut THEN StartsUnrecorded(a) ELSE agent[a]], half)
      BY <2>2 DEF Restart
    <3> DEFINE found == [a \in Agents |-> IF a \in cut THEN StartsUnrecorded(a) ELSE agent[a]]
    <3>2. ASSUME NEW a \in Agents
          PROVE  /\ StartsUnrecorded(a) \in DeliveryStates(Seqs, Runs \union {NoRun, LostRun})
                 /\ StartsUnrecorded(a).lastDelivered = agent[a].lastDelivered
      <4>1. worker[a].snapshot \in Seqs
        BY DEF WorkerSet, DInv, TypeInv, TypeOK
      <4>2. StartsUnrecorded(a) \in DeliveryStates(Seqs, Runs \union {NoRun, LostRun})
        BY <1>1, <4>1, SeqsType, DeliveryOperationsType DEF StartsUnrecorded, NoSeq, DInv
      <4> QED
        BY <4>2, QueueOperations DEF StartsUnrecorded
    <3>3. found \in states /\ \A a \in Agents : found[a].lastDelivered = agent[a].lastDelivered
      BY <1>1, <3>2
    <3>4. \A b \in Agents : worker'[b].pc = "idle"
      BY <2>2 DEF Restart, IdleWorker
    <3> QED
      BY <3>1, <3>3, <3>4
  <2> QED
    BY <2>1, <2>2
<1>3. UNCHANGED events /\ Runs' = Runs
  BY <1>2, ReconcileType DEF Restart, WorkerCallsRelationTool, DInv
<1>4. ASSUME NEW r \in Runs PROVE SameTurn(r)
  <2>1. runs[r] \in RunSet(Seqs)
    BY DEF DInv, TypeInv, TypeOK, Runs
  <2>2. CASE ~Pending(r)
    BY <1>2, <2>2 DEF Reconcile, SameTurn
  <2>3. CASE Pending(r)
    <3>1. runs'[r] = [runs[r] EXCEPT !.status = "failed", !.commit = "orphaned",
                                     !.deliveries = IF r \in half THEN @
                                                    ELSE @ \union {"failed"}]
      BY <1>2, <2>3 DEF Reconcile
    <3> QED
      BY <2>1, <3>1 DEF RunSet, SameTurn
  <2> QED
    BY <2>2, <2>3
<1>5. ASSUME NEW a \in Agents
      PROVE  /\ agent'[a].lastDelivered = agent[a].lastDelivered
             /\ agent'[a].currentRun \in {found[a].currentRun, NoRun}
  BY <1>2 DEF Reconcile, ReleaseRun, DeliveryStates
<1>6. ASSUME NEW a \in Agents PROVE WorkerDelivery(a)'
  <2>1. CASE worker'[a].pc = "idle"
    BY <2>1 DEF WorkerDelivery
  <2>2. CASE found[a] = agent[a] /\ worker'[a] = worker[a]
    BY <1>3, <1>4, <1>5, <2>2, DeliveryElsewhere
  <2> QED
    BY <1>2, <2>1, <2>2 DEF Restart, WorkerCallsRelationTool, IdleWorker
<1> QED
  BY <1>3, <1>4, <1>5, <1>6, DeliveryStutters

\* The steps of a worker that change neither the transcript nor a run.
LEMMA WorkerSilent ==
  ASSUME DInv, TypeInv', NEW a \in Agents,
         \/ WorkerReads(a) \/ WorkerFindsNoEvents(a) \/ WorkerReturns(a) \/ WorkerRaises(a)
         \/ WorkerResolvesMentions(a) \/ WorkerEnqueues(a)
  PROVE  DInv' /\ UNCHANGED Delivery!deliveryVars
<1>1. /\ worker \in [Agents -> WorkerSet(Seqs, Runs)]
      /\ agent \in [Agents -> DeliveryStates(Seqs, Runs \union {NoRun, LostRun})]
      /\ worker[a] \in WorkerSet(Seqs, Runs)
  BY DEF DInv, TypeInv, TypeOK
<1>2. WorkerDelivery(a)
  BY DEF DInv
<1>3. UNCHANGED <<events, runs>>
  BY DEF WorkerReads, WorkerFindsNoEvents, WorkerReturns, WorkerRaises, WorkerResolvesMentions,
         WorkerEnqueues
<1>4. \A b \in Agents \ {a} : worker'[b] = worker[b]
  BY <1>1 DEF WorkerReads, WorkerFindsNoEvents, WorkerReturns, WorkerRaises,
              WorkerResolvesMentions, WorkerEnqueues
<1>5. ASSUME NEW b \in Agents
      PROVE  /\ agent'[b].lastDelivered = agent[b].lastDelivered
             /\ agent'[b].currentRun \in {agent[b].currentRun, NoRun, LostRun}
  <2>1. CASE WorkerFindsNoEvents(a)
    <3>1. agent'[b] = agent[b]
            \/ agent'[b] = CompleteRun(agent[b], worker[a].run, worker[a].low, FALSE)
      BY <1>1, <2>1 DEF WorkerFindsNoEvents
    <3>2. FALSE \in BOOLEAN /\ worker[a].low \in Nat
      BY DeliveryTypes
    <3>3. /\ CompleteRun(agent[b], worker[a].run, worker[a].low, FALSE).lastDelivered
               = agent[b].lastDelivered
          /\ CompleteRun(agent[b], worker[a].run, worker[a].low, FALSE).currentRun
               \in {agent[b].currentRun, NoRun}
      BY <3>2, CompletedRun
    <3> QED
      BY <3>1, <3>3
  <2>2. CASE WorkerEnqueues(a)
    <3>1. agent'[b] = agent[b] \/ agent'[b] = Enqueue(agent[b], worker[a].seq)
      BY <1>1, <2>2 DEF WorkerEnqueues, EnqueueTarget
    <3> QED
      BY <3>1, QueueOperations
  <2>3. CASE UNCHANGED agent
    BY <2>3
  <2> QED
    BY <2>1, <2>2, <2>3 DEF WorkerReads, WorkerReturns, WorkerRaises, WorkerResolvesMentions
<1>6. WorkerDelivery(a)'
  <2>1. CASE WorkerReads(a)
    <3> DEFINE w == [worker[a] EXCEPT
                       !.low = ReadAfter(a), !.snapshot = Len(events),
                       !.run = IF agent[a].currentRun = NoRun THEN BlankRun
                                                             ELSE agent[a].currentRun,
                       !.pc = IF Len(events) > ReadAfter(a) THEN "starting" ELSE "ending"]
    <3>1. worker'[a] = w /\ UNCHANGED agent
      BY <1>1, <2>1 DEF WorkerReads
    <3>2. /\ w.low = agent[a].lastDelivered /\ w.snapshot = Len(events)
          /\ w.pc \in {"starting", "ending"}
          /\ w.pc = "starting" => agent[a].lastDelivered < Len(events)
      BY <1>1 DEF WorkerSet, ReadAfter
    <3> HIDE DEF w
    <3> QED
      BY <3>1, <3>2 DEF WorkerDelivery
  <2>2. CASE worker'[a].pc \in {"idle", "enqueuing"}
    BY <2>2 DEF WorkerDelivery
  <2>3. CASE worker'[a].pc = "completing" /\ worker'[a].outcome \in {"failed", "stopped"}
    BY <2>3 DEF WorkerDelivery
  <2>4. CASE /\ worker[a].pc = "invoking"
             /\ worker'[a] = [worker[a] EXCEPT !.pc = "completing", !.outcome = "answered"]
    <3>1. /\ worker'[a].pc = "completing" /\ worker'[a].run = worker[a].run
          /\ worker'[a].snapshot = worker[a].snapshot
      BY <1>1, <2>4 DEF WorkerSet
    <3>2. NoReplyYet(a) => NoReplyYet(a)'
      BY <1>3, <3>1 DEF NoReplyYet
    <3> QED
      BY <1>2, <1>3, <1>5, <2>4, <3>1, <3>2 DEF WorkerDelivery
  <2>5. CASE WorkerFindsNoEvents(a) \/ WorkerResolvesMentions(a) \/ WorkerEnqueues(a)
    <3>1. worker'[a].pc \in {"idle", "enqueuing"}
      <4>1. CASE worker'[a] = IdleWorker
        BY <4>1 DEF IdleWorker
      <4>2. CASE \E todo : worker'[a] = [worker[a] EXCEPT !.pc = "enqueuing", !.todo = todo]
        BY <1>1, <4>2 DEF WorkerSet
      <4>3. CASE /\ worker[a].pc = "enqueuing"
                 /\ \E todo : worker'[a] = [worker[a] EXCEPT !.todo = todo]
        BY <1>1, <4>3 DEF WorkerSet
      <4>4. WorkerFindsNoEvents(a) => worker'[a] = IdleWorker
        BY <1>1 DEF WorkerFindsNoEvents
      <4>5. ASSUME WorkerResolvesMentions(a)
            PROVE  \/ worker'[a] = IdleWorker
                   \/ \E todo : worker'[a] = [worker[a] EXCEPT !.pc = "enqueuing", !.todo = todo]
        BY <1>1, <4>5 DEF WorkerResolvesMentions
      <4>6. ASSUME WorkerEnqueues(a)
            PROVE  \/ worker'[a] = IdleWorker
                   \/ \E todo : worker'[a] = [worker[a] EXCEPT !.todo = todo]
        BY <1>1, <4>6 DEF WorkerEnqueues
      <4> QED
        BY <2>5, <4>1, <4>2, <4>3, <4>4, <4>5, <4>6 DEF WorkerEnqueues
    <3> QED
      BY <2>2, <3>1
  <2>6. CASE WorkerRaises(a)
    <3>1. worker'[a] = [worker[a] EXCEPT !.pc = "completing", !.outcome = "failed"]
      BY <1>1, <2>6 DEF WorkerRaises
    <3>2. worker'[a].pc = "completing" /\ worker'[a].outcome = "failed"
      BY <1>1, <3>1 DEF WorkerSet
    <3> QED
      BY <2>3, <3>2
  <2>7. CASE WorkerReturns(a)
    <3>1. PICK outcome \in {"stopped", "answered"} :
            worker'[a] = [worker[a] EXCEPT !.pc = "completing", !.outcome = outcome]
      BY <1>1, <2>7 DEF WorkerReturns
    <3>2. worker'[a].pc = "completing" /\ worker'[a].outcome = outcome
      BY <1>1, <3>1 DEF WorkerSet
    <3> QED
      BY <2>3, <2>4, <2>7, <3>1, <3>2 DEF WorkerReturns
  <2> QED
    BY <2>1, <2>5, <2>6, <2>7
<1> QED
  BY <1>3, <1>4, <1>5, <1>6, WorkerStutters

\* A run that starts has moved nothing yet, and starts at the cursor.
LEMMA WorkerStarts ==
  ASSUME DInv, TypeInv', NEW a \in Agents, WorkerStartsRun(a)
  PROVE  DInv' /\ UNCHANGED Delivery!deliveryVars
<1>1. /\ worker \in [Agents -> WorkerSet(Seqs, Runs)]
      /\ agent \in [Agents -> DeliveryStates(Seqs, Runs \union {NoRun, LostRun})]
      /\ worker[a] \in WorkerSet(Seqs, Runs)
      /\ runs \in Seq(RunSet(Seqs))
  BY DEF DInv, TypeInv, TypeOK
<1>2. /\ UNCHANGED events /\ runs' = Append(runs, NewRun(a))
      /\ \A b \in Agents \ {a} : worker'[b] = worker[b] /\ agent'[b] = agent[b]
  BY <1>1 DEF WorkerStartsRun
<1>3. /\ Runs' = Runs \union {Len(runs) + 1} /\ Len(runs) + 1 \notin Runs \union {NoRun}
      /\ \A r \in Runs : runs'[r] = runs[r]
      /\ runs'[Len(runs) + 1] = NewRun(a)
  BY <1>1, <1>2 DEF Runs, NoRun
<1>4. /\ \A r \in Runs : SameTurn(r)
      /\ \A r \in Runs' \ Runs : ~runs'[r].advanced
  BY <1>3 DEF SameTurn, NewRun
<1>5. agent'[a].lastDelivered = agent[a].lastDelivered
  BY <1>1, QueueOperations DEF WorkerStartsRun
<1>6. WorkerDelivery(a)'
  <2>1. WorkerDelivery(a) /\ worker[a].pc = "starting"
    BY DEF DInv, WorkerStartsRun
  <2>2. /\ worker'[a].run = Len(runs) + 1 /\ worker'[a].snapshot = worker[a].snapshot
        /\ worker'[a].pc \in {"invoking", "completing"}
    BY <1>1 DEF WorkerStartsRun, WorkerSet
  <2>3. NoReplyYet(a)'
    BY <1>2, <1>3, <2>2, DeliveryTypes DEF NoReplyYet
  <2>4. runs'[worker'[a].run].low = worker[a].low
    BY <1>3, <2>2 DEF NewRun
  <2> QED
    BY <1>5, <2>1, <2>2, <2>3, <2>4 DEF WorkerDelivery
<1>7. ASSUME NEW b \in Agents \ {a} PROVE WorkerDelivery(b)'
  BY <1>2, <1>3, <1>4, DeliveryElsewhere
<1> QED
  BY <1>2, <1>3, <1>4, <1>5, <1>6, <1>7, DeliveryStutters

\* By the time a delivery is recorded, complete_run has released the agent: the record
\* moves no cursor, and the reply of a success is still to come.
LEMMA WorkerRecords ==
  ASSUME DInv, TypeInv', NEW a \in Agents, WorkerRecordsDelivery(a)
  PROVE  DInv' /\ UNCHANGED Delivery!deliveryVars
<1> DEFINE run == worker[a].run
           x == RunAfterDelivery(runs[run], worker[a].outcome)
<1>1. /\ worker \in [Agents -> WorkerSet(Seqs, Runs)]
      /\ worker[a] \in WorkerSet(Seqs, Runs)
      /\ agent \in [Agents -> DeliveryStates(Seqs, Runs \union {NoRun, LostRun})]
      /\ runs \in Seq(RunSet(Seqs))
      /\ worker[a].pc = "recording"
      /\ run \in Runs /\ runs[run] \in RunSet(Seqs)
  <2>1. run \in Runs
    BY DEF DInv, TypeInv, WorkersOwnRuns, AtWork, WorkerRecordsDelivery
  <2>2. worker[a].pc = "recording"
    BY DEF WorkerRecordsDelivery
  <2>3. runs[run] \in RunSet(Seqs)
    BY <2>1 DEF DInv, TypeInv, TypeOK, Runs
  <2> QED
    BY <2>1, <2>2, <2>3 DEF DInv, TypeInv, TypeOK
<1>2. WorkerDelivery(a)
  BY DEF DInv
<1>3. UNCHANGED <<events, agent>>
  <2>1. agent[a].currentRun # run
    BY <1>1, <1>2 DEF WorkerDelivery
  <2>2. ClearRunAgentState(agent[a], run, worker[a].snapshot, worker[a].outcome) = agent[a]
    BY <2>1 DEF ClearRunAgentState, OwnsRun
  <2> QED
    BY <1>1, <2>2 DEF WorkerRecordsDelivery
<1>4. /\ x.agent = runs[run].agent /\ x.low = runs[run].low
      /\ x.snapshot = runs[run].snapshot /\ x.advanced = runs[run].advanced
  BY <1>1 DEF RunAfterDelivery, RunSet
<1>5. runs' = [runs EXCEPT ![run] = x]
  BY DEF WorkerRecordsDelivery
<1>6. Runs' = Runs /\ \A r \in Runs : SameTurn(r)
  <2> HIDE DEF x, run
  <2> QED
    BY <1>1, <1>4, <1>5 DEF Runs, SameTurn
<1>7. WorkerDelivery(a)'
  <2>1. CASE worker[a].outcome = "success"
    <3>1. worker'[a] = [worker[a] EXCEPT !.pc = "replying"]
      BY <1>1, <2>1 DEF WorkerRecordsDelivery
    <3>2. worker'[a].pc = "replying" /\ worker'[a].run = run
      BY <1>1, <3>1 DEF WorkerSet
    <3>3. NoReplyYet(a)'
      BY <1>1, <1>2, <1>3, <2>1, <3>2 DEF WorkerDelivery, NoReplyYet
    <3>4. runs'[run].advanced
      BY <1>1, <1>2, <1>6, <2>1 DEF WorkerDelivery, SameTurn
    <3> QED
      BY <3>2, <3>3, <3>4 DEF WorkerDelivery
  <2>2. CASE worker[a].outcome # "success"
    <3>1. worker'[a].pc = "idle"
      BY <1>1, <2>2 DEF WorkerRecordsDelivery, IdleWorker
    <3> QED
      BY <3>1 DEF WorkerDelivery
  <2> QED
    BY <2>1, <2>2
<1>8. ASSUME NEW b \in Agents \ {a} PROVE WorkerDelivery(b)'
  <2>1. worker'[b] = worker[b]
    BY <1>1 DEF WorkerRecordsDelivery
  <2> QED
    BY <1>3, <1>6, <2>1, DeliveryElsewhere
<1> QED
  BY <1>3, <1>6, <1>7, <1>8, DeliveryStutters

----------------------------------------------------------------------------
(* Steps the abstract conversation takes too.                               *)

\* What an appended event does to the invariant and to the abstract transcript.
LEMMA TranscriptGrows ==
  ASSUME DInv, NEW e \in EventSet(Runs), events' = Append(events, e), UNCHANGED <<agent, runs>>,
         e.run # NoRun => runs[e.run].advanced
  PROVE  /\ RepliesAdvanced' /\ RunsDelivered'
         /\ [i \in 1 .. Len(events) |-> events[i].author]'
              = Append([i \in 1 .. Len(events) |-> events[i].author], e.author)
         /\ UNCHANGED <<[a \in Agents |-> agent[a].lastDelivered], TurnsTaken>>
         /\ TurnsAnswered' = TurnsAnswered \union
                               (IF e.run = NoRun THEN {} ELSE {TurnOf(e.run)})
<1>1. events \in Seq(EventSet(Runs))
  BY DEF DInv, TypeInv, TypeOK
<1>2. /\ Len(events') = Len(events) + 1 /\ events'[Len(events) + 1] = e
      /\ \A i \in 1 .. Len(events) : events'[i] = events[i]
      /\ 1 .. Len(events') = (1 .. Len(events)) \union {Len(events) + 1}
  BY <1>1
<1>3. RepliesAdvanced'
  BY <1>2 DEF DInv, RepliesAdvanced
<1>4. RunsDelivered' /\ TurnsTaken' = TurnsTaken
  BY DEF DInv, RunsDelivered, Behind, Apart, Runs, TurnsTaken, TurnOf
<1>5. [i \in 1 .. Len(events) |-> events[i].author]'
        = Append([i \in 1 .. Len(events) |-> events[i].author], e.author)
  <2> DEFINE old == [i \in 1 .. Len(events) |-> events[i].author]
             new == [i \in 1 .. Len(events') |-> events'[i].author]
  <2>1. Len(events) \in Nat
    BY <1>1
  <2>2. Len(old) = Len(events)
    BY <2>1
  <2> QED
    BY <1>2, <2>1, <2>2
<1>6. TurnsAnswered' = TurnsAnswered \union (IF e.run = NoRun THEN {} ELSE {TurnOf(e.run)})
  <2>1. \A r : TurnOf(r)' = TurnOf(r)
    BY DEF TurnOf
  <2> QED
    BY <1>2, <2>1 DEF TurnsAnswered
<1> QED
  BY <1>3, <1>4, <1>5, <1>6

LEMMA ClientSays ==
  ASSUME DInv, TypeInv', NEW c \in Clients, ClientAppends(c)
  PROVE  DInv' /\ Delivery!Next
<1>1. PICK call \in Calls : events' = Append(events, [author |-> call.author, run |-> NoRun])
  BY DEF ClientAppends
<1>2. UNCHANGED <<agent, runs, worker>>
  BY DEF ClientAppends
<1>3. call.author \in Agents \union {Human}
  BY RouterAssumption
<1> DEFINE e == [author |-> call.author, run |-> NoRun]
<1>4. e \in EventSet(Runs) /\ e.run = NoRun /\ e.author = call.author
  BY <1>3 DEF EventSet
<1>5. /\ RepliesAdvanced' /\ RunsDelivered'
      /\ [i \in 1 .. Len(events) |-> events[i].author]'
           = Append([i \in 1 .. Len(events) |-> events[i].author], call.author)
      /\ UNCHANGED <<[a \in Agents |-> agent[a].lastDelivered], TurnsTaken, TurnsAnswered>>
  <2> HIDE DEF e
  <2> QED
    BY <1>1, <1>2, <1>4, TranscriptGrows DEF e
<1>6. ASSUME NEW a \in Agents PROVE WorkerDelivery(a)'
  <2>1. /\ Runs' = Runs /\ \A r \in Runs : SameTurn(r)
    BY <1>2 DEF Runs, SameTurn
  <2>2. CASE worker[a].pc \in AtWork
    <3>1. e.run # worker[a].run
      BY <1>4, <2>2, DeliveryTypes DEF DInv, TypeInv, WorkersOwnRuns, NoRun
    <3> QED
      BY <1>1, <1>2, <2>1, <3>1, DeliveryElsewhere
  <2>3. CASE worker[a].pc \notin AtWork
    BY <1>2, <2>3 DEF WorkerDelivery, AtWork, DInv
  <2> QED
    BY <2>2, <2>3
<1>7. Delivery!Says(call.author)
  BY <1>5 DEF Delivery!Says
<1> QED
  BY <1>3, <1>5, <1>6, <1>7 DEF DInv, Delivery!Next

\* Two runs that moved the cursor of one agent are two turns.
LEMMA TurnsDiffer ==
  ASSUME DInv, NEW r \in Runs, NEW q \in Runs, runs[r].advanced, runs[q].advanced,
         TurnOf(r) = TurnOf(q)
  PROVE  r = q
<1>1. /\ runs[r].agent = runs[q].agent /\ runs[r].low = runs[q].low
      /\ runs[r].snapshot = runs[q].snapshot
  BY DEF TurnOf
<1>2. /\ runs[r].low \in Nat /\ runs[r].snapshot \in Nat
      /\ runs[q].low \in Nat /\ runs[q].snapshot \in Nat
  BY DeliveryTypes
<1>3. Behind(r) /\ Apart(r, q)
  BY DEF DInv, RunsDelivered
<1> QED
  BY <1>1, <1>2, <1>3 DEF Behind, Apart

LEMMA WorkerAnswers ==
  ASSUME DInv, TypeInv', NEW a \in Agents, WorkerAppendsReply(a)
  PROVE  DInv' /\ Delivery!Next
<1> DEFINE run == worker[a].run
           e == [author |-> a, run |-> run]
<1>1. /\ worker \in [Agents -> WorkerSet(Seqs, Runs)]
      /\ worker[a] \in WorkerSet(Seqs, Runs)
      /\ run \in Runs /\ run # NoRun /\ runs[run].agent = a
  <2>1. run \in Runs /\ runs[run].agent = a
    BY DEF DInv, TypeInv, WorkersOwnRuns, AtWork, WorkerAppendsReply
  <2>2. run # NoRun
    BY <2>1, DeliveryTypes DEF NoRun
  <2> QED
    BY <2>1, <2>2 DEF DInv, TypeInv, TypeOK
<1>2. NoReplyYet(a) /\ runs[run].advanced
  BY DEF DInv, WorkerDelivery, WorkerAppendsReply
<1>3. events' = Append(events, e) /\ UNCHANGED <<agent, runs>>
  BY DEF WorkerAppendsReply
<1>4. e \in EventSet(Runs) /\ e.run = run /\ e.author = a
  BY <1>1 DEF EventSet
<1>5. /\ RepliesAdvanced' /\ RunsDelivered'
      /\ [i \in 1 .. Len(events) |-> events[i].author]'
           = Append([i \in 1 .. Len(events) |-> events[i].author], a)
      /\ UNCHANGED <<[b \in Agents |-> agent[b].lastDelivered], TurnsTaken>>
      /\ TurnsAnswered' = TurnsAnswered \union {TurnOf(run)}
  <2> HIDE DEF e
  <2> QED
    BY <1>1, <1>2, <1>3, <1>4, TranscriptGrows
<1>6. TurnOf(run) \in TurnsTaken
  BY <1>1, <1>2 DEF TurnsTaken
<1>7. TurnOf(run) \notin TurnsAnswered
  <2>1. ASSUME NEW i \in 1 .. Len(events), events[i].run # NoRun, TurnOf(events[i].run) = TurnOf(run)
        PROVE  FALSE
    <3>1. events[i].run \in Runs /\ runs[events[i].run].advanced
      BY <2>1, DeliveryTypes DEF DInv, RepliesAdvanced
    <3>2. events[i].run = run
      BY <1>1, <1>2, <2>1, <3>1, TurnsDiffer
    <3> QED
      BY <1>2, <3>2 DEF NoReplyYet
  <2> QED
    BY <2>1 DEF TurnsAnswered
<1>8. PICK turn \in TurnsTaken : turn = TurnOf(run)
  BY <1>6
<1>9. WorkerDelivery(a)'
  <2>1. worker'[a].pc = "replied"
    BY <1>1 DEF WorkerAppendsReply, WorkerSet
  <2> QED
    BY <2>1 DEF WorkerDelivery
<1>10. ASSUME NEW b \in Agents \ {a} PROVE WorkerDelivery(b)'
  <2>1. worker'[b] = worker[b]
    BY <1>1 DEF WorkerAppendsReply
  <2>2. Runs' = Runs /\ \A r \in Runs : SameTurn(r)
    BY <1>3 DEF Runs, SameTurn
  <2>3. CASE worker[b].pc \in AtWork
    <3>1. e.run # worker[b].run
      BY <1>1, <1>4, <2>3 DEF DInv, TypeInv, WorkersOwnRuns
    <3> QED
      BY <1>3, <2>1, <2>2, <3>1, DeliveryElsewhere
  <2>4. CASE worker[b].pc \notin AtWork
    BY <1>3, <2>1, <2>4 DEF WorkerDelivery, AtWork, DInv
  <2> QED
    BY <2>3, <2>4
<1>11. DInv'
  BY <1>5, <1>9, <1>10 DEF DInv
<1>12. Delivery!Answers(turn)
  <2>1. turn.agent = a
    BY <1>1, <1>8 DEF TurnOf
  <2> QED
    BY <1>5, <1>7, <1>8, <2>1 DEF Delivery!Answers
<1> QED
  BY <1>11, <1>12 DEF Delivery!Next

\* complete_run takes the turn when the agent still holds the run and it counts, and
\* changes nothing the conversation promises otherwise.
LEMMA WorkerCompletes ==
  ASSUME DInv, TypeInv', NEW a \in Agents, WorkerCompletesRun(a)
  PROVE  DInv' /\ [Delivery!Next]_Delivery!deliveryVars
<1> DEFINE run == worker[a].run
           low == agent[a].lastDelivered
           snapshot == worker[a].snapshot
           delivered == worker[a].outcome \in {"skipped", "answered"}
           takes == delivered /\ agent[a].currentRun = run
<1>1. /\ worker \in [Agents -> WorkerSet(Seqs, Runs)]
      /\ worker[a] \in WorkerSet(Seqs, Runs)
      /\ agent \in [Agents -> DeliveryStates(Seqs, Runs \union {NoRun, LostRun})]
      /\ runs \in Seq(RunSet(Seqs))
  BY DEF DInv, TypeInv, TypeOK
<1>2. /\ run \in Runs /\ runs[run].agent = a /\ runs[run].snapshot = snapshot
      /\ worker[a].pc = "completing"
  BY DEF DInv, TypeInv, WorkersOwnRuns, AtWork, WorkerCompletesRun
<1>3. /\ run # NoRun /\ runs[run] \in RunSet(Seqs) /\ runs[run].advanced \in BOOLEAN
      /\ low \in Nat /\ snapshot \in Nat /\ snapshot <= Len(events)
  BY <1>1, <1>2, DeliveryTypes DEF NoRun
<1>4. delivered => NoReplyYet(a) /\ runs[run].low = low /\ low < snapshot
  BY <1>2 DEF DInv, WorkerDelivery
<1>5. UNCHANGED events /\ \A b \in Agents \ {a} : worker'[b] = worker[b] /\ agent'[b] = agent[b]
  BY <1>1 DEF WorkerCompletesRun
<1>6. /\ agent'[a].lastDelivered = IF takes THEN snapshot ELSE low
      /\ agent'[a].currentRun # run
  <2>1. agent'[a] = CompleteRun(agent[a], run, snapshot, delivered)
    BY <1>1 DEF WorkerCompletesRun
  <2>2. delivered \in BOOLEAN
    OBVIOUS
  <2>3. /\ agent'[a].lastDelivered = IF takes THEN Later(snapshot, low) ELSE low
        /\ agent'[a].currentRun = IF agent[a].currentRun = run THEN NoRun ELSE agent[a].currentRun
    <3>1. CASE delivered
      <4>1. agent'[a] = CompleteRun(agent[a], run, snapshot, TRUE)
        <5>1. delivered = TRUE
          BY <3>1
        <5> QED
          BY <2>1, <5>1
      <4>2. TRUE \in BOOLEAN /\ snapshot \in Nat
        BY <1>3
      <4>3. /\ CompleteRun(agent[a], run, snapshot, TRUE).lastDelivered = IF agent[a].currentRun = run THEN Later(snapshot, low) ELSE low
            /\ CompleteRun(agent[a], run, snapshot, TRUE).currentRun =
                 IF agent[a].currentRun = run THEN NoRun ELSE agent[a].currentRun
        BY <4>2, CompletedRun
      <4> QED
        BY <3>1, <4>1, <4>3
    <3>2. CASE ~delivered
      <4>1. agent'[a] = CompleteRun(agent[a], run, snapshot, FALSE)
        <5>1. delivered = FALSE
          BY <3>2
        <5> QED
          BY <2>1, <5>1
      <4>2. FALSE \in BOOLEAN /\ snapshot \in Nat
        BY <1>3
      <4>3. /\ CompleteRun(agent[a], run, snapshot, FALSE).lastDelivered = low
            /\ CompleteRun(agent[a], run, snapshot, FALSE).currentRun =
                 IF agent[a].currentRun = run THEN NoRun ELSE agent[a].currentRun
        BY <4>2, CompletedRun
      <4> QED
        BY <3>2, <4>1, <4>3
    <3> QED
      BY <3>1, <3>2
  <2>4. takes => Later(snapshot, low) = snapshot
    BY <1>3, <1>4 DEF Later
  <2> QED
    BY <1>3, <2>3, <2>4
<1> DEFINE moved == runs[run].advanced \/ agent'[a].lastDelivered > agent[a].lastDelivered
<1>7. moved = (runs[run].advanced \/ takes)
  <2>1. CASE takes
    BY <1>3, <1>4, <1>6, <2>1
  <2>2. CASE ~takes
    BY <1>3, <1>6, <2>2
  <2> QED
    BY <2>1, <2>2
<1>8. runs' = [runs EXCEPT ![run].advanced = moved]
  BY ZenonT(30) DEF WorkerCompletesRun
<1>9. /\ Runs' = Runs
      /\ \A r \in Runs : /\ runs'[r].agent = runs[r].agent /\ runs'[r].low = runs[r].low
                         /\ runs'[r].snapshot = runs[r].snapshot
                         /\ r # run => runs'[r].advanced = runs[r].advanced
      /\ runs'[run].advanced = moved
  <2> DEFINE x == [runs[run] EXCEPT !.advanced = moved]
  <2>1. /\ x.agent = runs[run].agent /\ x.low = runs[run].low
        /\ x.snapshot = runs[run].snapshot /\ x.advanced = moved
    <3> HIDE DEF moved, run
    <3> QED
      BY <1>3 DEF RunSet
  <2>2. runs' = [runs EXCEPT ![run] = x]
    <3> HIDE DEF moved, run
    <3> QED
      BY <1>8
  <2> HIDE DEF x, run, moved
  <2> QED
    BY <1>1, <1>2, <2>1, <2>2 DEF Runs
<1>10. PICK outcome \in OutcomesToRecord(a) :
         worker'[a].pc = "recording" /\ worker'[a].outcome = outcome /\ worker'[a].run = run
  <2>1. PICK outcome \in OutcomesToRecord(a) :
          worker'[a] = [worker[a] EXCEPT !.pc = "recording", !.outcome = outcome]
    BY <1>1 DEF WorkerCompletesRun
  <2> QED
    BY <1>1, <2>1 DEF WorkerSet
<1>11. outcome = "success" => takes
  BY <1>2 DEF OutcomesToRecord, OwnsRun, DInv, TypeInv, WorkersOwnRuns
<1>12. WorkerDelivery(a)'
  <2>1. outcome = "success" => NoReplyYet(a)' /\ runs'[run].advanced
    BY <1>4, <1>5, <1>7, <1>9, <1>10, <1>11 DEF NoReplyYet
  <2> QED
    BY <1>6, <1>10, <2>1 DEF WorkerDelivery
<1>13. ASSUME NEW b \in Agents \ {a} PROVE WorkerDelivery(b)'
  <2>1. \A r \in Runs : runs[r].agent = b => SameTurn(r)
    BY <1>2, <1>9 DEF SameTurn
  <2> QED
    BY <1>5, <1>9, <2>1, DeliveryElsewhere
<1>14. CASE ~takes
  <2>1. \A r \in Runs : SameTurn(r)
    <3>1. moved = runs[run].advanced
      <4> HIDE DEF moved, takes, run
      <4> QED
        BY <1>3, <1>7, <1>14
    <3> HIDE DEF moved, run
    <3> QED
      BY <1>9, <3>1 DEF SameTurn
  <2>2. \A b \in Agents : agent'[b].lastDelivered = agent[b].lastDelivered
    BY <1>5, <1>6, <1>14
  <2> HIDE DEF takes, run, low, snapshot, delivered, moved
  <2> QED
    BY <1>5, <1>9, <1>12, <1>13, <2>1, <2>2, DeliveryStutters
<1>15. CASE takes
  <2>1. moved = TRUE
    BY <1>7, <1>15
  <2>2. /\ agent'[a].lastDelivered = snapshot /\ low < snapshot
        /\ runs[run].low = low
    BY <1>4, <1>6, <1>15
  <2>3. RepliesAdvanced'
    BY <1>5, <1>9, <2>1, DeliveryTypes DEF DInv, RepliesAdvanced
  <2>4. ASSUME NEW r \in Runs PROVE Behind(r)'
    <3>1. CASE r = run
      BY <1>2, <1>3, <1>9, <2>2, <3>1 DEF Behind
    <3>2. CASE r # run /\ runs[r].agent = a
      <4>1. Behind(r) /\ runs[r].snapshot \in Nat /\ runs[r].low \in Nat
        BY DeliveryTypes DEF DInv, RunsDelivered
      <4> QED
        BY <1>3, <1>9, <2>2, <3>2, <4>1 DEF Behind
    <3>3. CASE r # run /\ runs[r].agent # a
      <4>1. Behind(r) /\ runs[r].agent \in Agents
        BY DeliveryTypes DEF DInv, RunsDelivered
      <4> QED
        BY <1>5, <1>9, <3>3, <4>1 DEF Behind
    <3> QED
      BY <3>1, <3>2, <3>3
  <2>5. \A r, q \in Runs : Apart(r, q)'
    <3>1. ASSUME NEW r \in Runs, r # run, runs[r].advanced, runs[r].agent = a
          PROVE  runs[r].snapshot <= runs[run].low
      BY <2>2, <3>1 DEF DInv, RunsDelivered, Behind
    <3> QED
      BY <1>2, <1>9, <3>1 DEF DInv, RunsDelivered, Apart
  <2>6. DInv'
    BY <1>9, <1>12, <1>13, <2>3, <2>4, <2>5 DEF DInv, RunsDelivered
  <2>7. \A r \in Runs : TurnOf(r)' = TurnOf(r)
    BY <1>9 DEF TurnOf
  <2>8. TurnsTaken' = TurnsTaken \union {TurnOf(run)}
    <3>1. \A r \in Runs : runs'[r].advanced <=> runs[r].advanced \/ r = run
      BY <1>9, <2>1
    <3> HIDE DEF run
    <3> QED
      BY <1>2, <1>9, <2>7, <3>1 DEF TurnsTaken
  <2>9. TurnsAnswered' = TurnsAnswered
    BY <1>5, <2>7, DeliveryTypes DEF TurnsAnswered
  <2>10. TurnOf(run) = [agent |-> a, after |-> low, upTo |-> snapshot]
    BY <1>2, <2>2 DEF TurnOf
  <2> DEFINE cursor == [b \in Agents |-> agent[b].lastDelivered]
  <2>11. cursor' = [cursor EXCEPT ![a] = snapshot] /\ cursor[a] = low
    BY <1>5, <2>2
  <2>12. /\ snapshot \in low + 1 .. Len([i \in 1 .. Len(events) |-> events[i].author])
         /\ UNCHANGED [i \in 1 .. Len(events) |-> events[i].author]
    BY <1>3, <1>5, <2>2, DeliveryTypes
  <2>13. Delivery!TakesTurn(a)
    BY <2>8, <2>9, <2>10, <2>11, <2>12 DEF Delivery!TakesTurn
  <2> QED
    BY <2>6, <2>13 DEF Delivery!Next
<1> QED
  BY <1>14, <1>15

LEMMA DeliveryImplemented ==
  DInv /\ [Next]_vars => DInv' /\ [Delivery!Next]_Delivery!deliveryVars
<1> SUFFICES ASSUME DInv, [Next]_vars
             PROVE  DInv' /\ [Delivery!Next]_Delivery!deliveryVars
  OBVIOUS
<1>1. TypeInv'
  BY TypeStep DEF DInv
<1>2. CASE UNCHANGED vars
  <2>1. /\ UNCHANGED <<events, runs, agent, worker>>
        /\ Runs' = Runs /\ \A r \in Runs : SameTurn(r)
    BY <1>2 DEF vars, Runs, SameTurn
  <2>2. \A a \in Agents : WorkerDelivery(a)'
    BY <2>1, DeliveryElsewhere
  <2> QED
    BY <1>1, <2>1, <2>2, DeliveryStutters
<1>3. CASE Next
  BY <1>1, <1>3, CallersStutter, RecoveryStutters, WorkerSilent, WorkerStarts, WorkerRecords,
     ClientSays, WorkerAnswers, WorkerCompletes
  DEF Next, WorkerStep
<1> QED
  BY <1>2, <1>3

\* The router keeps the promise of the conversation: every step it takes, of any caller,
\* worker, control or restart and of any number of them, is a message, a turn or an answer
\* of MentionDelivery, or invisible there.
THEOREM ImplementsDeliveryCorrect == Spec => ImplementsDelivery
BY DeliveryInit, DeliveryImplemented, PTL DEF Spec, ImplementsDelivery, Delivery!Spec

\* What MentionDelivery promises therefore holds of the router: each message an agent's
\* cursor has passed was in the update of exactly one run that moved it.
THEOREM RouterDeliversOnce == Spec => []Delivery!EachMessageInOneTurn
BY ImplementsDeliveryCorrect, Delivery!EachMessageInOneTurnCorrect, PTL DEF ImplementsDelivery
=============================================================================
