------------------------ MODULE RouterSafety_proofs ------------------------
(***************************************************************************)
(* The rest of what the mention router promises, for any number of agents, *)
(* callers, events and restarts: bounds, deliveries, replies, recovery.    *)
(***************************************************************************)
EXTENDS RouterDelivery_proofs, FiniteSetTheorems

(* The cascade.                                                             *)

LEMMA CascadeStep ==
  ASSUME TypeInv, CascadeWithinLimit, [Next]_vars
  PROVE  CascadeWithinLimit'
<1>1. /\ settings \in Settings /\ cascade \in Nat
      /\ \A s \in Settings : s.maxCascade \in Nat
  BY RouterAssumption DEF TypeInv, TypeOK
<1>2. CASE cascade' = cascade
  BY <1>2 DEF CascadeWithinLimit
<1>3. CASE cascade' = 0
  BY <1>1, <1>3 DEF CascadeWithinLimit
<1>4. ASSUME NEW a \in Agents, WorkerResolvesMentions(a), cascade' # cascade
      PROVE  CascadeWithinLimit'
  <2>1. cascade' = cascade + 1 /\ ~LimitReached
    BY <1>4 DEF WorkerResolvesMentions
  <2>2. CASE settings.maxCascade = Unlimited
    BY <1>1, <2>2 DEF CascadeWithinLimit
  <2>3. CASE ~(cascade >= settings.maxCascade)
    BY <1>1, <2>1, <2>3 DEF CascadeWithinLimit
  <2> QED
    BY <2>1, <2>2, <2>3 DEF LimitReached
<1> QED
  BY <1>2, <1>3, <1>4
  DEF vars, Next, ClientAppends, ClientDispatchesPending, ClientStep, ClientEnqueues,
      ClientDispatches, DrainStep, DrainAcquires, DrainStartsBatch, DrainFindsNothing,
      DrainJoins, DrainReleases, WorkerStep, WorkerReads, WorkerFindsNoEvents,
      WorkerStartsRun, WorkerReturns, WorkerCompletesRun, WorkerRecordsDelivery,
      WorkerAppendsReply, WorkerEnqueues, WorkerRaises, WorkerCallsRelationTool, StopAgent,
      CancelQueuedAgent, ClearPendingQueue, Cancel, UpdateRuntimeState, Restart

\* However many workers count turns in a drain, and whatever limits users set meanwhile, a
\* drain takes no more turns than the largest of them (_append_public_reply).
THEOREM CascadeWithinLimitCorrect == Spec => []CascadeWithinLimit
<1>1. Init => CascadeWithinLimit
  BY RouterAssumption DEF Init, CascadeWithinLimit
<1>2. TypeInv /\ CascadeWithinLimit /\ [Next]_vars => CascadeWithinLimit'
  BY CascadeStep
<1> QED
  BY <1>1, <1>2, TypeInit, TypeStep, PTL DEF Spec

----------------------------------------------------------------------------
(* The dispatch lock and the workers.                                       *)

\* A drain past the lock holds it, workers live only while it waits for them, and a caller
\* in a call has no drain of its own yet.
DrainOrder ==
  /\ \A d \in Drainers : drain[d] \in {"looping", "joining", "releasing"} => lock = d
  /\ \A a \in Agents : worker[a].pc # "idle" => lock \in Drainers /\ drain[lock] = "joining"
  /\ \A c \in Clients : client[c].pc # "idle" => drain[c] = "idle"

Busy == {a \in Agents : worker[a].pc # "idle"}

\* What a step of a worker does to the workers.
LEMMA WorkersEnd ==
  ASSUME TypeInv, NEW a \in Agents, WorkerStep(a) \/ WorkerRaises(a) \/ WorkerCallsRelationTool(a)
  PROVE  /\ UNCHANGED <<lock, drain, client>>
         /\ \A b \in Agents : worker'[b].pc # "idle" => worker[b].pc # "idle"
<1>1. worker \in [Agents -> WorkerSet(Seqs, Runs)]
  BY DEF TypeInv, TypeOK
<1>2. UNCHANGED <<lock, drain, client>>
  BY DEF WorkerStep, WorkerReads, WorkerFindsNoEvents, WorkerStartsRun, WorkerReturns,
         WorkerCompletesRun, WorkerRecordsDelivery, WorkerAppendsReply, WorkerResolvesMentions,
         WorkerEnqueues, WorkerRaises, WorkerCallsRelationTool
<1>3. worker[a].pc # "idle"
  BY DEF WorkerStep, WorkerReads, WorkerFindsNoEvents, WorkerStartsRun, WorkerReturns,
         WorkerCompletesRun, WorkerRecordsDelivery, WorkerAppendsReply, WorkerResolvesMentions,
         WorkerEnqueues, WorkerRaises, WorkerCallsRelationTool
<1>4. \A b \in Agents \ {a} : worker'[b] = worker[b]
  BY <1>1
  DEF WorkerStep, WorkerReads, WorkerFindsNoEvents, WorkerStartsRun, WorkerReturns,
      WorkerCompletesRun, WorkerRecordsDelivery, WorkerAppendsReply, WorkerResolvesMentions,
      WorkerEnqueues, WorkerRaises, WorkerCallsRelationTool
<1> QED
  BY <1>2, <1>3, <1>4

\* What a step of a caller does to the drains.
LEMMA CallersOrder ==
  ASSUME TypeInv, DrainOrder, NEW c \in Clients,
         ClientAppends(c) \/ ClientDispatchesPending(c) \/ ClientStep(c)
  PROVE  DrainOrder' /\ UNCHANGED worker
<1>1. /\ drain \in [Drainers -> {"idle", "acquiring", "looping", "joining", "releasing"}]
      /\ client \in [Clients -> ClientSet(Seqs)]
      /\ c \in Drainers /\ Background \in Drainers /\ Background \notin Clients
  BY RouterAssumption DEF TypeInv, TypeOK, Drainers
<1>2. CASE ClientAppends(c)
  <2>1. UNCHANGED <<lock, drain, worker>> /\ drain[c] = "idle"
    BY <1>2 DEF ClientAppends, Ready
  <2>2. \A b \in Clients \ {c} : client'[b] = client[b]
    BY <1>1, <1>2 DEF ClientAppends
  <2> QED
    BY <2>1, <2>2 DEF DrainOrder
<1>3. CASE ClientEnqueues(c)
  <2>1. UNCHANGED <<lock, drain, worker>> /\ client[c].pc # "idle"
    BY <1>3 DEF ClientEnqueues
  <2>2. \A b \in Clients \ {c} : client'[b] = client[b]
    BY <1>1, <1>3 DEF ClientEnqueues
  <2> QED
    BY <2>1, <2>2 DEF DrainOrder
<1>4. CASE ClientDispatches(c) \/ ClientDispatchesPending(c)
  <2>1. /\ UNCHANGED <<lock, worker>> /\ drain[c] = "idle"
        /\ \E wait : StartDrain(c, wait)
        /\ client'[c].pc = "idle" /\ \A b \in Clients \ {c} : client'[b] = client[b]
    <3>1. CASE ClientDispatches(c)
      BY <1>1, <3>1 DEF ClientDispatches, DrainOrder, IdleClient
    <3>2. CASE ClientDispatchesPending(c)
      BY <1>1, <3>2 DEF ClientDispatchesPending, Ready
    <3> QED
      BY <1>4, <3>1, <3>2
  <2>2. \A d \in Drainers : \/ drain'[d] = drain[d]
                            \/ /\ d \in {c, Background}
                               /\ drain[d] = "idle" /\ drain'[d] = "acquiring"
    BY <1>1, <2>1 DEF StartDrain
  <2>3. \A d \in Drainers : drain'[d] \in {"looping", "joining", "releasing"} => drain'[d] = drain[d]
    BY <2>2
  <2>4. \A d \in Drainers : drain[d] = "joining" => drain'[d] = "joining"
    BY <2>2
  <2> QED
    BY <1>1, <2>1, <2>2, <2>3, <2>4 DEF DrainOrder, Drainers
<1> QED
  BY <1>2, <1>3, <1>4 DEF ClientStep

\* What a step of a drain does to the others.
LEMMA DrainsOrder ==
  ASSUME TypeInv, DrainOrder, NEW d \in Drainers, DrainStep(d)
  PROVE  /\ DrainOrder'
         /\ DrainStartsBatch(d) \/ UNCHANGED worker
         /\ DrainStartsBatch(d) => \A a \in Agents : worker[a].pc = "idle"
<1>1. /\ drain \in [Drainers -> {"idle", "acquiring", "looping", "joining", "releasing"}]
      /\ NoDrain \notin Drainers
      /\ \A b \in Drainers \ {d} : drain'[b] = drain[b]
      /\ UNCHANGED client
  <2>1. /\ drain \in [Drainers -> {"idle", "acquiring", "looping", "joining", "releasing"}]
        /\ NoDrain \notin Drainers
    BY RouterAssumption DEF TypeInv, TypeOK, Drainers
  <2>2. \E pc : drain' = [drain EXCEPT ![d] = pc]
    BY DEF DrainStep, DrainAcquires, DrainStartsBatch, DrainFindsNothing, DrainJoins, DrainReleases
  <2>3. UNCHANGED client
    BY DEF DrainStep, DrainAcquires, DrainStartsBatch, DrainFindsNothing, DrainJoins, DrainReleases
  <2> QED
    BY <2>1, <2>2, <2>3
<1>2. drain[d] # "idle"
  BY DEF DrainStep, DrainAcquires, DrainStartsBatch, DrainFindsNothing, DrainJoins, DrainReleases
<1>3. ASSUME NEW c \in Clients, client'[c].pc # "idle" PROVE drain'[c] = "idle"
  <2>1. c \in Drainers /\ client[c].pc # "idle"
    BY <1>1, <1>3 DEF Drainers
  <2>2. drain[c] = "idle" /\ c # d
    BY <1>2, <2>1 DEF DrainOrder
  <2> QED
    BY <1>1, <2>1, <2>2
<1>4. CASE DrainAcquires(d)
  <2>1. UNCHANGED worker /\ drain'[d] \in {"looping", "idle"} /\ drain[d] = "acquiring"
    BY <1>1, <1>4 DEF DrainAcquires
  <2>2. CASE lock = NoDrain /\ lock' = d
    <3>1. /\ \A b \in Drainers : drain[b] \notin {"looping", "joining", "releasing"}
          /\ \A a \in Agents : worker[a].pc = "idle"
      BY <1>1, <2>2 DEF DrainOrder
    <3> QED
      BY <1>1, <1>3, <2>1, <2>2, <3>1 DEF DrainOrder
  <2>3. CASE UNCHANGED lock /\ drain'[d] = "idle"
    <3>1. \A b \in Drainers : drain[b] = "joining" => drain'[b] = "joining"
      BY <1>1, <2>1
    <3>2. \A b \in Drainers : drain'[b] # "idle" => drain'[b] = drain[b]
      BY <1>1, <2>3
    <3> QED
      BY <1>1, <1>3, <2>1, <2>3, <3>1, <3>2 DEF DrainOrder, DrainStartsBatch
  <2>4. DrainStartsBatch(d) => \A a \in Agents : worker[a].pc = "idle"
    BY <2>1 DEF DrainStartsBatch
  <2> QED
    BY <1>1, <1>4, <2>1, <2>2, <2>3, <2>4 DEF DrainAcquires
<1>5. CASE DrainStartsBatch(d)
  <2>1. lock = d /\ drain'[d] = "joining" /\ UNCHANGED lock
    BY <1>1, <1>5 DEF DrainStartsBatch, DrainOrder
  <2>2. \A a \in Agents : worker[a].pc = "idle"
    BY <1>5, <2>1 DEF DrainStartsBatch, DrainOrder
  <2> QED
    BY <1>1, <1>3, <1>5, <2>1, <2>2 DEF DrainOrder
<1>6. CASE DrainFindsNothing(d) \/ DrainJoins(d) \/ DrainReleases(d)
  <2>1. /\ lock = d /\ UNCHANGED worker
        /\ \A a \in Agents : worker[a].pc = "idle"
    BY <1>6 DEF DrainFindsNothing, DrainJoins, DrainReleases, DrainOrder
  <2>2. CASE DrainReleases(d)
    <3>1. \A b \in Drainers : drain'[b] \notin {"looping", "joining", "releasing"}
      BY <1>1, <2>1, <2>2 DEF DrainReleases, DrainOrder
    <3> QED
      BY <1>3, <2>1, <3>1, <2>2 DEF DrainOrder, DrainStartsBatch, DrainReleases
  <2>3. CASE DrainFindsNothing(d) \/ DrainJoins(d)
    <3>1. UNCHANGED lock
      BY <2>3 DEF DrainFindsNothing, DrainJoins
    <3> QED
      BY <1>1, <1>3, <2>1, <3>1 DEF DrainOrder
  <2> QED
    BY <1>6, <2>2, <2>3
<1> QED
  BY <1>4, <1>5, <1>6 DEF DrainStep, DrainAcquires

LEMMA ParallelStep ==
  ASSUME IsFiniteSet(Agents), TypeInv, DrainOrder, ParallelBound, [Next]_vars
  PROVE  DrainOrder' /\ ParallelBound'
<1>1. IsFiniteSet(Busy) /\ Cardinality(Busy) <= MaxParallel /\ MaxParallel \in Nat
  BY FS_Subset, RouterAssumption DEF Busy, ParallelBound
<1>2. ASSUME Busy' \subseteq Busy PROVE ParallelBound'
  <2>1. IsFiniteSet(Busy') /\ Cardinality(Busy') <= Cardinality(Busy)
    BY <1>1, <1>2, FS_Subset
  <2>2. Cardinality(Busy) \in Nat /\ Cardinality(Busy') \in Nat
    BY <1>1, <2>1, FS_CardinalityType
  <2> QED
    BY <1>1, <2>1, <2>2 DEF Busy, ParallelBound
<1>3. ASSUME NEW d \in Drainers, DrainStartsBatch(d) PROVE DrainOrder' /\ ParallelBound'
  <2>1. DrainOrder' /\ \A a \in Agents : worker[a].pc = "idle"
    BY <1>3, DrainsOrder DEF DrainStep
  <2>2. PICK batch \in SUBSET Agents :
          /\ Cardinality(batch) <= Available
          /\ worker' = [a \in Agents |->
               IF a \in batch THEN [IdleWorker EXCEPT !.pc = "reading"] ELSE worker[a]]
    BY <1>3 DEF DrainStartsBatch, IsBatch, PendingAgents
  <2>3. Busy' \subseteq batch
    BY <2>1, <2>2 DEF Busy
  <2>4. /\ Cardinality(Busy') <= Cardinality(batch) /\ Cardinality(RunningAgents) \in Nat
        /\ Cardinality(Busy') \in Nat /\ Cardinality(batch) \in Nat
    <3>1. IsFiniteSet(batch) /\ IsFiniteSet(RunningAgents)
      BY FS_Subset DEF RunningAgents
    <3>2. IsFiniteSet(Busy') /\ Cardinality(Busy') <= Cardinality(batch)
      BY <2>3, <3>1, FS_Subset
    <3> QED
      BY <3>1, <3>2, FS_CardinalityType
  <2>5. Cardinality(Busy') <= MaxParallel
    BY <1>1, <2>2, <2>4 DEF Available
  <2> QED
    BY <2>1, <2>5 DEF Busy, ParallelBound
<1>4. ASSUME UNCHANGED worker PROVE Busy' \subseteq Busy
  BY <1>4 DEF Busy
<1>5. CASE \E c \in Clients : ClientAppends(c) \/ ClientDispatchesPending(c) \/ ClientStep(c)
  BY <1>2, <1>4, <1>5, CallersOrder
<1>6. CASE \E d \in Drainers : DrainStep(d)
  BY <1>2, <1>3, <1>4, <1>6, DrainsOrder
<1>7. ASSUME NEW a \in Agents, WorkerStep(a) \/ WorkerRaises(a) \/ WorkerCallsRelationTool(a)
      PROVE  DrainOrder' /\ ParallelBound'
  <2>1. /\ UNCHANGED <<lock, drain, client>>
        /\ \A b \in Agents : worker'[b].pc # "idle" => worker[b].pc # "idle"
    BY <1>7, WorkersEnd
  <2>2. DrainOrder' /\ Busy' \subseteq Busy
    BY <2>1 DEF DrainOrder, Busy
  <2> QED
    BY <1>2, <2>2
<1>8. CASE \/ \E a \in Agents : StopAgent(a) \/ CancelQueuedAgent(a)
           \/ ClearPendingQueue \/ UpdateRuntimeState \/ UNCHANGED vars
  <2>1. UNCHANGED <<lock, drain, client, worker>>
    BY <1>8 DEF StopAgent, CancelQueuedAgent, ClearPendingQueue, Cancel, UpdateRuntimeState, vars
  <2> QED
    BY <1>2, <1>4, <2>1 DEF DrainOrder
<1>9. CASE Restart
  <2>1. /\ \A d \in Drainers : drain'[d] = "idle"
        /\ \A a \in Agents : worker'[a].pc = "idle"
        /\ \A c \in Clients : client'[c].pc = "idle"
    BY <1>9 DEF Restart, IdleWorker, IdleClient
  <2>2. DrainOrder'
    <3>1. /\ \A d \in Drainers : drain'[d] \notin {"looping", "joining", "releasing"}
          /\ \A c \in Clients : client'[c].pc = "idle"
      BY <2>1
    <3> QED
      BY <2>1, <3>1 DEF DrainOrder
  <2>3. Busy' \subseteq Busy
    BY <2>1 DEF Busy
  <2> QED
    BY <1>2, <2>2, <2>3
<1> QED
  BY <1>5, <1>6, <1>7, <1>8, <1>9 DEF Next

LEMMA ParallelInit ==
  ASSUME Init PROVE DrainOrder /\ ParallelBound
<1>1. DrainOrder /\ Busy = {}
  BY DEF Init, DrainOrder, Busy, IdleWorker, IdleClient
<1>2. Cardinality(Busy) = 0 /\ 0 <= MaxParallel
  BY <1>1, FS_EmptySet, RouterAssumption
<1> QED
  BY <1>1, <1>2 DEF Busy, ParallelBound

\* Whichever threads ask for a dispatch, there are never more workers than
\* max_parallel_agents: one drain passes the lock, and joins its batch before the next.
THEOREM ParallelBoundCorrect ==
  ASSUME IsFiniteSet(Agents)
  PROVE  Spec => []ParallelBound
<1>1. Init => DrainOrder /\ ParallelBound
  BY ParallelInit
<1>2. TypeInv /\ DrainOrder /\ ParallelBound /\ [Next]_vars => DrainOrder' /\ ParallelBound'
  BY ParallelStep
<1> QED
  BY <1>1, <1>2, TypeInit, TypeStep, PTL DEF Spec

----------------------------------------------------------------------------
(* What a caller that waited returns to.                                    *)

Drained ==
  \A c \in Clients : drain[c] = "releasing" => \A a \in Agents : ~PendingIdle(agent[a])

\* While a drain does not wait for workers, nobody works.
LEMMA NobodyWorks ==
  ASSUME IInv, DrainOrder, NEW d \in Drainers, drain[d] \in {"looping", "releasing"},
         NEW a \in Agents
  PROVE  worker[a].pc = "idle" /\ ~agent[a].running /\ agent[a].currentRun = NoRun
<1>1. worker[a].pc = "idle"
  BY DEF DrainOrder
<1> QED
  BY <1>1 DEF IInv, RunningHasWorker, RunningHasRun

\* A drain that finds no place finds one: so it found no agent.
LEMMA NothingFound ==
  ASSUME IInv, DrainOrder, NEW d \in Drainers, DrainFindsNothing(d)
  PROVE  PendingAgents = {}
<1>1. RunningAgents = {}
  BY NobodyWorks DEF DrainFindsNothing, RunningAgents
<1>2. Available = MaxParallel - 0 /\ MaxParallel \in Nat \ {0}
  BY <1>1, FS_EmptySet, RouterAssumption DEF Available
<1> QED
  BY <1>2 DEF DrainFindsNothing

\* While the only caller gives the lock back, no step of any thread gives an agent work.
LEMMA StaysDrained ==
  ASSUME ~TornWrites, \A c, d \in Clients : c = d, IInv, DrainOrder, Drained, [Next]_vars,
         NEW c \in Clients, drain[c] = "releasing", NEW a \in Agents
  PROVE  ~PendingIdle(agent'[a])
<1>1. /\ agent \in [Agents -> DeliveryStates(Seqs, Runs \union {NoRun, LostRun})]
      /\ c \in Drainers /\ client[c].pc = "idle" /\ ~PendingIdle(agent[a])
      /\ \A b \in Agents : worker[b].pc = "idle" /\ ~agent[b].running /\ agent[b].currentRun = NoRun
  BY NobodyWorks DEF IInv, TypeInv, TypeOK, Drainers, DrainOrder, Drained
<1>2. CASE UNCHANGED agent
  BY <1>1, <1>2
<1>3. CASE \E d \in Clients : ClientAppends(d) \/ ClientDispatchesPending(d) \/ ClientStep(d)
  <2>1. ~ClientEnqueues(c)
    BY <1>1 DEF ClientEnqueues
  <2>2. UNCHANGED agent
    BY <1>3, <2>1 DEF ClientStep, ClientAppends, ClientDispatches, ClientDispatchesPending
  <2> QED
    BY <1>2, <2>2
<1>4. CASE \E d \in Drainers : DrainStep(d)
  <2>1. UNCHANGED agent
    BY <1>4 DEF DrainStep, DrainAcquires, DrainStartsBatch, DrainFindsNothing, DrainJoins, DrainReleases
  <2> QED
    BY <1>2, <2>1
<1>5. ASSUME NEW b \in Agents
      PROVE  ~(WorkerStep(b) \/ WorkerRaises(b) \/ WorkerCallsRelationTool(b))
  BY <1>1
  DEF WorkerStep, WorkerReads, WorkerFindsNoEvents, WorkerStartsRun, WorkerReturns,
      WorkerCompletesRun, WorkerRecordsDelivery, WorkerAppendsReply, WorkerResolvesMentions,
      WorkerEnqueues, WorkerRaises, WorkerCallsRelationTool
<1>6. CASE \E b \in Agents : StopAgent(b)
  BY <1>1, <1>6 DEF StopAgent, RequestStop, PendingIdle, DeliveryStates
<1>7. CASE (\E b \in Agents : CancelQueuedAgent(b)) \/ ClearPendingQueue
  <2>1. PICK cancelled : Cancel(cancelled)
    BY <1>7 DEF CancelQueuedAgent, ClearPendingQueue
  <2> QED
    BY <1>1, <2>1 DEF Cancel, CancelQueued, PendingIdle, DeliveryStates
<1>8. CASE UpdateRuntimeState \/ UNCHANGED vars
  BY <1>2, <1>8 DEF UpdateRuntimeState, vars
<1>9. CASE Restart
  <2>1. Reconcile(agent, {})
    <3>1. SUFFICES ASSUME NEW cut \in {{}}, NEW half \in {{}},
                          Reconcile([b \in Agents |-> IF b \in cut THEN StartsUnrecorded(b)
                                                     ELSE agent[b]], half)
                   PROVE  Reconcile(agent, {})
      BY <1>9 DEF Restart, Torn
    <3>2. [b \in Agents |-> IF b \in cut THEN StartsUnrecorded(b) ELSE agent[b]] = agent
      BY <1>1
    <3> QED
      BY <3>1, <3>2
  <2>2. agent'[a] = agent[a]
    <3>1. ~ \E r \in Runs : agent[a].currentRun = r
      BY <1>1 DEF Runs, NoRun
    <3> QED
      BY <2>1, <3>1 DEF Reconcile
  <2> QED
    BY <1>1, <2>2
<1> QED
  BY <1>3, <1>4, <1>5, <1>6, <1>7, <1>8, <1>9 DEF Next

LEMMA DrainedStep ==
  ASSUME ~TornWrites, \A c, d \in Clients : c = d, IInv, DrainOrder, Drained, [Next]_vars
  PROVE  Drained'
<1> SUFFICES ASSUME NEW c \in Clients, drain'[c] = "releasing", drain[c] # "releasing",
                    NEW a \in Agents
             PROVE  ~PendingIdle(agent'[a])
  BY StaysDrained DEF Drained
<1>1. DrainFindsNothing(c)
  <2>1. drain \in [Drainers -> {"idle", "acquiring", "looping", "joining", "releasing"}]
        /\ c \in Drainers
    BY DEF IInv, TypeInv, TypeOK, Drainers
  <2>2. PICK d \in Drainers : DrainStep(d)
    <3>1. ASSUME NEW b \in Clients, NEW wait, StartDrain(b, wait) PROVE FALSE
      BY <2>1, <3>1 DEF StartDrain, Drainers
    <3>2. ~(UNCHANGED drain) /\ ~Restart
      BY <2>1 DEF Restart
    <3> QED
      BY <3>1, <3>2
      DEF vars, Next, ClientAppends, ClientDispatchesPending, ClientStep, ClientEnqueues,
          ClientDispatches, WorkerStep, WorkerReads, WorkerFindsNoEvents,
          WorkerStartsRun, WorkerReturns, WorkerCompletesRun, WorkerRecordsDelivery,
          WorkerAppendsReply, WorkerResolvesMentions, WorkerEnqueues, WorkerRaises,
          WorkerCallsRelationTool, StopAgent, CancelQueuedAgent, ClearPendingQueue, Cancel,
          UpdateRuntimeState
  <2> QED
    BY <2>1, <2>2
    DEF DrainStep, DrainAcquires, DrainStartsBatch, DrainFindsNothing, DrainJoins, DrainReleases
<1>2. PendingAgents = {} /\ UNCHANGED agent
  BY <1>1, NothingFound DEF DrainFindsNothing, Drainers
<1> QED
  BY <1>2 DEF PendingAgents

\* The only caller of a conversation, as the command line is, returns from a drain it waited
\* for to agents that all have what they were asked for, or a user stopped: the drain looks
\* again after each batch, and nobody else enqueues before it gave the lock back.
THEOREM WaitEndsDrainedCorrect ==
  ASSUME ~TornWrites, IsFiniteSet(Agents), \A c, d \in Clients : c = d
  PROVE  Spec => WaitEndsDrained
<1>1. Init => IInv /\ DrainOrder /\ ParallelBound /\ Drained
  <2> SUFFICES ASSUME Init PROVE IInv /\ DrainOrder /\ ParallelBound /\ Drained
    OBVIOUS
  <2>1. IInv /\ DrainOrder /\ Drained
    BY SafeInit DEF Init, DrainOrder, IdleWorker, IdleClient, Drained, Drainers
  <2>2. ParallelBound
    BY ParallelInit
  <2> QED
    BY <2>1, <2>2
<1>2. IInv /\ DrainOrder /\ ParallelBound /\ Drained /\ [Next]_vars =>
        IInv' /\ DrainOrder' /\ ParallelBound' /\ Drained'
  BY SafeStep, ParallelStep, DrainedStep DEF IInv
<1>3. IInv /\ DrainOrder /\ Drained /\ [Next]_vars =>
        [\A c \in Clients : drain[c] = "releasing" /\ drain'[c] = "idle" =>
           \A a \in Agents : ~PendingIdle(agent'[a])]_vars
  BY StaysDrained
<1> QED
  BY <1>1, <1>2, <1>3, PTL DEF Spec, WaitEndsDrained

----------------------------------------------------------------------------
(* Deliveries.                                                              *)

LEMMA TurnsAreRuns ==
  ASSUME DInv, Delivery!EachMessageInOneTurn PROVE DeliveredOnce
<1>1. ASSUME NEW a \in Agents, NEW r \in Runs, runs[r].agent = a, runs[r].advanced
      PROVE  runs[r].snapshot <= agent[a].lastDelivered
  BY <1>1 DEF DInv, RunsDelivered, Behind
<1>2. ASSUME NEW a \in Agents, NEW i \in 1 .. agent[a].lastDelivered
      PROVE  Cardinality({r \in {q \in Runs : runs[q].agent = a /\ runs[q].advanced} :
                            runs[r].low < i /\ i <= runs[r].snapshot}) = 1
  <2> DEFINE given == {r \in {q \in Runs : runs[q].agent = a /\ runs[q].advanced} :
                         runs[r].low < i /\ i <= runs[r].snapshot}
  <2>1. i \in Nat \ {0} /\ i <= agent[a].lastDelivered
    BY DeliveryTypes
  <2>2. PICK t \in TurnsTaken : t.agent = a /\ Delivery!Gives(t, i)
    BY <2>1 DEF Delivery!EachMessageInOneTurn
  <2>3. PICK r \in Runs : runs[r].advanced /\ t = TurnOf(r)
    BY DEF TurnsTaken
  <2>4. r \in given
    BY <2>2, <2>3 DEF TurnOf, Delivery!Gives
  <2>5. ASSUME NEW q \in given PROVE q = r
    <3>1. /\ q \in Runs /\ runs[q].advanced /\ runs[q].agent = a
          /\ runs[q].low < i /\ i <= runs[q].snapshot
      OBVIOUS
    <3>2. TurnOf(q) \in TurnsTaken
      BY <3>1 DEF TurnsTaken
    <3>3. TurnOf(q).agent = a /\ Delivery!Gives(TurnOf(q), i)
      BY <3>1 DEF TurnOf, Delivery!Gives
    <3>4. TurnOf(q) = TurnOf(r)
      BY <2>1, <2>2, <2>3, <3>2, <3>3 DEF Delivery!EachMessageInOneTurn
    <3> QED
      BY <2>3, <3>1, <3>4, TurnsDiffer
  <2>6. given = {r}
    BY <2>4, <2>5
  <2> QED
    BY <2>6, FS_Singleton
<1> QED
  BY <1>1, <1>2 DEF DeliveredOnce

\* The cursor skips no event and repeats none: each event an agent has read was in the
\* update of exactly one of its runs, by the promise of MentionDelivery.
THEOREM DeliveredOnceCorrect == Spec => []DeliveredOnce
BY DeliveryInit, DeliveryImplemented, TurnsAreRuns, RouterDeliversOnce, PTL DEF Spec

----------------------------------------------------------------------------
(* Replies.                                                                 *)

\* The run of a worker is not discarded before its worker leaves it; one that a user
\* stopped, or that may still be ignored, has neither moved the cursor nor replied; and a
\* reply waits for the record of its success.
Fate(a) ==
  LET w == worker[a]
  IN /\ w.pc \in AtWork => runs[w.run].deliveries \intersect {"stopped", "ignored"} = {}
     /\ (\/ w.pc = "invoking"
         \/ w.pc = "completing" /\ w.outcome \in {"answered", "stopped"}
         \/ w.pc = "recording" /\ w.outcome \in {"stopped", "ignored"}) =>
          NoReplyYet(a) /\ ~runs[w.run].advanced
     /\ w.pc = "replying" => "success" \in runs[w.run].deliveries

RepliesInv == DiscardedRunIsSilent /\ ReplyFollowsDelivery

SInv == DInv /\ (\A a \in Agents : Fate(a)) /\ RepliesInv

\* What a run keeps when nobody completes it: its turn, and its deliveries but for the
\* failure recovery adds.
Kept(r) ==
  /\ SameTurn(r)
  /\ runs[r].deliveries \subseteq runs'[r].deliveries
  /\ runs'[r].deliveries \subseteq runs[r].deliveries \union {"failed"}

LEMMA UnchangedKept == ASSUME UNCHANGED runs PROVE Runs' = Runs /\ \A r \in Runs : Kept(r)
BY DEF Runs, Kept, SameTurn

\* An append of the transcript, as the workers that wrote nothing see it.
LEMMA NoReplyKept ==
  ASSUME DInv, NEW a \in Agents, NoReplyYet(a), worker'[a].run = worker[a].run,
         \/ UNCHANGED events
         \/ \E e : events' = Append(events, e) /\ e.run # worker[a].run
  PROVE  NoReplyYet(a)'
<1>1. CASE UNCHANGED events
  BY <1>1 DEF NoReplyYet
<1>2. ASSUME NEW e, events' = Append(events, e), e.run # worker[a].run PROVE NoReplyYet(a)'
  <2>1. events \in Seq(EventSet(Runs))
    BY DEF DInv, TypeInv, TypeOK
  <2>2. /\ Len(events') = Len(events) + 1 /\ events'[Len(events) + 1] = e
        /\ \A i \in 1 .. Len(events) : events'[i] = events[i]
    BY <1>2, <2>1
  <2> QED
    BY <1>2, <2>1, <2>2 DEF NoReplyYet
<1> QED
  BY <1>1, <1>2

LEMMA FateElsewhere ==
  ASSUME DInv, NEW a \in Agents, Fate(a), worker'[a] = worker[a],
         \A r \in Runs : runs[r].agent = a => Kept(r),
         \/ UNCHANGED events
         \/ \E e : events' = Append(events, e)
                     /\ (worker[a].pc \in AtWork => e.run # worker[a].run)
  PROVE  Fate(a)'
<1>1. CASE worker[a].pc \in AtWork
  <2>1. Kept(worker[a].run)
    BY <1>1 DEF DInv, TypeInv, WorkersOwnRuns
  <2>2. NoReplyYet(a) => NoReplyYet(a)'
    BY <1>1, NoReplyKept
  <2> QED
    BY <1>1, <2>1, <2>2 DEF Fate, Kept, SameTurn
<1>2. CASE worker[a].pc \notin AtWork
  BY <1>2 DEF Fate, AtWork
<1> QED
  BY <1>1, <1>2

\* Runs that nobody completes keep their silence and their replies.
LEMMA RepliesKept ==
  ASSUME DInv, RepliesInv, DInv', UNCHANGED events, Runs \subseteq Runs',
         \A r \in Runs : Kept(r), \A r \in Runs' \ Runs : runs'[r].deliveries = {}
  PROVE  RepliesInv'
<1>1. DiscardedRunIsSilent'
  BY DEF RepliesInv, DiscardedRunIsSilent, Kept, SameTurn
<1>2. ReplyFollowsDelivery'
  <2> SUFFICES ASSUME NEW i \in 1 .. Len(events), events[i].run # NoRun
               PROVE  LET r == events[i].run
                      IN /\ events[i].author = runs'[r].agent
                         /\ runs'[r].snapshot < i
                         /\ runs'[r].advanced
                         /\ "success" \in runs'[r].deliveries
                         /\ \A j \in 1 .. Len(events) : events[j].run = r => j = i
    BY DEF ReplyFollowsDelivery
  <2>1. events[i].run \in Runs
    BY DeliveryTypes
  <2>2. Kept(events[i].run)
    BY <2>1
  <2> QED
    BY <2>2 DEF RepliesInv, ReplyFollowsDelivery, Kept, SameTurn
<1> QED
  BY <1>1, <1>2 DEF RepliesInv

LEMMA CallersReply ==
  ASSUME SInv, DInv',
         \/ \E c \in Clients  : ClientDispatchesPending(c) \/ ClientStep(c)
         \/ \E d \in Drainers : DrainStep(d)
         \/ \E a \in Agents   : StopAgent(a) \/ CancelQueuedAgent(a)
         \/ ClearPendingQueue \/ UpdateRuntimeState
  PROVE  SInv'
<1>1. UNCHANGED <<events, runs>>
  BY DEF ClientDispatchesPending, ClientStep, ClientEnqueues, ClientDispatches, DrainStep,
         DrainAcquires, DrainStartsBatch, DrainFindsNothing, DrainJoins, DrainReleases,
         StopAgent, CancelQueuedAgent, ClearPendingQueue, Cancel, UpdateRuntimeState
<1>2. Runs' = Runs /\ \A r \in Runs : Kept(r)
  BY <1>1, UnchangedKept
<1>3. RepliesInv'
  BY <1>1, <1>2, RepliesKept DEF SInv
<1>4. ASSUME NEW a \in Agents PROVE worker'[a] = worker[a] \/ worker'[a].pc = "reading"
  <2>1. CASE \E d \in Drainers : DrainStartsBatch(d)
    BY <2>1 DEF DrainStartsBatch, IdleWorker
  <2> QED
    BY <2>1
    DEF ClientDispatchesPending, ClientStep, ClientEnqueues, ClientDispatches, DrainStep,
        DrainAcquires, DrainFindsNothing, DrainJoins, DrainReleases, StopAgent,
        CancelQueuedAgent, ClearPendingQueue, Cancel, UpdateRuntimeState
<1>5. ASSUME NEW a \in Agents PROVE Fate(a)'
  <2>1. CASE worker'[a] = worker[a]
    BY <1>1, <1>2, <2>1, FateElsewhere DEF SInv
  <2>2. CASE worker'[a].pc = "reading"
    BY <2>2 DEF Fate, AtWork
  <2> QED
    BY <1>4, <2>1, <2>2
<1> QED
  BY <1>3, <1>5 DEF SInv

LEMMA RecoveryReplies ==
  ASSUME SInv, DInv', Restart \/ \E a \in Agents : WorkerCallsRelationTool(a)
  PROVE  SInv'
<1>1. PICK found, half : Reconcile(found, half)
  BY DEF Restart, WorkerCallsRelationTool
<1>2. UNCHANGED events
  BY DEF Restart, WorkerCallsRelationTool
<1>3. ASSUME NEW r \in Runs PROVE Kept(r)
  <2>1. runs[r] \in RunSet(Seqs)
    BY DEF SInv, DInv, TypeInv, TypeOK, Runs
  <2>2. CASE ~Pending(r)
    BY <1>1, <2>2 DEF Reconcile, Kept, SameTurn
  <2>3. CASE Pending(r)
    <3>1. runs'[r] = [runs[r] EXCEPT !.status = "failed", !.commit = "orphaned",
                                     !.deliveries = IF r \in half THEN @
                                                    ELSE @ \union {"failed"}]
      BY <1>1, <2>3 DEF Reconcile
    <3> QED
      BY <2>1, <3>1 DEF RunSet, Kept, SameTurn
  <2> QED
    BY <2>2, <2>3
<1>4. Runs' = Runs
  <2> DEFINE record(r) == IF Pending(r)
                            THEN [runs[r] EXCEPT !.status = "failed", !.commit = "orphaned",
                                                 !.deliveries = IF r \in half THEN @
                                                                ELSE @ \union {"failed"}]
                            ELSE runs[r]
  <2>1. runs' = [r \in 1 .. Len(runs) |-> record(r)]
    BY <1>1 DEF Reconcile, Runs
  <2> HIDE DEF record
  <2>2. Len(runs) \in Nat
    BY DEF SInv, DInv, TypeInv, TypeOK
  <2>3. Len(runs') = Len(runs)
    BY <2>1, <2>2
  <2> QED
    BY <2>3 DEF Runs
<1>5. RepliesInv'
  BY <1>2, <1>3, <1>4, RepliesKept DEF SInv
<1>6. ASSUME NEW a \in Agents PROVE Fate(a)'
  <2>1. CASE worker'[a] = worker[a]
    BY <1>2, <1>3, <2>1, FateElsewhere DEF SInv
  <2>2. CASE worker'[a].pc = "idle"
    BY <2>2 DEF Fate, AtWork
  <2> QED
    BY <2>1, <2>2 DEF Restart, WorkerCallsRelationTool, IdleWorker
<1> QED
  BY <1>5, <1>6 DEF SInv

\* The steps of a worker that change neither the transcript nor a run.
LEMMA WorkerReplySilent ==
  ASSUME SInv, DInv', NEW a \in Agents,
         \/ WorkerReads(a) \/ WorkerFindsNoEvents(a) \/ WorkerReturns(a) \/ WorkerRaises(a)
         \/ WorkerResolvesMentions(a) \/ WorkerEnqueues(a)
  PROVE  SInv'
<1>1. worker \in [Agents -> WorkerSet(Seqs, Runs)] /\ worker[a] \in WorkerSet(Seqs, Runs)
  BY DEF SInv, DInv, TypeInv, TypeOK
<1>2. UNCHANGED <<events, runs>> /\ \A b \in Agents \ {a} : worker'[b] = worker[b]
  BY <1>1 DEF WorkerReads, WorkerFindsNoEvents, WorkerReturns, WorkerRaises,
              WorkerResolvesMentions, WorkerEnqueues
<1>3. Runs' = Runs /\ \A r \in Runs : Kept(r)
  BY <1>2, UnchangedKept
<1>4. RepliesInv'
  BY <1>2, <1>3, RepliesKept DEF SInv
<1>5. ASSUME NEW b \in Agents \ {a} PROVE Fate(b)'
  BY <1>2, <1>3, FateElsewhere DEF SInv
<1>6. Fate(a)'
  <2>1. Fate(a) /\ DInv
    BY DEF SInv
  <2>2. CASE worker'[a].pc \in {"idle", "starting", "ending"}
    BY <2>2 DEF Fate, AtWork
  <2>3. CASE /\ worker[a].pc \in AtWork /\ worker'[a].run = worker[a].run
             /\ \/ worker'[a].pc = "enqueuing"
                \/ worker'[a].pc = "completing" /\ worker'[a].outcome = "failed"
    BY <1>2, <2>1, <2>3 DEF Fate
  <2>4. CASE /\ worker[a].pc = "invoking" /\ worker'[a].run = worker[a].run
             /\ worker'[a].pc = "completing"
    <3>1. NoReplyYet(a) => NoReplyYet(a)'
      BY <1>2, <2>4 DEF NoReplyYet
    <3> QED
      BY <1>2, <2>1, <2>4, <3>1 DEF Fate, AtWork
  <2>5. CASE WorkerReads(a)
    <3>1. worker'[a].pc \in {"starting", "ending"}
      BY <1>1, <2>5 DEF WorkerReads, WorkerSet
    <3> QED
      BY <2>2, <3>1
  <2>6. CASE WorkerFindsNoEvents(a)
    <3>1. worker'[a].pc = "idle"
      BY <1>1, <2>6 DEF WorkerFindsNoEvents, IdleWorker
    <3> QED
      BY <2>2, <3>1
  <2>7. CASE WorkerReturns(a)
    <3>1. PICK outcome \in {"stopped", "answered"} :
            worker'[a] = [worker[a] EXCEPT !.pc = "completing", !.outcome = outcome]
      BY <1>1, <2>7 DEF WorkerReturns
    <3>2. worker[a].pc = "invoking" /\ worker'[a].run = worker[a].run /\ worker'[a].pc = "completing"
      BY <1>1, <2>7, <3>1 DEF WorkerReturns, WorkerSet
    <3> QED
      BY <2>4, <3>2
  <2>8. CASE WorkerRaises(a)
    <3>1. worker'[a] = [worker[a] EXCEPT !.pc = "completing", !.outcome = "failed"]
      BY <1>1, <2>8 DEF WorkerRaises
    <3>2. /\ worker'[a].pc = "completing" /\ worker'[a].outcome = "failed"
          /\ worker'[a].run = worker[a].run /\ worker[a].pc \in AtWork
      BY <1>1, <2>8, <3>1 DEF WorkerRaises, WorkerSet, AtWork
    <3> QED
      BY <2>3, <3>2
  <2>9. CASE WorkerResolvesMentions(a)
    <3>1. worker[a].pc = "replied"
      BY <2>9 DEF WorkerResolvesMentions
    <3>2. CASE worker'[a] = IdleWorker
      BY <2>2, <3>2 DEF IdleWorker
    <3>3. ASSUME NEW todo, worker'[a] = [worker[a] EXCEPT !.pc = "enqueuing", !.todo = todo]
          PROVE  Fate(a)'
      <4>1. worker'[a].pc = "enqueuing" /\ worker'[a].run = worker[a].run
        BY <1>1, <3>3 DEF WorkerSet
      <4> QED
        BY <2>3, <3>1, <4>1 DEF AtWork
    <3> QED
      BY <1>1, <2>9, <3>2, <3>3 DEF WorkerResolvesMentions
  <2>10. CASE WorkerEnqueues(a)
    <3>1. worker[a].pc = "enqueuing"
      BY <2>10 DEF WorkerEnqueues
    <3>2. CASE worker'[a] = IdleWorker
      BY <2>2, <3>2 DEF IdleWorker
    <3>3. ASSUME NEW todo, worker'[a] = [worker[a] EXCEPT !.todo = todo]
          PROVE  Fate(a)'
      <4>1. worker'[a].pc = "enqueuing" /\ worker'[a].run = worker[a].run
        BY <1>1, <3>1, <3>3 DEF WorkerSet
      <4> QED
        BY <2>3, <3>1, <4>1 DEF AtWork
    <3> QED
      BY <1>1, <2>10, <3>2, <3>3 DEF WorkerEnqueues
  <2> QED
    BY <2>5, <2>6, <2>7, <2>8, <2>9, <2>10
<1> QED
  BY <1>4, <1>5, <1>6 DEF SInv

\* A run that starts has no deliveries and no reply.
LEMMA WorkerStartsSilent ==
  ASSUME SInv, DInv', NEW a \in Agents, WorkerStartsRun(a)
  PROVE  SInv'
<1>1. /\ worker \in [Agents -> WorkerSet(Seqs, Runs)]
      /\ worker[a] \in WorkerSet(Seqs, Runs)
      /\ runs \in Seq(RunSet(Seqs))
      /\ DInv
  BY DEF SInv, DInv, TypeInv, TypeOK
<1>2. /\ UNCHANGED events /\ runs' = Append(runs, NewRun(a))
      /\ \A b \in Agents \ {a} : worker'[b] = worker[b]
  BY <1>1 DEF WorkerStartsRun
<1>3. /\ Runs' = Runs \union {Len(runs) + 1} /\ Len(runs) + 1 \notin Runs \union {NoRun}
      /\ \A r \in Runs : runs'[r] = runs[r]
      /\ runs'[Len(runs) + 1] = NewRun(a)
  BY <1>1, <1>2 DEF Runs, NoRun
<1>4. /\ \A r \in Runs : Kept(r)
      /\ \A r \in Runs' \ Runs : runs'[r].deliveries = {}
  BY <1>3 DEF Kept, SameTurn, NewRun
<1>5. RepliesInv'
  BY <1>1, <1>2, <1>3, <1>4, RepliesKept DEF SInv
<1>6. Fate(a)'
  <2>1. /\ worker'[a].run = Len(runs) + 1
        /\ worker'[a].pc \in {"invoking", "completing"}
    BY <1>1 DEF WorkerStartsRun, WorkerSet
  <2>2. NoReplyYet(a)'
    BY <1>1, <1>2, <1>3, <2>1, DeliveryTypes DEF NoReplyYet
  <2>3. runs'[worker'[a].run].deliveries = {} /\ ~runs'[worker'[a].run].advanced
    BY <1>3, <2>1 DEF NewRun
  <2> QED
    BY <2>1, <2>2, <2>3 DEF Fate
<1>7. ASSUME NEW b \in Agents \ {a} PROVE Fate(b)'
  BY <1>1, <1>2, <1>4, FateElsewhere DEF SInv
<1> QED
  BY <1>5, <1>6, <1>7 DEF SInv

\* complete_run moves the cursor of a run that is neither stopped nor ignored, and says
\* "ignored" only of a run whose cursor it left alone.
LEMMA WorkerCompletesSilent ==
  ASSUME SInv, DInv', NEW a \in Agents, WorkerCompletesRun(a)
  PROVE  SInv'
<1> DEFINE run == worker[a].run
           delivered == worker[a].outcome \in {"skipped", "answered"}
           takes == delivered /\ agent[a].currentRun = run
<1>1. /\ worker \in [Agents -> WorkerSet(Seqs, Runs)]
      /\ worker[a] \in WorkerSet(Seqs, Runs)
      /\ agent \in [Agents -> DeliveryStates(Seqs, Runs \union {NoRun, LostRun})]
      /\ runs \in Seq(RunSet(Seqs))
      /\ DInv /\ Fate(a)
  BY DEF SInv, DInv, TypeInv, TypeOK
<1>2. /\ run \in Runs /\ runs[run].agent = a /\ worker[a].pc = "completing"
      /\ worker[a].outcome \in {"answered", "stopped", "failed", "skipped"}
      /\ runs[run] \in RunSet(Seqs) /\ runs[run].advanced \in BOOLEAN
  <2>1. /\ run \in Runs /\ runs[run].agent = a /\ worker[a].pc = "completing"
        /\ worker[a].outcome \in {"answered", "stopped", "failed", "skipped"}
    BY <1>1 DEF DInv, TypeInv, WorkersOwnRuns, AtWork, WorkerCompletesRun
  <2>2. runs[run] \in RunSet(Seqs)
    BY <1>1, <2>1 DEF Runs
  <2> QED
    BY <1>1, <2>1, <2>2, DeliveryTypes
<1>3. UNCHANGED events /\ \A b \in Agents \ {a} : worker'[b] = worker[b]
  BY <1>1 DEF WorkerCompletesRun
<1> DEFINE moved == runs[run].advanced \/ agent'[a].lastDelivered > agent[a].lastDelivered
<1>4. runs' = [runs EXCEPT ![run].advanced = moved]
  BY ZenonT(30) DEF WorkerCompletesRun
<1>5. ~takes => moved = runs[run].advanced
  <2>1. agent'[a] = CompleteRun(agent[a], run, worker[a].snapshot, delivered)
    BY <1>1 DEF WorkerCompletesRun
  <2>2. ~takes => agent'[a].lastDelivered = agent[a].lastDelivered
    <3>1. CASE agent[a].currentRun # run
      BY <2>1, <3>1 DEF CompleteRun, OwnsRun
    <3>2. CASE ~delivered
      <4>1. agent'[a] = CompleteRun(agent[a], run, worker[a].snapshot, FALSE)
        <5>1. delivered = FALSE
          BY <3>2
        <5> QED
          BY <2>1, <5>1
      <4>2. FALSE \in BOOLEAN /\ worker[a].snapshot \in Nat
        BY <1>1, DeliveryTypes
      <4>3. CompleteRun(agent[a], run, worker[a].snapshot, FALSE).lastDelivered
              = agent[a].lastDelivered
        BY <1>1, <4>2, CompletedRun
      <4> QED
        BY <4>1, <4>3
    <3> QED
      BY <3>1, <3>2
  <2>3. agent[a].lastDelivered \in Nat
    BY <1>1, DeliveryTypes
  <2> QED
    BY <1>2, <2>2, <2>3
<1>6. /\ Runs' = Runs
      /\ \A r \in Runs : /\ runs'[r].agent = runs[r].agent
                         /\ runs'[r].snapshot = runs[r].snapshot
                         /\ runs'[r].deliveries = runs[r].deliveries
      /\ \A r \in Runs \ {run} : Kept(r)
      /\ runs'[run].advanced = moved
  <2> DEFINE x == [runs[run] EXCEPT !.advanced = moved]
  <2>1. /\ x.agent = runs[run].agent /\ x.snapshot = runs[run].snapshot
        /\ x.deliveries = runs[run].deliveries /\ x.advanced = moved
    <3> HIDE DEF moved, run
    <3> QED
      BY <1>2 DEF RunSet
  <2>2. runs' = [runs EXCEPT ![run] = x]
    <3> HIDE DEF moved, run
    <3> QED
      BY <1>4
  <2> HIDE DEF x, run, moved
  <2> QED
    BY <1>1, <1>2, <2>1, <2>2 DEF Runs, Kept, SameTurn
<1>7. PICK outcome \in OutcomesToRecord(a) :
        worker'[a].pc = "recording" /\ worker'[a].outcome = outcome /\ worker'[a].run = run
  <2>1. PICK outcome \in OutcomesToRecord(a) :
          worker'[a] = [worker[a] EXCEPT !.pc = "recording", !.outcome = outcome]
    BY <1>1 DEF WorkerCompletesRun
  <2> QED
    BY <1>1, <2>1 DEF WorkerSet
<1>8. outcome \in {"stopped", "ignored"} =>
        ~takes /\ worker[a].outcome \in {"answered", "stopped"}
  BY <1>2 DEF OutcomesToRecord, OwnsRun
<1>9. Fate(a)'
  <2>1. ASSUME outcome \in {"stopped", "ignored"}
        PROVE  NoReplyYet(a)' /\ ~runs'[run].advanced
    <3>1. NoReplyYet(a) /\ ~runs[run].advanced /\ ~takes
      BY <1>1, <1>2, <1>8, <2>1 DEF Fate
    <3>2. runs'[run].advanced = runs[run].advanced
      <4> HIDE DEF takes, run, moved
      <4> QED
        BY <1>5, <1>6, <3>1
    <3> QED
      BY <1>3, <1>7, <3>1, <3>2 DEF NoReplyYet
  <2>2. runs'[run].deliveries \intersect {"stopped", "ignored"} = {}
    BY <1>1, <1>2, <1>6 DEF Fate, AtWork
  <2> QED
    BY <1>7, <2>1, <2>2 DEF Fate
<1>10. ASSUME NEW b \in Agents \ {a} PROVE Fate(b)'
  <2>1. \A r \in Runs : runs[r].agent = b => Kept(r)
    BY <1>2, <1>6
  <2> QED
    BY <1>1, <1>3, <2>1, FateElsewhere DEF SInv
<1>11. DiscardedRunIsSilent'
  <2>1. ASSUME NEW r \in Runs, runs[r].deliveries \intersect {"stopped", "ignored"} # {}
        PROVE  ~runs'[r].advanced /\ \A i \in 1 .. Len(events) : events[i].run # r
    <3>1. r # run
      BY <1>1, <1>2, <2>1 DEF Fate, AtWork
    <3>2. Kept(r)
      BY <1>6, <3>1
    <3> QED
      BY <2>1, <3>2 DEF SInv, RepliesInv, DiscardedRunIsSilent, Kept, SameTurn
  <2> QED
    BY <1>3, <1>6, <2>1 DEF DiscardedRunIsSilent
<1>12. ReplyFollowsDelivery'
  <2> SUFFICES ASSUME NEW i \in 1 .. Len(events), events[i].run # NoRun
               PROVE  LET r == events[i].run
                      IN /\ events[i].author = runs'[r].agent
                         /\ runs'[r].snapshot < i
                         /\ runs'[r].advanced
                         /\ "success" \in runs'[r].deliveries
                         /\ \A j \in 1 .. Len(events) : events[j].run = r => j = i
    BY <1>3 DEF ReplyFollowsDelivery
  <2>1. events[i].run \in Runs
    BY <1>1, DeliveryTypes
  <2>2. runs'[events[i].run].advanced
    BY <1>3 DEF DInv, RepliesAdvanced
  <2> QED
    BY <1>6, <2>1, <2>2 DEF SInv, RepliesInv, ReplyFollowsDelivery
<1> QED
  BY <1>9, <1>10, <1>11, <1>12 DEF SInv, RepliesInv

\* The delivery record: a run is stopped or ignored only now, and its worker leaves it.
LEMMA WorkerRecordsSilent ==
  ASSUME SInv, DInv', NEW a \in Agents, WorkerRecordsDelivery(a)
  PROVE  SInv'
<1> DEFINE run == worker[a].run
           status == worker[a].outcome
           x == RunAfterDelivery(runs[run], status)
<1>1. /\ worker \in [Agents -> WorkerSet(Seqs, Runs)]
      /\ worker[a] \in WorkerSet(Seqs, Runs)
      /\ runs \in Seq(RunSet(Seqs))
      /\ DInv /\ Fate(a)
  BY DEF SInv, DInv, TypeInv, TypeOK
<1>2. /\ run \in Runs /\ runs[run].agent = a /\ worker[a].pc = "recording"
      /\ runs[run] \in RunSet(Seqs)
  <2>1. run \in Runs /\ runs[run].agent = a /\ worker[a].pc = "recording"
    BY <1>1 DEF DInv, TypeInv, WorkersOwnRuns, AtWork, WorkerRecordsDelivery
  <2> QED
    BY <1>1, <2>1 DEF Runs
<1>3. UNCHANGED events /\ \A b \in Agents \ {a} : worker'[b] = worker[b]
  BY <1>1 DEF WorkerRecordsDelivery
<1>4. /\ x.agent = runs[run].agent /\ x.snapshot = runs[run].snapshot
      /\ x.advanced = runs[run].advanced
      /\ x.deliveries = runs[run].deliveries \union {status}
  BY <1>2 DEF RunAfterDelivery, RunSet
<1>5. runs' = [runs EXCEPT ![run] = x]
  BY DEF WorkerRecordsDelivery
<1>6. /\ Runs' = Runs
      /\ \A r \in Runs : /\ runs'[r].agent = runs[r].agent
                         /\ runs'[r].snapshot = runs[r].snapshot
                         /\ runs'[r].advanced = runs[r].advanced
                         /\ runs[r].deliveries \subseteq runs'[r].deliveries
      /\ \A r \in Runs \ {run} : Kept(r)
      /\ runs'[run].deliveries = runs[run].deliveries \union {status}
  <2> HIDE DEF x, run
  <2> QED
    BY <1>1, <1>2, <1>4, <1>5 DEF Runs, Kept, SameTurn
<1>7. Fate(a)'
  <2>1. CASE status = "success"
    <3>1. worker'[a] = [worker[a] EXCEPT !.pc = "replying"]
      BY <1>1, <2>1 DEF WorkerRecordsDelivery
    <3>2. worker'[a].pc = "replying" /\ worker'[a].run = run
      BY <1>1, <3>1 DEF WorkerSet
    <3>3. runs'[run].deliveries \intersect {"stopped", "ignored"} = {}
      BY <1>1, <1>2, <1>6, <2>1 DEF Fate, AtWork
    <3>4. "success" \in runs'[run].deliveries
      BY <1>6, <2>1
    <3> QED
      BY <3>2, <3>3, <3>4 DEF Fate
  <2>2. CASE status # "success"
    <3>1. worker'[a].pc = "idle"
      BY <1>1, <2>2 DEF WorkerRecordsDelivery, IdleWorker
    <3> QED
      BY <3>1 DEF Fate, AtWork
  <2> QED
    BY <2>1, <2>2
<1>8. ASSUME NEW b \in Agents \ {a} PROVE Fate(b)'
  <2>1. \A r \in Runs : runs[r].agent = b => Kept(r)
    BY <1>2, <1>6
  <2> QED
    BY <1>1, <1>3, <2>1, FateElsewhere DEF SInv
<1>9. DiscardedRunIsSilent'
  <2>1. ASSUME NEW r \in Runs, runs'[r].deliveries \intersect {"stopped", "ignored"} # {}
        PROVE  ~runs'[r].advanced /\ \A i \in 1 .. Len(events) : events[i].run # r
    <3>1. CASE runs[r].deliveries \intersect {"stopped", "ignored"} # {}
      BY <1>6, <3>1 DEF SInv, RepliesInv, DiscardedRunIsSilent
    <3>2. CASE runs[r].deliveries \intersect {"stopped", "ignored"} = {}
      <4>1. r = run
        BY <1>6, <2>1, <3>2 DEF Kept
      <4>2. status \in {"stopped", "ignored"}
        BY <1>6, <2>1, <3>2, <4>1
      <4>3. NoReplyYet(a) /\ ~runs[run].advanced
        BY <1>1, <1>2, <4>2 DEF Fate
      <4> QED
        BY <1>6, <4>1, <4>3 DEF NoReplyYet
    <3> QED
      BY <3>1, <3>2
  <2> QED
    BY <1>3, <1>6, <2>1 DEF DiscardedRunIsSilent
<1>10. ReplyFollowsDelivery'
  <2> SUFFICES ASSUME NEW i \in 1 .. Len(events), events[i].run # NoRun
               PROVE  LET r == events[i].run
                      IN /\ events[i].author = runs'[r].agent
                         /\ runs'[r].snapshot < i
                         /\ runs'[r].advanced
                         /\ "success" \in runs'[r].deliveries
                         /\ \A j \in 1 .. Len(events) : events[j].run = r => j = i
    BY <1>3 DEF ReplyFollowsDelivery
  <2>1. events[i].run \in Runs
    BY <1>1, DeliveryTypes
  <2> QED
    BY <1>6, <2>1 DEF SInv, RepliesInv, ReplyFollowsDelivery
<1> QED
  BY <1>7, <1>8, <1>9, <1>10 DEF SInv, RepliesInv

\* What an append does to the replies: it is nobody's, or the only one of a run that
\* recorded its success.
LEMMA TranscriptReplies ==
  ASSUME SInv, NEW e \in EventSet(Runs), events' = Append(events, e), UNCHANGED runs,
         \/ e.run = NoRun
         \/ /\ e.run # NoRun /\ e.author = runs[e.run].agent /\ runs[e.run].advanced
            /\ "success" \in runs[e.run].deliveries
            /\ runs[e.run].deliveries \intersect {"stopped", "ignored"} = {}
            /\ \A i \in 1 .. Len(events) : events[i].run # e.run
  PROVE  RepliesInv'
<1>1. events \in Seq(EventSet(Runs)) /\ DInv
  BY DEF SInv, DInv, TypeInv, TypeOK
<1>2. /\ Len(events') = Len(events) + 1 /\ events'[Len(events) + 1] = e
      /\ \A i \in 1 .. Len(events) : events'[i] = events[i]
      /\ 1 .. Len(events') = (1 .. Len(events)) \union {Len(events) + 1}
      /\ Runs' = Runs /\ Len(events) \in Nat
  BY <1>1 DEF Runs
<1>3. NoRun \notin Runs /\ (e.run # NoRun => e.run \in Runs)
  BY DeliveryTypes, <1>1 DEF EventSet, NoRun
<1>4. DiscardedRunIsSilent'
  BY <1>2, <1>3 DEF SInv, RepliesInv, DiscardedRunIsSilent
<1>5. ReplyFollowsDelivery'
  <2>1. ASSUME NEW i \in 1 .. Len(events'), events'[i].run # NoRun
        PROVE  LET r == events'[i].run
               IN /\ events'[i].author = runs[r].agent
                  /\ runs[r].snapshot < i
                  /\ runs[r].advanced
                  /\ "success" \in runs[r].deliveries
                  /\ \A j \in 1 .. Len(events') : events'[j].run = r => j = i
    <3>1. CASE i = Len(events) + 1
      <4>1. e.run \in Runs /\ runs[e.run].snapshot <= Len(events) /\ runs[e.run].snapshot \in Nat
        BY <1>1, <1>2, <1>3, <2>1, <3>1, DeliveryTypes
      <4> QED
        BY <1>2, <2>1, <3>1, <4>1
    <3>2. CASE i \in 1 .. Len(events)
      <4>1. events[i].run # e.run
        BY <1>2, <2>1, <3>2
      <4> QED
        BY <1>2, <2>1, <3>2, <4>1 DEF SInv, RepliesInv, ReplyFollowsDelivery
    <3> QED
      BY <1>2, <3>1, <3>2
  <2> QED
    BY <2>1 DEF ReplyFollowsDelivery
<1> QED
  BY <1>4, <1>5 DEF RepliesInv

LEMMA AppendsReply ==
  ASSUME SInv, DInv', \/ \E c \in Clients : ClientAppends(c)
                      \/ \E a \in Agents : WorkerAppendsReply(a)
  PROVE  SInv'
<1>1. DInv /\ RepliesInv /\ \A a \in Agents : Fate(a)
  BY DEF SInv
<1>2. UNCHANGED runs /\ Runs' = Runs /\ \A r \in Runs : Kept(r)
  BY UnchangedKept DEF ClientAppends, WorkerAppendsReply
<1>3. ASSUME NEW c \in Clients, ClientAppends(c) PROVE SInv'
  <2>1. PICK call \in Calls : events' = Append(events, [author |-> call.author, run |-> NoRun])
    BY <1>3 DEF ClientAppends
  <2> DEFINE e == [author |-> call.author, run |-> NoRun]
  <2>2. e \in EventSet(Runs) /\ e.run = NoRun
    BY RouterAssumption DEF EventSet
  <2>3. RepliesInv'
    <3> HIDE DEF e
    <3> QED
      BY <1>2, <2>1, <2>2, TranscriptReplies DEF e
  <2>4. ASSUME NEW a \in Agents PROVE Fate(a)'
    <3>1. worker'[a] = worker[a]
      BY <1>3 DEF ClientAppends
    <3>2. worker[a].pc \in AtWork => e.run # worker[a].run
      BY <1>1, <2>2, DeliveryTypes DEF DInv, TypeInv, WorkersOwnRuns, NoRun
    <3> HIDE DEF e
    <3> QED
      BY <1>1, <1>2, <2>1, <3>1, <3>2, FateElsewhere DEF e
  <2> QED
    BY <2>3, <2>4 DEF SInv
<1>4. ASSUME NEW a \in Agents, WorkerAppendsReply(a) PROVE SInv'
  <2> DEFINE run == worker[a].run
             e == [author |-> a, run |-> run]
  <2>1. /\ worker \in [Agents -> WorkerSet(Seqs, Runs)]
        /\ worker[a] \in WorkerSet(Seqs, Runs)
        /\ worker[a].pc = "replying"
        /\ run \in Runs /\ runs[run].agent = a /\ run # NoRun
    <3>1. worker[a].pc = "replying" /\ worker[a].pc \in AtWork
      BY <1>4 DEF WorkerAppendsReply, AtWork
    <3>2. run \in Runs /\ runs[run].agent = a
      BY <1>1, <3>1 DEF DInv, TypeInv, WorkersOwnRuns
    <3>3. run # NoRun
      BY <1>1, <3>2, DeliveryTypes DEF NoRun
    <3> QED
      BY <1>1, <3>1, <3>2, <3>3 DEF DInv, TypeInv, TypeOK
  <2>2. events' = Append(events, e)
    BY <1>4 DEF WorkerAppendsReply
  <2>3. e \in EventSet(Runs) /\ e.run = run /\ e.author = a
    BY <2>1 DEF EventSet
  <2>4. /\ NoReplyYet(a) /\ runs[run].advanced /\ "success" \in runs[run].deliveries
        /\ runs[run].deliveries \intersect {"stopped", "ignored"} = {}
    BY <1>1, <2>1 DEF DInv, WorkerDelivery, Fate, AtWork
  <2>5. RepliesInv'
    <3>1. \A i \in 1 .. Len(events) : events[i].run # e.run
      BY <2>3, <2>4 DEF NoReplyYet
    <3> HIDE DEF e, run
    <3> QED
      BY <1>2, <2>1, <2>2, <2>3, <2>4, <3>1, TranscriptReplies
  <2>6. Fate(a)'
    <3>1. worker'[a].pc = "replied" /\ worker'[a].run = run
      BY <1>4, <2>1 DEF WorkerAppendsReply, WorkerSet
    <3> QED
      BY <1>2, <2>4, <3>1 DEF Fate
  <2>7. ASSUME NEW b \in Agents \ {a} PROVE Fate(b)'
    <3>1. worker'[b] = worker[b]
      BY <1>4, <2>1 DEF WorkerAppendsReply
    <3>2. worker[b].pc \in AtWork => e.run # worker[b].run
      BY <1>1, <2>1, <2>3 DEF DInv, TypeInv, WorkersOwnRuns
    <3> HIDE DEF e, run
    <3> QED
      BY <1>1, <1>2, <2>2, <3>1, <3>2, FateElsewhere
  <2> QED
    BY <2>5, <2>6, <2>7 DEF SInv
<1> QED
  BY <1>3, <1>4

LEMMA SilenceStep ==
  ASSUME SInv, [Next]_vars PROVE SInv'
<1>1. DInv'
  BY DeliveryImplemented DEF SInv
<1>2. CASE UNCHANGED vars
  <2>1. UNCHANGED <<events, runs, worker>> /\ DInv
    BY <1>2 DEF vars, SInv
  <2>2. Runs' = Runs /\ \A r \in Runs : Kept(r)
    BY <2>1, UnchangedKept
  <2>3. RepliesInv'
    BY <1>1, <2>1, <2>2, RepliesKept DEF SInv
  <2>4. \A a \in Agents : Fate(a)'
    BY <2>1, <2>2, FateElsewhere DEF SInv
  <2> QED
    BY <1>1, <2>3, <2>4 DEF SInv
<1>3. CASE Next
  BY <1>1, <1>3, CallersReply, RecoveryReplies, WorkerReplySilent, WorkerStartsSilent,
     WorkerCompletesSilent, WorkerRecordsSilent, AppendsReply
  DEF Next, WorkerStep
<1> QED
  BY <1>2, <1>3

LEMMA SilenceInvariant == Spec => []SInv
<1>1. Init => SInv
  <2> SUFFICES ASSUME Init PROVE SInv
    OBVIOUS
  <2>1. DInv /\ Runs = {} /\ Len(events) = 0
    BY DeliveryInit DEF Init, Runs
  <2>2. \A a \in Agents : Fate(a)
    BY DEF Init, Fate, AtWork, IdleWorker
  <2> QED
    BY <2>1, <2>2 DEF SInv, RepliesInv, DiscardedRunIsSilent, ReplyFollowsDelivery
<1>2. SInv /\ [Next]_vars => SInv'
  BY SilenceStep
<1> QED
  BY <1>1, <1>2, PTL DEF Spec

\* The late result of a run that was stopped or superseded is dropped, through failures and
\* recoveries: no reply of it enters the transcript and no cursor has moved for it.
THEOREM DiscardedRunIsSilentCorrect == Spec => []DiscardedRunIsSilent
<1>1. SInv => DiscardedRunIsSilent
  BY DEF SInv, RepliesInv
<1> QED
  BY <1>1, SilenceInvariant, PTL

\* A reply is its run's only one, from the run's agent, after all the events the run had
\* read and after the record of its success (_run_agent and _append_public_reply).
THEOREM ReplyFollowsDeliveryCorrect == Spec => []ReplyFollowsDelivery
<1>1. SInv => ReplyFollowsDelivery
  BY DEF SInv, RepliesInv
<1> QED
  BY <1>1, SilenceInvariant, PTL

----------------------------------------------------------------------------
(* Restarts.                                                                *)

OrphansDelivered == \A r \in Runs : runs[r].commit = "orphaned" => "failed" \in runs[r].deliveries

LEMMA SettledStep ==
  ASSUME ~TornWrites, TypeInv, OrphansDelivered, [Next]_vars
  PROVE  OrphansDelivered'
<1>1. Len(runs) \in Nat /\ runs \in Seq(RunSet(Seqs)) /\ \A r \in Runs : runs[r] \in RunSet(Seqs)
  BY SeqsType DEF Runs, TypeInv, TypeOK
<1>2. CASE UNCHANGED runs
  BY <1>2 DEF OrphansDelivered, Runs
<1>3. ASSUME NEW a \in Agents, runs' = Append(runs, NewRun(a)) PROVE OrphansDelivered'
  <2>1. /\ Runs' = Runs \union {Len(runs) + 1}
        /\ \A r \in Runs : runs'[r] = runs[r]
        /\ runs'[Len(runs) + 1].commit # "orphaned"
    BY <1>1, <1>3 DEF Runs, NewRun
  <2> QED
    BY <2>1 DEF OrphansDelivered
<1>4. ASSUME NEW i \in Runs, NEW run, runs' = [runs EXCEPT ![i] = run],
             run.commit = "orphaned" => runs[i].commit = "orphaned",
             runs[i].deliveries \subseteq run.deliveries
      PROVE  OrphansDelivered'
  <2>1. Runs' = Runs /\ \A r \in Runs : runs'[r] = IF r = i THEN run ELSE runs[r]
    BY <1>1, <1>4 DEF Runs
  <2> QED
    BY <1>4, <2>1 DEF OrphansDelivered
<1>5. ASSUME NEW i \in Runs, NEW x \in BOOLEAN, runs' = [runs EXCEPT ![i].advanced = x]
      PROVE  OrphansDelivered'
  <2> DEFINE run == [runs[i] EXCEPT !.advanced = x]
  <2>1. run.commit = runs[i].commit /\ run.deliveries = runs[i].deliveries
    BY <1>1 DEF RunSet
  <2>2. runs' = [runs EXCEPT ![i] = run]
    BY <1>5
  <2> HIDE DEF run
  <2> QED
    BY <1>4, <2>1, <2>2
<1>6. ASSUME NEW i \in Runs, NEW x \in RunStatuses, runs' = [runs EXCEPT ![i] = RunAfterDelivery(@, x)]
      PROVE  OrphansDelivered'
  <2> DEFINE run == RunAfterDelivery(runs[i], x)
  <2>1. /\ run.commit = "orphaned" => runs[i].commit = "orphaned"
        /\ runs[i].deliveries \subseteq run.deliveries
    BY <1>1 DEF RunAfterDelivery, RunSet
  <2>2. runs' = [runs EXCEPT ![i] = run]
    BY <1>6
  <2> HIDE DEF run
  <2> QED
    BY <1>4, <2>1, <2>2
<1>7. ASSUME NEW states, Reconcile(states, {}) PROVE OrphansDelivered'
  <2> DEFINE record(r) == IF Pending(r)
                            THEN [runs[r] EXCEPT !.status = "failed", !.commit = "orphaned",
                                                 !.deliveries = IF r \in {} THEN @
                                                                ELSE @ \union {"failed"}]
                            ELSE runs[r]
  <2>1. runs' = [r \in 1 .. Len(runs) |-> record(r)]
    BY <1>7 DEF Reconcile, Runs
  <2>2. ASSUME NEW r \in Runs, record(r).commit = "orphaned" PROVE "failed" \in record(r).deliveries
    <3>1. runs[r] \in RunSet(Seqs)
      BY <1>1
    <3>2. CASE ~Pending(r)
      BY <2>2, <3>2 DEF OrphansDelivered
    <3>3. CASE Pending(r)
      BY <3>1, <3>3 DEF RunSet
    <3> QED
      BY <3>2, <3>3
  <2> HIDE DEF record
  <2>3. Runs' = Runs /\ \A r \in Runs : runs'[r] = record(r)
    BY <1>1, <2>1 DEF Runs
  <2> QED
    BY <2>2, <2>3 DEF OrphansDelivered
<1> QED
  BY <1>2, <1>3, <1>5, <1>6, <1>7, RunsStep DEF vars

\* A restart leaves no agent running, because the run it holds is pending and recovery
\* gives that run up.
LEMMA RestartReleases ==
  ASSUME ~TornWrites, IInv, Restart, NEW a \in Agents
  PROVE  ~agent'[a].running
<1>1. agent \in [Agents -> DeliveryStates(Seqs, Runs \union {NoRun, LostRun})]
  BY DEF IInv, TypeInv, TypeOK
<1>2. Reconcile(agent, {})
  <2>1. SUFFICES ASSUME NEW cut \in {{}}, NEW half \in {{}},
                        Reconcile([b \in Agents |-> IF b \in cut THEN StartsUnrecorded(b)
                                                   ELSE agent[b]], half)
                 PROVE  Reconcile(agent, {})
    BY DEF Restart, Torn
  <2>2. [b \in Agents |-> IF b \in cut THEN StartsUnrecorded(b) ELSE agent[b]] = agent
    BY <1>1
  <2> QED
    BY <2>1, <2>2
<1>3. CASE agent[a].running
  <2>1. /\ agent[a].currentRun \in Runs /\ Pending(agent[a].currentRun)
    BY <1>3 DEF IInv, RunningHasWorker, TypeInv, WorkersOwnRuns, AtWork
  <2>2. agent'[a] = ReleaseRun(agent[a], agent[a].currentRun)
    BY <1>2, <2>1 DEF Reconcile
  <2> QED
    BY <1>1, <2>2 DEF ReleaseRun, OwnsRun, DeliveryStates
<1>4. CASE ~agent[a].running
  <2>1. agent'[a] \in {agent[a], ReleaseRun(agent[a], agent[a].currentRun)}
    BY <1>2 DEF Reconcile
  <2> QED
    BY <1>1, <1>4, <2>1 DEF ReleaseRun, OwnsRun, DeliveryStates
<1> QED
  BY <1>3, <1>4

\* Unless a process died between two commits, a restart marks no agent as running and gives
\* every orphaned run the failed delivery the store announces: what the run router_torn_start
\* finds missing is owed to a torn operation and to nothing else.
THEOREM RestartSettlesRunsCorrect ==
  ASSUME ~TornWrites
  PROVE  Spec => RestartSettlesRuns
<1>1. Init => IInv /\ OrphansDelivered
  BY SafeInit DEF Init, OrphansDelivered, Runs
<1>2. IInv /\ OrphansDelivered /\ [Next]_vars => IInv' /\ OrphansDelivered'
  BY SafeStep, SettledStep DEF IInv
<1>3. IInv /\ OrphansDelivered /\ [Next]_vars =>
        [restarts' # restarts =>
           /\ \A a \in Agents : ~agent'[a].running
           /\ \A r \in Runs : runs'[r].commit = "orphaned" => "failed" \in runs'[r].deliveries]_vars
  <2> SUFFICES ASSUME IInv, OrphansDelivered, [Next]_vars, restarts' # restarts
               PROVE  /\ \A a \in Agents : ~agent'[a].running
                      /\ \A r \in Runs : runs'[r].commit = "orphaned" =>
                           "failed" \in runs'[r].deliveries
    OBVIOUS
  <2>1. Restart
    BY DEF vars, Next, ClientAppends, ClientDispatchesPending, ClientStep, ClientEnqueues,
           ClientDispatches, DrainStep, DrainAcquires, DrainStartsBatch, DrainFindsNothing,
           DrainJoins, DrainReleases, WorkerStep, WorkerReads, WorkerFindsNoEvents,
           WorkerStartsRun, WorkerReturns, WorkerCompletesRun, WorkerRecordsDelivery,
           WorkerAppendsReply, WorkerResolvesMentions, WorkerEnqueues, WorkerRaises,
           WorkerCallsRelationTool, StopAgent, CancelQueuedAgent, ClearPendingQueue, Cancel,
           UpdateRuntimeState
  <2>2. OrphansDelivered' /\ TypeInv
    BY SettledStep DEF IInv
  <2>3. Runs \subseteq Runs'
    <3>1. PICK found, half : Reconcile(found, half)
      BY <2>1 DEF Restart
    <3>2. Runs' = Runs
      <4> DEFINE record(r) == IF Pending(r)
                                THEN [runs[r] EXCEPT !.status = "failed", !.commit = "orphaned",
                                                     !.deliveries = IF r \in half THEN @
                                                                    ELSE @ \union {"failed"}]
                                ELSE runs[r]
      <4>1. runs' = [r \in 1 .. Len(runs) |-> record(r)]
        BY <3>1 DEF Reconcile, Runs
      <4>2. Len(runs) \in Nat
        BY <2>2 DEF TypeInv, TypeOK
      <4> HIDE DEF record
      <4>3. Len(runs') = Len(runs)
        BY <4>1, <4>2
      <4> QED
        BY <4>3 DEF Runs
    <3> QED
      BY <3>2
  <2> QED
    BY <2>1, <2>2, <2>3, RestartReleases DEF OrphansDelivered
<1> QED
  BY <1>1, <1>2, <1>3, PTL DEF Spec, RestartSettlesRuns
=============================================================================
