----------------------- MODULE MentionRouter_proofs -----------------------
(***************************************************************************)
(* What holds of the mention router for any number of agents, callers,     *)
(* events and restarts.                                                    *)
(***************************************************************************)
EXTENDS MentionRouter, TLAPS

\* The operations of the store keep an agent's record within the transcript and
\* the runs.
LEMMA DeliveryOperationsType ==
  ASSUME NEW seqs \in SUBSET Nat, NEW ids, NoSeq \in seqs, NoRun \in ids,
         NEW s \in DeliveryStates(seqs, ids), NEW seq \in seqs, NEW run, NEW status,
         NEW delivered \in BOOLEAN
  PROVE  /\ Enqueue(s, seq) \in DeliveryStates(seqs, ids)
         /\ CancelQueued(s) \in DeliveryStates(seqs, ids)
         /\ run \in ids => MarkRunStarted(s, run, seq) \in DeliveryStates(seqs, ids)
         /\ CompleteRun(s, run, seq, delivered) \in DeliveryStates(seqs, ids)
         /\ RequestStop(s) \in DeliveryStates(seqs, ids)
         /\ ReleaseRun(s, run) \in DeliveryStates(seqs, ids)
         /\ ClearRunAgentState(s, run, seq, status) \in DeliveryStates(seqs, ids)
<1> USE DEF DeliveryStates
<1>1. Later(seq, s.queuedAfter) \in seqs /\ Later(seq, s.lastDelivered) \in seqs
  BY DEF Later
<1>2. KeepsQueue(s, seq) \in BOOLEAN
  BY DEF KeepsQueue
<1>3. Enqueue(s, seq) \in DeliveryStates(seqs, ids)
  BY <1>1 DEF Enqueue
<1>4. CancelQueued(s) \in DeliveryStates(seqs, ids)
  BY DEF CancelQueued
<1>5. run \in ids => MarkRunStarted(s, run, seq) \in DeliveryStates(seqs, ids)
  BY <1>2 DEF MarkRunStarted
<1>6. CompleteRun(s, run, seq, delivered) \in DeliveryStates(seqs, ids)
  BY <1>1, <1>2 DEF CompleteRun
<1>7. RequestStop(s) \in DeliveryStates(seqs, ids)
  BY DEF RequestStop
<1>8. ReleaseRun(s, run) \in DeliveryStates(seqs, ids)
  BY DEF ReleaseRun
<1>9. ClearRunAgentState(s, run, seq, status) \in DeliveryStates(seqs, ids)
  BY <1>1 DEF ClearRunAgentState
<1> QED
  BY <1>3, <1>4, <1>5, <1>6, <1>7, <1>8, <1>9

\* A longer transcript and more runs admit every record that fitted before.
LEMMA RecordsGrow ==
  ASSUME NEW seqs, NEW seqs2, NEW ids, NEW ids2, seqs \subseteq seqs2, ids \subseteq ids2
  PROVE  /\ DeliveryStates(seqs, ids) \subseteq DeliveryStates(seqs2, ids2)
         /\ EventSet(ids) \subseteq EventSet(ids2)
         /\ RunSet(seqs) \subseteq RunSet(seqs2)
         /\ WorkerSet(seqs, ids) \subseteq WorkerSet(seqs2, ids2)
         /\ ClientSet(seqs) \subseteq ClientSet(seqs2)
BY DEF DeliveryStates, EventSet, RunSet, WorkerSet, ClientSet

LEMMA SequencesGrow ==
  ASSUME NEW S, NEW T, S \subseteq T, NEW s \in Seq(S)
  PROVE  s \in Seq(T)
OBVIOUS

----------------------------------------------------------------------------
(* The inductive invariant.                                                 *)

AtWork == {"invoking", "completing", "recording", "replying", "replied", "enqueuing"}

\* A worker past the start of its run is at work on a run of its agent, over the events
\* it has read, and reaches the store with an outcome the store knows.
WorkersOwnRuns ==
  \A a \in Agents :
    /\ worker[a].pc \in AtWork =>
         /\ worker[a].run \in Runs
         /\ runs[worker[a].run].agent = a
         /\ runs[worker[a].run].snapshot = worker[a].snapshot
    /\ worker[a].pc = "completing" =>
         worker[a].outcome \in {"answered", "stopped", "failed", "skipped"}
    /\ worker[a].pc = "recording" => worker[a].outcome \in RunStatuses

\* An agent is running exactly when it has a current run, and a worker that found no
\* events names no run.
RunningHasRun ==
  \A a \in Agents :
    /\ agent[a].running <=> agent[a].currentRun # NoRun
    /\ worker[a].pc = "ending" => worker[a].run = BlankRun

TypeInv == TypeOK /\ WorkersOwnRuns

IInv == TypeInv /\ RunningHasRun /\ RunningHasWorker /\ NoRequestLost

----------------------------------------------------------------------------

LEMMA TypeInit == Init => TypeInv
<1> SUFFICES ASSUME Init PROVE TypeInv
  OBVIOUS
<1>1. Runs = {} /\ Seqs = {0}
  BY DEF Init, Runs, Seqs
<1>2. NewDeliveryState \in DeliveryStates(Seqs, Runs \union {NoRun, LostRun})
  BY <1>1 DEF NewDeliveryState, DeliveryStates, NoSeq
<1>3. IdleWorker \in WorkerSet(Seqs, Runs) /\ IdleClient \in ClientSet(Seqs)
  BY <1>1 DEF IdleWorker, IdleClient, WorkerSet, ClientSet
<1>4. TypeOK
  BY <1>1, <1>2, <1>3, RouterAssumption DEF TypeOK, Init
<1>5. WorkersOwnRuns
  BY DEF Init, WorkersOwnRuns, IdleWorker, AtWork
<1> QED
  BY <1>4, <1>5 DEF TypeInv

LEMMA SequenceUpdate ==
  ASSUME NEW S, NEW s \in Seq(S), NEW i \in 1 .. Len(s), NEW x \in S
  PROVE  [s EXCEPT ![i] = x] \in Seq(S) /\ Len([s EXCEPT ![i] = x]) = Len(s)
OBVIOUS

\* What fits the transcript and the runs still fits when both have grown.
LEMMA Grows ==
  ASSUME TypeOK, Seqs \subseteq Seqs', Runs \subseteq Runs'
  PROVE  /\ events \in Seq(EventSet(Runs'))
         /\ agent  \in [Agents -> DeliveryStates(Seqs', Runs' \union {NoRun, LostRun})]
         /\ runs   \in Seq(RunSet(Seqs'))
         /\ worker \in [Agents -> WorkerSet(Seqs', Runs')]
         /\ client \in [Clients -> ClientSet(Seqs')]
         /\ asked  \in [Agents -> Seqs']
<1>1. /\ EventSet(Runs) \subseteq EventSet(Runs')
      /\ DeliveryStates(Seqs, Runs \union {NoRun, LostRun})
           \subseteq DeliveryStates(Seqs', Runs' \union {NoRun, LostRun})
      /\ RunSet(Seqs) \subseteq RunSet(Seqs')
      /\ WorkerSet(Seqs, Runs) \subseteq WorkerSet(Seqs', Runs')
      /\ ClientSet(Seqs) \subseteq ClientSet(Seqs')
  <2>1. Runs \union {NoRun, LostRun} \subseteq Runs' \union {NoRun, LostRun}
    OBVIOUS
  <2> QED
    BY <2>1, RecordsGrow
<1>2. events \in Seq(EventSet(Runs')) /\ runs \in Seq(RunSet(Seqs'))
  BY <1>1, SequencesGrow DEF TypeOK
<1>3. /\ agent  \in [Agents -> DeliveryStates(Seqs', Runs' \union {NoRun, LostRun})]
      /\ worker \in [Agents -> WorkerSet(Seqs', Runs')]
      /\ client \in [Clients -> ClientSet(Seqs')]
      /\ asked  \in [Agents -> Seqs']
  BY <1>1 DEF TypeOK
<1> QED
  BY <1>2, <1>3

LEMMA SeqsType ==
  ASSUME TypeInv
  PROVE  Len(events) \in Nat /\ Len(runs) \in Nat /\ Seqs \in SUBSET Nat /\ 0 \in Seqs
BY DEF Seqs, TypeInv, TypeOK

\* Enqueueing keeps the shape of the records it writes.
LEMMA EnqueueType ==
  ASSUME TypeInv, NEW a \in Agents, NEW seq \in Seqs, EnqueueTarget(a, seq)
  PROVE  /\ agent' \in [Agents -> DeliveryStates(Seqs, Runs \union {NoRun, LostRun})]
         /\ asked' \in [Agents -> Seqs]
<1>1. Seqs \in SUBSET Nat /\ NoSeq \in Seqs
  BY SeqsType DEF NoSeq
<1>2. Enqueue(agent[a], seq) \in DeliveryStates(Seqs, Runs \union {NoRun, LostRun})
  BY <1>1, DeliveryOperationsType DEF TypeInv, TypeOK
<1>3. Later(seq, asked[a]) \in Seqs
  BY DEF Later, TypeInv, TypeOK
<1> QED
  BY <1>2, <1>3 DEF EnqueueTarget, TypeInv, TypeOK

LEMMA ClientType ==
  ASSUME TypeInv, NEW c \in Clients,
         ClientAppends(c) \/ ClientEnqueues(c) \/ ClientDispatches(c) \/ ClientDispatchesPending(c)
  PROVE  TypeInv'
<1>1. CASE ClientAppends(c)
  <2>1. PICK call \in Calls, targets \in SUBSET Agents :
          /\ events' = Append(events, [author |-> call.author, run |-> NoRun])
          /\ client' = IF settings.mentionHook /\ (targets # {} \/ call.author = Human)
                         THEN [client EXCEPT ![c] =
                                 [pc   |-> IF targets = {} THEN "dispatching" ELSE "enqueuing",
                                  wait |-> call.wait, seq |-> Len(events) + 1, todo |-> targets]]
                         ELSE client
    BY <1>1 DEF ClientAppends
  <2>2. call.author \in Agents \union {Human} /\ call.wait \in BOOLEAN
    BY RouterAssumption
  <2>3. Runs' = Runs /\ Seqs \subseteq Seqs' /\ Len(events) + 1 \in Seqs'
    BY <1>1, <2>1 DEF ClientAppends, Runs, Seqs, TypeInv, TypeOK
  <2>4. events' \in Seq(EventSet(Runs'))
    BY <2>1, <2>2, <2>3 DEF EventSet, TypeInv, TypeOK
  <2>5. client' \in [Clients -> ClientSet(Seqs')]
    <3>1. [pc   |-> IF targets = {} THEN "dispatching" ELSE "enqueuing",
           wait |-> call.wait, seq |-> Len(events) + 1, todo |-> targets] \in ClientSet(Seqs')
      BY <2>1, <2>2, <2>3 DEF ClientSet
    <3> QED
      BY <2>1, <2>3, <3>1, Grows DEF TypeInv
  <2>6. TypeOK'
    BY <1>1, <2>3, <2>4, <2>5, Grows DEF ClientAppends, TypeInv, TypeOK
  <2> QED
    BY <1>1, <2>3, <2>6 DEF ClientAppends, TypeInv, WorkersOwnRuns
<1>2. CASE ClientEnqueues(c)
  <2>1. PICK a \in Agents :
          /\ EnqueueTarget(a, client[c].seq)
          /\ client' = [client EXCEPT ![c].todo = @ \ {a},
                                     ![c].pc = IF client[c].todo = {a} THEN "dispatching" ELSE @]
    BY <1>2 DEF ClientEnqueues, TypeInv, TypeOK, ClientSet
  <2>2. UNCHANGED <<Runs, Seqs>>
    BY <1>2 DEF ClientEnqueues, Runs, Seqs
  <2>3. client[c].seq \in Seqs
    BY DEF TypeInv, TypeOK, ClientSet
  <2>4. agent' \in [Agents -> DeliveryStates(Seqs, Runs \union {NoRun, LostRun})]
        /\ asked' \in [Agents -> Seqs]
    BY <2>1, <2>3, EnqueueType
  <2>5. client' \in [Clients -> ClientSet(Seqs)]
    <3>1. client' = [client EXCEPT ![c] =
                       [client[c] EXCEPT !.todo = @ \ {a},
                                         !.pc = IF client[c].todo = {a} THEN "dispatching" ELSE @]]
      BY <2>1 DEF TypeInv, TypeOK
    <3>2. client[c] \in ClientSet(Seqs) => client'[c] \in ClientSet(Seqs)
      BY <3>1 DEF ClientSet, TypeInv, TypeOK
    <3> QED
      BY <3>1, <3>2 DEF TypeInv, TypeOK
  <2> QED
    BY <1>2, <2>2, <2>4, <2>5 DEF ClientEnqueues, TypeInv, TypeOK, WorkersOwnRuns
<1>3. CASE ClientDispatches(c) \/ ClientDispatchesPending(c)
  <2>1. UNCHANGED <<Runs, Seqs>>
    BY <1>3 DEF ClientDispatches, ClientDispatchesPending, Runs, Seqs
  <2>2. drain' \in [Drainers -> {"idle", "acquiring", "looping", "joining", "releasing"}]
    BY <1>3 DEF ClientDispatches, ClientDispatchesPending, StartDrain, Drainers, TypeInv, TypeOK
  <2>3. client' \in [Clients -> ClientSet(Seqs)]
    <3>1. IdleClient \in ClientSet(Seqs)
      BY SeqsType DEF IdleClient, ClientSet
    <3> QED
      BY <1>3, <3>1 DEF ClientDispatches, ClientDispatchesPending, TypeInv, TypeOK
  <2> QED
    BY <1>3, <2>1, <2>2, <2>3
    DEF ClientDispatches, ClientDispatchesPending, TypeInv, TypeOK, WorkersOwnRuns
<1> QED
  BY <1>1, <1>2, <1>3

LEMMA DrainType ==
  ASSUME TypeInv, NEW d \in Drainers, DrainStep(d)
  PROVE  TypeInv'
<1>1. UNCHANGED <<Runs, Seqs>>
  BY DEF DrainStep, DrainAcquires, DrainStartsBatch, DrainFindsNothing, DrainJoins,
         DrainReleases, Runs, Seqs
<1>2. CASE DrainStartsBatch(d)
  <2>1. PICK batch \in SUBSET Agents :
          worker' = [a \in Agents |->
                       IF a \in batch THEN [IdleWorker EXCEPT !.pc = "reading"] ELSE worker[a]]
    BY <1>2 DEF DrainStartsBatch, PendingAgents
  <2>2. [IdleWorker EXCEPT !.pc = "reading"] \in WorkerSet(Seqs, Runs)
    BY SeqsType DEF IdleWorker, WorkerSet
  <2>3. worker' \in [Agents -> WorkerSet(Seqs, Runs)]
    BY <2>1, <2>2 DEF TypeInv, TypeOK
  <2>4. WorkersOwnRuns'
    BY <1>1, <1>2, <2>1 DEF DrainStartsBatch, IdleWorker, AtWork, TypeInv, WorkersOwnRuns
  <2> QED
    BY <1>1, <1>2, <2>3, <2>4 DEF DrainStartsBatch, TypeInv, TypeOK
<1>3. CASE DrainAcquires(d) \/ DrainFindsNothing(d) \/ DrainJoins(d) \/ DrainReleases(d)
  <2>1. /\ drain' \in [Drainers -> {"idle", "acquiring", "looping", "joining", "releasing"}]
        /\ lock' \in Drainers \union {NoDrain}
        /\ cascade' \in Nat
    BY <1>3 DEF DrainAcquires, DrainFindsNothing, DrainJoins, DrainReleases, TypeInv, TypeOK
  <2>2. UNCHANGED <<events, settings, agent, runs, worker, client, restarts, asked>>
    BY <1>3 DEF DrainAcquires, DrainFindsNothing, DrainJoins, DrainReleases
  <2> QED
    BY <1>1, <2>1, <2>2 DEF TypeInv, TypeOK, WorkersOwnRuns
<1> QED
  BY <1>2, <1>3 DEF DrainStep

\* One worker moves; the transcript and the runs may grow.
LEMMA WorkerMoves ==
  ASSUME TypeInv, NEW a \in Agents, Seqs \subseteq Seqs', Runs \subseteq Runs',
         NEW w \in WorkerSet(Seqs', Runs'), worker' = [worker EXCEPT ![a] = w],
         \A r \in Runs : runs'[r].agent = runs[r].agent /\ runs'[r].snapshot = runs[r].snapshot,
         w.pc \in AtWork => /\ w.run \in Runs'
                            /\ runs'[w.run].agent = a
                            /\ runs'[w.run].snapshot = w.snapshot,
         w.pc = "completing" => w.outcome \in {"answered", "stopped", "failed", "skipped"},
         w.pc = "recording" => w.outcome \in RunStatuses
  PROVE  worker' \in [Agents -> WorkerSet(Seqs', Runs')] /\ WorkersOwnRuns'
<1>1. worker' \in [Agents -> WorkerSet(Seqs', Runs')]
  BY Grows DEF TypeInv
<1>2. ASSUME NEW b \in Agents PROVE worker'[b] = IF b = a THEN w ELSE worker[b]
  BY DEF TypeInv, TypeOK
<1>3. WorkersOwnRuns'
  BY <1>2 DEF TypeInv, WorkersOwnRuns
<1> QED
  BY <1>1, <1>3

LEMMA WorkerType ==
  ASSUME TypeInv, NEW a \in Agents, WorkerStep(a) \/ WorkerRaises(a)
  PROVE  TypeInv'
<1> DEFINE ids == Runs \union {NoRun, LostRun}
<1>1. /\ worker[a] \in WorkerSet(Seqs, Runs)
      /\ agent[a] \in DeliveryStates(Seqs, ids)
      /\ NoRun \in ids
  BY DEF TypeInv, TypeOK
<1>2. Len(events) \in Seqs
  BY SeqsType DEF Seqs
<1>3. CASE WorkerReads(a)
  <2> DEFINE w == [worker[a] EXCEPT
                     !.low = ReadAfter(a), !.snapshot = Len(events),
                     !.run = IF agent[a].currentRun = NoRun THEN BlankRun ELSE agent[a].currentRun,
                     !.pc = IF Len(events) > ReadAfter(a) THEN "starting" ELSE "ending"]
  <2>1. w \in WorkerSet(Seqs, Runs)
    BY <1>1, <1>2 DEF ReadAfter, WorkerSet, DeliveryStates
  <2>2. worker' = [worker EXCEPT ![a] = w] /\ UNCHANGED <<Runs, Seqs, runs>>
    BY <1>3 DEF WorkerReads, Runs, Seqs
  <2>3. w.pc \notin AtWork \union {"completing", "recording"}
    BY <1>1 DEF AtWork, WorkerSet
  <2>4. worker' \in [Agents -> WorkerSet(Seqs, Runs)] /\ WorkersOwnRuns'
    <3> HIDE DEF w
    <3> QED
      BY <2>1, <2>2, <2>3, WorkerMoves
  <2> QED
    BY <1>3, <2>2, <2>4 DEF WorkerReads, TypeInv, TypeOK
<1>4. CASE WorkerFindsNoEvents(a)
  <2>1. CompleteRun(agent[a], worker[a].run, worker[a].low, FALSE) \in DeliveryStates(Seqs, ids)
    BY <1>1, SeqsType, DeliveryOperationsType DEF WorkerSet, NoSeq
  <2>2. IdleWorker \in WorkerSet(Seqs, Runs) /\ IdleWorker.pc = "idle"
    BY SeqsType DEF IdleWorker, WorkerSet
  <2>3. worker' = [worker EXCEPT ![a] = IdleWorker] /\ UNCHANGED <<Runs, Seqs, runs>>
    BY <1>4 DEF WorkerFindsNoEvents, Runs, Seqs
  <2>4. worker' \in [Agents -> WorkerSet(Seqs, Runs)] /\ WorkersOwnRuns'
    BY <2>2, <2>3, WorkerMoves DEF AtWork
  <2> QED
    BY <1>4, <2>1, <2>3, <2>4 DEF WorkerFindsNoEvents, TypeInv, TypeOK
<1>5. CASE WorkerRaises(a) \/ WorkerReturns(a)
  <2>1. PICK outcome \in {"answered", "stopped", "failed"} :
          worker' = [worker EXCEPT ![a] = [worker[a] EXCEPT !.pc = "completing",
                                                            !.outcome = outcome]]
    BY <1>5 DEF WorkerRaises, WorkerReturns, TypeInv, TypeOK
  <2> DEFINE w == [worker[a] EXCEPT !.pc = "completing", !.outcome = outcome]
  <2>2. w \in WorkerSet(Seqs, Runs)
    BY <1>1 DEF WorkerSet, RunStatuses
  <2>3. UNCHANGED <<Runs, Seqs, runs>>
    BY <1>5 DEF WorkerRaises, WorkerReturns, Runs, Seqs
  <2>4. /\ w.pc = "completing" /\ w.outcome = outcome
        /\ w.run \in Runs /\ runs[w.run].agent = a /\ runs[w.run].snapshot = w.snapshot
    BY <1>1, <1>5 DEF WorkerRaises, WorkerReturns, WorkerSet, TypeInv, WorkersOwnRuns, AtWork
  <2>5. worker' \in [Agents -> WorkerSet(Seqs, Runs)] /\ WorkersOwnRuns'
    <3>1. worker' = [worker EXCEPT ![a] = w]
      BY <2>1
    <3> HIDE DEF w
    <3> QED
      BY <2>2, <2>3, <2>4, <3>1, WorkerMoves
  <2> QED
    BY <1>5, <2>3, <2>5 DEF WorkerRaises, WorkerReturns, TypeInv, TypeOK
<1>6. CASE WorkerStartsRun(a)
  <2> DEFINE skips == ProjectsNothing(a)
             w == [worker[a] EXCEPT !.run     = Len(runs) + 1,
                                    !.pc      = IF skips THEN "completing" ELSE "invoking",
                                    !.outcome = IF skips THEN "skipped" ELSE @]
  <2>1. runs' = Append(runs, NewRun(a)) /\ UNCHANGED Seqs
    BY <1>6 DEF WorkerStartsRun, Seqs
  <2>2. NewRun(a) \in RunSet(Seqs)
    BY <1>1 DEF NewRun, RunSet, WorkerSet, RunStatuses, CommitStates
  <2>3. /\ runs' \in Seq(RunSet(Seqs))
        /\ Runs \subseteq Runs' /\ Len(runs) + 1 \in Runs'
        /\ \A r \in Runs : runs'[r] = runs[r]
        /\ runs'[Len(runs) + 1] = NewRun(a)
    BY <2>1, <2>2 DEF Runs, TypeInv, TypeOK
  <2>4. agent' \in [Agents -> DeliveryStates(Seqs', Runs' \union {NoRun, LostRun})]
    <3>1. agent[a] \in DeliveryStates(Seqs', Runs' \union {NoRun, LostRun})
      BY <2>1, <2>3, Grows DEF TypeInv
    <3>2. MarkRunStarted(agent[a], Len(runs) + 1, worker[a].snapshot)
            \in DeliveryStates(Seqs', Runs' \union {NoRun, LostRun})
      BY <1>1, <2>1, <2>3, <3>1, SeqsType, DeliveryOperationsType DEF NoSeq, WorkerSet
    <3> QED
      BY <1>6, <2>1, <2>3, <3>2, Grows DEF WorkerStartsRun, TypeInv
  <2>5. worker' = [worker EXCEPT ![a] = w]
    BY <1>6 DEF WorkerStartsRun, TypeInv, TypeOK
  <2>6. w \in WorkerSet(Seqs', Runs')
    BY <1>1, <2>1, <2>3 DEF WorkerSet, RunStatuses
  <2>7. /\ w.run = Len(runs) + 1 /\ w.snapshot = worker[a].snapshot
        /\ w.pc \in {"completing", "invoking"}
        /\ w.pc = "completing" => w.outcome = "skipped"
    BY <1>1 DEF WorkerSet
  <2>8. NewRun(a).agent = a /\ NewRun(a).snapshot = worker[a].snapshot
    BY DEF NewRun
  <2>9. worker' \in [Agents -> WorkerSet(Seqs', Runs')] /\ WorkersOwnRuns'
    <3> HIDE DEF w
    <3> QED
      BY <2>1, <2>3, <2>5, <2>6, <2>7, <2>8, WorkerMoves
  <2> QED
    BY <1>6, <2>1, <2>3, <2>4, <2>9, Grows DEF WorkerStartsRun, TypeInv, TypeOK
<1>7. CASE WorkerCompletesRun(a)
  <2>1. PICK outcome \in OutcomesToRecord(a) :
          worker' = [worker EXCEPT ![a] = [worker[a] EXCEPT !.pc = "recording",
                                                            !.outcome = outcome]]
    BY <1>7 DEF WorkerCompletesRun, TypeInv, TypeOK
  <2> DEFINE w == [worker[a] EXCEPT !.pc = "recording", !.outcome = outcome]
             delivered == worker[a].outcome \in {"skipped", "answered"}
  <2>2. /\ worker[a].run \in Runs /\ runs[worker[a].run].agent = a
        /\ runs[worker[a].run].snapshot = worker[a].snapshot
        /\ worker[a].outcome \in {"answered", "stopped", "failed", "skipped"}
    BY <1>7 DEF WorkerCompletesRun, AtWork, TypeInv, WorkersOwnRuns
  <2>3. outcome \in RunStatuses
    BY <2>1, <2>2 DEF OutcomesToRecord, RunStatuses
  <2>4. PICK advanced \in BOOLEAN : runs' = [runs EXCEPT ![worker[a].run].advanced = advanced]
    <3> DEFINE moved == runs[worker[a].run].advanced
                          \/ agent'[a].lastDelivered > agent[a].lastDelivered
    <3>1. moved \in BOOLEAN
      OBVIOUS
    <3>2. runs' = [runs EXCEPT ![worker[a].run].advanced = moved]
      BY <1>7, ZenonT(30) DEF WorkerCompletesRun
    <3> QED
      BY <3>1, <3>2
  <2>5. /\ runs' \in Seq(RunSet(Seqs)) /\ UNCHANGED <<Runs, Seqs>>
        /\ \A r \in Runs : runs'[r].agent = runs[r].agent /\ runs'[r].snapshot = runs[r].snapshot
    <3>1. runs \in Seq(RunSet(Seqs))
      BY DEF TypeInv, TypeOK
    <3> DEFINE x == [runs[worker[a].run] EXCEPT !.advanced = advanced]
    <3>4. x \in RunSet(Seqs) /\ runs' = [runs EXCEPT ![worker[a].run] = x]
      <4>1. runs[worker[a].run] \in RunSet(Seqs)
        BY <2>2, <3>1 DEF Runs
      <4>2. x \in RunSet(Seqs)
        BY <4>1 DEF RunSet
      <4>3. runs' = [runs EXCEPT ![worker[a].run] = x]
        BY <2>4
      <4> QED
        BY <4>2, <4>3
    <3>5. runs' \in Seq(RunSet(Seqs)) /\ Len(runs') = Len(runs)
      <4> HIDE DEF x
      <4> QED
        BY <2>2, <3>1, <3>4, SequenceUpdate DEF Runs
    <3>2. /\ UNCHANGED <<Runs, Seqs>> /\ runs' \in Seq(RunSet(Seqs))
      BY <1>7, <3>5 DEF WorkerCompletesRun, Runs, Seqs
    <3>3. \A r \in Runs : runs'[r].agent = runs[r].agent /\ runs'[r].snapshot = runs[r].snapshot
      BY <2>2, <2>4, <3>1 DEF Runs, RunSet
    <3> QED
      BY <3>2, <3>3
  <2>6. CompleteRun(agent[a], worker[a].run, worker[a].snapshot, delivered)
          \in DeliveryStates(Seqs, ids)
    <3>1. delivered \in BOOLEAN
      OBVIOUS
    <3>2. worker[a].snapshot \in Seqs
      BY <1>1 DEF WorkerSet
    <3> HIDE DEF delivered
    <3> QED
      BY <1>1, <3>1, <3>2, SeqsType, DeliveryOperationsType DEF NoSeq
  <2>7. w \in WorkerSet(Seqs, Runs) /\ w.pc = "recording" /\ w.outcome \in RunStatuses
        /\ w.run = worker[a].run /\ w.snapshot = worker[a].snapshot
    BY <1>1, <2>3 DEF WorkerSet
  <2>8. worker' \in [Agents -> WorkerSet(Seqs, Runs)] /\ WorkersOwnRuns'
    <3>1. worker' = [worker EXCEPT ![a] = w]
      BY <2>1
    <3> HIDE DEF w
    <3> QED
      BY <2>2, <2>5, <2>7, <3>1, WorkerMoves
  <2> QED
    BY <1>7, <2>5, <2>6, <2>8 DEF WorkerCompletesRun, TypeInv, TypeOK
<1>8. CASE WorkerRecordsDelivery(a)
  <2> DEFINE run == worker[a].run
             status == worker[a].outcome
             w == IF status = "success" THEN [worker[a] EXCEPT !.pc = "replying"] ELSE IdleWorker
             x == RunAfterDelivery(runs[run], status)
  <2>1. /\ run \in Runs /\ runs[run].agent = a /\ runs[run].snapshot = worker[a].snapshot
        /\ status \in RunStatuses
    BY <1>8 DEF WorkerRecordsDelivery, AtWork, TypeInv, WorkersOwnRuns
  <2>2. runs[run] \in RunSet(Seqs) /\ runs \in Seq(RunSet(Seqs))
    BY <2>1 DEF Runs, TypeInv, TypeOK
  <2>3. x \in RunSet(Seqs) /\ x.agent = runs[run].agent /\ x.snapshot = runs[run].snapshot
    BY <2>1, <2>2 DEF RunAfterDelivery, RunSet, CommitStates
  <2>4. runs' = [runs EXCEPT ![run] = x]
    BY <1>8 DEF WorkerRecordsDelivery
  <2>5. /\ runs' \in Seq(RunSet(Seqs)) /\ UNCHANGED <<Runs, Seqs>>
        /\ \A r \in Runs : runs'[r].agent = runs[r].agent /\ runs'[r].snapshot = runs[r].snapshot
    <3> HIDE DEF x
    <3>1. runs' \in Seq(RunSet(Seqs)) /\ Len(runs') = Len(runs)
      BY <2>1, <2>2, <2>3, <2>4, SequenceUpdate DEF Runs
    <3>2. UNCHANGED <<Runs, Seqs>>
      BY <1>8, <3>1 DEF WorkerRecordsDelivery, Runs, Seqs
    <3>3. \A r \in Runs : runs'[r].agent = runs[r].agent /\ runs'[r].snapshot = runs[r].snapshot
      BY <2>1, <2>2, <2>3, <2>4 DEF Runs
    <3> QED
      BY <3>1, <3>2, <3>3
  <2>6. ClearRunAgentState(agent[a], run, worker[a].snapshot, status) \in DeliveryStates(Seqs, ids)
    BY <1>1, SeqsType, DeliveryOperationsType DEF NoSeq, WorkerSet
  <2>7. agent' \in [Agents -> DeliveryStates(Seqs, ids)]
    BY <1>8, <2>6 DEF WorkerRecordsDelivery, TypeInv, TypeOK
  <2>8. /\ w \in WorkerSet(Seqs, Runs) /\ w.pc \in {"idle", "replying"}
        /\ w.pc = "replying" => w.run = run /\ w.snapshot = worker[a].snapshot
    BY <1>1, SeqsType DEF WorkerSet, IdleWorker
  <2>9. worker' \in [Agents -> WorkerSet(Seqs, Runs)] /\ WorkersOwnRuns'
    <3>1. worker' = [worker EXCEPT ![a] = w]
      BY <1>8 DEF WorkerRecordsDelivery
    <3> HIDE DEF w
    <3> QED
      BY <2>1, <2>5, <2>8, <3>1, WorkerMoves DEF AtWork
  <2> QED
    BY <1>8, <2>5, <2>7, <2>9 DEF WorkerRecordsDelivery, TypeInv, TypeOK
<1>9. CASE WorkerAppendsReply(a)
  <2> DEFINE w == [worker[a] EXCEPT !.pc = "replied", !.seq = Len(events) + 1]
  <2>1. /\ worker[a].run \in Runs /\ runs[worker[a].run].agent = a
        /\ runs[worker[a].run].snapshot = worker[a].snapshot
    BY <1>9 DEF WorkerAppendsReply, AtWork, TypeInv, WorkersOwnRuns
  <2>2. UNCHANGED <<Runs, runs>> /\ Seqs \subseteq Seqs' /\ Len(events) + 1 \in Seqs'
    BY <1>9, SeqsType DEF WorkerAppendsReply, Runs, Seqs, TypeInv, TypeOK
  <2>3. events' \in Seq(EventSet(Runs))
    <3>1. [author |-> a, run |-> worker[a].run] \in EventSet(Runs)
      BY <2>1 DEF EventSet
    <3> QED
      BY <1>9, <3>1 DEF WorkerAppendsReply, TypeInv, TypeOK
  <2>4. w \in WorkerSet(Seqs', Runs') /\ w.pc = "replied"
        /\ w.run = worker[a].run /\ w.snapshot = worker[a].snapshot
    BY <1>1, <2>2 DEF WorkerSet
  <2>5. worker' \in [Agents -> WorkerSet(Seqs', Runs')] /\ WorkersOwnRuns'
    <3>1. worker' = [worker EXCEPT ![a] = w]
      BY <1>9 DEF WorkerAppendsReply, TypeInv, TypeOK
    <3> HIDE DEF w
    <3> QED
      BY <2>1, <2>2, <2>4, <3>1, WorkerMoves
  <2> QED
    BY <1>9, <2>2, <2>3, <2>5, Grows DEF WorkerAppendsReply, TypeInv, TypeOK
<1>10. CASE WorkerResolvesMentions(a)
  <2>1. UNCHANGED <<Runs, Seqs, runs>> /\ cascade' \in Nat
    <3>1. cascade \in Nat
      BY DEF TypeInv, TypeOK
    <3>2. cascade' = cascade \/ cascade' = cascade + 1
      BY <1>10 DEF WorkerResolvesMentions
    <3>3. UNCHANGED <<Runs, Seqs, runs>>
      BY <1>10 DEF WorkerResolvesMentions, Runs, Seqs
    <3>4. cascade' \in Nat
      BY <3>1, <3>2
    <3> QED
      BY <3>3, <3>4
  <2>2. PICK w \in {IdleWorker} \union
                   {[worker[a] EXCEPT !.pc = "enqueuing", !.todo = mentions] :
                      mentions \in SUBSET Agents} :
          worker' = [worker EXCEPT ![a] = w]
    <3>1. CASE worker' = [worker EXCEPT ![a] = IdleWorker]
      BY <3>1
    <3>2. CASE \E mentions \in SUBSET Agents :
                 worker' = [worker EXCEPT ![a].pc = "enqueuing", ![a].todo = mentions]
      <4>1. PICK mentions \in SUBSET Agents :
              worker' = [worker EXCEPT ![a].pc = "enqueuing", ![a].todo = mentions]
        BY <3>2
      <4>2. worker' = [worker EXCEPT ![a] = [worker[a] EXCEPT !.pc = "enqueuing", !.todo = mentions]]
        BY <4>1 DEF TypeInv, TypeOK
      <4> QED
        BY <4>2
    <3> QED
      BY <1>10, <3>1, <3>2 DEF WorkerResolvesMentions
  <2>3. /\ worker[a].run \in Runs /\ runs[worker[a].run].agent = a
        /\ runs[worker[a].run].snapshot = worker[a].snapshot
    BY <1>10 DEF WorkerResolvesMentions, AtWork, TypeInv, WorkersOwnRuns
  <2>4. /\ w \in WorkerSet(Seqs, Runs) /\ w.pc \in {"idle", "enqueuing"}
        /\ w.pc = "enqueuing" => w.run = worker[a].run /\ w.snapshot = worker[a].snapshot
    <3>1. CASE w = IdleWorker
      BY <3>1, SeqsType DEF IdleWorker, WorkerSet
    <3>2. ASSUME NEW mentions \in SUBSET Agents,
                 w = [worker[a] EXCEPT !.pc = "enqueuing", !.todo = mentions]
          PROVE  w \in WorkerSet(Seqs, Runs) /\ w.pc = "enqueuing"
                 /\ w.run = worker[a].run /\ w.snapshot = worker[a].snapshot
      BY <1>1, <3>2 DEF WorkerSet
    <3> QED
      BY <2>2, <3>1, <3>2
  <2>5. worker' \in [Agents -> WorkerSet(Seqs, Runs)] /\ WorkersOwnRuns'
    BY <2>2, <2>1, <2>3, <2>4, WorkerMoves DEF AtWork
  <2> QED
    BY <1>10, <2>1, <2>5 DEF WorkerResolvesMentions, TypeInv, TypeOK
<1>11. CASE WorkerEnqueues(a)
  <2>1. PICK target \in Agents :
          /\ EnqueueTarget(target, worker[a].seq)
          /\ worker' = [worker EXCEPT ![a] =
                          IF worker[a].todo = {target}
                            THEN IdleWorker ELSE [worker[a] EXCEPT !.todo = @ \ {target}]]
    BY <1>11 DEF WorkerEnqueues, WorkerSet, TypeInv, TypeOK
  <2> DEFINE w == IF worker[a].todo = {target} THEN IdleWorker
                  ELSE [worker[a] EXCEPT !.todo = @ \ {target}]
  <2>2. UNCHANGED <<Runs, Seqs, runs>>
    BY <1>11 DEF WorkerEnqueues, Runs, Seqs
  <2>3. agent' \in [Agents -> DeliveryStates(Seqs, ids)] /\ asked' \in [Agents -> Seqs]
    <3>1. worker[a].seq \in Seqs
      BY <1>1 DEF WorkerSet
    <3> QED
      BY <2>1, <3>1, EnqueueType
  <2>4. /\ worker[a].run \in Runs /\ runs[worker[a].run].agent = a
        /\ runs[worker[a].run].snapshot = worker[a].snapshot
        /\ worker[a].pc = "enqueuing"
    BY <1>11 DEF WorkerEnqueues, AtWork, TypeInv, WorkersOwnRuns
  <2>5. /\ w \in WorkerSet(Seqs, Runs) /\ w.pc \in {"idle", "enqueuing"}
        /\ w.pc = "enqueuing" => w.run = worker[a].run /\ w.snapshot = worker[a].snapshot
    BY <1>1, <2>4, SeqsType DEF IdleWorker, WorkerSet
  <2>6. worker' \in [Agents -> WorkerSet(Seqs, Runs)] /\ WorkersOwnRuns'
    <3>1. worker' = [worker EXCEPT ![a] = w]
      BY <2>1
    <3> HIDE DEF w
    <3> QED
      BY <2>2, <2>4, <2>5, <3>1, WorkerMoves DEF AtWork
  <2> QED
    BY <1>11, <2>2, <2>3, <2>6 DEF WorkerEnqueues, TypeInv, TypeOK
<1> QED
  BY <1>3, <1>4, <1>5, <1>6, <1>7, <1>8, <1>9, <1>10, <1>11 DEF WorkerStep

\* Reconciliation keeps the shape of the runs and of the agents' records, and changes
\* neither the agent nor the snapshot of a run.
LEMMA ReconcileType ==
  ASSUME TypeInv, UNCHANGED events, NEW half,
         NEW states \in [Agents -> DeliveryStates(Seqs, Runs \union {NoRun, LostRun})],
         Reconcile(states, half)
  PROVE  /\ UNCHANGED <<Runs, Seqs>>
         /\ runs' \in Seq(RunSet(Seqs))
         /\ agent' \in [Agents -> DeliveryStates(Seqs, Runs \union {NoRun, LostRun})]
         /\ \A r \in Runs : runs'[r].agent = runs[r].agent /\ runs'[r].snapshot = runs[r].snapshot
<1> DEFINE record(r) == IF Pending(r)
                          THEN [runs[r] EXCEPT !.status = "failed", !.commit = "orphaned",
                                               !.deliveries = IF r \in half THEN @
                                                              ELSE @ \union {"failed"}]
                          ELSE runs[r]
<1>1. Runs = 1 .. Len(runs) /\ Len(runs) \in Nat
  BY SeqsType DEF Runs
<1>2. runs' = [r \in 1 .. Len(runs) |-> record(r)]
  BY <1>1 DEF Reconcile
<1>3. ASSUME NEW r \in Runs
      PROVE  /\ record(r) \in RunSet(Seqs)
             /\ record(r).agent = runs[r].agent /\ record(r).snapshot = runs[r].snapshot
  <2>1. runs[r] \in RunSet(Seqs)
    BY <1>1 DEF TypeInv, TypeOK
  <2> QED
    BY <2>1 DEF RunSet, RunStatuses, CommitStates
<1>4. runs' \in Seq(RunSet(Seqs)) /\ Len(runs') = Len(runs)
  <2> HIDE DEF record
  <2> QED
    BY <1>1, <1>2, <1>3
<1>5. UNCHANGED <<Runs, Seqs>>
  BY <1>4 DEF Runs, Seqs
<1>6. \A r \in Runs : runs'[r].agent = runs[r].agent /\ runs'[r].snapshot = runs[r].snapshot
  <2> HIDE DEF record
  <2> QED
    BY <1>1, <1>2, <1>3
<1>7. agent' \in [Agents -> DeliveryStates(Seqs, Runs \union {NoRun, LostRun})]
  <2>1. ASSUME NEW a \in Agents
        PROVE  ReleaseRun(states[a], states[a].currentRun)
                 \in DeliveryStates(Seqs, Runs \union {NoRun, LostRun})
    BY SeqsType, DeliveryOperationsType DEF NoSeq
  <2> QED
    BY <2>1 DEF Reconcile
<1> QED
  BY <1>4, <1>5, <1>6, <1>7

LEMMA ControlType ==
  ASSUME TypeInv,
         \/ \E a \in Agents : WorkerCallsRelationTool(a) \/ StopAgent(a) \/ CancelQueuedAgent(a)
         \/ ClearPendingQueue \/ UpdateRuntimeState \/ Restart
  PROVE  TypeInv'
<1> DEFINE states == [Agents -> DeliveryStates(Seqs, Runs \union {NoRun, LostRun})]
<1>1. agent \in states
  BY DEF TypeInv, TypeOK
<1>2. CASE \E a \in Agents : WorkerCallsRelationTool(a)
  <2>1. Reconcile(agent, {}) /\ UNCHANGED <<events, settings, lock, drain, cascade, worker, client,
                                           restarts, asked>>
    BY <1>2 DEF WorkerCallsRelationTool
  <2>2. /\ UNCHANGED <<Runs, Seqs>> /\ runs' \in Seq(RunSet(Seqs)) /\ agent' \in states
        /\ \A r \in Runs : runs'[r].agent = runs[r].agent /\ runs'[r].snapshot = runs[r].snapshot
    BY <1>1, <2>1, ReconcileType
  <2>3. TypeOK'
    BY <2>1, <2>2 DEF TypeInv, TypeOK
  <2>4. WorkersOwnRuns'
    BY <2>1, <2>2 DEF TypeInv, WorkersOwnRuns
  <2> QED
    BY <2>3, <2>4 DEF TypeInv
<1>3. CASE Restart
  <2>1. PICK cut, half :
          /\ cut \in Torn({a \in Agents : worker[a].pc = "starting"})
          /\ Reconcile([a \in Agents |-> IF a \in cut THEN StartsUnrecorded(a) ELSE agent[a]], half)
    BY <1>3 DEF Restart
  <2>2. [a \in Agents |-> IF a \in cut THEN StartsUnrecorded(a) ELSE agent[a]] \in states
    <3>1. ASSUME NEW a \in Agents
          PROVE  StartsUnrecorded(a) \in DeliveryStates(Seqs, Runs \union {NoRun, LostRun})
      <4>1. worker[a].snapshot \in Seqs
        BY DEF WorkerSet, TypeInv, TypeOK
      <4> QED
        BY <1>1, <4>1, SeqsType, DeliveryOperationsType DEF StartsUnrecorded, NoSeq
    <3> QED
      BY <1>1, <3>1
  <2>3. /\ UNCHANGED <<Runs, Seqs>> /\ runs' \in Seq(RunSet(Seqs)) /\ agent' \in states
    BY <1>3, <2>1, <2>2, ReconcileType DEF Restart
  <2>4. IdleWorker \in WorkerSet(Seqs, Runs) /\ IdleClient \in ClientSet(Seqs)
    BY SeqsType DEF IdleWorker, IdleClient, WorkerSet, ClientSet
  <2>5. /\ lock' \in Drainers \union {NoDrain} /\ cascade' \in Nat
        /\ drain' \in [Drainers -> {"idle", "acquiring", "looping", "joining", "releasing"}]
        /\ restarts' \in 0 .. MaxRestarts
        /\ UNCHANGED <<events, settings, asked>>
    BY <1>3, RouterAssumption DEF Restart, TypeInv, TypeOK
  <2>6. /\ worker' \in [Agents -> WorkerSet(Seqs, Runs)] /\ client' \in [Clients -> ClientSet(Seqs)]
    BY <1>3, <2>4 DEF Restart
  <2>7. WorkersOwnRuns'
    BY <1>3 DEF Restart, WorkersOwnRuns, IdleWorker, AtWork
  <2> QED
    BY <2>3, <2>5, <2>6, <2>7 DEF TypeInv, TypeOK
<1>4. CASE \/ \E a \in Agents : StopAgent(a) \/ CancelQueuedAgent(a)
           \/ ClearPendingQueue
  <2>1. ASSUME NEW a \in Agents
        PROVE  /\ RequestStop(agent[a]) \in DeliveryStates(Seqs, Runs \union {NoRun, LostRun})
               /\ CancelQueued(agent[a]) \in DeliveryStates(Seqs, Runs \union {NoRun, LostRun})
    BY <1>1, SeqsType, DeliveryOperationsType DEF NoSeq
  <2>2. /\ agent' \in states /\ asked' \in [Agents -> Seqs]
        /\ UNCHANGED <<events, settings, runs, lock, drain, cascade, worker, client, restarts>>
    BY <1>1, <1>4, <2>1, SeqsType
    DEF StopAgent, CancelQueuedAgent, ClearPendingQueue, Cancel, TypeInv, TypeOK
  <2> QED
    BY <2>2 DEF TypeInv, TypeOK, WorkersOwnRuns, Runs, Seqs
<1>5. CASE UpdateRuntimeState
  BY <1>5 DEF UpdateRuntimeState, TypeInv, TypeOK, WorkersOwnRuns, Runs, Seqs
<1> QED
  BY <1>2, <1>3, <1>4, <1>5

LEMMA TypeStep == TypeInv /\ [Next]_vars => TypeInv'
<1> SUFFICES ASSUME TypeInv, [Next]_vars PROVE TypeInv'
  OBVIOUS
<1>1. CASE UNCHANGED vars
  BY <1>1 DEF vars, TypeInv, TypeOK, WorkersOwnRuns, Runs, Seqs
<1>2. CASE Next
  BY <1>2, ClientType, DrainType, WorkerType, ControlType DEF Next, ClientStep
<1> QED
  BY <1>1, <1>2

\* The state keeps its shape, and a worker that has started its run stays with a run
\* record of its own agent until it ends.
THEOREM TypeCorrect == Spec => []TypeOK
<1>1. TypeInv => TypeOK
  BY DEF TypeInv
<1> QED
  BY <1>1, TypeInit, TypeStep, PTL DEF Spec

----------------------------------------------------------------------------
(* No request is lost, and no agent is left running.                        *)

\* What the two invariants say of one agent.
Runs1(a) ==
  /\ agent[a].running <=> agent[a].currentRun # NoRun
  /\ worker[a].pc = "ending" => worker[a].run = BlankRun
  /\ agent[a].running => /\ worker[a].pc \in {"invoking", "completing"}
                         /\ worker[a].run = agent[a].currentRun
                         /\ runs[worker[a].run].agent = a
                         /\ Pending(worker[a].run)

Asked1(a) ==
  \/ asked[a] = 0
  \/ agent[a].queued /\ asked[a] <= agent[a].queuedAfter
  \/ \E r \in Runs : runs[r].agent = a /\ asked[a] <= runs[r].snapshot

LEMMA PerAgent == IInv <=> TypeInv /\ \A a \in Agents : Runs1(a) /\ Asked1(a)
BY DEF IInv, RunningHasRun, RunningHasWorker, NoRequestLost, Runs1, Asked1

\* What a step does to an agent's queue entry when it starts or ends no run.
QueueChange(a) ==
  \/ UNCHANGED <<agent[a].queued, agent[a].queuedAfter, asked[a]>>
  \/ asked'[a] = 0
  \/ \E seq \in Nat : /\ agent'[a].queued
                      /\ agent'[a].queuedAfter = Later(seq, agent[a].queuedAfter)
                      /\ asked'[a] = Later(seq, asked[a])

\* The steps that write neither a run nor a worker, and of an agent's record at most the
\* queue entry and the stop request.
QueueStep ==
  /\ UNCHANGED <<runs, worker>>
  /\ \A a \in Agents :
       /\ agent'[a].running = agent[a].running /\ agent'[a].currentRun = agent[a].currentRun
       /\ QueueChange(a)

LEMMA NumbersType ==
  ASSUME TypeInv, NEW a \in Agents
  PROVE  /\ asked[a] \in Nat /\ agent[a].queuedAfter \in Nat
         /\ worker[a].snapshot \in Nat /\ worker[a].low \in Nat
<1>1. Seqs \subseteq Nat
  BY SeqsType
<1>2. /\ asked[a] \in Seqs
      /\ agent[a] \in DeliveryStates(Seqs, Runs \union {NoRun, LostRun})
      /\ worker[a] \in WorkerSet(Seqs, Runs)
  BY DEF TypeInv, TypeOK
<1> QED
  BY <1>1, <1>2 DEF DeliveryStates, WorkerSet

LEMMA QueueChangeSafe ==
  ASSUME IInv, UNCHANGED runs, NEW a \in Agents, QueueChange(a)
  PROVE  Asked1(a)'
<1>1. Asked1(a) /\ TypeInv
  BY PerAgent
<1>2. UNCHANGED <<runs, Runs>>
  BY DEF Runs
<1>3. asked[a] \in Nat /\ agent[a].queuedAfter \in Nat
  BY <1>1, NumbersType
<1>4. CASE UNCHANGED <<agent[a].queued, agent[a].queuedAfter, asked[a]>> \/ asked'[a] = 0
  BY <1>1, <1>2, <1>4 DEF Asked1
<1>5. ASSUME NEW seq \in Nat, agent'[a].queued,
             agent'[a].queuedAfter = Later(seq, agent[a].queuedAfter),
             asked'[a] = Later(seq, asked[a])
      PROVE  Asked1(a)'
  <2>1. CASE asked[a] >= seq /\ \E r \in Runs : runs[r].agent = a /\ asked[a] <= runs[r].snapshot
    BY <1>2, <1>3, <1>5, <2>1 DEF Asked1, Later
  <2>2. CASE asked[a] < seq \/ asked[a] = 0
    BY <1>3, <1>5, <2>2 DEF Asked1, Later
  <2>3. CASE agent[a].queued /\ asked[a] <= agent[a].queuedAfter
    BY <1>3, <1>5, <2>3 DEF Asked1, Later
  <2> QED
    BY <1>1, <1>3, <2>1, <2>2, <2>3 DEF Asked1
<1> QED
  BY <1>4, <1>5 DEF QueueChange

LEMMA QueueSafe ==
  ASSUME IInv, QueueStep, NEW a \in Agents
  PROVE  Runs1(a)' /\ Asked1(a)'
<1>1. Runs1(a)'
  BY PerAgent DEF QueueStep, Runs1, Pending
<1>2. Asked1(a)'
  BY QueueChangeSafe DEF QueueStep
<1> QED
  BY <1>1, <1>2

LEMMA ControlSafe ==
  ASSUME IInv,
         \/ \E c \in Clients : \/ ClientAppends(c) \/ ClientEnqueues(c)
                               \/ ClientDispatches(c) \/ ClientDispatchesPending(c)
         \/ \E d \in Drainers : \/ DrainAcquires(d) \/ DrainFindsNothing(d)
                                \/ DrainJoins(d) \/ DrainReleases(d)
         \/ \E a \in Agents : StopAgent(a) \/ CancelQueuedAgent(a)
         \/ ClearPendingQueue \/ UpdateRuntimeState \/ UNCHANGED vars
  PROVE  QueueStep
<1>1. agent \in [Agents -> DeliveryStates(Seqs, Runs \union {NoRun, LostRun})] /\ TypeInv
      /\ asked \in [Agents -> Seqs]
  BY PerAgent DEF TypeInv, TypeOK
<1>2. CASE UNCHANGED <<runs, worker, agent, asked>>
  BY <1>2 DEF QueueStep, QueueChange
<1>3. CASE \E c \in Clients : ClientEnqueues(c)
  <2>1. PICK c \in Clients, a \in Agents :
          EnqueueTarget(a, client[c].seq) /\ UNCHANGED <<runs, worker>>
    BY <1>1, <1>3 DEF ClientEnqueues, ClientSet, TypeInv, TypeOK
  <2>2. client[c].seq \in Nat
    BY <1>1, SeqsType DEF ClientSet, TypeInv, TypeOK
  <2> QED
    BY <1>1, <2>1, <2>2 DEF QueueStep, QueueChange, EnqueueTarget, Enqueue, DeliveryStates
<1>4. CASE \E a \in Agents : StopAgent(a)
  BY <1>1, <1>4 DEF StopAgent, RequestStop, QueueStep, QueueChange, DeliveryStates
<1>5. CASE (\E a \in Agents : CancelQueuedAgent(a)) \/ ClearPendingQueue
  <2>1. PICK cancelled : Cancel(cancelled)
    BY <1>5 DEF CancelQueuedAgent, ClearPendingQueue
  <2>2. ASSUME NEW a \in Agents
        PROVE  /\ agent'[a].running = agent[a].running
               /\ agent'[a].currentRun = agent[a].currentRun
               /\ UNCHANGED <<agent[a], asked[a]>> \/ asked'[a] = 0
    <3>1. agent[a] \in DeliveryStates(Seqs, Runs \union {NoRun, LostRun})
      BY <1>1
    <3>2. CASE a \in cancelled /\ ~agent[a].running
      BY <2>1, <3>1, <3>2 DEF Cancel, CancelQueued, DeliveryStates
    <3>3. CASE ~(a \in cancelled /\ ~agent[a].running)
      BY <2>1, <3>1, <3>3 DEF Cancel, CancelQueued
    <3> QED
      BY <3>2, <3>3
  <2> QED
    BY <2>1, <2>2 DEF Cancel, QueueStep, QueueChange
<1> QED
  BY <1>2, <1>3, <1>4, <1>5
  DEF ClientAppends, ClientDispatches, ClientDispatchesPending, DrainAcquires, DrainFindsNothing,
      DrainJoins, DrainReleases, UpdateRuntimeState, vars

\* A step that leaves the agent's record, its worker and the runs it may name alone.
LEMMA Untouched ==
  ASSUME IInv, NEW a \in Agents, UNCHANGED <<agent[a], asked[a], worker[a]>>,
         Runs \subseteq Runs',
         \A r \in Runs : /\ runs'[r].agent = runs[r].agent /\ runs'[r].snapshot = runs[r].snapshot
                         /\ runs[r].agent = a => runs'[r].commit = runs[r].commit
  PROVE  Runs1(a)' /\ Asked1(a)'
<1>1. Runs1(a) /\ Asked1(a) /\ TypeInv
  BY PerAgent
<1>2. agent[a].running => worker[a].run \in Runs
  BY <1>1 DEF Runs1, TypeInv, WorkersOwnRuns, AtWork
<1>3. Runs1(a)'
  BY <1>1, <1>2 DEF Runs1, Pending
<1>4. Asked1(a)'
  BY <1>1 DEF Asked1
<1> QED
  BY <1>3, <1>4

\* A worker with nothing to do for the store takes a step: its agent is not running.
LEMMA WorkerElsewhere ==
  ASSUME IInv, NEW a \in Agents, UNCHANGED <<agent[a], asked[a]>>, Runs \subseteq Runs',
         \A r \in Runs : runs'[r].agent = runs[r].agent /\ runs'[r].snapshot = runs[r].snapshot,
         worker[a].pc \notin {"invoking", "completing"},
         worker'[a].pc = "ending" => worker'[a].run = BlankRun
  PROVE  Runs1(a)' /\ Asked1(a)'
<1>1. Runs1(a) /\ Asked1(a)
  BY PerAgent
<1>2. ~agent[a].running
  BY <1>1 DEF Runs1
<1>3. Runs1(a)'
  BY <1>1, <1>2 DEF Runs1
<1>4. Asked1(a)'
  BY <1>1 DEF Asked1, Runs
<1> QED
  BY <1>3, <1>4

LEMMA BatchSafe ==
  ASSUME IInv, NEW d \in Drainers, DrainStartsBatch(d), NEW a \in Agents
  PROVE  Runs1(a)' /\ Asked1(a)'
<1>1. PICK batch \in SUBSET PendingAgents :
        worker' = [b \in Agents |->
                     IF b \in batch THEN [IdleWorker EXCEPT !.pc = "reading"] ELSE worker[b]]
  BY DEF DrainStartsBatch
<1>2. UNCHANGED <<agent, asked, runs>>
  BY DEF DrainStartsBatch
<1>3. CASE a \notin batch
  BY <1>1, <1>2, <1>3, Untouched DEF Runs
<1>4. CASE a \in batch
  <2>1. ~agent[a].running /\ worker'[a].pc = "reading"
    BY <1>1, <1>4 DEF PendingAgents, PendingIdle, IdleWorker
  <2>2. Runs1(a) /\ Asked1(a)
    BY PerAgent
  <2> QED
    BY <1>2, <2>1, <2>2 DEF Runs1, Asked1, Runs
<1> QED
  BY <1>3, <1>4

LEMMA ReconcileSafe ==
  ASSUME IInv, UNCHANGED <<events, asked>>, Reconcile(agent, {}), NEW a \in Agents,
         worker'[a] \in {worker[a], IdleWorker}
  PROVE  Runs1(a)' /\ Asked1(a)'
<1>1. Runs1(a) /\ Asked1(a) /\ TypeInv
  BY PerAgent
<1>2. agent \in [Agents -> DeliveryStates(Seqs, Runs \union {NoRun, LostRun})]
  BY <1>1 DEF TypeInv, TypeOK
<1>3. /\ UNCHANGED Runs
      /\ \A r \in Runs : runs'[r].agent = runs[r].agent /\ runs'[r].snapshot = runs[r].snapshot
  BY <1>1, <1>2, ReconcileType
<1>4. /\ ~agent'[a].running /\ agent'[a].currentRun = NoRun
      /\ UNCHANGED <<agent[a].queued, agent[a].queuedAfter>>
  <2>1. agent[a].running => agent[a].currentRun \in Runs /\ Pending(agent[a].currentRun)
    BY <1>1 DEF Runs1, TypeInv, WorkersOwnRuns, AtWork
  <2>2. agent'[a] = IF \E r \in Runs : Pending(r) /\ agent[a].currentRun = r
                      THEN ReleaseRun(agent[a], agent[a].currentRun) ELSE agent[a]
    BY DEF Reconcile
  <2> QED
    <3>1. agent[a] \in DeliveryStates(Seqs, Runs \union {NoRun, LostRun})
      BY <1>2
    <3>2. CASE agent[a].running
      BY <2>1, <2>2, <3>1, <3>2 DEF ReleaseRun, OwnsRun, DeliveryStates
    <3>3. CASE ~agent[a].running
      <4>1. agent[a].currentRun = NoRun
        BY <1>1, <3>3 DEF Runs1
      <4>2. agent'[a] = agent[a]
        BY <2>2, <4>1 DEF Runs, NoRun
      <4> QED
        BY <3>3, <4>1, <4>2
    <3> QED
      BY <3>2, <3>3
<1>5. Runs1(a)'
  <2>1. worker'[a].pc = "ending" => worker'[a].run = BlankRun
    <3>1. CASE worker'[a] = worker[a]
      BY <1>1, <3>1 DEF Runs1
    <3>2. CASE worker'[a] = IdleWorker
      BY <3>2 DEF IdleWorker
    <3> QED
      BY <3>1, <3>2
  <2> QED
    BY <1>4, <2>1 DEF Runs1
<1>6. Asked1(a)'
  BY <1>1, <1>3, <1>4 DEF Asked1
<1> QED
  BY <1>5, <1>6

LEMMA WorkerSafe ==
  ASSUME IInv, NEW a \in Agents, WorkerStep(a) \/ WorkerRaises(a), NEW b \in Agents
  PROVE  Runs1(b)' /\ Asked1(b)'
<1>1. Runs1(a) /\ Asked1(a) /\ Runs1(b) /\ Asked1(b) /\ TypeInv
  BY PerAgent
<1>2. /\ agent \in [Agents -> DeliveryStates(Seqs, Runs \union {NoRun, LostRun})]
      /\ agent[a] \in DeliveryStates(Seqs, Runs \union {NoRun, LostRun})
      /\ worker \in [Agents -> WorkerSet(Seqs, Runs)] /\ worker[a] \in WorkerSet(Seqs, Runs)
      /\ runs \in Seq(RunSet(Seqs)) /\ Len(runs) \in Nat
  BY <1>1, SeqsType DEF TypeInv, TypeOK
<1>3. CASE WorkerReads(a)
  <2>1. worker'[a].pc = "ending" => worker'[a].run = BlankRun
    <3>1. ~agent[a].running /\ agent[a].currentRun = NoRun
      BY <1>1, <1>3 DEF WorkerReads, Runs1
    <3> QED
      BY <1>2, <1>3, <3>1 DEF WorkerReads, WorkerSet
  <2>2. UNCHANGED <<agent, asked, runs>> /\ (b # a => UNCHANGED worker[b])
    BY <1>2, <1>3 DEF WorkerReads
  <2>3. worker[a].pc = "reading"
    BY <1>3 DEF WorkerReads
  <2>4. CASE b = a
    BY <2>1, <2>2, <2>3, <2>4, WorkerElsewhere DEF Runs
  <2>5. CASE b # a
    BY <2>2, <2>5, Untouched DEF Runs
  <2> QED
    BY <2>4, <2>5
<1>4. CASE WorkerFindsNoEvents(a)
  <2>1. agent'[a] = agent[a] /\ worker'[a] = IdleWorker /\ UNCHANGED <<asked, runs>>
    <3>1. agent[a].currentRun = NoRun /\ worker[a].run = BlankRun
      BY <1>1, <1>4 DEF WorkerFindsNoEvents, Runs1
    <3>2. CompleteRun(agent[a], worker[a].run, worker[a].low, FALSE) = agent[a]
      BY <3>1 DEF CompleteRun, OwnsRun, NoRun, BlankRun
    <3> QED
      BY <1>2, <1>4, <3>2 DEF WorkerFindsNoEvents
  <2>2. worker[a].pc = "ending" /\ (b # a => UNCHANGED <<agent[b], worker[b]>>)
    BY <1>2, <1>4 DEF WorkerFindsNoEvents
  <2>3. CASE b = a
    BY <2>1, <2>2, <2>3, WorkerElsewhere DEF IdleWorker, Runs
  <2>4. CASE b # a
    BY <2>1, <2>2, <2>4, Untouched DEF Runs
  <2> QED
    BY <2>3, <2>4
<1>5. CASE WorkerStartsRun(a)
  <2> DEFINE mark == MarkRunStarted(agent[a], Len(runs) + 1, worker[a].snapshot)
             new  == Len(runs) + 1
  <2>1. /\ runs' = Append(runs, NewRun(a)) /\ agent'[a] = mark /\ UNCHANGED asked
        /\ b # a => UNCHANGED <<agent[b], worker[b]>>
    BY <1>2, <1>5 DEF WorkerStartsRun
  <2>2. /\ Runs \subseteq Runs' /\ new \in Runs' /\ runs'[new] = NewRun(a)
        /\ \A r \in Runs : runs'[r] = runs[r]
    BY <1>2, <2>1 DEF Runs
  <2>3. CASE b # a
    BY <2>1, <2>2, <2>3, Untouched
  <2>4. CASE b = a
    <3>1. worker'[a].run = new /\ worker'[a].pc \in {"completing", "invoking"}
      BY <1>2, <1>5 DEF WorkerStartsRun, WorkerSet
    <3>2. NewRun(a).agent = a /\ NewRun(a).snapshot = worker[a].snapshot
          /\ NewRun(a).commit = "pending"
      BY DEF NewRun
    <3>3. /\ mark.running /\ mark.currentRun = new
          /\ mark.queued = KeepsQueue(agent[a], worker[a].snapshot)
          /\ KeepsQueue(agent[a], worker[a].snapshot) => mark.queuedAfter = agent[a].queuedAfter
      BY <1>2 DEF MarkRunStarted, DeliveryStates
    <3>4. Runs1(a)'
      BY <1>2, <2>1, <2>2, <3>1, <3>2, <3>3 DEF Runs1, Pending, NoRun
    <3>5. Asked1(a)'
      <4>1. CASE asked[a] = 0
        BY <2>1, <4>1 DEF Asked1
      <4>2. CASE \E r \in Runs : runs[r].agent = a /\ asked[a] <= runs[r].snapshot
        BY <2>1, <2>2, <4>2 DEF Asked1
      <4>3. CASE agent[a].queued /\ asked[a] <= agent[a].queuedAfter
        <5>1. CASE KeepsQueue(agent[a], worker[a].snapshot)
          BY <2>1, <3>3, <4>3, <5>1 DEF Asked1
        <5>2. CASE ~KeepsQueue(agent[a], worker[a].snapshot)
          <6>1. asked[a] <= worker[a].snapshot
            BY <1>1, <4>3, <5>2, NumbersType DEF KeepsQueue
          <6> QED
            BY <2>1, <2>2, <3>2, <6>1 DEF Asked1
        <5> QED
          BY <5>1, <5>2
      <4> QED
        BY <1>1, <4>1, <4>2, <4>3 DEF Asked1
    <3> QED
      BY <2>4, <3>4, <3>5
  <2> QED
    BY <2>3, <2>4
<1>6. CASE WorkerRaises(a) \/ WorkerReturns(a)
  <2>1. /\ UNCHANGED <<agent, asked, runs>> /\ (b # a => UNCHANGED worker[b])
        /\ worker'[a].pc = "completing" /\ worker'[a].run = worker[a].run
    BY <1>2, <1>6 DEF WorkerRaises, WorkerReturns, WorkerSet
  <2>2. CASE b = a
    BY <1>1, <2>1, <2>2 DEF Runs1, Asked1, Pending, Runs
  <2>3. CASE b # a
    BY <2>1, <2>3, Untouched DEF Runs
  <2> QED
    BY <2>2, <2>3
<1>7. CASE WorkerCompletesRun(a)
  <2> DEFINE delivered == worker[a].outcome \in {"skipped", "answered"}
             run  == worker[a].run
             done == CompleteRun(agent[a], run, worker[a].snapshot, delivered)
  <2>1. /\ agent'[a] = done /\ UNCHANGED asked
        /\ b # a => UNCHANGED <<agent[b], worker[b]>>
    BY <1>2, <1>7 DEF WorkerCompletesRun
  <2>2. run \in Runs /\ runs[run].agent = a /\ runs[run].snapshot = worker[a].snapshot
    BY <1>1, <1>7 DEF WorkerCompletesRun, AtWork, TypeInv, WorkersOwnRuns
  <2>3. /\ Runs \subseteq Runs'
        /\ \A r \in Runs : /\ runs'[r].agent = runs[r].agent
                           /\ runs'[r].snapshot = runs[r].snapshot
                           /\ runs'[r].commit = runs[r].commit
    <3>1. runs[run] \in RunSet(Seqs)
      BY <1>2, <2>2 DEF Runs
    <3> QED
      BY <1>2, <1>7, <2>2, <3>1 DEF WorkerCompletesRun, Runs, RunSet
  <2>4. CASE b # a
    BY <2>1, <2>3, <2>4, Untouched
  <2>5. CASE b = a
    <3>1. ~done.running /\ done.currentRun = NoRun
      BY <1>1, <1>2, <2>2 DEF CompleteRun, OwnsRun, Runs1, DeliveryStates
    <3>2. \/ UNCHANGED <<agent[a].queued, agent[a].queuedAfter>>
          \/ /\ agent'[a].queued = KeepsQueue(agent[a], worker[a].snapshot)
             /\ KeepsQueue(agent[a], worker[a].snapshot) =>
                  agent'[a].queuedAfter = agent[a].queuedAfter
      BY <1>2, <2>1 DEF CompleteRun, DeliveryStates
    <3>3. worker'[a].pc = "recording"
      BY <1>2, <1>7 DEF WorkerCompletesRun, WorkerSet
    <3>4. Runs1(a)'
      BY <2>1, <3>1, <3>3 DEF Runs1
    <3>5. Asked1(a)'
      <4>1. CASE asked[a] = 0
        BY <2>1, <4>1 DEF Asked1
      <4>2. CASE \E r \in Runs : runs[r].agent = a /\ asked[a] <= runs[r].snapshot
        BY <2>1, <2>3, <4>2 DEF Asked1
      <4>3. CASE agent[a].queued /\ asked[a] <= agent[a].queuedAfter
        <5>1. CASE agent'[a].queued /\ agent'[a].queuedAfter = agent[a].queuedAfter
          BY <2>1, <4>3, <5>1 DEF Asked1
        <5>2. CASE ~KeepsQueue(agent[a], worker[a].snapshot)
          <6>1. asked[a] <= worker[a].snapshot
            BY <1>1, <4>3, <5>2, NumbersType DEF KeepsQueue
          <6> QED
            BY <2>1, <2>2, <2>3, <6>1 DEF Asked1
        <5> QED
          BY <3>2, <4>3, <5>1, <5>2
      <4> QED
        BY <1>1, <4>1, <4>2, <4>3 DEF Asked1
    <3> QED
      BY <2>5, <3>4, <3>5
  <2> QED
    BY <2>4, <2>5
<1>8. CASE WorkerRecordsDelivery(a)
  <2> DEFINE run == worker[a].run
  <2>1. /\ run \in Runs /\ runs[run].agent = a /\ worker[a].pc = "recording"
    BY <1>1, <1>8 DEF WorkerRecordsDelivery, AtWork, TypeInv, WorkersOwnRuns
  <2>2. UNCHANGED <<agent[a], asked>> /\ (b # a => UNCHANGED <<agent[b], worker[b]>>)
    <3>1. agent[a].currentRun # run
      BY <1>1, <2>1 DEF Runs1, Runs, NoRun
    <3> QED
      BY <1>2, <1>8, <3>1 DEF WorkerRecordsDelivery, ClearRunAgentState, OwnsRun
  <2>3. /\ Runs \subseteq Runs'
        /\ \A r \in Runs : /\ runs'[r].agent = runs[r].agent
                           /\ runs'[r].snapshot = runs[r].snapshot
                           /\ r # run => runs'[r].commit = runs[r].commit
    <3>1. runs[run] \in RunSet(Seqs)
      BY <1>2, <2>1 DEF Runs
    <3>2. /\ RunAfterDelivery(runs[run], worker[a].outcome).agent = runs[run].agent
          /\ RunAfterDelivery(runs[run], worker[a].outcome).snapshot = runs[run].snapshot
      BY <3>1 DEF RunAfterDelivery, RunSet
    <3> QED
      BY <1>2, <1>8, <2>1, <3>2 DEF WorkerRecordsDelivery, Runs
  <2>4. worker'[a].pc \in {"idle", "replying"}
    BY <1>2, <1>8 DEF WorkerRecordsDelivery, IdleWorker, WorkerSet
  <2>5. CASE b = a
    BY <2>1, <2>2, <2>3, <2>4, <2>5, WorkerElsewhere
  <2>6. CASE b # a
    BY <2>1, <2>2, <2>3, <2>6, Untouched
  <2> QED
    BY <2>5, <2>6
<1>9. CASE WorkerAppendsReply(a) \/ WorkerResolvesMentions(a)
  <2>1. /\ UNCHANGED <<agent, asked, runs>> /\ (b # a => UNCHANGED worker[b])
        /\ worker[a].pc \in {"replying", "replied"}
    BY <1>2, <1>9 DEF WorkerAppendsReply, WorkerResolvesMentions
  <2>2. worker'[a].pc \in {"replied", "idle", "enqueuing"}
    BY <1>2, <1>9 DEF WorkerAppendsReply, WorkerResolvesMentions, IdleWorker, WorkerSet
  <2>3. CASE b = a
    BY <2>1, <2>2, <2>3, WorkerElsewhere DEF Runs
  <2>4. CASE b # a
    BY <2>1, <2>4, Untouched DEF Runs
  <2> QED
    BY <2>3, <2>4
<1>10. CASE WorkerEnqueues(a)
  <2>1. PICK target \in Agents : EnqueueTarget(target, worker[a].seq)
    BY <1>2, <1>10 DEF WorkerEnqueues, WorkerSet
  <2>2. worker[a].seq \in Nat
    BY <1>1, <1>2, SeqsType DEF WorkerSet
  <2>3. /\ UNCHANGED runs /\ (b # a => UNCHANGED worker[b]) /\ worker[a].pc = "enqueuing"
        /\ worker'[a].pc \in {"idle", "enqueuing"}
    <3>1. worker[a].pc = "enqueuing" /\ UNCHANGED runs /\ (b # a => UNCHANGED worker[b])
      BY <1>2, <1>10 DEF WorkerEnqueues
    <3>2. PICK to : worker' = [worker EXCEPT ![a] =
                                 IF worker[a].todo = {to}
                                   THEN IdleWorker ELSE [worker[a] EXCEPT !.todo = @ \ {to}]]
      BY <1>10 DEF WorkerEnqueues
    <3>3. CASE worker[a].todo = {to}
      BY <1>2, <3>1, <3>2, <3>3 DEF IdleWorker
    <3>4. CASE worker[a].todo # {to}
      BY <1>2, <3>1, <3>2, <3>4 DEF WorkerSet
    <3> QED
      BY <3>3, <3>4
  <2>4. /\ agent'[b].running = agent[b].running /\ agent'[b].currentRun = agent[b].currentRun
        /\ QueueChange(b)
    <3>1. agent[b] \in DeliveryStates(Seqs, Runs \union {NoRun, LostRun}) /\ asked \in [Agents -> Seqs]
      BY <1>1, <1>2 DEF TypeInv, TypeOK
    <3>2. CASE b = target
      BY <1>2, <2>1, <2>2, <3>1, <3>2 DEF EnqueueTarget, Enqueue, QueueChange, DeliveryStates
    <3>3. CASE b # target
      BY <1>2, <2>1, <3>1, <3>3 DEF EnqueueTarget, QueueChange
    <3> QED
      BY <3>2, <3>3
  <2>5. Runs1(b)'
    BY <1>1, <2>3, <2>4 DEF Runs1, Pending
  <2> QED
    BY <2>3, <2>4, <2>5, QueueChangeSafe
<1> QED
  BY <1>3, <1>4, <1>5, <1>6, <1>7, <1>8, <1>9, <1>10 DEF WorkerStep

LEMMA SafeInit == Init => IInv
<1> SUFFICES ASSUME Init PROVE IInv
  OBVIOUS
<1>1. TypeInv
  BY TypeInit
<1>2. \A a \in Agents : Runs1(a) /\ Asked1(a)
  BY DEF Init, Runs1, Asked1, NewDeliveryState, IdleWorker
<1> QED
  BY <1>1, <1>2, PerAgent

LEMMA SafeStep ==
  ASSUME ~TornWrites, IInv, [Next]_vars
  PROVE  IInv'
<1>1. TypeInv'
  BY PerAgent, TypeStep
<1>2. ASSUME NEW a \in Agents PROVE Runs1(a)' /\ Asked1(a)'
  <2>1. CASE \E d \in Drainers : DrainStartsBatch(d)
    BY <2>1, BatchSafe
  <2>2. CASE \E b \in Agents : WorkerStep(b) \/ WorkerRaises(b)
    BY <2>2, WorkerSafe
  <2>3. CASE \E b \in Agents : WorkerCallsRelationTool(b)
    BY <2>3, ReconcileSafe DEF WorkerCallsRelationTool
  <2>4. CASE Restart
    <3>1. ~TornWrites => Reconcile(agent, {})
      <4>1. SUFFICES ASSUME NEW cut \in {{}}, NEW half \in {{}},
                            Reconcile([b \in Agents |-> IF b \in cut THEN StartsUnrecorded(b)
                                                       ELSE agent[b]], half)
                     PROVE  Reconcile(agent, {})
        BY <2>4 DEF Restart, Torn
      <4>2. [b \in Agents |-> IF b \in cut THEN StartsUnrecorded(b) ELSE agent[b]] = agent
        BY PerAgent DEF TypeInv, TypeOK
      <4> QED
        BY <4>1, <4>2
    <3>2. UNCHANGED <<events, asked>> /\ worker'[a] = IdleWorker
      BY <2>4 DEF Restart
    <3> QED
      BY <3>1, <3>2, ReconcileSafe
  <2> QED
    BY <2>1, <2>2, <2>3, <2>4, ControlSafe, QueueSafe DEF Next, ClientStep, DrainStep
<1> QED
  BY <1>1, <1>2
  DEF IInv, RunningHasRun, RunningHasWorker, NoRequestLost, Runs1, Asked1

\* Unless the process dies between two commits of one operation, no path through the
\* store and the router leaves an agent marked running without a thread at work on its
\* current, pending run (mark_run_started, complete_run, record_delivery, recovery).
THEOREM RunningHasWorkerCorrect ==
  ASSUME ~TornWrites
  PROVE  Spec => []RunningHasWorker
<1>1. IInv /\ [Next]_vars => IInv'
  BY SafeStep
<1>2. IInv => RunningHasWorker
  BY DEF IInv
<1> QED
  BY <1>1, <1>2, SafeInit, PTL DEF Spec

\* Under the same proviso, every request to wake an agent stays in its queue entry until
\* a run has read the events it was made for, or a user removes the entry.
THEOREM NoRequestLostCorrect ==
  ASSUME ~TornWrites
  PROVE  Spec => []NoRequestLost
<1>1. IInv /\ [Next]_vars => IInv'
  BY SafeStep
<1>2. IInv => NoRequestLost
  BY DEF IInv
<1> QED
  BY <1>1, <1>2, SafeInit, PTL DEF Spec

----------------------------------------------------------------------------
(* An orphaned run stays orphaned.                                          *)

OrphansFailed == \A r \in Runs : runs[r].commit = "orphaned" => runs[r].status = "failed"

\* What a step does to the run records.
LEMMA RunsStep ==
  ASSUME TypeInv, Next
  PROVE  \/ UNCHANGED runs
         \/ \E a \in Agents : runs' = Append(runs, NewRun(a))
         \/ \E i \in Runs, x \in BOOLEAN : runs' = [runs EXCEPT ![i].advanced = x]
         \/ \E i \in Runs, x \in RunStatuses : runs' = [runs EXCEPT ![i] = RunAfterDelivery(@, x)]
         \/ \E states, half : Reconcile(states, half) /\ (TornWrites \/ half = {})
<1>1. CASE \E c \in Clients  : ClientAppends(c) \/ ClientDispatchesPending(c) \/ ClientStep(c)
  BY <1>1 DEF ClientAppends, ClientDispatchesPending, ClientStep, ClientEnqueues, ClientDispatches
<1>2. CASE \E d \in Drainers : DrainStep(d)
  BY <1>2 DEF DrainStep, DrainAcquires, DrainStartsBatch, DrainFindsNothing, DrainJoins, DrainReleases
<1>3. CASE \/ \E a \in Agents : StopAgent(a) \/ CancelQueuedAgent(a)
           \/ ClearPendingQueue \/ UpdateRuntimeState
  BY <1>3 DEF StopAgent, CancelQueuedAgent, ClearPendingQueue, Cancel, UpdateRuntimeState
<1>4. CASE Restart \/ \E a \in Agents : WorkerCallsRelationTool(a)
  <2>1. \A set : \A half \in Torn(set) : TornWrites \/ half = {}
    BY DEF Torn
  <2> QED
    BY <1>4, <2>1 DEF Restart, WorkerCallsRelationTool
<1>5. ASSUME NEW a \in Agents, WorkerStartsRun(a) PROVE runs' = Append(runs, NewRun(a))
  BY <1>5 DEF WorkerStartsRun
<1>6. ASSUME NEW a \in Agents, WorkerCompletesRun(a)
      PROVE  \E i \in Runs, x \in BOOLEAN : runs' = [runs EXCEPT ![i].advanced = x]
  <2> DEFINE moved == runs[worker[a].run].advanced
                        \/ agent'[a].lastDelivered > agent[a].lastDelivered
  <2>1. runs' = [runs EXCEPT ![worker[a].run].advanced = moved]
    BY <1>6, ZenonT(30) DEF WorkerCompletesRun
  <2>2. moved \in BOOLEAN
    OBVIOUS
  <2>3. worker[a].run \in Runs
    BY <1>6 DEF WorkerCompletesRun, AtWork, TypeInv, WorkersOwnRuns
  <2> HIDE DEF moved
  <2> QED
    BY <2>1, <2>2, <2>3
<1>7. ASSUME NEW a \in Agents, WorkerRecordsDelivery(a)
      PROVE  \E i \in Runs, x \in RunStatuses : runs' = [runs EXCEPT ![i] = RunAfterDelivery(@, x)]
  BY <1>7 DEF WorkerRecordsDelivery, AtWork, TypeInv, WorkersOwnRuns
<1>8. CASE \E a \in Agents : \/ WorkerReads(a) \/ WorkerFindsNoEvents(a) \/ WorkerReturns(a)
                             \/ WorkerAppendsReply(a) \/ WorkerResolvesMentions(a)
                             \/ WorkerEnqueues(a) \/ WorkerRaises(a)
  BY <1>8 DEF WorkerReads, WorkerFindsNoEvents, WorkerReturns, WorkerAppendsReply,
              WorkerResolvesMentions, WorkerEnqueues, WorkerRaises
<1> QED
  BY <1>1, <1>2, <1>3, <1>4, <1>5, <1>6, <1>7, <1>8 DEF Next, WorkerStep

LEMMA OrphanStep ==
  ASSUME TypeInv, OrphansFailed, [Next]_vars
  PROVE  /\ OrphansFailed'
         /\ \A r \in Runs : runs[r].commit = "orphaned" =>
              runs'[r].commit = "orphaned" /\ runs'[r].status = "failed"
<1>1. Len(runs) \in Nat /\ runs \in Seq(RunSet(Seqs)) /\ \A r \in Runs : runs[r] \in RunSet(Seqs)
  BY SeqsType DEF Runs, TypeInv, TypeOK
<1>2. CASE UNCHANGED runs
  BY <1>2 DEF OrphansFailed, Runs
<1>3. ASSUME NEW a \in Agents, runs' = Append(runs, NewRun(a))
      PROVE  /\ OrphansFailed'
             /\ \A r \in Runs : runs[r].commit = "orphaned" =>
                  runs'[r].commit = "orphaned" /\ runs'[r].status = "failed"
  <2>1. Runs' = Runs \union {Len(runs) + 1}
    BY <1>1, <1>3 DEF Runs
  <2>2. \A r \in Runs : runs'[r] = runs[r]
    BY <1>1, <1>3 DEF Runs
  <2>3. runs'[Len(runs) + 1].commit # "orphaned"
    BY <1>1, <1>3 DEF NewRun
  <2> QED
    BY <2>1, <2>2, <2>3 DEF OrphansFailed
<1>4. ASSUME NEW i \in Runs, NEW run, runs' = [runs EXCEPT ![i] = run],
             run.commit = "orphaned" => runs[i].commit = "orphaned" /\ run.status = runs[i].status,
             runs[i].commit = "orphaned" => run.commit = "orphaned"
      PROVE  /\ OrphansFailed'
             /\ \A r \in Runs : runs[r].commit = "orphaned" =>
                  runs'[r].commit = "orphaned" /\ runs'[r].status = "failed"
  <2>1. Runs' = Runs
    BY <1>1, <1>4 DEF Runs
  <2>2. \A r \in Runs : runs'[r] = IF r = i THEN run ELSE runs[r]
    BY <1>1, <1>4 DEF Runs
  <2> QED
    BY <1>4, <2>1, <2>2 DEF OrphansFailed
<1>5. ASSUME NEW i \in Runs, NEW x \in BOOLEAN, runs' = [runs EXCEPT ![i].advanced = x]
      PROVE  /\ OrphansFailed'
             /\ \A r \in Runs : runs[r].commit = "orphaned" =>
                  runs'[r].commit = "orphaned" /\ runs'[r].status = "failed"
  <2> DEFINE run == [runs[i] EXCEPT !.advanced = x]
  <2>1. run.commit = runs[i].commit /\ run.status = runs[i].status
    BY <1>1 DEF RunSet
  <2>2. runs' = [runs EXCEPT ![i] = run]
    BY <1>5
  <2> HIDE DEF run
  <2> QED
    BY <1>4, <2>1, <2>2
<1>6. ASSUME NEW i \in Runs, NEW x \in RunStatuses, runs' = [runs EXCEPT ![i] = RunAfterDelivery(@, x)]
      PROVE  /\ OrphansFailed'
             /\ \A r \in Runs : runs[r].commit = "orphaned" =>
                  runs'[r].commit = "orphaned" /\ runs'[r].status = "failed"
  <2> DEFINE run == RunAfterDelivery(runs[i], x)
  <2>1. /\ runs[i].commit = "orphaned" => run.commit = "orphaned" /\ run.status = runs[i].status
        /\ runs[i].commit # "orphaned" => run.commit = "committed"
    BY <1>1 DEF RunAfterDelivery, RunSet
  <2>2. runs' = [runs EXCEPT ![i] = run]
    BY <1>6
  <2> HIDE DEF run
  <2> QED
    BY <1>4, <2>1, <2>2
<1>7. ASSUME NEW states, NEW half, Reconcile(states, half)
      PROVE  /\ OrphansFailed'
             /\ \A r \in Runs : runs[r].commit = "orphaned" =>
                  runs'[r].commit = "orphaned" /\ runs'[r].status = "failed"
  <2>1. Runs' = Runs
    <3> DEFINE record(r) == IF Pending(r)
                              THEN [runs[r] EXCEPT !.status = "failed", !.commit = "orphaned",
                                                   !.deliveries = IF r \in half THEN @
                                                                  ELSE @ \union {"failed"}]
                              ELSE runs[r]
    <3>1. runs' = [r \in 1 .. Len(runs) |-> record(r)]
      BY <1>7 DEF Reconcile, Runs
    <3> HIDE DEF record
    <3>2. Len(runs') = Len(runs)
      BY <1>1, <3>1
    <3> QED
      BY <3>2 DEF Runs
  <2>2. ASSUME NEW r \in Runs
        PROVE  IF Pending(r) THEN runs'[r].commit = "orphaned" /\ runs'[r].status = "failed"
                             ELSE runs'[r] = runs[r]
    <3>1. runs[r] \in RunSet(Seqs)
      BY <1>1
    <3>2. CASE ~Pending(r)
      BY <1>7, <3>2 DEF Reconcile
    <3>3. CASE Pending(r)
      <4>1. runs'[r] = [runs[r] EXCEPT !.status = "failed", !.commit = "orphaned",
                                       !.deliveries = IF r \in half THEN @
                                                      ELSE @ \union {"failed"}]
        BY <1>7, <3>3 DEF Reconcile
      <4> QED
        BY <3>1, <3>3, <4>1 DEF RunSet
    <3> QED
      BY <3>2, <3>3
  <2> QED
    BY <2>1, <2>2 DEF OrphansFailed, Pending
<1> QED
  BY <1>2, <1>3, <1>5, <1>6, <1>7, RunsStep DEF vars

\* What recovery has given up, no late result of a worker settles again
\* (_complete_run_record_from_delivery), whatever the crashes and the live recoveries.
THEOREM OrphanIsFinalCorrect == Spec => OrphanIsFinal
<1>1. Init => OrphansFailed
  BY DEF Init, OrphansFailed, Runs
<1>2. TypeInv /\ OrphansFailed /\ [Next]_vars => OrphansFailed'
  BY OrphanStep
<1>3. TypeInv /\ OrphansFailed /\ [Next]_vars =>
        [\A r \in Runs : runs[r].commit = "orphaned" =>
           runs'[r].commit = "orphaned" /\ runs'[r].status = "failed"]_vars
  BY OrphanStep
<1> QED
  BY <1>1, <1>2, <1>3, TypeInit, TypeStep, PTL DEF Spec, OrphanIsFinal
============================================================================
