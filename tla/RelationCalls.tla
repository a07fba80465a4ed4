----------------------------- MODULE RelationCalls -----------------------------
(***************************************************************************)
(* Agents that call related agents.  The model of a run asks for relation  *)
(* tools; each RelationTool.run takes a thread of the loop's executor,     *)
(* opens a ConversationStore to find the thread of the child, waits for    *)
(* the lock of the logical thread, records an edge and runs the graph of   *)
(* the child, whose model may ask for relation tools of its own.  Every    *)
(* call of a model is an attempt that a callback of the run records.       *)
(*                                                                         *)
(* Opening a store recovers what a crash left: it takes the pending runs   *)
(* of the conversation for interrupted ones, also those that are running.  *)
(***************************************************************************)
EXTENDS Naturals, FiniteSets, Sequences

CONSTANTS
  Runs,         \* runs of agents of one conversation and branch
  Calls,        \* calls of relation tools
  Caller,       \* the run or call whose model asks for a call
  RelationOf,   \* the relation of a call
  AgentOf,      \* the agent of a run
  MaxAttempts,  \* max_attempts of the ModelReliabilityPolicy
  PoolSize,     \* threads of the executor of the checkpointer's loop
  CallLimits    \* bounds: the runs and calls made, errors of models, restarts

Invocations == Runs \union Calls

Nobody == "nobody"  \* holds no lock

\* A call belongs to the run of its caller.
RunOfCallers(run) ==
  /\ \A r \in Runs : run[r] = r
  /\ \A c \in Calls : run[c] = run[Caller[c]]

ASSUME CallsAssumption ==
  /\ Runs \intersect Calls = {}
  /\ Nobody \notin Calls
  /\ Caller \in [Calls -> Invocations]
  /\ DOMAIN AgentOf = Runs /\ DOMAIN RelationOf = Calls
  /\ MaxAttempts \in Nat \ {0} /\ PoolSize \in Nat \ {0}
  /\ \E run \in [Invocations -> Runs] : RunOfCallers(run)
  /\ CallLimits \subseteq [runs : SUBSET Runs, calls : SUBSET Calls, errors : Nat, restarts : Nat]

VARIABLES
  at,        \* where an invocation of a graph is
  tries,     \* attempts of the model call an invocation is in
  attempts,  \* team_conversation_model_attempts, by invocation
  count,     \* _attempt_count of the callback of a run
  commit,    \* commit_state of a run
  delivered, \* whether a run has a delivery
  edges,     \* tool_call_edges: the status of a call
  holder,    \* _LOGICAL_THREAD_LOCKS: the call that holds the lock of a key
  listed,    \* the attempts the recovery of a call found running
  raced,     \* history: attempts that ended while a recovery had them listed
  outlived,  \* history: the runs settled while something of them still ran
  remains    \* what is left of the bounds

callVars ==
  <<at, tries, attempts, count, commit, delivered, edges, holder, listed, raced, outlived, remains>>

\* The run of a call, and its logical thread key: one agent or relation per level.
Top == CHOOSE run \in [Invocations -> Runs] : RunOfCallers(run)

Key[i \in Invocations] ==
  IF i \in Runs THEN <<AgentOf[i]>> ELSE Append(Key[Caller[i]], RelationOf[i])

CallsInit ==
  /\ at        = [i \in Invocations |-> "idle"]
  /\ tries     = [i \in Invocations |-> 0]
  /\ attempts  = [i \in Invocations |-> <<>>]
  /\ count     = [r \in Runs |-> 0]
  /\ commit    = [r \in Runs |-> "none"]
  /\ delivered = [r \in Runs |-> FALSE]
  /\ edges     = [c \in Calls |-> "none"]
  /\ holder    = [k \in {Key[c] : c \in Calls} |-> Nobody]
  /\ listed    = [c \in Calls |-> {}]
  /\ raced = {} /\ outlived = {}
  /\ remains \in CallLimits

Moves(i, to) == at' = [at EXCEPT ![i] = to]

----------------------------------------------------------------------------
(* Model attempts: ReliableChatModel and ModelAttemptCallbackHandler.       *)

\* mark_run_started, and the graph of the agent begins, or cannot be built.  The router
\* runs an agent again when its run was settled.
StartRun(r, to) ==
  /\ at[r] = "idle" /\ r \in remains.runs
  /\ \A q \in Runs : AgentOf[q] = AgentOf[r] => commit[q] # "pending"
  /\ Moves(r, to)
  /\ commit' = [commit EXCEPT ![r] = "pending"]
  /\ UNCHANGED <<tries, attempts, count, delivered, edges, holder, listed, raced, outlived, remains>>

\* record_model_attempt_started.
Attempted(i) ==
  Append(attempts[i], [number |-> count[Top[i]] + 1, status |-> "running", outcome |-> "none"])

\* on_chat_model_start: the number counts the attempts of the whole run.
StartAttempt(i) ==
  /\ at[i] = "thinking"
  /\ Moves(i, "attempting")
  /\ tries' = [tries EXCEPT ![i] = @ + 1]
  /\ count' = [count EXCEPT ![Top[i]] = @ + 1]
  /\ attempts' = [attempts EXCEPT ![i] = Attempted(i)]
  /\ UNCHANGED <<commit, delivered, edges, holder, listed, raced, outlived, remains>>

Current(i) == <<i, Len(attempts[i])>>

\* Mutation of Recorded: what recovery failed stays failed.
RecordedIfRunning(old, status) == IF old = "running" THEN status ELSE old

\* record_model_attempt_finished: the status, whatever it was.
Recorded(old, status) == status

Finish(i, status) ==
  /\ attempts' = [attempts EXCEPT ![i][Len(attempts[i])] =
       [@ EXCEPT !.status = Recorded(@, status), !.outcome = status]]
  /\ raced' = IF \E c \in Calls : Current(i) \in listed[c] THEN raced \union {Current(i)} ELSE raced

CallsOf(i) == {c \in Calls : Caller[c] = i}

\* on_llm_end, and the answer is the last, or asks for relation tools.
AttemptAnswers(i) ==
  /\ at[i] = "attempting"
  /\ Finish(i, "success")
  /\ tries' = [tries EXCEPT ![i] = 0]
  /\ \/ Moves(i, "answered")
     \/ \E asked \in SUBSET {c \in CallsOf(i) \intersect remains.calls : at[c] = "idle"} :
          /\ asked # {}
          /\ at' = [j \in Invocations |->
                      IF j = i THEN "tools" ELSE IF j \in asked THEN "asked" ELSE at[j]]
  /\ UNCHANGED <<count, commit, delivered, edges, holder, listed, outlived, remains>>

\* Errors of providers: classify_model_exception takes the first two for retryable, and
\* with_retry retries the first.
Errors == {"connection", "unavailable", "rejected"}

Retryable(error) == error \in {"connection", "unavailable"}
Retried(error)   == error \in {"connection"}

\* Mutation of TriesLeft: with_retry tries once too often.
TriesLeftOffByOne(i) == tries[i] <= MaxAttempts

\* stop_after_attempt = max_attempts.
TriesLeft(i) == tries[i] < MaxAttempts

\* on_llm_error, and what with_retry does then.
AttemptFails(i, error) ==
  /\ at[i] = "attempting" /\ remains.errors > 0
  /\ remains' = [remains EXCEPT !.errors = @ - 1]
  /\ Finish(i, IF Retryable(error) /\ attempts[i][Len(attempts[i])].number < MaxAttempts
                 THEN "retrying" ELSE "failed")
  /\ Moves(i, IF Retried(error) /\ TriesLeft(i) THEN "thinking" ELSE "raised")
  /\ UNCHANGED <<tries, count, commit, delivered, edges, holder, listed, outlived>>

----------------------------------------------------------------------------
(* Recovery: reconcile_incomplete_commits.                                  *)

\* _latest_delivery_for_run is not None.
HasDelivery(r) == delivered[r]

Interrupted == {r \in Runs : commit[r] = "pending" /\ ~HasDelivery(r)}

\* Pending runs: finalized from their delivery, or given up with a failed one.
RunsReconciled ==
  /\ commit' = [r \in Runs |->
       IF commit[r] # "pending" THEN commit[r]
       ELSE IF HasDelivery(r) THEN "committed" ELSE "orphaned"]
  /\ delivered' = [r \in Runs |-> delivered[r] \/ r \in Interrupted]

\* _fail_running_model_attempts_for_run lists the attempts first.
RunningAttempts(runs) ==
  UNION {{<<i, n>> : n \in {m \in DOMAIN attempts[i] : attempts[i][m].status = "running"}} :
           i \in {j \in Invocations : Top[j] \in runs}}

\* Mutation of FailedAttempts: they stay as they are.
KeptAttempts(these) == attempts

FailedAttempts(these) ==
  [i \in Invocations |-> [n \in DOMAIN attempts[i] |->
     IF <<i, n>> \in these THEN [attempts[i][n] EXCEPT !.status = "failed"] ELSE attempts[i][n]]]

\* The running edges of the runs given up, now or before.
EdgesFailed(runs) ==
  edges' = [c \in Calls |-> IF edges[c] = "running" /\ Top[c] \in runs THEN "failed" ELSE edges[c]]

----------------------------------------------------------------------------
(* RelationTool.run.                                                        *)

InThread == {"recovering", "waiting", "thinking", "attempting", "tools", "answered", "raised"}

ThreadsUsed == {c \in Calls : at[c] \in InThread}

\* BranchThreadResolver opens a store, which reads what is to be recovered.
Resolve(c) ==
  /\ at[c] = "asked"
  /\ Cardinality(ThreadsUsed) < PoolSize
  /\ Moves(c, "recovering")
  /\ RunsReconciled
  /\ listed' = [listed EXCEPT ![c] = RunningAttempts(Interrupted)]
  /\ outlived'  = outlived \union Interrupted
  /\ UNCHANGED <<tries, attempts, count, edges, holder, raced, remains>>

\* The store writes; then the call waits for its lock.
Recover(c) ==
  /\ at[c] = "recovering"
  /\ Moves(c, "waiting")
  /\ attempts' = FailedAttempts(listed[c])
  /\ EdgesFailed({r \in Runs : commit[r] = "orphaned"})
  /\ listed' = [listed EXCEPT ![c] = {}]
  /\ UNCHANGED <<tries, count, commit, delivered, holder, raced, outlived, remains>>

\* A call whose graph cannot be built, before the lock and the edge.
RaisesAtOnce(c) ==
  /\ at[c] = "asked"
  /\ Cardinality(ThreadsUsed) < PoolSize
  /\ Moves(c, "failed")
  /\ UNCHANGED <<tries, attempts, count, commit, delivered, edges, holder, listed, raced, outlived, remains>>

\* Mutation of Blocked: each caller has a lock of its own.
BlockedByOwn(c) == holder[Key[c]] # Nobody /\ Caller[holder[Key[c]]] = Caller[c]

\* _logical_thread_lock: the key of the child in the branch.
Blocked(c) == holder[Key[c]] # Nobody

\* ToolCallEdgeRecorder: record_started and record_finished.
EdgeStarted(c)          == [edges EXCEPT ![c] = "running"]
EdgeFinished(c, status) == [edges EXCEPT ![c] = status]

\* The edge is recorded, and the graph of the child begins.
Enter(c) ==
  /\ at[c] = "waiting" /\ ~Blocked(c)
  /\ Moves(c, "thinking")
  /\ holder' = [holder EXCEPT ![Key[c]] = c]
  /\ edges'  = EdgeStarted(c)
  /\ UNCHANGED <<tries, attempts, count, commit, delivered, listed, raced, outlived, remains>>

\* Mutation of Released: a lock that is held when the call fails stays held.
ReleasedOnSuccess(c) ==
  IF at[c] = "answered" THEN [holder EXCEPT ![Key[c]] = Nobody] ELSE holder

Released(c) == [holder EXCEPT ![Key[c]] = Nobody]

\* The edge is finished, and the lock and the thread are given back.
Return(c) ==
  /\ at[c] \in {"answered", "raised"}
  /\ Moves(c, IF at[c] = "answered" THEN "returned" ELSE "failed")
  /\ edges'  = EdgeFinished(c, IF at[c] = "answered" THEN "success" ELSE "failed")
  /\ holder' = Released(c)
  /\ UNCHANGED <<tries, attempts, count, commit, delivered, listed, raced, outlived, remains>>

\* The tool node of an invocation: it goes on when all calls returned; it raises when one
\* failed, gives up the calls no thread has begun, and does not wait for the others.
ToolsEnd(i) ==
  /\ at[i] = "tools"
  /\ \/ /\ \A c \in CallsOf(i) : at[c] \in {"idle", "returned"}
        /\ Moves(i, "thinking")
     \/ /\ \E c \in CallsOf(i) : at[c] = "failed"
        /\ at' = [j \in Invocations |->
                    IF j = i THEN "raised"
                    ELSE IF j \in CallsOf(i) /\ at[j] = "asked" THEN "dropped" ELSE at[j]]
  /\ UNCHANGED <<tries, attempts, count, commit, delivered, edges, holder, listed, raced, outlived, remains>>

\* record_delivery of a run: a run given up stays given up.
EndRun(r) ==
  /\ at[r] \in {"answered", "raised"}
  /\ Moves(r, IF at[r] = "answered" THEN "returned" ELSE "failed")
  /\ commit' = [commit EXCEPT ![r] = IF @ = "orphaned" THEN @ ELSE "committed"]
  /\ delivered' = [delivered EXCEPT ![r] = TRUE]
  /\ outlived' = IF \E c \in ThreadsUsed : Top[c] = r THEN outlived \union {r} ELSE outlived
  /\ UNCHANGED <<tries, attempts, count, edges, holder, listed, raced, remains>>

Over == {"idle", "returned", "failed", "dropped", "lost"}

\* The process dies.
CallsCrash ==
  /\ remains.restarts > 0
  /\ remains' = [remains EXCEPT !.restarts = @ - 1]
  /\ at' = [i \in Invocations |-> IF at[i] \in Over THEN at[i] ELSE "lost"]
  /\ holder' = [k \in DOMAIN holder |-> Nobody]
  /\ listed' = [c \in Calls |-> {}]
  /\ UNCHANGED <<tries, attempts, count, commit, delivered, edges, raced, outlived>>

\* The loop of the checkpointer is stopped when no run is left; a call that a failed run
\* did not wait for never ends, and its thread keeps the lock, which is the process's.
\* (Between two places of a call that ends or begins, the loop is not stopped here.)
CallsClosed ==
  /\ \A r \in Runs : at[r] \in Over
  /\ \A c \in Calls : at[c] \notin {"recovering", "answered", "raised"}
  /\ at' = [i \in Invocations |->
              CASE at[i] \in {"thinking", "attempting", "tools"} -> "stuck"
                [] at[i] \in {"asked", "waiting"} -> "dropped"
                [] OTHER -> at[i]]
  /\ UNCHANGED <<tries, attempts, count, commit, delivered, edges, holder, listed, raced, outlived,
                 remains>>

\* The conversation's store is opened, by the process that uses it alone.
CallsRecovered ==
  /\ RunsReconciled
  /\ attempts' = FailedAttempts(RunningAttempts(Interrupted))
  /\ EdgesFailed(Interrupted \union {r \in Runs : commit[r] = "orphaned"})
  /\ UNCHANGED <<at, tries, count, holder, listed, raced, outlived, remains>>

\* What the thread or the coroutine of an invocation does next.
Works(i) ==
  \/ StartAttempt(i) \/ AttemptAnswers(i) \/ ToolsEnd(i)
  \/ \E error \in Errors : AttemptFails(i, error)
  \/ i \in Runs /\ EndRun(i)
  \/ i \in Calls /\ (Recover(i) \/ Enter(i) \/ Return(i))

----------------------------------------------------------------------------
(* Properties.                                                              *)

Places == InThread \union Over \union {"asked", "stuck"}

\* The types of the variables.
CallsTypeOK ==
  /\ at \in [Invocations -> Places]
  /\ tries \in [Invocations -> 0 .. MaxAttempts]
  /\ \A i \in Invocations : \A n \in DOMAIN attempts[i] :
       attempts[i][n] \in [number : Nat \ {0}, status : {"running", "success", "retrying", "failed"},
                           outcome : {"none", "success", "retrying", "failed"}]
  /\ count \in [Runs -> Nat]
  /\ commit \in [Runs -> {"none", "pending", "committed", "orphaned"}]
  /\ delivered \in [Runs -> BOOLEAN]
  /\ edges \in [Calls -> {"none", "running", "success", "failed"}]
  /\ holder \in [{Key[c] : c \in Calls} -> Calls \union {Nobody}]
  /\ \A c \in Calls : listed[c] # {} => at[c] = "recovering"

Inside(c) == at[c] \in {"thinking", "attempting", "tools", "answered", "raised"}

\* Calls of one relation from one logical thread run the child one at a time, also when
\* they come from one turn of a model, or from two runs of an agent
\* (docs/studio-branching-agent-history.md:513): its thread is one sequence of checkpoints.
OneChildAtATime ==
  \A c, d \in Calls : Inside(c) /\ Inside(d) /\ Key[c] = Key[d] => c = d

\* What an attempt or a call ended with is what the tables say, although a recovery took
\* its run for interrupted while it ran; an attempt that ended between the reading and the
\* writing of a recovery is the exception.
OutcomesSurviveRecovery ==
  /\ \A i \in Invocations : \A n \in DOMAIN attempts[i] :
       attempts[i][n].outcome # "none" /\ <<i, n>> \notin raced =>
         attempts[i][n].status = attempts[i][n].outcome
  /\ \A c \in Calls : at[c] = "returned" => edges[c] = "success"
  /\ \A c \in Calls : edges[c] # "none" /\ at[c] = "failed" => edges[c] = "failed"

\* An attempt shown as running is running, or its run was settled before it ended: those a
\* crash cut are failed when the conversation is opened again
\* (docs/model-reliability-policy.md:309).
RecoveryFailsAttempts ==
  \A i \in Invocations : \A n \in DOMAIN attempts[i] :
    attempts[i][n].status = "running" =>
      \/ at[i] = "attempting"
      \/ Top[i] \in outlived
      \/ at[i] = "lost" /\ commit[Top[i]] = "pending"

Pending(c) == at[c] \in InThread \union {"asked"}

LockLeft == \E k \in DOMAIN holder : holder[k] # Nobody /\ at[holder[k]] = "stuck"

\* Calls end, and so does the work they ask for: again and again none is under way, when
\* the executor has a thread for each and no closed team of the process left a lock behind.
RelationCallsEnd == []<>((\A c \in Calls : ~Pending(c)) \/ LockLeft)
=============================================================================
