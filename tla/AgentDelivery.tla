--------------------------- MODULE AgentDelivery ---------------------------
(***************************************************************************)
(* The delivery state one agent has in a conversation branch, and what the *)
(* operations of ConversationStore make of it.                             *)
(*                                                                         *)
(* Each operation of the store that touches this record runs under the     *)
(* store's lock and ends in one save, so it is one function from the old   *)
(* record to the new one.  The identity/token bookkeeping of the record is *)
(* not modelled: nothing below reads it.  current_snapshot_seq is written  *)
(* by these operations and read by none of them.                           *)
(***************************************************************************)
EXTENDS Integers

NoSeq    == 0     \* queued_after_seq is None
NoRun    == 0     \* current_run_id is None
BlankRun == -1    \* the empty string the router passes for "no run"
LostRun  == -2    \* a run whose record was never written

DeliveryStates(Seqs, Runs) ==
  [lastDelivered : Seqs,  running    : BOOLEAN,  queued        : BOOLEAN,
   queuedAfter   : Seqs,  currentRun : Runs,     stopRequested : BOOLEAN]

NewDeliveryState ==
  [lastDelivered |-> 0,      running    |-> FALSE,  queued        |-> FALSE,
   queuedAfter   |-> NoSeq,  currentRun |-> NoRun,  stopRequested |-> FALSE]

Later(s, t) == IF s > t THEN s ELSE t

----------------------------------------------------------------------------

\* Mutation of Enqueue: an off-by-one on the sequence number.
EnqueueAfterNext(s, seq) ==
  [s EXCEPT !.queued = TRUE, !.queuedAfter = Later(seq + 1, @)]

\* enqueue: mentions that arrive together collapse into one queued run.
Enqueue(s, seq) ==
  [s EXCEPT !.queued = TRUE, !.queuedAfter = Later(seq, @)]

\* cancel_queued: a running agent is left alone.
CancelQueued(s) ==
  IF s.running
    THEN s
    ELSE [s EXCEPT !.queued = FALSE, !.queuedAfter = NoSeq, !.stopRequested = FALSE]

\* What pending_idle_agent_ids selects on.
PendingIdle(s) == s.queued /\ ~s.running /\ ~s.stopRequested

\* Mutation of KeepsQueue: the queue entry goes whatever it asks for.
DropsQueue(s, snapshot) == FALSE

\* Mutation of KeepsQueue: off by one, a run does not answer for its last event.
KeepsQueueOfSnapshot(s, snapshot) == s.queued /\ s.queuedAfter >= snapshot

\* A queue entry survives a run only when it asks for events past its snapshot.
KeepsQueue(s, snapshot) == s.queued /\ s.queuedAfter > snapshot

\* mark_run_started.
MarkRunStarted(s, run, snapshot) ==
  [s EXCEPT !.running       = TRUE,
            !.queued        = KeepsQueue(s, snapshot),
            !.queuedAfter   = IF KeepsQueue(s, snapshot) THEN @ ELSE NoSeq,
            !.currentRun    = run,
            !.stopRequested = FALSE]

\* The value complete_run returns.
OwnsRun(s, run) == s.currentRun = run

\* Mutation of CompleteRun: a stopped or failed run moves the cursor too.
CompleteRunAlways(s, run, snapshot, delivered) ==
  IF ~OwnsRun(s, run)
    THEN s
    ELSE [s EXCEPT !.lastDelivered = Later(snapshot, @), !.running = FALSE,
                   !.queued = KeepsQueue(s, snapshot),
                   !.queuedAfter = IF KeepsQueue(s, snapshot) THEN @ ELSE NoSeq,
                   !.currentRun = NoRun, !.stopRequested = FALSE]

\* complete_run: nothing changes for a run that is no longer the current one.
CompleteRun(s, run, snapshot, delivered) ==
  IF ~OwnsRun(s, run)
    THEN s
    ELSE [s EXCEPT !.lastDelivered = IF delivered THEN Later(snapshot, @) ELSE @,
                   !.running       = FALSE,
                   !.queued        = KeepsQueue(s, snapshot),
                   !.queuedAfter   = IF KeepsQueue(s, snapshot) THEN @ ELSE NoSeq,
                   !.currentRun    = NoRun,
                   !.stopRequested = FALSE]

\* request_stop: also when the agent is not running.
RequestStop(s) == [s EXCEPT !.stopRequested = TRUE]

\* _orphan_run, on the agent that still holds the run: the queue entry stays.
ReleaseRun(s, run) ==
  IF ~OwnsRun(s, run)
    THEN s
    ELSE [s EXCEPT !.running = FALSE, !.currentRun = NoRun, !.stopRequested = FALSE]

\* _clear_run_agent_state, after a delivery with this status was recorded.
ClearRunAgentState(s, run, snapshot, status) ==
  IF ~OwnsRun(s, run)
    THEN s
    ELSE [s EXCEPT !.lastDelivered = IF status \in {"empty", "skipped", "success"}
                                       THEN Later(snapshot, @) ELSE @,
                   !.running       = FALSE,
                   !.currentRun    = NoRun,
                   !.stopRequested = FALSE]
============================================================================
