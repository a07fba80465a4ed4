--------------------------- MODULE RouterDelivery ---------------------------
(***************************************************************************)
(* MentionRouter implements MentionDelivery: the runs that moved a cursor  *)
(* are the turns, and the replies in the transcript their answers.         *)
(***************************************************************************)
EXTENDS MentionRouter

\* What a run gave its agent to read.
TurnOf(r) == [agent |-> runs[r].agent, after |-> runs[r].low, upTo |-> runs[r].snapshot]

TurnsTaken == {TurnOf(r) : r \in {q \in Runs : runs[q].advanced}}

TurnsAnswered ==
  {TurnOf(events[i].run) : i \in {j \in 1 .. Len(events) : events[j].run # NoRun}}

Delivery == INSTANCE MentionDelivery WITH
  Participants <- Agents \union {Human},
  Listeners    <- Agents,
  transcript   <- [i \in 1 .. Len(events) |-> events[i].author],
  cursor       <- [a \in Agents |-> agent[a].lastDelivered],
  turns        <- TurnsTaken,
  answered     <- TurnsAnswered

\* Whatever the router, its workers, users and restarts do, agents take turns as the
\* conversation promises: every move of a cursor is one turn of the messages that follow it,
\* and every reply answers a turn nothing has answered (router.py, complete_run).
ImplementsDelivery == Delivery!Spec
=============================================================================
