---------------------------- MODULE StudioSession ----------------------------
(***************************************************************************)
(* The conversations a Studio process has open.  A conversation is a       *)
(* MentionAwareTeam object, which has a store, a router and a dispatch     *)
(* lock of its own; activating and switching make objects, nothing closes  *)
(* them, and their threads work on when another conversation is active.    *)
(* All of them write to one sqlite file.                                   *)
(*                                                                         *)
(* A conversation has one agent here; what its router does in detail is    *)
(* modelled in MentionRouter, and an invocation does not fail.             *)
(***************************************************************************)
EXTENDS AgentDelivery, Sequences

CONSTANTS
  Teams,          \* the ids of the discovered teams
  Conversations,  \* the ids of conversations
  TeamOf,         \* the team of a conversation
  Base,           \* the conversation opened with a team: its id is the team's
  Messages,       \* the client_message_id of messages
  SessionLimits   \* bounds: objects, messages and restarts

Nothing == "nothing"  \* no client_message_id

ASSUME SessionAssumption ==
  /\ TeamOf \in [Conversations -> Teams]
  /\ Base \in [Teams -> Conversations]
  /\ \A t \in Teams : TeamOf[Base[t]] = t
  /\ Nothing \notin Messages
  /\ SessionLimits \subseteq [objects : Nat, events : Nat, restarts : Nat]

VARIABLES
  teams,       \* _instances: the object a team was instantiated with
  objects,     \* the MentionAwareTeam objects of the process
  active,      \* the object of the active StudioApiController
  transcript,  \* team_conversation_events: [message, run]
  delivery,    \* the agent's delivery state
  records,     \* the run records
  disturbed,   \* history: the conversations opened twice in a process, or cut at work
  restarts     \* how often the process has restarted, and the bounds

sessionVars == <<teams, objects, active, transcript, delivery, records, disturbed, restarts>>

NoObject == 0

\* A thread of the object is in a drain, and where it is in _run_agent.
NewObject(c) == [conversation |-> c, draining |-> FALSE, pc |-> "idle", run |-> NoRun,
                 low |-> 0, snapshot |-> 0, seq |-> 0]

SessionInit ==
  /\ teams      = [t \in Teams |-> NoObject]
  /\ objects    = <<>>
  /\ active     = NoObject
  /\ transcript = [c \in Conversations |-> <<>>]
  /\ delivery   = [c \in Conversations |-> NewDeliveryState]
  /\ records    = [c \in Conversations |-> <<>>]
  /\ disturbed  = {}
  /\ \E limit \in SessionLimits : restarts = [count |-> 0, limit |-> limit]

Objects == 1 .. Len(objects)

Busy(c) == \E o \in Objects : objects[o].conversation = c /\ objects[o].pc # "idle"

----------------------------------------------------------------------------
(* Opening a conversation.                                                  *)

Pending(c, r) == r \in 1 .. Len(records[c]) /\ records[c][r].commit = "pending"

\* Mutation of Reconciles: the runs of every conversation of the team are given up.
ReconcilesTeam(opened, c) == \E d \in opened : TeamOf[d] = TeamOf[c]

\* The conversations whose runs the stores opened give up.
Reconciles(opened, c) == c \in opened

\* reconcile_incomplete_commits of the stores of the conversations opened.
Reconcile(opened) ==
  /\ records' = [c \in Conversations |-> [r \in 1 .. Len(records[c]) |->
                   IF Reconciles(opened, c) /\ Pending(c, r)
                     THEN [records[c][r] EXCEPT !.commit = "orphaned"] ELSE records[c][r]]]
  /\ disturbed' = disturbed \union
       {c \in opened : \E o \in Objects : objects[o].conversation = c}

\* The agent of a conversation opened: _orphan_run releases it.
Released(opened, c) ==
  IF Reconciles(opened, c) /\ Pending(c, delivery[c].currentRun)
    THEN ReleaseRun(delivery[c], delivery[c].currentRun) ELSE delivery[c]

\* _instance_for and conversation_for: the team's own object comes with its instance, and
\* another conversation gets a new object each time.
Opens(c) ==
  LET base == IF teams[TeamOf[c]] = NoObject THEN <<Base[TeamOf[c]]>> ELSE <<>>
  IN IF c = Base[TeamOf[c]] THEN base ELSE Append(base, c)

\* _activate_team: the conversation is opened, and its pending agents dispatched.
Activates(c) ==
  LET t   == TeamOf[c]
      new == [i \in 1 .. Len(Opens(c)) |-> NewObject(Opens(c)[i])]
      at  == IF Opens(c) = <<>> THEN teams[t] ELSE Len(objects) + Len(new)
  IN /\ Len(objects) + Len(new) <= restarts.limit.objects
     /\ objects' = [objects \o new EXCEPT ![at].draining = TRUE]
     /\ teams'   = [teams EXCEPT ![t] = IF @ = NoObject THEN Len(objects) + 1 ELSE @]
     /\ active'  = at
     /\ Reconcile({Opens(c)[i] : i \in 1 .. Len(Opens(c))})
     /\ UNCHANGED restarts

OpenedBy(c) == {Opens(c)[i] : i \in 1 .. Len(Opens(c))}

\* switch_conversation with a team.
ActivateTeam(c) ==
  /\ Activates(c)
  /\ delivery' = [d \in Conversations |-> Released(OpenedBy(c), d)]
  /\ UNCHANGED transcript

\* create_conversation: a generated id, and its first message.
CreateConversation(c, message) ==
  /\ c # Base[TeamOf[c]]
  /\ transcript[c] = <<>>
  /\ \A o \in Objects : objects[o].conversation # c
  /\ restarts.limit.events > 0
  /\ Activates(c)
  /\ transcript' = [transcript EXCEPT ![c] = <<[message |-> message, run |-> NoRun]>>]
  /\ \E addressed \in BOOLEAN :
       delivery' = [d \in Conversations |->
                      IF d = c THEN IF addressed THEN Enqueue(delivery[c], 1) ELSE delivery[c]
                      ELSE Released(OpenedBy(c), d)]

\* switch_conversation without a team: with_conversation_id of the active object, and
\* pending agents are not dispatched.
SwitchConversation(c) ==
  /\ active # NoObject
  /\ objects[active].conversation # c
  /\ TeamOf[objects[active].conversation] = TeamOf[c]
  /\ Len(objects) < restarts.limit.objects
  /\ objects' = Append(objects, NewObject(c))
  /\ active'  = Len(objects) + 1
  /\ Reconcile({c})
  /\ delivery' = [d \in Conversations |-> Released({c}, d)]
  /\ UNCHANGED <<teams, transcript, restarts>>

----------------------------------------------------------------------------
(* Messages.                                                                *)

\* Mutation of Known: a request is taken for a new one.
NeverKnown(c, message) == FALSE

\* _event_for_client_message_id.
Known(c, message) ==
  message # Nothing /\ \E i \in 1 .. Len(transcript[c]) : transcript[c][i].message = message

\* append_message, of a message or of its retry.  The store's lock keeps it out while a
\* thread of the same object inserts an event.
AppendMessage(message) ==
  LET c == objects[active].conversation
  IN /\ active # NoObject
     /\ objects[active].pc # "inserting"
     /\ ~Known(c, message)
     /\ Len(transcript[c]) < restarts.limit.events
     /\ transcript' = [transcript EXCEPT ![c] = Append(@, [message |-> message, run |-> NoRun])]
     /\ \E addressed \in BOOLEAN :
          /\ delivery' = IF addressed
                           THEN [delivery EXCEPT ![c] = Enqueue(@, Len(transcript[c]) + 1)]
                           ELSE delivery
          /\ objects' = [objects EXCEPT ![active].draining = @ \/ addressed]
     /\ UNCHANGED <<teams, active, records, disturbed, restarts>>

----------------------------------------------------------------------------
(* The threads of an object.                                                *)

\* drain, under the object's own dispatch lock.
Drains(o) ==
  LET c == objects[o].conversation
  IN /\ objects[o].draining /\ objects[o].pc = "idle"
     /\ objects' = IF PendingIdle(delivery[c]) THEN [objects EXCEPT ![o].pc = "reading"]
                   ELSE [objects EXCEPT ![o].draining = FALSE]
     /\ UNCHANGED <<teams, active, transcript, delivery, records, disturbed, restarts>>

Reads(o) ==
  LET c == objects[o].conversation
      s == delivery[c]
      new == Len(transcript[c]) > s.lastDelivered
  IN /\ objects[o].pc = "reading"
     /\ objects' = [objects EXCEPT ![o].pc = IF new THEN "starting" ELSE "idle",
                                   ![o].low = s.lastDelivered, ![o].snapshot = Len(transcript[c])]
     /\ delivery' = IF new THEN delivery
                    ELSE [delivery EXCEPT ![c] = CompleteRun(s, IF s.currentRun = NoRun THEN BlankRun
                                                                ELSE s.currentRun, s.lastDelivered, FALSE)]
     /\ UNCHANGED <<teams, active, transcript, records, disturbed, restarts>>

StartsRun(o) ==
  LET c == objects[o].conversation
      r == Len(records[c]) + 1
  IN /\ objects[o].pc = "starting"
     /\ records'  = [records EXCEPT ![c] = Append(@, [low |-> objects[o].low, advanced |-> FALSE,
                       snapshot |-> objects[o].snapshot, commit |-> "pending"])]
     /\ delivery' = [delivery EXCEPT ![c] = MarkRunStarted(@, r, objects[o].snapshot)]
     /\ objects'  = [objects EXCEPT ![o].pc = "invoking", ![o].run = r]
     /\ UNCHANGED <<teams, active, transcript, disturbed, restarts>>

\* complete_run and record_delivery: a run that is not the current one is ignored.
CompletesRun(o) ==
  LET c == objects[o].conversation
      r == objects[o].run
      owner == OwnsRun(delivery[c], r)
  IN /\ objects[o].pc = "invoking"
     /\ delivery' = [delivery EXCEPT ![c] = CompleteRun(@, r, objects[o].snapshot, TRUE)]
     /\ records'  = [records EXCEPT
          ![c][r].advanced = delivery'[c].lastDelivered > delivery[c].lastDelivered,
          ![c][r].commit   = IF @ = "orphaned" THEN @ ELSE "committed"]
     /\ objects'  = [objects EXCEPT ![o].pc = IF owner THEN "replying" ELSE "idle"]
     /\ UNCHANGED <<teams, active, transcript, disturbed, restarts>>

\* _next_seq, under the lock of the object's own store.
ReadsSeq(o) ==
  /\ objects[o].pc = "replying"
  /\ objects' = [objects EXCEPT ![o].pc = "inserting",
                                ![o].seq = Len(transcript[objects[o].conversation]) + 1]
  /\ UNCHANGED <<teams, active, transcript, delivery, records, disturbed, restarts>>

\* The insert; when another store took the number it raises, and the reply is lost.
InsertsReply(o) ==
  LET c == objects[o].conversation
  IN /\ objects[o].pc = "inserting"
     /\ objects' = [objects EXCEPT ![o].pc = "idle"]
     /\ transcript' = IF objects[o].seq = Len(transcript[c]) + 1
                        THEN [transcript EXCEPT ![c] = Append(@, [message |-> Nothing, run |-> objects[o].run])]
                        ELSE transcript
     /\ UNCHANGED <<teams, active, delivery, records, disturbed, restarts>>

\* The process ends and another starts; it opens a conversation when it is asked to.
SessionRestarts ==
  /\ restarts.count < restarts.limit.restarts
  /\ restarts'  = [restarts EXCEPT !.count = @ + 1]
  /\ teams'     = [t \in Teams |-> NoObject]
  /\ objects'   = <<>>
  /\ active'    = NoObject
  /\ disturbed' = disturbed \union {c \in Conversations : Busy(c)}
  /\ UNCHANGED <<transcript, delivery, records>>

HandlerStep ==
  \/ \E c \in Conversations : ActivateTeam(c) \/ SwitchConversation(c)
  \/ \E c \in Conversations, m \in Messages \union {Nothing} : CreateConversation(c, m)
  \/ \E m \in Messages \union {Nothing} : AppendMessage(m)

ThreadStep ==
  \E o \in Objects : Drains(o) \/ Reads(o) \/ StartsRun(o) \/ CompletesRun(o) \/ ReadsSeq(o)
                     \/ InsertsReply(o)

----------------------------------------------------------------------------
(* Properties.                                                              *)

SessionTypeOK ==
  /\ teams \in [Teams -> 0 .. Len(objects)]
  /\ active \in 0 .. Len(objects)
  /\ \A o \in Objects : /\ objects[o].conversation \in Conversations
                        /\ objects[o].run \in 0 .. Len(records[objects[o].conversation])
  /\ \A c \in Conversations :
       /\ delivery[c] \in DeliveryStates(0 .. Len(transcript[c]), 0 .. Len(records[c]))
       /\ \A r \in 1 .. Len(records[c]) : records[c][r].snapshot <= Len(transcript[c])
  /\ disturbed \subseteq Conversations

\* Whatever users do with other conversations of the process, a conversation that a process
\* opened once and finished its work on loses nothing: no run is given up, no event is
\* answered by two runs, and a run that counts gets its reply in.
OnlyReopeningDisturbs ==
  \A c \in Conversations \ disturbed :
    /\ \A r \in 1 .. Len(records[c]) :
         /\ records[c][r].commit # "orphaned"
         /\ records[c][r].advanced =>
              \/ \E o \in Objects : /\ objects[o].conversation = c /\ objects[o].run = r
                                    /\ objects[o].pc \in {"replying", "inserting"}
              \/ \E i \in 1 .. Len(transcript[c]) : transcript[c][i].run = r
    /\ \A r, q \in 1 .. Len(records[c]) :
         r < q /\ records[c][r].advanced /\ records[c][q].advanced =>
           records[c][r].snapshot <= records[c][q].low

\* A message that is sent again, because its answer got lost or the process restarted, is
\* in a conversation once (append_message of the API controller).
RetriesAppendOnce ==
  \A c \in Conversations : \A i, j \in 1 .. Len(transcript[c]) :
    transcript[c][i].message = transcript[c][j].message /\ transcript[c][i].message # Nothing => i = j
=============================================================================
