-------------------------- MODULE MentionDelivery ---------------------------
(***************************************************************************)
(* What a conversation promises of its messages, whatever threads, queues, *)
(* stops, failures and restarts it takes to keep it: an agent takes turns, *)
(* each turn gives it the messages that follow those of its turn before,   *)
(* and a turn is answered at most once, with a message at the end.         *)
(***************************************************************************)
EXTENDS Integers, Sequences, TLAPS

CONSTANTS
  Participants,  \* who writes messages
  Listeners      \* the agents, who take turns

VARIABLES
  transcript,  \* the author of each message
  cursor,      \* how far each agent has read
  turns,       \* the turns taken: [agent, after, upTo], for the messages in between
  answered     \* the turns with an answer

deliveryVars == <<transcript, cursor, turns, answered>>

Init ==
  /\ transcript = <<>>
  /\ cursor     = [a \in Listeners |-> 0]
  /\ turns      = {}
  /\ answered   = {}

\* A message of anyone, outside a turn.
Says(p) ==
  /\ transcript' = Append(transcript, p)
  /\ UNCHANGED <<cursor, turns, answered>>

TakesTurn(a) ==
  \E n \in cursor[a] + 1 .. Len(transcript) :
    /\ cursor' = [cursor EXCEPT ![a] = n]
    /\ turns'  = turns \union {[agent |-> a, after |-> cursor[a], upTo |-> n]}
    /\ UNCHANGED <<transcript, answered>>

Answers(turn) ==
  /\ turn \notin answered
  /\ transcript' = Append(transcript, turn.agent)
  /\ answered'   = answered \union {turn}
  /\ UNCHANGED <<cursor, turns>>

Next ==
  \/ \E p \in Participants : Says(p)
  \/ \E a \in Listeners : TakesTurn(a)
  \/ \E turn \in turns : Answers(turn)

Spec == Init /\ [][Next]_deliveryVars

----------------------------------------------------------------------------

Gives(turn, i) == turn.after < i /\ i <= turn.upTo

Turns == [agent : Listeners, after : Nat, upTo : Nat]

\* The records of the conversation.
DeliveryTypeOK ==
  /\ transcript \in Seq(Participants \union Listeners)
  /\ cursor \in [Listeners -> Nat]
  /\ turns \subseteq Turns
  /\ answered \subseteq turns

\* Each message an agent has read was given to it in exactly one of its turns, and its turns
\* gave it nothing else.
EachMessageInOneTurn ==
  /\ \A a \in Listeners, i \in Nat \ {0} :
       i <= cursor[a] <=> \E t \in turns : t.agent = a /\ Gives(t, i)
  /\ \A t, u \in turns, i \in Nat :
       t.agent = u.agent /\ Gives(t, i) /\ Gives(u, i) => t = u

\* A turn ends at the cursor or before, and at a message there is.
TurnsLieBehind ==
  /\ \A a \in Listeners : cursor[a] <= Len(transcript)
  /\ \A t \in turns : t.after < t.upTo /\ t.upTo <= cursor[t.agent]

DeliveryInv == DeliveryTypeOK /\ TurnsLieBehind /\ EachMessageInOneTurn

LEMMA DeliveryStep == DeliveryInv /\ [Next]_deliveryVars => DeliveryInv'
<1> SUFFICES ASSUME DeliveryInv, [Next]_deliveryVars PROVE DeliveryInv'
  OBVIOUS
<1> USE DEF DeliveryInv, DeliveryTypeOK, TurnsLieBehind, EachMessageInOneTurn, Gives, Turns
<1>1. ASSUME NEW p \in Participants, Says(p) PROVE DeliveryInv'
  BY <1>1 DEF Says
<1>2. ASSUME NEW turn \in turns, Answers(turn) PROVE DeliveryInv'
  BY <1>2 DEF Answers
<1>3. ASSUME NEW a \in Listeners, TakesTurn(a) PROVE DeliveryInv'
  <2>1. PICK n \in cursor[a] + 1 .. Len(transcript) :
          /\ cursor' = [cursor EXCEPT ![a] = n]
          /\ turns'  = turns \union {[agent |-> a, after |-> cursor[a], upTo |-> n]}
          /\ UNCHANGED <<transcript, answered>>
    BY <1>3 DEF TakesTurn
  <2> DEFINE new == [agent |-> a, after |-> cursor[a], upTo |-> n]
  <2>2. n \in Nat /\ cursor[a] < n /\ n <= Len(transcript) /\ new \in Turns
    OBVIOUS
  <2>3. DeliveryTypeOK' /\ TurnsLieBehind'
    BY <2>1, <2>2
  <2>4. ASSUME NEW b \in Listeners, NEW i \in Nat \ {0}
        PROVE  i <= cursor'[b] <=> \E t \in turns' : t.agent = b /\ Gives(t, i)
    <3>1. i <= cursor[b] <=> \E t \in turns : t.agent = b /\ Gives(t, i)
      OBVIOUS
    <3>2. new.agent = b /\ Gives(new, i) <=> a = b /\ cursor[a] < i /\ i <= n
      OBVIOUS
    <3>3. (\E t \in turns' : t.agent = b /\ Gives(t, i))
             <=> (\E t \in turns : t.agent = b /\ Gives(t, i)) \/ (new.agent = b /\ Gives(new, i))
      BY <2>1
    <3>4. cursor'[b] = IF a = b THEN n ELSE cursor[b]
      BY <2>1
    <3>5. cursor[b] \in Nat /\ i \in Nat
      OBVIOUS
    <3> HIDE DEF new, Gives, DeliveryInv
    <3> QED
      BY <2>2, <3>1, <3>2, <3>3, <3>4, <3>5
  <2>5. ASSUME NEW t \in turns', NEW u \in turns', NEW i \in Nat,
               t.agent = u.agent, Gives(t, i), Gives(u, i)
        PROVE  t = u
    BY <2>1, <2>2, <2>5
  <2> QED
    BY <2>3, <2>4, <2>5
<1>4. CASE UNCHANGED deliveryVars
  BY <1>4 DEF deliveryVars
<1> QED
  BY <1>1, <1>2, <1>3, <1>4 DEF Next

\* Each message an agent has read reached it in exactly one turn, for any participants and
\* any number of messages.
THEOREM EachMessageInOneTurnCorrect == Spec => []EachMessageInOneTurn
<1>1. Init => DeliveryInv
  BY DEF Init, DeliveryInv, DeliveryTypeOK, TurnsLieBehind, EachMessageInOneTurn, Gives
<1>2. DeliveryInv => EachMessageInOneTurn
  BY DEF DeliveryInv
<1> QED
  BY <1>1, <1>2, DeliveryStep, PTL DEF Spec
=============================================================================
