--------------------------- MODULE TerminalSession ---------------------------
(***************************************************************************)
(* A terminal of Studio: the shell, the thread that reads what it prints,  *)
(* the session that numbers what was read, and the inspector of the page,  *)
(* which polls with the number it got to.  A poll is answered late, out of *)
(* order, or not at all.                                                   *)
(*                                                                         *)
(* What a read returns is one part, told apart by its place in what the    *)
(* shell prints; the session makes it a chunk with a cursor.               *)
(***************************************************************************)
EXTENDS Selection

CONSTANT TerminalLimits  \* bounds: chunks the shell prints, terminals opened, polls under way

ASSUME TerminalAssumption == TerminalLimits \subseteq [prints : Nat, opens : Nat, polls : Nat]

VARIABLES
  shell,   \* the process: how much it printed, what its reader has yet to read
  unread,  \* _output_queue: what the reader thread read
  chunks,  \* _chunks: what the session numbered
  polls,   \* the answers under way to the page
  view,    \* the inspector: its terminal, cursor and output
  opened   \* how many terminals were opened, and the bounds

terminalVars == <<shell, unread, chunks, polls, view, opened>>

Ended   == 0                         \* the None the reader thread puts last
Started == [cursor |-> 1, part |-> 0]  \* the line "Terminal started"

NoShell == [alive |-> FALSE, held |-> FALSE, reader |-> FALSE, printed |-> 0, pipe |-> <<>>]

TerminalInit ==
  /\ shell  = NoShell
  /\ unread = <<>>
  /\ chunks = <<>>
  /\ polls  = {}
  /\ view   = [status |-> "none", cursor |-> 0, output |-> <<>>]
  /\ \E limit \in TerminalLimits : opened = [count |-> 0, limit |-> limit]

\* create_terminal_session of the active controller; startTerminal of the inspector.
OpensTerminal ==
  /\ view.status = "none"
  /\ opened.count < opened.limit.opens
  /\ opened' = [opened EXCEPT !.count = @ + 1]
  /\ shell'  = [NoShell EXCEPT !.alive = TRUE, !.held = TRUE, !.reader = TRUE]
  /\ unread' = <<>>
  /\ chunks' = <<Started>>
  /\ polls'  = {}
  /\ view'   = [status |-> "running", cursor |-> 0, output |-> <<>>]

ShellPrints ==
  /\ shell.alive /\ shell.printed < opened.limit.prints
  /\ shell' = [shell EXCEPT !.printed = @ + 1, !.pipe = Append(@, shell.printed + 1)]
  /\ UNCHANGED <<unread, chunks, polls, view, opened>>

ShellExits ==
  /\ shell.alive
  /\ shell' = [shell EXCEPT !.alive = FALSE]
  /\ UNCHANGED <<unread, chunks, polls, view, opened>>

\* _read_output.
ReaderReads ==
  /\ shell.reader /\ (shell.pipe # <<>> \/ ~shell.alive)
  /\ IF shell.pipe # <<>>
       THEN /\ unread' = Append(unread, Head(shell.pipe))
            /\ shell'  = [shell EXCEPT !.pipe = Tail(@)]
       ELSE /\ unread' = Append(unread, Ended)
            /\ shell'  = [shell EXCEPT !.reader = FALSE]
  /\ UNCHANGED <<chunks, polls, view, opened>>

\* How many parts _drain_output gets until the queue is empty or it gets the end, which is
\* the last thing the reader puts.
PartsRead ==
  CHOOSE n \in 0 .. Len(unread) : /\ \A i \in 1 .. n : unread[i] # Ended
                                  /\ n < Len(unread) => unread[n + 1] = Ended

\* _drain_output.
Drained ==
  chunks \o [i \in 1 .. PartsRead |-> [cursor |-> Len(chunks) + i, part |-> unread[i]]]

\* Mutation of Due: the chunk of the cursor is due again.
DueFrom(chunk, cursor) == chunk.cursor >= cursor

\* output_after sends the chunks with a greater cursor.
Due(chunk, cursor) == chunk.cursor > cursor

\* The inspector's timer fires and the backend answers; the status is read last, when the
\* shell may have printed and ended since.
Polls ==
  /\ view.status = "running" /\ shell.held
  /\ Cardinality(polls) < opened.limit.polls
  /\ chunks' = Drained
  /\ unread' = <<>>
  /\ \E status \in {"running", IF shell.alive THEN "running" ELSE "terminated"} :
       polls' = polls \union
         {[from |-> view.cursor, cursor |-> Len(chunks'), status |-> status,
           output |-> Selected(chunks', {i \in 1 .. Len(chunks') : Due(chunks'[i], view.cursor)})]}
  /\ UNCHANGED <<shell, view, opened>>

\* An answer reaches the inspector.  The effect that sent the poll was cancelled when the
\* cursor moved or the terminal ended.
PollAnswered ==
  \E poll \in polls :
    LET current == view.status = "running" /\ poll.from = view.cursor
    IN /\ polls' = polls \ {poll}
       /\ view'  = IF current THEN [status |-> poll.status, cursor |-> poll.cursor,
                                    output |-> view.output \o poll.output]
                   ELSE view
       /\ UNCHANGED <<shell, unread, chunks, opened>>

PollLost ==
  /\ \E poll \in polls : polls' = polls \ {poll}
  /\ UNCHANGED <<shell, unread, chunks, view, opened>>

\* terminate_terminal_session: the pipe is closed, what it held is lost.
StopsTerminal ==
  /\ view.status = "running" /\ shell.held
  /\ chunks' = Drained
  /\ unread' = <<>>
  /\ shell'  = [NoShell EXCEPT !.printed = shell.printed]
  /\ view'   = [view EXCEPT !.status = "terminated"]
  /\ UNCHANGED <<polls, opened>>

\* The controller that opened the terminal is not the active one any more, or is gone: no
\* request reaches the terminal, whose shell lives on.
TerminalForgotten ==
  /\ shell' = [shell EXCEPT !.held = FALSE]
  /\ UNCHANGED <<unread, chunks, polls, view, opened>>

\* The page is loaded again.
PageLeavesTerminal ==
  /\ view.status # "none"
  /\ view'  = [status |-> "none", cursor |-> 0, output |-> <<>>]
  /\ polls' = {}
  /\ UNCHANGED <<shell, unread, chunks, opened>>

TerminalStep ==
  \/ ShellPrints \/ ShellExits \/ ReaderReads \/ Polls \/ PollAnswered \/ PollLost
  \/ StopsTerminal \/ PageLeavesTerminal

----------------------------------------------------------------------------
(* Properties.                                                              *)

TerminalTypeOK ==
  /\ shell.pipe \in Seq(1 .. shell.printed)
  /\ unread \in Seq(0 .. shell.printed)
  /\ chunks \in Seq([cursor : Nat, part : 0 .. shell.printed])
  /\ \A poll \in polls : poll.cursor <= Len(chunks)
  /\ view.status \in {"none", "running", "terminated"}
  /\ view.cursor <= Len(chunks)

\* What the inspector shows is what the shell printed, each chunk once and in order, up to
\* the cursor of its next poll: whichever answers got lost, came late or crossed.
TerminalOutputOnce ==
  view.status # "none" => view.output = [i \in 1 .. view.cursor |-> [cursor |-> i, part |-> i - 1]]
=============================================================================
