---------------------------- MODULE StudioStream ----------------------------
(***************************************************************************)
(* The event stream of Studio: the buffer of frames that connections and   *)
(* handlers publish to, the bounded queue of each connection, and the page *)
(* that reads it and reconnects from the last frame it received.           *)
(*                                                                         *)
(* Handlers and producers run on one event loop: a step lasts until one    *)
(* waits.  What state() returns is a version number.  A delta frame brings *)
(* a part of what the snapshot published after it brings.                  *)
(***************************************************************************)
EXTENDS Selection

CONSTANTS
  Pages,        \* the browser pages
  MaxFrames,    \* what StreamBuffer keeps: 500 frames in the code
  MaxItems,     \* what StreamClientQueue holds: 64 in the code
  StreamLimits  \* bounds: changes looked at, connections, idle heartbeats

ASSUME StreamAssumption ==
  /\ MaxFrames \in Nat \ {0}
  /\ MaxItems \in Nat \ {0, 1}
  /\ StreamLimits \subseteq [changes : Nat, connects : Nat, beats : Nat]

VARIABLES
  world,   \* the version of the state
  log,     \* the frames published since the process started
  conn,    \* the connection of each page, and its producer
  page,    \* what each page shows, and the id of its last frame
  budget   \* the connections and idle heartbeats so far, and the bounds

streamVars == <<world, log, conn, page, budget>>

NoFrame == 0  \* no cursor, or a frame that is not published yet
Hello     == [id |-> NoFrame, kind |-> "studio.hello", version |-> 0]
Heartbeat == [id |-> NoFrame, kind |-> "studio.heartbeat", version |-> 0]
NoMore    == [id |-> NoFrame, kind |-> "none", version |-> 0]  \* the None that ends a queue
Delta(v)    == [id |-> NoFrame, kind |-> "delta", version |-> v]
Snapshot(v) == [id |-> NoFrame, kind |-> "snapshot.replace", version |-> v]

\* queue: what the page has yet to read; ready: published frames to put in it; todo:
\* frames to publish and put; last: last_snapshot; fresh: it sent a snapshot of its own.
NoConnection == [open |-> FALSE, closed |-> TRUE, queue |-> <<>>, ready |-> <<>>, todo |-> <<>>,
                 last |-> 0, cursor |-> NoFrame, hello |-> NoFrame, fresh |-> FALSE]

StreamInit ==
  /\ world = 0
  /\ log   = <<>>
  /\ conn  = [p \in Pages |-> NoConnection]
  /\ page  = [p \in Pages |-> [shown |-> 0, lastId |-> NoFrame]]
  /\ \E limit \in StreamLimits : budget = [connects |-> 0, beats |-> 0, limit |-> limit]

----------------------------------------------------------------------------
(* StreamBuffer.                                                            *)

\* publish, of frames in a row; the id of a frame is its place in the log l.
Numbered(l, frames) == [i \in 1 .. Len(frames) |-> [frames[i] EXCEPT !.id = Len(l) + i]]

\* The oldest frame the deque has not dropped.
FirstKept(l) == IF Len(l) > MaxFrames THEN Len(l) - MaxFrames + 1 ELSE 1

\* Mutation of Gap: what is left is replayed, whatever the cursor.
NeverGap(l, cursor) == FALSE

\* replay_after returns None: the frame of the cursor has left the buffer.
Gap(l, cursor) == cursor < FirstKept(l)

\* replay_after, less the frames a producer does not put.
Replay(l, cursor) ==
  Selected(l, {i \in FirstKept(l) .. Len(l) :
                 l[i].id > cursor /\ l[i].kind \notin {"studio.hello", "studio.heartbeat"}})

\* A handler that changes the state publishes it; what workers change, nobody publishes.
\* Bound: the changes past the first ones are not looked at.
Changes == world' = IF world < budget.limit.changes THEN world + 1 ELSE world

Publishes ==
  /\ Changes
  /\ log' = IF world' = world THEN log
            ELSE log \o Numbered(log, <<Delta(world'), Snapshot(world')>>)

----------------------------------------------------------------------------
(* StreamClientQueue, and the producer that puts frames in it.              *)

Smaller(m, n) == IF m < n THEN m ELSE n

\* The producer publishes and puts until a put waits: k is its connection, l the log.
Pushed(k, l) ==
  LET space == MaxItems - Len(k.queue)
      count == IF Len(k.ready) > space THEN 0 ELSE Smaller(Len(k.todo), space - Len(k.ready) + 1)
      new   == Numbered(l, SubSeq(k.todo, 1, count))
      line  == k.ready \o new
      puts  == Smaller(Len(line), space)
  IN [conn |-> [k EXCEPT !.queue = @ \o SubSeq(line, 1, puts),
                         !.ready = SubSeq(line, puts + 1, Len(line)),
                         !.todo  = SubSeq(@, count + 1, Len(@))],
      log  |-> l \o new]

Puts(p, pushed) == conn' = [conn EXCEPT ![p] = pushed.conn] /\ log' = pushed.log

\* A page opens the stream; the producer runs up to its first wait.  Without an active
\* conversation state() raises, and the queue is closed after the hello.
Connects(p, active) ==
  LET cursor == page[p].lastId
      hello  == Numbered(log, <<Hello>>)
      l      == log \o hello
      k      == [NoConnection EXCEPT !.open = TRUE, !.closed = FALSE, !.last = world,
                                     !.cursor = cursor, !.hello = Len(l)]
      whole  == cursor = NoFrame \/ Gap(l, cursor)
  IN /\ ~conn[p].open
     /\ budget.connects < budget.limit.connects
     /\ budget' = [budget EXCEPT !.connects = @ + 1]
     /\ IF ~active
          THEN Puts(p, [conn |-> [k EXCEPT !.queue = hello \o <<NoMore>>, !.closed = TRUE], log |-> l])
          ELSE IF whole
          THEN Puts(p, Pushed([k EXCEPT !.ready = hello, !.todo = <<Snapshot(world)>>, !.fresh = TRUE], l))
          ELSE Puts(p, Pushed([k EXCEPT !.ready = hello \o Replay(l, cursor)], l))
     /\ UNCHANGED <<world, page>>

Sleeps(p) == /\ conn[p].open /\ ~conn[p].closed
             /\ conn[p].ready = <<>> /\ conn[p].todo = <<>>

\* Mutation of TickFrames: what changed is sent, the whole is not.
TickDeltas(last) == IF world = last THEN <<Heartbeat>> ELSE <<Delta(world), Heartbeat>>

\* What fifteen seconds of sleep end in.
TickFrames(last) ==
  IF world = last THEN <<Heartbeat>> ELSE <<Delta(world), Snapshot(world), Heartbeat>>

\* Bound: heartbeats with nothing to tell.
Ticks(p) ==
  LET changed == world # conn[p].last
  IN /\ Sleeps(p)
     /\ changed \/ budget.beats < budget.limit.beats
     /\ budget' = IF changed THEN budget ELSE [budget EXCEPT !.beats = @ + 1]
     /\ Puts(p, Pushed([conn[p] EXCEPT !.todo = TickFrames(conn[p].last), !.last = world,
                                       !.fresh = @ \/ changed], log))
     /\ UNCHANGED <<world, page>>

Waits(p) == conn[p].open /\ ~conn[p].closed /\ conn[p].ready # <<>>

\* The page made room before put gave up.
ProducerResumes(p) ==
  /\ Waits(p) /\ Len(conn[p].queue) < MaxItems
  /\ Puts(p, Pushed(conn[p], log))
  /\ UNCHANGED <<world, page, budget>>

\* A quarter of a second passed: close drops the oldest frame to put its None.
QueueCloses(p) ==
  /\ Waits(p) /\ Len(conn[p].queue) = MaxItems
  /\ conn' = [conn EXCEPT ![p].closed = TRUE, ![p].ready = <<>>, ![p].todo = <<>>,
                          ![p].queue = Append(Tail(@), NoMore)]
  /\ UNCHANGED <<world, log, page, budget>>

----------------------------------------------------------------------------
(* The page: an EventSource.                                                *)

PageReads(p) ==
  LET frame == Head(conn[p].queue)
  IN /\ conn[p].open /\ conn[p].queue # <<>>
     /\ IF frame = NoMore
          THEN conn' = [conn EXCEPT ![p] = NoConnection] /\ UNCHANGED page
          ELSE /\ conn' = [conn EXCEPT ![p].queue = Tail(@)]
               /\ page' = [page EXCEPT ![p].lastId = frame.id,
                             ![p].shown = IF frame.kind = "snapshot.replace" THEN frame.version ELSE @]
     /\ UNCHANGED <<world, log, budget>>

\* The network drops the connection, with the frames under way.
Disconnects(p) ==
  /\ conn[p].open
  /\ conn' = [conn EXCEPT ![p] = NoConnection]
  /\ UNCHANGED <<world, log, page, budget>>

\* The backend restarts: the buffer is empty and ids start again, the pages keep theirs.
StreamRestarts ==
  /\ log'  = <<>>
  /\ conn' = [p \in Pages |-> NoConnection]
  /\ UNCHANGED <<world, page, budget>>

StreamStep(active) ==
  \E p \in Pages :
    \/ Connects(p, active) \/ Ticks(p) \/ ProducerResumes(p) \/ QueueCloses(p)
    \/ PageReads(p) \/ Disconnects(p)

\* Producers are woken when their sleep ends and when there is room; pages read.
StreamFairness ==
  \A p \in Pages : /\ WF_streamVars(Ticks(p))
                   /\ WF_streamVars(ProducerResumes(p) \/ QueueCloses(p))
                   /\ WF_streamVars(PageReads(p))

----------------------------------------------------------------------------
(* Properties.                                                              *)

Frames == [id : 0 .. Len(log), version : 0 .. world,
           kind : {"studio.hello", "studio.heartbeat", "delta", "snapshot.replace"}]

StreamTypeOK ==
  /\ world \in Nat
  /\ log \in Seq(Frames)
  /\ \A p \in Pages :
       /\ Len(conn[p].queue) <= MaxItems
       /\ conn[p].last <= world
       /\ conn[p].ready \in Seq(Frames) /\ conn[p].todo \in Seq(Frames)
       /\ page[p].shown <= world

\* A page that resumed from a cursor and has read all that was replayed shows the last
\* snapshot of the buffer between its cursor and its hello, however many frames the buffer has
\* dropped since ("Cursor gaps fall back to snapshot.replace"), unless its connection sent it
\* a snapshot of its own.
ResumedPageShowsLastSnapshot ==
  \A p \in Pages :
    /\ conn[p].open /\ ~conn[p].closed /\ ~conn[p].fresh
    /\ conn[p].ready = <<>> /\ conn[p].queue = <<>>
    => \A i \in conn[p].cursor + 1 .. conn[p].hello :
         /\ log[i].kind = "snapshot.replace"
         /\ \A j \in i + 1 .. conn[p].hello : log[j].kind # "snapshot.replace"
         => page[p].shown = log[i].version

\* A page whose connection stays open comes to show the state and keeps showing it, also
\* what workers change behind the handlers, once its connection sent a snapshot: until
\* then a page that resumed shows what its replay brought it to.
PagesCatchUp ==
  \A p \in Pages :
    <>[](conn[p].open /\ ~conn[p].closed /\ conn[p].fresh) => <>[](page[p].shown = world)
=============================================================================
