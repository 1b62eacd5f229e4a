----------------------------- MODULE FrameServer -----------------------------
(***************************************************************************)
(* The TCP side of the companion frame server                              *)
(* (companion/frame_server/transport.py): the single client slot, eviction *)
(* of the client in it, the per-client read loop and writer task, cleanup, *)
(* and stop.                                                               *)
(*                                                                         *)
(* A connection c names its handler task, its StreamWriter, the write      *)
(* queue and the writer task made for it.  What becomes runnable because   *)
(* of another task is appended to `ready`, the event loop's FIFO; what the *)
(* network or a timer starts happens at any time.  A cancelled writer      *)
(* takes a number of turns that differs between Python versions to unwind  *)
(* out of wait_for, so its steps are not queued.                           *)
(***************************************************************************)
EXTENDS Naturals, Sequences, FiniteSets

CONSTANTS
  Conns,      \* connections, each made at most once
  None,
  Stopper,    \* the task that calls stop(), if it is among Callers
  Callers,    \* {Stopper} or {}
  QueueMax,   \* _WRITE_QUEUE_MAXSIZE
  MaxFrames,  \* bound on the frames ever enqueued
  Python312   \* before 3.12 wait_for may swallow a cancel that races with
              \* a frame, and Server.wait_closed does not wait for clients

(* What is assumed of the constants.                                       *)
FrameAssumption ==
  /\ None \notin Conns \cup {Stopper} /\ Stopper \notin Conns
  /\ Callers \subseteq {Stopper} /\ QueueMax \in Nat \ {0} /\ MaxFrames \in Nat
  /\ Python312 \in BOOLEAN

Tasks == Conns \cup {Stopper}

WriterOf(c) == <<"writer", c>>  \* a writer task that has not run yet

Push == "push"
Sentinel == "sentinel"

VARIABLES
  ready,         \* the tasks that the event loop runs next
  pc, wake,      \* where each of them is; what a reader wakes up with
  old, oldTask,  \* _evict_existing_client's old_writer and old_writer_task
  clientWriter, writeQueue, writerTask,   \* the server's attributes
  queue,         \* contents of each connection's write queue
  wpc, source,   \* of each writer task; the queue whose get() it awaits
  cancelled,     \* writer tasks that have been cancelled
  taskWaiters, closeWaiters,  \* who awaits a writer task; wait_closed()
  closed, lost,  \* transports that are closing; connection_lost was called
  installed,     \* connections in the order they took the slot
  subscribed,    \* _setup_push_callbacks is in force
  frames         \* frames enqueued so far

slot == <<clientWriter, writeQueue, writerTask>>
writers == <<wpc, source>>
net == <<closed, lost>>
waits == <<taskWaiters, closeWaiters>>
hist == <<installed, frames>>
vars == <<ready, pc, wake, old, oldTask, slot, queue, writers, cancelled, waits,
          net, hist, subscribed>>

Init ==
  /\ ready = <<>> /\ wake = [c \in Conns |-> None]
  /\ pc = [t \in Tasks |-> "new"]
  /\ old = [t \in Tasks |-> None] /\ oldTask = [t \in Tasks |-> None]
  /\ clientWriter = None /\ writeQueue = None /\ writerTask = None
  /\ queue = [c \in Conns |-> <<>>]
  /\ wpc = [c \in Conns |-> "none"] /\ source = [c \in Conns |-> None]
  /\ cancelled = {} /\ closed = {} /\ lost = {}
  /\ taskWaiters = [c \in Conns |-> <<>>]
  /\ closeWaiters = [c \in Conns |-> <<>>]
  /\ installed = <<>>
  /\ subscribed = FALSE /\ frames = 0

Goto(t, place) == pc' = [pc EXCEPT ![t] = place]

InReady(t) == \E i \in 1..Len(ready) : ready[i] = t

(* The task at the head of the event loop's queue takes its turn.          *)
Turn(t, place) == ready # <<>> /\ Head(ready) = t /\ pc[t] = place

-----------------------------------------------------------------------------
(* put_nowait on the queue of c: a full queue drops what is put.           *)
Put(q, c, frame) ==
  IF Len(q[c]) < QueueMax THEN [q EXCEPT ![c] = Append(@, frame)] ELSE q

(* The queues after _enqueue_frame: the one written to is whichever is the *)
(* server's at that moment.                                                *)
EnqueueFrame(frame) ==
  IF writeQueue = None THEN queue ELSE Put(queue, writeQueue, frame)

-----------------------------------------------------------------------------
(* _handle_client from the slot assignments to its first read.             *)
Install(c, rest) ==
  /\ clientWriter' = c /\ writeQueue' = c /\ writerTask' = c
  /\ wpc' = [wpc EXCEPT ![c] = "start"] /\ subscribed' = TRUE
  /\ installed' = Append(installed, c) /\ Goto(c, "read")
  /\ IF c \in lost
     THEN ready' = rest \o <<WriterOf(c), c>> /\ wake' = [wake EXCEPT ![c] = "eof"]
     ELSE ready' = Append(rest, WriterOf(c)) /\ UNCHANGED wake

(* Close the old writer and wait until its connection is lost.             *)
CloseOld(c, o) ==
  /\ closed' = closed \cup {o}
  /\ IF o \in lost
     THEN Install(c, Tail(ready)) /\ UNCHANGED closeWaiters
     ELSE /\ closeWaiters' = [closeWaiters EXCEPT ![o] = Append(@, c)]
          /\ Goto(c, "evictClose") /\ ready' = Tail(ready)
          /\ UNCHANGED <<clientWriter, writeQueue, wpc, subscribed, installed, wake>>

WriterRuns == writerTask # None /\ wpc[writerTask] # "done"

(* Mutant: the old writer task is awaited but not cancelled.               *)
HandleClientNoCancel(c) ==
  /\ Turn(c, "start")
  /\ IF WriterRuns
     THEN /\ old' = [old EXCEPT ![c] = clientWriter]
          /\ oldTask' = [oldTask EXCEPT ![c] = writerTask]
          /\ taskWaiters' = [taskWaiters EXCEPT ![writerTask] = Append(@, c)]
          /\ Goto(c, "evictTask") /\ ready' = Tail(ready)
          /\ UNCHANGED <<slot, wpc, subscribed, installed, wake>>
     ELSE Install(c, Tail(ready)) /\ UNCHANGED <<old, oldTask, taskWaiters>>
  /\ UNCHANGED <<cancelled, closeWaiters, net, queue, source, frames>>

(* _handle_client and the first part of _evict_existing_client.            *)
HandleClient(c) ==
  /\ Turn(c, "start")
  /\ \/ /\ clientWriter = None /\ Install(c, Tail(ready))
        /\ UNCHANGED <<old, oldTask, cancelled, waits, closed>>
     \/ /\ clientWriter # None
        /\ old' = [old EXCEPT ![c] = clientWriter]
        /\ oldTask' = [oldTask EXCEPT ![c] = writerTask]
        /\ IF WriterRuns
           THEN /\ cancelled' = cancelled \cup {writerTask}
                /\ taskWaiters' = [taskWaiters EXCEPT ![writerTask] = Append(@, c)]
                /\ Goto(c, "evictTask") /\ ready' = Tail(ready)
                /\ UNCHANGED <<slot, wpc, subscribed, installed, wake,
                               closeWaiters, closed>>
           ELSE /\ CloseOld(c, clientWriter)
                /\ writerTask' = IF clientWriter \in lost THEN c ELSE None
                /\ UNCHANGED <<cancelled, taskWaiters>>
  /\ UNCHANGED <<queue, source, lost, frames>>

(* The old writer task is gone: its slot is cleared unless it was refilled.*)
EvictTaskGone(c) ==
  /\ Turn(c, "evictTask")
  /\ CloseOld(c, old[c])
  /\ writerTask' = IF old[c] \in lost THEN c
                   ELSE IF writerTask = oldTask[c] THEN None ELSE writerTask
  /\ UNCHANGED <<old, oldTask, queue, source, cancelled, taskWaiters, lost,
                 frames>>

EvictClosed(c) ==
  /\ Turn(c, "evictClose") /\ Install(c, Tail(ready))
  /\ UNCHANGED <<old, oldTask, queue, source, cancelled, waits, net, frames>>

(* Mutant: cleared whoever holds it.                                       *)
ReleaseAnyone(c) == writeQueue' = None /\ clientWriter' = None /\ Goto(c, "done")

-----------------------------------------------------------------------------
(* The end of _cleanup_client.                                             *)
Release(c) ==
  /\ writeQueue' = IF writeQueue = c THEN None ELSE writeQueue
  /\ clientWriter' = IF clientWriter = c THEN None ELSE clientWriter
  /\ Goto(c, "done")

(* _cleanup_client, on entry; q is what the queues hold then.              *)
Cleanup(c, q) ==
  /\ ready' = Tail(ready)
  /\ queue' = IF writeQueue = c THEN Put(q, c, Sentinel) ELSE q
  /\ IF writerTask = c /\ wpc[c] # "done"
     THEN /\ cancelled' = cancelled \cup {c}
          /\ taskWaiters' = [taskWaiters EXCEPT ![c] = Append(@, c)]
          /\ Goto(c, "cleanTask") /\ UNCHANGED slot
     ELSE /\ writerTask' = IF writerTask = c THEN None ELSE writerTask
          /\ Release(c) /\ UNCHANGED <<cancelled, taskWaiters>>

(* The client's own writer task has ended.                                 *)
CleanupTaskGone(c) ==
  /\ Turn(c, "cleanTask") /\ ready' = Tail(ready)
  /\ writerTask' = None /\ Release(c)
  /\ UNCHANGED <<wake, old, oldTask, queue, writers, cancelled, waits, net, hist,
                 subscribed>>

(* The rest of a turn of _read_client_frames once the command was handled: *)
(* its response is enqueued, then the loop ends if the writer has ended.   *)
Respond(c) ==
  IF wpc[c] = "done"
  THEN Cleanup(c, EnqueueFrame(c)) /\ wake' = [wake EXCEPT ![c] = None]
  ELSE /\ queue' = EnqueueFrame(c) /\ Goto(c, "read")
       /\ IF c \in lost
          THEN ready' = Append(Tail(ready), c) /\ wake' = [wake EXCEPT ![c] = "eof"]
          ELSE ready' = Tail(ready) /\ wake' = [wake EXCEPT ![c] = None]
       /\ UNCHANGED <<slot, cancelled, taskWaiters>>

(* A reader wakes up: with a command, which is answered at once or after   *)
(* an await, or because the connection ended or idled out.                 *)
ReadClientFrames(c) ==
  /\ Turn(c, "read")
  /\ \/ wake[c] = "cmd" /\ Respond(c)
     \/ /\ wake[c] = "cmd" /\ wake' = [wake EXCEPT ![c] = None]
        /\ Goto(c, "cmd") /\ ready' = Tail(ready)
        /\ UNCHANGED <<slot, queue, cancelled, taskWaiters>>
     \/ /\ wake[c] = "eof" /\ Cleanup(c, queue)
        /\ wake' = [wake EXCEPT ![c] = None]
  /\ UNCHANGED <<old, oldTask, writers, closeWaiters, net, hist, subscribed>>

(* What the command handler awaited has happened.                          *)
CommandResumes(c) ==
  /\ pc[c] = "cmd" /\ ~InReady(c) /\ ready' = Append(ready, c)
  /\ UNCHANGED <<pc, wake, old, oldTask, slot, queue, writers, cancelled, waits,
                 net, hist, subscribed>>

CommandDone(c) ==
  /\ Turn(c, "cmd") /\ Respond(c)
  /\ UNCHANGED <<old, oldTask, writers, closeWaiters, net, hist, subscribed>>

(* A bridge event pushes a frame at whoever is connected.                  *)
PushEvent ==
  /\ subscribed /\ frames < MaxFrames
  /\ frames' = frames + 1 /\ queue' = EnqueueFrame(Push)
  /\ UNCHANGED <<ready, pc, wake, old, oldTask, slot, writers, cancelled, waits,
                 net, installed, subscribed>>

-----------------------------------------------------------------------------
(* A writer task ends, having closed its writer unless it never began;     *)
(* rest is what is ready besides those that await the task.                *)
WriterEnds(c, rest) ==
  /\ wpc' = [wpc EXCEPT ![c] = "done"] /\ UNCHANGED source
  /\ closed' = IF wpc[c] = "start" /\ c \in cancelled THEN closed ELSE closed \cup {c}
  /\ ready' = rest \o taskWaiters[c]
  /\ taskWaiters' = [taskWaiters EXCEPT ![c] = <<>>]

(* Back to the top of the loop: get() on the server's queue of the moment. *)
WriterGets(c, rest) ==
  IF writeQueue = None THEN WriterEnds(c, rest)
  ELSE /\ wpc' = [wpc EXCEPT ![c] = "get"]
       /\ source' = [source EXCEPT ![c] = writeQueue]
       /\ ready' = rest /\ UNCHANGED <<closed, taskWaiters>>

(* A frame is written; the emptiness test then reads the server's queue.   *)
WriterWrites(c) ==
  IF writeQueue = None THEN WriterEnds(c, ready)
  ELSE wpc' = [wpc EXCEPT ![c] = "drain"] /\ UNCHANGED <<source, closed, ready, taskWaiters>>

WriterLoop(c) ==
  /\ \/ \* the first turn, which a cancel turns into the last
        /\ ready # <<>> /\ Head(ready) = WriterOf(c)
        /\ IF c \in cancelled THEN WriterEnds(c, Tail(ready))
           ELSE WriterGets(c, Tail(ready))
        /\ UNCHANGED <<queue, cancelled>>
     \/ \* a frame; a cancel that came with it may be swallowed
        /\ wpc[c] = "get" /\ queue[source[c]] # <<>>
        /\ c \in cancelled => ~Python312
        /\ cancelled' = cancelled \ {c}
        /\ queue' = [queue EXCEPT ![source[c]] = Tail(@)]
        /\ IF Head(queue[source[c]]) = Sentinel THEN WriterEnds(c, ready)
           ELSE WriterWrites(c)
     \/ \* _heartbeat_interval passed without a frame
        /\ wpc[c] = "get" /\ queue[source[c]] = <<>> /\ c \notin cancelled
        /\ WriterWrites(c) /\ UNCHANGED <<queue, cancelled>>
     \/ /\ wpc[c] = "drain" /\ c \notin cancelled
        /\ IF c \in lost THEN WriterEnds(c, ready) ELSE WriterGets(c, ready)
        /\ UNCHANGED <<queue, cancelled>>
     \/ /\ wpc[c] \in {"get", "drain"} /\ c \in cancelled
        /\ WriterEnds(c, ready) /\ UNCHANGED <<queue, cancelled>>
  /\ UNCHANGED <<pc, wake, old, oldTask, slot, closeWaiters, lost, installed,
                 frames, subscribed>>

-----------------------------------------------------------------------------
(* asyncio.start_server hands a new connection to _handle_client.          *)
Arrive(c) ==
  /\ pc[c] = "new" /\ pc[Stopper] \notin {"stopWait", "done"}
  /\ Goto(c, "start") /\ ready' = Append(ready, c)
  /\ UNCHANGED <<wake, old, oldTask, slot, queue, writers, cancelled, waits, net,
                 hist, subscribed>>

Wakes(c, what) ==
  /\ pc[c] = "read" /\ wake[c] = None /\ c \notin lost
  /\ wake' = [wake EXCEPT ![c] = what] /\ ready' = Append(ready, c)
  /\ UNCHANGED <<pc, old, oldTask, slot, queue, writers, cancelled, waits, net,
                 installed, subscribed>>

(* A command arrives; the client ends its side or idles out.               *)
CommandArrives(c) ==
  /\ c \notin closed /\ frames < MaxFrames /\ frames' = frames + 1
  /\ Wakes(c, "cmd")

ClientLeaves(c) == Wakes(c, "eof") /\ UNCHANGED frames

(* connection_lost: the reader sees the end, then wait_closed() returns.   *)
Lose(c) ==
  /\ c \notin lost /\ pc[c] # "new" /\ lost' = lost \cup {c}
  /\ LET reads == pc[c] = "read" /\ wake[c] = None
     IN  /\ wake' = IF reads THEN [wake EXCEPT ![c] = "eof"] ELSE wake
         /\ ready' = ready \o (IF reads THEN <<c>> ELSE <<>>) \o closeWaiters[c]
  /\ closeWaiters' = [closeWaiters EXCEPT ![c] = <<>>]
  /\ UNCHANGED <<pc, old, oldTask, slot, queue, writers, cancelled, taskWaiters,
                 closed, hist, subscribed>>

ConnectionLost(c) == c \in closed /\ Lose(c)
ConnectionReset(c) == c \notin closed /\ Lose(c)

-----------------------------------------------------------------------------
(* stop: from closing the listening socket to retracting the callbacks.    *)
StopServer ==
  /\ clientWriter' = None
  /\ IF Python312 /\ \E c \in Conns : pc[c] # "new" /\ c \notin lost
     THEN Goto(Stopper, "stopWait") /\ UNCHANGED subscribed
     ELSE Goto(Stopper, "done") /\ subscribed' = FALSE

(* stop: the writer task has ended; close the client's writer.             *)
StopClient ==
  /\ ready' = Tail(ready) /\ writerTask' = None /\ writeQueue' = None
  /\ closed' = closed \cup ({clientWriter} \ {None})
  /\ IF clientWriter = None \/ clientWriter \in lost
     THEN StopServer /\ UNCHANGED closeWaiters
     ELSE /\ closeWaiters' = [closeWaiters EXCEPT ![clientWriter] = Append(@, Stopper)]
          /\ Goto(Stopper, "stopClose") /\ UNCHANGED <<clientWriter, subscribed>>

CallStop ==
  /\ Stopper \in Callers /\ pc[Stopper] = "new"
  /\ Goto(Stopper, "stop") /\ ready' = Append(ready, Stopper)
  /\ UNCHANGED <<wake, old, oldTask, slot, queue, writers, cancelled, waits, net,
                 hist, subscribed>>

Stop ==
  /\ Turn(Stopper, "stop")
  /\ queue' = IF writeQueue = None THEN queue ELSE Put(queue, writeQueue, Sentinel)
  /\ IF WriterRuns
     THEN /\ cancelled' = cancelled \cup {writerTask}
          /\ taskWaiters' = [taskWaiters EXCEPT ![writerTask] = Append(@, Stopper)]
          /\ Goto(Stopper, "stopTask") /\ ready' = Tail(ready)
          /\ UNCHANGED <<slot, closed, closeWaiters, subscribed>>
     ELSE StopClient /\ UNCHANGED <<cancelled, taskWaiters>>
  /\ UNCHANGED <<wake, old, oldTask, writers, lost, hist>>

StopTaskGone ==
  /\ Turn(Stopper, "stopTask") /\ StopClient
  /\ UNCHANGED <<wake, old, oldTask, queue, writers, cancelled, taskWaiters, lost,
                 hist>>

StopClientGone ==
  /\ Turn(Stopper, "stopClose") /\ StopServer /\ ready' = Tail(ready)
  /\ UNCHANGED <<wake, old, oldTask, writeQueue, writerTask, queue, writers,
                 cancelled, waits, net, hist>>

StopClientsGone ==
  /\ pc[Stopper] = "stopWait" /\ \A c \in Conns : pc[c] = "new" \/ c \in lost
  /\ Goto(Stopper, "done") /\ subscribed' = FALSE
  /\ UNCHANGED <<ready, wake, old, oldTask, slot, queue, writers, cancelled, waits,
                 net, hist>>

-----------------------------------------------------------------------------
ServerTurn ==
  \/ \E c \in Conns :
       \/ HandleClient(c) \/ EvictTaskGone(c) \/ EvictClosed(c)
       \/ ReadClientFrames(c) \/ CommandDone(c) \/ CleanupTaskGone(c)
  \/ Stop \/ StopTaskGone \/ StopClientGone \/ StopClientsGone

Environment ==
  \/ \E c \in Conns : \/ Arrive(c) \/ CommandArrives(c) \/ ClientLeaves(c)
                       \/ ConnectionReset(c)
  \/ PushEvent \/ CallStop

Next ==
  \/ ServerTurn \/ Environment
  \/ \E c \in Conns : CommandResumes(c) \/ WriterLoop(c) \/ ConnectionLost(c)

Spec == Init /\ [][Next]_vars

(* The event loop runs what is ready; a command handler's await ends; a    *)
(* writer takes its next step; a closed transport reports its loss.        *)
Fairness ==
  /\ WF_vars(ServerTurn)
  /\ \A c \in Conns : /\ WF_vars(CommandResumes(c)) /\ WF_vars(WriterLoop(c))
                       /\ WF_vars(ConnectionLost(c))

LiveSpec == Spec /\ Fairness

-----------------------------------------------------------------------------
Frames == Conns \cup {Push, Sentinel}

Served == {c \in Conns : pc[c] \in {"read", "cmd"} /\ c \notin closed \cup lost}

(* "One client at a time" (_handle_client): no two connections are read    *)
(* from while neither has been closed.                                     *)
OneClient == Cardinality(Served) <= 1

Newest == installed[Len(installed)]

(* _cleanup_client skips what a newer client has replaced: the last client *)
(* to take the slot keeps it and its queue while it is served.             *)
NewestKeepsSlot ==
  installed # <<>> /\ pc[Stopper] = "new" /\ pc[Newest] \in {"read", "cmd"}
    => clientWriter = Newest /\ writeQueue = Newest

(* "the existing connection is closed and the new one is accepted"         *)
(* (_handle_client): who arrives is served, or has gone.                   *)
EveryClientAccepted ==
  \A c \in Conns : pc[c] = "start" ~> (pc[c] \in {"read", "cmd"} \/ c \in lost)

=============================================================================
