------------------------------ MODULE KissLink ------------------------------
(***************************************************************************)
(* The serial link of the KISS modem (hardware/kiss_modem_wrapper.py):     *)
(* connect and disconnect, the RX and TX worker threads of each opening of *)
(* the port, _mark_serial_failure, the reconnect workers it starts, the    *)
(* commands of the handshake and the dispatcher's health check.            *)
(*                                                                         *)
(* These are threads: a step ends wherever another thread can tell.  A     *)
(* slot names one opening of the port: the Serial object and the two       *)
(* workers started for it; slots are used again once their threads are     *)
(* gone.  The retries of a ping or a configuration are one attempt, the    *)
(* ports tried in one pass of the reconnect loop are one port, the number  *)
(* of attempts is unlimited (the default), back-off sleeps may take any    *)
(* time.  What is exchanged over the link is left out.                     *)
(***************************************************************************)
EXTENDS Naturals

CONSTANTS
  Slots,
  Workers,            \* reconnect threads
  Openers, Closers,   \* calls of connect and of disconnect
  Health,             \* the thread that runs check_radio_health
  None,
  MaxFaults           \* bound on the failures of the port and the modem

Rx(s) == <<"rx", s>>
Tx(s) == <<"tx", s>>
Readers == {Rx(s) : s \in Slots}
Writers == {Tx(s) : s \in Slots}
Linkers == Workers \cup Openers  \* who brings the link up
Threads == Readers \cup Writers \cup Workers \cup Openers \cup Closers \cup {Health}

(* The threads are told apart.                                            *)
LinkAssumption ==
  /\ None \notin Slots \cup Threads /\ MaxFaults \in Nat
  /\ Health \notin Workers \cup Openers \cup Closers
  /\ Workers \cap (Openers \cup Closers) = {} /\ Openers \cap Closers = {}
  /\ (Workers \cup Openers \cup Closers \cup {Health}) \cap (Readers \cup Writers) = {}

VARIABLES
  pc,
  stage,          \* of a handshake: ready, then setup
  conn,           \* serial_conn, as the slot it belongs to
  opened,         \* the Serial objects that are open
  handle,         \* of each reader: the object it reads from
  rxThread,       \* slot of rx_thread and tx_thread
  reconnectThread,
  connLock, cmdLock, writeLock,   \* owners of the three locks
  stop,           \* stop_event
  gate,           \* _reconnecting_event
  connected, degraded,
  faults,         \* failures so far
  missed,         \* history: a failure met the gate of a worker about to leave
  outlived        \* history: a worker outlived the join, or connect found one

flags == <<stop, gate, connected, degraded>>
locks == <<connLock, cmdLock, writeLock>>
port  == <<conn, opened, handle, rxThread>>
hist  == <<faults, missed, outlived>>
vars  == <<pc, stage, port, reconnectThread, locks, flags, hist>>

Init ==
  /\ pc = [t \in Threads |-> IF t \in Readers \cup Writers THEN "dead" ELSE "idle"]
  /\ stage = [t \in Linkers |-> "ready"]
  /\ conn = None /\ opened = {} /\ handle = [s \in Slots |-> None]
  /\ rxThread = None /\ reconnectThread = None
  /\ connLock = None /\ cmdLock = None /\ writeLock = None
  /\ stop = FALSE /\ gate = FALSE /\ connected = FALSE /\ degraded = FALSE
  /\ faults = 0 /\ missed = FALSE /\ outlived = FALSE

Goto(t, place) == pc' = [pc EXCEPT ![t] = place]
Alive(t) == pc[t] # "dead"
PortOpen == conn \in opened

Fault == faults < MaxFaults /\ faults' = faults + 1
NoFault == UNCHANGED faults

(* _close_serial_connection                                                *)
Close == conn' = None /\ opened' = opened \ {conn}

(* The worker whose commands are let through will yet try to bring the     *)
(* link up.                                                                *)
Looking == reconnectThread # None /\ pc[reconnectThread] \notin {"idle", "exit"}

-----------------------------------------------------------------------------
(* _mark_serial_failure, called by whoever meets a failure.  It returns to *)
(* a writer's loop, to a command that gives up, to a reader that ends, or  *)
(* to the health check.                                                    *)
AfterMark(t) ==
  CASE t \in Readers -> "dead"
    [] t \in Writers -> "work"
    [] t \notin Readers \cup Writers /\ writeLock = t -> "failed"
    [] OTHER -> "idle"

(* The locks of the write that failed are given back on return.            *)
ReleaseWrite(t) ==
  IF writeLock = t
  THEN /\ writeLock' = None
       /\ cmdLock' = IF cmdLock = t THEN None ELSE cmdLock
  ELSE UNCHANGED <<writeLock, cmdLock>>

MarkDegraded(t) ==
  /\ pc[t] = "mark"
  /\ IF stop
     THEN Goto(t, AfterMark(t)) /\ ReleaseWrite(t) /\ UNCHANGED <<degraded, connected>>
     ELSE /\ Goto(t, "markClose") /\ degraded' = TRUE /\ connected' = FALSE
          /\ UNCHANGED <<writeLock, cmdLock>>
  /\ UNCHANGED <<stage, port, reconnectThread, connLock, stop, gate, hist>>

(* Mutant: waits for the connection lock.                                  *)
MarkCloseWaits(t) ==
  /\ pc[t] = "markClose" /\ Goto(t, "markGate")
  /\ connLock = None /\ Close
  /\ UNCHANGED <<stage, handle, rxThread, reconnectThread, locks, flags, hist>>

(* "Do not wait for the connection lock here": its owner closes the port.  *)
MarkClose(t) ==
  /\ pc[t] = "markClose" /\ Goto(t, "markGate")
  /\ IF connLock = None THEN Close ELSE UNCHANGED <<conn, opened>>
  /\ UNCHANGED <<stage, handle, rxThread, reconnectThread, locks, flags, hist>>

(* _start_reconnect_worker: the gate is tested, and set in a later step.   *)
MarkGate(t) ==
  /\ pc[t] = "markGate"
  /\ IF stop \/ gate
     THEN /\ Goto(t, AfterMark(t)) /\ ReleaseWrite(t)
          /\ missed' = (missed \/ (~stop /\ ~Looking))
     ELSE Goto(t, "markStart") /\ UNCHANGED <<writeLock, cmdLock, missed>>
  /\ UNCHANGED <<stage, port, reconnectThread, connLock, flags, faults, outlived>>

IdleWorkers == {w \in Workers : pc[w] = "idle"}

(* Workers bounds the reconnect threads alive at once: one started beyond  *)
(* that is not followed, and counts as missed.                             *)
MarkStart(t) ==
  /\ pc[t] = "markStart" /\ gate' = TRUE
  /\ IF IdleWorkers = {}
     THEN Goto(t, AfterMark(t)) /\ missed' = TRUE /\ UNCHANGED reconnectThread
     ELSE LET w == CHOOSE w \in IdleWorkers : TRUE
          IN  /\ reconnectThread' = w /\ UNCHANGED missed
              /\ pc' = [pc EXCEPT ![t] = AfterMark(t), ![w] = "loop"]
  /\ ReleaseWrite(t)
  /\ UNCHANGED <<stage, port, connLock, stop, connected, degraded, faults, outlived>>

MarkStep(t) == MarkDegraded(t) \/ MarkClose(t) \/ MarkGate(t) \/ MarkStart(t)

-----------------------------------------------------------------------------
(* _send_command.  Refused while the link is down, except to the reconnect *)
(* worker.                                                                 *)
CmdEnter(t) ==
  /\ pc[t] = "enter"
  /\ Goto(t, IF (gate \/ degraded) /\ t # reconnectThread THEN "failed" ELSE "lock")
  /\ UNCHANGED <<stage, port, reconnectThread, locks, flags, hist>>

(* The command lock, then _write_frame and its lock: a failed write is     *)
(* reported with both held.                                                *)
CmdWrite(t) ==
  /\ pc[t] = "lock" /\ cmdLock = None /\ writeLock = None
  /\ cmdLock' = t
  /\ \/ PortOpen /\ Goto(t, "await") /\ NoFault /\ UNCHANGED writeLock
     \/ PortOpen /\ Fault /\ Goto(t, "mark") /\ writeLock' = t
     \/ ~PortOpen /\ NoFault /\ Goto(t, "mark") /\ writeLock' = t
  /\ UNCHANGED <<stage, port, reconnectThread, connLock, flags, missed, outlived>>

(* A response needs a reader of the port the command went out on.          *)
Heard == PortOpen /\ \E s \in Slots : pc[Rx(s)] = "work" /\ handle[s] = conn

CmdAnswered(t) ==
  /\ pc[t] = "await" /\ Heard
  /\ Goto(t, "answered") /\ cmdLock' = None
  /\ UNCHANGED <<stage, port, reconnectThread, connLock, writeLock, flags, hist>>

CmdTimesOut(t) ==
  /\ pc[t] = "await"
  /\ IF Heard THEN Fault ELSE NoFault
  /\ Goto(t, "failed") /\ cmdLock' = None
  /\ UNCHANGED <<stage, port, reconnectThread, connLock, writeLock, flags, missed, outlived>>

CmdStep(t) == CmdEnter(t) \/ CmdWrite(t) \/ CmdAnswered(t) \/ CmdTimesOut(t)

-----------------------------------------------------------------------------
(* Bringing the link up, with the connection lock held: by connect, or by  *)
(* a reconnect worker.                                                     *)
(* The attempt failed: the worker goes round its loop, connect returns.    *)
GiveUp(t) ==
  /\ connLock' = None /\ stage' = [stage EXCEPT ![t] = "ready"]
  /\ Goto(t, IF t \in Workers THEN "loop" ELSE "done")

FreeSlots ==
  {s \in Slots : /\ ~Alive(Rx(s)) /\ ~Alive(Tx(s)) /\ s # conn
                 /\ \A o \in Slots : handle[o] # s}

(* _open_serial_and_start_threads, up to the start of the workers.  An     *)
(* object that nobody reads from is closed when it is replaced.            *)
Open(t) ==
  /\ pc[t] = "open" /\ FreeSlots # {}
  /\ LET s == CHOOSE s \in FreeSlots : TRUE
     IN  /\ conn' = s /\ rxThread' = s
         /\ opened' = {s} \cup {o \in opened : \E r \in Slots : handle[r] = o}
         /\ handle' = [handle EXCEPT ![s] = s]
         /\ pc' = [pc EXCEPT ![t] = "enter", ![Rx(s)] = "work", ![Tx(s)] = "work"]
  /\ UNCHANGED stage
  /\ connected' = FALSE
  /\ outlived' = (outlived \/ (t \in Openers /\ \E r \in Readers : Alive(r)))
  /\ UNCHANGED <<reconnectThread, locks, stop, gate, degraded, faults, missed>>

OpenFails(t) ==
  /\ pc[t] = "open" /\ Fault /\ GiveUp(t)
  /\ connected' = FALSE
  /\ UNCHANGED <<port, reconnectThread, cmdLock, writeLock, stop, gate, degraded,
                 missed, outlived>>

(* _wait_for_modem_ready, and the check that the RX worker survived it.    *)
Ready(t) ==
  /\ stage[t] = "ready" /\ pc[t] = "answered"
  /\ Alive(Rx(rxThread))

(* After readiness come the commands of _run_post_connect_handshake.  One  *)
(* stands for all: if configure_radio fails the port is closed, if a query *)
(* fails that is ignored.                                                  *)
HandshakeGoesOn(t) ==
  /\ \/ Ready(t) /\ stage' = [stage EXCEPT ![t] = "setup"] /\ Goto(t, "enter")
     \/ /\ stage[t] = "setup" /\ pc[t] \in {"answered", "failed"}
        /\ Goto(t, "commit") /\ UNCHANGED stage
  /\ UNCHANGED <<port, reconnectThread, locks, flags, hist>>

(* A modem that is not ready leaves the port open and its workers running. *)
HandshakeFails(t) ==
  /\ \/ /\ stage[t] = "ready" /\ pc[t] \in {"answered", "failed"} /\ ~Ready(t)
        /\ UNCHANGED <<conn, opened, connected>>
     \/ /\ stage[t] = "setup" /\ pc[t] = "failed"
        /\ Close /\ connected' = FALSE
  /\ GiveUp(t)
  /\ UNCHANGED <<handle, rxThread, reconnectThread, cmdLock, writeLock, stop, gate,
                 degraded, hist>>

(* connect also clears the reconnect gate.                                 *)
Commit(t) ==
  /\ pc[t] = "commit" /\ connected' = TRUE /\ degraded' = FALSE /\ connLock' = None
  /\ stage' = [stage EXCEPT ![t] = "ready"]
  /\ Goto(t, IF t \in Workers THEN "exit" ELSE "done")
  /\ gate' = (gate /\ t \in Workers)
  /\ UNCHANGED <<port, reconnectThread, cmdLock, writeLock, stop, hist>>

LinkStep(t) == \/ Open(t) \/ OpenFails(t) \/ HandshakeGoesOn(t) \/ HandshakeFails(t)
               \/ Commit(t)

-----------------------------------------------------------------------------
(* _reconnect_worker and _reconnect_loop                                   *)
WorkerLoop(w) ==
  /\ pc[w] = "loop" /\ Goto(w, IF stop THEN "exit" ELSE "acquire")
  /\ UNCHANGED <<stage, port, reconnectThread, locks, flags, hist>>

(* Under the lock: give up if stopped, else close the port before joining  *)
(* the workers (_stop_io_threads).                                         *)
WorkerLock(w) ==
  /\ pc[w] = "acquire" /\ connLock = None
  /\ IF stop
     THEN Goto(w, "exit") /\ UNCHANGED <<connLock, connected, opened>>
     ELSE /\ Goto(w, "join") /\ connLock' = w
          /\ connected' = FALSE /\ opened' = opened \ {conn}
  /\ UNCHANGED <<stage, conn, handle, rxThread, reconnectThread, cmdLock, writeLock,
                 stop, gate, degraded, hist>>

IoAlive == rxThread # None /\ (Alive(Rx(rxThread)) \/ Alive(Tx(rxThread)))

(* Mutant: the workers are not waited for.                                 *)
WorkerJoinsNot(w) ==
  /\ pc[w] = "join" /\ Goto(w, "open")
  /\ UNCHANGED <<stage, port, reconnectThread, locks, flags, hist>>

(* The join returns when the workers have ended, or on its timeout.        *)
WorkerJoins(w) ==
  /\ pc[w] = "join" /\ Goto(w, "open")
  /\ outlived' = (outlived \/ IoAlive)
  /\ IF IoAlive THEN Fault ELSE NoFault
  /\ UNCHANGED <<stage, port, reconnectThread, locks, flags, missed>>

WorkerExits(w) ==
  /\ pc[w] = "exit" /\ gate' = FALSE /\ Goto(w, "idle")
  /\ UNCHANGED <<stage, port, reconnectThread, locks, stop, connected, degraded, hist>>

WorkerStep(w) == \/ WorkerLoop(w) \/ WorkerLock(w) \/ WorkerJoins(w) \/ WorkerExits(w)

-----------------------------------------------------------------------------
(* connect                                                                 *)
Connect(o) ==
  /\ pc[o] = "idle" /\ connLock = None
  /\ connLock' = o /\ stop' = FALSE /\ connected' = FALSE /\ Goto(o, "open")
  /\ UNCHANGED <<stage, port, reconnectThread, cmdLock, writeLock, gate, degraded, hist>>

(* disconnect: the part under the lock.  The joins that follow have        *)
(* timeouts and change nothing.                                            *)
Disconnect(c) ==
  /\ pc[c] = "idle" /\ connLock = None
  /\ stop' = TRUE /\ connected' = FALSE /\ degraded' = FALSE /\ gate' = FALSE
  /\ Close /\ Goto(c, "done")
  /\ UNCHANGED <<stage, handle, rxThread, reconnectThread, locks, hist>>

-----------------------------------------------------------------------------
(* check_radio_health, from the dispatcher's loop: a ping when connected.  *)
HealthCheck ==
  /\ pc[Health] = "idle" /\ connected
  /\ Goto(Health, "enter")
  /\ UNCHANGED <<stage, port, reconnectThread, locks, flags, hist>>

(* Mutant: the failed ping is only reported.                               *)
HealthResultIgnored ==
  /\ pc[Health] \in {"answered", "failed"} /\ Goto(Health, "idle")
  /\ UNCHANGED <<stage, port, reconnectThread, locks, flags, hist>>

HealthResult ==
  /\ pc[Health] \in {"answered", "failed"}
  /\ Goto(Health, IF pc[Health] = "answered" THEN "idle" ELSE "mark")
  /\ UNCHANGED <<stage, port, reconnectThread, locks, flags, hist>>

-----------------------------------------------------------------------------
(* _rx_worker: its loop condition looks at the current port, its read at   *)
(* the one the loop found.                                                 *)
RxExits(s) ==
  /\ pc[Rx(s)] = "work" /\ (stop \/ ~PortOpen) /\ Goto(Rx(s), "dead")
  /\ handle' = [handle EXCEPT ![s] = None]
  /\ UNCHANGED <<stage, conn, opened, rxThread, reconnectThread, locks, flags, hist>>

(* A worker that outlived its port goes on with the next one.              *)
RxAdopts(s) ==
  /\ pc[Rx(s)] = "work" /\ ~stop /\ PortOpen /\ handle[s] # conn
  /\ handle' = [handle EXCEPT ![s] = conn]
  /\ opened' = opened \ ({handle[s]} \ {handle[o] : o \in Slots \ {s}})
  /\ UNCHANGED <<pc, stage, conn, rxThread, reconnectThread, locks, flags, hist>>

(* read raises: the port was closed under it, or failed.                   *)
RxFails(s) ==
  /\ pc[Rx(s)] = "work"
  /\ IF handle[s] \in opened THEN Fault ELSE NoFault
  /\ Goto(Rx(s), IF stop THEN "dead" ELSE "mark")
  /\ handle' = [handle EXCEPT ![s] = None]
  /\ UNCHANGED <<stage, conn, opened, rxThread, reconnectThread, locks, flags, missed,
                 outlived>>

(* _tx_worker: with a frame to write and a port that fails, or is closed   *)
(* after the loop condition was tested.                                    *)
TxFails(s) ==
  /\ pc[Tx(s)] = "work" /\ ~stop /\ writeLock = None
  /\ writeLock' = Tx(s) /\ Goto(Tx(s), "mark") /\ Fault
  /\ UNCHANGED <<stage, port, reconnectThread, connLock, cmdLock, flags, missed, outlived>>

TxExits(s) ==
  /\ pc[Tx(s)] = "work" /\ (stop \/ ~PortOpen) /\ Goto(Tx(s), "dead")
  /\ UNCHANGED <<stage, port, reconnectThread, locks, flags, hist>>

-----------------------------------------------------------------------------
Next ==
  \/ \E t \in Threads : MarkStep(t) \/ CmdStep(t)
  \/ \E t \in Linkers : LinkStep(t)
  \/ \E w \in Workers : WorkerStep(w)
  \/ \E o \in Openers : Connect(o)
  \/ \E c \in Closers : Disconnect(c)
  \/ HealthCheck \/ HealthResult
  \/ \E s \in Slots : \/ RxExits(s) \/ RxAdopts(s) \/ RxFails(s)
                      \/ TxFails(s) \/ TxExits(s)

Spec == Init /\ [][Next]_vars

(* Threads run, commands are answered or time out, and the dispatcher goes *)
(* on checking the radio's health.  A thread blocked on the connection     *)
(* lock gets it, however often others take it: a worker that fails sleeps  *)
(* with the lock free before it tries again.                               *)
Fairness ==
  /\ \A t \in Threads : WF_vars(MarkStep(t)) /\ WF_vars(CmdStep(t))
  /\ \A t \in Linkers : WF_vars(LinkStep(t))
  /\ \A w \in Workers : WF_vars(WorkerStep(w)) /\ SF_vars(WorkerLock(w))
  /\ WF_vars(HealthCheck) /\ WF_vars(HealthResult)
  /\ \A s \in Slots : WF_vars(RxExits(s) \/ RxAdopts(s)) /\ WF_vars(TxExits(s))

LiveSpec == Spec /\ Fairness

-----------------------------------------------------------------------------

(* No two RX workers feed the one KISS decoder ("Two RX threads then       *)
(* shared a single KISS decoder buffer", _stop_io_threads), as long as the *)
(* joins are in time and connect is not called over a live link.           *)
OneReader == ~outlived => \A q, r \in Readers : Alive(q) /\ Alive(r) => q = r

(* A link marked degraded comes back, unless it is disconnected or the     *)
(* failure was reported while the reconnect worker was on its way out: it  *)
(* clears the gate only after it has given up the connection lock, so a    *)
(* report in between starts no worker and the link stays down.  Otherwise  *)
(* no order of the locks keeps the worker, or the thread that reports to   *)
(* it, waiting for ever ("Waiting would form an ABBA deadlock",            *)
(* _mark_serial_failure).                                                  *)
RecoversUnlessMissed == degraded ~> connected \/ stop \/ missed

Deaf == connected /\ \A r \in Readers : ~Alive(r)

(* A link that is connected with no RX worker left ("the node went         *)
(* permanently deaf", _rx_worker) is found out.                            *)
DeafnessNoticed == Deaf ~> ~Deaf
=============================================================================
