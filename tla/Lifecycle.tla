------------------------------ MODULE Lifecycle -----------------------------
(***************************************************************************)
(* Starting and stopping: Dispatcher.run_forever, stop, cleanup, _arm_rx   *)
(* and _disarm_rx (node/dispatcher.py) under CompanionRadio.start and stop *)
(* (companion/companion_radio.py).                                         *)
(*                                                                         *)
(* Each call of start, stop or cleanup runs in a task of its own; a start  *)
(* that finds the radio not running spawns one more, its runner, which     *)
(* executes run_forever.  Whatever makes a task runnable (create_task,     *)
(* sleep(0), an event, a timer, a thread's return, the application) puts   *)
(* it at the end of the event loop's ready queue, and the task at the head *)
(* runs up to its next await in one step.  stop() relies on that order.    *)
(***************************************************************************)
EXTENDS Naturals, Sequences, FiniteSets

CONSTANTS
  Starts, Stops, Cleanups,  \* calls of CompanionRadio.start and stop, and of
                            \* Dispatcher.cleanup
  NoTask,
  StartFaults   \* what may fail in a starting runner: "node" (before run_forever),
                \* "arm" (the radio's set_rx_callback raises)

ASSUME TasksAssumption ==
  /\ Starts \cap (Stops \cup Cleanups) = {}
  /\ Stops \cap Cleanups = {} /\ NoTask \notin Starts

ASSUME FaultsAssumption == StartFaults \subseteq {"node", "arm"}

VARIABLES
  pc,             \* of the calls
  loop,           \* of the runner of each start
  ready,          \* the ready queue
  running,        \* CompanionRadio._running
  dispatcherTask, \* CompanionRadio._dispatcher_task: the start it belongs to
  awaits,         \* the runner that a stop awaits
  stopEvent, stoppedEvent, active, rxEnabled,  \* of the Dispatcher
  fresh,          \* history: the stops since whose call no start was made
  overlapped      \* history: a start was called while a stop was under way

vars == <<pc, loop, ready, running, dispatcherTask, awaits, stopEvent,
          stoppedEvent, active, rxEnabled, fresh, overlapped>>
radioVars == <<running, dispatcherTask, awaits>>
eventVars == <<stopEvent, stoppedEvent, active, rxEnabled>>

Calls == Starts \cup Stops \cup Cleanups
Runner(s) == <<"runner", s>>
Caller(c) == <<"caller", c>>

Init ==
  /\ pc = [c \in Calls |-> "idle"] /\ loop = [s \in Starts |-> "none"]
  /\ ready = <<>>
  /\ running = FALSE /\ dispatcherTask = NoTask
  /\ awaits = [c \in Stops |-> NoTask]
  /\ stopEvent = FALSE /\ stoppedEvent = TRUE /\ active = FALSE
  /\ rxEnabled = TRUE    \* the constructor arms RX
  /\ fresh = {} /\ overlapped = FALSE

Goto(c, place) == pc' = [pc EXCEPT ![c] = place]
Queued(task) == \E i \in 1..Len(ready) : ready[i] = task
Ended(s) == loop[s] \in {"ended", "died", "unarmed"}
Finished == {"done", "failed"}

(* The task at the head of the ready queue runs and leaves the queue;      *)
(* `woken` are the tasks it makes runnable.                                *)
Resumes(task) == ready # <<>> /\ Head(ready) = task
Runs(task, woken) == Resumes(task) /\ ready' = Tail(ready) \o woken

-----------------------------------------------------------------------------
(* What happens outside the queue.                                         *)

StopPending == \E c \in Stops : pc[c] \notin Finished
                                /\ (pc[c] # "idle" \/ Queued(Caller(c)))

(* The application makes a call.                                           *)
CallMade(c) ==
  /\ pc[c] = "idle" /\ ~Queued(Caller(c))
  /\ ready' = Append(ready, Caller(c))
  /\ overlapped' = (overlapped \/ (c \in Starts /\ StopPending))
  /\ UNCHANGED <<pc, loop, radioVars, eventVars, fresh>>

(* The last of the pending reciprocal tasks ends, and stop() goes on.      *)
ReciprocalsOver(c) ==
  /\ pc[c] = "reciprocals" /\ ~Queued(Caller(c))
  /\ ready' = Append(ready, Caller(c))
  /\ UNCHANGED <<pc, loop, radioVars, eventVars, fresh, overlapped>>

(* The stop event or the one-second timer ends the wait of the loop, or    *)
(* the health-check thread returns.                                        *)
LoopWakes(s) ==
  /\ loop[s] \in {"tick", "health"} /\ ~Queued(Runner(s))
  /\ ready' = Append(ready, Runner(s))
  /\ UNCHANGED <<pc, loop, radioVars, eventVars, fresh, overlapped>>

-----------------------------------------------------------------------------
(* run_forever, executed by the runner of start s.                         *)

(* The prelude, one step up to the first await: clear both events, arm RX, *)
(* make the first maintenance pass, wait for the stop event.               *)
RunPrelude(s) ==
  /\ loop[s] = "none" /\ Runs(Runner(s), <<>>)
  /\ loop' = [loop EXCEPT ![s] = "tick"]
  /\ stopEvent' = FALSE /\ stoppedEvent' = FALSE
  /\ active' = TRUE /\ rxEnabled' = TRUE
  /\ UNCHANGED <<pc, radioVars, fresh>>

(* node.start fails before it enters run_forever.                          *)
NodeFails(s) ==
  /\ "node" \in StartFaults /\ loop[s] = "none" /\ Runs(Runner(s), <<>>)
  /\ loop' = [loop EXCEPT ![s] = "died"]
  /\ UNCHANGED <<pc, radioVars, eventVars, fresh>>

(* _arm_rx raises; that is before the `try`, so `finally` does not run.    *)
ArmFails(s) ==
  /\ "arm" \in StartFaults /\ loop[s] = "none" /\ Runs(Runner(s), <<>>)
  /\ loop' = [loop EXCEPT ![s] = "unarmed"]
  /\ stopEvent' = FALSE /\ stoppedEvent' = FALSE
  /\ active' = TRUE /\ rxEnabled' = TRUE
  /\ UNCHANGED <<pc, radioVars, fresh>>

(* The calls in S, in any order of waking.                                 *)
WakeOrders(S) ==
  {w \in UNION {[1..n -> S] : n \in 0..Cardinality(Stops)} :
     /\ \A i, j \in DOMAIN w : w[i] = w[j] => i = j
     /\ \A c \in S : \E i \in DOMAIN w : w[i] = c}

(* Mutant: the `finally` clause forgets _run_forever_active.               *)
LoopEndStillActive(s, how) ==
  /\ \E woken \in WakeOrders({c \in Stops : \/ pc[c] = "waitStopped" /\ ~Queued(Caller(c))
                                            \/ pc[c] = "awaitTask" /\ awaits[c] = s}) :
       Runs(Runner(s), [i \in 1..Len(woken) |-> Caller(woken[i])])
  /\ loop' = [loop EXCEPT ![s] = how]
  /\ rxEnabled' = FALSE /\ stoppedEvent' = TRUE
  /\ UNCHANGED <<pc, radioVars, stopEvent, active, fresh>>

(* The `finally` clause and the end of the task: whoever awaits the        *)
(* stopped event or the task is woken.                                     *)
LoopEnd(s, how) ==
  /\ \E waiters \in WakeOrders({c \in Stops : pc[c] = "waitStopped" /\ ~Queued(Caller(c))}),
        joiners \in WakeOrders({c \in Stops : pc[c] = "awaitTask" /\ awaits[c] = s}) :
       Runs(Runner(s), [i \in 1..Len(waiters \o joiners) |-> Caller((waiters \o joiners)[i])])
  /\ loop' = [loop EXCEPT ![s] = how]
  /\ active' = FALSE /\ rxEnabled' = FALSE /\ stoppedEvent' = TRUE
  /\ UNCHANGED <<pc, radioVars, stopEvent, fresh>>

(* The wait is over: leave if the event is set, else one more pass, every  *)
(* sixtieth of which runs check_radio_health in a thread.                  *)
LoopStops(s) == loop[s] = "tick" /\ stopEvent /\ LoopEnd(s, "ended")

LoopPass(s) ==
  /\ loop[s] = "tick" /\ ~stopEvent /\ Runs(Runner(s), <<>>)
  /\ \E place \in {"tick", "health"} : loop' = [loop EXCEPT ![s] = place]
  /\ UNCHANGED <<pc, radioVars, eventVars, fresh>>

HealthDone(s) ==
  /\ loop[s] = "health" /\ Runs(Runner(s), <<>>)
  /\ loop' = [loop EXCEPT ![s] = "tick"]
  /\ UNCHANGED <<pc, radioVars, eventVars, fresh>>

(* check_radio_health raised.                                              *)
LoopDies(s) == loop[s] = "health" /\ LoopEnd(s, "died")

RunnerStep(s) == \/ RunPrelude(s) \/ NodeFails(s) \/ ArmFails(s) \/ LoopStops(s)
                 \/ LoopPass(s) \/ HealthDone(s) \/ LoopDies(s)

-----------------------------------------------------------------------------
(* CompanionRadio.start: spawn the runner, then poll until it is active.   *)

Start(s) ==
  /\ pc[s] = "idle" /\ Resumes(Caller(s))
  /\ fresh' = {}
  /\ IF running
     THEN /\ Goto(s, "done") /\ Runs(Caller(s), <<>>)
          /\ UNCHANGED <<running, dispatcherTask>>
     ELSE /\ running' = TRUE /\ dispatcherTask' = s
          /\ Goto(s, IF active THEN "done" ELSE "starting")
          /\ Runs(Caller(s), IF active THEN <<Runner(s)>>
                                       ELSE <<Runner(s), Caller(s)>>)
  /\ UNCHANGED <<loop, awaits, eventVars>>

StartPolls(s) ==
  /\ pc[s] = "starting" /\ Resumes(Caller(s))
  /\ IF active
     THEN /\ Goto(s, "done") /\ Runs(Caller(s), <<>>)
          /\ UNCHANGED <<running, dispatcherTask>>
     ELSE IF dispatcherTask = NoTask     \* None.done() raises
     THEN /\ Goto(s, "failed") /\ Runs(Caller(s), <<>>)
          /\ UNCHANGED <<running, dispatcherTask>>
     ELSE IF Ended(dispatcherTask)
     THEN /\ dispatcherTask' = NoTask /\ running' = FALSE
          /\ Goto(s, IF loop[dispatcherTask] = "ended" THEN "done" ELSE "failed")
          /\ Runs(Caller(s), <<>>)
     ELSE /\ Runs(Caller(s), <<Caller(s)>>)
          /\ UNCHANGED <<pc, running, dispatcherTask>>
  /\ UNCHANGED <<loop, awaits, eventVars, fresh>>

StartStep(s) == Start(s) \/ StartPolls(s)

-----------------------------------------------------------------------------
(* CompanionRadio.stop.                                                    *)

(* Dispatcher.stop has returned: await the dispatcher task, if there is    *)
(* one; a task that is over is not waited for, and its exception is raised *)
(* out of stop.                                                            *)
AwaitTask(c, task) ==
  /\ awaits' = [awaits EXCEPT ![c] = task]
  /\ IF task = NoTask \/ Ended(task)
     THEN IF task # NoTask /\ loop[task] # "ended"
          THEN Goto(c, "failed") /\ UNCHANGED dispatcherTask
          ELSE Goto(c, "done") /\ dispatcherTask' = NoTask
     ELSE Goto(c, "awaitTask") /\ UNCHANGED dispatcherTask

WaitStopped(c) ==
  IF stoppedEvent
  THEN AwaitTask(c, dispatcherTask)
  ELSE Goto(c, "waitStopped") /\ UNCHANGED <<awaits, dispatcherTask>>

(* Dispatcher.stop, from its entry to its first await.                     *)
DispatcherStop(c) ==
  /\ stopEvent' = TRUE /\ rxEnabled' = FALSE
  /\ IF active
     THEN Runs(Caller(c), <<>>) /\ WaitStopped(c)
     ELSE /\ Runs(Caller(c), <<Caller(c)>>)
          /\ Goto(c, "yielded") /\ UNCHANGED <<awaits, dispatcherTask>>
  /\ UNCHANGED <<stoppedEvent, active>>

(* stop suspends in wait_for_pending_reciprocals if there are any.         *)
Stop(c) ==
  /\ pc[c] = "idle"
  /\ running' = FALSE /\ fresh' = fresh \cup {c}
  /\ \/ /\ Goto(c, "reciprocals") /\ Runs(Caller(c), <<>>)
        /\ UNCHANGED <<dispatcherTask, awaits, eventVars>>
     \/ DispatcherStop(c)
  /\ UNCHANGED loop

ReciprocalsAwaited(c) ==
  /\ pc[c] = "reciprocals" /\ DispatcherStop(c)
  /\ UNCHANGED <<loop, running, fresh>>

(* Mutant: stop does not signal again after it has yielded.                *)
StopYieldedOnce(c) ==
  /\ pc[c] = "yielded" /\ Runs(Caller(c), <<>>)
  /\ IF active THEN WaitStopped(c) ELSE AwaitTask(c, dispatcherTask)
  /\ UNCHANGED <<loop, running, eventVars, fresh>>

(* Back from sleep(0): signal again, and look whether a runner that had    *)
(* only been scheduled is active now.                                      *)
StopYielded(c) ==
  /\ pc[c] = "yielded" /\ Runs(Caller(c), <<>>)
  /\ stopEvent' = TRUE /\ rxEnabled' = FALSE
  /\ IF active THEN WaitStopped(c) ELSE AwaitTask(c, dispatcherTask)
  /\ UNCHANGED <<loop, running, stoppedEvent, active, fresh>>

(* The stopped event, and then the task, has woken the call.               *)
StoppedSeen(c) ==
  /\ pc[c] = "waitStopped" /\ Runs(Caller(c), <<>>)
  /\ AwaitTask(c, dispatcherTask)
  /\ UNCHANGED <<loop, running, eventVars, fresh>>

TaskAwaited(c) ==
  /\ pc[c] = "awaitTask" /\ Runs(Caller(c), <<>>)
  /\ AwaitTask(c, awaits[c])
  /\ UNCHANGED <<loop, running, eventVars, fresh>>

StopStep(c) == \/ Stop(c) \/ ReciprocalsAwaited(c) \/ StopYielded(c)
               \/ StoppedSeen(c) \/ TaskAwaited(c)

(* Dispatcher.cleanup: the same signal, without waiting.                   *)
Cleanup(c) ==
  /\ Runs(Caller(c), <<>>) /\ Goto(c, "done")
  /\ stopEvent' = TRUE /\ rxEnabled' = FALSE
  /\ UNCHANGED <<loop, radioVars, stoppedEvent, active, fresh>>

-----------------------------------------------------------------------------
ServeQueue == /\ \/ \E s \in Starts : RunnerStep(s) \/ StartStep(s)
                 \/ \E c \in Stops : StopStep(c)
                 \/ \E c \in Cleanups : Cleanup(c)
              /\ UNCHANGED overlapped

Next ==
  \/ ServeQueue
  \/ \E c \in Calls : CallMade(c)
  \/ \E c \in Stops : ReciprocalsOver(c)
  \/ \E s \in Starts : LoopWakes(s)

Spec == Init /\ [][Next]_vars

(* The event loop serves its queue, timers fire, threads return, and the   *)
(* cancelled reciprocal tasks end.  Whether calls are made is left open.   *)
Fairness ==
  /\ WF_vars(ServeQueue)
  /\ \A c \in Stops : WF_vars(ReciprocalsOver(c))
  /\ \A s \in Starts : WF_vars(LoopWakes(s))

LiveSpec == Spec /\ Fairness

-----------------------------------------------------------------------------

(* When stop() has returned and nobody has called start() since that stop  *)
(* was called, the node is really stopped: RX is disarmed, no loop is      *)
(* active and no runner is still to come, even where the stop met a        *)
(* run_forever that had only been scheduled.  (As long as no start was     *)
(* called while a stop was under way, which CompanionRadio does not guard  *)
(* against.)                                                               *)
StopIsFinal ==
  ~overlapped => \A c \in fresh : pc[c] \in Finished =>
    /\ ~rxEnabled /\ ~active
    /\ \A s \in Starts : loop[s] \notin {"tick", "health"} /\ ~Queued(Runner(s))

(* Every stop() returns, whenever it is called, unless a runner left RX    *)
(* unarmed, which the start that made it does not report, or a start was   *)
(* called while a stop was under way: that start sees the old loop active  *)
(* and returns before its own runner has run, whose prelude then undoes    *)
(* the next stop.                                                          *)
EveryStopReturns ==
  \A c \in Stops :
    pc[c] # "idle" ~> \/ pc[c] \in Finished
                      \/ overlapped \/ \E s \in Starts : loop[s] = "unarmed"

=============================================================================
