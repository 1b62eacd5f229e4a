------------------------------ MODULE TxBudget ------------------------------
(***************************************************************************)
(* The airtime duty-cycle budget of node/dispatcher.py: _duty_cycle,       *)
(* _reset_tx_budget, _refill_tx_budget, _tx_budget_wait_s,                 *)
(* _await_tx_budget, _debit_tx_budget and the throttle loop of             *)
(* send_packet.                                                            *)
(*                                                                         *)
(* Time is in ticks, the budget in whole units: the duty cycle is `rate`   *)
(* units per tick, the bucket holds Window ticks of it.  The budget is     *)
(* refilled only when it is read, for the time since it was last refilled  *)
(* and at the duty cycle of that moment.                                   *)
(***************************************************************************)
EXTENDS Integers, Sequences

CONSTANTS
  Tasks,       \* calls of send_packet
  NoTask,
  Rates,       \* duty cycles the application may set, in units per tick
  Window,      \* DUTY_CYCLE_WINDOW_MS, in ticks
  Reserve,     \* half the airtime of MAX_TRANS_UNIT: what admission asks for
  MinReserve,  \* MIN_TX_BUDGET_RESERVE_MS: below it the next send is paced
  Airtimes     \* estimated airtimes of packets

ASSUME BudgetAssumption ==
  /\ Rates # {} /\ Rates \subseteq Nat \ {0} /\ Window \in Nat \ {0}
  /\ Reserve \in Nat \ {0} /\ MinReserve \in Nat /\ Airtimes \subseteq Nat
  /\ \A r \in Rates : Reserve <= Window * r
ASSUME NoTaskAssumption == NoTask \notin Tasks

VARIABLES
  pc, sleep,     \* of each call, and the rest of its throttling sleep
  gated,         \* calls made with client-repeat on
  owner, queue,  \* _tx_lock
  budget, lag,   \* _tx_budget_ms; ticks since _tx_budget_last_update
  pace,          \* _tx_next_time - now, when positive
  rate,          \* the duty cycle
  clientRepeat

vars == <<pc, sleep, gated, owner, queue, budget, lag, pace, rate, clientRepeat>>
bucket == <<budget, lag, pace>>

Init ==
  /\ pc = [t \in Tasks |-> "new"] /\ sleep = [t \in Tasks |-> 0]
  /\ gated = {} /\ owner = NoTask /\ queue = <<>>
  /\ budget = 0 /\ lag = 0 /\ pace = 0
  /\ rate \in Rates /\ clientRepeat = FALSE

Goto(t, place) == pc' = [pc EXCEPT ![t] = place]

Least(a, b) == IF a < b THEN a ELSE b

(* Ticks until the refill makes up for a shortfall.                        *)
TicksFor(units) == IF units <= 0 THEN 0 ELSE (units + rate - 1) \div rate

-----------------------------------------------------------------------------
MaxBudget == Window * rate

(* _reset_tx_budget                                                        *)
ResetTxBudget == budget' = MaxBudget /\ lag' = 0 /\ pace' = 0

(* Mutant: last_update moves on but nothing is added.                      *)
ForgottenRefill == budget

(* _refill_tx_budget: nothing is clamped when no time has passed.          *)
Refilled == IF lag = 0 THEN budget ELSE Least(budget + lag * rate, MaxBudget)

(* _tx_budget_wait_s, in ticks, of a refilled budget.                      *)
Wait == LET short == TicksFor(Reserve - Refilled)
        IN  IF short > pace THEN short ELSE pace

(* _debit_tx_budget                                                        *)
Debit(airtime) ==
  LET left == IF airtime > Refilled THEN 0 ELSE Refilled - airtime
  IN  budget' = left /\ lag' = 0 /\ pace' = TicksFor(MinReserve - left)

-----------------------------------------------------------------------------
(* A turn of the throttle loop: the wait is looked up, which refills.      *)
Refill == budget' = Refilled /\ lag' = 0 /\ UNCHANGED pace

Acquire(t) ==
  IF owner = NoTask /\ queue = <<>>
  THEN owner' = t /\ Goto(t, "radio") /\ UNCHANGED queue
  ELSE queue' = Append(queue, t) /\ Goto(t, "queue") /\ UNCHANGED owner

(* _await_tx_budget: sleep, or go for the lock.  A free lock is taken in   *)
(* the same step, so the recheck under it has the same outcome.            *)
AwaitTxBudget(t) ==
  IF clientRepeat
  THEN /\ Refill
       /\ IF Wait = 0
          THEN Acquire(t) /\ UNCHANGED sleep
          ELSE /\ Goto(t, "throttle") /\ sleep' = [sleep EXCEPT ![t] = Wait]
               /\ UNCHANGED <<owner, queue>>
  ELSE Acquire(t) /\ UNCHANGED <<sleep, bucket>>

SendPacket(t) ==
  /\ pc[t] = "new"
  /\ IF clientRepeat
     THEN gated' = gated \cup {t} /\ AwaitTxBudget(t)
     ELSE Acquire(t) /\ UNCHANGED <<gated, sleep, bucket>>
  /\ UNCHANGED <<rate, clientRepeat>>

Wake(t) ==
  /\ pc[t] = "throttle" /\ sleep[t] = 0
  /\ AwaitTxBudget(t)
  /\ UNCHANGED <<gated, rate, clientRepeat>>

(* The lock is handed over: a gated call decides again, and falls out of   *)
(* the lock to throttle when another call has spent the budget meanwhile.  *)
Granted(t) ==
  /\ pc[t] = "queue" /\ owner = NoTask /\ queue # <<>> /\ Head(queue) = t
  /\ queue' = Tail(queue)
  /\ IF t \in gated /\ clientRepeat
     THEN /\ Refill
          /\ IF Wait = 0
             THEN owner' = t /\ Goto(t, "radio") /\ UNCHANGED sleep
             ELSE /\ Goto(t, "throttle") /\ sleep' = [sleep EXCEPT ![t] = Wait]
                  /\ UNCHANGED owner
     ELSE owner' = t /\ Goto(t, "radio") /\ UNCHANGED <<sleep, bucket>>
  /\ UNCHANGED <<gated, rate, clientRepeat>>

(* radio.send returned: the airtime is spent if client-repeat is on now.   *)
RadioSent(t) ==
  /\ pc[t] = "radio" /\ owner' = NoTask /\ Goto(t, "done")
  /\ IF clientRepeat THEN \E a \in Airtimes : Debit(a) ELSE UNCHANGED bucket
  /\ UNCHANGED <<sleep, gated, queue, rate, clientRepeat>>

(* radio.send failed, or the call was cancelled inside the lock.           *)
RadioFailed(t) ==
  /\ pc[t] = "radio" /\ owner' = NoTask /\ Goto(t, "done")
  /\ UNCHANGED <<sleep, gated, queue, bucket, rate, clientRepeat>>

(* The call is cancelled in its sleep or in the lock's queue.              *)
CancelThrottled(t) ==
  /\ pc[t] = "throttle" /\ Goto(t, "done")
  /\ sleep' = [sleep EXCEPT ![t] = 0]
  /\ UNCHANGED <<gated, owner, queue, bucket, rate, clientRepeat>>

CancelQueued(t) ==
  /\ pc[t] = "queue" /\ Goto(t, "done")
  /\ \E i \in 1..Len(queue) :
       /\ queue[i] = t
       /\ queue' = SubSeq(queue, 1, i - 1) \o SubSeq(queue, i + 1, Len(queue))
  /\ UNCHANGED <<sleep, gated, owner, bucket, rate, clientRepeat>>

-----------------------------------------------------------------------------
(* set_client_repeat_enabled                                               *)
SetClientRepeat ==
  /\ clientRepeat' = ~clientRepeat
  /\ IF clientRepeat THEN UNCHANGED bucket ELSE ResetTxBudget
  /\ UNCHANGED <<pc, sleep, gated, owner, queue, rate>>

(* CompanionRadio.set_tuning_params                                        *)
SetTuningParams ==
  /\ \E r \in Rates \ {rate} : rate' = r
  /\ UNCHANGED <<pc, sleep, gated, owner, queue, bucket, clientRepeat>>

(* The clock.  More than Window ticks of lag refill no more than Window.   *)
Tick ==
  /\ lag' = Least(lag + 1, Window)
  /\ pace' = IF pace > 0 THEN pace - 1 ELSE 0
  /\ sleep' = [t \in Tasks |-> IF sleep[t] > 0 THEN sleep[t] - 1 ELSE 0]
  /\ UNCHANGED <<pc, gated, owner, queue, budget, rate, clientRepeat>>

TaskStep(t) == \/ SendPacket(t) \/ Wake(t) \/ Granted(t)
               \/ RadioSent(t) \/ RadioFailed(t)

Next ==
  \/ \E t \in Tasks : TaskStep(t) \/ CancelThrottled(t) \/ CancelQueued(t)
  \/ SetClientRepeat \/ SetTuningParams \/ Tick

Spec == Init /\ [][Next]_vars

(* The event loop runs every ready task, radio.send returns, time passes.  *)
Fairness == (\A t \in Tasks : WF_vars(TaskStep(t))) /\ WF_vars(Tick)

LiveSpec == Spec /\ Fairness

-----------------------------------------------------------------------------
TypeOK ==
  /\ pc \in [Tasks -> {"new", "throttle", "queue", "radio", "done"}]
  /\ sleep \in [Tasks -> Nat] /\ gated \subseteq Tasks
  /\ owner \in Tasks \cup {NoTask} /\ queue \in Seq(Tasks)
  /\ budget \in Nat /\ lag \in 0..Window /\ pace \in Nat
  /\ rate \in Rates /\ clientRepeat \in BOOLEAN

(* The bucket never holds more than a window of the fastest duty cycle.    *)
BucketBounded == \E r \in Rates : budget <= Window * r

(* An admission under the lock stays good until the airtime is spent:      *)
(* while a gated send is at the radio the budget covers the reserve that   *)
(* admitted it, whatever other calls throttle, wake and refill meanwhile   *)
(* and however the duty cycle is retuned.  So one packet's airtime less    *)
(* the reserve is the most the bucket can be overdrawn.                    *)
AdmissionHolds ==
  \A t \in gated : pc[t] = "radio" /\ clientRepeat => budget >= Reserve

(* No send is dropped or starved by the budget: it is transmitted, fails   *)
(* or is cancelled in the end ("never drops", _await_tx_budget).           *)
EverySendAdmitted == \A t \in Tasks : pc[t] # "new" ~> pc[t] = "done"
=============================================================================
