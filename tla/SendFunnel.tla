----------------------------- MODULE SendFunnel -----------------------------
(***************************************************************************)
(* The transmit side of node/dispatcher.py: Dispatcher.send_packet and     *)
(* what it calls (_transmit_locked, expect_ack, _await_ack_event,          *)
(* _discard_ack_waiter), the ACK reception path (AckHandler.__call__,      *)
(* _register_ack_received) and the pruning of _recent_acks in run_forever. *)
(*                                                                         *)
(* A task is one call of send_packet.  Everything between two awaits is    *)
(* one step.  The duty-cycle budget is abstracted to the outcome of        *)
(* _tx_budget_wait_s() <= 0, either of which may come out; TxBudget has    *)
(* the arithmetic.  The attributes `state` and `_current_expected_crc` are *)
(* written here and read nowhere in the package, so they are left out.     *)
(***************************************************************************)
EXTENDS Naturals, Sequences, FiniteSets

CONSTANTS
  Tasks,            \* calls of send_packet
  Crcs,             \* ACK checksums
  NoTask, NoCrc,    \* "nobody holds the lock", "not called yet"
  AckTimeout,       \* ACK_TIMEOUT, in clock ticks
  AckTtl,           \* age at which run_forever drops a cached ACK, in ticks
  AllowClientRepeat \* whether set_client_repeat_enabled is ever called

ASSUME TimesAssumption == AckTimeout \in Nat \ {0} /\ AckTtl \in Nat \ {0}
ASSUME NoTaskAssumption == NoTask \notin Tasks
ASSUME NoCrcAssumption == NoCrc \notin Crcs
ASSUME AllowAssumption == AllowClientRepeat \in BOOLEAN

VARIABLES
  pc,            \* where each call is suspended
  result,        \* how each call ended
  crc,           \* the CRC each call expects
  acked,         \* calls that wait for an ACK of an acknowledged packet type
  owner, queue,  \* _tx_lock: its holder, and the calls parked on it (FIFO)
  seen,          \* calls whose packet hash is in the packet filter
  keys, waiters, \* _waiting_acks: its CRC keys, and the waiters under each
  fired,         \* calls whose asyncio.Event is set
  cached, age,   \* _recent_acks: its keys, and how old each entry is
  waited,        \* ticks each call has spent in wait_for(event, ACK_TIMEOUT)
  pruned,        \* the maintenance loop has run since the last tick
  clientRepeat   \* _client_repeat_enabled

lockVars == <<owner, queue>>
callVars == <<crc, acked>>
ackVars  == <<keys, waiters, fired, cached, age>>
vars == <<pc, result, crc, acked, owner, queue, seen, keys, waiters, fired,
          cached, age, waited, pruned, clientRepeat>>

InFunnel  == {"radio", "callback"}          \* between `async with` and its end
Awaiting  == {"delay", "wait"}              \* in the ACK wait, off the lock
Queued    == {"queue", "gatedQueue"}        \* parked on _tx_lock
Places    == {"new", "throttle", "done"} \cup Queued \cup InFunnel \cup Awaiting

-----------------------------------------------------------------------------
Init ==
  /\ pc = [t \in Tasks |-> "new"]
  /\ result = [t \in Tasks |-> "none"]
  /\ crc = [t \in Tasks |-> NoCrc] /\ acked = {}
  /\ owner = NoTask /\ queue = <<>>
  /\ seen = {}
  /\ keys = {} /\ waiters = [c \in Crcs |-> {}] /\ fired = {}
  /\ cached = {} /\ age = [c \in Crcs |-> 0]
  /\ waited = [t \in Tasks |-> 0] /\ pruned = TRUE
  /\ clientRepeat = FALSE

Goto(t, place) == pc' = [pc EXCEPT ![t] = place]

Return(t, r) == Goto(t, "done") /\ result' = [result EXCEPT ![t] = r]

(* Mutant: leaving pops the CRC with everybody registered under it.        *)
DiscardPopsCrc(t) ==
  /\ waiters' = [waiters EXCEPT ![crc[t]] = {}]
  /\ keys' = keys \ {crc[t]}

(* _discard_ack_waiter: drop one waiter, and the key with the last one.    *)
DiscardAckWaiter(t) ==
  LET left == waiters[crc[t]] \ {t}
  IN  /\ waiters' = [waiters EXCEPT ![crc[t]] = left]
      /\ keys' = IF left = {} THEN keys \ {crc[t]} ELSE keys

(* Mutant: the cache of recent ACKs is not consulted.                      *)
ExpectAckUncached(t) ==
  /\ waiters' = [waiters EXCEPT ![crc[t]] = @ \cup {t}]
  /\ keys' = keys \cup {crc[t]}
  /\ UNCHANGED fired

(* expect_ack: a waiter of its own, set at once when the ACK is cached.    *)
ExpectAck(t) ==
  /\ waiters' = [waiters EXCEPT ![crc[t]] = @ \cup {t}]
  /\ keys' = keys \cup {crc[t]}
  /\ fired' = IF crc[t] \in cached THEN fired \cup {t} ELSE fired

-----------------------------------------------------------------------------
(* Under _tx_lock.  The lock is asyncio.Lock: taken without suspending     *)
(* when it is free and nobody is parked on it, first come first served     *)
(* otherwise.                                                              *)

(* _transmit_locked up to `await send_fn(raw)`: the hash is tracked before *)
(* write_to, which may raise.                                              *)
StartTransmit(t) ==
  /\ seen' = seen \cup {t}
  /\ \/ owner' = t /\ Goto(t, "radio") /\ UNCHANGED result
     \/ owner' = NoTask /\ Return(t, "raised")

(* The body of `async with self._tx_lock`: transmit, or (gated by client-  *)
(* repeat, budget short) leave the lock and throttle again.                *)
UnderLock(t, gated) ==
  \/ StartTransmit(t)
  \/ /\ gated /\ clientRepeat
     /\ owner' = NoTask /\ Goto(t, "throttle")
     /\ UNCHANGED <<seen, result>>

TakeLock(t, gated) ==
  IF owner = NoTask /\ queue = <<>>
  THEN UnderLock(t, gated) /\ UNCHANGED queue
  ELSE /\ queue' = Append(queue, t)
       /\ Goto(t, IF gated THEN "gatedQueue" ELSE "queue")
       /\ UNCHANGED <<owner, seen, result>>

-----------------------------------------------------------------------------
(* send_packet refuses a flood TRACE before anything else happens.         *)
RefuseFloodTrace(t) ==
  /\ pc[t] = "new"
  /\ Return(t, "false")
  /\ UNCHANGED <<callVars, lockVars, seen, ackVars, waited, pruned,
                 clientRepeat>>

(* From the entry of send_packet to its first suspension: straight to the  *)
(* lock, or through _await_tx_budget, which may have to sleep first.       *)
SendPacket(t) ==
  /\ pc[t] = "new"
  /\ \E c \in Crcs : crc' = [crc EXCEPT ![t] = c]
  /\ \E wants \in BOOLEAN : acked' = IF wants THEN acked \cup {t} ELSE acked
  /\ \/ TakeLock(t, clientRepeat)
     \/ /\ clientRepeat /\ Goto(t, "throttle")
        /\ UNCHANGED <<lockVars, seen, result>>
  /\ UNCHANGED <<ackVars, waited, pruned, clientRepeat>>

(* _await_tx_budget wakes to an empty wait (or to client-repeat off).      *)
ThrottleOver(t) ==
  /\ pc[t] = "throttle"
  /\ TakeLock(t, TRUE)
  /\ UNCHANGED <<callVars, ackVars, waited, pruned, clientRepeat>>

(* The lock is free and t is first in line: acquire() returns to t.        *)
Granted(t) ==
  /\ pc[t] \in Queued
  /\ owner = NoTask /\ queue # <<>> /\ Head(queue) = t
  /\ queue' = Tail(queue)
  /\ UnderLock(t, pc[t] = "gatedQueue")
  /\ UNCHANGED <<callVars, ackVars, waited, pruned, clientRepeat>>

-----------------------------------------------------------------------------
(* _transmit_locked after the radio's answer.                              *)

(* The end of a successful transmit: done, or register the ACK waiter      *)
(* while the lock is still held and wait for it off the lock.              *)
Transmitted(t) ==
  /\ owner' = NoTask
  /\ IF t \in acked
     THEN ExpectAck(t) /\ Goto(t, "delay") /\ UNCHANGED result
     ELSE Return(t, "true") /\ UNCHANGED <<keys, waiters, fired>>

(* Mutant: a failed send leaves _tx_lock held.                             *)
FailHoldingLock(t) ==
  /\ pc[t] = "radio"
  /\ Return(t, "false")
  /\ UNCHANGED <<callVars, lockVars, seen, ackVars, waited, pruned, clientRepeat>>

(* radio.send raised or returned None.                                     *)
RadioFailed(t) ==
  /\ pc[t] = "radio"
  /\ owner' = NoTask /\ Return(t, "false")
  /\ UNCHANGED <<callVars, queue, seen, ackVars, waited, pruned, clientRepeat>>

(* radio.send returned metadata; packet_sent_callback is absent or         *)
(* synchronous, or it suspends.                                            *)
RadioSent(t) ==
  /\ pc[t] = "radio"
  /\ \/ Transmitted(t)
     \/ /\ Goto(t, "callback")
        /\ UNCHANGED <<owner, result, keys, waiters, fired>>
  /\ UNCHANGED <<callVars, queue, seen, cached, age, waited, pruned,
                 clientRepeat>>

(* packet_sent_callback returned.                                          *)
CallbackDone(t) ==
  /\ pc[t] = "callback"
  /\ Transmitted(t)
  /\ UNCHANGED <<callVars, queue, seen, cached, age, waited, pruned,
                 clientRepeat>>

(* packet_sent_callback raised, at once or after suspending: the exception *)
(* leaves through the lock.                                                *)
CallbackRaised(t) ==
  /\ pc[t] \in InFunnel
  /\ owner' = NoTask /\ Return(t, "raised")
  /\ UNCHANGED <<callVars, queue, seen, ackVars, waited, pruned, clientRepeat>>

-----------------------------------------------------------------------------
(* The ACK wait, off the lock.                                             *)

(* The `finally` clauses of _await_ack_event and send_packet; the Event    *)
(* and the timer end with the call.                                        *)
LeaveWait(t, r) ==
  /\ Return(t, r)
  /\ DiscardAckWaiter(t)
  /\ fired' = fired \ {t} /\ waited' = [waited EXCEPT ![t] = 0]
  /\ UNCHANGED <<callVars, lockVars, seen, cached, age, pruned, clientRepeat>>

(* asyncio.sleep(tx_delay) is over; wait_for does not suspend when the     *)
(* event is already set.                                                   *)
DelayOver(t) ==
  /\ pc[t] = "delay"
  /\ IF t \in fired
     THEN LeaveWait(t, "true")
     ELSE /\ Goto(t, "wait")
          /\ UNCHANGED <<result, callVars, lockVars, seen, ackVars, waited,
                         pruned, clientRepeat>>

AckWakes(t) == pc[t] = "wait" /\ t \in fired /\ LeaveWait(t, "true")

(* The deadline may fire in the same turn of the loop as the event.        *)
AckTimesOut(t) ==
  pc[t] = "wait" /\ waited[t] >= AckTimeout /\ LeaveWait(t, "false")

(* asyncio.Lock.acquire takes a cancelled waiter out of its deque.         *)
LeaveQueue(t) ==
  \E i \in 1..Len(queue) :
    /\ queue[i] = t
    /\ queue' = SubSeq(queue, 1, i - 1) \o SubSeq(queue, i + 1, Len(queue))

(* task.cancel(): CancelledError is no Exception, so no handler of         *)
(* _transmit_locked catches it; only the ACK wait has a `finally`.         *)
CancelWait(t) == pc[t] \in Awaiting /\ LeaveWait(t, "cancelled")

CancelQueued(t) ==
  /\ pc[t] \in Queued
  /\ LeaveQueue(t) /\ Return(t, "cancelled")
  /\ UNCHANGED <<callVars, owner, seen, ackVars, waited, pruned, clientRepeat>>

CancelFunnel(t) ==
  /\ pc[t] \in InFunnel \cup {"throttle"}
  /\ owner' = (IF pc[t] \in InFunnel THEN NoTask ELSE owner)
  /\ Return(t, "cancelled")
  /\ UNCHANGED <<callVars, queue, seen, ackVars, waited, pruned, clientRepeat>>

Cancel(t) == CancelWait(t) \/ CancelQueued(t) \/ CancelFunnel(t)

-----------------------------------------------------------------------------
(* A discrete ACK for c: AckHandler marks the packet do-not-retransmit     *)
(* when c is a key of _waiting_acks, then _register_ack_received caches    *)
(* the CRC and sets every waiter's event.                                  *)
MarksDoNotRetransmit(c) == c \in keys

(* Mutant: one ACK serves one waiter, the others are dropped with it.      *)
AckServesOne(c) ==
  /\ cached' = cached \cup {c} /\ age' = [age EXCEPT ![c] = 0]
  /\ fired' = fired \cup IF waiters[c] = {} THEN {} ELSE {CHOOSE t \in waiters[c] : TRUE}
  /\ keys' = keys \ {c} /\ waiters' = [waiters EXCEPT ![c] = {}]
  /\ UNCHANGED <<pc, result, callVars, lockVars, seen, waited, pruned,
                 clientRepeat>>

AckReceived(c) ==
  /\ cached' = cached \cup {c} /\ age' = [age EXCEPT ![c] = 0]
  /\ fired' = fired \cup waiters[c]
  /\ keys' = keys \ {c} /\ waiters' = [waiters EXCEPT ![c] = {}]
  /\ UNCHANGED <<pc, result, callVars, lockVars, seen, waited, pruned,
                 clientRepeat>>

(* One pass of the maintenance loop in run_forever.                        *)
PruneAcks ==
  /\ ~pruned /\ pruned' = TRUE
  /\ cached' = {c \in cached : age[c] < AckTtl}
  /\ UNCHANGED <<pc, result, callVars, lockVars, seen, keys, waiters, fired,
                 age, waited, clientRepeat>>

(* The clock.  A tick is a second: callbacks that are ready run before it  *)
(* passes, and the maintenance loop runs once in each.                     *)
Tick ==
  /\ pruned /\ pruned' = FALSE
  /\ \A t \in Tasks : ~(pc[t] = "wait" /\ t \in fired)
  /\ age' = [c \in Crcs |-> IF c \in cached /\ age[c] < AckTtl
                            THEN age[c] + 1 ELSE age[c]]
  /\ waited' = [t \in Tasks |-> IF pc[t] = "wait" /\ waited[t] < AckTimeout
                                THEN waited[t] + 1 ELSE waited[t]]
  /\ UNCHANGED <<pc, result, callVars, lockVars, seen, keys, waiters, fired,
                 cached, clientRepeat>>

(* set_client_repeat_enabled, at any time.                                 *)
SetClientRepeat ==
  /\ AllowClientRepeat
  /\ clientRepeat' = ~clientRepeat
  /\ UNCHANGED <<pc, result, callVars, lockVars, seen, ackVars, waited, pruned>>

-----------------------------------------------------------------------------
TaskStep(t) ==
  \/ RefuseFloodTrace(t) \/ SendPacket(t) \/ ThrottleOver(t) \/ Granted(t)
  \/ RadioFailed(t) \/ RadioSent(t) \/ CallbackDone(t) \/ CallbackRaised(t)
  \/ DelayOver(t) \/ AckWakes(t) \/ AckTimesOut(t)

Next ==
  \/ \E t \in Tasks : TaskStep(t) \/ Cancel(t)
  \/ \E c \in Crcs : AckReceived(c)
  \/ PruneAcks \/ Tick \/ SetClientRepeat

Spec == Init /\ [][Next]_vars

(* The event loop runs every ready task, radio.send and the callbacks      *)
(* return, and time passes.                                                *)
Fairness ==
  /\ \A t \in Tasks : WF_vars(TaskStep(t))
  /\ WF_vars(Tick) /\ WF_vars(PruneAcks)

LiveSpec == Spec /\ Fairness

-----------------------------------------------------------------------------
TypeOK ==
  /\ pc \in [Tasks -> Places]
  /\ result \in [Tasks -> {"none", "true", "false", "raised", "cancelled"}]
  /\ crc \in [Tasks -> Crcs \cup {NoCrc}]
  /\ acked \subseteq Tasks /\ seen \subseteq Tasks /\ fired \subseteq Tasks
  /\ owner \in Tasks \cup {NoTask} /\ queue \in Seq(Tasks)
  /\ keys \subseteq Crcs /\ waiters \in [Crcs -> SUBSET Tasks]
  /\ cached \subseteq Crcs /\ age \in [Crcs -> 0..AckTtl]
  /\ waited \in [Tasks -> 0..AckTimeout] /\ pruned \in BOOLEAN
  /\ clientRepeat \in BOOLEAN

(* "Simple TX lock to prevent concurrent transmissions": between           *)
(* radio.send and the release of _tx_lock there is one task at most, and   *)
(* it is the lock's owner, however sends, cancels and errors interleave.   *)
OneTransmission ==
  \A t \in Tasks : pc[t] \in InFunnel <=> owner = t

(* _waiting_acks holds exactly the sends that still need it: every task    *)
(* parked in the ACK wait whose event is not set is registered under its   *)
(* CRC, nobody else is, and a CRC is a key only while it has a waiter      *)
(* (_discard_ack_waiter: "a leftover empty list would read as a waiter     *)
(* that is still there").  So AckHandler marks a relayed ACK               *)
(* do-not-retransmit only for a send of this node that is still waiting.   *)
WaiterTableExact ==
  /\ \A t \in Tasks :
       /\ pc[t] \in Awaiting /\ t \notin fired => t \in waiters[crc[t]]
       /\ \A c \in Crcs :
            t \in waiters[c] => pc[t] \in Awaiting /\ c = crc[t]
  /\ \A c \in Crcs : MarksDoNotRetransmit(c) <=> waiters[c] # {}

(* A copy of our own packet echoed by a neighbour is always a duplicate:   *)
(* the hash is in the filter before the frame can be on the air.           *)
EchoIsDuplicate ==
  \A t \in Tasks : pc[t] \in InFunnel \cup Awaiting => t \in seen

(* Leaving never costs a co-waiter its registration (two sends may share a *)
(* CRC): a task drops out of _waiting_acks only because its event was set  *)
(* or because it is itself leaving.                                        *)
CoWaitersKept ==
  [][\A t \in Tasks, c \in Crcs :
       t \in waiters[c] /\ t \notin waiters'[c] =>
         t \in fired' \/ pc'[t] = "done"]_vars

(* No false delivery failure: a send never times out while an ACK for its  *)
(* CRC is in _recent_acks from an earlier tick, whether that ACK came      *)
(* during the wait, during tx_delay, or before the waiter was registered   *)
(* (while the radio or packet_sent_callback still had the lock).           *)
NoTimeoutWithAckInHand ==
  [][\A t \in Tasks :
       pc[t] = "wait" /\ pc'[t] = "done" /\ result'[t] = "false" =>
         ~(crc[t] \in cached /\ age[crc[t]] > 0)]_vars

(* Every call of send_packet returns, whether or not the ACK ever comes.   *)
EverySendReturns ==
  \A t \in Tasks : pc[t] # "new" ~> pc[t] = "done"

-----------------------------------------------------------------------------
(* How far a call has come, as its caller sees it.                         *)
PhaseOf(place) ==
  CASE place = "new" -> "idle"
    [] place \in {"throttle"} \cup Queued -> "asked"
    [] place \in InFunnel -> "onair"
    [] place \in Awaiting -> "awaiting"
    [] OTHER -> "ended"

Promise == INSTANCE SendPromise WITH
  Sends <- Tasks,
  phase <- [t \in Tasks |-> PhaseOf(pc[t])],
  verdict <- result,
  expects <- crc,
  confirmed <- fired,
  recent <- cached

(* The lock, the waiter table and the per-waiter events implement the      *)
(* promise of SendPromise.                                                 *)
ImplementsPromise == Promise!Spec
=============================================================================
