------------------------------- MODULE Sx1262 -------------------------------
(***************************************************************************)
(* hardware/sx1262_wrapper.py: one LoRa chip shared by the senders, which  *)
(* listen before they talk, the CAD scans, and the background task that    *)
(* reads what was received.  All of it runs on one event loop; an action   *)
(* is what happens between two awaits.  The chip raises its interrupt pin  *)
(* from a thread, and the handler runs on the loop some time later.        *)
(*                                                                         *)
(* Of the interrupt flags the model keeps marker (preamble, sync word,     *)
(* header), done (RX_DONE, with or without CRC_ERR) and bad (HEADER_ERR),  *)
(* which end a reception, txdone, and the two results of a scan.           *)
(***************************************************************************)
EXTENDS Naturals, Sequences, FiniteSets

CONSTANTS
  Job,                 \* the sends and the scans
  Scan,                \* those of them that are scans (perform_cad)
  MaxTries,            \* the budget of the listen-before-talk loop
  MaxJobs, MaxHeard    \* bounds on the jobs begun and the packets on the air

(* What is assumed of the constants.                                       *)
Sx1262Assumption ==
  /\ IsFiniteSet(Job) /\ Scan \subseteq Job
  /\ {MaxTries, MaxJobs, MaxHeard} \subseteq Nat

VARIABLES
  chip,       \* mode, flags raised (irq) and enabled (mask), reception under
              \* way (rx), whether the buffer was written for a TX
  calls,      \* calls of _handle_interrupt the loop has still to make
  latch,      \* _pending_rx_irq_status: of each flag the interrupt that set
              \* it, or 0
  last,       \* _last_irq_status, and the interrupt it is of
  rxEvent, txEvent,    \* _rx_done_event, _tx_done_event
  cad,        \* _cad_event and _last_cad_detected
  activity,   \* a reception is known to be under way (_rx_activity_at)
  busy,       \* _tx_buffer_busy
  rxTask,     \* waits, woken, at the lock, or restoring with the lock held
  at, tries,  \* where each job is; the LBT retries of the one at work
  queue,      \* _tx_lock: its holder first
  begun, heard,   \* history: jobs begun, packets on the air
  ended,      \* history: interrupts that ended a reception
  claimed, again  \* history: those the RX task has claimed; the drain has
              \* consumed one of them

irqs == <<calls, latch, last, activity>>
events == <<rxEvent, txEvent, cad>>
jobs == <<at, tries, queue>>
history == <<begun, heard, ended, claimed, again>>
vars == <<chip, irqs, events, busy, rxTask, jobs, history>>

Terminal == {"done", "bad"}
Flags == {"marker", "txdone", "clear", "found"} \cup Terminal
Mask == [rx |-> {"marker"} \cup Terminal, tx |-> {"txdone", "clear", "found"},
         cad |-> {"clear", "found"}]

Init ==
  /\ chip = [mode |-> "rx", irq |-> {}, mask |-> "rx", rx |-> FALSE, tx |-> FALSE]
  /\ calls = 0 /\ latch = [f \in Terminal |-> 0] /\ last = [flags |-> {}, of |-> 0]
  /\ activity = FALSE /\ rxEvent = FALSE /\ txEvent = FALSE
  /\ cad = [set |-> FALSE, detected |-> FALSE]
  /\ busy = FALSE /\ rxTask = "wait"
  /\ at = [j \in Job |-> "idle"] /\ tries = 0 /\ queue = <<>>
  /\ begun = 0 /\ heard = 0 /\ ended = 0 /\ claimed = {} /\ again = FALSE

Latched == \E f \in Terminal : latch[f] # 0
Locked == \E j \in Job : at[j] \notin {"idle", "lock"}
Go(j, to) == at' = [at EXCEPT ![j] = to]

(* What is asked of the chip.  Each of them ends a reception under way. *)
Standby(c) == [c EXCEPT !.mode = "standby", !.rx = FALSE]
Quiet(c, mask) == [c EXCEPT !.irq = {}, !.mask = mask]
Listen(c) == [Quiet(c, "rx") EXCEPT !.mode = "rx", !.rx = FALSE]

-----------------------------------------------------------------------------
(* The chip (external): the pin rises with the first flag. *)
Raise(flag) ==
  calls' = IF chip.irq = {} /\ flag \in Mask[chip.mask] THEN calls + 1 ELSE calls

WithFlag(flag) == IF flag \in Mask[chip.mask] THEN chip.irq \cup {flag} ELSE chip.irq

ChipHearsPreamble ==
  /\ chip.mode = "rx" /\ ~chip.rx /\ heard < MaxHeard /\ heard' = heard + 1
  /\ chip' = [chip EXCEPT !.rx = TRUE, !.irq = WithFlag("marker")] /\ Raise("marker")
  /\ UNCHANGED <<latch, last, activity, events, busy, rxTask, jobs, begun, ended, claimed, again>>

ChipReceives ==
  /\ chip.rx
  /\ \E flag \in Terminal :
       chip' = [chip EXCEPT !.rx = FALSE, !.irq = WithFlag(flag)] /\ Raise(flag)
  /\ UNCHANGED <<latch, last, activity, events, busy, rxTask, jobs, history>>

ChipTransmits ==
  /\ chip.mode = "tx" /\ chip' = [chip EXCEPT !.mode = "standby", !.irq = WithFlag("txdone")]
  /\ Raise("txdone")
  /\ UNCHANGED <<latch, last, activity, events, busy, rxTask, jobs, history>>

ChipScans ==
  /\ chip.mode = "cad"
  /\ \E flag \in {"clear", "found"} :
       chip' = [chip EXCEPT !.mode = "standby", !.irq = WithFlag(flag)] /\ Raise(flag)
  /\ UNCHANGED <<latch, last, activity, events, busy, rxTask, jobs, history>>

-----------------------------------------------------------------------------
(* _handle_interrupt. *)

(* Only the end of a reception wakes the background task, and not while    *)
(* the buffer holds a packet to send.                                      *)
Wakes(flags) == flags \cap Terminal # {} /\ ~busy

HandleInterrupt ==
  LET flags == chip.irq
      n == ended + 1
      ends == flags \cap Terminal # {}
  IN  /\ calls > 0 /\ calls' = calls - 1
      /\ chip' = [chip EXCEPT !.irq = {}]
      /\ last' = IF flags = {} THEN last ELSE [flags |-> flags, of |-> n]
      /\ latch' = [f \in Terminal |-> IF f \in flags THEN n ELSE latch[f]]
      /\ ended' = IF ends THEN n ELSE ended
      /\ txEvent' = (txEvent \/ "txdone" \in flags)
      /\ cad' = IF flags \cap Mask.cad = {} THEN cad
                ELSE [set |-> TRUE, detected |-> "found" \in flags]
      /\ activity' = (~ends /\ (activity \/ "marker" \in flags))
      /\ rxEvent' = (rxEvent \/ Wakes(flags))
      /\ rxTask' = IF Wakes(flags) /\ rxTask = "wait" THEN "woken" ELSE rxTask
      /\ UNCHANGED <<busy, jobs, begun, heard, claimed, again>>

-----------------------------------------------------------------------------
(* _rx_irq_background_task.  A wait that was resolved is not undone when   *)
(* the event is cleared afterwards; a wait begun with the event set does   *)
(* not suspend.                                                            *)

RxWakes ==
  /\ rxTask = "woken" \/ (rxTask = "wait" /\ rxEvent)
  /\ rxEvent' = FALSE /\ rxTask' = "lock"
  /\ UNCHANGED <<chip, irqs, txEvent, cad, busy, jobs, history>>

Draining == \E j \in Job : at[j] \in {"cadDrain", "txDrain"}

(* Mutant of Claim: the latch is left to the drain. *)
ClaimNot == UNCHANGED latch
(* The bits the task is about to act on are taken from the latch. *)
Claim == latch' = [f \in Terminal |-> IF f \in last.flags THEN 0 ELSE latch[f]]

(* Mutant of RestoresRx: the lock of the senders is not looked at. *)
RestoresRxAlways == TRUE
RestoresRx == ~Locked

(* With the lock: the packet is read, and the chip set to listen again,    *)
(* unless a sender is at work, who will do that.                           *)
RxProcesses ==
  /\ rxTask = "lock" /\ ~Draining /\ Claim
  /\ claimed' = IF last.flags \cap Terminal # {} THEN claimed \cup {last.of} ELSE claimed
  /\ IF RestoresRx THEN chip' = Listen(chip) /\ rxTask' = "restore"
     ELSE rxTask' = "wait" /\ UNCHANGED chip
  /\ UNCHANGED <<calls, last, activity, events, busy, jobs, begun, heard, ended, again>>

RxRestored ==
  /\ rxTask = "restore" /\ rxTask' = "wait"
  /\ UNCHANGED <<chip, irqs, events, busy, jobs, history>>

-----------------------------------------------------------------------------
(* send and perform_cad: one job at a time. *)

Begin(j) ==
  /\ at[j] = "idle" /\ begun < MaxJobs /\ begun' = begun + 1
  /\ Go(j, "lock") /\ queue' = Append(queue, j)
  /\ UNCHANGED <<chip, irqs, events, busy, rxTask, tries, heard, ended, claimed, again>>

(* perform_cad waits for the lock only so long. *)
ScanGivesUp(j) ==
  /\ at[j] = "lock" /\ j \in Scan /\ Go(j, "idle")
  /\ queue' = SelectSeq(queue, LAMBDA k : k # j)
  /\ UNCHANGED <<chip, irqs, events, busy, rxTask, tries, history>>

(* _drain_pending_rx_irq_before_buffer_reuse, with the RX lock. *)
Drain ==
  /\ latch' = [f \in Terminal |-> 0]
  /\ again' = (again \/ \E f \in Terminal : latch[f] \in claimed)

MustWait == Latched /\ rxTask = "restore"

(* What follows the drain before a scan: to standby. *)
ToScan(j) == Drain /\ chip' = Standby(chip) /\ Go(j, "cadSet")

StartScan(j) ==
  IF MustWait THEN Go(j, "cadDrain") /\ UNCHANGED <<chip, latch, again>> ELSE ToScan(j)

GetLock(j) ==
  /\ at[j] = "lock" /\ ~Locked /\ Head(queue) = j /\ tries' = 0
  /\ IF j \in Scan THEN StartScan(j) ELSE Go(j, "lbt") /\ UNCHANGED <<chip, latch, again>>
  /\ UNCHANGED <<calls, last, activity, events, busy, rxTask, queue, begun, heard, ended, claimed>>

(* A busy channel is tried again, until the budget is used up. *)
Retry(j) ==
  IF tries < MaxTries THEN Go(j, "backoff") /\ tries' = tries + 1
  ELSE Go(j, "commit") /\ UNCHANGED tries

(* is_receiving_packet: a reception known to be under way, unless that is  *)
(* too long ago; only else the channel is scanned.                         *)
Receiving(j) ==
  /\ at[j] = "lbt" /\ activity /\ Retry(j)
  /\ UNCHANGED <<chip, irqs, events, busy, rxTask, queue, history>>

ChannelScan(j) ==
  /\ at[j] = "lbt" /\ activity' = FALSE /\ StartScan(j)
  /\ UNCHANGED <<calls, last, events, busy, rxTask, tries, queue, begun, heard, ended, claimed>>

CadDrains(j) ==
  /\ at[j] = "cadDrain" /\ rxTask # "restore" /\ ToScan(j)
  /\ UNCHANGED <<calls, last, activity, events, busy, rxTask, tries, queue, begun, heard, ended, claimed>>

SetCad(j) ==
  /\ at[j] = "cadSet" /\ Go(j, "cadWait")
  /\ chip' = [Quiet(chip, "cad") EXCEPT !.mode = "cad"] /\ cad' = [cad EXCEPT !.set = FALSE]
  /\ UNCHANGED <<irqs, rxEvent, txEvent, busy, rxTask, tries, queue, history>>

Unlock == queue' = Tail(queue)

(* Mutant of CadEnds: the chip is left in standby after a scan. *)
CadEndsStandby(j) ==
  \/ /\ j \in Scan /\ Go(j, "idle") /\ Unlock /\ chip' = Quiet(Standby(chip), "rx")
     /\ UNCHANGED tries
  \/ /\ j \notin Scan /\ UNCHANGED queue
     /\ IF cad.set /\ cad.detected
        THEN chip' = Listen(chip) /\ Retry(j)
        ELSE chip' = Quiet(Standby(chip), "rx") /\ Go(j, "commit") /\ UNCHANGED tries

(* The end of perform_cad.  A scan of its own listens again; a sender does *)
(* so (_restore_rx_mode) when the channel is busy.                         *)
CadEnds(j) ==
  \/ /\ j \in Scan /\ Go(j, "idle") /\ Unlock /\ chip' = Listen(chip)
     /\ UNCHANGED tries
  \/ /\ j \notin Scan /\ UNCHANGED queue
     /\ IF cad.set /\ cad.detected
        THEN chip' = Listen(chip) /\ Retry(j)
        ELSE chip' = Quiet(Standby(chip), "rx") /\ Go(j, "commit") /\ UNCHANGED tries

(* With the result, or with none: then the channel is taken to be clear. *)
CadDone(j) ==
  /\ at[j] = "cadWait" /\ cad.set /\ CadEnds(j)
  /\ cad' = [cad EXCEPT !.set = FALSE]
  /\ UNCHANGED <<irqs, rxEvent, txEvent, busy, rxTask, history>>

CadTimesOut(j) ==
  /\ at[j] = "cadWait" /\ ~cad.set /\ CadEnds(j)
  /\ UNCHANGED <<irqs, events, busy, rxTask, history>>

BackoffOver(j) ==
  /\ at[j] = "backoff" /\ Go(j, "lbt")
  /\ UNCHANGED <<chip, irqs, events, busy, rxTask, tries, queue, history>>

(* A reception that is cut off by the TX will not end: its marker goes. *)
Commit(j) ==
  /\ at[j] = "commit" /\ Go(j, "staged") /\ activity' = FALSE /\ chip' = Standby(chip)
  /\ UNCHANGED <<calls, latch, last, events, busy, rxTask, tries, queue, history>>

(* What follows the drain before a transmission: the packet is written to  *)
(* the buffer, and only the interrupts of TX are enabled.                  *)
ToTx(j) ==
  /\ Drain /\ busy' = TRUE
  /\ chip' = [Quiet(chip, "tx") EXCEPT !.tx = TRUE] /\ Go(j, "txSetup")

Stage(j) ==
  /\ at[j] = "staged" /\ txEvent' = FALSE /\ rxEvent' = FALSE
  /\ IF MustWait THEN Go(j, "txDrain") /\ UNCHANGED <<chip, latch, again, busy>> ELSE ToTx(j)
  /\ UNCHANGED <<calls, last, activity, cad, rxTask, tries, queue, begun, heard, ended, claimed>>

TxDrains(j) ==
  /\ at[j] = "txDrain" /\ rxTask # "restore" /\ ToTx(j)
  /\ UNCHANGED <<calls, last, activity, events, rxTask, tries, queue, begun, heard, ended, claimed>>

SetTx(j) ==
  /\ at[j] = "txSetup" /\ Go(j, "txWait") /\ chip' = [chip EXCEPT !.mode = "tx"]
  /\ UNCHANGED <<irqs, events, busy, rxTask, tries, queue, history>>

(* The chip stays busy, before the TX or after the command. *)
TxRefused(j) ==
  /\ at[j] \in {"staged", "txSetup"} /\ Go(j, "restore") /\ chip' = Standby(chip)
  /\ UNCHANGED <<irqs, events, busy, rxTask, tries, queue, history>>

(* The event, or the flag itself when the poll sees it first. *)
TxComplete(j) ==
  /\ at[j] = "txWait" /\ (txEvent \/ "txdone" \in chip.irq)
  /\ busy' = FALSE /\ Go(j, "restore") /\ chip' = [chip EXCEPT !.irq = {}]
  /\ UNCHANGED <<irqs, events, rxTask, tries, queue, history>>

(* Mutant of TxTimesOut: only an interrupt ends the wait. *)
TxTimesOutRaised(j) ==
  /\ at[j] = "txWait" /\ chip.irq # {} /\ Go(j, "restore")
  /\ chip' = [Standby(chip) EXCEPT !.irq = {}]
  /\ UNCHANGED <<irqs, events, busy, rxTask, tries, queue, history>>

TxTimesOut(j) ==
  /\ at[j] = "txWait" /\ Go(j, "restore") /\ chip' = [Standby(chip) EXCEPT !.irq = {}]
  /\ UNCHANGED <<irqs, events, busy, rxTask, tries, queue, history>>

(* _restore_rx_mode, whatever became of the packet. *)
RestoreRxMode(j) ==
  /\ at[j] = "restore" /\ chip' = [Listen(chip) EXCEPT !.tx = FALSE] /\ Go(j, "idle") /\ Unlock
  /\ UNCHANGED <<irqs, events, busy, rxTask, tries, history>>

-----------------------------------------------------------------------------
Chip == ChipHearsPreamble \/ ChipReceives \/ ChipTransmits \/ ChipScans
RxTask == RxWakes \/ RxProcesses \/ RxRestored
Lbt(j) ==
  \/ GetLock(j) \/ Receiving(j) \/ ChannelScan(j) \/ CadDrains(j) \/ SetCad(j)
  \/ CadDone(j) \/ CadTimesOut(j) \/ BackoffOver(j) \/ Commit(j)
Tx(j) ==
  \/ Stage(j) \/ TxDrains(j) \/ SetTx(j) \/ TxRefused(j) \/ TxComplete(j)
  \/ TxTimesOut(j) \/ RestoreRxMode(j)
JobStep(j) == Lbt(j) \/ Tx(j)

Next ==
  \/ Chip \/ HandleInterrupt \/ RxTask
  \/ \E j \in Job : Begin(j) \/ ScanGivesUp(j) \/ JobStep(j)

(* The loop runs every task that can run, and timeouts pass. *)
Fairness ==
  WF_vars(HandleInterrupt) /\ WF_vars(RxTask) /\ \A j \in Job : WF_vars(JobStep(j))

Spec == Init /\ [][Next]_vars /\ Fairness

-----------------------------------------------------------------------------
ChipState == [mode : {"rx", "standby", "cad", "tx"}, irq : SUBSET Flags,
              mask : {"rx", "tx", "cad"}, rx : BOOLEAN, tx : BOOLEAN]
Places == {"idle", "lock", "lbt", "backoff", "cadDrain", "cadSet", "cadWait", "commit",
           "staged", "txDrain", "txSetup", "txWait", "restore"}

TypeOK ==
  /\ chip \in ChipState /\ at \in [Job -> Places]
  /\ last \in [flags : SUBSET Flags, of : Nat]
  /\ latch \in [Terminal -> Nat] /\ ended \in Nat /\ claimed \subseteq Nat

(* While a sender has the chip staged for a scan or a TX, nothing else     *)
(* returns it to receive mode: the background task skips its own restore   *)
(* when _tx_lock is held, so that no packet overwrites the one to send.    *)
StagedUndisturbed ==
  \A j \in Job : at[j] \in {"cadSet", "cadWait", "staged", "txDrain", "txSetup", "txWait"}
                   => chip.mode # "rx"

(* Whenever no job has the chip, it listens with the interrupts of RX      *)
(* enabled, however the last job ended.                                    *)
ListensWhenIdle == ~Locked => chip.mode = "rx" /\ chip.mask = "rx"

(* What the background task has claimed, the drain does not consume again. *)
ClaimedNotDrained == ~again

(* Every send and every scan returns, and lets go of the lock. *)
EveryJobReturns == \A j \in Job : at[j] # "idle" ~> at[j] = "idle"

(* The wake is gated only while the shared buffer is being reused, from    *)
(* writeBuffer until the TX completes.                                     *)
GatedOnlyInTx == busy => \E j \in Job : at[j] \in {"txSetup", "txWait", "restore"}
=============================================================================
