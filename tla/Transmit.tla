------------------------------ MODULE Transmit ------------------------------
(***************************************************************************)
(* The way out of a node, its parts side by side: the airtime budget of    *)
(* the dispatcher, and the SX1262 chip with its driver.                    *)
(***************************************************************************)
EXTENDS TxBudget, FiniteSets

CONSTANTS Job, Scan, MaxTries, MaxJobs, MaxHeard

VARIABLES
  chip, calls, latch, last, rxEvent, txEvent, cad, activity, busy, rxTask, at, tries, txLock,
  begun, heard, ended, claimed, again

chipVars == <<chip, calls, latch, last, rxEvent, txEvent, cad, activity, busy, rxTask, at,
              tries, txLock, begun, heard, ended, claimed, again>>

Sx == INSTANCE Sx1262 WITH queue <- txLock

ASSUME SxGiven == Sx!Sx1262Assumption

-----------------------------------------------------------------------------
(* Sx1262: nothing returns a chip staged for a scan or a TX to receive mode. *)
StagedUndisturbed == Sx!StagedUndisturbed

(* Sx1262: the chip listens whenever no job has it.                        *)
ListensWhenIdle == Sx!ListensWhenIdle

(* Sx1262: what the background task has claimed is not drained again.      *)
ClaimedNotDrained == Sx!ClaimedNotDrained

(* Sx1262: every send and every scan returns.                              *)
EveryJobReturns == Sx!EveryJobReturns
=============================================================================
