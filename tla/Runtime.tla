------------------------------- MODULE Runtime -------------------------------
(***************************************************************************)
(* What a companion app depends on, its parts side by side: the life cycle *)
(* of the companion, and its server of frames.                             *)
(***************************************************************************)
EXTENDS Lifecycle

CONSTANTS Conns, None, Stopper, Callers, QueueMax, MaxFrames, Python312

VARIABLES
  fready, fpc, wake, old, oldTask, clientWriter, writeQueue, writerTask, queue, wpc, source,
  cancelled, taskWaiters, closeWaiters, closed, lost, installed, subscribed, frames

frameVars == <<fready, fpc, wake, old, oldTask, clientWriter, writeQueue, writerTask, queue,
               wpc, source, cancelled, taskWaiters, closeWaiters, closed, lost, installed,
               subscribed, frames>>

Frames == INSTANCE FrameServer WITH ready <- fready, pc <- fpc

ASSUME FramesGiven == Frames!FrameAssumption

-----------------------------------------------------------------------------
(* FrameServer: the newest connection keeps the slot.                      *)
NewestKeepsSlot == Frames!NewestKeepsSlot

(* FrameServer: every client that connects is served.                      *)
EveryClientAccepted == Frames!EveryClientAccepted
=============================================================================
