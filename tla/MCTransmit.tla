----------------------------- MODULE MCTransmit -----------------------------
(***************************************************************************)
(* The way out of a node: the airtime budget of the dispatcher, and the    *)
(* SX1262 chip with its driver.  One of the two runs and the other stays   *)
(* in its initial state.                                                   *)
(***************************************************************************)
EXTENDS Transmit

VARIABLE on

MCInit ==
  /\ on \in {"budget", "chip"}
  /\ Init /\ Sx!Init
  /\ on # "budget" => rate = 1

MCNext ==
  \/ on = "budget" /\ Next /\ UNCHANGED <<on, chipVars>>
  \/ on = "chip" /\ Sx!Next /\ UNCHANGED <<on, vars>>

(* The fairness of each component, while it is the one that runs.          *)
MCFairness ==
  /\ \A t \in Tasks : WF_vars(on = "budget" /\ TaskStep(t))
  /\ WF_vars(on = "budget" /\ Tick)
  /\ WF_chipVars(on = "chip" /\ Sx!HandleInterrupt) /\ WF_chipVars(on = "chip" /\ Sx!RxTask)
  /\ \A j \in Job : WF_chipVars(on = "chip" /\ Sx!JobStep(j))

MCSpec == MCInit /\ [][MCNext]_<<on, vars, chipVars>> /\ MCFairness
=============================================================================
