------------------------------ MODULE MCRuntime ------------------------------
(***************************************************************************)
(* What a companion app depends on: the life cycle of the companion, with  *)
(* two starts, two stops and a cleanup, and its server of frames, with two *)
(* connections and a stop.  One of the two runs and the other stays in its *)
(* initial state.                                                          *)
(***************************************************************************)
EXTENDS Runtime

VARIABLE on

MCInit == on \in {"server", "radio"} /\ Init /\ Frames!Init

(* The calls of a kind differ in their names only, and so do the           *)
(* connections: of two, the same one is made first in every behaviour.     *)
First(S) == CHOOSE x \in S : TRUE
Called(c) == pc[c] # "idle" \/ Queued(Caller(c))
InOrder ==
  /\ \A S \in {Starts, Stops} : (\E c \in S : Called(c)) => Called(First(S))
  /\ (\E c \in Conns : fpc[c] # "new") => fpc[First(Conns)] # "new"

MCNext ==
  /\ \/ on = "server" /\ Frames!Next /\ UNCHANGED <<on, vars>>
     \/ on = "radio" /\ Next /\ UNCHANGED <<on, frameVars>>
  /\ InOrder'

(* The fairness of each component, while it is the one that runs.          *)
MCFairness ==
  /\ WF_frameVars(on = "server" /\ Frames!ServerTurn)
  /\ \A c \in Conns : /\ WF_frameVars(on = "server" /\ Frames!CommandResumes(c))
                      /\ WF_frameVars(on = "server" /\ Frames!WriterLoop(c))
                      /\ WF_frameVars(on = "server" /\ Frames!ConnectionLost(c))
  /\ WF_vars(on = "radio" /\ ServeQueue)
  /\ \A c \in Stops : WF_vars(on = "radio" /\ ReciprocalsOver(c))
  /\ \A s \in Starts : WF_vars(on = "radio" /\ LoopWakes(s))

MCSpec == MCInit /\ [][MCNext]_<<on, vars, frameVars>> /\ MCFairness
=============================================================================
