--------------------------- MODULE MCDispatcherRx ---------------------------
(* Three receptions of one packet with a local-delivery handler.  Packets do *)
(* not interact: every guard of a reception reads the state of its own       *)
(* packet only.                                                              *)
EXTENDS DispatcherRx, TLC

CONSTANTS r1, r2, r3, dm

RxSymmetry == Permutations(Receptions)
=============================================================================
