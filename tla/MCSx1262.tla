------------------------------ MODULE MCSx1262 ------------------------------
(***************************************************************************)
(* A sender, a second sender and a scan on one chip.                       *)
(***************************************************************************)
EXTENDS Sx1262
=============================================================================
