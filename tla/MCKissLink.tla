----------------------------- MODULE MCKissLink -----------------------------
(* The link of the KISS modem with two threads' slots, a worker, an opener  *)
(* and a closer.                                                            *)
EXTENDS KissLine

MCSpec == Line!LiveSpec
=============================================================================
