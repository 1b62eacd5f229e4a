---------------------------- MODULE MCFrameServer ----------------------------
(* Instances of FrameServer for TLC.                                       *)
EXTENDS FrameServer
CONSTANTS c1, c2, c3, st
MCConns == {c1, c2, c3}
MCTwo == {c1, c2}
MCStopper == {st}
=============================================================================
