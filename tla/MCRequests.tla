----------------------------- MODULE MCRequests -----------------------------
(***************************************************************************)
(* Three requests for TLC, to two contacts whose keys share their first     *)
(* byte: API logins that displace each other, frame logins that share a     *)
(* session, and each with the kinds of request whose replies a pending      *)
(* login may meet.                                                          *)
(***************************************************************************)
EXTENDS Requests

Asks(kind, contact) == [kind |-> kind, contact |-> contact]

ThreeCalls == {"r1", "r2", "r3"}

Calls(a, b, c) == [r \in ThreeCalls |-> CASE r = "r1" -> a [] r = "r2" -> b [] r = "r3" -> c]

MixedWorkloads ==
    {Calls(Asks("login", "c1"), Asks("login", "c1"), Asks("proto", "c1")),
     Calls(Asks("frame", "c1"), Asks("frame", "c1"), Asks("proto", "c1")),
     Calls(Asks("frame", "c1"), Asks("frame", "c1"), Asks("login", "c2")),
     Calls(Asks("login", "c1"), Asks("frame", "c1"), Asks("legacy", "c1")),
     Calls(Asks("frame", "c1"), Asks("binary", "c1"), Asks("discovery", "c1"))}

LoginMeetsStatus ==
    {Calls(Asks("frame", "c1"), Asks("proto", "c1"), Asks("binary", "c1"))}

SameHash == [c \in {"c1", "c2"} |-> "h"]
=============================================================================
