---------------------------- MODULE SendPromise -----------------------------
(***************************************************************************)
(* What Dispatcher.send_packet promises its callers, without locks, waiter *)
(* tables or events: one packet is on the air at a time; an ACK confirms   *)
(* every send that awaits its CRC, all at once; a send that awaits an ACK  *)
(* succeeds exactly when one has confirmed it.                             *)
(***************************************************************************)
CONSTANTS Sends, Crcs, NoCrc

VARIABLES
  phase,     \* of each send: idle, asked, onair, awaiting, ended
  verdict,   \* what each ended send told its caller
  expects,   \* the CRC each send expects
  confirmed, \* sends that await an ACK and have been acknowledged
  recent     \* ACKs heard recently, which still confirm a late waiter

vars == <<phase, verdict, expects, confirmed, recent>>

Init ==
  /\ phase = [s \in Sends |-> "idle"]
  /\ verdict = [s \in Sends |-> "none"]
  /\ expects = [s \in Sends |-> NoCrc]
  /\ confirmed = {}
  /\ recent = {}

Move(s, ph) == phase' = [phase EXCEPT ![s] = ph]

End(s, v) == Move(s, "ended") /\ verdict' = [verdict EXCEPT ![s] = v]

(* The call is made: the CRC it expects is fixed.                          *)
Asks(s) ==
  \/ phase[s] = "asked" /\ UNCHANGED expects
  \/ /\ phase[s] = "idle"
     /\ \E c \in Crcs : expects' = [expects EXCEPT ![s] = c]

Ask(s) ==
  /\ phase[s] = "idle" /\ Asks(s) /\ Move(s, "asked")
  /\ UNCHANGED <<verdict, confirmed, recent>>

(* Nobody else is on the air.                                              *)
GoOnAir(s) ==
  /\ Asks(s)
  /\ \A o \in Sends : phase[o] # "onair"
  /\ Move(s, "onair")
  /\ UNCHANGED <<verdict, confirmed, recent>>

(* Rejected, failed, or abandoned before there was an ACK to wait for.     *)
Fail(s) ==
  /\ phase[s] \in {"idle", "asked", "onair"}
  /\ \E v \in {"false", "raised", "cancelled"} : End(s, v)
  /\ UNCHANGED expects \/ Asks(s)
  /\ UNCHANGED <<confirmed, recent>>

(* Transmitted, nothing to wait for.                                       *)
Succeed(s) ==
  /\ phase[s] = "onair" /\ End(s, "true")
  /\ UNCHANGED <<expects, confirmed, recent>>

(* Transmitted; an ACK heard a moment ago already counts.                  *)
Await(s) ==
  /\ phase[s] = "onair" /\ Move(s, "awaiting")
  /\ confirmed' = confirmed \cup (IF expects[s] \in recent THEN {s} ELSE {})
  /\ UNCHANGED <<verdict, expects, recent>>

AckHeard(c) ==
  /\ recent' = recent \cup {c}
  /\ confirmed' = confirmed \cup
       {s \in Sends : phase[s] = "awaiting" /\ expects[s] = c}
  /\ UNCHANGED <<phase, verdict, expects>>

Deliver(s) ==
  /\ phase[s] = "awaiting" /\ s \in confirmed /\ End(s, "true")
  /\ confirmed' = confirmed \ {s}
  /\ UNCHANGED <<expects, recent>>

GiveUp(s) ==
  /\ phase[s] = "awaiting" /\ \E v \in {"false", "cancelled"} : End(s, v)
  /\ confirmed' = confirmed \ {s}
  /\ UNCHANGED <<expects, recent>>

Forget ==
  /\ \E r \in SUBSET recent : recent' = r
  /\ UNCHANGED <<phase, verdict, expects, confirmed>>

Next ==
  \/ \E s \in Sends : \/ Ask(s) \/ GoOnAir(s) \/ Fail(s) \/ Succeed(s)
                      \/ Await(s) \/ Deliver(s) \/ GiveUp(s)
  \/ \E c \in Crcs : AckHeard(c)
  \/ Forget

Spec == Init /\ [][Next]_vars
=============================================================================
