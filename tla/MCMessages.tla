----------------------------- MODULE MCMessages -----------------------------
(***************************************************************************)
(* Messages out and in: two concurrent sends over two CRCs, which may      *)
(* share one, with a two-tick ACK deadline and ACK cache; and the queue of *)
(* a companion.  One of the two runs and the other stays in its initial    *)
(* state.                                                                  *)
(***************************************************************************)
EXTENDS Messages, TLC

VARIABLE on

(* A text, a command answer, an unsupported text, a channel text this node *)
(* may also send and a channel datagram, for a queue that one of them      *)
(* fills and caches of one entry.                                          *)
Key == "group" :> "key" @@ "data" :> "key"

MCInit ==
  /\ on \in {"send", "inbox"} /\ Init /\ Mail!Init
  /\ on # "inbox" => channels[0] = None

MCNext ==
  \/ on = "send" /\ Next /\ UNCHANGED <<on, inboxVars>>
  \/ on = "inbox" /\ Mail!Next /\ UNCHANGED <<on, vars>>

(* The fairness of each component, while it is the one that runs.          *)
MCFairness ==
  /\ \A t \in Tasks : WF_vars(on = "send" /\ TaskStep(t))
  /\ WF_vars(on = "send" /\ Tick) /\ WF_vars(on = "send" /\ PruneAcks)
  /\ WF_inboxVars(on = "inbox" /\ Mail!NewMessage)
  /\ WF_inboxVars(on = "inbox" /\ Mail!SyncNext)
  /\ WF_inboxVars(on = "inbox" /\ Mail!SyncThread)
  /\ WF_inboxVars(on = "inbox" /\ Mail!AppSync)
  /\ WF_inboxVars(on = "inbox" /\ Mail!AppRead)

MCSpec == MCInit /\ [][MCNext]_<<on, vars, inboxVars>> /\ MCFairness
=============================================================================
