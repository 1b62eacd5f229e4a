----------------------------- MODULE MCCompanion -----------------------------
(***************************************************************************)
(* The companion above its send path: the teacher of return paths, the     *)
(* device settings, and the frame server's answers and pushes.  One of     *)
(* them runs and the others stay in their initial state.                   *)
(***************************************************************************)
EXTENDS Companion

(* Two transport keys, two frequencies of which one is open to repeat, and *)
(* one value of the modes, which no property reads.  Two clients with two  *)
(* commands each.                                                          *)
CONSTANTS r1, r2, k1, s1, s2, b1, f1, f2

VARIABLE on

MCReplies == {r1, r2}
MCContacts == {k1}
MCSender == [r \in MCReplies |-> k1]
C(m, h) == [margin |-> m, hops |-> h]

(* Unusable; marginal ones whose margin and hops disagree; reliable ones   *)
(* whose margin and hops disagree.                                         *)
MCCopies == {C(0, 0), C(1, 0), C(2, 1), C(3, 1), C(4, 2)}

Chunks == {<<b1>>, <<b1, b1>>}

MCInit ==
  /\ on \in {"teacher", "settings", "session"}
  /\ Init /\ Device!Init /\ Clients!Init
  /\ on # "settings" => owner = "radio" /\ prefs.def = None /\ prefs.freq = f1

(* The two replies differ in their names only, and so do the two clients:  *)
(* the same one is the first to be heard, or to connect, in every          *)
(* behaviour.                                                              *)
FirstClient == CHOOSE c \in Client : TRUE
InOrder ==
  /\ heard[r2] # {} => heard[r1] # {}
  /\ (\E c \in Client : doing[c].op # "new") => doing[FirstClient].op # "new"

MCNext ==
  /\ \/ on = "teacher" /\ Next /\ UNCHANGED <<on, settingsVars, sessionVars>>
     \/ on = "settings" /\ Device!Next /\ UNCHANGED <<on, vars, sessionVars>>
     \/ on = "session" /\ Clients!Next /\ UNCHANGED <<on, vars, settingsVars>>
  /\ InOrder'

MCSpec == MCInit /\ [][MCNext]_<<on, vars, settingsVars, sessionVars>>
=============================================================================
