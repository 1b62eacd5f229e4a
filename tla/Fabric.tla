------------------------------- MODULE Fabric -------------------------------
(***************************************************************************)
(* The multi-radio container (rf_fabric/fabric.py) and the adapter that    *)
(* shows it to the dispatcher as one radio (rf_fabric/fabric_radio.py):    *)
(* radios come and go by id, the fabric hooks the RX callback of each one  *)
(* while it is armed, and a send picks one of them.  A radio reads its     *)
(* callback once and calls it later, from its own thread or task.          *)
(***************************************************************************)
EXTENDS Sequences

CONSTANTS
  Radio,        \* radio objects
  Id,           \* radio ids
  None          \* no id, no radio, no result

(* What is assumed of the constants.                                       *)
FabricAssumption == None \notin Radio /\ None \notin Id

VARIABLES
  order,        \* the keys of _radios, in insertion order
  object,       \* the value of each key (None: not a key)
  default,      \* _default_radio_id
  armed,        \* _armed
  legacy,       \* _legacy_rx_callback is the adapter's _on_fabric_rx
  consumer,     \* the adapter's rx_callback is set
  bound,        \* the id stamped by the callback each radio object holds
  inCall,       \* the id stamped by the callback a radio has read and not yet called
  lastRx,       \* _last_rx_radio_id
  fired,        \* how often the consumer's body ran for the last reception
  tx, result    \* the send in progress, and what the last one returned

vars == <<order, object, default, armed, legacy, consumer, bound, inCall, lastRx,
          fired, tx, result>>
registry == <<order, object, default, armed, bound>>
reception == <<inCall, lastRx, fired>>

Registered == {i \in Id : object[i] # None}
NoSend == [id |-> None, radio |-> None]

Init ==
  /\ order = <<>> /\ object = [i \in Id |-> None] /\ default = None
  /\ armed = FALSE /\ legacy = FALSE /\ consumer = FALSE
  /\ bound = [r \in Radio |-> None]
  /\ inCall = [r \in Radio |-> None] /\ lastRx = None /\ fired = 0
  /\ tx = NoSend /\ result = None

-----------------------------------------------------------------------------
(* Registry *)

RegisterUnbound(r, i) ==
  /\ i \notin Registered /\ \A j \in Id : object[j] # r
  /\ order' = Append(order, i) /\ object' = [object EXCEPT ![i] = r]
  /\ default' = IF default = None THEN i ELSE default
  /\ UNCHANGED <<armed, bound, legacy, consumer, reception, tx, result>>

(* register_radio, called with an id and an object that are not in use:    *)
(* every other call raises.                                                *)
RegisterRadio(r, i) ==
  /\ i \notin Registered /\ \A j \in Id : object[j] # r
  /\ order' = Append(order, i) /\ object' = [object EXCEPT ![i] = r]
  /\ default' = IF default = None THEN i ELSE default
  /\ bound' = IF armed THEN [bound EXCEPT ![r] = i] ELSE bound
  /\ UNCHANGED <<armed, legacy, consumer, reception, tx, result>>

(* unregister_radio of one id; the next default is the oldest one left.    *)
UnregisterRadio(i) ==
  /\ i \in Registered
  /\ order' = SelectSeq(order, LAMBDA j : j # i)
  /\ object' = [object EXCEPT ![i] = None] /\ bound' = [bound EXCEPT ![object[i]] = None]
  /\ default' = IF default # i THEN default ELSE IF order' = <<>> THEN None ELSE Head(order')
  /\ UNCHANGED <<armed, legacy, consumer, reception, tx, result>>

(* The callbacks of every registered radio cleared.                        *)
UnboundAll == [r \in Radio |-> IF \E i \in Id : object[i] = r THEN None ELSE bound[r]]

UnregisterAll ==
  /\ order # <<>>
  /\ bound' = UnboundAll
  /\ order' = <<>> /\ object' = [i \in Id |-> None] /\ default' = None
  /\ UNCHANGED <<armed, legacy, consumer, reception, tx, result>>

SetDefaultRadio(i) ==
  /\ i \in Registered /\ default' = i
  /\ UNCHANGED <<order, object, armed, bound, legacy, consumer, reception, tx, result>>

BoundAll ==
  [r \in Radio |-> IF \E i \in Id : object[i] = r THEN CHOOSE i \in Id : object[i] = r
                   ELSE bound[r]]

Arm ==
  /\ armed' = TRUE /\ bound' = BoundAll
  /\ UNCHANGED <<order, object, default, legacy, consumer, reception, tx, result>>

Disarm ==
  /\ armed /\ armed' = FALSE /\ bound' = UnboundAll
  /\ UNCHANGED <<order, object, default, legacy, consumer, reception, tx, result>>

(* FabricRadio around this fabric: its constructor takes over the legacy   *)
(* callback and arms.                                                      *)
FabricRadioInit(i) ==
  /\ ~legacy /\ legacy' = TRUE
  /\ i \in Registered \cup {None}
  /\ default' = IF i = None THEN default ELSE i
  /\ armed' = TRUE /\ bound' = BoundAll
  /\ UNCHANGED <<order, object, consumer, reception, tx, result>>

SetRxCallback ==
  /\ legacy /\ consumer' = ~consumer
  /\ UNCHANGED <<registry, legacy, reception, tx, result>>

-----------------------------------------------------------------------------
(* Reception *)

(* The radio has a packet and reads its callback.                          *)
RadioHears(r) ==
  /\ bound[r] # None /\ inCall[r] = None
  /\ inCall' = [inCall EXCEPT ![r] = bound[r]]
  /\ UNCHANGED <<registry, legacy, consumer, lastRx, fired, tx, result>>

(* A consumer whose body raises TypeError is taken for one that wants only *)
(* the bytes: FabricRadio retries it so, which fails on its signature, and *)
(* the fabric then retries the adapter, which runs the body again.         *)
Runs(raises) == IF ~legacy \/ ~consumer THEN 0 ELSE IF raises THEN 2 ELSE 1

OnRadioRx(r) ==
  /\ inCall[r] # None /\ inCall' = [inCall EXCEPT ![r] = None]
  /\ lastRx' = inCall[r]
  /\ \E raises \in BOOLEAN : fired' = Runs(raises)
  /\ UNCHANGED <<registry, legacy, consumer, tx, result>>

-----------------------------------------------------------------------------
(* Transmission *)

(* resolve_tx_radio_id for a caller's id, a selector's answer or neither.  *)
Resolve(explicit, selected) ==
  IF explicit # None THEN explicit ELSE IF selected # None THEN selected ELSE default

Send(explicit, selected) ==
  LET i == Resolve(explicit, selected) IN
  /\ tx = NoSend
  /\ IF i \in Registered
     THEN tx' = [id |-> i, radio |-> object[i]] /\ result' = None
     ELSE tx' = tx /\ result' = "raised"
  /\ UNCHANGED <<registry, legacy, consumer, reception>>

(* The radio's send returns: a failure is passed on, a success is stamped. *)
SendDone ==
  /\ tx # NoSend /\ tx' = NoSend
  /\ \E ok \in BOOLEAN : result' = IF ok THEN tx.id ELSE "failed"
  /\ UNCHANGED <<registry, legacy, consumer, reception>>

Next ==
  \/ \E r \in Radio, i \in Id : RegisterRadio(r, i)
  \/ \E i \in Id : UnregisterRadio(i) \/ SetDefaultRadio(i)
  \/ UnregisterAll \/ Arm \/ Disarm \/ SetRxCallback \/ SendDone
  \/ \E i \in Id \cup {None} : FabricRadioInit(i)
  \/ \E r \in Radio : RadioHears(r) \/ OnRadioRx(r)
  \/ \E i, j \in Id \cup {None} : Send(i, j)

Spec == Init /\ [][Next]_vars

-----------------------------------------------------------------------------
(* The callbacks and the objects, which is what BoundExactly is about.     *)
TypeOK ==
  /\ object \in [Id -> Radio \cup {None}] /\ armed \in BOOLEAN
  /\ bound \in [Radio -> Id \cup {None}]

(* Exactly the radios that are registered with an armed fabric call it,    *)
(* each under its own id, whatever the order of register_radio,            *)
(* unregister_radio, arm and disarm (fabric.py 79-176); so no packet is    *)
(* stamped with another radio's id.                                        *)
BoundExactly ==
  \A r \in Radio, i \in Id : bound[r] = i <=> (armed /\ object[i] = r)
=============================================================================
