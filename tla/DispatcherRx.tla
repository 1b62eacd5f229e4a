---------------------------- MODULE DispatcherRx ----------------------------
(***************************************************************************)
(* The receive side of node/dispatcher.py: _on_packet_received,            *)
(* _process_received_packet, _dispatch, the client-repeat forward it       *)
(* schedules, and the part of PacketFilter they use.                       *)
(*                                                                         *)
(* A reception is one task of _process_received_packet.  The copy it       *)
(* carries is a packet (all that calculate_packet_hash sees: the hash      *)
(* leaves the path out) and a kind, what the path tells this node:         *)
(*   flood      a flood copy                                               *)
(*   exhausted  direct, no hop left                                        *)
(*   mine       direct, this node is the next hop                          *)
(*   overheard  direct, another node is the next hop                       *)
(*   malformed  read_from raises                                           *)
(* A packet in LocalTypes has a handler registered with local_delivery;    *)
(* the others (ACK, MULTIPART, TRACE, an application's router) have not.   *)
(***************************************************************************)
EXTENDS Naturals, FiniteSets

CONSTANTS
  Receptions, \* tasks of _process_received_packet
  Packets,    \* packets, by hash
  LocalTypes, \* those whose handler is a local-delivery handler
  NoPacket,   \* a reception that has not started
  Window,     \* PacketFilter.window_seconds, in ticks
  MaxHold     \* MAX_RX_DELAY_MS, in ticks

ASSUME WindowAssumption == Window \in Nat \ {0} /\ MaxHold \in Nat
ASSUME PacketAssumption == NoPacket \notin Packets /\ LocalTypes \subseteq Packets

VARIABLES
  phase, pkt, kind, \* of each reception
  hold,             \* ticks left of its flood reception delay
  fwd,              \* receptions with a forward copy built
  forwards,         \* forward copies waiting out their jitter: their packets
  tracked,          \* packet_filter: age of each hash; Window when too old
  rxEnabled, clientRepeat,
  sinceDelivery,    \* history: ticks since a handler was last given the packet
  sinceForward,     \* history: ticks since a forward of it was last built
  sinceOwned,       \* history: ticks since this node sent it or took charge of it
  beaten            \* history: held receptions overtaken by another copy

rxVars == <<pkt, kind>>
history == <<sinceDelivery, sinceForward, sinceOwned, beaten>>
vars == <<phase, pkt, kind, hold, fwd, forwards, tracked, rxEnabled,
          clientRepeat, sinceDelivery, sinceForward, sinceOwned, beaten>>

Phases == {"idle", "subscribers", "callbacks", "held", "handler", "done"}
Kinds  == {"flood", "exhausted", "mine", "overheard", "malformed"}

Init ==
  /\ phase = [r \in Receptions |-> "idle"]
  /\ pkt = [r \in Receptions |-> NoPacket]
  /\ kind = [r \in Receptions |-> "flood"]
  /\ hold = [r \in Receptions |-> 0]
  /\ fwd = {} /\ forwards = [p \in Packets |-> 0]
  /\ tracked = [p \in Packets |-> Window]
  /\ rxEnabled = TRUE /\ clientRepeat = FALSE
  /\ sinceDelivery = [p \in Packets |-> Window]
  /\ sinceForward = [p \in Packets |-> Window]
  /\ sinceOwned = [p \in Packets |-> Window]
  /\ beaten = {}

Goto(r, ph) == phase' = [phase EXCEPT ![r] = ph]

(* PacketFilter.is_duplicate and track_packet.  cleanup_old_hashes only    *)
(* drops what is already too old to be a duplicate.                        *)
IsDuplicate(p) == tracked[p] < Window

TrackPacket(p) == tracked' = [tracked EXCEPT ![p] = 0]

-----------------------------------------------------------------------------
(* _on_packet_received: nothing happens while RX is disarmed.              *)
OnPacketReceived(r) ==
  /\ phase[r] = "idle"
  /\ IF rxEnabled
     THEN /\ \E p \in Packets, k \in Kinds :
               /\ pkt' = [pkt EXCEPT ![r] = p]
               /\ kind' = [kind EXCEPT ![r] = k]
          /\ Goto(r, "subscribers")
     ELSE Goto(r, "done") /\ UNCHANGED rxVars
  /\ UNCHANGED <<hold, fwd, forwards, tracked, rxEnabled,
                 clientRepeat, history>>

(* The raw RX subscribers have returned: a malformed frame ends here, by   *)
(* the blacklist or by the parser, which blacklists it; the others go to   *)
(* the analysis and raw packet callbacks.                                  *)
Parse(r) ==
  /\ phase[r] = "subscribers"
  /\ Goto(r, IF kind[r] = "malformed" THEN "done" ELSE "callbacks")
  /\ UNCHANGED <<rxVars, hold, fwd, forwards, tracked, rxEnabled, clientRepeat,
                 history>>

(* _is_transit_direct_not_next_hop                                         *)
NotNextHop(r) == kind[r] = "overheard"

(* Mutant: transit packets are delivered too.                              *)
TransitUngated(r) == FALSE

(* _is_transit_direct_delivery                                             *)
TransitDelivery(r) == pkt[r] \in LocalTypes /\ kind[r] \in {"mine", "overheard"}

(* _build_client_repeat_forward: a flood unless its path is full, a routed *)
(* direct packet when this node is the next hop.                           *)
Forwardable(r) ==
  CASE kind[r] = "flood" -> BOOLEAN
    [] kind[r] = "mine"  -> {TRUE}
    [] OTHER             -> {FALSE}

(* A copy gets past the duplicate check: the forward copy is built and the *)
(* handler is called, in the same step.                                    *)
Accept(r) ==
  /\ Goto(r, "handler")
  /\ \E build \in Forwardable(r) :
       IF clientRepeat /\ build
       THEN /\ fwd' = fwd \cup {r}
            /\ sinceForward' = [sinceForward EXCEPT ![pkt[r]] = 0]
       ELSE UNCHANGED <<fwd, sinceForward>>
  /\ sinceDelivery' = IF TransitDelivery(r) THEN sinceDelivery
                      ELSE [sinceDelivery EXCEPT ![pkt[r]] = 0]
  /\ IF NotNextHop(r)
     THEN UNCHANGED <<sinceOwned, beaten>>
     ELSE /\ sinceOwned' = [sinceOwned EXCEPT ![pkt[r]] = 0]
          /\ beaten' = beaten \cup {o \in Receptions \ {r} :
                                     phase[o] = "held" /\ pkt[o] = pkt[r]}

(* From the duplicate check to the handler: an overheard copy is neither   *)
(* checked nor tracked.                                                    *)
Process(r) ==
  IF NotNextHop(r) THEN Accept(r) /\ UNCHANGED tracked
  ELSE IF IsDuplicate(pkt[r])
       THEN Goto(r, "done") /\ UNCHANGED <<tracked, fwd, history>>
       ELSE TrackPacket(pkt[r]) /\ Accept(r)

(* flood_rx_metrics: the reception-quality delay, capped; 0 is no hold.    *)
Holds == 1..MaxHold

(* The callbacks have returned: a flood copy may be held first.            *)
CallbacksDone(r) ==
  /\ phase[r] = "callbacks"
  /\ \/ Process(r) /\ UNCHANGED hold
     \/ /\ kind[r] = "flood"
        /\ \E d \in Holds : hold' = [hold EXCEPT ![r] = d]
        /\ Goto(r, "held")
        /\ UNCHANGED <<tracked, fwd, history>>
  /\ UNCHANGED <<rxVars, forwards, rxEnabled, clientRepeat>>

HoldOver(r) ==
  /\ phase[r] = "held" /\ hold[r] = 0
  /\ Process(r)
  /\ UNCHANGED <<rxVars, hold, forwards, rxEnabled, clientRepeat>>

(* _dispatch returned (handler errors are swallowed there); `consumed` is  *)
(* the do-not-retransmit mark, which only a flood forward honours.         *)
HandlerDone(r) ==
  /\ phase[r] = "handler" /\ Goto(r, "done")
  /\ \E consumed \in BOOLEAN :
       IF r \in fwd /\ ~(kind[r] = "flood" /\ consumed)
       THEN forwards' = [forwards EXCEPT ![pkt[r]] = @ + 1]
       ELSE UNCHANGED forwards
  /\ fwd' = fwd \ {r}
  /\ UNCHANGED <<rxVars, hold, tracked, rxEnabled, clientRepeat, history>>

-----------------------------------------------------------------------------
(* _client_repeat_transmit after its jitter: send_packet tracks the hash   *)
(* under _tx_lock.                                                         *)
ForwardSent(p) ==
  /\ forwards[p] > 0
  /\ forwards' = [forwards EXCEPT ![p] = @ - 1]
  /\ TrackPacket(p)
  /\ sinceOwned' = [sinceOwned EXCEPT ![p] = 0]
  /\ UNCHANGED <<phase, rxVars, hold, fwd, rxEnabled, clientRepeat,
                 sinceDelivery, sinceForward, beaten>>

(* A packet of this node's own goes through send_packet.                   *)
SendOwn(p) ==
  /\ TrackPacket(p)
  /\ sinceOwned' = [sinceOwned EXCEPT ![p] = 0]
  /\ UNCHANGED <<phase, rxVars, hold, fwd, forwards, rxEnabled,
                 clientRepeat, sinceDelivery, sinceForward, beaten>>

(* _arm_rx and _disarm_rx (run_forever, stop); set_client_repeat_enabled.  *)
ToggleRx ==
  /\ rxEnabled' = ~rxEnabled
  /\ UNCHANGED <<phase, rxVars, hold, fwd, forwards, tracked, clientRepeat,
                 history>>

ToggleClientRepeat ==
  /\ clientRepeat' = ~clientRepeat
  /\ UNCHANGED <<phase, rxVars, hold, fwd, forwards, tracked,
                 rxEnabled, history>>

(* clear_packet_filter: what came before no longer counts.                 *)
ClearPacketFilter ==
  /\ tracked' = [p \in Packets |-> Window]
  /\ sinceDelivery' = tracked' /\ sinceForward' = tracked' /\ sinceOwned' = tracked'
  /\ beaten' = {}
  /\ UNCHANGED <<phase, rxVars, hold, fwd, forwards, rxEnabled, clientRepeat>>

Older(since) == [p \in Packets |-> IF since[p] < Window THEN since[p] + 1
                                   ELSE since[p]]

(* The clock.  A hold that is over ends before the next tick.              *)
Tick ==
  /\ \A r \in Receptions : phase[r] = "held" => hold[r] > 0
  /\ hold' = [r \in Receptions |-> IF phase[r] = "held" THEN hold[r] - 1
                                   ELSE hold[r]]
  /\ tracked' = Older(tracked)
  /\ sinceDelivery' = Older(sinceDelivery)
  /\ sinceForward' = Older(sinceForward)
  /\ sinceOwned' = Older(sinceOwned)
  /\ UNCHANGED <<phase, rxVars, fwd, forwards, rxEnabled,
                 clientRepeat, beaten>>

Next ==
  \/ \E r \in Receptions : \/ OnPacketReceived(r) \/ Parse(r) \/ CallbacksDone(r)
                           \/ HoldOver(r) \/ HandlerDone(r)
  \/ \E p \in Packets : ForwardSent(p) \/ SendOwn(p)
  \/ ToggleRx \/ ToggleClientRepeat \/ ClearPacketFilter \/ Tick

Spec == Init /\ [][Next]_vars

-----------------------------------------------------------------------------
TypeOK ==
  /\ phase \in [Receptions -> Phases]
  /\ pkt \in [Receptions -> Packets \cup {NoPacket}]
  /\ kind \in [Receptions -> Kinds]
  /\ hold \in [Receptions -> 0..MaxHold]
  /\ fwd \subseteq Receptions /\ forwards \in [Packets -> Nat]
  /\ tracked \in [Packets -> 0..Window]
  /\ rxEnabled \in BOOLEAN /\ clientRepeat \in BOOLEAN
  /\ sinceDelivery \in [Packets -> 0..Window]
  /\ sinceForward \in [Packets -> 0..Window]
  /\ sinceOwned \in [Packets -> 0..Window]
  /\ beaten \subseteq Receptions

Accepted(r) == phase[r] # "handler" /\ phase'[r] = "handler"
Dropped(r)  == phase[r] \in {"callbacks", "held"} /\ phase'[r] = "done"

(* A local-delivery handler never gets the same packet twice within a      *)
(* window, whichever mix of flood, direct, held and overheard copies       *)
(* arrives and whenever their callbacks return ("Without it a node that    *)
(* hears both a peer's pre-relay transmission and the relay's              *)
(* retransmission delivers the same DM twice", _is_transit_direct_delivery)*)
DeliveredOncePerWindow ==
  [][\A r \in Receptions :
       Accepted(r) /\ pkt[r] \in LocalTypes /\ ~TransitDelivery(r) =>
         sinceDelivery[pkt[r]] = Window]_vars

(* Client-repeat relays a packet at most once within a window, though the  *)
(* forward is sent after an await on the handlers and a random jitter.     *)
ForwardedOncePerWindow ==
  [][\A r \in Receptions :
       r \in fwd' \ fwd => sinceForward[pkt[r]] = Window]_vars

(* Overhearing never suppresses: a copy is dropped as a duplicate only     *)
(* when this node itself sent the packet or took charge of a copy of it    *)
(* within the window ("A node that overhears an earlier route variant must *)
(* not mark the path-independent hash seen, or it would later drop the     *)
(* self-stripped copy it is asked to relay").                              *)
OverhearingHarmless ==
  [][\A r \in Receptions : Dropped(r) => sinceOwned[pkt[r]] < Window]_vars

(* A held copy that another copy overtook is dropped when it wakes ("the   *)
(* dedupe check below [...] then drops this copy when it wakes").          *)
OvertakenCopyDropped ==
  \A r \in beaten : phase[r] # "handler"
=============================================================================
