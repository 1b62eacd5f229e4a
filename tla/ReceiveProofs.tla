--------------------------- MODULE ReceiveProofs ----------------------------
(* The receive path: one delivery of a packet per window.  The radios:     *)
(* exactly the registered ones are bound.  The contacts: adverts only      *)
(* refresh them, and eviction spares those it must.  The request server:   *)
(* a reply goes back as its request came, and discovery is rationed.       *)
EXTENDS Receive, Answering, TLAPS

\* Leaves are tried with Zenon first and then with the SMT solver.
USE ZenonT(2), SMTT(20), ZenonT(20)

(* A reception under way carries a packet.                                 *)
Carries == \A r \in Receptions : phase[r] \notin {"idle", "done"} => pkt[r] \in Packets

(* The age in the packet filter is that of the last time this node took    *)
(* charge of the packet, which is no older than its last delivery and its  *)
(* last forward.                                                           *)
AgeOrder ==
  \A p \in Packets :
    /\ sinceOwned[p] <= tracked[p]
    /\ tracked[p] <= sinceForward[p]
    /\ p \in LocalTypes => tracked[p] <= sinceDelivery[p]

RxInv == TypeOK /\ Carries /\ AgeOrder

LEMMA RxInit == Init => RxInv
<1> SUFFICES ASSUME Init PROVE RxInv
  OBVIOUS
<1>1. Window \in 0..Window /\ 0 \in 0..MaxHold /\ 0 \in Nat
  BY WindowAssumption
<1>2. TypeOK
  BY <1>1 DEF Init, TypeOK, Phases, Kinds
<1>3. Carries /\ AgeOrder
  BY WindowAssumption DEF Init, Carries, AgeOrder
<1> QED
  BY <1>2, <1>3 DEF RxInv

(* A copy that gets past the duplicate check.                              *)
LEMMA AcceptInv ==
  ASSUME RxInv, NEW r \in Receptions, phase[r] \in {"callbacks", "held"},
         Process(r), UNCHANGED <<rxVars, forwards, rxEnabled, clientRepeat, hold>>
  PROVE  RxInv'
<1> USE DEF RxInv, rxVars
<1>0. pkt[r] \in Packets /\ 0 \in 0..Window /\ Window \in Nat
  BY WindowAssumption DEF Carries
<1>1. CASE phase' = [phase EXCEPT ![r] = "done"] /\ UNCHANGED <<tracked, fwd, history>>
  BY <1>0, <1>1 DEF TypeOK, Phases, Carries, AgeOrder, history
<1>2. CASE Accept(r) /\ NotNextHop(r) /\ UNCHANGED tracked
  <2>1. /\ phase' = [phase EXCEPT ![r] = "handler"]
        /\ UNCHANGED <<fwd, sinceForward, sinceOwned, beaten>>
        /\ \/ pkt[r] \in LocalTypes /\ UNCHANGED sinceDelivery
           \/ pkt[r] \notin LocalTypes
              /\ sinceDelivery' = [sinceDelivery EXCEPT ![pkt[r]] = 0]
    BY <1>2 DEF Accept, Goto, NotNextHop, TransitDelivery, Forwardable
  <2> QED
    BY <1>0, <1>2, <2>1 DEF TypeOK, Phases, Carries, AgeOrder
<1>3. CASE Accept(r) /\ ~NotNextHop(r) /\ TrackPacket(pkt[r])
  <2>1. /\ phase' = [phase EXCEPT ![r] = "handler"]
        /\ tracked' = [tracked EXCEPT ![pkt[r]] = 0]
        /\ sinceOwned' = [sinceOwned EXCEPT ![pkt[r]] = 0]
        /\ UNCHANGED sinceDelivery
           \/ sinceDelivery' = [sinceDelivery EXCEPT ![pkt[r]] = 0]
        /\ UNCHANGED sinceForward
           \/ sinceForward' = [sinceForward EXCEPT ![pkt[r]] = 0]
        /\ fwd' \subseteq Receptions /\ beaten' \subseteq Receptions
    BY <1>3 DEF Accept, Goto, TrackPacket, TypeOK
  <2>2. TypeOK' /\ Carries'
    BY <1>0, <2>1 DEF TypeOK, Phases, Carries
  <2>3. AgeOrder'
    BY <1>0, <2>1 DEF TypeOK, AgeOrder
  <2> QED
    BY <2>2, <2>3
<1> QED
  BY <1>1, <1>2, <1>3 DEF Process, Goto

LEMMA RxStep == RxInv /\ [Next]_vars => RxInv'
<1> SUFFICES ASSUME RxInv, [Next]_vars PROVE RxInv'
  OBVIOUS
<1> USE DEF RxInv
<1>0. Window \in Nat \ {0} /\ MaxHold \in Nat
  BY WindowAssumption
<1>1. ASSUME NEW r \in Receptions, OnPacketReceived(r) PROVE RxInv'
  BY <1>1 DEF OnPacketReceived, Goto, TypeOK, Phases, Carries, AgeOrder, history, rxVars
<1>2. ASSUME NEW r \in Receptions, Parse(r) PROVE RxInv'
  BY <1>2 DEF Parse, Goto, TypeOK, Phases, Carries, AgeOrder, history, rxVars
<1>3. ASSUME NEW r \in Receptions, CallbacksDone(r) PROVE RxInv'
  <2>1. CASE Process(r) /\ UNCHANGED hold
    BY <1>3, <2>1, AcceptInv DEF CallbacksDone
  <2>2. CASE ~(Process(r) /\ UNCHANGED hold)
    BY <1>0, <1>3, <2>2 DEF CallbacksDone, Holds, Goto, TypeOK, Phases, Carries,
       AgeOrder, history, rxVars
  <2> QED
    BY <2>1, <2>2
<1>4. ASSUME NEW r \in Receptions, HoldOver(r) PROVE RxInv'
  BY <1>4, AcceptInv DEF HoldOver
<1>5. ASSUME NEW r \in Receptions, HandlerDone(r) PROVE RxInv'
  <2>1. pkt[r] \in Packets
    BY <1>5 DEF HandlerDone, Carries
  <2>2. forwards' \in [Packets -> Nat]
    BY <1>5, <2>1 DEF HandlerDone, TypeOK
  <2> QED
    BY <1>5, <2>2 DEF HandlerDone, Goto, TypeOK, Phases, Carries, AgeOrder, history, rxVars
<1>6. ASSUME NEW p \in Packets, ForwardSent(p) PROVE RxInv'
  BY <1>0, <1>6 DEF ForwardSent, TrackPacket, TypeOK, Carries, AgeOrder, rxVars
<1>7. ASSUME NEW p \in Packets, SendOwn(p) PROVE RxInv'
  BY <1>0, <1>7 DEF SendOwn, TrackPacket, TypeOK, Carries, AgeOrder, rxVars
<1>8. CASE ToggleRx \/ ToggleClientRepeat
  BY <1>8 DEF ToggleRx, ToggleClientRepeat, TypeOK, Carries, AgeOrder, history, rxVars
<1>9. CASE Tick
  <2>1. hold' \in [Receptions -> 0..MaxHold]
    BY <1>0, <1>9 DEF Tick, TypeOK
  <2>2. \A since \in [Packets -> 0..Window] : Older(since) \in [Packets -> 0..Window]
    BY <1>0 DEF Older
  <2>3. TypeOK' /\ Carries'
    BY <1>9, <2>1, <2>2 DEF Tick, TypeOK, Carries, rxVars
  <2>4. AgeOrder'
    BY <1>0, <1>9 DEF Tick, Older, TypeOK, AgeOrder
  <2> QED
    BY <2>3, <2>4
<1>10. CASE ClearPacketFilter
  BY <1>0, <1>10 DEF ClearPacketFilter, TypeOK, Carries, AgeOrder, rxVars
<1>11. CASE UNCHANGED vars
  BY <1>11 DEF vars, TypeOK, Carries, AgeOrder
<1> QED
  BY <1>1, <1>2, <1>3, <1>4, <1>5, <1>6, <1>7, <1>8, <1>9, <1>10, <1>11 DEF Next

LEMMA RxInvariance == Spec => []RxInv
  BY RxInit, RxStep, PTL DEF Spec

(* Every variable of the receive path keeps its type.                      *)
THEOREM RxTypes == Spec => []TypeOK
<1>1. RxInv => TypeOK
  BY DEF RxInv
<1> QED
  BY <1>1, RxInvariance, PTL

(* What a step that accepts, or drops, a copy can be.                      *)
LEMMA AcceptStep ==
  ASSUME RxInv, [Next]_vars, NEW r \in Receptions
  PROVE  /\ Accepted(r) => /\ pkt[r] \in Packets
                           /\ ~NotNextHop(r) => tracked[pkt[r]] = Window
         /\ Dropped(r) => tracked[pkt[r]] < Window /\ pkt[r] \in Packets
         /\ r \in fwd' \ fwd => Accepted(r) /\ ~NotNextHop(r)
<1> DEFINE Goal(x) ==
      /\ Accepted(x) => /\ pkt[x] \in Packets
                        /\ ~NotNextHop(x) => tracked[pkt[x]] = Window
      /\ Dropped(x) => tracked[pkt[x]] < Window /\ pkt[x] \in Packets
      /\ x \in fwd' \ fwd => Accepted(x) /\ ~NotNextHop(x)
<1> USE DEF RxInv
<1>1. ASSUME NEW s \in Receptions, phase[s] \in {"callbacks", "held"}, Process(s)
      PROVE  Goal(r)
  <2>1. pkt[s] \in Packets /\ tracked[pkt[s]] \in 0..Window /\ Window \in Nat
    BY <1>1, WindowAssumption DEF Carries, TypeOK
  <2>2. /\ phase' = [phase EXCEPT ![s] = "handler"]
           \/ phase' = [phase EXCEPT ![s] = "done"]
        /\ phase'[s] = "handler" /\ ~NotNextHop(s) => tracked[pkt[s]] = Window
        /\ phase'[s] = "done" => tracked[pkt[s]] < Window
        /\ \/ fwd' = fwd
           \/ fwd' = fwd \cup {s} /\ phase'[s] = "handler" /\ ~NotNextHop(s)
    <3>1. CASE NotNextHop(s)
      <4>1. phase' = [phase EXCEPT ![s] = "handler"] /\ fwd' = fwd
        BY <1>1, <3>1 DEF Process, Accept, Goto, NotNextHop, Forwardable
      <4> QED
        BY <3>1, <4>1 DEF TypeOK
    <3>2. CASE ~NotNextHop(s) /\ IsDuplicate(pkt[s])
      <4>1. phase' = [phase EXCEPT ![s] = "done"] /\ fwd' = fwd
        BY <1>1, <3>2 DEF Process, Goto
      <4>2. tracked[pkt[s]] < Window
        BY <3>2 DEF IsDuplicate
      <4>3. phase'[s] = "done"
        BY <4>1 DEF TypeOK
      <4> QED
        BY <4>1, <4>2, <4>3
    <3>3. CASE ~NotNextHop(s) /\ ~IsDuplicate(pkt[s])
      <4>1. Accept(s) /\ tracked[pkt[s]] = Window
        BY <1>1, <2>1, <3>3 DEF Process, IsDuplicate
      <4>2. phase' = [phase EXCEPT ![s] = "handler"] /\ phase'[s] = "handler"
        BY <4>1 DEF Accept, Goto, TypeOK
      <4>3. fwd' = fwd \/ fwd' = fwd \cup {s}
        BY <4>1 DEF Accept
      <4> QED
        BY <3>3, <4>1, <4>2, <4>3
    <3> QED
      BY <3>1, <3>2, <3>3
  <2> QED
    BY <1>1, <2>1, <2>2 DEF Accepted, Dropped, TypeOK
<1>2. ASSUME NEW s \in Receptions, phase' = [phase EXCEPT ![s] = phase'[s]],
             phase'[s] # "handler", phase[s] \notin {"callbacks", "held"}
             \/ phase'[s] # "done",
             fwd' \subseteq fwd
      PROVE  Goal(r)
  BY <1>2 DEF Accepted, Dropped, TypeOK
<1>3. ASSUME UNCHANGED <<phase, fwd>> PROVE Goal(r)
  BY <1>3 DEF Accepted, Dropped
<1>4. ASSUME NEW s \in Receptions, OnPacketReceived(s) \/ Parse(s) \/ HandlerDone(s)
      PROVE  Goal(r)
  BY <1>2, <1>4 DEF OnPacketReceived, Parse, HandlerDone, Goto, TypeOK
<1>5. ASSUME NEW s \in Receptions, CallbacksDone(s) \/ HoldOver(s) PROVE Goal(r)
  BY <1>1, <1>2, <1>5 DEF CallbacksDone, HoldOver, Goto, TypeOK
<1>6. ASSUME NEW p \in Packets, ForwardSent(p) \/ SendOwn(p) PROVE Goal(r)
  BY <1>3, <1>6 DEF ForwardSent, SendOwn
<1>7. CASE ToggleRx \/ ToggleClientRepeat \/ ClearPacketFilter \/ Tick \/ UNCHANGED vars
  BY <1>3, <1>7 DEF ToggleRx, ToggleClientRepeat, ClearPacketFilter, Tick, vars
<1> QED
  BY <1>4, <1>5, <1>6, <1>7 DEF Next

(* At most one delivery of a packet to its local-delivery handler within   *)
(* any window, for any mix of copies and any delays.                       *)
THEOREM DeliveryOnce == Spec => DeliveredOncePerWindow
<1>1. ASSUME RxInv, [Next]_vars, NEW r \in Receptions, Accepted(r),
             pkt[r] \in LocalTypes, ~TransitDelivery(r)
      PROVE  sinceDelivery[pkt[r]] = Window
  <2>1. ~NotNextHop(r)
    BY <1>1 DEF NotNextHop, TransitDelivery
  <2>2. tracked[pkt[r]] = Window /\ pkt[r] \in Packets
    BY <1>1, <2>1, AcceptStep
  <2> QED
    BY <1>1, <2>2, WindowAssumption DEF RxInv, AgeOrder, TypeOK
<1>2. RxInv /\ [Next]_vars => \A r \in Receptions :
        Accepted(r) /\ pkt[r] \in LocalTypes /\ ~TransitDelivery(r) =>
          sinceDelivery[pkt[r]] = Window
  BY <1>1
<1> QED
  BY <1>2, RxInvariance, PTL DEF Spec, DeliveredOncePerWindow

(* At most one client-repeat forward of a packet within any window.        *)
THEOREM ForwardOnce == Spec => ForwardedOncePerWindow
<1>1. RxInv /\ [Next]_vars => \A r \in Receptions :
        r \in fwd' \ fwd => sinceForward[pkt[r]] = Window
  BY AcceptStep, WindowAssumption DEF RxInv, AgeOrder, TypeOK
<1> QED
  BY <1>1, RxInvariance, PTL DEF Spec, ForwardedOncePerWindow

(* No copy is ever dropped because a copy for somebody else was overheard. *)
THEOREM OverhearingIsHarmless == Spec => OverhearingHarmless
<1>1. RxInv /\ [Next]_vars => \A r \in Receptions :
        Dropped(r) => sinceOwned[pkt[r]] < Window
  BY AcceptStep, WindowAssumption DEF RxInv, AgeOrder, TypeOK
<1> QED
  BY <1>1, RxInvariance, PTL DEF Spec, OverhearingHarmless

-----------------------------------------------------------------------------
(* Only flood copies are held.  While an overtaken copy is held, the age   *)
(* of its packet in the filter and the rest of the hold add up to one      *)
(* maximal hold at most; afterwards it is gone.                            *)
BeatenInv ==
  /\ \A r \in Receptions : phase[r] = "held" => kind[r] = "flood"
  /\ \A r \in beaten :
       \/ phase[r] = "held" /\ tracked[pkt[r]] + hold[r] <= MaxHold
       \/ phase[r] = "done"

LEMMA BeatenProcess ==
  ASSUME MaxHold < Window, RxInv, BeatenInv, NEW r \in Receptions,
         phase[r] = "callbacks" \/ (phase[r] = "held" /\ hold[r] = 0),
         Process(r), UNCHANGED <<rxVars, hold>>
  PROVE  BeatenInv'
<1> USE DEF RxInv, rxVars
<1>0. /\ pkt[r] \in Packets /\ Window \in Nat /\ MaxHold \in Nat
      /\ phase \in [Receptions -> Phases] /\ tracked \in [Packets -> 0..Window]
      /\ hold \in [Receptions -> 0..MaxHold] /\ beaten \subseteq Receptions
      /\ \A o \in Receptions : phase[o] = "held" => pkt[o] \in Packets
  BY WindowAssumption DEF Carries, TypeOK
<1>1. CASE NotNextHop(r)
  <2>1. phase' = [phase EXCEPT ![r] = "handler"] /\ UNCHANGED <<tracked, beaten>>
    BY <1>1 DEF Process, Accept, Goto
  <2>2. r \notin beaten
    BY <1>1 DEF BeatenInv, NotNextHop
  <2> QED
    BY <1>0, <2>1, <2>2 DEF BeatenInv
<1>2. CASE ~NotNextHop(r) /\ IsDuplicate(pkt[r])
  <2>1. phase' = [phase EXCEPT ![r] = "done"] /\ UNCHANGED <<tracked, beaten>>
    BY <1>2 DEF Process, Goto, history
  <2> QED
    BY <1>0, <2>1 DEF BeatenInv
<1>3. CASE ~NotNextHop(r) /\ ~IsDuplicate(pkt[r])
  <2>1. /\ phase' = [phase EXCEPT ![r] = "handler"]
        /\ tracked' = [tracked EXCEPT ![pkt[r]] = 0]
        /\ beaten' = beaten \cup {o \in Receptions \ {r} :
                                  phase[o] = "held" /\ pkt[o] = pkt[r]}
    BY <1>3 DEF Process, Accept, Goto, TrackPacket
  <2>2. r \notin beaten'
    <3>1. tracked[pkt[r]] = Window
      BY <1>0, <1>3 DEF IsDuplicate
    <3> QED
      BY <1>0, <2>1, <3>1 DEF BeatenInv
  <2>3. \A o \in Receptions : phase'[o] = "held" => kind'[o] = "flood"
    BY <1>0, <2>1 DEF BeatenInv
  <2>4. ASSUME NEW o \in beaten'
        PROVE  \/ phase'[o] = "held" /\ tracked'[pkt'[o]] + hold'[o] <= MaxHold
               \/ phase'[o] = "done"
    <3>1. o # r /\ o \in Receptions /\ phase'[o] = phase[o]
      BY <1>0, <2>1, <2>2, <2>4
    <3>2. CASE pkt[o] = pkt[r] /\ phase[o] = "held"
      BY <1>0, <2>1, <3>1, <3>2
    <3>3. CASE ~(pkt[o] = pkt[r] /\ phase[o] = "held")
      BY <1>0, <2>1, <2>4, <3>1, <3>3 DEF BeatenInv
    <3> QED
      BY <3>2, <3>3
  <2> QED
    BY <2>3, <2>4 DEF BeatenInv
<1> QED
  BY <1>1, <1>2, <1>3

LEMMA BeatenStep ==
  ASSUME MaxHold < Window, RxInv, BeatenInv, [Next]_vars PROVE BeatenInv'
<1> USE DEF RxInv
<1>0. /\ Window \in Nat /\ MaxHold \in Nat
      /\ phase \in [Receptions -> Phases] /\ tracked \in [Packets -> 0..Window]
      /\ hold \in [Receptions -> 0..MaxHold] /\ beaten \subseteq Receptions
      /\ \A o \in Receptions : phase[o] = "held" => pkt[o] \in Packets
  BY WindowAssumption DEF Carries, TypeOK
<1>1. ASSUME NEW r \in Receptions, OnPacketReceived(r) \/ Parse(r) \/ HandlerDone(r)
      PROVE  BeatenInv'
  <2>1. r \notin beaten /\ phase[r] # "held"
    BY <1>1 DEF OnPacketReceived, Parse, HandlerDone, BeatenInv
  <2>2. /\ phase' = [phase EXCEPT ![r] = phase'[r]] /\ phase'[r] # "held"
        /\ UNCHANGED <<tracked, hold, beaten>>
        /\ \A o \in Receptions \ {r} : pkt'[o] = pkt[o] /\ kind'[o] = kind[o]
    BY <1>0, <1>1 DEF OnPacketReceived, Parse, HandlerDone, Goto, history, rxVars,
       TypeOK
  <2> QED
    BY <1>0, <2>1, <2>2 DEF BeatenInv
<1>2. ASSUME NEW r \in Receptions, CallbacksDone(r) PROVE BeatenInv'
  <2>1. CASE Process(r) /\ UNCHANGED hold
    BY <1>2, <2>1, BeatenProcess DEF CallbacksDone
  <2>2. CASE ~(Process(r) /\ UNCHANGED hold)
    <3>1. r \notin beaten
      BY <1>2 DEF CallbacksDone, BeatenInv
    <3>2. /\ phase' = [phase EXCEPT ![r] = "held"] /\ kind[r] = "flood"
          /\ UNCHANGED <<pkt, kind, tracked, beaten>>
          /\ \A o \in Receptions \ {r} : hold'[o] = hold[o]
      BY <1>0, <1>2, <2>2 DEF CallbacksDone, Goto, history, rxVars
    <3> QED
      BY <1>0, <3>1, <3>2 DEF BeatenInv
  <2> QED
    BY <2>1, <2>2
<1>3. ASSUME NEW r \in Receptions, HoldOver(r) PROVE BeatenInv'
  BY <1>3, BeatenProcess DEF HoldOver
<1>4. ASSUME NEW p \in Packets, ForwardSent(p) \/ SendOwn(p) PROVE BeatenInv'
  <2>1. /\ tracked' = [tracked EXCEPT ![p] = 0]
        /\ UNCHANGED <<phase, pkt, kind, hold, beaten>>
    BY <1>4 DEF ForwardSent, SendOwn, TrackPacket, rxVars
  <2> QED
    BY <1>0, <2>1 DEF BeatenInv
<1>5. CASE Tick
  <2>1. \A o \in Receptions : phase[o] = "held" =>
          tracked'[pkt[o]] <= tracked[pkt[o]] + 1 /\ hold'[o] = hold[o] - 1
          /\ tracked'[pkt[o]] \in Nat
    BY <1>0, <1>5 DEF Tick, Older
  <2>2. UNCHANGED <<phase, pkt, kind, beaten>>
    BY <1>5 DEF Tick, rxVars
  <2> QED
    BY <1>0, <2>1, <2>2 DEF BeatenInv
<1>6. CASE ToggleRx \/ ToggleClientRepeat \/ UNCHANGED vars
  BY <1>6 DEF ToggleRx, ToggleClientRepeat, vars, history, rxVars, BeatenInv
<1>7. CASE ClearPacketFilter
  BY <1>7 DEF ClearPacketFilter, rxVars, BeatenInv
<1> QED
  BY <1>1, <1>2, <1>3, <1>4, <1>5, <1>6, <1>7 DEF Next

(* Holds shorter than the window: the duplicate check after the hold       *)
(* always drops a copy that another one overtook.                          *)
THEOREM HoldsWithinWindow ==
  ASSUME MaxHold < Window PROVE Spec => []OvertakenCopyDropped
<1>1. Init => BeatenInv
  BY DEF Init, BeatenInv
<1>2. RxInv /\ BeatenInv /\ [Next]_vars => BeatenInv'
  BY BeatenStep
<1>3. BeatenInv => OvertakenCopyDropped
  BY DEF BeatenInv, OvertakenCopyDropped
<1> QED
  BY <1>1, <1>2, <1>3, RxInvariance, PTL DEF Spec

-----------------------------------------------------------------------------
(* No object is registered under two ids: register_radio refuses it.       *)
OneIdEach == \A i, j \in Id : object[i] # None /\ object[i] = object[j] => i = j

FInv == Radios!TypeOK /\ OneIdEach /\ Radios!BoundExactly

LEMMA InitFInv ==
  ASSUME Radios!FabricAssumption, Radios!Init PROVE FInv
BY DEF Radios!FabricAssumption, Radios!Init, FInv, Radios!TypeOK, OneIdEach, Radios!BoundExactly

(* What arming binds: every registered radio to its own id.                *)
LEMMA ArmBinds ==
  ASSUME Radios!FabricAssumption, Radios!TypeOK, OneIdEach, Radios!BoundExactly
  PROVE  /\ Radios!BoundAll \in [Radio -> Id \cup {None}]
         /\ \A r \in Radio, i \in Id : Radios!BoundAll[r] = i <=> object[i] = r
<1>1. SUFFICES ASSUME NEW r \in Radio
               PROVE  /\ Radios!BoundAll[r] \in Id \cup {None}
                      /\ \A i \in Id : Radios!BoundAll[r] = i <=> object[i] = r
  BY DEF Radios!BoundAll
<1>2. CASE \E i \in Id : object[i] = r
  <2>1. PICK i \in Id : object[i] = r
    BY <1>2
  <2>2. \A j \in Id : object[j] = r => j = i
    BY <2>1 DEF OneIdEach, Radios!FabricAssumption
  <2>3. (CHOOSE j \in Id : object[j] = r) = i
    BY <2>1, <2>2
  <2>4. Radios!BoundAll[r] = i
    BY <1>2, <2>3 DEF Radios!BoundAll
  <2> QED
    BY <2>1, <2>2, <2>4
<1>3. CASE ~ \E i \in Id : object[i] = r
  <2>1. Radios!BoundAll[r] = bound[r]
    BY <1>3 DEF Radios!BoundAll
  <2> QED
    BY <1>3, <2>1 DEF Radios!TypeOK, Radios!BoundExactly
<1> QED
  BY <1>2, <1>3

(* What disarming leaves: no radio bound.                                  *)
LEMMA DisarmUnbinds ==
  ASSUME Radios!FabricAssumption, Radios!TypeOK, Radios!BoundExactly
  PROVE  /\ Radios!UnboundAll \in [Radio -> Id \cup {None}]
         /\ \A r \in Radio, i \in Id : Radios!UnboundAll[r] # i
BY DEF Radios!UnboundAll, Radios!TypeOK, Radios!BoundExactly, Radios!FabricAssumption

LEMMA StepFInv ==
  ASSUME Radios!FabricAssumption, FInv, [Radios!Next]_Radios!vars PROVE FInv'
<1> USE DEF FInv
<1>1. ASSUME NEW r \in Radio, NEW i \in Id, Radios!RegisterRadio(r, i) PROVE FInv'
  BY <1>1 DEF Radios!FabricAssumption, Radios!RegisterRadio, Radios!Registered, Radios!TypeOK,
      OneIdEach, Radios!BoundExactly
<1>2. ASSUME NEW i \in Id, Radios!UnregisterRadio(i) PROVE FInv'
  BY <1>2 DEF Radios!FabricAssumption, Radios!UnregisterRadio, Radios!Registered, Radios!TypeOK,
      OneIdEach, Radios!BoundExactly
<1>3. CASE Radios!UnregisterAll
  BY <1>3, DisarmUnbinds DEF Radios!FabricAssumption, Radios!UnregisterAll, Radios!TypeOK,
      OneIdEach, Radios!BoundExactly
<1>4. CASE Radios!Arm \/ \E i \in Id \cup {None} : Radios!FabricRadioInit(i)
  <2>1. armed' = TRUE /\ bound' = Radios!BoundAll /\ object' = object
    BY <1>4 DEF Radios!Arm, Radios!FabricRadioInit
  <2>2. /\ Radios!BoundAll \in [Radio -> Id \cup {None}]
        /\ \A r \in Radio, i \in Id : Radios!BoundAll[r] = i <=> object[i] = r
    BY ArmBinds
  <2> QED
    BY <2>1, <2>2 DEF Radios!TypeOK, OneIdEach, Radios!BoundExactly
<1>5. CASE Radios!Disarm
  BY <1>5, DisarmUnbinds DEF Radios!Disarm, Radios!TypeOK, OneIdEach, Radios!BoundExactly
<1>6. CASE UNCHANGED <<object, armed, bound>>
  BY <1>6 DEF Radios!TypeOK, OneIdEach, Radios!BoundExactly
<1> QED
  BY <1>1, <1>2, <1>3, <1>4, <1>5, <1>6
  DEF Radios!Next, Radios!vars, Radios!registry, Radios!SetDefaultRadio, Radios!SetRxCallback,
      Radios!SendDone, Radios!RadioHears,
      Radios!OnRadioRx, Radios!Send

(* Whatever is registered, unregistered, armed and disarmed, in whatever   *)
(* order: exactly the registered radios of an armed fabric call it, each   *)
(* under its own id (fabric.py 79-176).                                    *)
THEOREM Bound == Radios!Spec => []BoundExactly
<1>1. Radios!Init => FInv
  BY RadiosGiven, InitFInv
<1>2. FInv /\ [Radios!Next]_Radios!vars => FInv'
  BY RadiosGiven, StepFInv
<1>3. FInv => BoundExactly
  BY DEF FInv, BoundExactly
<1> QED
  BY <1>1, <1>2, <1>3, PTL DEF Radios!Spec

-----------------------------------------------------------------------------
CInv == Book!TypeOK /\ Book!ProxiesMirror

LEMMA InitCInv ==
  ASSUME Book!ContactsAssumption, Book!InputsAssumption, Book!Init PROVE CInv
BY DEF Book!ContactsAssumption, Book!InputsAssumption, Book!Init, CInv, Book!TypeOK,
    Book!ProxiesMirror, Book!Times, Book!Event

(* The three ways to write to the store keep its types and the mirror.     *)
LEMMA UpdateCInv ==
  ASSUME CInv, NEW k \in Peer, NEW c \in Book!Contact \cup {None}, Book!Update(k, c)
  PROVE  /\ contacts' \in [Peer -> Book!Contact \cup {None}] /\ proxies' = contacts'
         /\ contacts'[k] = c /\ \A j \in Peer \ {k} : contacts'[j] = contacts[j]
BY DEF CInv, Book!TypeOK, Book!ProxiesMirror, Book!Update

LEMMA ReplaceCInv ==
  ASSUME CInv, NEW old \in Peer, NEW k \in Peer, k # old, NEW c \in Book!Contact, Book!Replace(old, k, c)
  PROVE  /\ contacts' \in [Peer -> Book!Contact \cup {None}] /\ proxies' = contacts'
         /\ contacts'[old] = None /\ contacts'[k] = c
         /\ \A j \in Peer \ {k, old} : contacts'[j] = contacts[j]
BY DEF CInv, Book!TypeOK, Book!ProxiesMirror, Book!Replace

(* What an event in flight brings to the store.                            *)
LEMMA HeadEvent ==
  ASSUME Book!ContactsAssumption, Book!TypeOK, events # <<>>
  PROVE  /\ Head(events) \in Book!Event /\ Tail(events) \in Seq(Book!Event)
         /\ Book!FromDict(Head(events)) \in Book!Contact
<1>1. Head(events) \in Book!Event /\ Tail(events) \in Seq(Book!Event)
  BY DEF Book!TypeOK
<1> DEFINE e == Head(events)
<1>2. /\ e.key \in Peer /\ e.type \in Book!Types /\ e.ts \in Book!Times /\ clock \in Book!Times /\ 0 \in Book!Times
  BY <1>1 DEF Book!ContactsAssumption, Book!Event, Book!TypeOK, Book!Times
<1> HIDE DEF e
<1>3. (IF e.ts > clock THEN clock ELSE e.ts) \in Book!Times
  BY <1>2
<1>4. Book!FromDict(e) \in Book!Contact
  BY <1>2, <1>3 DEF Book!FromDict, Book!Contact, Book!Paths
<1> QED
  BY <1>1, <1>4 DEF e

(* What _handle_mesh_event does to the store: nothing, a refresh by a      *)
(* newer advert, an addition, or an addition in the place of another.      *)
LEMMA Discovered ==
  ASSUME Book!ContactsAssumption, CInv, Book!NodeDiscovered
  PROVE  \E k \in Peer, c \in Book!Contact :
           \/ UNCHANGED <<contacts, proxies>>
           \/ k \in Book!Stored /\ c.ts > contacts[k].ts /\ Book!Update(k, Book!Merge(k, c))
           \/ k \notin Book!Stored /\ Book!Update(k, c)
           \/ k \notin Book!Stored /\ \E old \in Book!Overwritable : Book!Replace(old, k, c)
<1> DEFINE e == Head(events)  c == Book!FromDict(e)
<1>1. e.key \in Peer /\ c \in Book!Contact
  BY HeadEvent DEF Book!NodeDiscovered, CInv, Book!Event
<1>2. CASE Book!IsReplay(e.key, c)
  BY <1>1, <1>2 DEF Book!NodeDiscovered
<1>3. CASE ~Book!IsReplay(e.key, c)
  <2>1. Book!ApplyAdvert(e, c)
    BY <1>3 DEF Book!NodeDiscovered
  <2>2. ASSUME e.key \in Book!Stored PROVE c.ts > contacts[e.key].ts
    <3>1. contacts[e.key] \in Book!Contact
      BY <1>1, <2>2 DEF Book!Stored, CInv, Book!TypeOK
    <3>2. c.ts \in Nat /\ contacts[e.key].ts \in Nat
      BY <1>1, <3>1 DEF Book!Contact, Book!Times
    <3> HIDE DEF e, c
    <3> QED
      BY <1>3, <2>2, <3>2 DEF Book!IsReplay
  <2> HIDE DEF e, c
  <2> QED
    BY <1>1, <2>1, <2>2 DEF Book!ApplyAdvert
<1> QED
  BY <1>2, <1>3

(* What is merged is a contact, and keeps what the app set.                *)
LEMMA Merged ==
  ASSUME Book!TypeOK, NEW k \in Book!Stored, NEW c \in Book!Contact
  PROVE  /\ Book!Merge(k, c) \in Book!Contact
         /\ Book!Merge(k, c).ts = c.ts /\ Book!Merge(k, c).path = contacts[k].path
         /\ Book!Merge(k, c).fav = contacts[k].fav /\ Book!Merge(k, c).sync = contacts[k].sync
<1>1. contacts[k] \in Book!Contact
  BY DEF Book!Stored, Book!TypeOK
<1> QED
  BY <1>1 DEF Book!Merge, Book!Contact

(* Dropping the contact k and storing another value for it: what the       *)
(* writers other than adverts put in the place of a stored contact.        *)
LEMMA Rewritten ==
  ASSUME Book!TypeOK, NEW k \in Book!Stored
  PROVE  /\ contacts[k] \in Book!Contact
         /\ \A route \in Book!Paths : /\ [contacts[k] EXCEPT !.path = route] \in Book!Contact
                                      /\ [contacts[k] EXCEPT !.path = route].ts = contacts[k].ts
                                      /\ [contacts[k] EXCEPT !.path = route].fav = contacts[k].fav
                                      /\ [contacts[k] EXCEPT !.path = route].sync = contacts[k].sync
         /\ \A t \in Book!Times : /\ [contacts[k] EXCEPT !.sync = t] \in Book!Contact
                                  /\ [contacts[k] EXCEPT !.sync = t].ts = contacts[k].ts
                                  /\ [contacts[k] EXCEPT !.sync = t].fav = contacts[k].fav
                                  /\ [contacts[k] EXCEPT !.sync = t].sync = t
<1>1. contacts[k] \in Book!Contact
  BY DEF Book!Stored, Book!TypeOK
<1> QED
  BY <1>1 DEF Book!Contact

(* The contact send_anon_req stores for a key it does not know.            *)
Unknown == [type |-> "none", fav |-> FALSE, path |-> "zero", ts |-> 0, mod |-> clock, sync |-> 0]

LEMMA UnknownContact ==
  ASSUME Book!ContactsAssumption, Book!TypeOK PROVE Unknown \in Book!Contact /\ Unknown.type = "none"
BY DEF Book!ContactsAssumption, Book!TypeOK, Unknown, Book!Contact, Book!Types, Book!Paths,
    Book!Times

LEMMA EditedContact ==
  ASSUME Book!InputsAssumption, Book!TypeOK, NEW c \in Edits
  PROVE  [c EXCEPT !.mod = IF @ = 0 THEN clock ELSE @] \in Book!Contact
<1>1. c \in Book!Contact /\ clock \in Book!Times
  BY DEF Book!InputsAssumption, Book!TypeOK
<1> QED
  BY <1>1 DEF Book!Contact

LEMMA StepCInv ==
  ASSUME Book!ContactsAssumption, Book!InputsAssumption, CInv, [Book!Next]_Book!vars PROVE CInv'
<1>1. ASSUME contacts' \in [Peer -> Book!Contact \cup {None}], proxies' = contacts',
             clock' = clock, prefs' = prefs,
             events' = events \/ (events # <<>> /\ events' = Tail(events))
      PROVE  CInv'
  BY <1>1, HeadEvent DEF CInv, Book!TypeOK, Book!ProxiesMirror
<1>2. ASSUME NEW a \in Adverts, Book!HearAdvert(a) PROVE CInv'
  <2>1. /\ a.key \in Peer \cup {Self} /\ a.ts \in Book!Times /\ a.type \in Book!Types
        /\ a.hops \in 0..2 /\ a.valid \in BOOLEAN
        /\ a \in [key : Peer \cup {Self}, ts : Book!Times, type : Book!Types, hops : 0..2, valid : BOOLEAN]
    BY DEF Book!InputsAssumption
  <2>2. ASSUME a.key # Self, a.valid
        PROVE  [a EXCEPT !.ts = IF a.ts > clock THEN clock ELSE a.ts] \in Book!Event
    BY <2>1, <2>2 DEF Book!Event, CInv, Book!TypeOK
  <2>3. events' \in Seq(Book!Event)
    BY <1>2, <2>2 DEF Book!HearAdvert, CInv, Book!TypeOK
  <2> QED
    BY <1>2, <2>3 DEF Book!HearAdvert, CInv, Book!TypeOK, Book!ProxiesMirror
<1>3. CASE Book!NodeDiscovered
  <2>1. PICK k \in Peer, c \in Book!Contact :
           \/ UNCHANGED <<contacts, proxies>>
           \/ k \in Book!Stored /\ c.ts > contacts[k].ts /\ Book!Update(k, Book!Merge(k, c))
           \/ k \notin Book!Stored /\ Book!Update(k, c)
           \/ k \notin Book!Stored /\ \E old \in Book!Overwritable : Book!Replace(old, k, c)
    BY <1>3, Discovered
  <2>2. CASE UNCHANGED <<contacts, proxies>>
    BY <1>1, <1>3, <2>2 DEF Book!NodeDiscovered, CInv, Book!TypeOK, Book!ProxiesMirror
  <2>3. CASE k \in Book!Stored /\ Book!Update(k, Book!Merge(k, c))
    BY <1>1, <1>3, <2>3, Merged, UpdateCInv DEF Book!NodeDiscovered, CInv
  <2>4. CASE k \notin Book!Stored /\ Book!Update(k, c)
    BY <1>1, <1>3, <2>4, UpdateCInv DEF Book!NodeDiscovered
  <2>5. CASE k \notin Book!Stored /\ \E old \in Book!Overwritable : Book!Replace(old, k, c)
    BY <1>1, <1>3, <2>5, ReplaceCInv
      DEF Book!NodeDiscovered, Book!Overwritable, Book!Oldest, Book!Real, Book!Stored
  <2> QED
    BY <2>1, <2>2, <2>3, <2>4, <2>5
<1>4. ASSUME NEW k \in Peer, NEW c \in Edits, Book!CmdAddUpdateContact(k, c) PROVE CInv'
  <2> DEFINE new == [c EXCEPT !.mod = IF @ = 0 THEN clock ELSE @]
  <2>1. new \in Book!Contact
    BY EditedContact DEF CInv
  <2>2. Book!Update(k, new) /\ clock' = clock /\ prefs' = prefs /\ events' = events
    BY <1>4 DEF Book!CmdAddUpdateContact
  <2> HIDE DEF new
  <2> QED
    BY <1>1, <2>1, <2>2, UpdateCInv
<1>5. ASSUME NEW k \in Peer, Book!CmdRemoveContact(k) PROVE CInv'
  <2>1. Book!Update(k, None) /\ clock' = clock /\ prefs' = prefs /\ events' = events
    BY <1>5 DEF Book!CmdRemoveContact, Book!Remove
  <2> QED
    BY <1>1, <2>1, UpdateCInv
<1>6. ASSUME NEW k \in Peer, NEW route \in Book!Paths, Book!UpdateContactPath(k, route) PROVE CInv'
  <2> DEFINE new == [contacts[k] EXCEPT !.path = route]
  <2>1. Book!Update(k, new) /\ clock' = clock /\ prefs' = prefs /\ events' = events /\ new \in Book!Contact
    BY <1>6, Rewritten DEF Book!UpdateContactPath, CInv
  <2> HIDE DEF new
  <2> QED
    BY <1>1, <2>1, UpdateCInv
<1>7. ASSUME NEW k \in Peer, Book!CmdResetPath(k) PROVE CInv'
  BY <1>6, <1>7 DEF Book!CmdResetPath, Book!UpdateContactPath, Book!Paths
<1>8. ASSUME NEW k \in Peer, NEW t \in Book!Times, Book!AdvanceSyncSince(k, t) PROVE CInv'
  <2> DEFINE new == [contacts[k] EXCEPT !.sync = t]
  <2>1. Book!Update(k, new) /\ clock' = clock /\ prefs' = prefs /\ events' = events /\ new \in Book!Contact
    BY <1>8, Rewritten DEF Book!AdvanceSyncSince, CInv
  <2> HIDE DEF new
  <2> QED
    BY <1>1, <2>1, UpdateCInv
<1>9. ASSUME NEW k \in Peer, Book!SendAnonReq(k) PROVE CInv'
  <2>1. Unknown \in Book!Contact /\ k \notin Book!Stored /\ clock' = clock /\ prefs' = prefs /\ events' = events
    BY <1>9, UnknownContact DEF CInv, Book!SendAnonReq
  <2>2. CASE Book!Update(k, Unknown)
    BY <1>1, <2>1, <2>2, UpdateCInv
  <2>3. CASE \E old \in Book!Oldest(Book!Transients) : Book!Replace(old, k, Unknown)
    <3>1. PICK old \in Book!Oldest(Book!Transients) : Book!Replace(old, k, Unknown)
      BY <2>3
    <3>2. old \in Peer /\ old # k
      BY <2>1 DEF Book!Oldest, Book!Transients, Book!Stored
    <3> QED
      BY <1>1, <2>1, <3>1, <3>2, ReplaceCInv
  <2> QED
    BY <1>9, <2>2, <2>3 DEF Book!SendAnonReq, Book!AddTransient, Unknown
<1>10. CASE Book!Reload
  <2>1. /\ contacts' \in [Peer -> Book!Contact \cup {None}] /\ proxies' = contacts'
        /\ clock' = clock /\ prefs' = prefs /\ events' = events
    BY <1>10 DEF Book!Reload, CInv, Book!TypeOK
  <2> QED
    BY <1>1, <2>1
<1>11. ASSUME NEW p \in Policies, Book!CmdSetAutoaddConfig(p) PROVE CInv'
  BY <1>11 DEF Book!CmdSetAutoaddConfig, CInv, Book!TypeOK, Book!ProxiesMirror
<1>12. CASE Book!Tick
  BY <1>12 DEF Book!Tick, CInv, Book!TypeOK, Book!ProxiesMirror, Book!Times, Book!ContactsAssumption
<1>13. CASE UNCHANGED Book!vars
  BY <1>13 DEF Book!vars, CInv, Book!TypeOK, Book!ProxiesMirror
<1> QED
  BY <1>2, <1>3, <1>4, <1>5, <1>6, <1>7, <1>8, <1>9, <1>10, <1>11, <1>12, <1>13
  DEF Book!Next, Book!ImportContact, Book!OnContactPathUpdated, Book!InputsAssumption

LEMMA BookInvariance == Book!Spec => []CInv
<1>1. Book!Init => CInv
  BY BookGiven, InitCInv
<1>2. CInv /\ [Book!Next]_Book!vars => CInv'
  BY BookGiven, StepCInv
<1> QED
  BY <1>1, <1>2, PTL DEF Book!Spec

(* What a contact taking the place of another shows of the one that went.  *)
LEMMA Replaced ==
  ASSUME Book!ContactsAssumption, Book!InputsAssumption, CInv, NEW new \in Peer \ Book!Stored,
         NEW c \in Book!Contact, NEW old \in Book!Stored, Book!Replace(old, new, c),
         \/ old \in Book!Oldest({j \in Book!Real : ~contacts[j].fav})
         \/ old \in Book!Oldest(Book!Transients) /\ c.type = "none"
  PROVE  /\ contacts'[old] = None /\ Book!GaveWay(old)
         /\ \A k \in Book!Stored \ {old} : contacts'[k] = contacts[k]
<1>1. old \in Peer /\ new # old
  BY DEF Book!Stored
<1>2. /\ contacts'[old] = None /\ contacts'[new] = c
      /\ \A j \in Peer \ {new, old} : contacts'[j] = contacts[j]
  BY <1>1, ReplaceCInv
<1>3. c # None
  BY DEF Book!InputsAssumption
<1>4. CASE old \in Book!Oldest({j \in Book!Real : ~contacts[j].fav})
  <2>1. contacts[old].type # "none" /\ ~contacts[old].fav
    BY <1>4 DEF Book!Oldest, Book!Real, Book!Transients
  <2> QED
    BY <1>2, <1>3, <1>4, <2>1 DEF Book!GaveWay, Book!Stored
<1>5. CASE old \in Book!Oldest(Book!Transients) /\ c.type = "none"
  <2>1. contacts[old].type = "none"
    BY <1>5 DEF Book!Oldest, Book!Transients
  <2> QED
    BY <1>2, <1>3, <1>5, <2>1 DEF Book!GaveWay, Book!Stored
<1> QED
  BY <1>4, <1>5

(* What a step may do to a stored contact.                                 *)
LEMMA Effects ==
  ASSUME Book!ContactsAssumption, Book!InputsAssumption, CInv, [Book!Next]_Book!vars, NEW k \in Book!Stored
  PROVE  \/ contacts'[k] # None /\ (Book!Edited(k) \/ Book!Refreshed(k))
         \/ contacts'[k] = None /\ (Book!CmdRemoveContact(k) \/ Book!Reload \/ Book!GaveWay(k))
<1> DEFINE Goal == \/ contacts'[k] # None /\ (Book!Edited(k) \/ Book!Refreshed(k))
                   \/ contacts'[k] = None /\ (Book!CmdRemoveContact(k) \/ Book!Reload \/ Book!GaveWay(k))
<1>a. k \in Peer /\ contacts[k] \in Book!Contact /\ contacts[k] # None
  BY DEF Book!Stored, CInv, Book!TypeOK
<1>b. contacts[k].ts \in Nat /\ contacts[k].sync \in Nat
  BY <1>a DEF Book!Contact, Book!Times
<1>1. ASSUME contacts'[k] = contacts[k] PROVE Goal
  BY <1>1, <1>a, <1>b DEF Book!Refreshed
<1>2. ASSUME NEW j \in Peer, NEW c \in Book!Contact \cup {None}, Book!Update(j, c), j # k PROVE Goal
  BY <1>1, <1>2, <1>a, UpdateCInv
<1>3. CASE Book!NodeDiscovered
  <2>1. PICK n \in Peer, c \in Book!Contact :
           \/ UNCHANGED <<contacts, proxies>>
           \/ n \in Book!Stored /\ c.ts > contacts[n].ts /\ Book!Update(n, Book!Merge(n, c))
           \/ n \notin Book!Stored /\ Book!Update(n, c)
           \/ n \notin Book!Stored /\ \E old \in Book!Overwritable : Book!Replace(old, n, c)
    BY <1>3, Discovered
  <2>2. CASE UNCHANGED <<contacts, proxies>>
    BY <1>1, <2>2
  <2>3. CASE n \in Book!Stored /\ c.ts > contacts[n].ts /\ Book!Update(n, Book!Merge(n, c))
    <3>1. Book!Merge(n, c) \in Book!Contact
      BY <2>3, Merged DEF CInv
    <3>2. CASE n # k
      BY <1>2, <2>3, <3>1, <3>2
    <3>3. CASE n = k
      <4>1. contacts'[k] = Book!Merge(k, c)
        BY <2>3, <3>1, <3>3, UpdateCInv
      <4>2. c.ts \in Nat
        BY DEF Book!Contact, Book!Times
      <4>3. /\ contacts'[k].ts = c.ts /\ contacts'[k].path = contacts[k].path
            /\ contacts'[k].fav = contacts[k].fav /\ contacts'[k].sync = contacts[k].sync
        BY <4>1, Merged DEF CInv
      <4>4. contacts'[k] # None
        BY <3>1, <3>3, <4>1 DEF Book!InputsAssumption
      <4> QED
        BY <1>b, <2>3, <3>3, <4>2, <4>3, <4>4 DEF Book!Refreshed
    <3> QED
      BY <3>2, <3>3
  <2>4. CASE n \notin Book!Stored /\ Book!Update(n, c)
    BY <1>2, <2>4
  <2>5. CASE n \notin Book!Stored /\ \E old \in Book!Overwritable : Book!Replace(old, n, c)
    <3>1. PICK old \in Book!Overwritable : Book!Replace(old, n, c)
      BY <2>5
    <3>2. old \in Book!Stored /\ old \in Book!Oldest({j \in Book!Real : ~contacts[j].fav})
      BY DEF Book!Overwritable, Book!Oldest, Book!Real
    <3>3. /\ contacts'[old] = None /\ Book!GaveWay(old)
          /\ \A j \in Book!Stored \ {old} : contacts'[j] = contacts[j]
      BY <2>5, <3>1, <3>2, Replaced
    <3> QED
      BY <1>1, <3>3
  <2> QED
    BY <2>1, <2>2, <2>3, <2>4, <2>5
<1>4. ASSUME NEW j \in Peer, NEW c \in Edits, Book!CmdAddUpdateContact(j, c) PROVE Goal
  <2> DEFINE new == [c EXCEPT !.mod = IF @ = 0 THEN clock ELSE @]
  <2>1. new \in Book!Contact
    BY EditedContact DEF CInv
  <2>2. Book!Update(j, new)
    BY <1>4 DEF Book!CmdAddUpdateContact
  <2> HIDE DEF new
  <2>3. CASE j = k
    <3>1. contacts'[k] # None
      BY <2>1, <2>2, <2>3, UpdateCInv DEF Book!InputsAssumption
    <3> QED
      BY <1>4, <2>3, <3>1 DEF Book!Edited
  <2>4. CASE j # k
    BY <1>2, <2>1, <2>2, <2>4
  <2> QED
    BY <2>3, <2>4
<1>5. ASSUME NEW j \in Peer, Book!CmdRemoveContact(j) PROVE Goal
  <2>1. Book!Update(j, None)
    BY <1>5 DEF Book!CmdRemoveContact, Book!Remove
  <2>2. CASE j = k
    BY <1>5, <2>1, <2>2, UpdateCInv
  <2>3. CASE j # k
    BY <1>2, <2>1, <2>3
  <2> QED
    BY <2>2, <2>3
<1>6. ASSUME NEW j \in Peer, NEW route \in Book!Paths, Book!UpdateContactPath(j, route) PROVE Goal
  <2> DEFINE new == [contacts[j] EXCEPT !.path = route]
  <2>1. j \in Book!Stored /\ Book!Update(j, new)
    BY <1>6 DEF Book!UpdateContactPath
  <2>2. /\ new \in Book!Contact /\ new.ts = contacts[j].ts
        /\ new.fav = contacts[j].fav /\ new.sync = contacts[j].sync
    BY <2>1, Rewritten DEF CInv
  <2> HIDE DEF new
  <2>3. CASE j = k
    <3>1. contacts'[k] = new /\ new # None
      BY <2>1, <2>2, <2>3, UpdateCInv DEF Book!InputsAssumption
    <3> QED
      BY <1>b, <2>2, <2>3, <3>1 DEF Book!Refreshed
  <2>4. CASE j # k
    BY <1>2, <2>1, <2>2, <2>4
  <2> QED
    BY <2>3, <2>4
<1>7. ASSUME NEW j \in Peer, Book!CmdResetPath(j) PROVE Goal
  BY <1>6, <1>7 DEF Book!CmdResetPath, Book!UpdateContactPath, Book!Paths
<1>8. ASSUME NEW j \in Peer, NEW t \in Book!Times, Book!AdvanceSyncSince(j, t) PROVE Goal
  <2> DEFINE new == [contacts[j] EXCEPT !.sync = t]
  <2>1. j \in Book!Stored /\ Book!Update(j, new) /\ t > contacts[j].sync
    BY <1>8 DEF Book!AdvanceSyncSince, CInv, Book!ProxiesMirror
  <2>2. /\ new \in Book!Contact /\ new.ts = contacts[j].ts
        /\ new.fav = contacts[j].fav /\ new.sync = t
    BY <2>1, Rewritten DEF CInv
  <2> HIDE DEF new
  <2>3. CASE j = k
    <3>1. contacts'[k] = new /\ new # None /\ t \in Nat
      BY <2>1, <2>2, <2>3, UpdateCInv DEF Book!InputsAssumption, Book!Times
    <3> QED
      BY <1>b, <2>1, <2>2, <2>3, <3>1 DEF Book!Refreshed
  <2>4. CASE j # k
    BY <1>2, <2>1, <2>2, <2>4
  <2> QED
    BY <2>3, <2>4
<1>9. ASSUME NEW j \in Peer, Book!SendAnonReq(j) PROVE Goal
  <2>1. Unknown \in Book!Contact /\ Unknown.type = "none" /\ j \notin Book!Stored
    BY <1>9, UnknownContact DEF CInv, Book!SendAnonReq
  <2>2. CASE Book!Update(j, Unknown)
    BY <1>2, <2>1, <2>2
  <2>3. CASE \E old \in Book!Oldest(Book!Transients) : Book!Replace(old, j, Unknown)
    <3>1. PICK old \in Book!Oldest(Book!Transients) : Book!Replace(old, j, Unknown)
      BY <2>3
    <3>2. old \in Book!Stored
      BY DEF Book!Oldest, Book!Transients
    <3>3. /\ contacts'[old] = None /\ Book!GaveWay(old)
          /\ \A i \in Book!Stored \ {old} : contacts'[i] = contacts[i]
      BY <2>1, <3>1, <3>2, Replaced
    <3> QED
      BY <1>1, <3>3
  <2> QED
    BY <1>9, <2>2, <2>3 DEF Book!SendAnonReq, Book!AddTransient, Unknown
<1>10. CASE Book!Reload
  <2>1. contacts'[k] = contacts[k] \/ contacts'[k] = None
    BY <1>10, <1>a DEF Book!Reload
  <2> QED
    BY <1>1, <1>10, <2>1
<1>11. CASE contacts' = contacts
  BY <1>1, <1>11
<1> QED
  BY <1>3, <1>4, <1>5, <1>6, <1>7, <1>8, <1>9, <1>10, <1>11
  DEF Book!Next, Book!vars, Book!HearAdvert, Book!ImportContact, Book!OnContactPathUpdated,
      Book!CmdSetAutoaddConfig, Book!Tick,
      Book!InputsAssumption

(* No writer of the book, the PATH handler, the app, adverts or the        *)
(* restore, leaves a proxy behind (contact_store.py, _proxies).            *)
THEOREM Mirrored == Book!Spec => []Book!ProxiesMirror
BY BookInvariance, PTL DEF CInv

(* However many adverts arrive, late, replayed or out of order: apart from *)
(* what the app rewrites, the advert time and the watermark of a stored    *)
(* contact never go back, and an advert leaves its flags and route alone   *)
(* (base_events.py, replay protection).                                    *)
THEOREM OnlyRefresh == Book!Spec => AdvertsOnlyRefresh
<1>1. CInv /\ [Book!Next]_Book!vars =>
        \A k \in Book!Stored : contacts'[k] # None /\ ~Book!Edited(k) => Book!Refreshed(k)
  BY BookGiven, Effects
<1> QED
  BY <1>1, BookInvariance, PTL DEF Book!Spec, AdvertsOnlyRefresh, Book!AdvertsOnlyRefresh

(* A stored contact goes only at a restart, when the app removes it, or    *)
(* for a newcomer when it is the oldest of those that may go: never a      *)
(* favourite (contact_store.py, add_or_overwrite, add_transient).          *)
THEOREM EvictsOldest == Book!Spec => EvictionSpares
<1>1. CInv /\ [Book!Next]_Book!vars =>
        \A k \in Book!Stored : contacts'[k] = None => Book!CmdRemoveContact(k) \/ Book!Reload \/ Book!GaveWay(k)
  BY BookGiven, Effects
<1> QED
  BY <1>1, BookInvariance, PTL DEF Book!Spec, EvictionSpares, Book!EvictionSpares

-----------------------------------------------------------------------------
-----------------------------------------------------------------------------
(* A packet carries a decision exactly when its region is known, and the   *)
(* decision is that region's.                                              *)
Heard == [req : Incoming, captured : BOOLEAN, key : Key \cup {Nil}, unscoped : BOOLEAN,
          under : Region \cup {"plain", "unknown"}]

Answers == [req : Incoming, under : Region \cup {"plain", "unknown"},
            route : {"direct", "flood"}, key : Key \cup {Nil}, final : BOOLEAN, width : Width]

KeyOf(under, key) ==
  /\ under = "plain" => key = Nil
  /\ under \in Region => key = RegionKeys[under][1]

Settled(p) ==
  /\ p \in Heard
  /\ Server!Decided(p) <=> p.under # "unknown"
  /\ KeyOf(p.under, p.key)

Scoped(reply) ==
  /\ reply \in Answers /\ reply.width = reply.req.width
  /\ reply.route = "flood" /\ reply.under # "unknown" =>
       reply.final /\ KeyOf(reply.under, reply.key)

MirrorInv ==
  /\ dmap \in Maps \cup {Nil} /\ bmap \in Maps \cup {Nil}
  /\ \A p \in held : Settled(p)
  /\ \A reply \in replies : Scoped(reply)
  /\ Server!ReplyMirrors

LEMMA MirrorInit == Server!Init => MirrorInv
  BY DEF Server!Init, MirrorInv, Server!ReplyMirrors

LEMMA FirstKeys ==
  ASSUME NEW region \in Region \cup {Nil}
  PROVE  /\ Server!FirstKeyFor(region) \in Key \cup {Nil}
         /\ Server!FirstKeyFor(region) # Nil =>
              region \in Region /\ Server!FirstKeyFor(region) = RegionKeys[region][1]
<1>1. CASE region = Nil
  BY <1>1 DEF Server!FirstKeyFor
<1>2. CASE region # Nil /\ RegionKeys[region] # <<>>
  <2>1. RegionKeys[region] \in Seq(Key) /\ region \in Region
    BY <1>2, ServerGiven DEF Server!ServerAssumption
  <2>2. RegionKeys[region][1] \in Key
    BY <1>2, <2>1
  <2> QED BY <1>2, <2>1, <2>2 DEF Server!FirstKeyFor
<1>3. CASE region # Nil /\ RegionKeys[region] = <<>>
  BY <1>3 DEF Server!FirstKeyFor
<1> QED BY <1>1, <1>2, <1>3

LEMMA Matches ==
  ASSUME NEW map \in Maps, NEW code
  PROVE  Server!FindMatch(map, code) \in Region \cup {Nil}
<1> DEFINE fits == {i \in 1..Len(map.regions) : /\ map.regions[i] \notin map.deny
                                                /\ code \in Server!Elements(RegionKeys[map.regions[i]])}
<1>1. map.regions \in Seq(Region)
  BY ServerGiven DEF Server!ServerAssumption
<1> DEFINE first == {i \in fits : \A j \in fits : i <= j}
           least == CHOOSE i \in first : TRUE
<1>2. CASE first = {}
  BY <1>2 DEF Server!FindMatch
<1>3. CASE first # {}
  <2>1. least \in 1..Len(map.regions)
    BY <1>3
  <2>2. map.regions[least] \in Region
    <3> HIDE DEF least
    <3> QED BY <1>1, <2>1
  <2> QED BY <1>3, <2>2 DEF Server!FindMatch
<1> QED BY <1>2, <1>3

(* Capturing settles a packet and changes nothing of one that is decided.  *)
LEMMA Captured ==
  ASSUME NEW map \in Maps \cup {Nil}, NEW p, Settled(p)
  PROVE  /\ Settled([Server!CaptureRecvRegion(map, p) EXCEPT !.under = Server!Under(map, p)])
         /\ [Server!CaptureRecvRegion(map, p) EXCEPT !.under = Server!Under(map, p)].req = p.req
<1> DEFINE entry == IF p.req.route = "scoped" THEN Server!FindMatch(map, p.req.code) ELSE Nil
           plain == entry \in Wild \/ (p.req.route = "flood" /\ map.plain)
           key == IF entry \in Wild THEN Nil ELSE Server!FirstKeyFor(entry)
           under == IF plain THEN "plain" ELSE IF Server!FirstKeyFor(entry) # Nil THEN entry ELSE "unknown"
           q == [Server!CaptureRecvRegion(map, p) EXCEPT !.under = Server!Under(map, p)]
<1>1. CASE map = Nil \/ Server!Decided(p)
  <2>1. Server!CaptureRecvRegion(map, p) = p /\ Server!Under(map, p) = p.under
    BY <1>1 DEF Server!CaptureRecvRegion, Server!Under, Settled
  <2>2. q = p
    BY <2>1 DEF Settled, Heard
  <2> QED BY <2>2
<1>2. CASE map # Nil /\ ~Server!Decided(p)
  <2>0. p \in Heard /\ map \in Maps /\ entry \in Region \cup {Nil} /\ p.under = "unknown"
    BY <1>2, Matches DEF Settled
  <2>1. /\ Server!FirstKeyFor(entry) \in Key \cup {Nil}
        /\ Server!FirstKeyFor(entry) # Nil => entry \in Region /\ Server!FirstKeyFor(entry) = RegionKeys[entry][1]
    BY <2>0, FirstKeys
  <2>2. map.plain \in BOOLEAN /\ Nil \notin Wild
    BY <2>0, ServerGiven DEF Server!ServerAssumption
  <2>3. Server!Under(map, p) = under
    BY <1>2, <2>0 DEF Server!Under
  <2>4. Server!CaptureRecvRegion(map, p) = [p EXCEPT !.captured = TRUE, !.key = key, !.unscoped = plain]
    BY <1>2 DEF Server!CaptureRecvRegion
  <2>5. plain \in BOOLEAN /\ key \in Key \cup {Nil}
        /\ under \in Region \cup {"plain", "unknown"}
    BY <2>0, <2>1, <2>2
  <2>6. plain => key = Nil
    <3>1. p.req.route = "flood" => entry = Nil
      OBVIOUS
    <3>2. Server!FirstKeyFor(Nil) = Nil
      BY DEF Server!FirstKeyFor
    <3> QED BY <3>1, <3>2
  <2>7. (key # Nil \/ plain) <=> under # "unknown"
    BY <2>1, ServerGiven DEF Server!NamesAssumption
  <2>8. KeyOf(under, key)
    BY <2>1, <2>6, ServerGiven DEF KeyOf, Server!NamesAssumption
  <2> HIDE DEF plain, key, under
  <2>9. /\ q \in Heard /\ q.req = p.req /\ q.captured /\ q.key = key /\ q.unscoped = plain
        /\ q.under = under
    BY <2>0, <2>3, <2>4, <2>5 DEF Heard
  <2> HIDE DEF q
  <2>10. Settled(q)
    BY <2>7, <2>8, <2>9 DEF Settled, Server!Decided
  <2> QED BY <2>9, <2>10 DEF q
<1> QED BY <1>1, <1>2

LEMMA ReplyScoped ==
  ASSUME NEW p, Settled(p), NEW usable
  PROVE  Scoped(Server!Reply(p, usable))
<1> DEFINE route == IF ~Server!IsFlood(p) /\ usable THEN "direct" ELSE "flood"
           reply == [req |-> p.req, under |-> p.under, route |-> route, key |-> Nil,
                     final |-> FALSE, width |-> p.req.width]
<1>1. p \in Heard /\ p.req \in Incoming /\ p.req.width \in Width
  BY ServerGiven DEF Settled, Heard, Server!ServerAssumption
<1>2. reply \in Answers /\ reply.width = reply.req.width
  BY <1>1 DEF Answers, Heard
<1>3. CASE route = "direct"
  BY <1>2, <1>3 DEF Server!Reply, Scoped
<1>4. CASE route = "flood" /\ ~Server!Decided(p)
  BY <1>2, <1>4 DEF Server!Reply, Server!ApplyReplyScope, Scoped, Settled
<1>5. CASE route = "flood" /\ Server!Decided(p)
  <2>1. Server!Reply(p, usable) = [reply EXCEPT !.final = TRUE, !.key = p.key]
    BY <1>5 DEF Server!Reply, Server!ApplyReplyScope
  <2>2. p.key \in Key \cup {Nil} /\ KeyOf(p.under, p.key)
    BY <1>1 DEF Settled, Heard
  <2> DEFINE full == [reply EXCEPT !.final = TRUE, !.key = p.key]
  <2>3. /\ full \in Answers /\ full.req = reply.req /\ full.width = reply.width
        /\ full.final /\ full.key = p.key /\ full.under = p.under
    BY <1>2, <2>2 DEF Answers
  <2> HIDE DEF full, reply
  <2> QED BY <1>2, <2>1, <2>2, <2>3 DEF Scoped, full
<1> QED BY <1>3, <1>4, <1>5

LEMMA HearMirrors == ASSUME MirrorInv, NEW r \in Incoming, Server!Hear(r) PROVE MirrorInv'
<1> DEFINE p == [req |-> r, captured |-> FALSE, key |-> Nil, unscoped |-> FALSE,
                 under |-> "unknown"]
<1>1. Settled(p)
  BY ServerGiven DEF Settled, Heard, Server!Decided, KeyOf, Server!NamesAssumption
<1>2. Settled([Server!CaptureRecvRegion(dmap, p) EXCEPT !.under = Server!Under(dmap, p)])
  BY <1>1, Captured DEF MirrorInv
<1>3. held' = held \cup {[Server!CaptureRecvRegion(dmap, p) EXCEPT !.under = Server!Under(dmap, p)]}
      /\ UNCHANGED <<dmap, bmap, replies, sent>>
  BY DEF Server!Hear, Server!settings
<1> HIDE DEF p
<1> QED BY <1>2, <1>3 DEF MirrorInv, Server!ReplyMirrors

LEMMA HandlersMirror ==
  ASSUME MirrorInv, NEW p \in held, Server!LoginRequest(p) \/ Server!AnonRequest(p) \/ Server!ProtocolRequest(p)
  PROVE  MirrorInv'
<1>1. Settled(p) /\ Settled(Server!AtBridge(p))
  BY Captured DEF MirrorInv, Server!AtBridge
<1>2. \A usable : Scoped(Server!Reply(p, usable)) /\ Scoped(Server!Reply(Server!AtBridge(p), usable))
  BY <1>1, ReplyScoped
<1>3. /\ held' \subseteq held /\ UNCHANGED <<dmap, bmap, sent>>
      /\ \/ UNCHANGED replies
         \/ \E usable : replies' = replies \cup {Server!Reply(p, usable)}
         \/ \E usable : replies' = replies \cup {Server!Reply(Server!AtBridge(p), usable)}
  BY DEF Server!LoginRequest, Server!AnonRequest, Server!ProtocolRequest, Server!SendLoginResponse,
      Server!HandleDiscovery, Server!Replies,
         Server!settings
<1> QED BY <1>2, <1>3 DEF MirrorInv, Server!ReplyMirrors

LEMMA SendMirrors == ASSUME MirrorInv, NEW reply \in replies, Server!SendReply(reply) PROVE MirrorInv'
<1> DEFINE s == [req |-> reply.req, under |-> reply.under, route |-> reply.route,
                 key |-> Server!ApplyFloodScope(reply), width |-> Server!ApplyDefaultPathHashMode(reply)]
<1>1. Scoped(reply) /\ sent' = {s} /\ replies' \subseteq replies /\ UNCHANGED <<dmap, bmap, held>>
  BY DEF Server!SendReply, MirrorInv, Server!settings
<1>2. /\ s.req = reply.req /\ s.under = reply.under /\ s.route = reply.route
      /\ s.key = Server!ApplyFloodScope(reply) /\ s.width = reply.width
  BY DEF Server!ApplyDefaultPathHashMode
<1>3. s.route = "flood" => /\ s.width = s.req.width
                           /\ s.under = "plain" => s.key = Nil
                           /\ s.under \in Region => s.key = RegionKeys[s.under][1]
  BY <1>1, <1>2, ServerGiven DEF Scoped, Server!ApplyFloodScope, KeyOf, Server!NamesAssumption
<1> HIDE DEF s
<1> QED BY <1>1, <1>3 DEF MirrorInv, Server!ReplyMirrors

LEMMA MirrorStep == MirrorInv /\ [Server!Next]_Server!vars => MirrorInv'
<1> SUFFICES ASSUME MirrorInv, [Server!Next]_Server!vars PROVE MirrorInv'
  OBVIOUS
<1>1. CASE Server!ReloadRegions \/ Server!Configure \/ (\E c \in Client : Server!LearnPath(c)) \/ Server!Tick
           \/ UNCHANGED Server!vars
  <2>1. /\ dmap' \in Maps \cup {Nil} /\ bmap' \in Maps \cup {Nil}
        /\ UNCHANGED <<held, replies, sent>>
    BY <1>1 DEF MirrorInv, Server!ReloadRegions, Server!Configure, Server!LearnPath, Server!Tick,
        Server!Changing, Server!vars, Server!settings
  <2> QED BY <2>1 DEF MirrorInv, Server!ReplyMirrors
<1> QED BY <1>1, HearMirrors, HandlersMirror, SendMirrors DEF Server!Next

-----------------------------------------------------------------------------
(* The limiter.  Grants of the current window are the last Mine ones of    *)
(* the record; Before counts the earlier ones.                             *)
Mine == IF limiter.count < Maximum THEN limiter.count ELSE Maximum
Before == Len(granted) - Mine

BudgetInv ==
  /\ now \in Nat /\ granted \in Seq(Nat) /\ limiter \in [start : Nat, count : Nat]
  /\ limiter.start <= now /\ Before \in Nat
  /\ \A i \in 1..Len(granted) : granted[i] <= now
  /\ \A i \in 1..Before : granted[i] <= limiter.start
  /\ \A i \in 1..Len(granted) : i + Maximum <= Before => granted[i] + Secs <= limiter.start
  /\ \A i, j \in 1..Len(granted) : i + 2 * Maximum <= j => granted[i] + Secs <= granted[j]

LEMMA BudgetInit == Server!Init => BudgetInv
  BY ServerGiven DEF Server!Init, BudgetInv, Before, Mine, Server!ServerAssumption

LEMMA AllowStep ==
  ASSUME BudgetInv, limiter' = Server!Allow, UNCHANGED now,
         IF limiter'.count > Maximum /\ Server!InWindow THEN UNCHANGED granted
         ELSE granted' = Append(granted, now)
  PROVE  BudgetInv'
<1> DEFINE n == Len(granted)
<1>0. granted \in Seq(Nat) /\ now \in Nat
  BY DEF BudgetInv
<1>0a. /\ Append(granted, now) \in Seq(Nat) /\ Len(Append(granted, now)) = n + 1
       /\ Append(granted, now)[n + 1] = now
       /\ \A i \in 1..n : Append(granted, now)[i] = granted[i]
  BY <1>0
<1>1. /\ Maximum \in Nat \ {0} /\ Secs \in Nat \ {0} /\ n \in Nat /\ now \in Nat
      /\ limiter.count \in Nat /\ limiter.start \in Nat /\ limiter.start <= now
      /\ granted \in Seq(Nat) /\ \A i \in 1..n : granted[i] \in Nat
  BY ServerGiven DEF Server!ServerAssumption, BudgetInv
<1>1a. Before = n - Mine /\ Before \in Nat /\ n = Len(granted)
  BY DEF BudgetInv, Before
<1>1b. /\ \A i \in 1..n : granted[i] <= now
       /\ \A i \in 1..Before : granted[i] <= limiter.start
       /\ \A i \in 1..n : i + Maximum <= Before => granted[i] + Secs <= limiter.start
       /\ \A i, j \in 1..n : i + 2 * Maximum <= j => granted[i] + Secs <= granted[j]
  BY DEF BudgetInv
<1>1c. 1..(n + 1) = (1..n) \cup {n + 1}
  BY <1>1
<1> HIDE DEF n
<1>2. /\ limiter'.start = IF Server!InWindow THEN limiter.start ELSE now
      /\ limiter'.count = IF Server!InWindow THEN limiter.count + 1 ELSE 1
      /\ limiter' \in [start : Nat, count : Nat]
  BY <1>1 DEF Server!Allow
<1>3. CASE Server!InWindow /\ limiter'.count > Maximum
  <2>1. Mine = Maximum /\ Mine' = Maximum /\ limiter'.start = limiter.start /\ UNCHANGED granted
    BY <1>1, <1>2, <1>3 DEF Mine
  <2>2. Before' = Before
    BY <2>1 DEF Before
  <2> QED BY <1>1, <1>2, <2>1, <2>2 DEF BudgetInv
<1>4. CASE Server!InWindow /\ limiter'.count <= Maximum
  <2>1. /\ Mine = limiter.count /\ Mine' = limiter.count + 1 /\ limiter'.start = limiter.start
        /\ granted' = Append(granted, now) /\ Mine < Maximum
    BY <1>1, <1>2, <1>4 DEF Mine
  <2>2. /\ granted' \in Seq(Nat) /\ Len(granted') = n + 1 /\ granted'[n + 1] = now
        /\ \A i \in 1..n : granted'[i] = granted[i]
    BY <1>0a, <2>1
  <2>3. Before' = Before /\ Before \in Nat /\ Before <= n /\ n = Before + Mine /\ Mine \in Nat
    <3>1. Before' = Len(granted') - Mine'
      BY DEF Before
    <3> QED BY <1>1, <1>1a, <2>1, <2>2, <3>1
  <2>4. \A i \in 1..Len(granted') : granted'[i] <= now
    BY <1>1, <1>1b, <1>1c, <2>2
  <2>5. \A i \in 1..Before : granted'[i] <= limiter.start
    BY <1>1, <1>1b, <1>1c, <2>2, <2>3
  <2>6. \A i \in 1..Len(granted') : i + Maximum <= Before => granted'[i] + Secs <= limiter.start
    <3> SUFFICES ASSUME NEW i \in 1..(n + 1), i + Maximum <= Before
                 PROVE  granted'[i] + Secs <= limiter.start
      BY <2>2
    <3>1. i \in 1..n
      BY <1>1, <2>3
    <3> QED BY <1>1b, <2>2, <3>1
  <2>7. \A i, j \in 1..Len(granted') : i + 2 * Maximum <= j => granted'[i] + Secs <= granted'[j]
    <3> SUFFICES ASSUME NEW i \in 1..(n + 1), NEW j \in 1..(n + 1), i + 2 * Maximum <= j
                 PROVE  granted'[i] + Secs <= granted'[j]
      BY <2>2
    <3>1. CASE j <= n
      <4>1. i \in 1..n /\ j \in 1..n
        BY <1>1, <3>1
      <4> QED BY <1>1b, <2>2, <4>1
    <3>2. CASE j = n + 1
      <4>1. i + Maximum <= Before /\ i \in 1..n
        <5>1. i \in Nat /\ 1 <= i /\ i + (Maximum + Maximum) <= n + 1
          BY <1>1, <3>2
        <5>2. Maximum \in Nat /\ 1 <= Maximum /\ Mine + 1 <= Maximum
          BY <1>1, <2>1, <2>3
        <5>3. i + Maximum <= Before
          BY <2>3, <5>1, <5>2
        <5> QED BY <1>1, <2>3, <5>1, <5>2, <5>3
      <4>2. granted[i] + Secs <= limiter.start
        BY <1>1b, <4>1
      <4> QED BY <1>1, <2>2, <3>2, <4>1, <4>2
    <3> QED BY <1>1, <3>1, <3>2
  <2> QED BY <1>1, <1>2, <2>1, <2>2, <2>3, <2>4, <2>5, <2>6, <2>7 DEF BudgetInv
<1>5. CASE ~Server!InWindow
  <2>1. /\ Mine' = 1 /\ limiter'.start = now /\ limiter.start + Secs <= now
        /\ granted' = Append(granted, now) /\ Mine <= Maximum /\ Mine \in Nat
    BY <1>1, <1>2, <1>5 DEF Mine, Server!InWindow
  <2>2. /\ granted' \in Seq(Nat) /\ Len(granted') = n + 1 /\ granted'[n + 1] = now
        /\ \A i \in 1..n : granted'[i] = granted[i]
    BY <1>0a, <2>1
  <2>3. Before' = n /\ Before \in Nat /\ n = Before + Mine
    BY <1>1, <1>1a, <2>1, <2>2 DEF Before
  <2>4. \A i \in 1..Len(granted') : granted'[i] <= now
    BY <1>1, <1>1b, <1>1c, <2>2
  <2>5. \A i \in 1..n : i + Maximum <= n => granted[i] + Secs <= now
    <3> SUFFICES ASSUME NEW i \in 1..n, i + Maximum <= n PROVE granted[i] + Secs <= now
      OBVIOUS
    <3>1. i \in 1..Before
      BY <1>1, <2>1, <2>3
    <3>2. granted[i] <= limiter.start
      BY <1>1b, <3>1
    <3> QED BY <1>1, <2>1, <3>2
  <2>6. \A i \in 1..Len(granted') : i + Maximum <= n => granted'[i] + Secs <= now
    <3> SUFFICES ASSUME NEW i \in 1..(n + 1), i + Maximum <= n PROVE granted'[i] + Secs <= now
      BY <2>2
    <3>1. i \in 1..n
      BY <1>1
    <3> QED BY <2>2, <2>5, <3>1
  <2>7. \A i, j \in 1..Len(granted') : i + 2 * Maximum <= j => granted'[i] + Secs <= granted'[j]
    <3> SUFFICES ASSUME NEW i \in 1..(n + 1), NEW j \in 1..(n + 1), i + 2 * Maximum <= j
                 PROVE  granted'[i] + Secs <= granted'[j]
      BY <2>2
    <3>1. CASE j <= n
      <4>1. i \in 1..n /\ j \in 1..n
        BY <1>1, <3>1
      <4> QED BY <1>1b, <2>2, <4>1
    <3>2. CASE j = n + 1
      <4>1. i \in 1..n /\ i + Maximum <= n
        BY <1>1, <3>2
      <4> QED BY <1>1, <2>2, <2>5, <3>2, <4>1
    <3> QED BY <1>1, <3>1, <3>2
  <2>8. \A i \in 1..n : granted'[i] <= now
    BY <1>1, <2>2, <2>4
  <2>9. now' \in Nat /\ now' = now /\ limiter'.start <= now' /\ Before' \in Nat
    BY <1>1, <2>1, <2>3
  <2>10. /\ \A i \in 1..Before' : granted'[i] <= limiter'.start
         /\ \A i \in 1..Len(granted') : i + Maximum <= Before' =>
              granted'[i] + Secs <= limiter'.start
    BY <2>1, <2>3, <2>6, <2>8
  <2> QED BY <1>2, <2>2, <2>4, <2>7, <2>9, <2>10 DEF BudgetInv
<1> QED BY <1>1, <1>2, <1>3, <1>4, <1>5

LEMMA BudgetStep == BudgetInv /\ [Server!Next]_Server!vars => BudgetInv'
<1> SUFFICES ASSUME BudgetInv, [Server!Next]_Server!vars PROVE BudgetInv'
  OBVIOUS
<1>1. CASE UNCHANGED <<now, limiter, granted>>
  BY <1>1 DEF BudgetInv, Before, Mine
<1>2. CASE Server!Tick
  <2>1. now' = now + 1 /\ UNCHANGED <<limiter, granted>>
    BY <1>2 DEF Server!Tick
  <2>2. limiter'.start <= now' /\ now' \in Nat /\ \A i \in 1..Len(granted) : granted[i] <= now'
    BY <2>1 DEF BudgetInv
  <2> QED BY <2>1, <2>2 DEF BudgetInv, Before, Mine
<1>3. ASSUME NEW p \in held, Server!AnonRequest(p) PROVE BudgetInv'
  <2>1. CASE ~p.req.ours \/ Server!IsFlood(p)
    BY <1>1, <1>3, <2>1 DEF Server!AnonRequest
  <2>2. CASE ~(~p.req.ours \/ Server!IsFlood(p))
    BY <1>3, <2>2, AllowStep DEF Server!AnonRequest, Server!HandleDiscovery
  <2> QED BY <2>1, <2>2
<1>4. CASE \/ \E r \in Incoming : Server!Hear(r)
           \/ \E p \in held : Server!LoginRequest(p) \/ Server!ProtocolRequest(p)
           \/ \E reply \in replies : Server!SendReply(reply)
           \/ Server!ReloadRegions \/ Server!Configure \/ \E c \in Client : Server!LearnPath(c)
           \/ UNCHANGED Server!vars
  BY <1>1, <1>4 DEF Server!Hear, Server!LoginRequest, Server!ProtocolRequest, Server!SendReply,
      Server!ReloadRegions, Server!Configure,
                    Server!LearnPath, Server!Changing, Server!vars
<1> QED BY <1>2, <1>3, <1>4 DEF Server!Next

-----------------------------------------------------------------------------
(* Whatever is reloaded or configured between hearing a request and        *)
(* sending its reply, the flooded reply has the scope and the path width   *)
(* of the request.                                                         *)
THEOREM ServerMirrors == Server!Spec => []ReplyMirrors
<1>1. MirrorInv => ReplyMirrors
  BY DEF MirrorInv, ReplyMirrors
<1> QED BY <1>1, MirrorInit, MirrorStep, PTL DEF Server!Spec

(* Whatever the limit, the window and the times of the requests, no span   *)
(* of a window's length sees more than twice the limit of replies.         *)
THEOREM ServerBudget == Server!Spec => []AnonBudget
<1>1. BudgetInv => AnonBudget
  BY DEF BudgetInv, AnonBudget, Server!AnonBudget
<1> QED BY <1>1, BudgetInit, BudgetStep, PTL DEF Server!Spec
=============================================================================
