------------------------------- MODULE Session ------------------------------
(***************************************************************************)
(* Commands that transmit: the _cmd_send_* handlers                        *)
(* (companion/frame_server/commands_messaging.py, commands_contacts.py),   *)
(* the sends of _SendOpsMixin they await (companion/base_send.py), the tag *)
(* tables those fill (companion/base_callbacks.py), the discovery          *)
(* callbacks of ControlHandler, and the pushes of the frame server         *)
(* (companion/frame_server/push.py) that answer them later.                *)
(*                                                                         *)
(* A handler runs in the read loop of its client and suspends while the    *)
(* packet is sent; answers and pushes go to self._write_queue, which is    *)
(* the queue of whoever is connected when they are written.  Connecting,   *)
(* evicting and leaving are one step each (FrameServer has their steps).   *)
(***************************************************************************)
EXTENDS Naturals, Sequences

CONSTANTS
  Client, None,
  Tag,         \* tags of requests made by this frame server's clients
  HostTag,     \* tags of requests that the host makes through the same bridge
  MaxAsked     \* bound on the commands of a client

(* What is assumed of the constants.                                       *)
TagsAssumption == Tag \cap HostTag = {} /\ None \notin Client \cup Tag \cup HostTag
BoundsAssumption == MaxAsked \in Nat

VARIABLES
  slot,       \* whose write queue is self._write_queue
  doing,      \* of each client's read loop: where it is, or the send it awaits
  asked,      \* commands each client has made
  out,        \* answers written to each client's queue
  pushed,     \* tags whose response was written to a queue
  pend,       \* _pending_binary_requests
  disc,       \* _pending_discovery_tags
  own,        \* _companion_binary_tags
  callbacks,  \* ControlHandler._response_callbacks: tag -> whose
  ctlOwn,     \* _companion_discovery_tags
  logged,     \* _login_connections holds the server
  writers,    \* spawned tasks that will push a login, status or telemetry result
  air         \* requests transmitted and not yet answered

vars == <<slot, doing, asked, out, pushed, pend, disc, own, callbacks, ctlOwn,
          logged, writers, air>>
tables == <<pend, disc, own, callbacks, ctlOwn, logged>>
rest == <<tables, writers, air, pushed>>

Tags == Tag \cup HostTag
Idle == {"new", "read", "gone"}
At(place) == [op |-> place, tag |-> None, sent |-> FALSE]
Suspended(c) == doing[c].op \notin Idle

Init ==
  /\ slot = None /\ doing = [c \in Client |-> At("new")]
  /\ asked = [c \in Client |-> 0] /\ out = [c \in Client |-> <<>>]
  /\ pend = {} /\ disc = {} /\ own = {} /\ ctlOwn = {} /\ logged = FALSE
  /\ callbacks = [t \in Tags |-> IF t \in HostTag THEN "host" ELSE None]
  /\ writers = {} /\ air = {} /\ pushed = {}

-----------------------------------------------------------------------------
(* The queue of the connected client.                                      *)

(* _enqueue_frame: dropped when nobody is connected.                       *)
Answer(c, n) == out' = IF slot = None THEN out
                       ELSE [out EXCEPT ![slot] = Append(@, <<c, n>>)]
Push(t) == pushed' = IF slot = None THEN pushed ELSE pushed \cup {t}

Connect(c) ==
  /\ doing[c].op = "new" /\ slot' = c
  /\ doing' = [d \in Client |-> IF d = c THEN At("read")
                                ELSE IF d = slot /\ doing[d] = At("read") THEN At("gone")
                                ELSE doing[d]]
  /\ UNCHANGED <<asked, out, rest>>

Leave(c) ==
  /\ slot = c /\ doing[c].op = "read"
  /\ slot' = None /\ doing' = [doing EXCEPT ![c] = At("gone")]
  /\ UNCHANGED <<asked, out, rest>>

(* _handle_cmd takes the next command of c.                                *)
Takes(c) == /\ slot = c /\ doing[c].op = "read" /\ asked[c] < MaxAsked
            /\ asked' = [asked EXCEPT ![c] = @ + 1] /\ UNCHANGED <<slot, pushed>>

(* It is answered at once: refused by a check of the handler, unknown,     *)
(* empty, or answered from the state of the companion.                     *)
AtOnce(c) == Takes(c) /\ Answer(c, asked[c] + 1) /\ UNCHANGED <<doing, writers, air>>

Await(c, op, t) == /\ Takes(c) /\ doing' = [doing EXCEPT ![c] = [op |-> op, tag |-> t, sent |-> FALSE]]
                   /\ UNCHANGED <<out, writers, air>>

(* The packet goes on the air while the handler is suspended.              *)
Transmit(c) ==
  /\ Suspended(c) /\ ~doing[c].sent
  /\ doing' = [doing EXCEPT ![c].sent = TRUE]
  /\ air' = IF doing[c].op \in {"binary", "discovery"} THEN air \cup {doing[c].tag} ELSE air
  /\ UNCHANGED <<slot, asked, out, tables, writers, pushed>>

(* The send returns and the handler writes its one answer, SENT or OK      *)
(* after a transmission, an error code otherwise; the read loop goes on,   *)
(* or finds that the client was evicted.                                   *)
Resumes(c, op) ==
  /\ Suspended(c) /\ doing[c].op = op
  /\ Answer(c, asked[c])
  /\ doing' = [doing EXCEPT ![c] = At(IF slot = c THEN "read" ELSE "gone")]
  /\ UNCHANGED <<slot, asked, air, pushed>>

-----------------------------------------------------------------------------
(* Commands that leave nothing behind, whatever becomes of the packet:     *)
(* text, channel text and data, raw data and packets, a trace, an advert,  *)
(* a shared contact.                                                       *)
Simple(c) == \/ AtOnce(c) /\ UNCHANGED tables
             \/ Await(c, "simple", None) /\ UNCHANGED tables

CmdSendTxtMsg(c) == Simple(c)
CmdSendChannelTxtMsg(c) == Simple(c)
CmdSendChannelData(c) == Simple(c)
CmdSendRawData(c) == Simple(c)
CmdSendRawPacket(c) == Simple(c)
CmdSendTracePath(c) == Simple(c)
CmdSendSelfAdvert(c) == Simple(c)
CmdShareContact(c) == Simple(c)

(* Mutant: a send that failed is not reported.                             *)
SimpleSentUnlessFailed(c) ==
  /\ Suspended(c) /\ doing[c].op = "simple"
  /\ IF doing[c].sent THEN Answer(c, asked[c]) ELSE UNCHANGED out
  /\ doing' = [doing EXCEPT ![c] = At(IF slot = c THEN "read" ELSE "gone")]
  /\ UNCHANGED <<slot, asked, air, pushed, tables, writers>>

SimpleSent(c) == Resumes(c, "simple") /\ UNCHANGED <<tables, writers>>

(* Commands that only read the companion.                                  *)
CmdGetContacts(c) == AtOnce(c) /\ UNCHANGED tables
CmdGetContactByKey(c) == AtOnce(c) /\ UNCHANGED tables
CmdGetAdvertPath(c) == AtOnce(c) /\ UNCHANGED tables
CmdExportContact(c) == AtOnce(c) /\ UNCHANGED tables
CmdGetChannel(c) == AtOnce(c) /\ UNCHANGED tables

(* has_login_connection prunes the entry when it has expired.              *)
CmdHasConnection(c) ==
  /\ AtOnce(c) /\ logged' \in {logged, FALSE}
  /\ UNCHANGED <<pend, disc, own, callbacks, ctlOwn>>

(* The connection is dropped before the packet is sent.                    *)
CmdLogout(c) ==
  \/ AtOnce(c) /\ UNCHANGED tables
  \/ Await(c, "simple", None) /\ logged' = FALSE /\ UNCHANGED <<pend, disc, own, callbacks, ctlOwn>>

(* Login, status and telemetry: the waiters are those of module Requests;  *)
(* once the packet is out, a task waits for the result.  A retry of a      *)
(* login joins the task that is waiting.                                   *)
CmdSendLogin(c) == \/ AtOnce(c) /\ UNCHANGED tables
                   \/ Await(c, "login", None) /\ UNCHANGED tables
CmdSendStatusReq(c) == \/ AtOnce(c) /\ UNCHANGED tables
                       \/ Await(c, "status", None) /\ UNCHANGED tables
CmdSendTelemetryReq(c) == \/ AtOnce(c) /\ UNCHANGED tables   \* the node's own, or refused
                          \/ Await(c, "telemetry", None) /\ UNCHANGED tables

RequestSent(c) ==
  \E op \in {"login", "status", "telemetry"} :
    /\ Resumes(c, op) /\ UNCHANGED tables
    /\ writers' = IF doing[c].sent THEN writers \cup {op} ELSE writers

(* The task ends: it pushes the result, or nothing after a timeout.  A     *)
(* login that names a keep-alive interval opens the connection.            *)
WriteResult(op) ==
  /\ op \in writers /\ writers' = writers \ {op}
    /\ logged' \in IF op = "login" THEN {logged, TRUE} ELSE {logged}
  /\ UNCHANGED <<slot, doing, asked, out, pushed, pend, disc, own, callbacks, ctlOwn, air>>

-----------------------------------------------------------------------------
(* Requests answered by tag.                                               *)

(* create_protocol_request takes the tag from a unique timestamp.          *)
Unused(t) == /\ t \notin pend \cup disc \cup own \cup ctlOwn \cup air \cup pushed
             /\ \A c \in Client : doing[c].tag # t

(* Registered before the send; expired entries are swept at this point.    *)
CmdSendBinaryReq(c) ==
  \/ AtOnce(c) /\ UNCHANGED tables
  \/ \E t \in Tag, live \in SUBSET pend :
       /\ Unused(t) /\ Await(c, "binary", t)
       /\ pend' = live \cup {t} /\ UNCHANGED <<disc, own, callbacks, ctlOwn, logged>>

CmdSendAnonReq(c) == CmdSendBinaryReq(c)

(* _write_sent_result: the tag becomes the frame server's with the answer. *)
BinaryReqSent(c) ==
  /\ Resumes(c, "binary")
  /\ IF doing[c].sent THEN own' = own \cup {doing[c].tag} /\ UNCHANGED pend
     ELSE pend' = pend \ {doing[c].tag} /\ UNCHANGED own
  /\ UNCHANGED <<disc, callbacks, ctlOwn, logged, writers>>

(* Path discovery is registered only once the packet is out.               *)
CmdSendPathDiscoveryReq(c) ==
  \/ AtOnce(c) /\ UNCHANGED tables
  \/ \E t \in Tag : Unused(t) /\ Await(c, "discovery", t) /\ UNCHANGED tables

PathDiscoverySent(c) ==
  /\ Resumes(c, "discovery")
  /\ disc' = IF doing[c].sent THEN disc \cup {doing[c].tag} ELSE disc
  /\ UNCHANGED <<pend, own, callbacks, ctlOwn, logged, writers>>

(* Control data; of a discovery request the tag gets a callback that does  *)
(* nothing, and keeps it when the send fails.                              *)
CmdSendControlData(c) ==
  \/ Simple(c)
  \/ \E t \in Tag :
       /\ Unused(t) /\ Await(c, "simple", t)
       /\ callbacks' = [callbacks EXCEPT ![t] = "noop"] /\ ctlOwn' = ctlOwn \cup {t}
       /\ UNCHANGED <<pend, disc, own, logged>>

(* The host's own request through the bridge.                              *)
HostBinaryReq(t) ==
  /\ Unused(t) /\ t \in HostTag
  /\ pend' = pend \cup {t} /\ air' = air \cup {t}
  /\ UNCHANGED <<slot, doing, asked, out, pushed, disc, own, callbacks, ctlOwn, logged, writers>>

(* Mutant: every response on the bridge is this client's.                  *)
OnBinaryResponseAny(t, regions) == Push(t) /\ own' = own \ {t}

(* _PushMixin._on_binary_response: only for tags of its own, except the    *)
(* reply to a region discovery.                                            *)
OnBinaryResponse(t, regions) ==
  /\ own' = own \ {t}
  /\ IF t \in own \/ regions THEN Push(t) ELSE UNCHANGED pushed

(* A response: _on_binary_response of the companion, after                 *)
(* _try_handle_path_discovery.  Parsed as regions only if still pending.   *)
Response(t) ==
  /\ t \in air /\ air' = air \ {t}
  /\ IF t \in disc
     THEN disc' = disc \ {t} /\ Push(t) /\ UNCHANGED <<pend, own>>
     ELSE /\ \E regions \in BOOLEAN : /\ regions => t \in pend \cap Tag
                                      /\ OnBinaryResponse(t, regions)
          /\ pend' = pend \ {t} /\ UNCHANGED disc
  /\ UNCHANGED <<slot, doing, asked, out, callbacks, ctlOwn, logged, writers>>

RequestLost(t) ==
  /\ t \in air /\ air' = air \ {t}
  /\ UNCHANGED <<slot, doing, asked, out, tables, writers, pushed>>

(* A discovery response with tag t: _handle_discovery_response calls the   *)
(* callback, push_control_data forwards the packet to a connected client   *)
(* and drops the callback if it is the frame server's.                     *)
PushControlData(t) ==
  /\ slot # None
  /\ IF t \in ctlOwn
     THEN callbacks' = [callbacks EXCEPT ![t] = None] /\ ctlOwn' = ctlOwn \ {t}
     ELSE UNCHANGED <<callbacks, ctlOwn>>
  /\ UNCHANGED <<slot, doing, asked, out, pushed, pend, disc, own, logged, writers, air>>

-----------------------------------------------------------------------------
Command(c) ==
  \/ CmdSendTxtMsg(c) \/ CmdSendChannelTxtMsg(c) \/ CmdSendChannelData(c)
  \/ CmdSendRawData(c) \/ CmdSendRawPacket(c) \/ CmdSendTracePath(c)
  \/ CmdSendSelfAdvert(c) \/ CmdShareContact(c) \/ CmdGetContacts(c)
  \/ CmdGetContactByKey(c) \/ CmdGetAdvertPath(c) \/ CmdExportContact(c)
  \/ CmdGetChannel(c) \/ CmdHasConnection(c) \/ CmdLogout(c) \/ CmdSendLogin(c)
  \/ CmdSendStatusReq(c) \/ CmdSendTelemetryReq(c) \/ CmdSendBinaryReq(c)
  \/ CmdSendAnonReq(c) \/ CmdSendPathDiscoveryReq(c) \/ CmdSendControlData(c)

Handler(c) == SimpleSent(c) \/ RequestSent(c) \/ BinaryReqSent(c) \/ PathDiscoverySent(c)

Next ==
  \/ \E c \in Client : Connect(c) \/ Leave(c) \/ Command(c) \/ Transmit(c) \/ Handler(c)
  \/ \E op \in {"login", "status", "telemetry"} : WriteResult(op)
  \/ \E t \in Tags : HostBinaryReq(t) \/ Response(t) \/ RequestLost(t) \/ PushControlData(t)

Spec == Init /\ [][Next]_vars

-----------------------------------------------------------------------------

(* Of the frames, those that answer c answer its commands 1 to n in order. *)
AnswersInOrder(frames, c, n) ==
  LET mine == {i \in 1..Len(frames) : frames[i][1] = c} IN
  /\ {frames[i][2] : i \in mine} = 1..n
  /\ \A i, j \in mine : i < j => frames[i][2] < frames[j][2]

(* The client that holds the slot has been given exactly one answer for    *)
(* each of its commands, in the order it made them, except for the one     *)
(* still being handled; pushes come in between.                            *)
OneAnswerEach ==
  \A c \in Client : slot = c =>
    AnswersInOrder(out[c], c, IF Suspended(c) THEN asked[c] - 1 ELSE asked[c])

(* What the host does through the shared bridge is left alone: no client   *)
(* is pushed a response to a request of the host's, and the frame server   *)
(* removes none of the host's discovery callbacks.                         *)
HostLeftAlone ==
  \A t \in HostTag : /\ callbacks[t] = "host"
                     /\ t \notin pushed

=============================================================================
