------------------------------- MODULE Inbox --------------------------------
(***************************************************************************)
(* Received messages on their way to the app: the text, group-text and     *)
(* group-data handlers, the three duplicate caches, the offline queue      *)
(* (companion/message_queue.py), MSG_WAITING pushes, and the app fetching  *)
(* messages one CMD_SYNC_NEXT_MESSAGE at a time.                           *)
(*                                                                         *)
(* A message is its packet hash; any packet may be heard several times.    *)
(* The app is external: it asks again after every message it gets and      *)
(* after every MSG_WAITING that came since it last asked.                  *)
(***************************************************************************)
EXTENDS Naturals, Sequences, FiniteSets

CONSTANTS
  Plain, Signed, Cli, Junk,   \* direct texts by TXT_TYPE; Junk: unsupported
  GroupText, GroupData,       \* channel packets
  Own,                        \* channel packets this node sends itself
  ChannelOf,                  \* the secret each channel packet is under
  Slots, Secrets, Names,      \* channel slots, secrets and names
  None,
  MultiAcks,                  \* the multi_acks preference is on
  QueueSize,                  \* MessageQueue._max_size
  SeenMax, Ttl,               \* bounds of the duplicate caches
  FrameMax,                   \* size of the client's write queue
  MaxHeard,                   \* bound on the packets heard
  MaxTime, MaxDrops           \* bounds on the clock and on disconnects

Direct == Plain \cup Signed \cup Cli \cup Junk
Channel == GroupText \cup GroupData
Msg == Direct \cup Channel

(* What is assumed of the constants.                                       *)
InboxAssumption ==
  /\ QueueSize \in Nat /\ SeenMax \in Nat \ {0} /\ Ttl \in Nat /\ FrameMax \in Nat
  /\ MaxHeard \in Nat /\ MaxTime \in Nat /\ MaxDrops \in Nat
  /\ ChannelOf \in [Channel -> Secrets] /\ Own \subseteq Channel
  /\ Direct \cap Channel = {} /\ None \notin Msg /\ None \notin Slots
  /\ Slots \subseteq Nat /\ MultiAcks \in BOOLEAN

VARIABLES
  now, heard,     \* the clock; packets heard so far
  seenTxt,        \* _seen_txt: hashes and the time they were recorded
  seenGrpTxt,     \* _seen_grp_txt
  seenGroup,      \* _seen_group_packets; a hit refreshes the entry
  channels,       \* ChannelStore: slot to [name, secret], or None
  pending,        \* _pending_command_responses has an entry for the sender
  events,         \* NEW_MESSAGE tasks, with the ACKs scheduled for each text
  queue,          \* MessageQueue: [msg, idx]
  out,            \* the client's write queue
  server,         \* the command handler: idle, or asking the persistence
  app, wants,     \* the app waits for an answer; it has cause to ask
  drops,          \* disconnects so far
  marked          \* when each hash was last recorded, and the hashes that the
                  \* same cache has recorded since, or None

rx == <<seenTxt, seenGrpTxt, seenGroup>>
client == <<server, app, wants, drops>>
vars == <<now, heard, rx, channels, pending, events, queue, out, client, marked>>

Frames == {"waiting", "noMore"} \cup Msg

Init ==
  /\ now = 0 /\ heard = 0
  /\ seenTxt = <<>> /\ seenGrpTxt = <<>> /\ seenGroup = <<>>
  /\ channels \in [Slots -> [name : Names, secret : Secrets] \cup {None}]
  /\ pending = FALSE /\ events = <<>> /\ queue = <<>> /\ out = <<>>
  /\ server = "idle" /\ app = "idle" /\ wants = TRUE /\ drops = 0
  /\ marked = [m \in Msg |-> None]

-----------------------------------------------------------------------------
(* The caches: sequences of [msg, at], oldest first.                       *)

Removed(s, i) == SubSeq(s, 1, i - 1) \o SubSeq(s, i + 1, Len(s))

Holds(cache, m) == \E i \in 1..Len(cache) : cache[i].msg = m
Without(cache, m) ==
  IF Holds(cache, m) THEN Removed(cache, CHOOSE i \in 1..Len(cache) : cache[i].msg = m)
  ELSE cache
Bounded(cache) == IF Len(cache) > SeenMax THEN Tail(cache) ELSE cache

(* PacketHashCache._evict_expired: from the front while expired.           *)
EvictExpired(cache) ==
  LET fresh == {i \in 1..Len(cache) : now - cache[i].at <= Ttl}
  IN  IF fresh = {} THEN <<>>
      ELSE SubSeq(cache, CHOOSE i \in fresh : \A j \in fresh : i <= j, Len(cache))

(* _SeenCache.check_and_add: whether m is a duplicate is Holds(cache, m);  *)
(* a duplicate changes nothing, not even an entry that has expired.  The   *)
(* entries are in the order of their times, so that the expired ones,      *)
(* which are deleted wherever they are, are at the front here too.         *)
SeenAdd(cache, m) ==
  IF Holds(cache, m) THEN cache
  ELSE Bounded(Append(EvictExpired(cache), [msg |-> m, at |-> now]))

(* PacketHashCache.check_and_add: duplicates are GroupHit.                 *)
GroupHit(m) == Holds(EvictExpired(seenGroup), m)
GroupAdd(m) ==
  Bounded(Append(Without(EvictExpired(seenGroup), m), [msg |-> m, at |-> now]))

(* m is recorded in the cache of the messages in `peers`.                  *)
Mark(m, peers) ==
  marked' = [x \in Msg |->
               IF x = m THEN [at |-> now, since |-> {}]
               ELSE IF x \in peers /\ marked[x] # None
                    THEN [marked[x] EXCEPT !.since = @ \cup {m}] ELSE marked[x]]

-----------------------------------------------------------------------------
(* MessageQueue.push: the oldest channel message gives way, a direct one   *)
(* never does.                                                             *)
ChannelEntries == {i \in 1..Len(queue) : queue[i].msg \in Channel}

Push(m, idx) ==
  LET entry == [msg |-> m, idx |-> idx] IN
  \/ Len(queue) < QueueSize /\ queue' = Append(queue, entry)
  \/ /\ QueueSize > 0 /\ Len(queue) >= QueueSize /\ ChannelEntries # {}
     /\ LET first == CHOOSE i \in ChannelEntries : \A j \in ChannelEntries : i <= j
        IN queue' = Append(Removed(queue, first), entry)
  \/ /\ Len(queue) >= QueueSize /\ (QueueSize = 0 \/ ChannelEntries = {})
     /\ UNCHANGED queue

(* _enqueue_frame: a full write queue drops the frame.                     *)
Enqueue(frame) == out' = IF Len(out) < FrameMax THEN Append(out, frame) ELSE out

(* Mutant: no MSG_WAITING while the app is being answered.                 *)
WaitingUnlessBusy == IF server = "thread" THEN UNCHANGED out ELSE Enqueue("waiting")

(* _on_message_event and its two siblings: MSG_WAITING, queued or not.     *)
PushWaiting == Enqueue("waiting")

-----------------------------------------------------------------------------
Hear == heard < MaxHeard /\ heard' = heard + 1

(* _build_ack_responses: one packet, or a multi-ack before it on a known   *)
(* direct route.                                                           *)
AckPackets(flood, knownPath) == IF MultiAcks /\ ~flood /\ knownPath THEN 2 ELSE 1

(* _calc_ack_hash knows plain and signed texts; the owner may veto.        *)
Acks(m, flood, knownPath, allowed) ==
  IF m \in Plain \cup Signed /\ allowed THEN AckPackets(flood, knownPath) ELSE 0

(* TextMessageHandler.__call__ for a text that decrypts: acknowledged      *)
(* before anything is known of duplicates or of the queue.  A CLI reply    *)
(* goes to the command waiting for it, unless that one's callback fails.   *)
RxText(m, flood, knownPath, allowed, callbackFails) ==
  /\ m \in Direct /\ Hear
  /\ \/ m \in Junk /\ UNCHANGED <<pending, events>>
     \/ /\ m \in Cli /\ pending /\ pending' = FALSE
        /\ events' = IF callbackFails THEN Append(events, [msg |-> m, acks |-> 0])
                     ELSE events
     \/ /\ m \notin Junk /\ (m \in Cli => ~pending) /\ UNCHANGED pending
        /\ events' = Append(events, [msg |-> m,
                                     acks |-> Acks(m, flood, knownPath, allowed)])
  /\ UNCHANGED <<now, rx, channels, queue, out, client, marked>>

RegisterCommand == ~pending /\ pending' = TRUE
  /\ UNCHANGED <<now, heard, rx, channels, events, queue, out, client, marked>>

UnregisterCommand == pending /\ pending' = FALSE
  /\ UNCHANGED <<now, heard, rx, channels, events, queue, out, client, marked>>

(* _handle_new_message, as the NEW_MESSAGE task runs.                      *)
NewMessage ==
  LET m == Head(events).msg IN
  /\ events # <<>> /\ events' = Tail(events)
  /\ seenTxt' = SeenAdd(seenTxt, m)
  /\ IF Holds(seenTxt, m) THEN UNCHANGED <<queue, out, marked>>
     ELSE Push(m, None) /\ PushWaiting /\ Mark(m, Direct)
  /\ UNCHANGED <<now, heard, seenGrpTxt, seenGroup, channels, pending, client>>

Matches(m) == {i \in Slots : channels[i] # None /\ channels[i].secret = ChannelOf[m]}
Lowest(S) == CHOOSE i \in S : \A j \in S : i <= j
FindByName(name) == Lowest({i \in Slots : channels[i] # None /\ channels[i].name = name})

(* GroupTextHandler.__call__ and _handle_new_channel_message: the slot is  *)
(* found again by the name of the channel that decrypted the packet.       *)
RxGroupText(m) ==
  /\ m \in GroupText /\ Hear
  /\ IF Matches(m) = {} THEN UNCHANGED <<rx, queue, out, marked>>
     ELSE /\ seenGroup' = GroupAdd(m) /\ Mark(m, Channel) /\ UNCHANGED seenTxt
          /\ IF GroupHit(m) THEN UNCHANGED <<seenGrpTxt, queue, out>>
             ELSE /\ seenGrpTxt' = SeenAdd(seenGrpTxt, m)
                  /\ IF Holds(seenGrpTxt, m) THEN UNCHANGED <<queue, out>>
                     ELSE Push(m, FindByName(channels[Lowest(Matches(m))].name))
                          /\ PushWaiting
  /\ UNCHANGED <<now, channels, pending, events, client>>

(* _handle_group_data_packet keeps the slot that decrypted the packet.     *)
RxGroupData(m) ==
  /\ m \in GroupData /\ Hear
  /\ IF Matches(m) = {} THEN UNCHANGED <<seenGroup, queue, out, marked>>
     ELSE /\ seenGroup' = GroupAdd(m) /\ Mark(m, Channel)
          /\ IF GroupHit(m) THEN UNCHANGED <<queue, out>>
             ELSE Push(m, Lowest(Matches(m))) /\ PushWaiting
  /\ UNCHANGED <<now, seenTxt, seenGrpTxt, channels, pending, events, client>>

(* Mutant: the packet is recorded only once it has been sent.              *)
SendChannelUntracked(m) == m \in Own /\ Hear /\ Mark(m, Channel)
  /\ UNCHANGED <<now, rx, channels, pending, events, queue, out, client>>

(* send_channel_message and send_channel_data record the packet before     *)
(* they await the send that may loop it back.                              *)
SendChannel(m) ==
  /\ m \in Own /\ Hear /\ Matches(m) # {}
  /\ seenGroup' = GroupAdd(m) /\ Mark(m, Channel)
  /\ UNCHANGED <<now, seenTxt, seenGrpTxt, channels, pending, events,
                 queue, out, client>>

(* set_channel and remove_channel.                                         *)
SetChannel(i, channel) ==
  /\ channels' = [channels EXCEPT ![i] = channel]
  /\ UNCHANGED <<now, heard, rx, pending, events, queue, out, client, marked>>

-----------------------------------------------------------------------------
(* The app asks; the command is read while no other is being handled.      *)
AppSync ==
  /\ app = "idle" /\ wants /\ app' = "asking" /\ wants' = FALSE
  /\ UNCHANGED <<now, heard, rx, channels, pending, events, queue,
                 out, server, drops, marked>>

(* _cmd_sync_next_message: the queue's head is the answer; an empty queue  *)
(* sends the handler to a thread for the persisted messages.               *)
SyncNext ==
  /\ app = "asking" /\ server = "idle"
  /\ \/ queue # <<>> /\ queue' = Tail(queue) /\ Enqueue(Head(queue).msg)
        /\ app' = "waiting" /\ UNCHANGED server
     \/ queue = <<>> /\ server' = "thread" /\ app' = "waiting" /\ UNCHANGED <<queue, out>>
  /\ UNCHANGED <<now, heard, rx, channels, pending, events,
                 wants, drops, marked>>

(* ... which has none, and the queue is not looked at again.               *)
SyncThread ==
  /\ server = "thread" /\ server' = "idle" /\ Enqueue("noMore")
  /\ UNCHANGED <<now, heard, rx, channels, pending, events, queue,
                 app, wants, drops, marked>>

AppRead ==
  /\ out # <<>> /\ out' = Tail(out)
  /\ CASE Head(out) = "waiting" -> wants' = TRUE /\ UNCHANGED app
       [] Head(out) = "noMore"  -> app' = "idle" /\ UNCHANGED wants
       [] OTHER                 -> app' = "idle" /\ wants' = TRUE
  /\ UNCHANGED <<now, heard, rx, channels, pending, events, queue,
                 server, drops, marked>>

(* The client leaves and another connects: frames not written are gone,    *)
(* and the new one asks for what is waiting.                               *)
Reconnect ==
  /\ drops < MaxDrops /\ drops' = drops + 1 /\ server = "idle"
  /\ out' = <<>> /\ app' = "idle" /\ wants' = TRUE
  /\ UNCHANGED <<now, heard, rx, channels, pending, events, queue,
                 server, marked>>

Tick == now < MaxTime /\ now' = now + 1
  /\ UNCHANGED <<heard, rx, channels, pending, events, queue,
                 out, client, marked>>

Next ==
  \/ \E m \in Msg, flood, knownPath, allowed, fails \in BOOLEAN :
       RxText(m, flood, knownPath, allowed, fails)
  \/ \E m \in Msg : RxGroupText(m) \/ RxGroupData(m) \/ SendChannel(m)
  \/ \E i \in Slots, c \in [name : Names, secret : Secrets] \cup {None} : SetChannel(i, c)
  \/ RegisterCommand \/ UnregisterCommand \/ NewMessage \/ SyncNext \/ SyncThread
  \/ AppSync \/ AppRead \/ Reconnect \/ Tick

(* The event loop runs what is ready and the thread answers; the app reads *)
(* what is written to it and asks when it has cause.                       *)
Fairness == WF_vars(NewMessage) /\ WF_vars(SyncNext) /\ WF_vars(SyncThread)
            /\ WF_vars(AppSync) /\ WF_vars(AppRead)

Spec == Init /\ [][Next]_vars /\ Fairness

-----------------------------------------------------------------------------

Queued == {queue[i].msg : i \in 1..Len(queue)}

(* However many copies of a packet are heard, and even if it is this       *)
(* node's own channel message coming back: it enters the queue again only  *)
(* after a whole TTL without a sighting, or after so many other packets    *)
(* that the cache had to forget it (base_events.py and base_send.py; the   *)
(* own packet is recorded before the send is awaited).                     *)
QueuedOncePerWindow ==
  [][\A m \in Msg :
       m \in ({queue'[i].msg : i \in 1..Len(queue')} \ Queued) /\ marked[m] # None =>
         \/ now - marked[m].at > Ttl
         \/ Cardinality(marked[m].since) >= SeenMax]_vars

(* The queue never keeps a message for good while an app is connected that *)
(* answers MSG_WAITING and its write queue does not overflow: not through  *)
(* the window in which an empty queue is reported after a message has      *)
(* arrived, and not through a reconnect.                                   *)
AppCatchesUp == queue # <<>> ~> queue = <<>>

=============================================================================
