---------------------------- MODULE RequestServer ---------------------------
(***************************************************************************)
(* The serving side of a node: logins (node/handlers/login_server.py),     *)
(* anonymous discovery requests (anon_request.py) and the requests of      *)
(* logged-in clients (protocol_request.py), the region a request is heard  *)
(* under (protocol/region_map.py) and the scope its reply is sent with.    *)
(*                                                                         *)
(* A request is heard by the dispatcher, held, and handed to a handler,    *)
(* through a CompanionBridge if it is a login; the reply waits out the     *)
(* server response delay before the dispatcher sends it.  The region maps  *)
(* and the node's own settings change in between.  A transport code stands *)
(* for the key it was computed with, a path for whether it is usable.      *)
(***************************************************************************)
EXTENDS Naturals, Sequences, FiniteSets

CONSTANTS
  Client, None,
  Requests,     \* what may be heard, any number of times
  Region, Wild, \* regions; those with id 0
  RegionKeys,   \* the transport keys of each region, in order
  Key,
  Maps,         \* values of the region maps, [regions, deny, plain]
  Width,        \* path hash sizes
  Maximum, Secs,                  \* bounds of the AnonRateLimiter
  MaxTime, MaxHeld, MaxChanges,   \* bounds on the clock, the packets in
                                  \* flight and the changes of settings
  MaxCount                        \* bound on the requests of a window

Kinds == {"login", "discovery", "request"}
Routes == {"flood", "scoped", "direct"}

(* What is assumed of the constants.                                       *)
ServerAssumption ==
  /\ None \notin Client \cup Region \cup Key /\ Wild \subseteq Region
  /\ RegionKeys \in [Region -> Seq(Key)]
  /\ Maps \subseteq [regions : Seq(Region), deny : SUBSET Region, plain : BOOLEAN]
  /\ Requests \subseteq [from : Client, ours : BOOLEAN, kind : Kinds, ts : Nat,
                         route : Routes, code : Key \cup {None}, width : Width]
  /\ Maximum \in Nat \ {0} /\ Secs \in Nat \ {0}
  /\ MaxTime \in Nat /\ MaxHeld \in Nat /\ MaxChanges \in Nat /\ MaxCount \in Nat
NamesAssumption == {"plain", "unknown"} \cap Region = {}

VARIABLES
  now,
  dmap, bmap,   \* region_map of the dispatcher and of the bridge, or None
  scope, width, \* what the dispatcher gives a flood that nobody decided
  last, path,   \* of each client: last_timestamp, and whether out_path is usable
  known,        \* clients on the access list
  limiter,      \* AnonRateLimiter: _start_timestamp and _count
  held,         \* requests between the dispatcher and their handler
  replies,      \* replies that wait out their delay
  sent,         \* history: the reply put on the air last, in a set
  granted,      \* history: when the limiter allowed a reply
  changes

settings == <<dmap, bmap, scope, width>>
acl == <<last, path, known>>
vars == <<now, settings, acl, limiter, held, replies, sent, granted, changes>>

Init ==
  /\ now = Secs /\ dmap \in Maps \cup {None} /\ bmap \in Maps \cup {None}
  /\ scope = None /\ width \in Width
  /\ last = [c \in Client |-> 0] /\ path = [c \in Client |-> FALSE] /\ known = {}
  /\ limiter = [start |-> 0, count |-> 0]
  /\ held = {} /\ replies = {} /\ sent = {} /\ granted = <<>> /\ changes = 0

-----------------------------------------------------------------------------
(* The region of a request.                                                *)

Elements(s) == {s[i] : i \in 1..Len(s)}

(* find_match: the first region that does not deny floods and owns the key *)
(* behind the code.                                                        *)
FindMatch(map, code) ==
  LET fits == {i \in 1..Len(map.regions) : /\ map.regions[i] \notin map.deny
                                           /\ code \in Elements(RegionKeys[map.regions[i]])}
      first == {i \in fits : \A j \in fits : i <= j}
  IN IF first = {} THEN None ELSE map.regions[CHOOSE i \in first : TRUE]

(* first_key_for: a private region may have none.                          *)
FirstKeyFor(region) ==
  IF region = None \/ RegionKeys[region] = <<>> THEN None ELSE RegionKeys[region][1]

Decided(p) == p.captured /\ (p.key # None \/ p.unscoped)

(* Mutant: every entry point captures anew.                                *)
CaptureAgain(map, p) ==
  IF map = None THEN p
  ELSE LET entry == IF p.req.route = "scoped" THEN FindMatch(map, p.req.code) ELSE None
       IN [p EXCEPT !.captured = TRUE,
                    !.key = IF entry \in Wild THEN None ELSE FirstKeyFor(entry),
                    !.unscoped = entry \in Wild \/ (p.req.route = "flood" /\ map.plain)]

(* capture_recv_region.                                                    *)
CaptureRecvRegion(map, p) ==
  IF map = None \/ Decided(p) THEN p
  ELSE LET entry == IF p.req.route = "scoped" THEN FindMatch(map, p.req.code) ELSE None
       IN [p EXCEPT !.captured = TRUE,
                    !.key = IF entry \in Wild THEN None ELSE FirstKeyFor(entry),
                    !.unscoped = entry \in Wild \/ (p.req.route = "flood" /\ map.plain)]

(* apply_reply_scope: a decision is final, the rest is the send layer's.   *)
ApplyReplyScope(reply, p) ==
  IF ~Decided(p) THEN reply
  ELSE [reply EXCEPT !.final = TRUE,
                     !.key = IF reply.route = "flood" THEN p.key ELSE @]

(* History: the region a request was sent under, as the first entry point  *)
(* with a map that can tell sees it.                                       *)
Under(map, p) ==
  LET entry == IF map # None /\ p.req.route = "scoped" THEN FindMatch(map, p.req.code) ELSE None
  IN IF p.under # "unknown" \/ map = None THEN p.under
     ELSE IF entry \in Wild \/ (p.req.route = "flood" /\ map.plain) THEN "plain"
     ELSE IF FirstKeyFor(entry) # None THEN entry ELSE "unknown"

-----------------------------------------------------------------------------
(* Dispatcher._process_received_packet, up to the hold.                    *)
Hear(r) ==
  /\ Cardinality(held) + Cardinality(replies) < MaxHeld
  /\ LET p == [req |-> r, captured |-> FALSE, key |-> None, unscoped |-> FALSE,
               under |-> "unknown"]
     IN held' = held \cup {[CaptureRecvRegion(dmap, p) EXCEPT !.under = Under(dmap, p)]}
  /\ UNCHANGED <<now, settings, acl, limiter, replies, sent, granted, changes>>

IsFlood(p) == p.req.route # "direct"

(* A reply to p: a PATH return for a flood, a direct RESPONSE along a path *)
(* that is known, or else a flooded RESPONSE.  A flood accumulates at the  *)
(* width of the request.                                                   *)
Reply(p, usable) ==
  LET route == IF ~IsFlood(p) /\ usable THEN "direct" ELSE "flood"
      reply == [req |-> p.req, under |-> p.under, route |-> route, key |-> None,
                final |-> FALSE, width |-> p.req.width]
  IN IF route = "flood" THEN ApplyReplyScope(reply, p) ELSE reply

(* The send callback is given the reply; building it may fail.             *)
Replies(reply) == replies' = replies \cup {reply} \/ UNCHANGED replies

(* The login callback of the application: it refuses an old timestamp and  *)
(* puts the client on its access list.                                     *)
Authenticate(r) == /\ r.ts > last[r.from]
                   /\ last' = [last EXCEPT ![r.from] = r.ts] /\ known' = known \cup {r.from}

(* _send_login_response: a flood login makes the client's path unknown     *)
(* before the reply is built.                                              *)
SendLoginResponse(p) ==
  /\ path' = IF IsFlood(p) THEN [path EXCEPT ![p.req.from] = FALSE] ELSE path
  /\ Replies(Reply(p, path[p.req.from]))

(* CompanionBridge.process_received_packet captures before the handler.    *)
AtBridge(p) == [CaptureRecvRegion(bmap, p) EXCEPT !.under = Under(bmap, p)]

(* LoginServerHandler.__call__.                                            *)
LoginRequest(p) ==
  /\ p \in held /\ p.req.kind = "login" /\ held' = held \ {p}
  /\ \/ p.req.ours /\ Authenticate(p.req) /\ SendLoginResponse(AtBridge(p))
     \/ UNCHANGED <<acl, replies>>    \* not ours, malformed or refused
  /\ UNCHANGED <<now, settings, limiter, sent, granted, changes>>

(* AnonRateLimiter.allow: a denied request is counted too.                 *)
InWindow == now < limiter.start + Secs

(* Mutant: the request that opens a window is not counted.                 *)
AllowUncounted == [start |-> IF InWindow THEN limiter.start ELSE now,
                   count |-> IF InWindow THEN limiter.count + 1 ELSE 0]

Allow == [start |-> IF InWindow THEN limiter.start ELSE now,
          count |-> IF InWindow THEN limiter.count + 1 ELSE 1]

(* _handle_discovery and _send_response: along the path it supplies.       *)
HandleDiscovery(p) == Replies(Reply(p, TRUE)) /\ granted' = Append(granted, now)

(* AnonRequestHandler.__call__ for a regions, owner or basic request:      *)
(* direct requests only.                                                   *)
AnonRequest(p) ==
  /\ p \in held /\ p.req.kind = "discovery" /\ held' = held \ {p}
  /\ IF ~p.req.ours \/ IsFlood(p) THEN UNCHANGED <<limiter, replies, granted>>
     ELSE /\ (InWindow => limiter.count < MaxCount) /\ limiter' = Allow
          /\ IF limiter'.count > Maximum /\ InWindow THEN UNCHANGED <<replies, granted>>
             ELSE HandleDiscovery(p)
  /\ UNCHANGED <<now, settings, acl, sent, changes>>

(* The replay check against the timestamp of the last accepted request.    *)
IsNewer(r) == r.ts > last[r.from]

AdvanceClientWatermark(r) ==
  last' = [last EXCEPT ![r.from] = IF r.ts > @ THEN r.ts ELSE @]

(* ProtocolRequestHandler.__call__ with _handle_request: the timestamp     *)
(* advances only if there is a response, and before it is built.           *)
ProtocolRequest(p) ==
  /\ p \in held /\ p.req.kind = "request" /\ held' = held \ {p}
  /\ \/ /\ p.req.ours /\ p.req.from \in known /\ IsNewer(p.req)
        /\ AdvanceClientWatermark(p.req)
        /\ Replies(Reply(p, path[p.req.from]))
     \/ UNCHANGED <<last, replies>>   \* not ours, a replay, or no response
  /\ UNCHANGED <<now, settings, path, known, limiter, sent, granted, changes>>

-----------------------------------------------------------------------------
(* Dispatcher._apply_flood_scope as the reply is sent.                     *)
ApplyFloodScope(reply) == IF reply.final \/ reply.route # "flood" THEN reply.key ELSE scope

(* _apply_default_path_hash_mode: the handlers have marked theirs applied. *)
ApplyDefaultPathHashMode(reply) == reply.width

SendReply(reply) ==
  /\ reply \in replies /\ replies' = replies \ {reply}
  /\ sent' = {[req |-> reply.req, under |-> reply.under, route |-> reply.route,
                  key |-> ApplyFloodScope(reply),
                  width |-> ApplyDefaultPathHashMode(reply)]}
  /\ UNCHANGED <<now, settings, acl, limiter, held, granted, changes>>

(* The maps are rebuilt when a transport key changes; the node's scope and *)
(* width are set by its operator; a PATH packet brings a route.            *)
Changing == changes < MaxChanges /\ changes' = changes + 1
            /\ UNCHANGED <<now, last, known, limiter, held, replies, sent, granted>>

ReloadRegions ==
  /\ Changing /\ UNCHANGED <<scope, width, path>>
  /\ \/ dmap # None /\ dmap' \in Maps /\ UNCHANGED bmap
     \/ bmap # None /\ bmap' \in Maps /\ UNCHANGED dmap

Configure ==
  /\ Changing /\ UNCHANGED <<dmap, bmap, path>>
  /\ scope' \in Key \cup {None} /\ width' \in Width

LearnPath(c) == Changing /\ path' = [path EXCEPT ![c] = TRUE] /\ UNCHANGED settings

Tick == now < MaxTime /\ now' = now + 1
        /\ UNCHANGED <<settings, acl, limiter, held, replies, sent, granted, changes>>

Next ==
  \/ \E r \in Requests : Hear(r)
  \/ \E p \in held : LoginRequest(p) \/ AnonRequest(p) \/ ProtocolRequest(p)
  \/ \E reply \in replies : SendReply(reply)
  \/ ReloadRegions \/ Configure \/ \E c \in Client : LearnPath(c)
  \/ Tick

Spec == Init /\ [][Next]_vars

-----------------------------------------------------------------------------
(* Whatever is reloaded or configured between a request and its reply: a   *)
(* flooded reply goes out under the region the request was heard under, or *)
(* plain if that was plain, and at the path hash width of the request      *)
(* (region_map.py, capture_recv_region and apply_reply_scope).             *)
ReplyMirrors ==
  \A s \in sent : s.route = "flood" =>
    /\ s.width = s.req.width
    /\ s.under = "plain" => s.key = None
    /\ s.under \in Region => s.key = RegionKeys[s.under][1]

(* No span as long as the limiter's window sees more than twice Maximum    *)
(* anonymous replies (anon_request.py, AnonRateLimiter): so many replies   *)
(* on, a whole window has passed.                                          *)
AnonBudget ==
  \A i, j \in 1..Len(granted) : i + 2 * Maximum <= j => granted[i] + Secs <= granted[j]

=============================================================================
