------------------------------ MODULE MCReceive ------------------------------
(***************************************************************************)
(* The receiving side of a node: the container of its radios, the          *)
(* dispatcher, the book of contacts that adverts feed and the server that  *)
(* answers requests.  One of them runs and the others stay in their        *)
(* initial state.                                                          *)
(***************************************************************************)
EXTENDS MCDispatcherRx, Receive, Answering

VARIABLE on

(* A client, a plain and a private region, and a wildcard entry.           *)
RegionKeysOf == "home" :> <<"k1">> @@ "secret" :> <<"k2", "k1">> @@ "any" :> <<"k2">>

MapValues == {[regions |-> <<"home", "secret">>, deny |-> {}, plain |-> TRUE],
              [regions |-> <<"secret", "home">>, deny |-> {"secret"}, plain |-> FALSE],
              [regions |-> <<"any", "secret">>, deny |-> {}, plain |-> TRUE]}

Ask(ask, ts, route, code, w) ==
  [from |-> "c1", ours |-> TRUE, kind |-> ask, ts |-> ts, route |-> route, code |-> code,
   width |-> w]

Asked == {Ask("login", 1, "scoped", "k1", 1), Ask("login", 2, "flood", Nil, 2),
          Ask("login", 2, "direct", Nil, 1),
          Ask("request", 2, "scoped", "k2", 2), Ask("request", 3, "direct", Nil, 1),
          Ask("discovery", 1, "direct", Nil, 1), Ask("discovery", 2, "flood", Nil, 1),
          [Ask("login", 3, "scoped", "k2", 1) EXCEPT !.ours = FALSE]}

(* Two peers in a book for one contact and one transient: any advert that  *)
(* may be, or repeat, or replay another, and one that names this node.     *)
Advert(k, ts, type, hops, valid) ==
  [key |-> k, ts |-> ts, type |-> type, hops |-> hops, valid |-> valid]

Heard == {Advert(k, ts, "chat", 1, TRUE) : k \in Peer, ts \in 0..1}
         \cup {Advert(k, 1, "chat", 2, TRUE) : k \in Peer}
         \cup {Advert("k1", 1, "none", 1, TRUE), Advert("k2", 1, "chat", 1, FALSE),
               Advert("self", 1, "chat", 1, TRUE)}

PolicyValues == {[manual |-> FALSE, types |-> {}, overwrite |-> TRUE, maxHops |-> 0],
                 [manual |-> TRUE, types |-> {"chat"}, overwrite |-> FALSE, maxHops |-> 2]}

EditValues == {[type |-> "chat", fav |-> TRUE, path |-> "routed", ts |-> 0, mod |-> 0,
                sync |-> 0]}

MCInit ==
  /\ on \in {"dispatcher", "server", "radios", "book"}
  /\ Init /\ Server!Init /\ Radios!Init /\ Book!Init
  /\ on # "server" => dmap = Nil /\ bmap = Nil /\ width = 1
  /\ on # "book" => prefs.overwrite

MCNext ==
  \/ on = "dispatcher" /\ Next /\ UNCHANGED <<on, serverVars, radioVars, bookVars>>
  \/ on = "server" /\ Server!Next /\ UNCHANGED <<on, vars, radioVars, bookVars>>
  \/ on = "radios" /\ Radios!Next /\ UNCHANGED <<on, vars, serverVars, bookVars>>
  \/ on = "book" /\ Book!Next /\ UNCHANGED <<on, vars, serverVars, radioVars>>

MCSpec == MCInit /\ [][MCNext]_<<on, vars, serverVars, radioVars, bookVars>>
=============================================================================
