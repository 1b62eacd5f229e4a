------------------------------ MODULE Contacts ------------------------------
(***************************************************************************)
(* The contact book of a companion: the ContactStore with its cached       *)
(* proxies (companion/contact_store.py), the advert pipeline that feeds it *)
(* (node/handlers/advert.py, base_events.py, base_contacts.py), the app's  *)
(* contact commands, and the other writers of a contact: PATH packets,     *)
(* signed texts, anonymous requests and the restore from saved records.    *)
(*                                                                         *)
(* A contact is the fields the code decides on.  Position, name and the    *)
(* bytes of keys and paths are left out.  Among contacts modified in the   *)
(* same second the code evicts the first in dict order, the model any.     *)
(***************************************************************************)
EXTENDS Naturals, Sequences, FiniteSets

CONSTANTS
  Key,          \* public keys of the peers
  Self,         \* the node's own key
  None,
  MaxContacts,  \* ContactStore._max_contacts
  MaxAnon,      \* MAX_ANON_CONTACTS
  Adverts,      \* adverts on the air, [key, ts, type, hops, valid]; valid:
                \* signed by that key and with a name
  Policies,     \* values of the auto-add preferences
  Learned,      \* routes a PATH packet may bring
  Edits,        \* contacts the app may store with CMD_ADD_UPDATE_CONTACT
  MaxTime,      \* bound on the clock
  MaxTasks      \* bound on the events in flight

(* What is assumed of the constants.                                       *)
ContactsAssumption ==
  /\ Self \notin Key /\ None \notin Key
  /\ MaxContacts \in Nat /\ MaxAnon \in Nat \ {0}
  /\ MaxTime \in Nat /\ MaxTasks \in Nat

Types == {"none", "chat", "repeater"}   \* ADV_TYPE_*; "none" is a transient
Paths == {"unknown", "zero", "routed"}  \* out_path_len -1, 0, anything else
Times == 0..MaxTime

Contact == [type : Types, fav : BOOLEAN, path : Paths, ts : Times, mod : Times, sync : Times]

(* manual_add_contacts bit 0, the AUTOADD_* type bits, the overwrite bit   *)
(* and autoadd_max_hops.                                                   *)
Policy == [manual : BOOLEAN, types : SUBSET Types, overwrite : BOOLEAN, maxHops : 0..2]

InputsAssumption ==
  /\ None \notin Contact
  /\ Policies \subseteq Policy /\ Policies # {} /\ Edits \subseteq Contact
  /\ Learned \subseteq Paths \ {"unknown"}
  /\ Adverts \subseteq [key : Key \cup {Self}, ts : Times, type : Types, hops : 0..2,
                        valid : BOOLEAN]

VARIABLES
  now,
  contacts,  \* _contacts: the contact stored for each key, or None
  proxies,   \* _proxies: what each cached ContactProxy copied
  prefs,     \* the auto-add preferences
  events     \* NODE_DISCOVERED tasks, in the order they were created

vars == <<now, contacts, proxies, prefs, events>>

Stored == {k \in Key : contacts[k] # None}
Transients == {k \in Stored : contacts[k].type = "none"}
Real == Stored \ Transients

Event == [key : Key, ts : Times, type : Types, hops : 0..2, valid : {TRUE}]

Init ==
  /\ now = 0 /\ prefs \in Policies
  /\ contacts = [k \in Key |-> None] /\ proxies = contacts
  /\ events = <<>>

-----------------------------------------------------------------------------
(* ContactStore                                                            *)

IsFull == Cardinality(Stored) >= MaxContacts

(* Store c, with a fresh proxy.                                            *)
Update(k, c) ==
  contacts' = [contacts EXCEPT ![k] = c] /\ proxies' = [proxies EXCEPT ![k] = c]

Remove(k) == Update(k, None)

Replace(old, k, c) ==
  /\ contacts' = [contacts EXCEPT ![old] = None, ![k] = c]
  /\ proxies' = [proxies EXCEPT ![old] = None, ![k] = c]

CanAdd(k) == k \in Stored \/ ~IsFull

Oldest(S) == {k \in S : \A j \in S : contacts[k].mod <= contacts[j].mod}

(* Mutant: transients may be overwritten too.                              *)
OverwritableAnon == Oldest({k \in Stored : ~contacts[k].fav})

(* What add_or_overwrite evicts from a full store.                         *)
Overwritable == Oldest({k \in Real : ~contacts[k].fav})

(* add_transient for a key that is not stored.                             *)
AddTransient(k, c) ==
  IF Cardinality(Transients) >= MaxAnon
  THEN \E old \in Oldest(Transients) : Replace(old, k, c)
  ELSE Update(k, c)

-----------------------------------------------------------------------------
(* The advert pipeline                                                     *)

(* AdvertHandler.__call__: our own advert, one with a bad signature and    *)
(* one without a name stop here; a clock ahead of ours is clamped.         *)
HearAdvert(a) ==
  /\ Len(events) < MaxTasks
  /\ events' = IF a.key = Self \/ ~a.valid THEN events
               ELSE Append(events, [a EXCEPT !.ts = IF a.ts > now THEN now ELSE a.ts])
  /\ UNCHANGED <<now, contacts, proxies, prefs>>

(* import_contact and _loopback_imported_advert: the app's raw advert goes *)
(* through the same handler, as a flood.                                   *)
ImportContact(a) == HearAdvert(a)

(* Contact.from_dict; the wire flags are not the local ones.               *)
FromDict(e) ==
  [type |-> e.type, fav |-> FALSE, path |-> "unknown",
   ts |-> IF e.ts > now THEN now ELSE e.ts, mod |-> now, sync |-> 0]

(* Mutant: no replay protection.                                           *)
IsReplayNever(k, c) == FALSE

IsReplay(k, c) == k \in Stored /\ c.ts <= contacts[k].ts

Merge(k, c) == [c EXCEPT !.path = contacts[k].path, !.fav = contacts[k].fav,
                         !.sync = contacts[k].sync]

ShouldAutoAdd(type) ==
  ~prefs.manual \/ (type # "none" /\ type \in prefs.types)

TooFar(hops) == prefs.maxHops > 0 /\ hops >= prefs.maxHops

(* _apply_advert_to_stores for an advert that is not a replay.             *)
ApplyAdvert(e, c) ==
  \/ /\ e.key \in Stored /\ Update(e.key, Merge(e.key, c))
  \/ /\ e.key \notin Stored
     /\ ~ShouldAutoAdd(e.type) \/ TooFar(e.hops)
     /\ UNCHANGED <<contacts, proxies>>
  \/ /\ e.key \notin Stored /\ ShouldAutoAdd(e.type) /\ ~TooFar(e.hops)
     /\ \/ ~IsFull /\ Update(e.key, c)
        \/ /\ IsFull /\ prefs.overwrite
           /\ \E old \in Overwritable : Replace(old, e.key, c)
        \/ /\ IsFull /\ (~prefs.overwrite \/ Overwritable = {})  \* contacts_full
           /\ UNCHANGED <<contacts, proxies>>

(* _handle_mesh_event for NODE_DISCOVERED, up to its first callback.       *)
NodeDiscovered ==
  LET e == Head(events)  c == FromDict(e) IN
  /\ events # <<>> /\ events' = Tail(events)
  /\ IF IsReplay(e.key, c) THEN UNCHANGED <<contacts, proxies>>
     ELSE ApplyAdvert(e, c)
  /\ UNCHANGED <<now, prefs>>

-----------------------------------------------------------------------------
(* The app's commands and the other writers of the book                    *)

CmdAddUpdateContact(k, c) ==
  /\ CanAdd(k)
  /\ Update(k, [c EXCEPT !.mod = IF @ = 0 THEN now ELSE @])
  /\ UNCHANGED <<now, prefs, events>>

CmdRemoveContact(k) ==
  /\ k \in Stored /\ Remove(k)
  /\ UNCHANGED <<now, prefs, events>>

CmdResetPath(k) ==
  /\ k \in Stored /\ Update(k, [contacts[k] EXCEPT !.path = "unknown"])
  /\ UNCHANGED <<now, prefs, events>>

CmdSetAutoaddConfig(p) ==
  prefs' = p /\ UNCHANGED <<now, contacts, proxies, events>>

(* send_anon_req to a key that is not a contact.                           *)
SendAnonReq(k) ==
  /\ k \notin Stored
  /\ AddTransient(k, [type |-> "none", fav |-> FALSE, path |-> "zero", ts |-> 0,
                      mod |-> now, sync |-> 0])
  /\ UNCHANGED <<now, prefs, events>>

(* A PATH packet: ProtocolResponseHandler._update_contact_path.            *)
UpdateContactPath(k, path) ==
  /\ k \in Stored /\ Update(k, [contacts[k] EXCEPT !.path = path])
  /\ UNCHANGED <<now, prefs, events>>

(* The callback for the same packet, which stores it again and pushes it.  *)
OnContactPathUpdated(k, path) == UpdateContactPath(k, path)

(* A signed text advances the watermark of the room it came from; the      *)
(* handler compares with the proxy and writes the backing contact.         *)
AdvanceSyncSince(k, t) ==
  /\ k \in Stored /\ t > proxies[k].sync
  /\ Update(k, [contacts[k] EXCEPT !.sync = t])
  /\ UNCHANGED <<now, prefs, events>>

(* A restart, to_dicts then load_from_dicts: transients are not saved, and *)
(* loading stops when the store is full.                                   *)
Reload ==
  /\ events = <<>>
  /\ \E kept \in SUBSET Real :
       /\ kept = Real \/ Cardinality(kept) = MaxContacts
       /\ Cardinality(kept) <= MaxContacts
       /\ contacts' = [k \in Key |-> IF k \in kept THEN contacts[k] ELSE None]
  /\ proxies' = contacts'
  /\ UNCHANGED <<now, prefs, events>>

Tick == now < MaxTime /\ now' = now + 1
        /\ UNCHANGED <<contacts, proxies, prefs, events>>

Next ==
  \/ \E a \in Adverts : HearAdvert(a) \/ ImportContact(a)
  \/ NodeDiscovered
  \/ \E k \in Key : \/ \E c \in Edits : CmdAddUpdateContact(k, c)
                    \/ CmdRemoveContact(k) \/ CmdResetPath(k) \/ SendAnonReq(k)
                    \/ \E path \in Learned :
                         UpdateContactPath(k, path) \/ OnContactPathUpdated(k, path)
                    \/ \E t \in Times : AdvanceSyncSince(k, t)
  \/ \E p \in Policies : CmdSetAutoaddConfig(p)
  \/ Reload \/ Tick

Spec == Init /\ [][Next]_vars

-----------------------------------------------------------------------------
TypeOK ==
  /\ now \in Times /\ prefs \in Policies
  /\ contacts \in [Key -> Contact \cup {None}]
  /\ proxies \in [Key -> Contact \cup {None}]
  /\ events \in Seq(Event)

(* Handlers route, decrypt and acknowledge by the cached proxies while the *)
(* app, the PATH handler and adverts write the contacts: no writer leaves  *)
(* a proxy behind (contact_store.py, _proxies).                            *)
ProxiesMirror == proxies = contacts

Edited(k) == \E c \in Edits : CmdAddUpdateContact(k, c)

Refreshed(k) ==
  /\ contacts'[k].ts >= contacts[k].ts /\ contacts'[k].sync >= contacts[k].sync
  /\ contacts'[k].fav = contacts[k].fav
  /\ contacts'[k].ts # contacts[k].ts => contacts'[k].path = contacts[k].path

(* A newcomer stands where the oldest of its kind that may go stood.       *)
GaveWay(k) ==
  \E new \in Key \ Stored :
    /\ contacts'[new] # None
    /\ IF contacts[k].type = "none"
       THEN contacts'[new].type = "none" /\ k \in Oldest(Transients)
       ELSE ~contacts[k].fav /\ k \in Oldest({j \in Real : ~contacts[j].fav})

(* Whatever arrives, and in whatever order: a stored contact's advert time *)
(* never goes back, the watermark never goes back, and a step that changes *)
(* the advert time keeps the favourite flag and the route, unless the app  *)
(* itself rewrites the contact (base_events.py, replay protection).        *)
AdvertsOnlyRefresh ==
  [][\A k \in Stored : contacts'[k] # None /\ ~Edited(k) => Refreshed(k)]_vars

(* A contact disappears only at a restart, when the app removes it, when   *)
(* a newcomer that is a real contact takes the place of the oldest that is *)
(* neither a favourite nor transient, or when a transient takes the place  *)
(* of the oldest transient (contact_store.py, add_or_overwrite,            *)
(* add_transient).                                                         *)
EvictionSpares ==
  [][\A k \in Stored : contacts'[k] = None => CmdRemoveContact(k) \/ Reload \/ GaveWay(k)]_vars
=============================================================================
