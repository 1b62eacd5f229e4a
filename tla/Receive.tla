------------------------------- MODULE Receive -------------------------------
(***************************************************************************)
(* The receiving side of a node, three of its parts side by side: the      *)
(* dispatcher, the container of the radios and the book of contacts that   *)
(* adverts feed.  They share no state.                                     *)
(***************************************************************************)
EXTENDS DispatcherRx, Sequences

CONSTANTS
  None,
  Radio, Id,
  Peer, Self, MaxContacts, MaxAnon, Adverts, Policies, Learned, Edits, MaxClock, MaxTasks

VARIABLES
  order, object, default, armed, legacy, consumer, bound, inCall, lastRx, fired, tx, result,
  clock, contacts, proxies, prefs, events

radioVars == <<order, object, default, armed, legacy, consumer, bound, inCall, lastRx,
               fired, tx, result>>
bookVars == <<clock, contacts, proxies, prefs, events>>

Radios == INSTANCE Fabric

Book == INSTANCE Contacts WITH Key <- Peer, MaxTime <- MaxClock, now <- clock

ASSUME RadiosGiven == Radios!FabricAssumption

ASSUME BookGiven == Book!ContactsAssumption /\ Book!InputsAssumption

-----------------------------------------------------------------------------
(* Fabric: exactly the registered radios of an armed fabric call it.       *)
BoundExactly == Radios!BoundExactly

(* Contacts: adverts only refresh a contact.                               *)
AdvertsOnlyRefresh == Book!AdvertsOnlyRefresh

(* Contacts: eviction spares favourites and takes the oldest.              *)
EvictionSpares == Book!EvictionSpares
=============================================================================
