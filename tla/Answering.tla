------------------------------ MODULE Answering ------------------------------
(***************************************************************************)
(* The server that answers requests, as a part that stands beside others.  *)
(***************************************************************************)
EXTENDS Naturals, Sequences

CONSTANTS
  Nil, Client, Incoming, Region, Wild, RegionKeys, Key, Maps, Width, Maximum, Secs, MaxTime,
  MaxHeld, MaxChanges, MaxCount

VARIABLES
  now, dmap, bmap, scope, width, last, path, known, limiter, held, replies, sent, granted,
  changes

serverVars == <<now, dmap, bmap, scope, width, last, path, known, limiter, held, replies,
                sent, granted, changes>>

Server == INSTANCE RequestServer WITH None <- Nil, Requests <- Incoming

ASSUME ServerGiven == Server!ServerAssumption /\ Server!NamesAssumption

-----------------------------------------------------------------------------
(* RequestServer: a reply mirrors the scope and the path width of its      *)
(* request.                                                                *)
ReplyMirrors == Server!ReplyMirrors

(* RequestServer: the limit on anonymous requests holds in every window.   *)
AnonBudget == Server!AnonBudget
=============================================================================
