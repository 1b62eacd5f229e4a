------------------------------ MODULE Messages ------------------------------
(***************************************************************************)
(* The path of a send through the dispatcher and, beside it, the queue in  *)
(* which a companion keeps what it has received for its app.               *)
(***************************************************************************)
EXTENDS SendFunnel

CONSTANTS
  Plain, Signed, Cli, Junk, GroupText, GroupData, Own, ChannelOf, Slots, Secrets, Names, None,
  MultiAcks, QueueSize, SeenMax, Ttl, FrameMax, MaxHeard, MaxTime, MaxDrops

VARIABLES
  now, heard, seenTxt, seenGrpTxt, seenGroup, channels, pending, events, inbox, out, server,
  app, wants, drops, marked

inboxVars == <<now, heard, seenTxt, seenGrpTxt, seenGroup, channels, pending, events, inbox,
               out, server, app, wants, drops, marked>>

Mail == INSTANCE Inbox WITH queue <- inbox

ASSUME MailGiven == Mail!InboxAssumption

-----------------------------------------------------------------------------
(* Inbox: a message enters the queue once per window of its cache.         *)
QueuedOncePerWindow == Mail!QueuedOncePerWindow

(* Inbox: the app catches up with the queue.                               *)
AppCatchesUp == Mail!AppCatchesUp
=============================================================================
