----------------------------- MODULE ModemRadios -----------------------------
(***************************************************************************)
(* The modem radios, as a part that stands beside the KISS modem.          *)
(***************************************************************************)
EXTENDS Naturals, Sequences

CONSTANTS Tuple, MaxRadioSends, MaxSets, MaxRadioDrops, RadioSpent, MaxQueue, MaxFrames

VARIABLES
  usb, initialized, stop, handle, connected, linked, worker, packed, want, radioModem, up,
  down, queue, answer, error, send, tune, closing, tally, crossed, raced

radioVars == <<usb, initialized, stop, handle, connected, linked, worker, packed, want,
               radioModem, up, down, queue, answer, error, send, tune, closing, tally,
               crossed, raced>>

Radio == INSTANCE ModemRadio WITH
  MaxSends <- MaxRadioSends, MaxDrops <- MaxRadioDrops, Spent <- RadioSpent,
  modem <- radioModem

ASSUME RadioGiven == Radio!ModemAssumption

-----------------------------------------------------------------------------
(* ModemRadio: an answer goes to the command that asked for it.            *)
AnswersItsOwn == Radio!AnswersItsOwn

(* ModemRadio: an idle modem runs the settings in memory.                  *)
ConfigInForce == Radio!ConfigInForce

(* ModemRadio: the radio serves again after every failure.                 *)
Recovers == Radio!Recovers
=============================================================================
