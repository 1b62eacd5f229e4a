------------------------------ MODULE MCModems ------------------------------
(***************************************************************************)
(* The radios at the end of a serial line or a socket: of the KISS modem   *)
(* the exchange over its link and the two decoders of its frames, and the  *)
(* modem radios.  One of them runs and the others stay in their initial    *)
(* state.                                                                  *)
(***************************************************************************)
EXTENDS KissExchange, ModemRadios

VARIABLES on, wrapper, decoder, stream

codecVars == <<wrapper, decoder, stream>>

(* Two sends and two commands at a time, with the budgets spread over      *)
(* sends, commands, packets heard and failures of the link.                *)
Budget(sends, asks, hears, fails) ==
  [sends |-> MaxSends - sends, commands |-> MaxCommands - asks, heard |-> MaxHeard - hears,
   drops |-> MaxDrops - fails]

Budgets == {Budget(3, 0, 0, 1), Budget(0, 3, 0, 1), Budget(0, 1, 2, 0), Budget(0, 0, 3, 1),
            Budget(1, 1, 1, 0), Budget(0, 1, 0, 2)}

(* The modem radios: two sends; a send and a drop; a setter call and a     *)
(* drop; two setter calls.                                                 *)
Left(sends, sets, drops) ==
  [sends |-> MaxRadioSends - sends, sets |-> MaxSets - sets,
   drops |-> MaxRadioDrops - drops, credit |-> 0]

RadioBudgets == {Left(2, 0, 0), Left(1, 0, 1), Left(0, 1, 1), Left(0, 2, 0)}

(* Every stream of six bytes, in every division into reads.                *)
Codec == INSTANCE KissCodec WITH
  MaxFrameSize <- 3, MaxBytes <- 6, MaxChunk <- 3,
  Payloads <- {<<"x", "x">>, <<"x", "FEND", "TFEND">>, <<"x", "FESC", "TFESC">>,
               <<"TFEND", "FESC">>}

ASSUME CodecGiven == Codec!CodecAssumption

MCInit ==
  /\ on \in {"radio", "exchange", "codec"}
  /\ Init /\ Radio!Init /\ Codec!Init
  /\ on # "radio" => usb /\ tally = Left(2, 0, 0)
  /\ on # "codec" => wrapper = Codec!Serial
  /\ on # "exchange" => count = Budget(3, 0, 0, 1)

MCNext ==
  \/ on = "exchange" /\ Next /\ UNCHANGED <<on, radioVars, codecVars>>
  \/ on = "radio" /\ Radio!Next /\ UNCHANGED <<on, vars, codecVars>>
  \/ on = "codec" /\ Codec!Next /\ UNCHANGED <<on, vars, radioVars>>

(* The fairness of ModemRadio, while it is the one that runs.              *)
MCFairness ==
  /\ WF_radioVars(on = "radio" /\ Radio!Worker)
  /\ WF_radioVars(on = "radio" /\ Radio!ModemAnswers)
  /\ WF_radioVars(on = "radio" /\ Radio!CleanupCloses)
  /\ WF_radioVars(on = "radio" /\ Radio!BudgetEnds)
  /\ WF_radioVars(on = "radio" /\ Radio!SendWakes)
  /\ WF_radioVars(on = "radio" /\ Radio!LockHolder)

MCSpec == MCInit /\ [][MCNext]_<<on, vars, radioVars, codecVars>> /\ MCFairness

-----------------------------------------------------------------------------
(* KissCodec: the bulk decoder does what the decoder it replaces does.     *)
(* (Elsewhere the codec is in an initial state, which its own runs visit.) *)
AgreesWhenValid == on = "codec" => Codec!AgreesWhenValid

(* KissCodec: the decoders recover after any noise.                        *)
Resyncs == on = "codec" => Codec!Resyncs
=============================================================================
