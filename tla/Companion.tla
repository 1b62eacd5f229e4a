------------------------------ MODULE Companion ------------------------------
(***************************************************************************)
(* The companion above its send path, its parts side by side: the teacher  *)
(* of return paths, the device settings, and the frame server's answers    *)
(* and pushes.                                                             *)
(***************************************************************************)
EXTENDS ReturnPath

CONSTANTS
  None, Zero, Key, Freq, RepeatFreq, Power, Mode, DefaultMode, Byte, Chunk, MaxSignDataSize,
  MaxTime, Owners,
  Client, Tag, HostTag, MaxAsked

VARIABLES
  owner, prefs, scope, disp, hw, sign, now, offset, running, reply, scopeAsked, acked, seeded,
  slot, doing, asked, out, pushed, pend, disc, own, callbacks, ctlOwn, logged, writers, air

settingsVars == <<owner, prefs, scope, disp, hw, sign, now, offset, running, reply,
                  scopeAsked, acked, seeded>>
sessionVars == <<slot, doing, asked, out, pushed, pend, disc, own, callbacks, ctlOwn,
                 logged, writers, air>>

Device == INSTANCE Settings WITH asked <- scopeAsked

Clients == INSTANCE Session

ASSUME DeviceGiven == Device!KeysAssumption /\ Device!ValuesAssumption

ASSUME ClientsGiven == Clients!TagsAssumption /\ Clients!BoundsAssumption

-----------------------------------------------------------------------------
(* Settings: floods are scoped as the application last asked.              *)
ScopeAsAsked == Device!ScopeAsAsked

(* Settings: what is signed is what was acknowledged.                      *)
SignsWhatWasAcked == Device!SignsWhatWasAcked

(* Session: the connected client has one answer to each of its commands.   *)
OneAnswerEach == Clients!OneAnswerEach

(* Session: the host's requests are left to the host.                      *)
HostLeftAlone == Clients!HostLeftAlone
=============================================================================
