------------------------------ MODULE Settings ------------------------------
(***************************************************************************)
(* The device settings behind the companion protocol: the CMD_SET_* and    *)
(* CMD_SIGN_* handlers (companion/frame_server/commands_device.py), the    *)
(* setters of _DeviceConfigMixin (companion/base_config.py) and, for a     *)
(* CompanionRadio, the overrides that apply a setting to the radio or      *)
(* mirror it to the dispatcher of its node (companion/companion_radio.py). *)
(* A CompanionBridge shares the radio of its host and has no dispatcher.   *)
(*                                                                         *)
(* These handlers never suspend between reading and writing, so each is    *)
(* one step.  A frame is abstracted to what the checks of its handler tell *)
(* apart; `reply` keeps whether it was accepted, refused or answered with  *)
(* data, not the code.                                                     *)
(***************************************************************************)
EXTENDS Naturals, Sequences

CONSTANTS
  Key,           \* non-zero transport keys
  Zero, None,    \* the all-zero key; no key, no session
  Freq, RepeatFreq,          \* frequencies within the limits; those open to repeat
  Power,                     \* TX powers within the limits
  Mode,                      \* values of the mirrored preferences, DefaultMode among them
  DefaultMode,
  Byte, Chunk,               \* chunks of data to sign
  MaxSignDataSize,
  MaxTime,                   \* bound on the wall clock and on the device time
  Owners                     \* subset of {"radio", "bridge"}

(* What is assumed of the constants.                                       *)
KeysAssumption == /\ {Zero, None, "default", "unscoped"} \cap Key = {} /\ Zero # None
                         /\ None \notin Seq(Byte)
ValuesAssumption == /\ RepeatFreq \subseteq Freq /\ DefaultMode \in Mode
                           /\ Chunk \subseteq Seq(Byte) /\ MaxSignDataSize \in Nat
                           /\ MaxTime \in Nat /\ Owners \subseteq {"radio", "bridge"}

(* Preferences that a CompanionRadio copies to its node: path_hash_mode,   *)
(* multi_acks and the tuning parameters.                                   *)
Mirrored == {"hash", "multi", "tuning"}

VARIABLES
  owner,     \* which companion this is
  prefs,     \* NodePrefs: freq, power, repeat, def (the default scope), mode
  scope,     \* _flood_transport_key and _flood_unscoped
  disp,      \* what the dispatcher of the current node holds of them
  hw,        \* frequency and power the radio runs with
  sign,      \* _sign_buffer: None or the bytes it holds
  now, offset,   \* the wall clock and _time_offset
  running,
  reply,     \* to the latest command
  asked,     \* history: what the application last said of the flood scope
  acked,     \* history: bytes acknowledged since the last SIGN_START
  seeded     \* history: start() has run on the current node

vars == <<owner, prefs, scope, disp, hw, sign, now, offset, running, reply,
          asked, acked, seeded>>
scopeVars == <<scope, asked>>
signVars == <<sign, acked>>
nodeVars == <<owner, now, running, seeded>>

(* A node as MeshNode builds it.                                           *)
FreshDispatcher == [key |-> None, def |-> None, unscoped |-> FALSE, repeat |-> FALSE,
                    mode |-> [m \in Mirrored |-> DefaultMode]]

Owned == owner = "radio"

(* _init_companion_stores and _load_prefs: any preferences may have been   *)
(* persisted; nothing is mirrored yet.                                     *)
Init ==
  /\ owner \in Owners
  /\ \E f \in Freq, p \in Power, d \in Key \cup {Zero, None} :
       /\ prefs = [freq |-> f, power |-> p, repeat |-> FALSE, def |-> d,
                   mode |-> [m \in Mirrored |-> DefaultMode]]
       /\ hw = [freq |-> f, power |-> p]
  /\ scope = [key |-> None, unscoped |-> FALSE] /\ disp = FreshDispatcher
  /\ sign = None /\ acked = <<>>
  /\ now = 0 /\ offset = 0 /\ running = FALSE /\ seeded = FALSE
  /\ reply = "none" /\ asked = "default"

Accept == reply' = "OK"
Refuse == reply' = "ERR" /\ UNCHANGED <<prefs, scopeVars, disp, hw, signVars, offset, nodeVars>>
Report == reply' = "DATA" /\ UNCHANGED <<prefs, scopeVars, disp, hw, signVars, offset, nodeVars>>

-----------------------------------------------------------------------------
(* Flood scope.                                                            *)

(* _default_scope_key: an all-zero default key means plain flood.          *)
DefaultScopeKey(p) == IF p.def \in Key THEN p.def ELSE None

(* _resolve_flood_transport_key under _apply_flood_scope: the key that a   *)
(* flood packet built by the companion is scoped with.                     *)
ApplyFloodScope ==
  IF scope.unscoped THEN None
  ELSE IF scope.key # None THEN scope.key ELSE DefaultScopeKey(prefs)

(* Dispatcher._apply_flood_scope: the same for a packet that carries no    *)
(* decision of the companion's.                                            *)
DispatcherFloodScope ==
  IF disp.unscoped THEN None ELSE IF disp.key # None THEN disp.key ELSE disp.def

(* set_flood_scope, set_flood_region: k is None, Zero or a key.            *)
SetFloodScope(k) ==
  /\ scope' = [key |-> IF k \in Key THEN k ELSE None, unscoped |-> FALSE]
  /\ disp' = IF Owned THEN [disp EXCEPT !.key = scope'.key, !.unscoped = FALSE] ELSE disp
  /\ asked' = IF k \in Key THEN k ELSE "default"

(* set_flood_unscoped: the override stays underneath.                      *)
SetFloodUnscoped ==
  /\ scope' = [scope EXCEPT !.unscoped = TRUE]
  /\ disp' = IF Owned THEN [disp EXCEPT !.key = None, !.unscoped = TRUE] ELSE disp
  /\ asked' = "unscoped"

(* CMD_SET_FLOOD_SCOPE_KEY: refused without a mode byte or with a mode     *)
(* above 1.                                                                *)
CmdSetFloodScope ==
  \/ Refuse
  \/ /\ SetFloodUnscoped \/ \E k \in Key \cup {Zero, None} : SetFloodScope(k)
     /\ Accept /\ UNCHANGED <<prefs, hw, signVars, offset, nodeVars>>

(* The same by the API.                                                    *)
SetFloodRegion ==
  /\ \E k \in Key \cup {None} : SetFloodScope(k)
  /\ UNCHANGED <<prefs, hw, signVars, offset, nodeVars, reply>>

(* set_default_flood_scope: without a name or a key the default is cleared. *)
SetDefaultFloodScope(k) ==
  /\ prefs' = [prefs EXCEPT !.def = k]
  /\ disp' = IF Owned THEN [disp EXCEPT !.def = DefaultScopeKey(prefs')] ELSE disp

(* Refused for a name that is blank or too long.                           *)
CmdSetDefaultFloodScope ==
  \/ Refuse
  \/ /\ \E k \in Key \cup {Zero, None} : SetDefaultFloodScope(k)
     /\ Accept /\ UNCHANGED <<scopeVars, hw, signVars, offset, nodeVars>>

-----------------------------------------------------------------------------
(* Radio parameters.                                                       *)

(* _radio_mutation_supported: a bridge acknowledges and ignores.           *)
RadioMutationSupported == Owned

(* set_radio_params and set_client_repeat, of the preferences.             *)
SetRadioParams(p, f) == [p EXCEPT !.freq = f]
SetClientRepeat(p, repeat) == [p EXCEPT !.repeat = repeat]

RepeatFreqAllowed(f) == f \in RepeatFreq

(* CMD_SET_RADIO_PARAMS with parameters within the limits; `repeat` is the *)
(* optional last byte, absent meaning off.  `applied`: configure_radio of  *)
(* the owned radio neither failed nor raised.                              *)
CmdSetRadioParams ==
  \/ Refuse
  \/ \E f \in Freq, repeat \in BOOLEAN :
       /\ repeat => RepeatFreqAllowed(f)
       /\ IF RadioMutationSupported
          THEN /\ hw' = [hw EXCEPT !.freq = f]
               /\ prefs' = SetClientRepeat(SetRadioParams(prefs, f), repeat)
               /\ disp' = [disp EXCEPT !.repeat = repeat]
          ELSE UNCHANGED <<prefs, hw, disp>>
       /\ Accept /\ UNCHANGED <<scopeVars, signVars, offset, nodeVars>>

(* CMD_SET_RADIO_TX_POWER: refused out of range or if the radio fails.     *)
CmdSetTxPower ==
  \/ Refuse
  \/ \E p \in Power :
       /\ IF RadioMutationSupported
          THEN hw' = [hw EXCEPT !.power = p] /\ prefs' = [prefs EXCEPT !.power = p]
          ELSE UNCHANGED <<prefs, hw>>
       /\ Accept /\ UNCHANGED <<scopeVars, disp, signVars, offset, nodeVars>>

-----------------------------------------------------------------------------
(* The other preferences.                                                  *)

(* set_path_hash_mode, set_other_params (its multi_acks), set_tuning_params. *)
SetMode(m, v) ==
  /\ prefs' = [prefs EXCEPT !.mode[m] = v]
  /\ disp' = IF Owned \/ m = "multi" THEN [disp EXCEPT !.mode[m] = v] ELSE disp

Set(m) == \E v \in Mode : /\ SetMode(m, v) /\ Accept
                          /\ UNCHANGED <<scopeVars, hw, signVars, offset, nodeVars>>

CmdSetPathHashMode == Refuse \/ Set("hash")
CmdSetTuningParams == Refuse \/ Set("tuning")

(* An older client's shorter frame leaves the optional fields alone.       *)
CmdSetOtherParams ==
  \/ Refuse \/ Set("multi")
  \/ Accept /\ UNCHANGED <<prefs, scopeVars, disp, hw, signVars, offset, nodeVars>>

(* Fields no other step reads: node_name, the position (out of range it    *)
(* raises before it assigns), the custom variables, the auto-add policy.   *)
Unread == Accept /\ UNCHANGED <<prefs, scopeVars, disp, hw, signVars, offset, nodeVars>>
CmdSetAdvertName == Refuse \/ Unread
CmdSetAdvertLatlon == Refuse \/ Unread
CmdSetCustomVar == Refuse \/ Unread

(* Commands that only read, and the one that is always refused.            *)
CmdAppStart == Refuse \/ Report
CmdDeviceQuery == Report
CmdGetBattAndStorage == Report
CmdGetStats == Refuse \/ Report
CmdGetDefaultFloodScope == Report
CmdGetDeviceTime == Report
CmdExportPrivateKey == Report
CmdImportPrivateKey == Refuse \/ Report      \* RESP_CODE_DISABLED
CmdGetTuningParams == Report
CmdGetCustomVars == Report
CmdGetAutoaddConfig == Report
CmdGetAllowedRepeatFreq == Report

-----------------------------------------------------------------------------
(* The device time.                                                        *)
GetTime == now + offset

(* set_time: offset' may be any number, but is never negative here since   *)
(* it never decreases the device time.                                     *)
SetTime(secs) == secs >= GetTime /\ offset' = secs - now

CmdSetDeviceTime ==
  \/ Refuse
  \/ /\ \E secs \in 0..MaxTime : SetTime(secs)
     /\ Accept /\ UNCHANGED <<prefs, scopeVars, disp, hw, signVars, nodeVars>>

Tick ==
  /\ now < MaxTime /\ now' = now + 1
  /\ UNCHANGED <<owner, prefs, scopeVars, disp, hw, signVars, offset, running, seeded, reply>>

-----------------------------------------------------------------------------
(* The signing session.                                                    *)
CmdSignStart ==
  /\ sign' = <<>> /\ acked' = <<>> /\ reply' = "DATA"
  /\ UNCHANGED <<prefs, scopeVars, disp, hw, offset, nodeVars>>

(* Mutant: the chunk is appended before the buffer is found too small.     *)
CmdSignDataOverflows ==
  \E c \in Chunk :
    /\ sign # None /\ sign' = sign \o c
    /\ IF Len(sign) + Len(c) > MaxSignDataSize THEN reply' = "ERR" /\ UNCHANGED acked
       ELSE Accept /\ acked' = acked \o c
    /\ UNCHANGED <<prefs, scopeVars, disp, hw, offset, nodeVars>>

(* Refused when empty, without a session, or when it would overflow.       *)
CmdSignData ==
  \/ Refuse
  \/ \E c \in Chunk :
       /\ sign # None /\ Len(sign) + Len(c) <= MaxSignDataSize
       /\ sign' = sign \o c /\ acked' = acked \o c /\ Accept
       /\ UNCHANGED <<prefs, scopeVars, disp, hw, offset, nodeVars>>

(* The session ends whether the identity could sign or not.                *)
CmdSignFinish ==
  IF sign = None THEN Refuse
  ELSE /\ sign' = None /\ acked' = <<>> /\ reply' \in {"DATA", "ERR"}
       /\ UNCHANGED <<prefs, scopeVars, disp, hw, offset, nodeVars>>

-----------------------------------------------------------------------------
(* Starting, stopping, a new identity.                                     *)

(* Mutant: start does not seed the persisted default scope.                *)
StartUnseeded ==
  /\ ~running /\ running' = TRUE /\ seeded' = TRUE
  /\ disp' = IF Owned THEN [disp EXCEPT !.key = scope.key, !.unscoped = scope.unscoped,
                                        !.repeat = prefs.repeat, !.mode = prefs.mode]
             ELSE [disp EXCEPT !.mode["multi"] = prefs.mode["multi"]]
  /\ UNCHANGED <<owner, prefs, scopeVars, hw, signVars, now, offset, reply>>

(* CompanionRadio.start and CompanionBridge.start, up to the first await.  *)
Start ==
  /\ ~running /\ running' = TRUE /\ seeded' = TRUE
  /\ disp' = IF Owned THEN [key |-> scope.key, def |-> DefaultScopeKey(prefs),
                            unscoped |-> scope.unscoped, repeat |-> prefs.repeat,
                            mode |-> prefs.mode]
             ELSE [disp EXCEPT !.mode["multi"] = prefs.mode["multi"]]
  /\ UNCHANGED <<owner, prefs, scopeVars, hw, signVars, now, offset, reply>>

Stop ==
  /\ running' = FALSE
  /\ UNCHANGED <<owner, prefs, scopeVars, disp, hw, signVars, now, offset, seeded, reply>>

(* CompanionRadio.import_private_key builds a new node, with a dispatcher  *)
(* that start() has not seen; a bridge only replaces its identity.         *)
ImportPrivateKey ==
  /\ IF Owned THEN disp' = FreshDispatcher /\ seeded' = FALSE ELSE UNCHANGED <<disp, seeded>>
  /\ UNCHANGED <<owner, prefs, scopeVars, hw, signVars, now, offset, running, reply>>

Command ==
  \/ CmdSetFloodScope \/ CmdSetDefaultFloodScope \/ CmdSetRadioParams \/ CmdSetTxPower
  \/ CmdSetPathHashMode \/ CmdSetTuningParams \/ CmdSetOtherParams \/ CmdSetAdvertName
  \/ CmdSetAdvertLatlon \/ CmdSetCustomVar \/ CmdAppStart \/ CmdDeviceQuery
  \/ CmdGetBattAndStorage \/ CmdGetStats \/ CmdGetDefaultFloodScope \/ CmdGetDeviceTime
  \/ CmdExportPrivateKey \/ CmdImportPrivateKey \/ CmdGetTuningParams \/ CmdGetCustomVars
  \/ CmdGetAutoaddConfig \/ CmdGetAllowedRepeatFreq \/ CmdSetDeviceTime
  \/ CmdSignStart \/ CmdSignData \/ CmdSignFinish

Next == Command \/ SetFloodRegion \/ Tick \/ Start \/ Stop \/ ImportPrivateKey

Spec == Init /\ [][Next]_vars

-----------------------------------------------------------------------------

(* What the application last asked for is what every flood is scoped with, *)
(* by the companion and, once start() has run on the current node, by its  *)
(* dispatcher: unscoped until the next override or reset whatever the      *)
(* default, the override's key, or else the default of the moment.         *)
ScopeAsAsked ==
  LET Due == CASE asked = "unscoped" -> None
               [] asked = "default" -> DefaultScopeKey(prefs)
               [] OTHER -> asked
  IN  ApplyFloodScope = Due /\ (Owned /\ seeded => DispatcherFloodScope = Due)

(* The buffer being signed holds the bytes acknowledged since SIGN_START,  *)
(* in order, and no part of a refused chunk.                                *)
SignsWhatWasAcked == sign # None => sign = acked /\ Len(sign) <= MaxSignDataSize

=============================================================================
