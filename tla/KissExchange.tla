---------------------------- MODULE KissExchange ----------------------------
(***************************************************************************)
(* What is said over the link of hardware/kiss_modem_wrapper.py, once      *)
(* KissLink has opened it: packets sent and confirmed by TX_DONE,          *)
(* SetHardware commands and their responses, and the packets heard with    *)
(* the RxMeta frame that carries their signal metrics.                     *)
(*                                                                         *)
(* The senders and callers are threads; the RX and TX workers are two      *)
(* more, and the reconnect thread configures the modem after each opening. *)
(* A session is one opening of the port.  A deadline passes at some time.  *)
(***************************************************************************)
EXTENDS Integers, Sequences

CONSTANTS
  Sender, Caller, None,
  Reconnector,                  \* the reconnect thread, a caller of its own
  TxBufferSize, MaxPendingRx,   \* TX_BUFFER_SIZE, MAX_PENDING_RX_FRAMES
  ResponseQueue,                \* maxlen of _response_queue
  MaxSends, MaxCommands, MaxHeard,   \* bounds on what is asked of the link,
  MaxDrops, MaxSessions,        \* on its failures and on its openings
  Spent                         \* what of these bounds is spent at the start

ASSUME ExchangeAssumption ==
  /\ Reconnector \notin Caller /\ None \notin Sender \cup Caller \cup {Reconnector}
  /\ {TxBufferSize, MaxPendingRx, ResponseQueue} \subseteq Nat \ {0}
  /\ {MaxSends, MaxCommands, MaxHeard, MaxDrops, MaxSessions} \subseteq Nat
  /\ Spent \subseteq [sends : Nat, commands : Nat, heard : Nat, drops : Nat]

VARIABLES
  link,        \* "up", "down", or "opening" while the modem is configured
  session,
  sender,      \* of each sender: idle, lock (at _tx_inflight_lock) or wait
  tx,          \* the lock's holder, _tx_done_event and _tx_done_result
  buffer,      \* tx_buffer
  caller,      \* of each caller: what it asks and whether it holds the lock
  response,    \* _expected_response_subcmds and _pending_response
  responses,   \* _response_queue
  pending,     \* _pending_rx_queue
  out,         \* the packet the callback was given last
  modem,       \* its pending transmit, its settings, whether it reports signals
  wire, reply, \* the frames to and from the modem
  count,       \* history: what was asked so far
  credit,      \* history: transmits confirmed by the modem less sends
               \* reported successful
  late, lied,  \* history: a command has timed out; a command was answered
               \* although it was never written
  relapsed     \* history: this opening failed while the modem was configured

sending == <<sender, tx, buffer>>
asking == <<caller, response, responses>>
hearing == <<pending, out>>
lines == <<wire, reply>>
history == <<count, credit, late, lied, relapsed>>
vars == <<link, session, sending, asking, hearing, modem, lines, history>>

Callers == Caller \cup {Reconnector}
Free == [holder |-> None, event |-> FALSE, result |-> "none"]
Quiet == [kind |-> "none", at |-> "idle"]
Unasked == [kind |-> "none", got |-> "none"]

Init ==
  /\ link = "up" /\ session = 1
  /\ sender = [s \in Sender |-> "idle"] /\ tx = Free /\ buffer = <<>>
  /\ caller = [c \in Callers |-> Quiet] /\ response = Unasked /\ responses = <<>>
  /\ pending = <<>> /\ out = [id |-> 0, of |-> 0, meta |-> 0, from |-> 0]
  /\ modem = [tx |-> FALSE, set |-> TRUE, report |-> TRUE]
  /\ wire = <<>> /\ reply = <<>>
  /\ count \in Spent /\ credit = 0
  /\ late = FALSE /\ lied = FALSE /\ relapsed = FALSE

Frame(kind, arg) == [kind |-> kind, arg |-> arg, of |-> session]

-----------------------------------------------------------------------------
(* send_frame_and_wait. *)

(* The checks before the lock; a link that is down refuses at once. *)
SendFrameAndWait(s) ==
  /\ sender[s] = "idle" /\ count.sends < MaxSends /\ link = "up"
  /\ count' = [count EXCEPT !.sends = @ + 1]
  /\ sender' = [sender EXCEPT ![s] = "lock"]
  /\ UNCHANGED <<link, session, tx, buffer, asking, hearing, modem, lines, credit, late, lied, relapsed>>

(* Mutant of Cleared: event and result of the previous send are kept. *)
ClearedNot(s) == [tx EXCEPT !.holder = s]
(* The shared waiter state is cleared once the lock is held. *)
Cleared(s) == [holder |-> s, event |-> FALSE, result |-> "none"]

(* send_frame puts the frame into tx_buffer, or the send fails. *)
SendFrame(s) ==
  /\ sender[s] = "lock" /\ tx.holder = None
  /\ IF link = "up" /\ Len(buffer) < TxBufferSize
     THEN /\ tx' = Cleared(s) /\ buffer' = Append(buffer, s)
          /\ sender' = [sender EXCEPT ![s] = "wait"]
     ELSE /\ tx' = [Cleared(s) EXCEPT !.holder = None]
          /\ sender' = [sender EXCEPT ![s] = "idle"] /\ UNCHANGED buffer
  /\ UNCHANGED <<link, session, asking, hearing, modem, lines, history>>

(* The event is set: TX_DONE decides, or the link was lost. *)
ResolveTxDone(s) ==
  /\ sender[s] = "wait" /\ tx.event
  /\ credit' = IF tx.result = "sent" THEN credit - 1 ELSE credit
  /\ sender' = [sender EXCEPT ![s] = "idle"] /\ tx' = [tx EXCEPT !.holder = None]
  /\ UNCHANGED <<link, session, buffer, asking, hearing, modem, lines, count, late, lied,
                 relapsed>>

(* The deadline passes, or the poll sees the link gone: unconfirmed. *)
SendUnconfirmed(s) ==
  /\ sender[s] = "wait"
  /\ sender' = [sender EXCEPT ![s] = "idle"] /\ tx' = [tx EXCEPT !.holder = None]
  /\ UNCHANGED <<link, session, buffer, asking, hearing, modem, lines, history>>

(* _tx_worker: the oldest frame, whoever still waits for it. *)
TxWorker ==
  /\ link # "down" /\ buffer # <<>>
  /\ buffer' = Tail(buffer) /\ wire' = Append(wire, Frame("data", 0))
  /\ UNCHANGED <<link, session, sender, tx, asking, hearing, modem, reply, history>>

-----------------------------------------------------------------------------
(* _send_command. *)

(* The responses a command accepts: the setters take a plain OK. *)
Acceptable(kind) == {"error", IF kind \in {"set", "signal"} THEN "ok" ELSE "value"}

Ask(c, kind) ==
  /\ caller[c] = Quiet /\ caller' = [caller EXCEPT ![c] = [kind |-> kind, at |-> "lock"]]
  /\ UNCHANGED <<link, session, sending, response, responses, hearing, modem, lines,
                 credit, late, lied, relapsed>>

Asked(c, kind) ==
  /\ link = "up" /\ count.commands < MaxCommands
  /\ count' = [count EXCEPT !.commands = @ + 1]
  /\ Ask(c, kind)

(* set_tx_power and configure_radio; set_signal_report; what is asked of   *)
(* the radio and of the modem's identity.                                  *)
SetRadio(c) == Asked(c, "set")
SetSignalReport(c) == Asked(c, "signal")
Query(c) == Asked(c, "get")
QueryIdentity(c) == Asked(c, "get")

Holds(c) == caller[c].at = "wait"
LockFree == \A c \in Callers : ~Holds(c)

MatchIn(queue, kind) == {i \in DOMAIN queue : queue[i] \in Acceptable(kind)}

(* The reconnect thread takes up the link when its command succeeded. *)
Answered(c, ok) ==
  /\ caller' = [caller EXCEPT ![c] = Quiet]
  /\ link' = IF c # Reconnector THEN link ELSE IF ok THEN "up" ELSE "down"

(* A response that came late answers the command, and nothing is written. *)
UseQueued(c) ==
  LET match == MatchIn(responses, caller[c].kind)
      i == CHOOSE j \in match : \A k \in match : j <= k
  IN  /\ caller[c].at = "lock" /\ LockFree /\ match # {}
      /\ responses' = SubSeq(responses, 1, i - 1) \o SubSeq(responses, i + 1, Len(responses))
      /\ Answered(c, responses[i] # "error")
      /\ lied' = (lied \/ responses[i] = "ok")
      /\ UNCHANGED <<session, sending, response, hearing, modem, lines, count, credit, late,
                     relapsed>>

(* Otherwise the command is written and waits. *)
WriteCommand(c) ==
  /\ caller[c].at = "lock" /\ LockFree /\ MatchIn(responses, caller[c].kind) = {}
  /\ link # "down"
  /\ caller' = [caller EXCEPT ![c].at = "wait"]
  /\ response' = [kind |-> caller[c].kind, got |-> "none"]
  /\ wire' = Append(wire, Frame(caller[c].kind, 0))
  /\ UNCHANGED <<link, session, sending, responses, hearing, modem, reply, history>>

(* The port is closed: the write fails. *)
WriteFails(c) ==
  /\ caller[c].at = "lock" /\ LockFree /\ MatchIn(responses, caller[c].kind) = {}
  /\ link = "down" /\ Answered(c, FALSE)
  /\ UNCHANGED <<session, sending, response, responses, hearing, modem, lines, history>>

CommandReturns(c) ==
  /\ Holds(c) /\ response.got # "none"
  /\ Answered(c, response.got # "error") /\ response' = Unasked
  /\ UNCHANGED <<session, sending, responses, hearing, modem, lines, history>>

CommandTimesOut(c) ==
  /\ Holds(c) /\ Answered(c, FALSE) /\ response' = Unasked /\ late' = TRUE
  /\ UNCHANGED <<session, sending, responses, hearing, modem, lines, count, credit, lied,
                 relapsed>>

-----------------------------------------------------------------------------
(* _process_received_frame: the frame at the head of reply. *)

Received(kinds) == reply # <<>> /\ Head(reply).kind \in kinds /\ reply' = Tail(reply)

TxDone ==
  /\ Received({"done"})
  /\ tx' = [tx EXCEPT !.event = TRUE, !.result = IF Head(reply).arg = 1 THEN "sent" ELSE "failed"]
  /\ UNCHANGED <<link, session, sender, buffer, asking, hearing, modem, wire, history>>

(* TX_BUSY is only noted. *)
TxBusy ==
  /\ Received({"busy"})
  /\ UNCHANGED <<link, session, sending, asking, hearing, modem, wire, history>>

(* Mutant of Filed: every response is queued as well. *)
FiledTwice(kind) ==
  /\ response' = IF response.kind # "none" /\ kind \in Acceptable(response.kind)
                 THEN [response EXCEPT !.got = kind] ELSE response
  /\ responses' = IF Len(responses) < ResponseQueue THEN Append(responses, kind)
                  ELSE Append(Tail(responses), kind)

(* A response goes to the command that expects it, or into the queue. *)
Filed(kind) ==
  IF response.kind # "none" /\ kind \in Acceptable(response.kind)
  THEN response' = [response EXCEPT !.got = kind] /\ UNCHANGED responses
  ELSE /\ responses' = Append(IF Len(responses) < ResponseQueue THEN responses
                              ELSE Tail(responses), kind)
       /\ UNCHANGED response

ResponseReceived ==
  /\ Received({"ok", "value", "error"}) /\ Filed(Head(reply).kind)
  /\ UNCHANGED <<link, session, sending, caller, hearing, modem, wire, history>>

(* A packet waits for its RxMeta, unless the queue is full. *)
DataReceived ==
  /\ Received({"heard"})
  /\ pending' = IF Len(pending) < MaxPendingRx THEN Append(pending, Head(reply)) ELSE pending
  /\ UNCHANGED <<link, session, sending, asking, out, modem, wire, history>>

(* _dispatch_rx_callback. *)
Deliver(f, meta, from) == out' = [id |-> f.arg, of |-> f.of, meta |-> meta, from |-> from]

(* Mutant of RxMeta: the metrics go to the packet heard last. *)
RxMetaNewest ==
  /\ Received({"meta"})
  /\ IF pending = <<>> THEN UNCHANGED <<pending, out>>
     ELSE /\ Deliver(pending[Len(pending)], Head(reply).arg, Head(reply).of)
          /\ pending' = SubSeq(pending, 1, Len(pending) - 1)
  /\ UNCHANGED <<link, session, sending, asking, modem, wire, history>>

(* The oldest packet is delivered with the metrics that have arrived. *)
RxMeta ==
  /\ Received({"meta"})
  /\ IF pending = <<>> THEN UNCHANGED <<pending, out>>
     ELSE /\ Deliver(Head(pending), Head(reply).arg, Head(reply).of)
          /\ pending' = Tail(pending)
  /\ UNCHANGED <<link, session, sending, asking, modem, wire, history>>

(* _flush_expired_rx_frames: the oldest packet is not kept waiting. *)
FlushExpiredRxFrames ==
  /\ pending # <<>> /\ link # "down"
  /\ Deliver(Head(pending), 0, Head(pending).of) /\ pending' = Tail(pending)
  /\ UNCHANGED <<link, session, sending, asking, modem, lines, history>>

-----------------------------------------------------------------------------
(* The link, and the modem (external). *)

(* _mark_serial_failure: a sender that waits is woken without a result.    *)
(* During the handshake the reconnect thread is not told.                  *)
MarkSerialFailure ==
  /\ link # "down" /\ count.drops < MaxDrops
  /\ count' = [count EXCEPT !.drops = @ + 1]
  /\ link' = "down" /\ tx' = [tx EXCEPT !.event = TRUE]
  /\ wire' = <<>> /\ reply' = <<>>
  /\ modem' \in {modem, [tx |-> FALSE, set |-> FALSE, report |-> TRUE]}
  /\ relapsed' = (relapsed \/ link = "opening")
  /\ UNCHANGED <<session, sender, buffer, asking, hearing, credit, late, lied>>

ClearPendingRx == pending' = <<>>

(* _open_serial_and_start_threads and the handshake's SET_RADIO, once the  *)
(* reconnect thread has finished with the attempt before.                  *)
OpenSerial ==
  /\ link = "down" /\ caller[Reconnector] = Quiet /\ session < MaxSessions
  /\ link' = "opening" /\ session' = session + 1 /\ ClearPendingRx
  /\ wire' = <<>> /\ reply' = <<>> /\ relapsed' = FALSE
  /\ caller' = [caller EXCEPT ![Reconnector] = [kind |-> "set", at |-> "lock"]]
  /\ UNCHANGED <<sending, response, responses, out, modem, count, credit, late, lied>>

ModemTakesData ==
  /\ wire # <<>> /\ Head(wire).kind = "data" /\ wire' = Tail(wire)
  /\ IF modem.tx THEN reply' = Append(reply, Frame("busy", 0)) /\ UNCHANGED modem
     ELSE modem' = [modem EXCEPT !.tx = TRUE] /\ UNCHANGED reply
  /\ UNCHANGED <<link, session, sending, asking, hearing, history>>

(* Its TX_DONE is lost when the host is away or the queue to it is full. *)
ModemTransmits ==
  /\ modem.tx /\ modem' = [modem EXCEPT !.tx = FALSE]
  /\ \E ok \in {0, 1} :
       /\ reply' \in {reply} \cup (IF link = "down" THEN {} ELSE {Append(reply, Frame("done", ok))})
       /\ credit' = credit + ok
  /\ UNCHANGED <<link, session, sending, asking, hearing, wire, count, late, lied, relapsed>>

ModemObeys ==
  /\ wire # <<>> /\ Head(wire).kind # "data" /\ wire' = Tail(wire)
  /\ LET kind == Head(wire).kind
     IN  \/ /\ modem' = [modem EXCEPT !.set = @ \/ kind = "set",
                                      !.report = IF kind = "signal" THEN ~@ ELSE @]
            /\ reply' = Append(reply, Frame(IF kind = "get" THEN "value" ELSE "ok", 0))
         \/ reply' = Append(reply, Frame("error", 0)) /\ UNCHANGED modem
  /\ UNCHANGED <<link, session, sending, asking, hearing, history>>

(* The RxMeta follows the packet, unless reports are off or the modem's    *)
(* queue to the host is full.                                              *)
ModemHears ==
  /\ link # "down" /\ count.heard < MaxHeard
  /\ count' = [count EXCEPT !.heard = @ + 1]
  /\ \E report \in {modem.report, FALSE} :
       LET id == count.heard + 1
       IN  reply' = reply \o <<Frame("heard", id)>>
                          \o (IF report THEN <<Frame("meta", id)>> ELSE <<>>)
  /\ UNCHANGED <<link, session, sending, asking, hearing, modem, wire, credit, late, lied,
                 relapsed>>

-----------------------------------------------------------------------------
Sends == \E s \in Sender : SendFrameAndWait(s)
SendSteps == TxWorker \/ \E s \in Sender : SendFrame(s) \/ ResolveTxDone(s) \/ SendUnconfirmed(s)
Asks == \E c \in Caller : SetRadio(c) \/ SetSignalReport(c) \/ Query(c) \/ QueryIdentity(c)
AskSteps ==
  \E c \in Callers : \/ UseQueued(c) \/ WriteCommand(c) \/ WriteFails(c)
                     \/ CommandReturns(c) \/ CommandTimesOut(c)
RxWorker ==
  TxDone \/ TxBusy \/ ResponseReceived \/ DataReceived \/ RxMeta \/ FlushExpiredRxFrames
Modem == ModemTakesData \/ ModemTransmits \/ ModemObeys \/ ModemHears

Next ==
  Sends \/ SendSteps \/ Asks \/ AskSteps \/ RxWorker \/ Modem \/ MarkSerialFailure \/ OpenSerial

(* The workers run, deadlines pass and the modem answers what it is asked; *)
(* the reconnect thread opens the port again.                              *)
Fairness ==
  /\ WF_vars(SendSteps) /\ WF_vars(AskSteps) /\ WF_vars(RxWorker) /\ WF_vars(OpenSerial)
  /\ WF_vars(ModemTakesData \/ ModemObeys) /\ WF_vars(ModemTransmits)

Spec == Init /\ [][Next]_vars /\ Fairness

-----------------------------------------------------------------------------
(* A send is reported successful at most once per transmit the modem has   *)
(* confirmed: the event is cleared under the lock before each send, and a  *)
(* lost link wakes the sender with no result.                              *)
ConfirmedOnce == credit >= 0

(* Packets reach the callback in the order they were heard, each once,     *)
(* whether their RxMeta comes or is given up.                              *)
InArrivalOrder == [][out' # out => out'.id > out.id]_vars

(* As long as no command has timed out, none is answered by a response     *)
(* that was not for it, and a link that is up again after a failure has    *)
(* its modem configured: responses are filed by what the waiting command   *)
(* accepts, and the reconnect thread takes the link up only when its       *)
(* SET_RADIO was answered.  (It does so as well when the link fails again  *)
(* between that answer and the end of the handshake, for the failure       *)
(* cannot take the connection lock: the next opening makes it good.)       *)
AnsweredIfAsked == ~late => ~lied /\ (link = "up" /\ ~relapsed => modem.set)

=============================================================================
