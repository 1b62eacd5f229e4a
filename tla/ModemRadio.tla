----------------------------- MODULE ModemRadio -----------------------------
(***************************************************************************)
(* The radio of a host that drives an openHop modem over TCP               *)
(* (hardware/tcp_radio.py) or over USB (hardware/usb_radio.py).  The two   *)
(* drivers are one program up to how they attach, so one module models     *)
(* both; usb tells which one runs.                                         *)
(*                                                                         *)
(* Three kinds of thread meet here: the event loop, where sends, scans and *)
(* pushed settings take turns at _command_lock; the RX worker, which reads *)
(* the link, hands answers to the command that waits and re-attaches after *)
(* a drop; and the threads that call the setters.  An answer names only    *)
(* the command byte it answers.  A settings tuple is a number (0: the      *)
(* modem's own), a deadline is a flag that is raised at some time, and the *)
(* packets heard, which go straight to the callback, are left out.         *)
(***************************************************************************)
EXTENDS Integers, Sequences

CONSTANTS
  Tuple,                          \* settings tuples, numbers above 0
  MaxSends, MaxSets, MaxDrops,    \* bounds on sends, setter calls, link drops
  Spent,                          \* what of these bounds is spent at the start
  MaxQueue, MaxFrames             \* bounds on the commands waiting, and on the
                                  \* frames the modem may leave unanswered

(* What is assumed of the constants.                                       *)
ModemAssumption ==
  /\ Tuple \subseteq Nat \ {0}
  /\ MaxSends \in Nat /\ MaxSets \in Nat /\ MaxDrops \in Nat /\ MaxQueue \in Nat
  /\ MaxFrames \in Nat
  /\ Spent \subseteq [sends : Nat, sets : Nat, drops : Nat, credit : {0}]

VARIABLES
  usb,            \* TRUE: usb_radio.py, FALSE: tcp_radio.py
  initialized, stop,
  handle,         \* _sock is not None / _serial is open
  connected,      \* _connected_event (usb only)
  linked,         \* the modem is at the other end of the handle
  worker,         \* where the RX worker stands
  packed,         \* the tuple a handshake has packed and not yet written
  want,           \* the settings in memory
  modem,          \* the settings in force in the modem
  up, down,       \* the frames on the link
  queue,          \* the commands at _command_lock; the first one holds it
  answer,         \* what _response_events and _response_data hold of it
  error,          \* _last_modem_error is ERR_CHANNEL_BUSY
  send,           \* the task in send: where it stands, its deadline, TX_DONE
  tune,           \* the tuple perform_cad was asked for, 0 if it is idle
  closing,        \* cleanup is waiting for the RX worker
  tally,          \* history: sends, setter calls and drops so far, and credit:
                  \* packets transmitted less sends reported successful
  crossed, raced  \* history: see Writes and TcpSetConfig

link == <<handle, connected, linked, up, down>>
commands == <<queue, answer, error>>
tasks == <<send, tune>>
past == <<tally, crossed, raced>>
life == <<usb, initialized, stop, closing>>
vars == <<life, link, worker, packed, want, modem, commands, tasks, past>>

Idle == [at |-> "idle", late |-> FALSE, done |-> FALSE]
Unanswered == [state |-> "queued", mine |-> FALSE]

Init ==
  /\ usb \in BOOLEAN
  /\ initialized = FALSE /\ stop = FALSE /\ closing = FALSE
  /\ handle = FALSE /\ connected = FALSE /\ linked = FALSE
  /\ up = <<>> /\ down = <<>>
  /\ worker = "none" /\ packed = 0
  /\ want = [cfg |-> 1, cad |-> 0] /\ modem = [cfg |-> 0, cad |-> 0]
  /\ queue = <<>> /\ answer = Unanswered /\ error = FALSE
  /\ send = Idle /\ tune = 0
  /\ tally \in Spent
  /\ crossed = FALSE /\ raced = FALSE

-----------------------------------------------------------------------------
(* Life cycle. *)

Configured == [want EXCEPT !.cad = IF @ = 0 THEN modem.cad ELSE @]

Attached ==
  /\ handle' = TRUE /\ connected' = usb /\ linked' = TRUE
  /\ modem' = Configured /\ worker' = "read" /\ initialized' = TRUE

Deferred ==
  /\ worker' = "read" /\ initialized' = TRUE
  /\ UNCHANGED <<handle, connected, linked, modem>>

BeginAny ==
  /\ ~initialized /\ ~closing /\ worker = "none"
  /\ stop' = FALSE /\ up' = <<>> /\ down' = <<>>
  /\ UNCHANGED <<usb, closing, packed, want, commands, tasks, past>>

(* tcp_radio.begin: the RX worker starts even when the modem is away. *)
TcpBegin == ~usb /\ BeginAny /\ (Attached \/ Deferred)

(* usb_radio.begin: fails for good when the modem is away. *)
UsbBegin == usb /\ BeginAny /\ Attached

(* cleanup up to join; the queued commands see no handle later on. *)
CleanupAny ==
  /\ initialized
  /\ initialized' = FALSE /\ stop' = TRUE /\ closing' = TRUE /\ connected' = FALSE
  /\ UNCHANGED <<usb, handle, linked, up, down, worker, packed, want, modem,
                 commands, tasks, past>>

TcpCleanup == ~usb /\ CleanupAny
UsbCleanup == usb /\ CleanupAny

(* join returned, or its two seconds passed: the handle is closed. *)
CleanupCloses ==
  /\ closing /\ closing' = FALSE
  /\ handle' = FALSE /\ linked' = FALSE /\ up' = <<>> /\ down' = <<>>
  /\ UNCHANGED <<usb, initialized, stop, connected, worker, packed, want, modem,
                 commands, tasks, past>>

(* The link breaks because the modem reboots.  The host does not know. *)
LinkDrops ==
  /\ linked /\ tally.drops < MaxDrops
  /\ linked' = FALSE /\ up' = <<>> /\ down' = <<>>
  /\ modem' = [cfg |-> 0, cad |-> 0]
  /\ tally' = [tally EXCEPT !.drops = @ + 1]
  /\ UNCHANGED <<life, handle, connected, worker, packed, want, commands, tasks,
                 crossed, raced>>

-----------------------------------------------------------------------------
(* The RX worker: re-attaching. *)

(* Mutant of Detached: the receive buffer survives the link. *)
DetachedKeepsBuffer ==
  /\ handle' = FALSE /\ linked' = FALSE /\ up' = <<>>
  /\ down' = [i \in DOMAIN down |-> [down[i] EXCEPT !.mine = FALSE]]

Detached == handle' = FALSE /\ linked' = FALSE /\ up' = <<>> /\ down' = <<>>

HostOnly == <<life, want, commands, tasks>>

(* Mutant of TcpLinkLost: the RX worker ends when the peer closes. *)
TcpLinkLostForGood ==
  /\ ~usb /\ worker = "read" /\ ~stop /\ ~(handle /\ linked)
  /\ Detached /\ worker' = "none"
  /\ UNCHANGED <<HostOnly, connected, packed, modem, past>>

(* A read fails, or the socket was taken away: begin to re-attach. *)
TcpLinkLost ==
  /\ ~usb /\ worker = "read" /\ ~stop /\ ~(handle /\ linked)
  /\ Detached /\ worker' = "backoff"
  /\ UNCHANGED <<HostOnly, connected, packed, modem, past>>

UsbLinkLost ==
  /\ usb /\ worker = "read" /\ ~stop /\ handle /\ ~linked
  /\ Detached /\ connected' = FALSE /\ worker' = "backoff"
  /\ UNCHANGED <<HostOnly, packed, modem, past>>

WorkerExits ==
  /\ stop /\ worker \in {"read", "backoff"} /\ worker' = "none"
  /\ UNCHANGED <<HostOnly, link, packed, modem, past>>

(* An attempt reaches the modem.  For TCP the socket is visible to every   *)
(* command from now on; for USB _connected_event is still clear.           *)
Reopens ==
  /\ worker = "backoff" /\ ~stop
  /\ handle' = TRUE /\ linked' = TRUE /\ up' = <<>> /\ UNCHANGED down
  /\ crossed' = (queue # <<>> /\ answer.state # "queued")
  /\ UNCHANGED <<HostOnly, connected, packed, modem, tally, raced>>

TcpReopenSocket == ~usb /\ Reopens /\ worker' = "hello"
UsbReconnectSerial == usb /\ Reopens /\ worker' = "config"

(* Mutant of TcpHello: a re-attached modem is taken to be configured. *)
TcpHelloSkipsConfig ==
  /\ worker = "hello" /\ handle /\ linked /\ worker' = "cad"
  /\ down' = IF down = <<>> THEN down ELSE Tail(down)
  /\ UNCHANGED <<HostOnly, handle, connected, linked, up, packed, modem, past>>

(* _auth_sync and _ping_sync read one frame each. *)
TcpHello ==
  /\ worker = "hello" /\ handle /\ linked /\ worker' = "config"
  /\ down' = IF down = <<>> THEN down ELSE Tail(down)
  /\ UNCHANGED <<HostOnly, handle, connected, linked, up, packed, modem, past>>

(* The commands that are still to be written.                              *)
Unsent == IF answer.state = "queued" THEN queue ELSE Tail(queue)
PushWaits == \E i \in DOMAIN Unsent : Unsent[i].kind = "cfg"

(* _apply_config_sync packs the tuple in memory ... *)
PackConfig ==
  /\ worker = "config" /\ packed' = want.cfg /\ worker' = "write"
  /\ raced' = (raced /\ PushWaits)
  /\ UNCHANGED <<HostOnly, link, modem, tally, crossed>>

Frame(kind, arg, mine) == [kind |-> kind, arg |-> arg, mine |-> mine]

(* ... and writes it. *)
WriteConfig ==
  /\ worker = "write" /\ handle /\ linked /\ worker' = "acked"
  /\ up' = Append(up, Frame("cfg", packed, FALSE))
  /\ UNCHANGED <<HostOnly, handle, connected, linked, down, packed, modem, past>>

ReadAs(next) ==
  /\ handle /\ down # <<>> /\ down' = Tail(down) /\ worker' = next
  /\ UNCHANGED <<HostOnly, handle, connected, linked, up, packed, modem, past>>

(* _read_frame_sync waits for the answer and drops every other frame.      *)
ConfigAckAny ==
  /\ worker = "acked" /\ down # <<>>
  /\ \/ Head(down).kind = "cfg" /\ ReadAs("cad")
     \/ Head(down).kind \notin {"cfg", "error"} /\ ReadAs("acked")

TcpReadConfigAck == ~usb /\ ConfigAckAny
UsbReadConfigAck == usb /\ ConfigAckAny

Served ==
  /\ worker' = "read" /\ connected' = usb
  /\ UNCHANGED <<HostOnly, handle, linked, up, down, packed, modem, past>>

(* _apply_cad_config_sync: the cached tuple, if there is one, is written   *)
(* too.                                                                    *)
ApplyCadConfig ==
  /\ worker = "cad"
  /\ IF want.cad = 0 THEN Served
     ELSE /\ handle /\ linked /\ worker' = "cadacked"
          /\ up' = Append(up, Frame("cadp", want.cad, FALSE))
          /\ UNCHANGED <<HostOnly, handle, connected, linked, down, packed, modem, past>>

(* A CAD tuple that is refused or not answered is only logged. *)
ReadCadAck ==
  /\ worker = "cadacked"
  /\ \/ down # <<>> /\ Head(down).kind \notin {"cadp", "error"} /\ ReadAs("cadacked")
     \/ down # <<>> /\ Head(down).kind \in {"cadp", "error"}
        /\ down' = Tail(down) /\ worker' = "read" /\ connected' = usb
        /\ UNCHANGED <<HostOnly, handle, linked, up, packed, modem, past>>
     \/ /\ handle \/ ~usb
        /\ worker' = "read" /\ connected' = usb /\ crossed' = TRUE
        /\ UNCHANGED <<HostOnly, handle, linked, up, down, packed, modem, tally, raced>>

Handshake == {"hello", "config", "write", "acked", "cad", "cadacked"}

(* A step of the handshake finds the link gone, is refused or runs out of  *)
(* time.                                                                   *)
HandshakeFails ==
  /\ worker \in Handshake
  /\ \/ ~(handle /\ linked) /\ UNCHANGED tally
     \/ worker = "acked" /\ down # <<>> /\ Head(down).kind = "error" /\ UNCHANGED tally
     \/ tally.drops < MaxDrops /\ tally' = [tally EXCEPT !.drops = @ + 1]
  /\ Detached /\ connected' = FALSE /\ worker' = "backoff"
  /\ UNCHANGED <<HostOnly, packed, modem, crossed, raced>>

-----------------------------------------------------------------------------
(* The modem (external): answers the frames in the order they came.  It    *)
(* may refuse a packet for a busy channel; settings are valid ones.        *)

Answers(f) ==
  CASE f.kind = "tx"  -> {Frame("tx", 1, f.mine), Frame("fail", 0, f.mine),
                          Frame("error", 1, f.mine)}
    [] f.kind = "cad" -> {Frame("cad", b, f.mine) : b \in {0, 1}}
    [] OTHER          -> {Frame(f.kind, 0, f.mine)}

ModemAnswers ==
  /\ linked /\ up # <<>> /\ up' = Tail(up)
  /\ LET f == Head(up) IN
     \E a \in Answers(f) :
       /\ down' = Append(down, a)
       /\ modem' = CASE f.kind = "cfg"  -> [modem EXCEPT !.cfg = f.arg]
                     [] f.kind = "cadp" -> [modem EXCEPT !.cad = f.arg]
                     [] OTHER           -> modem
       /\ tally' = IF a.kind = "tx" THEN [tally EXCEPT !.credit = @ + 1] ELSE tally
  /\ UNCHANGED <<life, handle, connected, linked, worker, packed, want, commands,
                 tasks, crossed, raced>>

-----------------------------------------------------------------------------
(* _send_command. *)

Command(by, kind, arg) == [by |-> by, kind |-> kind, arg |-> arg]

Quiet == <<life, want, modem, worker, packed>>

(* The command at the head holds the lock: it finds the link unusable, its *)
(* write fails, or its frame is on the link and it waits.                  *)
Blocked == IF usb THEN ~(connected /\ handle) ELSE ~handle
Writes ==
  /\ Len(up) + Len(down) < MaxFrames
  /\ answer' = [state |-> "out", mine |-> FALSE]
  /\ up' = IF linked THEN Append(up, Frame(Head(queue).kind, Head(queue).arg, TRUE)) ELSE up
  /\ crossed' = (crossed \/ worker # "read")
  /\ UNCHANGED <<Quiet, handle, connected, linked, down, queue, error, tasks, tally, raced>>

AtLock == queue # <<>> /\ answer.state = "queued"

TcpSendCommand == ~usb /\ AtLock /\ ~Blocked /\ Writes
UsbSendCommand == usb /\ AtLock /\ ~Blocked /\ Writes

(* What the caller does with the outcome, up to its next await. *)
Release(more) == queue' = Tail(queue) \o more /\ answer' = Unanswered

SendReturns(ok) ==
  /\ send' = Idle
  /\ tally' = IF ok THEN [tally EXCEPT !.credit = @ - 1] ELSE tally

(* send, from its CAD loop to RX_START: r is "busy", "ok", "none" or, over *)
(* USB, "raised".                                                          *)
SendAfterCad(r) ==
  IF r = "busy" /\ ~send.late
  THEN Release(<<>>) /\ send' = [send EXCEPT !.at = "nap"] /\ UNCHANGED <<tally, error>>
  ELSE /\ Release(<<Command("send", "tx", 0)>>) /\ error' = FALSE
       /\ send' = [send EXCEPT !.at = "tx"] /\ UNCHANGED tally

SendAfterTx(r) ==
  /\ UNCHANGED error
  /\ CASE r = "raised" -> Release(<<>>) /\ SendReturns(FALSE)
       [] r = "none" /\ error /\ ~send.late ->
            Release(<<>>) /\ send' = [send EXCEPT !.at = "retry"] /\ UNCHANGED tally
       [] OTHER -> /\ Release(<<Command("send", "rxs", 0)>>) /\ UNCHANGED tally
                   /\ send' = [send EXCEPT !.at = "rxs", !.done = (r = "ok")]

SendAfterRx(r) ==
  Release(<<>>) /\ SendReturns(send.done /\ r # "raised") /\ UNCHANGED error

AfterCommand(c, r) ==
  CASE c.by = "send" ->
         /\ CASE c.kind = "cad" -> SendAfterCad(r)
              [] c.kind = "tx"  -> SendAfterTx(r)
              [] OTHER          -> SendAfterRx(r)
         /\ UNCHANGED <<want, tune>>
    [] c.by = "tune" ->
         IF c.kind = "cadp" /\ r # "raised"
         THEN /\ Release(<<Command("tune", "cad", 0)>>)
              /\ want' = [want EXCEPT !.cad = c.arg]
              /\ UNCHANGED <<send, tune, tally, error>>
         ELSE Release(<<>>) /\ tune' = 0 /\ UNCHANGED <<want, send, tally, error>>
    [] OTHER -> Release(<<>>) /\ UNCHANGED <<want, send, tune, tally, error>>

Returns(r) ==
  /\ AfterCommand(Head(queue), r)
  /\ UNCHANGED <<life, handle, connected, linked, worker, packed, modem, raced>>

Stale(s) == [i \in DOMAIN s |-> [s[i] EXCEPT !.mine = FALSE]]

(* No usable link: None at once. *)
CommandRefused == AtLock /\ Blocked /\ Returns("none") /\ UNCHANGED <<up, down, crossed>>

(* The write fails: logged over TCP, raised to the caller over USB. *)
WriteFails ==
  /\ AtLock /\ ~Blocked /\ ~linked
  /\ Returns(IF usb THEN "raised" ELSE "none") /\ UNCHANGED <<up, down, crossed>>

CommandAnswered ==
  /\ queue # <<>> /\ answer.state \in {"ok", "busy", "none"}
  /\ Returns(answer.state) /\ UNCHANGED <<up, down, crossed>>

(* wait_for times out, also when the answer came a moment ago. *)
CommandTimesOut ==
  /\ queue # <<>> /\ answer.state # "queued"
  /\ Returns("none")
  /\ up' = Stale(up) /\ down' = Stale(down) /\ crossed' = TRUE

-----------------------------------------------------------------------------
(* _dispatch_frame, in the RX worker. *)

(* The RX worker has parsed a whole frame; what fails its CRC never counts *)
(* as one.                                                                 *)
FrameRead == worker = "read" /\ ~stop /\ handle /\ down # <<>> /\ down' = Tail(down)

(* _perform_cad: what the answer to a scan says; no answer is taken for    *)
(* a clear channel by the callers.                                         *)
Verdict(f) == IF f.kind = "cad" /\ f.arg = 1 THEN "busy" ELSE "ok"

Given(state, f) == answer' = [state |-> state, mine |-> f.mine]

DispatchAny ==
  /\ FrameRead
  /\ LET f == Head(down)
         waiting == queue # <<>> /\ answer.state # "queued"
     IN  /\ error' = IF f.kind = "error" THEN f.arg = 1 ELSE error
         /\ CASE waiting /\ f.kind = "error" -> Given("none", f)
              [] waiting /\ f.kind = "fail" /\ Head(queue).kind = "tx" -> Given("none", f)
              [] waiting /\ f.kind = Head(queue).kind -> Given(Verdict(f), f)
              [] OTHER -> UNCHANGED answer
  /\ UNCHANGED <<Quiet, handle, connected, linked, up, queue, tasks, past>>

TcpDispatchFrame == ~usb /\ DispatchAny
UsbDispatchFrame == usb /\ DispatchAny

-----------------------------------------------------------------------------
(* What the callers do. *)

Room == Len(queue) < MaxQueue
Enqueue(by, kind, arg) == queue' = Append(queue, Command(by, kind, arg)) /\ UNCHANGED answer

(* send: with LBT a scan first, without it the packet. *)
SendAny ==
  /\ initialized /\ send.at = "idle" /\ Room /\ tally.sends < MaxSends
  /\ tally' = [tally EXCEPT !.sends = @ + 1]
  /\ \/ /\ Enqueue("send", "cad", 0) /\ send' = [Idle EXCEPT !.at = "cad"] /\ UNCHANGED error
     \/ /\ Enqueue("send", "tx", 0) /\ send' = [Idle EXCEPT !.at = "tx"] /\ error' = FALSE
  /\ UNCHANGED <<Quiet, link, tune, crossed, raced>>

TcpSend == ~usb /\ SendAny
UsbSend == usb /\ SendAny

(* The LBT budget of the send runs out. *)
BudgetEnds ==
  /\ send.at # "idle" /\ ~send.late /\ send' = [send EXCEPT !.late = TRUE]
  /\ UNCHANGED <<Quiet, link, commands, tune, past>>

(* A backoff ends: scan or transmit again, or stop scanning. *)
SendWakes ==
  /\ \/ /\ send.at = "nap" /\ ~send.late /\ Enqueue("send", "cad", 0)
        /\ send' = [send EXCEPT !.at = "cad"] /\ UNCHANGED error
     \/ /\ send.at = "nap" /\ send.late /\ Enqueue("send", "tx", 0)
        /\ send' = [send EXCEPT !.at = "tx"] /\ error' = FALSE
     \/ /\ send.at = "retry" /\ Enqueue("send", "tx", 0)
        /\ send' = [send EXCEPT !.at = "tx"] /\ error' = FALSE
  /\ UNCHANGED <<Quiet, link, tune, past>>

Setting == tally.sets < MaxSets /\ Room /\ tally' = [tally EXCEPT !.sets = @ + 1]

(* set_frequency and the like, over TCP pushed live. *)
Pushes(kind, arg) ==
  IF initialized THEN Enqueue("push", kind, arg) ELSE UNCHANGED <<queue, answer>>

TcpSetConfig(v) ==
  /\ ~usb /\ Setting /\ want' = [want EXCEPT !.cfg = v] /\ Pushes("cfg", v)
  /\ raced' = (raced \/ worker = "write" \/ (~initialized /\ PushWaits))
  /\ UNCHANGED <<life, modem, worker, packed, link, error, tasks, crossed>>

UsbSetConfig(v) ==
  /\ usb /\ Setting /\ want' = [want EXCEPT !.cfg = v]
  /\ UNCHANGED <<life, modem, worker, packed, link, commands, tasks, crossed, raced>>

(* set_custom_cad_thresholds, set_custom_cad_symbol_num. *)
SetCadAny(v) ==
  /\ Setting /\ want' = [want EXCEPT !.cad = v] /\ Pushes("cadp", v)
  /\ UNCHANGED <<life, modem, worker, packed, link, error, tasks, crossed, raced>>

TcpSetCad(v) == ~usb /\ SetCadAny(v)
UsbSetCad(v) == usb /\ SetCadAny(v)

(* clear_custom_cad_thresholds. *)
ClearCad ==
  /\ Setting /\ want.cad # 0 /\ want' = [want EXCEPT !.cad = 0]
  /\ UNCHANGED <<life, modem, worker, packed, link, commands, tasks, crossed, raced>>

(* perform_cad with thresholds: pushed first, unless they are the cached   *)
(* ones.  The cache follows whatever became of the push.                   *)
PerformCadAny(v) ==
  /\ initialized /\ Setting /\ tune = 0 /\ tune' = v
  /\ IF v # want.cad THEN Enqueue("tune", "cadp", v) ELSE Enqueue("tune", "cad", 0)
  /\ UNCHANGED <<Quiet, link, error, send, crossed, raced>>

TcpPerformCad(v) == ~usb /\ PerformCadAny(v)
UsbPerformCad(v) == usb /\ PerformCadAny(v)

(* set_tcp_target: another modem, through the RX worker. *)
TcpSetTarget ==
  /\ ~usb /\ Setting /\ Detached /\ modem' = [cfg |-> 0, cad |-> 0]
  /\ UNCHANGED <<life, connected, worker, packed, want, commands, tasks, crossed, raced>>

(* check_radio_health: metrics are asked for behind the other commands.    *)
HealthAny ==
  /\ initialized /\ Setting /\ Enqueue("push", "get", 0)
  /\ UNCHANGED <<Quiet, link, error, tasks, crossed, raced>>

TcpCheckRadioHealth == ~usb /\ HealthAny
UsbCheckRadioHealth == usb /\ connected /\ HealthAny

-----------------------------------------------------------------------------
Worker ==
  \/ TcpLinkLost \/ UsbLinkLost \/ WorkerExits \/ TcpReopenSocket \/ UsbReconnectSerial
  \/ TcpHello \/ PackConfig \/ WriteConfig \/ TcpReadConfigAck \/ UsbReadConfigAck \/ ApplyCadConfig
  \/ ReadCadAck \/ HandshakeFails \/ TcpDispatchFrame \/ UsbDispatchFrame

LockHolder ==
  \/ TcpSendCommand \/ UsbSendCommand \/ CommandRefused \/ WriteFails
  \/ CommandAnswered \/ CommandTimesOut

Loop == LockHolder \/ BudgetEnds \/ SendWakes

Calls ==
  \/ TcpBegin \/ UsbBegin \/ TcpCleanup \/ UsbCleanup \/ CleanupCloses
  \/ TcpSend \/ UsbSend \/ ClearCad \/ TcpSetTarget
  \/ TcpCheckRadioHealth \/ UsbCheckRadioHealth
  \/ \E v \in Tuple : \/ TcpSetConfig(v) \/ UsbSetConfig(v) \/ TcpSetCad(v)
                      \/ UsbSetCad(v) \/ TcpPerformCad(v) \/ UsbPerformCad(v)

Next == Worker \/ Loop \/ Calls \/ ModemAnswers \/ LinkDrops

(* The threads run, the timeouts of the code pass, the modem answers and   *)
(* is reachable again after each of the bounded drops.                     *)
Fairness ==
  /\ WF_vars(Worker) /\ WF_vars(ModemAnswers) /\ WF_vars(CleanupCloses)
  /\ WF_vars(BudgetEnds) /\ WF_vars(SendWakes)
  /\ WF_vars(LockHolder)

Spec == Init /\ [][Next]_vars /\ Fairness

-----------------------------------------------------------------------------
Serving == initialized /\ worker = "read" /\ handle /\ linked /\ (usb => connected)
Quiescent == Serving /\ queue = <<>> /\ up = <<>>

(* Over a connection on which no command has timed out, and none was sent  *)
(* during the handshake, a command is answered by the modem's answer to    *)
(* that very frame: _command_lock keeps two commands with the same answer  *)
(* byte from taking each other's.                                          *)
AnswersItsOwn == answer.state \in {"ok", "busy"} /\ ~crossed => answer.mine

(* Once the link serves and nothing is on its way, a TCP modem runs the    *)
(* radio settings in memory, whenever they were set: before the link was   *)
(* up, while it was down, or behind another command.  Excepted is a setter *)
(* that runs between the handshake packing its tuple and writing it, or    *)
(* after cleanup with an earlier push still waiting for _command_lock: it  *)
(* is not pushed itself, and the earlier one goes out after the next begin *)
(* has applied the settings in memory.                                     *)
ConfigInForce == Quiescent /\ ~usb /\ ~raced => modem.cfg = want.cfg

(* After every drop, target change and failed handshake the radio serves   *)
(* again, unless it is cleaned up.                                         *)
Recovers == initialized ~> Serving \/ ~initialized

=============================================================================
