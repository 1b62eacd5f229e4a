-------------------------- MODULE ModemRadioProofs --------------------------
(* The modem radios: answers go to the command that asked, and the modem   *)
(* runs the settings in memory.                                            *)
EXTENDS ModemRadios, TLAPS

\* Leaves are tried with Zenon first and then with the SMT solver.
USE ZenonT(2), SMTT(20), ZenonT(20)

Kinds == {"cfg", "cadp", "tx", "cad", "rxs", "get", "fail", "error"}
Frames == [kind : Kinds, arg : Nat, mine : BOOLEAN]
Commands == [by : {"send", "tune", "push"}, kind : Kinds, arg : Nat]
Places == {"none", "read", "backoff"} \cup Radio!Handshake

Empty == up = <<>> /\ down = <<>>

(* Types, and how the life cycle, the worker and the handle go together.   *)
Shape ==
  /\ up \in Seq(Frames) /\ down \in Seq(Frames) /\ queue \in Seq(Commands)
  /\ answer \in [state : {"queued", "out", "ok", "busy", "none"}, mine : BOOLEAN]
  /\ queue = <<>> => answer.state = "queued"
  /\ worker \in Places /\ packed \in Nat
  /\ want \in [cfg : Nat, cad : Nat] /\ radioModem \in [cfg : Nat, cad : Nat]
  /\ worker = "backoff" => ~handle /\ Empty
  /\ worker # "none" => initialized \/ stop
  /\ handle => initialized \/ closing

-----------------------------------------------------------------------------
(* What an action does to the queue.                                       *)
LEMMA Frames1 ==
  ASSUME NEW kind \in Kinds, NEW arg \in Nat, NEW mine \in BOOLEAN
  PROVE  /\ Radio!Frame(kind, arg, mine) \in Frames
         /\ Radio!Frame(kind, arg, mine).kind = kind /\ Radio!Frame(kind, arg, mine).arg = arg
         /\ Radio!Frame(kind, arg, mine).mine = mine
  BY DEF Radio!Frame, Frames

LEMMA Commands1 ==
  ASSUME NEW by \in {"send", "tune", "push"}, NEW kind \in Kinds, NEW arg \in Nat
  PROVE  /\ Radio!Command(by, kind, arg) \in Commands
         /\ Radio!Command(by, kind, arg).kind = kind /\ Radio!Command(by, kind, arg).arg = arg
  BY DEF Radio!Command, Commands

(* A call that only queues a command, not a cfg one, and leaves the link   *)
(* alone.                                                                  *)
Queues ==
  /\ \/ queue' = queue
     \/ \E c \in Commands : c.kind # "cfg" /\ queue' = Append(queue, c)
  /\ answer' = answer /\ want'.cfg = want.cfg /\ want' \in [cfg : Nat, cad : Nat]
  /\ UNCHANGED <<usb, stop, closing, initialized, handle, linked, up, down, worker, packed,
                 radioModem, crossed, raced>>

LEMMA CallsQueue ==
  ASSUME Shape,
         \/ Radio!BudgetEnds \/ Radio!SendWakes \/ Radio!TcpSend \/ Radio!UsbSend \/ Radio!ClearCad
         \/ Radio!TcpCheckRadioHealth \/ Radio!UsbCheckRadioHealth
         \/ \E v \in Tuple : Radio!TcpSetCad(v) \/ Radio!UsbSetCad(v) \/ Radio!TcpPerformCad(v) \/ Radio!UsbPerformCad(v)
  PROVE  Queues
<1>1. ASSUME NEW by \in {"send", "tune", "push"}, NEW kind \in Kinds \ {"cfg"}, NEW arg \in Nat,
             Radio!Enqueue(by, kind, arg)
      PROVE  /\ answer' = answer
             /\ \E c \in Commands : c.kind # "cfg" /\ queue' = Append(queue, c)
  BY <1>1, Commands1 DEF Radio!Enqueue
<1>2. want \in [cfg : Nat, cad : Nat]
  BY DEF Shape
<1>3. CASE Radio!BudgetEnds
  BY <1>2, <1>3
    DEF Radio!BudgetEnds, Radio!Quiet, Radio!link, Radio!commands, Radio!past, Radio!life, Queues
<1>4. CASE Radio!SendWakes
  <2>1. Radio!Enqueue("send", "cad", 0) \/ Radio!Enqueue("send", "tx", 0)
    BY <1>4 DEF Radio!SendWakes
  <2>2. answer' = answer /\ \E c \in Commands : c.kind # "cfg" /\ queue' = Append(queue, c)
    BY <1>1, <2>1 DEF Kinds
  <2> QED BY <1>2, <1>4, <2>2
      DEF Radio!SendWakes, Radio!Quiet, Radio!link, Radio!past, Radio!life, Queues
<1>5. CASE Radio!TcpSend \/ Radio!UsbSend
  <2>1. Radio!Enqueue("send", "cad", 0) \/ Radio!Enqueue("send", "tx", 0)
    BY <1>5 DEF Radio!TcpSend, Radio!UsbSend, Radio!SendAny
  <2>2. answer' = answer /\ \E c \in Commands : c.kind # "cfg" /\ queue' = Append(queue, c)
    BY <1>1, <2>1 DEF Kinds
  <2> QED BY <1>2, <1>5, <2>2 DEF Radio!TcpSend, Radio!UsbSend, Radio!SendAny, Radio!Quiet,
        Radio!link, Radio!life, Queues
<1>6. CASE Radio!ClearCad
  <2>1. want' = [want EXCEPT !.cad = 0]
    BY <1>6 DEF Radio!ClearCad
  <2>2. want'.cfg = want.cfg /\ want' \in [cfg : Nat, cad : Nat]
    BY <1>2, <2>1
  <2> QED BY <1>6, <2>2 DEF Radio!ClearCad, Radio!link, Radio!commands, Radio!life, Queues
<1>7. CASE Radio!TcpCheckRadioHealth \/ Radio!UsbCheckRadioHealth
  <2>1. Radio!Enqueue("push", "get", 0)
    BY <1>7 DEF Radio!TcpCheckRadioHealth, Radio!UsbCheckRadioHealth, Radio!HealthAny
  <2>2. answer' = answer /\ \E c \in Commands : c.kind # "cfg" /\ queue' = Append(queue, c)
    BY <1>1, <2>1 DEF Kinds
  <2> QED BY <1>2, <1>7, <2>2
          DEF Radio!TcpCheckRadioHealth, Radio!UsbCheckRadioHealth, Radio!HealthAny, Radio!Quiet,
              Radio!link, Radio!life, Queues
<1>8. ASSUME NEW v \in Tuple, Radio!TcpSetCad(v) \/ Radio!UsbSetCad(v) PROVE Queues
  <2>1. v \in Nat
    BY RadioGiven DEF Radio!ModemAssumption
  <2>2. /\ want' = [want EXCEPT !.cad = v]
        /\ Radio!Enqueue("push", "cadp", v) \/ UNCHANGED <<queue, answer>>
    BY <1>8 DEF Radio!TcpSetCad, Radio!UsbSetCad, Radio!SetCadAny, Radio!Pushes
  <2>3. /\ answer' = answer
        /\ queue' = queue \/ \E c \in Commands : c.kind # "cfg" /\ queue' = Append(queue, c)
    BY <1>1, <2>1, <2>2 DEF Kinds
  <2>4. want'.cfg = want.cfg /\ want' \in [cfg : Nat, cad : Nat]
    BY <1>2, <2>1, <2>2
  <2> QED BY <1>8, <2>3, <2>4
      DEF Radio!TcpSetCad, Radio!UsbSetCad, Radio!SetCadAny, Radio!link, Radio!life, Queues
<1>9. ASSUME NEW v \in Tuple, Radio!TcpPerformCad(v) \/ Radio!UsbPerformCad(v) PROVE Queues
  <2>1. v \in Nat
    BY RadioGiven DEF Radio!ModemAssumption
  <2>2. Radio!Enqueue("tune", "cadp", v) \/ Radio!Enqueue("tune", "cad", 0)
    BY <1>9 DEF Radio!TcpPerformCad, Radio!UsbPerformCad, Radio!PerformCadAny
  <2>3. answer' = answer /\ \E c \in Commands : c.kind # "cfg" /\ queue' = Append(queue, c)
    BY <1>1, <2>1, <2>2 DEF Kinds
  <2> QED BY <1>2, <1>9, <2>3
          DEF Radio!TcpPerformCad, Radio!UsbPerformCad, Radio!PerformCadAny, Radio!Quiet,
              Radio!link, Radio!life, Queues
<1> QED BY <1>3, <1>4, <1>5, <1>6, <1>7, <1>8, <1>9

(* The command at the head is done with, and its task may queue the next.  *)
Releases ==
  /\ \/ queue' = Tail(queue)
     \/ \E c \in Commands : c.kind # "cfg" /\ queue' = Append(Tail(queue), c)
  /\ answer' = Radio!Unanswered /\ want'.cfg = want.cfg /\ want' \in [cfg : Nat, cad : Nat]
  /\ UNCHANGED <<usb, stop, closing, initialized, handle, linked, worker, packed, radioModem, raced>>

LEMMA ReturnsRelease ==
  ASSUME Shape, queue # <<>>, NEW r \in {"ok", "busy", "none", "raised"}, Radio!Returns(r)
  PROVE  Releases
<1> DEFINE c == Head(queue)
<1>1. /\ want \in [cfg : Nat, cad : Nat] /\ c \in Commands /\ Radio!AfterCommand(c, r)
      /\ Tail(queue) \in Seq(Commands)
  BY DEF Shape, Radio!Returns
<1>2. UNCHANGED <<usb, stop, closing, initialized, handle, linked, worker, packed, radioModem, raced>>
  BY DEF Radio!Returns, Radio!life
<1>3. c.by \in {"send", "tune", "push"} /\ c.arg \in Nat
  BY <1>1 DEF Commands
<1>4. Radio!Release(<<>>) => queue' = Tail(queue) /\ answer' = Radio!Unanswered
  BY <1>1 DEF Radio!Release
<1>5. ASSUME NEW d \in Commands, d.kind # "cfg", Radio!Release(<<d>>)
      PROVE  answer' = Radio!Unanswered
             /\ \E e \in Commands : e.kind # "cfg" /\ queue' = Append(Tail(queue), e)
  <2>1. Tail(queue) \o <<d>> = Append(Tail(queue), d)
    BY <1>1
  <2> QED BY <1>5, <2>1 DEF Radio!Release
<1>6. \A by \in {"send", "tune"}, kind \in {"tx", "rxs", "cad"} :
        Radio!Command(by, kind, 0) \in Commands /\ Radio!Command(by, kind, 0).kind # "cfg"
  BY DEF Radio!Command, Commands, Kinds
<1>7. /\ \/ Radio!Release(<<>>) \/ Radio!Release(<<Radio!Command("send", "tx", 0)>>)
         \/ Radio!Release(<<Radio!Command("send", "rxs", 0)>>) \/ Radio!Release(<<Radio!Command("tune", "cad", 0)>>)
      /\ want' = want \/ want' = [want EXCEPT !.cad = c.arg]
  <2>1. CASE c.by = "send"
    <3>1. want' = want
      BY <1>1, <2>1 DEF Radio!AfterCommand
    <3>2. CASE c.kind = "cad"
      <4>1. Radio!SendAfterCad(r)
        BY <1>1, <2>1, <3>2 DEF Radio!AfterCommand
      <4> QED BY <3>1, <4>1 DEF Radio!SendAfterCad
    <3>3. CASE c.kind = "tx"
      <4>1. Radio!SendAfterTx(r)
        BY <1>1, <2>1, <3>3 DEF Radio!AfterCommand
      <4>2. Radio!Release(<<>>) \/ Radio!Release(<<Radio!Command("send", "rxs", 0)>>)
        BY <4>1 DEF Radio!SendAfterTx
      <4> QED BY <3>1, <4>2
    <3>4. CASE c.kind \notin {"cad", "tx"}
      <4>1. Radio!SendAfterRx(r)
        BY <1>1, <2>1, <3>4 DEF Radio!AfterCommand
      <4> QED BY <3>1, <4>1 DEF Radio!SendAfterRx
    <3> QED BY <3>2, <3>3, <3>4
  <2>2. CASE c.by = "tune"
    BY <1>1, <2>2 DEF Radio!AfterCommand
  <2>3. CASE c.by = "push"
    BY <1>1, <2>3 DEF Radio!AfterCommand
  <2> QED BY <1>3, <2>1, <2>2, <2>3
<1>8. want'.cfg = want.cfg /\ want' \in [cfg : Nat, cad : Nat]
  BY <1>1, <1>3, <1>7
<1> HIDE DEF c
<1> QED BY <1>2, <1>4, <1>5, <1>6, <1>7, <1>8 DEF Releases

-----------------------------------------------------------------------------
(* Shape is kept.                                                          *)
LEMMA ShapeInit == Radio!Init => Shape
<1> SUFFICES ASSUME Radio!Init PROVE Shape
  OBVIOUS
<1>1. want \in [cfg : Nat, cad : Nat] /\ radioModem \in [cfg : Nat, cad : Nat]
  BY DEF Radio!Init
<1>2. /\ answer \in [state : {"queued", "out", "ok", "busy", "none"}, mine : BOOLEAN]
      /\ answer.state = "queued"
  BY DEF Radio!Init, Radio!Unanswered
<1> QED BY <1>1, <1>2 DEF Radio!Init, Shape, Places, Empty

LEMMA OneUnanswered ==
  /\ Radio!Unanswered \in [state : {"queued", "out", "ok", "busy", "none"}, mine : BOOLEAN]
  /\ Radio!Unanswered.state = "queued"
  BY DEF Radio!Unanswered

LEMMA QueuesShape == Shape /\ Queues => Shape'
<1> SUFFICES ASSUME Shape, Queues PROVE Shape'
  OBVIOUS
<1>1. queue \in Seq(Commands)
  BY DEF Shape
<1>2. queue' = queue \/ \E c \in Commands : queue' = Append(queue, c)
  BY DEF Queues
<1>3. queue' \in Seq(Commands) /\ (queue' = <<>> => queue = <<>>)
  BY <1>1, <1>2
<1> QED BY <1>3 DEF Shape, Queues, Empty

LEMMA ReleasesShape ==
  ASSUME Shape, Releases, queue # <<>>, up' \in Seq(Frames), down' \in Seq(Frames),
         Empty => Empty'
  PROVE  Shape'
<1>1. queue' \in Seq(Commands)
  <2>1. Tail(queue) \in Seq(Commands)
    BY DEF Shape
  <2>2. queue' = Tail(queue) \/ \E c \in Commands : queue' = Append(Tail(queue), c)
    BY DEF Releases
  <2>3. \A r \in Seq(Commands) : \A c \in Commands : Append(r, c) \in Seq(Commands)
    OBVIOUS
  <2> QED BY <2>1, <2>2, <2>3
<1> QED BY <1>1, OneUnanswered DEF Shape, Releases

LEMMA StaleFrames ==
  ASSUME NEW s \in Seq(Frames)
  PROVE  /\ Radio!Stale(s) \in Seq(Frames) /\ Len(Radio!Stale(s)) = Len(s)
         /\ \A i \in 1..Len(s) : Radio!Stale(s)[i].kind = s[i].kind /\ Radio!Stale(s)[i].arg = s[i].arg
<1>1. DOMAIN s = 1..Len(s) /\ Len(s) \in Nat /\ \A i \in 1..Len(s) : s[i] \in Frames
  OBVIOUS
<1>2. \A f \in Frames : /\ [f EXCEPT !.mine = FALSE] \in Frames
                        /\ [f EXCEPT !.mine = FALSE].kind = f.kind
                        /\ [f EXCEPT !.mine = FALSE].arg = f.arg
  BY DEF Frames
<1>3. Radio!Stale(s) = [i \in 1..Len(s) |-> [s[i] EXCEPT !.mine = FALSE]]
  BY <1>1 DEF Radio!Stale
<1>4. Radio!Stale(s) \in [1..Len(s) -> Frames]
  BY <1>1, <1>2, <1>3
<1>5. Radio!Stale(s) \in Seq(Frames) /\ Len(Radio!Stale(s)) = Len(s)
  BY <1>1, <1>4
<1>6. \A i \in 1..Len(s) : Radio!Stale(s)[i] = [s[i] EXCEPT !.mine = FALSE]
  BY <1>3
<1> QED BY <1>1, <1>2, <1>5, <1>6

(* The link is taken away: the handshake starts over.                      *)
Loses == /\ handle' = FALSE /\ linked' = FALSE /\ up' = <<>> /\ down' = <<>>
         /\ worker' = "backoff" /\ worker \in {"read"} \cup Radio!Handshake
         /\ UNCHANGED <<usb, initialized, stop, closing, queue, answer, want, packed, radioModem,
                        crossed, raced>>

LEMMA WorkerLoses == Radio!TcpLinkLost \/ Radio!UsbLinkLost \/ Radio!HandshakeFails => Loses
  BY DEF Radio!TcpLinkLost, Radio!UsbLinkLost, Radio!HandshakeFails, Radio!Detached,
      Radio!HostOnly, Radio!life, Radio!commands, Radio!past,
     Loses

LEMMA LosesShape == Shape /\ Loses => Shape'
  BY DEF Shape, Loses, Places, Empty, Radio!Handshake

(* What was on the link is gone, and the worker does not know yet.         *)
Breaks == /\ linked' = FALSE /\ up' = <<>> /\ down' = <<>> /\ (handle' => handle)
          /\ closing' = closing \/ ~handle'
          /\ radioModem' \in [cfg : Nat, cad : Nat]
          /\ UNCHANGED <<usb, initialized, stop, queue, answer, want, packed, worker, crossed,
                         raced>>

LEMMA LinkBreaks == Shape /\ (Radio!LinkDrops \/ Radio!TcpSetTarget \/ Radio!CleanupCloses) => Breaks
<1>1. [cfg |-> 0, cad |-> 0] \in [cfg : Nat, cad : Nat]
  OBVIOUS
<1> QED BY <1>1 DEF Shape, Radio!LinkDrops, Radio!TcpSetTarget, Radio!CleanupCloses,
      Radio!Detached, Breaks, Radio!life, Radio!commands,
        Radio!past

LEMMA BreaksShape == Shape /\ Breaks => Shape'
  BY DEF Shape, Breaks, Places, Empty, Radio!Handshake

(* The handshake goes on: what it writes, and what it reads.               *)
Shakes(from, to) ==
  /\ worker = from /\ worker' = to
  /\ UNCHANGED <<usb, initialized, stop, closing, handle, linked, queue, answer, want, radioModem>>
Reads(from, to) == /\ Shakes(from, to) /\ down # <<>> /\ down' = Tail(down)
                   /\ UNCHANGED <<up, packed, crossed, raced>>
WritesOne(from, to) == /\ Shakes(from, to)
                       /\ \E f \in Frames : /\ up' = Append(up, f)
                                            /\ f.kind = IF from = "write" THEN "cfg" ELSE "cadp"
                                            /\ from = "write" => f.arg = packed
                       /\ UNCHANGED <<down, packed, crossed, raced>>
Waits(from, to) == Shakes(from, to) /\ UNCHANGED <<up, down, packed, crossed, raced>>

LEMMA Handshaking ==
  ASSUME Shape,
         \/ Radio!TcpHello \/ Radio!PackConfig \/ Radio!WriteConfig \/ Radio!TcpReadConfigAck \/ Radio!UsbReadConfigAck
         \/ Radio!ApplyCadConfig \/ Radio!ReadCadAck
  PROVE  \/ Reads("hello", "config") \/ (Waits("hello", "config") /\ down = <<>>)
         \/ /\ Shakes("config", "write") /\ packed' = want.cfg /\ (raced' <=> raced /\ Radio!PushWaits)
            /\ UNCHANGED <<up, down, crossed>>
         \/ WritesOne("write", "acked") \/ Reads("acked", "cad") \/ Reads("acked", "acked")
         \/ Waits("cad", "read") \/ WritesOne("cad", "cadacked")
         \/ Reads("cadacked", "cadacked") \/ Reads("cadacked", "read")
         \/ /\ Shakes("cadacked", "read") /\ crossed'
            /\ UNCHANGED <<up, down, packed, raced>>
<1> USE DEF Radio!HostOnly, Radio!life, Radio!commands, Radio!past, Shakes
<1>1. CASE Radio!TcpHello
  BY <1>1 DEF Radio!TcpHello, Reads, Waits
<1>2. CASE Radio!PackConfig
  BY <1>2 DEF Radio!PackConfig, Radio!link
<1>3. CASE Radio!WriteConfig
  <2>1. Radio!Frame("cfg", packed, FALSE) \in Frames /\ Radio!Frame("cfg", packed, FALSE).kind = "cfg"
        /\ Radio!Frame("cfg", packed, FALSE).arg = packed
    <3>1. packed \in Nat /\ "cfg" \in Kinds /\ FALSE \in BOOLEAN
      BY DEF Shape, Kinds
    <3> QED BY <3>1, Frames1
  <2> QED BY <1>3, <2>1 DEF Radio!WriteConfig, WritesOne
<1>4. CASE Radio!TcpReadConfigAck \/ Radio!UsbReadConfigAck
  <2>1. worker = "acked" /\ down # <<>> /\ (Radio!ReadAs("cad") \/ Radio!ReadAs("acked"))
    BY <1>4 DEF Radio!TcpReadConfigAck, Radio!UsbReadConfigAck, Radio!ConfigAckAny
  <2> QED BY <2>1 DEF Radio!ReadAs, Reads
<1>5. CASE Radio!ApplyCadConfig
  <2>1. CASE want.cad = 0
    BY <1>5, <2>1 DEF Radio!ApplyCadConfig, Radio!Served, Waits
  <2>2. CASE want.cad # 0
    <3>1. /\ Radio!Frame("cadp", want.cad, FALSE) \in Frames
          /\ Radio!Frame("cadp", want.cad, FALSE).kind = "cadp"
      <4>1. want.cad \in Nat /\ "cadp" \in Kinds /\ FALSE \in BOOLEAN
        BY DEF Shape, Kinds
      <4> QED BY <4>1, Frames1
    <3> QED BY <1>5, <2>2, <3>1 DEF Radio!ApplyCadConfig, WritesOne
  <2> QED BY <2>1, <2>2
<1>6. CASE Radio!ReadCadAck
  <2>1. worker = "cadacked"
    BY <1>6 DEF Radio!ReadCadAck
  <2>2. CASE down # <<>> /\ Radio!ReadAs("cadacked")
    BY <2>1, <2>2 DEF Radio!ReadAs, Reads
  <2>3. CASE /\ down # <<>> /\ down' = Tail(down) /\ worker' = "read"
             /\ UNCHANGED <<Radio!HostOnly, handle, linked, up, packed, radioModem, Radio!past>>
    BY <2>1, <2>3 DEF Reads
  <2>4. CASE /\ worker' = "read" /\ crossed' = TRUE
             /\ UNCHANGED <<Radio!HostOnly, handle, linked, up, down, packed, radioModem, tally, raced>>
    BY <2>1, <2>4
  <2> QED BY <1>6, <2>2, <2>3, <2>4 DEF Radio!ReadCadAck
<1> QED BY <1>1, <1>2, <1>3, <1>4, <1>5, <1>6

LEMMA ShakesShape ==
  ASSUME Shape, NEW from \in Radio!Handshake, NEW to \in Radio!Handshake \cup {"read"}, Shakes(from, to),
         up' \in Seq(Frames), down' \in Seq(Frames), packed' \in Nat
  PROVE  Shape'
  BY DEF Shape, Shakes, Places, Radio!Handshake

LEMMA HandshakeShape ==
  ASSUME Shape,
         \/ Radio!TcpHello \/ Radio!PackConfig \/ Radio!WriteConfig \/ Radio!TcpReadConfigAck \/ Radio!UsbReadConfigAck
         \/ Radio!ApplyCadConfig \/ Radio!ReadCadAck
  PROVE  Shape'
<1>1. /\ up \in Seq(Frames) /\ down \in Seq(Frames) /\ packed \in Nat /\ want.cfg \in Nat
      /\ down # <<>> => Tail(down) \in Seq(Frames)
      /\ \A f \in Frames : Append(up, f) \in Seq(Frames)
  BY DEF Shape
<1>2. ASSUME NEW from \in Radio!Handshake, NEW to \in Radio!Handshake \cup {"read"},
             \/ Reads(from, to) \/ WritesOne(from, to) \/ Waits(from, to)
             \/ Shakes(from, to) /\ packed' = want.cfg /\ UNCHANGED <<up, down>>
             \/ Shakes(from, to) /\ UNCHANGED <<up, down, packed>>
      PROVE  Shape'
  <2>1. /\ Shakes(from, to) /\ up' \in Seq(Frames) /\ down' \in Seq(Frames) /\ packed' \in Nat
    BY <1>1, <1>2 DEF Reads, WritesOne, Waits
  <2> QED BY <2>1, ShakesShape
<1> QED BY <1>2, Handshaking DEF Radio!Handshake

(* The modem answers the frame at the head, or a command is written.       *)
Answering ==
  /\ up # <<>> /\ linked /\ up' = Tail(up)
  /\ \E a \in Frames : a.mine = Head(up).mine /\ down' = Append(down, a)
  /\ radioModem' \in [cfg : Nat, cad : Nat]
  /\ radioModem'.cfg = IF Head(up).kind = "cfg" THEN Head(up).arg ELSE radioModem.cfg
  /\ UNCHANGED <<usb, initialized, stop, closing, handle, linked, queue, answer, want, packed,
                 worker, crossed, raced>>

LEMMA ModemAnswering == ASSUME Shape, Radio!ModemAnswers PROVE Answering
<1> DEFINE f == Head(up)
<1>1. /\ up # <<>> /\ linked /\ up' = Tail(up)
      /\ UNCHANGED <<usb, initialized, stop, closing, handle, linked, queue, answer, want,
                     packed, worker, crossed, raced>>
  BY DEF Radio!ModemAnswers, Radio!life, Radio!commands
<1>2. f \in Frames /\ radioModem \in [cfg : Nat, cad : Nat]
  BY <1>1 DEF Shape
<1>3. f.kind \in Kinds /\ f.arg \in Nat /\ f.mine \in BOOLEAN
  BY <1>2 DEF Frames
<1> HIDE DEF f
<1>4. PICK a \in Radio!Answers(f) :
        /\ down' = Append(down, a)
        /\ radioModem' = CASE f.kind = "cfg"  -> [radioModem EXCEPT !.cfg = f.arg]
                      [] f.kind = "cadp" -> [radioModem EXCEPT !.cad = f.arg]
                      [] OTHER           -> radioModem
  BY DEF Radio!ModemAnswers, f
<1>5. a \in Frames /\ a.mine = f.mine
  <2>1. CASE f.kind = "tx"
    <3>1. \/ a = Radio!Frame("tx", 1, f.mine) \/ a = Radio!Frame("fail", 0, f.mine)
          \/ a = Radio!Frame("error", 1, f.mine)
      BY <1>4, <2>1 DEF Radio!Answers
    <3> QED BY <1>3, <3>1, Frames1 DEF Kinds
  <2>2. CASE f.kind = "cad"
    <3>1. a = Radio!Frame("cad", 0, f.mine) \/ a = Radio!Frame("cad", 1, f.mine)
      BY <1>4, <2>2 DEF Radio!Answers
    <3> QED BY <1>3, <3>1, Frames1 DEF Kinds
  <2>3. CASE f.kind \notin {"tx", "cad"}
    <3>1. a = Radio!Frame(f.kind, 0, f.mine)
      BY <1>4, <2>3 DEF Radio!Answers
    <3> QED BY <1>3, <3>1, Frames1
  <2> QED BY <2>1, <2>2, <2>3
<1>6. /\ radioModem' \in [cfg : Nat, cad : Nat]
      /\ radioModem'.cfg = IF f.kind = "cfg" THEN f.arg ELSE radioModem.cfg
  BY <1>2, <1>3, <1>4
<1> QED BY <1>1, <1>4, <1>5, <1>6 DEF Answering, f

LEMMA AnsweringShape == ASSUME Shape, Answering PROVE Shape'
<1>1. up' \in Seq(Frames)
  BY DEF Shape, Answering
<1>2. down' \in Seq(Frames)
  <2>1. down \in Seq(Frames) /\ \E a \in Frames : down' = Append(down, a)
    BY DEF Shape, Answering
  <2> QED BY <2>1
<1> QED BY <1>1, <1>2 DEF Shape, Answering, Empty

Sends ==
  /\ queue # <<>> /\ answer.state = "queued" /\ handle
  /\ answer' = [state |-> "out", mine |-> FALSE]
  /\ \/ ~linked /\ up' = up
     \/ /\ linked
        /\ \E f \in Frames : /\ f.kind = Head(queue).kind /\ f.arg = Head(queue).arg /\ f.mine
                             /\ up' = Append(up, f)
  /\ (crossed' <=> crossed \/ worker # "read")
  /\ UNCHANGED <<usb, initialized, stop, closing, handle, linked, down, queue, want, packed,
                 worker, radioModem, raced>>

LEMMA CommandSends == ASSUME Shape, Radio!TcpSendCommand \/ Radio!UsbSendCommand PROVE Sends
<1>1. Radio!AtLock /\ ~Radio!Blocked /\ Radio!Writes
  BY DEF Radio!TcpSendCommand, Radio!UsbSendCommand
<1>2. handle /\ queue # <<>> /\ answer.state = "queued"
  BY <1>1 DEF Radio!AtLock, Radio!Blocked
<1>3. Head(queue) \in Commands
  BY <1>2 DEF Shape
<1>4. /\ Radio!Frame(Head(queue).kind, Head(queue).arg, TRUE) \in Frames
      /\ Radio!Frame(Head(queue).kind, Head(queue).arg, TRUE).kind = Head(queue).kind
      /\ Radio!Frame(Head(queue).kind, Head(queue).arg, TRUE).arg = Head(queue).arg
      /\ Radio!Frame(Head(queue).kind, Head(queue).arg, TRUE).mine
  <2>1. Head(queue).kind \in Kinds /\ Head(queue).arg \in Nat /\ TRUE \in BOOLEAN
    BY <1>3 DEF Commands
  <2> QED BY <2>1, Frames1
<1> QED BY <1>1, <1>2, <1>4 DEF Radio!Writes, Radio!Quiet, Radio!life, Sends

LEMMA SendsShape == ASSUME Shape, Sends PROVE Shape'
<1>1. up' \in Seq(Frames)
  <2>1. up \in Seq(Frames) /\ (up' = up \/ \E f \in Frames : up' = Append(up, f))
    BY DEF Shape, Sends
  <2> QED BY <2>1
<1>2. /\ answer' \in [state : {"queued", "out", "ok", "busy", "none"}, mine : BOOLEAN]
      /\ queue # <<>> /\ handle
  BY DEF Sends
<1> QED BY <1>1, <1>2 DEF Shape, Sends

(* The worker reads an answer, which the command that waits may take.      *)
Takes ==
  /\ worker = "read" /\ handle /\ down # <<>> /\ down' = Tail(down)
  /\ \/ answer' = answer
     \/ /\ answer.state # "queued"
        /\ \E state \in {"ok", "busy", "none"} :
             answer' = [state |-> state, mine |-> Head(down).mine]
  /\ UNCHANGED <<usb, initialized, stop, closing, handle, linked, up, queue, want, packed,
                 worker, radioModem, crossed, raced>>

LEMMA DispatchTakes == ASSUME Shape, Radio!TcpDispatchFrame \/ Radio!UsbDispatchFrame PROVE Takes
<1>1. Radio!DispatchAny
  BY DEF Radio!TcpDispatchFrame, Radio!UsbDispatchFrame
<1>2. \/ UNCHANGED answer
      \/ answer.state # "queued" /\ (Radio!Given("none", Head(down)) \/ Radio!Given(Radio!Verdict(Head(down)), Head(down)))
  BY <1>1 DEF Radio!DispatchAny
<1>3. Radio!Verdict(Head(down)) \in {"ok", "busy"}
  BY DEF Radio!Verdict
<1>4. \/ answer' = answer
      \/ /\ answer.state # "queued"
         /\ \E state \in {"ok", "busy", "none"} :
              answer' = [state |-> state, mine |-> Head(down).mine]
  BY <1>2, <1>3 DEF Radio!Given
<1> QED BY <1>1, <1>4
    DEF Radio!DispatchAny, Radio!FrameRead, Radio!Quiet, Radio!life, Radio!past, Takes

LEMMA TakesShape == ASSUME Shape, Takes PROVE Shape'
<1>1. down' \in Seq(Frames) /\ Head(down) \in Frames
  BY DEF Shape, Takes
<1>2. Head(down).mine \in BOOLEAN
  BY <1>1 DEF Frames
<1>3. /\ answer' \in [state : {"queued", "out", "ok", "busy", "none"}, mine : BOOLEAN]
      /\ answer'.state = "queued" <=> answer.state = "queued"
  <2>1. CASE answer' = answer
    BY <2>1 DEF Shape
  <2>2. CASE /\ answer.state # "queued"
             /\ \E state \in {"ok", "busy", "none"} :
                  answer' = [state |-> state, mine |-> Head(down).mine]
    BY <1>2, <2>2
  <2> QED BY <2>1, <2>2 DEF Takes
<1> QED BY <1>1, <1>3 DEF Shape, Takes, Empty

(* Life cycle and settings.                                                *)
Begins ==
  /\ ~initialized /\ ~closing /\ worker = "none"
  /\ worker' = "read" /\ initialized' /\ up' = <<>> /\ down' = <<>>
  /\ \/ radioModem'.cfg = want.cfg /\ radioModem' \in [cfg : Nat, cad : Nat]
     \/ UNCHANGED <<handle, radioModem>>
  /\ UNCHANGED <<usb, closing, queue, answer, want, packed, crossed, raced>>

LEMMA BeginBegins == ASSUME Shape, Radio!TcpBegin \/ Radio!UsbBegin PROVE Begins
<1>1. Radio!BeginAny /\ (Radio!Attached \/ Radio!Deferred)
  BY DEF Radio!TcpBegin, Radio!UsbBegin
<1>2. Radio!Configured \in [cfg : Nat, cad : Nat] /\ Radio!Configured.cfg = want.cfg
  BY DEF Shape, Radio!Configured
<1> QED BY <1>1, <1>2
    DEF Radio!BeginAny, Radio!Attached, Radio!Deferred, Radio!commands, Radio!past, Begins

LEMMA BeginsShape == ASSUME Shape, Begins PROVE Shape'
  BY DEF Shape, Begins, Places, Empty

Stops ==
  /\ \/ stop /\ worker \in {"read", "backoff"} /\ worker' = "none"
        /\ UNCHANGED <<initialized, stop, closing>>
     \/ worker' = worker /\ ~initialized' /\ stop' /\ closing'
  /\ UNCHANGED <<usb, handle, linked, up, down, queue, answer, want, packed, radioModem, crossed,
                 raced>>

LEMMA EndStops == Radio!WorkerExits \/ Radio!TcpCleanup \/ Radio!UsbCleanup => Stops
  BY DEF Radio!WorkerExits, Radio!TcpCleanup, Radio!UsbCleanup, Radio!CleanupAny, Radio!HostOnly,
      Radio!life, Radio!link, Radio!commands, Radio!past,
     Stops

LEMMA StopsShape == ASSUME Shape, Stops PROVE Shape'
  BY DEF Shape, Stops, Places, Empty

Reopening ==
  /\ worker = "backoff" /\ ~stop /\ handle' /\ up' = <<>> /\ down' = down
  /\ worker' = IF usb THEN "config" ELSE "hello"
  /\ (crossed' <=> queue # <<>> /\ answer.state # "queued")
  /\ UNCHANGED <<usb, initialized, stop, closing, queue, answer, want, packed, radioModem, raced>>

LEMMA ReopenReopens == Radio!TcpReopenSocket \/ Radio!UsbReconnectSerial => Reopening
  BY DEF Radio!TcpReopenSocket, Radio!UsbReconnectSerial, Radio!Reopens, Radio!HostOnly,
      Radio!life, Radio!commands, Reopening

LEMMA ReopeningShape == ASSUME Shape, Reopening PROVE Shape'
  BY DEF Shape, Reopening, Places, Empty, Radio!Handshake

Sets ==
  /\ \E v \in Nat :
       /\ want' = [want EXCEPT !.cfg = v]
       /\ \/ usb /\ UNCHANGED <<queue, raced>>
          \/ /\ initialized /\ (raced' <=> raced \/ worker = "write")
             /\ \E c \in Commands : c.kind = "cfg" /\ c.arg = v /\ queue' = Append(queue, c)
          \/ /\ ~initialized /\ queue' = queue
             /\ (raced' <=> raced \/ worker = "write" \/ Radio!PushWaits)
  /\ UNCHANGED <<usb, initialized, stop, closing, handle, linked, up, down, answer, packed,
                 worker, radioModem, crossed>>

LEMMA SetSets ==
  ASSUME Shape, NEW v \in Tuple, Radio!TcpSetConfig(v) \/ Radio!UsbSetConfig(v) PROVE Sets
<1>1. v \in Nat
  BY RadioGiven DEF Radio!ModemAssumption
<1>2. CASE Radio!TcpSetConfig(v)
  <2>1. /\ want' = [want EXCEPT !.cfg = v] /\ Radio!Pushes("cfg", v)
        /\ (raced' <=> raced \/ worker = "write" \/ (~initialized /\ Radio!PushWaits))
        /\ UNCHANGED <<usb, initialized, stop, closing, handle, linked, up, down, packed,
                       worker, radioModem, crossed>>
    BY <1>2 DEF Radio!TcpSetConfig, Radio!life, Radio!link
  <2>2. CASE initialized
    <3>1. /\ Radio!Command("push", "cfg", v) \in Commands /\ Radio!Command("push", "cfg", v).kind = "cfg"
          /\ Radio!Command("push", "cfg", v).arg = v
      <4>1. "push" \in {"send", "tune", "push"} /\ "cfg" \in Kinds
        BY DEF Kinds
      <4> QED BY <1>1, <4>1, Commands1
    <3>2. answer' = answer /\ queue' = Append(queue, Radio!Command("push", "cfg", v))
      BY <2>1, <2>2 DEF Radio!Pushes, Radio!Enqueue
    <3> QED BY <1>1, <2>1, <2>2, <3>1, <3>2 DEF Sets
  <2>3. CASE ~initialized
    BY <1>1, <2>1, <2>3 DEF Radio!Pushes, Sets
  <2> QED BY <2>2, <2>3
<1>3. CASE Radio!UsbSetConfig(v)
  BY <1>1, <1>3 DEF Radio!UsbSetConfig, Radio!life, Radio!link, Radio!commands, Sets
<1> QED BY <1>2, <1>3

LEMMA SetsShape == ASSUME Shape, Sets PROVE Shape'
<1>1. want' \in [cfg : Nat, cad : Nat]
  BY DEF Shape, Sets
<1>2. queue' \in Seq(Commands) /\ (queue' = <<>> => queue = <<>>)
  <2>1. queue \in Seq(Commands) /\ (queue' = queue \/ \E c \in Commands : queue' = Append(queue, c))
    BY DEF Shape, Sets
  <2> QED BY <2>1
<1> QED BY <1>1, <1>2 DEF Shape, Sets, Empty

(* A command ends: refused, answered, or given up.                         *)
Ends ==
  /\ queue # <<>> /\ Releases
  /\ \/ /\ answer.state = "queued" /\ (~usb => ~handle \/ ~linked)
        /\ UNCHANGED <<up, down, crossed>>
     \/ /\ answer.state \notin {"queued", "out"} /\ UNCHANGED <<up, down, crossed>>
     \/ /\ answer.state # "queued" /\ crossed'
        /\ up' = Radio!Stale(up) /\ down' = Radio!Stale(down)

LEMMA CommandEnds ==
  ASSUME Shape, Radio!CommandRefused \/ Radio!WriteFails \/ Radio!CommandAnswered \/ Radio!CommandTimesOut PROVE Ends
<1>1. queue # <<>>
  BY DEF Radio!CommandRefused, Radio!WriteFails, Radio!CommandAnswered, Radio!CommandTimesOut,
      Radio!AtLock
<1>2. \E r \in {"ok", "busy", "none", "raised"} : Radio!Returns(r)
  BY DEF Radio!CommandRefused, Radio!WriteFails, Radio!CommandAnswered, Radio!CommandTimesOut
<1>3. Releases
  BY <1>1, <1>2, ReturnsRelease
<1> QED BY <1>1, <1>3
        DEF Radio!CommandRefused, Radio!WriteFails, Radio!CommandAnswered, Radio!CommandTimesOut,
            Radio!AtLock, Radio!Blocked, Ends

LEMMA EndsShape == ASSUME Shape, Ends PROVE Shape'
<1>1. up' \in Seq(Frames) /\ down' \in Seq(Frames)
  BY StaleFrames DEF Shape, Ends
<1>2. Empty => Empty'
  <2>1. CASE UNCHANGED <<up, down>>
    BY <2>1 DEF Empty
  <2>2. CASE up' = Radio!Stale(up) /\ down' = Radio!Stale(down)
    <3>1. \A q \in Seq(Frames) : Len(q) = 0 => q = <<>>
      OBVIOUS
    <3>2. Len(<<>>) = 0
      OBVIOUS
    <3> QED BY <1>1, <2>2, <3>1, <3>2, StaleFrames DEF Shape, Empty
  <2> QED BY <2>1, <2>2 DEF Ends
<1> QED BY <1>1, <1>2, ReleasesShape DEF Ends

-----------------------------------------------------------------------------
Shaking == \/ Radio!TcpHello \/ Radio!PackConfig \/ Radio!WriteConfig \/ Radio!TcpReadConfigAck \/ Radio!UsbReadConfigAck
           \/ Radio!ApplyCadConfig \/ Radio!ReadCadAck

(* Every step has one of these effects.                                    *)
LEMMA Effects ==
  ASSUME Shape, Radio!Next
  PROVE  \/ Queues \/ Loses \/ Breaks \/ Shaking \/ Answering \/ Sends \/ Takes \/ Begins
         \/ Stops \/ Reopening \/ Sets \/ Ends
<1>1. CASE Radio!Worker
  BY <1>1, WorkerLoses, EndStops, ReopenReopens, DispatchTakes DEF Radio!Worker, Shaking
<1>2. CASE Radio!Loop
  BY <1>2, CallsQueue, CommandSends, CommandEnds DEF Radio!Loop, Radio!LockHolder
<1>3. CASE Radio!Calls
  BY <1>3, CallsQueue, BeginBegins, EndStops, LinkBreaks, SetSets DEF Radio!Calls
<1>4. CASE Radio!ModemAnswers \/ Radio!LinkDrops
  BY <1>4, ModemAnswering, LinkBreaks
<1> QED BY <1>1, <1>2, <1>3, <1>4 DEF Radio!Next

LEMMA ShapeStep == Shape /\ [Radio!Next]_Radio!vars => Shape'
<1>1. ASSUME Shape, Radio!Next PROVE Shape'
  BY <1>1, Effects, QueuesShape, LosesShape, BreaksShape, HandshakeShape, AnsweringShape,
     SendsShape, TakesShape, BeginsShape, StopsShape, ReopeningShape, SetsShape, EndsShape
     DEF Shaking
<1>2. ASSUME Shape, UNCHANGED Radio!vars PROVE Shape'
  BY <1>2 DEF Shape, Radio!vars, Radio!life, Radio!link, Radio!commands, Empty
<1> QED BY <1>1, <1>2

-----------------------------------------------------------------------------
(* On a connection where no command has timed out and none crossed the     *)
(* handshake, one frame is on the link: that of the command that waits, or *)
(* that of the handshake.                                                  *)
Carries(f) == (up = <<f>> /\ down = <<>>) \/ (up = <<>> /\ down = <<f>>)

Fits ==
  /\ answer.state \in {"ok", "busy"} => answer.mine
  /\ worker \in {"none", "read"} =>
       Empty \/ (answer.state = "out" /\ \E f \in Frames : f.mine /\ Carries(f))
  /\ worker \in Radio!Handshake =>
       /\ answer.state = "queued"
       /\ Empty \/ (worker \in {"acked", "cadacked"} /\ \E f \in Frames : Carries(f))

AnswerInv == Shape /\ (~crossed => Fits)

LEMMA OneFrame ==
  /\ \A f : Head(<<f>>) = f /\ Tail(<<f>>) = <<>> /\ <<f>> # <<>>
  /\ \A f : Append(<<>>, f) = <<f>>
  OBVIOUS

LEMMA FitsShakes ==
  ASSUME AnswerInv, Shaking, ~crossed' PROVE Fits'
<1> USE DEF Radio!Handshake
<1>1. Shape
  BY DEF AnswerInv
<1>3. ASSUME NEW from \in Radio!Handshake, NEW to \in Radio!Handshake \cup {"read"}, Reads(from, to),
             from = "hello" => to = "config"
      PROVE  Fits'
  <2>1. ~crossed /\ Fits
    BY <1>3 DEF Reads, AnswerInv
  <2>2. PICK f \in Frames : Carries(f) /\ from \in {"acked", "cadacked"}
    BY <1>3, <2>1 DEF Fits, Reads, Shakes, Empty
  <2>3. up = <<>> /\ down = <<f>>
    BY <1>3, <2>2 DEF Reads, Carries
  <2>4. Empty'
    BY <1>3, <2>3, OneFrame DEF Reads, Empty
  <2> QED BY <1>3, <2>1, <2>4 DEF Reads, Shakes, Fits
<1>4. ASSUME NEW from \in {"write", "cad"}, NEW to \in {"acked", "cadacked"}, WritesOne(from, to)
      PROVE  Fits'
  <2>1. ~crossed /\ Fits
    BY <1>4 DEF WritesOne, AnswerInv
  <2>2. Empty /\ answer.state = "queued"
    BY <1>4, <2>1 DEF Fits, WritesOne, Shakes
  <2>3. PICK f \in Frames : up' = Append(up, f)
    BY <1>4 DEF WritesOne
  <2>4. Carries(f)'
    BY <1>4, <2>2, <2>3, OneFrame DEF WritesOne, Empty, Carries
  <2> QED BY <1>4, <2>2, <2>4 DEF WritesOne, Shakes, Fits
<1>5. ASSUME NEW from \in {"hello", "cad"}, NEW to \in {"config", "read"}, Waits(from, to)
      PROVE  Fits'
  <2>1. ~crossed /\ Fits
    BY <1>5 DEF Waits, AnswerInv
  <2>2. Empty /\ answer.state = "queued"
    BY <1>5, <2>1 DEF Fits, Waits, Shakes
  <2> QED BY <1>5, <2>1, <2>2 DEF Waits, Shakes, Fits, Empty
<1>6. CASE \/ Reads("hello", "config") \/ Reads("acked", "cad") \/ Reads("acked", "acked")
           \/ Reads("cadacked", "cadacked") \/ Reads("cadacked", "read")
  BY <1>3, <1>6
<1>7. CASE WritesOne("write", "acked") \/ WritesOne("cad", "cadacked")
  BY <1>4, <1>7
<1>8. CASE Waits("hello", "config") \/ Waits("cad", "read")
  BY <1>5, <1>8
<1>9. CASE Shakes("config", "write") /\ UNCHANGED <<up, down, crossed>>
  BY <1>9 DEF Shakes, AnswerInv, Fits, Empty
<1> QED BY <1>1, <1>6, <1>7, <1>8, <1>9, Handshaking DEF Shaking

LEMMA FitsStep == AnswerInv /\ [Radio!Next]_Radio!vars => AnswerInv'
<1> SUFFICES ASSUME AnswerInv, [Radio!Next]_Radio!vars PROVE AnswerInv'
  OBVIOUS
<1>1. Shape /\ Shape'
  BY ShapeStep DEF AnswerInv
<1> SUFFICES ASSUME ~crossed' PROVE Fits'
  BY <1>1 DEF AnswerInv
<1>2. CASE UNCHANGED Radio!vars
  BY <1>2 DEF Radio!vars, Radio!life, Radio!link, Radio!commands, Radio!past, AnswerInv, Fits,
      Empty, Carries
<1>3. CASE Queues
  BY <1>3 DEF Queues, AnswerInv, Fits, Empty, Carries
<1>4. CASE Loses
  BY <1>4 DEF Loses, AnswerInv, Fits, Empty, Radio!Handshake
<1>5. CASE Breaks
  BY <1>5 DEF Breaks, AnswerInv, Fits, Empty
<1>6. CASE Answering
  <2>1. ~crossed /\ Fits /\ ~Empty
    BY <1>6 DEF Answering, AnswerInv, Empty
  <2>2. PICK f \in Frames : Carries(f) /\ (worker \in {"none", "read"} => f.mine)
    BY <1>1, <2>1 DEF Fits, Shape, Places
  <2>3. up = <<f>> /\ down = <<>> /\ Head(up) = f /\ up' = <<>>
    BY <1>6, <2>2, OneFrame DEF Answering, Carries
  <2>4. PICK a \in Frames : a.mine = f.mine /\ down' = <<a>>
    BY <1>6, <2>3, OneFrame DEF Answering
  <2>5. Carries(a)'
    BY <2>3, <2>4 DEF Carries
  <2> QED BY <1>6, <2>1, <2>2, <2>4, <2>5 DEF Answering, Fits
<1>7. CASE Sends
  <2>1. ~crossed /\ Fits /\ worker = "read" /\ answer.state = "queued"
    BY <1>7 DEF Sends, AnswerInv
  <2>2. Empty
    BY <2>1 DEF Fits
  <2>3. answer'.state = "out" /\ worker' = "read" /\ down' = down
    BY <1>7, <2>1 DEF Sends
  <2>4. Empty' \/ \E f \in Frames : f.mine /\ Carries(f)'
    BY <1>7, <2>2, <2>3, OneFrame DEF Sends, Empty, Carries
  <2> QED BY <2>3, <2>4 DEF Fits, Radio!Handshake
<1>8. CASE Takes
  <2>1. ~crossed /\ Fits /\ worker = "read" /\ ~Empty
    BY <1>8 DEF Takes, AnswerInv, Empty
  <2>2. PICK f \in Frames : Carries(f) /\ f.mine
    BY <2>1 DEF Fits
  <2>3. up = <<>> /\ down = <<f>> /\ Head(down) = f /\ down' = <<>>
    BY <1>8, <2>2, OneFrame DEF Takes, Carries
  <2>4. Empty' /\ worker' = "read"
    BY <1>8, <2>1, <2>3 DEF Takes, Empty
  <2>5. answer'.state \in {"ok", "busy"} => answer'.mine
    <3>1. CASE answer' = answer
      BY <2>1, <3>1 DEF Fits
    <3>2. CASE \E state \in {"ok", "busy", "none"} :
                 answer' = [state |-> state, mine |-> Head(down).mine]
      BY <2>2, <2>3, <3>2
    <3> QED BY <1>8, <3>1, <3>2 DEF Takes
  <2> QED BY <2>4, <2>5 DEF Fits, Radio!Handshake
<1>9. CASE Begins
  BY <1>9 DEF Begins, AnswerInv, Fits, Empty, Radio!Handshake
<1>10. CASE Stops
  BY <1>1, <1>10 DEF Stops, AnswerInv, Fits, Empty, Carries, Shape, Radio!Handshake
<1>11. CASE Reopening
  <2>1. Empty' /\ answer'.state = "queued"
    BY <1>1, <1>11 DEF Reopening, Shape, Empty
  <2> QED BY <1>11, <2>1 DEF Reopening, Fits, Radio!Handshake
<1>12. CASE Sets
  BY <1>12 DEF Sets, AnswerInv, Fits, Empty, Carries
<1>13. CASE Ends
  <2>1. ~crossed /\ Fits /\ UNCHANGED <<up, down, crossed>> /\ answer.state # "out"
    BY <1>13 DEF Ends, AnswerInv
  <2>2. answer'.state = "queued" /\ worker' = worker
    BY <1>13, OneUnanswered DEF Ends, Releases
  <2> QED BY <2>1, <2>2 DEF Fits, Empty, Carries
<1>14. CASE Shaking
  BY <1>14, FitsShakes
<1> QED BY <1>1, <1>2, <1>3, <1>4, <1>5, <1>6, <1>7, <1>8, <1>9, <1>10, <1>11, <1>12, <1>13,
           <1>14, Effects

(* AnswersItsOwn holds of the TCP and the USB radio for any number of      *)
(* callers and frames: on a connection where nothing has timed out and no  *)
(* command went out during the handshake, what _send_command returns is    *)
(* the modem's answer to the frame it wrote.                               *)
THEOREM RadioAnswers == Radio!Spec => []AnswersItsOwn
<1>1. Radio!Init => AnswerInv
  <2> SUFFICES ASSUME Radio!Init PROVE AnswerInv
    OBVIOUS
  <2>1. answer.state = "queued"
    BY OneUnanswered DEF Radio!Init
  <2> QED BY <2>1, ShapeInit DEF Radio!Init, AnswerInv, Fits, Empty, Radio!Handshake
<1>2. AnswerInv => AnswersItsOwn
  BY DEF AnswerInv, Fits, AnswersItsOwn, Radio!AnswersItsOwn
<1> QED BY <1>1, <1>2, FitsStep, PTL DEF Radio!Spec

-----------------------------------------------------------------------------
(* The last of the configurations in a queue of frames or of commands.     *)
NoCfg(s) == \A i \in 1..Len(s) : s[i].kind # "cfg"
LastIs(s, v) ==
  \A i \in 1..Len(s) :
    s[i].kind = "cfg" /\ (\A j \in 1..Len(s) : j > i => s[j].kind # "cfg") => s[i].arg = v

LEMMA CfgAppend ==
  ASSUME NEW S, NEW s \in Seq(S), NEW e \in S, NEW v
  PROVE  /\ NoCfg(Append(s, e)) <=> NoCfg(s) /\ e.kind # "cfg"
         /\ e.kind = "cfg" /\ e.arg = v => LastIs(Append(s, e), v)
         /\ e.kind # "cfg" /\ LastIs(s, v) => LastIs(Append(s, e), v)
<1> DEFINE n == Len(s)
           r == Append(s, e)
<1>1. /\ n \in Nat /\ Len(r) = n + 1 /\ r[n + 1] = e /\ \A i \in 1..n : r[i] = s[i]
  OBVIOUS
<1>2. NoCfg(s) <=> \A i \in 1..n : s[i].kind # "cfg"
  BY DEF NoCfg
<1>3. LastIs(s, v) <=> \A i \in 1..n :
        s[i].kind = "cfg" /\ (\A j \in 1..n : j > i => s[j].kind # "cfg") => s[i].arg = v
  BY DEF LastIs
<1>4. NoCfg(r) <=> \A i \in 1..(n + 1) : r[i].kind # "cfg"
  BY <1>1 DEF NoCfg
<1>5. LastIs(r, v) <=> \A i \in 1..(n + 1) :
        r[i].kind = "cfg" /\ (\A j \in 1..(n + 1) : j > i => r[j].kind # "cfg") => r[i].arg = v
  BY <1>1 DEF LastIs
<1> HIDE DEF n, r
<1>6. /\ \A i \in 1..(n + 1) : i \in 1..n \/ i = n + 1
      /\ n + 1 \in 1..(n + 1)
      /\ \A i \in 1..n : i \in 1..(n + 1) /\ n + 1 > i
  BY <1>1
<1>7. NoCfg(r) <=> NoCfg(s) /\ e.kind # "cfg"
  BY <1>1, <1>2, <1>4, <1>6
<1>8. e.kind = "cfg" /\ e.arg = v => LastIs(r, v)
  BY <1>1, <1>5, <1>6
<1>9. e.kind # "cfg" /\ LastIs(s, v) => LastIs(r, v)
  BY <1>1, <1>3, <1>5, <1>6
<1> QED BY <1>7, <1>8, <1>9 DEF r

LEMMA CfgTail ==
  ASSUME NEW S, NEW s \in Seq(S), s # <<>>, NEW v
  PROVE  /\ NoCfg(s) <=> Head(s).kind # "cfg" /\ NoCfg(Tail(s))
         /\ LastIs(s, v) => LastIs(Tail(s), v)
         /\ LastIs(s, v) /\ Head(s).kind = "cfg" /\ NoCfg(Tail(s)) => Head(s).arg = v
<1> DEFINE n == Len(s) - 1
           r == Tail(s)
<1>1. /\ n \in Nat /\ Len(r) = n /\ Len(s) = n + 1 /\ Head(s) = s[1]
      /\ \A i \in 1..n : r[i] = s[i + 1]
  OBVIOUS
<1>2. NoCfg(r) <=> \A i \in 1..n : r[i].kind # "cfg"
  BY <1>1 DEF NoCfg
<1>3. LastIs(r, v) <=> \A i \in 1..n :
        r[i].kind = "cfg" /\ (\A j \in 1..n : j > i => r[j].kind # "cfg") => r[i].arg = v
  BY <1>1 DEF LastIs
<1>4. NoCfg(s) <=> \A i \in 1..(n + 1) : s[i].kind # "cfg"
  BY <1>1 DEF NoCfg
<1>5. LastIs(s, v) <=> \A i \in 1..(n + 1) :
        s[i].kind = "cfg" /\ (\A j \in 1..(n + 1) : j > i => s[j].kind # "cfg") => s[i].arg = v
  BY <1>1 DEF LastIs
<1> HIDE DEF n, r
<1>6. /\ \A i \in 1..(n + 1) : i = 1 \/ (i - 1 \in 1..n /\ i = (i - 1) + 1)
      /\ 1 \in 1..(n + 1)
      /\ \A i \in 1..n : i + 1 \in 1..(n + 1)
      /\ \A j \in 1..(n + 1), i \in 1..n : j > i + 1 => j - 1 \in 1..n /\ j - 1 > i
  BY <1>1
<1>7. NoCfg(s) <=> Head(s).kind # "cfg" /\ NoCfg(r)
  BY <1>1, <1>2, <1>4, <1>6
<1>8. LastIs(s, v) => LastIs(r, v)
  <2> SUFFICES ASSUME LastIs(s, v), NEW i \in 1..n, r[i].kind = "cfg",
                      \A j \in 1..n : j > i => r[j].kind # "cfg"
               PROVE  r[i].arg = v
    BY <1>3
  <2>1. s[i + 1].kind = "cfg" /\ i + 1 \in 1..(n + 1)
    BY <1>1, <1>6
  <2>2. ASSUME NEW j \in 1..(n + 1), j > i + 1 PROVE s[j].kind # "cfg"
    <3>1. j - 1 \in 1..n /\ j - 1 > i /\ j = (j - 1) + 1
      BY <1>6, <2>2
    <3>2. r[j - 1].kind # "cfg"
      BY <3>1
    <3> QED BY <1>1, <3>1, <3>2
  <2> QED BY <1>1, <1>5, <2>1, <2>2
<1>9. LastIs(s, v) /\ Head(s).kind = "cfg" /\ NoCfg(r) => Head(s).arg = v
  <2> SUFFICES ASSUME LastIs(s, v), s[1].kind = "cfg", NoCfg(r) PROVE s[1].arg = v
    BY <1>1
  <2>1. ASSUME NEW j \in 1..(n + 1), j > 1 PROVE s[j].kind # "cfg"
    <3>1. j - 1 \in 1..n /\ j = (j - 1) + 1
      BY <1>6, <2>1
    <3> QED BY <1>1, <1>2, <3>1
  <2> QED BY <1>5, <1>6, <2>1
<1> QED BY <1>7, <1>8, <1>9 DEF r

LEMMA CfgStale ==
  ASSUME NEW s \in Seq(Frames), NEW v
  PROVE  (NoCfg(Radio!Stale(s)) <=> NoCfg(s)) /\ (LastIs(s, v) => LastIs(Radio!Stale(s), v))
  BY StaleFrames DEF NoCfg, LastIs

(* The configuration that the link is heading for is the one in memory:    *)
(* the last push still to be written has it, or the last frame under way,  *)
(* or the modem.                                                           *)
InForce ==
  /\ LastIs(Radio!Unsent, want.cfg)
  /\ worker = "write" => packed = want.cfg
  /\ initialized /\ handle /\ linked /\ NoCfg(Radio!Unsent) /\ worker \notin {"hello", "config", "write"}
       => LastIs(up, want.cfg) /\ (NoCfg(up) => radioModem.cfg = want.cfg)

ForceInv == Shape /\ (~usb /\ ~raced => InForce)

LEMMA UnsentSeq ==
  ASSUME Shape
  PROVE  Radio!Unsent \in Seq(Commands) /\ (Radio!PushWaits <=> ~NoCfg(Radio!Unsent))
<1>1. Radio!Unsent \in Seq(Commands)
  BY DEF Shape, Radio!Unsent
<1>2. DOMAIN Radio!Unsent = 1..Len(Radio!Unsent)
  BY <1>1
<1> QED BY <1>1, <1>2 DEF Radio!PushWaits, NoCfg

(* What is queued comes after the commands still to be written.            *)
LEMMA UnsentAppend ==
  ASSUME Shape, NEW c \in Commands, queue' = Append(queue, c), answer' = answer
  PROVE  Radio!Unsent' = Append(Radio!Unsent, c)
<1>1. CASE answer.state = "queued"
  BY <1>1 DEF Radio!Unsent
<1>2. CASE answer.state # "queued"
  <2>1. queue \in Seq(Commands) /\ queue # <<>>
    BY <1>2 DEF Shape
  <2>2. Tail(Append(queue, c)) = Append(Tail(queue), c)
    BY <2>1
  <2> QED BY <1>2, <2>2 DEF Radio!Unsent
<1> QED BY <1>1, <1>2

LEMMA CfgEmpty == \A v : NoCfg(<<>>) /\ LastIs(<<>>, v)
  BY DEF NoCfg, LastIs

LEMMA ForceQueues ==
  ASSUME Shape, Queues, ~usb /\ ~raced => InForce, ~usb', ~raced' PROVE InForce'
<1>1. InForce /\ want.cfg = want'.cfg
  BY DEF Queues
<1>2. NoCfg(Radio!Unsent)' <=> NoCfg(Radio!Unsent)
  <2>1. CASE queue' = queue
    BY <2>1 DEF Queues, Radio!Unsent
  <2>2. ASSUME NEW c \in Commands, c.kind # "cfg", queue' = Append(queue, c)
        PROVE  NoCfg(Radio!Unsent)' <=> NoCfg(Radio!Unsent)
    <3>1. Radio!Unsent' = Append(Radio!Unsent, c)
      BY <2>2, UnsentAppend DEF Queues
    <3>2. NoCfg(Append(Radio!Unsent, c)) <=> NoCfg(Radio!Unsent)
      BY <2>2, UnsentSeq, CfgAppend
    <3> QED BY <3>1, <3>2
  <2> QED BY <2>1, <2>2 DEF Queues
<1>3. LastIs(Radio!Unsent, want.cfg)'
  <2>1. CASE queue' = queue
    BY <1>1, <2>1 DEF Queues, Radio!Unsent, InForce
  <2>2. ASSUME NEW c \in Commands, c.kind # "cfg", queue' = Append(queue, c)
        PROVE  LastIs(Radio!Unsent, want.cfg)'
    <3>1. LastIs(Append(Radio!Unsent, c), want.cfg)
      BY <1>1, <2>2, UnsentSeq, CfgAppend DEF InForce
    <3>2. Radio!Unsent' = Append(Radio!Unsent, c)
      BY <2>2, UnsentAppend DEF Queues
    <3> QED BY <1>1, <3>1, <3>2
  <2> QED BY <2>1, <2>2 DEF Queues
<1> QED BY <1>1, <1>2, <1>3 DEF Queues, InForce

LEMMA ForceShakes ==
  ASSUME Shape, Shaking, ~usb /\ ~raced => InForce, ~usb', ~raced' PROVE InForce'
<1> USE DEF Radio!Handshake
<1>1. ASSUME NEW from, NEW to, Shakes(from, to)
      PROVE  /\ Radio!Unsent' = Radio!Unsent /\ want' = want /\ worker = from /\ worker' = to
             /\ radioModem' = radioModem /\ ~usb
             /\ initialized' /\ handle' /\ linked' <=> initialized /\ handle /\ linked
  BY <1>1 DEF Shakes, Radio!Unsent
<1>2. ASSUME NEW from, NEW to, Reads(from, to), from # "write", to # "write",
             to = "config" \/ from \notin {"hello", "config"}
      PROVE  InForce'
  <2>1. Shakes(from, to) /\ UNCHANGED <<up, packed, raced>>
    BY <1>2 DEF Reads
  <2>2. InForce
    BY <1>1, <2>1
  <2> QED BY <1>1, <1>2, <2>1, <2>2 DEF InForce
<1>3. ASSUME NEW from, NEW to, Waits(from, to), from # "write", to # "write",
             to = "config" \/ from \notin {"hello", "config"}
      PROVE  InForce'
  <2>1. Shakes(from, to) /\ UNCHANGED <<up, packed, raced>>
    BY <1>3 DEF Waits
  <2>2. InForce
    BY <1>1, <2>1
  <2> QED BY <1>1, <1>3, <2>1, <2>2 DEF InForce
<1>4. CASE /\ Shakes("config", "write") /\ packed' = want.cfg /\ (raced' <=> raced /\ Radio!PushWaits)
           /\ UNCHANGED <<up, down, crossed>>
  <2>1. CASE raced
    <3>1. NoCfg(Radio!Unsent)
      BY <1>4, <2>1, UnsentSeq
    <3>2. LastIs(Radio!Unsent, want.cfg)
      BY <3>1 DEF NoCfg, LastIs
    <3> QED BY <1>1, <1>4, <3>2 DEF InForce
  <2>2. CASE ~raced
    BY <1>1, <1>4, <2>2 DEF InForce
  <2> QED BY <2>1, <2>2
<1>5. CASE WritesOne("write", "acked")
  <2>1. Shakes("write", "acked") /\ UNCHANGED <<packed, raced>>
    BY <1>5 DEF WritesOne
  <2>2. PICK f \in Frames : up' = Append(up, f) /\ f.kind = "cfg" /\ f.arg = packed
    BY <1>5 DEF WritesOne
  <2>3. InForce /\ packed = want.cfg
    BY <1>1, <2>1 DEF InForce
  <2>4. LastIs(up', want.cfg) /\ ~NoCfg(up')
    BY <2>2, <2>3, CfgAppend DEF Shape
  <2> QED BY <1>1, <2>1, <2>3, <2>4 DEF InForce
<1>6. CASE WritesOne("cad", "cadacked")
  <2>1. Shakes("cad", "cadacked") /\ UNCHANGED <<packed, raced>>
    BY <1>6 DEF WritesOne
  <2>2. PICK f \in Frames : up' = Append(up, f) /\ f.kind = "cadp"
    BY <1>6 DEF WritesOne
  <2>3. InForce
    BY <1>1, <2>1
  <2>4. /\ LastIs(up, want.cfg) => LastIs(up', want.cfg)
        /\ NoCfg(up') => NoCfg(up)
    BY <2>2, CfgAppend DEF Shape
  <2> QED BY <1>1, <2>1, <2>3, <2>4 DEF InForce
<1>7. CASE Shakes("cadacked", "read") /\ UNCHANGED <<up, down, packed, raced>>
  BY <1>1, <1>7 DEF InForce
<1>8. CASE \/ Reads("hello", "config") \/ Reads("acked", "cad") \/ Reads("acked", "acked")
           \/ Reads("cadacked", "cadacked") \/ Reads("cadacked", "read")
  BY <1>2, <1>8
<1>9. CASE Waits("hello", "config") \/ Waits("cad", "read")
  BY <1>3, <1>9
<1> QED BY <1>4, <1>5, <1>6, <1>7, <1>8, <1>9, Handshaking DEF Shaking

LEMMA ForceAnswering ==
  ASSUME Shape, Answering, InForce PROVE InForce'
<1>1. Radio!Unsent' = Radio!Unsent /\ want' = want
  BY DEF Answering, Radio!Unsent
<1>2. /\ LastIs(up, want.cfg) => LastIs(up', want.cfg)
      /\ NoCfg(up) <=> Head(up).kind # "cfg" /\ NoCfg(up')
      /\ LastIs(up, want.cfg) /\ Head(up).kind = "cfg" /\ NoCfg(up') => Head(up).arg = want.cfg
  BY CfgTail DEF Shape, Answering
<1> QED BY <1>1, <1>2 DEF Answering, InForce

LEMMA ForceSends ==
  ASSUME Shape, Sends, InForce PROVE InForce'
<1>1. queue \in Seq(Commands) /\ queue # <<>> /\ Radio!Unsent = queue
  BY DEF Sends, Radio!Unsent, Shape
<1>2. Radio!Unsent' = Tail(queue) /\ want' = want /\ worker' = worker /\ packed' = packed
  BY DEF Sends, Radio!Unsent
<1>3. /\ NoCfg(queue) <=> Head(queue).kind # "cfg" /\ NoCfg(Tail(queue))
      /\ LastIs(Tail(queue), want.cfg)
      /\ Head(queue).kind = "cfg" /\ NoCfg(Tail(queue)) => Head(queue).arg = want.cfg
  BY <1>1, CfgTail DEF InForce
<1>4. ASSUME linked, initialized, handle, NoCfg(Tail(queue)),
             worker \notin {"hello", "config", "write"}
      PROVE  LastIs(up', want.cfg) /\ (NoCfg(up') => radioModem.cfg = want.cfg)
  <2>1. PICK f \in Frames : /\ f.kind = Head(queue).kind /\ f.arg = Head(queue).arg
                            /\ up' = Append(up, f)
    BY <1>4 DEF Sends
  <2>2. up \in Seq(Frames)
    BY DEF Shape
  <2>3. CASE Head(queue).kind = "cfg"
    BY <1>3, <1>4, <2>1, <2>2, <2>3, CfgAppend
  <2>4. CASE Head(queue).kind # "cfg"
    <3>1. LastIs(up, want.cfg) /\ (NoCfg(up) => radioModem.cfg = want.cfg)
      BY <1>1, <1>3, <1>4, <2>4 DEF InForce
    <3> QED BY <2>1, <2>2, <2>4, <3>1, CfgAppend
  <2> QED BY <2>3, <2>4
<1>5. UNCHANGED <<linked, initialized, handle, radioModem>>
  BY DEF Sends
<1> QED BY <1>2, <1>3, <1>4, <1>5 DEF InForce

LEMMA ForceSets ==
  ASSUME Shape, Sets, ~usb /\ ~raced => InForce, ~usb', ~raced' PROVE InForce'
<1>1. PICK v \in Nat :
        /\ want' = [want EXCEPT !.cfg = v]
        /\ \/ usb /\ UNCHANGED <<queue, raced>>
           \/ /\ initialized /\ (raced' <=> raced \/ worker = "write")
              /\ \E c \in Commands : c.kind = "cfg" /\ c.arg = v /\ queue' = Append(queue, c)
           \/ /\ ~initialized /\ queue' = queue
              /\ (raced' <=> raced \/ worker = "write" \/ Radio!PushWaits)
  BY DEF Sets
<1>2. want'.cfg = v /\ ~usb /\ ~raced /\ worker # "write" /\ worker' = worker
      /\ initialized' = initialized /\ answer' = answer
  BY <1>1 DEF Sets, Shape
<1>3. CASE initialized
  <2>1. PICK c \in Commands : c.kind = "cfg" /\ c.arg = v /\ queue' = Append(queue, c)
    BY <1>1, <1>2, <1>3
  <2>2. Radio!Unsent' = Append(Radio!Unsent, c)
    BY <1>2, <2>1, UnsentAppend
  <2>3. LastIs(Radio!Unsent', v) /\ ~NoCfg(Radio!Unsent')
    BY <2>1, <2>2, UnsentSeq, CfgAppend
  <2> QED BY <1>2, <2>3 DEF InForce
<1>4. CASE ~initialized
  <2>1. queue' = queue /\ ~Radio!PushWaits
    BY <1>1, <1>2, <1>4
  <2>2. Radio!Unsent' = Radio!Unsent
    BY <1>2, <2>1 DEF Radio!Unsent
  <2>3. LastIs(Radio!Unsent, v)
    BY <2>1, UnsentSeq DEF NoCfg, LastIs
  <2> QED BY <1>2, <1>4, <2>2, <2>3 DEF InForce
<1> QED BY <1>3, <1>4

LEMMA ForceEnds ==
  ASSUME Shape, Ends, InForce, ~usb PROVE InForce'
<1>1. /\ queue \in Seq(Commands) /\ queue # <<>> /\ Tail(queue) \in Seq(Commands)
      /\ want'.cfg = want.cfg /\ worker' = worker /\ packed' = packed
      /\ answer'.state = "queued" /\ Radio!Unsent' = queue'
      /\ UNCHANGED <<initialized, handle, linked, radioModem>>
  BY OneUnanswered DEF Ends, Releases, Shape, Radio!Unsent
<1>2. LastIs(Tail(queue), want.cfg)
  BY <1>1, CfgTail DEF InForce, Radio!Unsent
<1>3. LastIs(queue', want.cfg) /\ (NoCfg(queue') <=> NoCfg(Tail(queue)))
  <2>1. CASE queue' = Tail(queue)
    BY <1>2, <2>1
  <2>2. ASSUME NEW c \in Commands, c.kind # "cfg", queue' = Append(Tail(queue), c)
        PROVE  LastIs(queue', want.cfg) /\ (NoCfg(queue') <=> NoCfg(Tail(queue)))
    BY <1>1, <1>2, <2>2, CfgAppend
  <2> QED BY <2>1, <2>2 DEF Ends, Releases
<1>4. /\ LastIs(up, want.cfg) => LastIs(up', want.cfg)
      /\ NoCfg(up') <=> NoCfg(up)
  BY CfgStale DEF Ends, Shape
<1>5. answer.state # "queued" \/ ~handle \/ ~linked
  BY DEF Ends
<1>6. answer.state # "queued" => Radio!Unsent = Tail(queue)
  BY DEF Radio!Unsent
<1> QED BY <1>1, <1>3, <1>4, <1>5, <1>6 DEF InForce

LEMMA ForceStep == ForceInv /\ [Radio!Next]_Radio!vars => ForceInv'
<1> SUFFICES ASSUME ForceInv, [Radio!Next]_Radio!vars PROVE ForceInv'
  OBVIOUS
<1>1. Shape /\ Shape' /\ (~usb /\ ~raced => InForce)
  BY ShapeStep DEF ForceInv
<1> SUFFICES ASSUME ~usb', ~raced' PROVE InForce'
  BY <1>1 DEF ForceInv
<1>2. CASE UNCHANGED Radio!vars
  BY <1>1, <1>2
    DEF Radio!vars, Radio!life, Radio!link, Radio!commands, Radio!past, InForce, Radio!Unsent
<1>3. CASE Loses \/ Breaks
  <2>1. /\ InForce /\ Radio!Unsent' = Radio!Unsent /\ want' = want /\ packed' = packed
        /\ worker' = worker \/ worker' = "backoff"
        /\ ~linked'
    BY <1>1, <1>3 DEF Loses, Breaks, Radio!Unsent
  <2> QED BY <2>1 DEF InForce
<1>4. CASE Takes
  <2>1. answer'.state = "queued" <=> answer.state = "queued"
    BY <1>4 DEF Takes
  <2>2. InForce /\ Radio!Unsent' = Radio!Unsent
    BY <1>1, <1>4, <2>1 DEF Takes, Radio!Unsent
  <2> QED BY <1>4, <2>2 DEF Takes, InForce
<1>5. CASE Begins
  <2>1. /\ InForce /\ Radio!Unsent' = Radio!Unsent /\ want' = want /\ worker' = "read" /\ up' = <<>>
        /\ radioModem'.cfg = want.cfg \/ ~handle'
    BY <1>1, <1>5 DEF Begins, Radio!Unsent, Shape
  <2> QED BY <2>1, CfgEmpty DEF InForce
<1>6. CASE Stops
  <2>1. InForce /\ Radio!Unsent' = Radio!Unsent
    BY <1>1, <1>6 DEF Stops, Radio!Unsent
  <2>2. initialized' => initialized
    BY <1>6 DEF Stops
  <2>3. worker' = worker \/ (worker' = "none" /\ worker \in {"read", "backoff"})
    BY <1>6 DEF Stops
  <2> QED BY <1>6, <2>1, <2>2, <2>3 DEF Stops, InForce
<1>7. CASE Reopening
  <2>1. InForce /\ Radio!Unsent' = Radio!Unsent /\ worker' = "hello"
    BY <1>1, <1>7 DEF Reopening, Radio!Unsent
  <2> QED BY <1>7, <2>1 DEF Reopening, InForce
<1>8. CASE Queues
  BY <1>1, <1>8, ForceQueues
<1>9. CASE Shaking
  BY <1>1, <1>9, ForceShakes
<1>10. CASE Answering
  BY <1>1, <1>10, ForceAnswering DEF Answering
<1>11. CASE Sends
  BY <1>1, <1>11, ForceSends DEF Sends
<1>12. CASE Sets
  BY <1>1, <1>12, ForceSets
<1>13. CASE Ends
  BY <1>1, <1>13, ForceEnds DEF Ends, Releases
<1> QED BY <1>1, <1>2, <1>3, <1>4, <1>5, <1>6, <1>7, <1>8, <1>9, <1>10, <1>11, <1>12, <1>13,
           Effects

(* ConfigInForce holds of the TCP radio for any number of setters, drops   *)
(* and commands: once it serves with nothing on its way, the modem runs    *)
(* the settings in memory, unless a setter raced the handshake or an       *)
(* earlier push outlived cleanup.                                          *)
THEOREM RadioConfigured == Radio!Spec => []ConfigInForce
<1>1. Radio!Init => ForceInv
  <2> SUFFICES ASSUME Radio!Init PROVE ForceInv
    OBVIOUS
  <2>1. Radio!Unsent = <<>>
    BY OneUnanswered DEF Radio!Init, Radio!Unsent
  <2> QED BY <2>1, ShapeInit, CfgEmpty DEF Radio!Init, ForceInv, InForce
<1>2. ForceInv => ConfigInForce
  <2> SUFFICES ASSUME ForceInv, Radio!Quiescent, ~usb, ~raced PROVE radioModem.cfg = want.cfg
    BY DEF ConfigInForce, Radio!ConfigInForce
  <2>1. Radio!Unsent = <<>>
    BY DEF ForceInv, Shape, Radio!Quiescent, Radio!Unsent
  <2> QED BY <2>1, CfgEmpty DEF ForceInv, InForce, Radio!Quiescent, Radio!Serving
<1> QED BY <1>1, <1>2, ForceStep, PTL DEF Radio!Spec
=============================================================================
