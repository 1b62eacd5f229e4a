-------------------------- MODULE SendFunnelProofs --------------------------
(***************************************************************************)
(* Proofs about SendFunnel, for any number of sends and ACK checksums and  *)
(* any timeouts; and about Inbox, for any messages, any sizes of its       *)
(* caches and its queue, and any TTL.                                      *)
(***************************************************************************)
EXTENDS Messages, FiniteSetTheorems, TLAPS

\* Leaves are tried with Zenon first and then with the SMT solver.
USE ZenonT(1), SMTT(20), ZenonT(20)

(* A call under way knows the CRC it expects.                              *)
CrcKnown == \A t \in Tasks : pc[t] \notin {"new", "done"} => crc[t] \in Crcs

(* Only a call in its ACK wait has an event that is set.                   *)
FiredAwaits == \A t \in fired : pc[t] \in Awaiting

(* A call awaiting an ACK that is in the cache has its event set; and when *)
(* it is inside wait_for, no tick has passed since that ACK.               *)
CacheFires ==
  \A t \in Tasks : pc[t] \in Awaiting /\ crc[t] \in cached =>
    /\ t \in fired
    /\ pc[t] = "wait" => age[crc[t]] = 0

(* The inductive invariant.                                                *)
IInv ==
  /\ TypeOK /\ OneTransmission /\ WaiterTableExact /\ EchoIsDuplicate
  /\ CrcKnown /\ FiredAwaits /\ CacheFires

LEMMA InitInv == Init => IInv
<1> SUFFICES ASSUME Init PROVE IInv
  OBVIOUS
<1>1. TypeOK
  <2>1. 0 \in 0..AckTtl /\ 0 \in 0..AckTimeout
    BY TimesAssumption
  <2>2. "new" \in Places
    BY DEF Places
  <2>3. queue \in Seq(Tasks)
    BY DEF Init
  <2> QED
    BY <2>1, <2>2, <2>3 DEF Init, TypeOK
<1>2. OneTransmission
  BY NoTaskAssumption DEF Init, OneTransmission, InFunnel
<1>3. WaiterTableExact
  BY DEF Init, WaiterTableExact, MarksDoNotRetransmit, Awaiting
<1>4. EchoIsDuplicate /\ CrcKnown /\ FiredAwaits /\ CacheFires
  BY DEF Init, EchoIsDuplicate, CrcKnown, FiredAwaits, CacheFires, InFunnel,
         Awaiting
<1> QED
  BY <1>1, <1>2, <1>3, <1>4 DEF IInv

(* The end of an ACK wait, however it ends, keeps the invariant.           *)
LEMMA LeaveWaitInv ==
  ASSUME IInv, NEW t \in Tasks, pc[t] \in Awaiting,
         NEW r \in {"true", "false", "cancelled"}, LeaveWait(t, r)
  PROVE  IInv'
<1> USE DEF IInv, InFunnel, Awaiting, Queued
<1>0. crc[t] \in Crcs
  BY DEF CrcKnown, TypeOK
<1>1. TypeOK'
  BY <1>0, NoTaskAssumption, TimesAssumption DEF LeaveWait, DiscardAckWaiter, Return, Goto,
      lockVars, callVars, ackVars, TypeOK, Places
<1>2. OneTransmission'
  BY <1>0, NoTaskAssumption DEF LeaveWait, DiscardAckWaiter, Return, Goto,
      lockVars, callVars, ackVars, TypeOK, OneTransmission, CrcKnown
<1>3. WaiterTableExact'
  BY <1>0 DEF LeaveWait, DiscardAckWaiter, Return, Goto,
      lockVars, callVars, ackVars, TypeOK, WaiterTableExact, MarksDoNotRetransmit, CrcKnown,
         FiredAwaits
<1>4. EchoIsDuplicate' /\ CrcKnown' /\ FiredAwaits'
  BY <1>0 DEF LeaveWait, DiscardAckWaiter, Return, Goto,
      lockVars, callVars, ackVars, TypeOK, EchoIsDuplicate, CrcKnown, FiredAwaits,
         WaiterTableExact
<1>5. CacheFires'
  BY <1>0, TimesAssumption DEF LeaveWait, DiscardAckWaiter, Return, Goto,
      lockVars, callVars, ackVars, TypeOK, CacheFires, CrcKnown, WaiterTableExact,
         FiredAwaits
<1> QED
  BY <1>1, <1>2, <1>3, <1>4, <1>5

(* A call that ends without ever having waited for an ACK.                 *)
LEMMA EndEarlyInv ==
  ASSUME IInv, NEW t \in Tasks, pc[t] \notin Awaiting,
         NEW r \in {"true", "false", "raised", "cancelled"}, Return(t, r),
         owner' = IF pc[t] \in InFunnel THEN NoTask ELSE owner,
         queue' \in Seq(Tasks),
         UNCHANGED <<callVars, seen, ackVars, waited, pruned, clientRepeat>>
  PROVE  IInv'
<1> USE DEF IInv, InFunnel, Awaiting, Queued
<1>1. TypeOK'
  BY NoTaskAssumption, TimesAssumption DEF Return, Goto,
      lockVars, callVars, ackVars, TypeOK, Places
<1>2. OneTransmission'
  BY NoTaskAssumption DEF Return, Goto,
      lockVars, callVars, ackVars, TypeOK, OneTransmission, CrcKnown
<1>3. WaiterTableExact'
  BY DEF Return, Goto,
      lockVars, callVars, ackVars, TypeOK, WaiterTableExact, MarksDoNotRetransmit, CrcKnown,
         FiredAwaits
<1>4. EchoIsDuplicate' /\ CrcKnown' /\ FiredAwaits'
  BY DEF Return, Goto,
      lockVars, callVars, ackVars, TypeOK, EchoIsDuplicate, CrcKnown, FiredAwaits,
         WaiterTableExact
<1>5. CacheFires'
  BY TimesAssumption DEF Return, Goto,
      lockVars, callVars, ackVars, TypeOK, CacheFires, CrcKnown, WaiterTableExact,
         FiredAwaits
<1> QED
  BY <1>1, <1>2, <1>3, <1>4, <1>5

(* The end of a successful transmission keeps the invariant.               *)
LEMMA TransmittedInv ==
  ASSUME IInv, NEW t \in Tasks, pc[t] \in InFunnel, Transmitted(t),
         UNCHANGED <<callVars, queue, seen, cached, age, waited, pruned,
                     clientRepeat>>
  PROVE  IInv'
<1> USE DEF IInv, InFunnel, Awaiting, Queued, callVars
<1>1. CASE t \notin acked
  <2>1. Return(t, "true") /\ owner' = IF pc[t] \in InFunnel THEN NoTask ELSE owner
    BY <1>1 DEF Transmitted
  <2>2. UNCHANGED <<callVars, seen, ackVars, waited, pruned, clientRepeat>>
    BY <1>1 DEF Transmitted, ackVars
  <2>3. queue' \in Seq(Tasks)
    BY DEF TypeOK
  <2> QED
    BY <2>1, <2>2, <2>3, EndEarlyInv
<1>2. CASE t \in acked
  <2>0. /\ crc[t] \in Crcs /\ owner' = NoTask /\ Goto(t, "delay")
        /\ ExpectAck(t) /\ UNCHANGED result
    BY <1>2 DEF CrcKnown, TypeOK, Transmitted
  <2>1. TypeOK'
    BY <2>0 DEF ExpectAck, Goto, TypeOK, Places
  <2>2. OneTransmission'
    BY <2>0, NoTaskAssumption DEF Goto, TypeOK, OneTransmission
  <2>3. WaiterTableExact'
    BY <2>0 DEF ExpectAck, Goto, TypeOK, WaiterTableExact, MarksDoNotRetransmit
  <2>4. EchoIsDuplicate' /\ CrcKnown' /\ FiredAwaits'
    BY <2>0 DEF ExpectAck, Goto, TypeOK, EchoIsDuplicate, CrcKnown, FiredAwaits
  <2>5. CacheFires'
    BY <2>0 DEF ExpectAck, Goto, TypeOK, CacheFires
  <2> QED
    BY <2>1, <2>2, <2>3, <2>4, <2>5
<1> QED
  BY <1>1, <1>2

(* Entering the locked section, or being turned away from it, keeps it.    *)
LEMMA UnderLockInv ==
  ASSUME IInv, NEW t \in Tasks, pc[t] \in {"new", "throttle"} \cup Queued,
         owner = NoTask, NEW gated \in BOOLEAN, UnderLock(t, gated),
         queue' \in Seq(Tasks), acked' \subseteq Tasks,
         NEW k \in Crcs, crc' = [crc EXCEPT ![t] = k],
         UNCHANGED <<ackVars, waited, pruned, clientRepeat>>
  PROVE  IInv'
<1> USE DEF IInv, InFunnel, Awaiting, Queued
<1>1. TypeOK'
  BY NoTaskAssumption, TimesAssumption DEF UnderLock, StartTransmit, Return, Goto,
      lockVars, callVars, ackVars, TypeOK, Places
<1>2. OneTransmission'
  BY NoTaskAssumption DEF UnderLock, StartTransmit, Return, Goto,
      lockVars, callVars, ackVars, TypeOK, OneTransmission, CrcKnown
<1>3. WaiterTableExact'
  BY DEF UnderLock, StartTransmit, Return, Goto,
      lockVars, callVars, ackVars, TypeOK, WaiterTableExact, MarksDoNotRetransmit, CrcKnown,
         FiredAwaits
<1>4. EchoIsDuplicate' /\ CrcKnown' /\ FiredAwaits'
  <2>1. PICK place \in {"radio", "done", "throttle"} :
          /\ pc' = [pc EXCEPT ![t] = place]
          /\ seen' = IF place = "throttle" THEN seen ELSE seen \cup {t}
    BY DEF UnderLock, StartTransmit, Return, Goto
  <2> QED
    BY <2>1 DEF ackVars, TypeOK, EchoIsDuplicate, CrcKnown, FiredAwaits
<1>5. CacheFires'
  BY TimesAssumption DEF UnderLock, StartTransmit, Return, Goto,
      lockVars, callVars, ackVars, TypeOK, CacheFires, CrcKnown, WaiterTableExact,
         FiredAwaits
<1> QED
  BY <1>1, <1>2, <1>3, <1>4, <1>5

(* So does parking on the lock.                                            *)
LEMMA ParkInv ==
  ASSUME IInv, NEW t \in Tasks, pc[t] \in {"new", "throttle"},
         NEW place \in {"throttle"} \cup Queued, Goto(t, place),
         queue' \in Seq(Tasks), acked' \subseteq Tasks,
         NEW k \in Crcs, crc' = [crc EXCEPT ![t] = k],
         UNCHANGED <<owner, seen, result, ackVars, waited, pruned, clientRepeat>>
  PROVE  IInv'
<1> USE DEF IInv, InFunnel, Awaiting, Queued
<1>1. TypeOK'
  BY NoTaskAssumption, TimesAssumption DEF Goto,
      lockVars, callVars, ackVars, TypeOK, Places
<1>2. OneTransmission'
  BY NoTaskAssumption DEF Goto,
      lockVars, callVars, ackVars, TypeOK, OneTransmission, CrcKnown
<1>3. WaiterTableExact'
  BY DEF Goto,
      lockVars, callVars, ackVars, TypeOK, WaiterTableExact, MarksDoNotRetransmit, CrcKnown,
         FiredAwaits
<1>4. EchoIsDuplicate' /\ CrcKnown' /\ FiredAwaits'
  BY DEF Goto,
      lockVars, callVars, ackVars, TypeOK, EchoIsDuplicate, CrcKnown, FiredAwaits,
         WaiterTableExact
<1>5. CacheFires'
  BY TimesAssumption DEF Goto,
      lockVars, callVars, ackVars, TypeOK, CacheFires, CrcKnown, WaiterTableExact,
         FiredAwaits
<1> QED
  BY <1>1, <1>2, <1>3, <1>4, <1>5

LEMMA StepInv == IInv /\ [Next]_vars => IInv'
<1> SUFFICES ASSUME IInv, [Next]_vars PROVE IInv'
  OBVIOUS
<1> USE DEF Queued, InFunnel, Awaiting
<1>1. ASSUME NEW t \in Tasks, SendPacket(t) PROVE IInv'
  <2>1. PICK k \in Crcs : crc' = [crc EXCEPT ![t] = k]
    BY <1>1 DEF SendPacket
  <2>2. pc[t] = "new" /\ acked' \subseteq Tasks /\ clientRepeat \in BOOLEAN
        /\ queue \in Seq(Tasks)
    BY <1>1 DEF SendPacket, IInv, TypeOK
  <2>3. CASE TakeLock(t, clientRepeat)
    <3>1. CASE owner = NoTask /\ queue = <<>>
      BY <1>1, <2>1, <2>2, <2>3, <3>1, UnderLockInv DEF SendPacket, TakeLock
    <3>2. CASE ~(owner = NoTask /\ queue = <<>>)
      <4>1. queue' \in Seq(Tasks)
        BY <2>2, <2>3, <3>2 DEF TakeLock
      <4> QED
        BY <1>1, <2>1, <2>2, <2>3, <3>2, <4>1, ParkInv DEF SendPacket, TakeLock
    <3> QED
      BY <3>1, <3>2
  <2>4. CASE clientRepeat /\ Goto(t, "throttle")
             /\ UNCHANGED <<lockVars, seen, result>>
    BY <1>1, <2>1, <2>2, <2>4, ParkInv DEF SendPacket, lockVars
  <2> QED
    BY <1>1, <2>3, <2>4 DEF SendPacket
<1>2. ASSUME NEW t \in Tasks, ThrottleOver(t) PROVE IInv'
  <2>1. pc[t] = "throttle" /\ crc[t] \in Crcs /\ crc' = [crc EXCEPT ![t] = crc[t]]
        /\ acked' \subseteq Tasks /\ queue \in Seq(Tasks)
    BY <1>2 DEF ThrottleOver, IInv, CrcKnown, TypeOK, callVars
  <2>2. CASE owner = NoTask /\ queue = <<>>
    BY <1>2, <2>1, <2>2, UnderLockInv DEF ThrottleOver, TakeLock
  <2>3. CASE ~(owner = NoTask /\ queue = <<>>)
    <3>1. queue' = Append(queue, t)
      BY <1>2, <2>3 DEF ThrottleOver, TakeLock
    <3>2. queue' \in Seq(Tasks)
      BY <2>1, <3>1
    <3> QED
      BY <1>2, <2>1, <2>3, <3>2, ParkInv DEF ThrottleOver, TakeLock
  <2> QED
    BY <2>2, <2>3
<1>3. ASSUME NEW t \in Tasks, Granted(t) PROVE IInv'
  <2>1. pc[t] \in Queued /\ crc[t] \in Crcs /\ crc' = [crc EXCEPT ![t] = crc[t]]
        /\ acked' \subseteq Tasks /\ owner = NoTask
    BY <1>3 DEF Granted, IInv, CrcKnown, TypeOK, callVars
  <2>2. queue' \in Seq(Tasks)
    BY <1>3 DEF Granted, IInv, TypeOK
  <2>3. (pc[t] = "gatedQueue") \in BOOLEAN
    OBVIOUS
  <2> QED
    BY <1>3, <2>1, <2>2, <2>3, UnderLockInv DEF Granted
<1>4. ASSUME NEW t \in Tasks,
             \/ RefuseFloodTrace(t) \/ RadioFailed(t) \/ CallbackRaised(t)
             \/ CancelQueued(t) \/ CancelFunnel(t)
      PROVE  IInv'
  <2>0. queue \in Seq(Tasks)
    BY DEF IInv, TypeOK
  <2>1. queue' \in Seq(Tasks)
    <3>1. CASE CancelQueued(t)
      <4>1. PICK i \in 1..Len(queue) :
              queue' = SubSeq(queue, 1, i - 1) \o SubSeq(queue, i + 1, Len(queue))
        BY <3>1 DEF CancelQueued, LeaveQueue
      <4>2. SubSeq(queue, 1, i - 1) \in Seq(Tasks)
        BY <2>0
      <4>3. SubSeq(queue, i + 1, Len(queue)) \in Seq(Tasks)
        BY <2>0
      <4> QED
        BY <4>1, <4>2, <4>3
    <3> QED
      BY <1>4, <2>0, <3>1 DEF RefuseFloodTrace, RadioFailed, CallbackRaised,
           CancelFunnel, lockVars
  <2>2. CASE RefuseFloodTrace(t)
    BY <2>1, <2>2, EndEarlyInv DEF RefuseFloodTrace, lockVars
  <2>3. CASE RadioFailed(t) \/ CallbackRaised(t)
    BY <2>1, <2>3, EndEarlyInv DEF RadioFailed, CallbackRaised
  <2>4. CASE CancelQueued(t)
    BY <2>1, <2>4, EndEarlyInv DEF CancelQueued
  <2>5. CASE CancelFunnel(t)
    BY <2>1, <2>5, EndEarlyInv DEF CancelFunnel
  <2> QED
    BY <1>4, <2>2, <2>3, <2>4, <2>5
<1>5. ASSUME NEW t \in Tasks, RadioSent(t) \/ CallbackDone(t) PROVE IInv'
  <2>1. CASE Transmitted(t)
    BY <1>5, <2>1, TransmittedInv DEF RadioSent, CallbackDone
  <2>2. CASE RadioSent(t) /\ Goto(t, "callback")
             /\ UNCHANGED <<owner, result, keys, waiters, fired>>
  <3>1. TypeOK'
    BY <2>2, NoTaskAssumption, TimesAssumption DEF RadioSent, Goto, IInv,
        lockVars, callVars, ackVars, TypeOK, Places
  <3>2. OneTransmission'
    BY <2>2, NoTaskAssumption DEF RadioSent, Goto, IInv,
        lockVars, callVars, ackVars, TypeOK, OneTransmission, CrcKnown
  <3>3. WaiterTableExact'
    BY <2>2 DEF RadioSent, Goto, IInv,
        lockVars, callVars, ackVars, TypeOK, WaiterTableExact, MarksDoNotRetransmit, CrcKnown,
           FiredAwaits
  <3>4. EchoIsDuplicate' /\ CrcKnown' /\ FiredAwaits'
    BY <2>2 DEF RadioSent, Goto, IInv,
        lockVars, callVars, ackVars, TypeOK, EchoIsDuplicate, CrcKnown, FiredAwaits,
           WaiterTableExact
  <3>5. CacheFires'
    BY <2>2, TimesAssumption DEF RadioSent, Goto, IInv,
        lockVars, callVars, ackVars, TypeOK, CacheFires, CrcKnown, WaiterTableExact,
           FiredAwaits
  <3> QED
    BY <3>1, <3>2, <3>3, <3>4, <3>5 DEF IInv
  <2> QED
    BY <1>5, <2>1, <2>2 DEF RadioSent, CallbackDone
<1>6. ASSUME NEW t \in Tasks, DelayOver(t) PROVE IInv'
  <2>1. CASE t \in fired
    BY <1>6, <2>1, LeaveWaitInv DEF DelayOver
  <2>2. CASE t \notin fired
  <3>1. TypeOK'
    BY <1>6, <2>2, NoTaskAssumption, TimesAssumption DEF DelayOver, Goto, IInv,
        lockVars, callVars, ackVars, TypeOK, Places
  <3>2. OneTransmission'
    BY <1>6, <2>2, NoTaskAssumption DEF DelayOver, Goto, IInv,
        lockVars, callVars, ackVars, TypeOK, OneTransmission, CrcKnown
  <3>3. WaiterTableExact'
    BY <1>6, <2>2 DEF DelayOver, Goto, IInv,
        lockVars, callVars, ackVars, TypeOK, WaiterTableExact, MarksDoNotRetransmit, CrcKnown,
           FiredAwaits
  <3>4. EchoIsDuplicate' /\ CrcKnown' /\ FiredAwaits'
    BY <1>6, <2>2 DEF DelayOver, Goto, IInv,
        lockVars, callVars, ackVars, TypeOK, EchoIsDuplicate, CrcKnown, FiredAwaits,
           WaiterTableExact
  <3>5. CacheFires'
    BY <1>6, <2>2, TimesAssumption DEF DelayOver, Goto, IInv,
        lockVars, callVars, ackVars, TypeOK, CacheFires, CrcKnown, WaiterTableExact,
           FiredAwaits
  <3> QED
    BY <3>1, <3>2, <3>3, <3>4, <3>5 DEF IInv
  <2> QED
    BY <2>1, <2>2
<1>7. ASSUME NEW t \in Tasks, AckWakes(t) \/ AckTimesOut(t) \/ CancelWait(t)
      PROVE  IInv'
  BY <1>7, LeaveWaitInv DEF AckWakes, AckTimesOut, CancelWait
<1>8. ASSUME NEW c \in Crcs, AckReceived(c) PROVE IInv'
  <2>1. TypeOK'
    BY <1>8, NoTaskAssumption, TimesAssumption DEF AckReceived, IInv,
      lockVars, callVars, ackVars, TypeOK, Places
  <2>2. OneTransmission'
    BY <1>8, NoTaskAssumption DEF AckReceived, IInv,
      lockVars, callVars, ackVars, TypeOK, OneTransmission, CrcKnown
  <2>3. WaiterTableExact'
    BY <1>8 DEF AckReceived, IInv,
      lockVars, callVars, ackVars, TypeOK, WaiterTableExact, MarksDoNotRetransmit, CrcKnown,
           FiredAwaits
  <2>4. EchoIsDuplicate' /\ CrcKnown' /\ FiredAwaits'
    BY <1>8 DEF AckReceived, IInv,
      lockVars, callVars, ackVars, TypeOK, EchoIsDuplicate, CrcKnown, FiredAwaits,
           WaiterTableExact
  <2>5. CacheFires'
    BY <1>8, TimesAssumption DEF AckReceived, IInv,
      lockVars, callVars, ackVars, TypeOK, CacheFires, CrcKnown, WaiterTableExact,
           FiredAwaits
  <2> QED
    BY <2>1, <2>2, <2>3, <2>4, <2>5 DEF IInv
<1>9. CASE PruneAcks
  <2>1. TypeOK'
    BY <1>9, NoTaskAssumption, TimesAssumption DEF PruneAcks, IInv,
      lockVars, callVars, ackVars, TypeOK, Places
  <2>2. OneTransmission'
    BY <1>9, NoTaskAssumption DEF PruneAcks, IInv,
      lockVars, callVars, ackVars, TypeOK, OneTransmission, CrcKnown
  <2>3. WaiterTableExact'
    BY <1>9 DEF PruneAcks, IInv,
      lockVars, callVars, ackVars, TypeOK, WaiterTableExact, MarksDoNotRetransmit, CrcKnown,
           FiredAwaits
  <2>4. EchoIsDuplicate' /\ CrcKnown' /\ FiredAwaits'
    BY <1>9 DEF PruneAcks, IInv,
      lockVars, callVars, ackVars, TypeOK, EchoIsDuplicate, CrcKnown, FiredAwaits,
           WaiterTableExact
  <2>5. CacheFires'
    BY <1>9, TimesAssumption DEF PruneAcks, IInv,
      lockVars, callVars, ackVars, TypeOK, CacheFires, CrcKnown, WaiterTableExact,
           FiredAwaits
  <2> QED
    BY <2>1, <2>2, <2>3, <2>4, <2>5 DEF IInv
<1>10. CASE Tick
  <2>1. TypeOK'
    <3>1. age' \in [Crcs -> 0..AckTtl]
      BY <1>10, TimesAssumption DEF Tick, IInv, TypeOK
    <3>2. waited' \in [Tasks -> 0..AckTimeout]
      BY <1>10, TimesAssumption DEF Tick, IInv, TypeOK
    <3> QED
      BY <1>10, <3>1, <3>2 DEF Tick, IInv, TypeOK, lockVars, callVars
  <2>2. OneTransmission'
    BY <1>10, NoTaskAssumption DEF Tick, IInv,
      lockVars, callVars, ackVars, TypeOK, OneTransmission, CrcKnown
  <2>3. WaiterTableExact'
    BY <1>10 DEF Tick, IInv,
      lockVars, callVars, ackVars, TypeOK, WaiterTableExact, MarksDoNotRetransmit, CrcKnown,
           FiredAwaits
  <2>4. EchoIsDuplicate' /\ CrcKnown' /\ FiredAwaits'
    BY <1>10 DEF Tick, IInv,
      lockVars, callVars, ackVars, TypeOK, EchoIsDuplicate, CrcKnown, FiredAwaits,
           WaiterTableExact
  <2>5. CacheFires'
    BY <1>10, TimesAssumption DEF Tick, IInv,
      lockVars, callVars, ackVars, TypeOK, CacheFires, CrcKnown, WaiterTableExact,
           FiredAwaits
  <2> QED
    BY <2>1, <2>2, <2>3, <2>4, <2>5 DEF IInv
<1>11. CASE SetClientRepeat
  <2>1. TypeOK'
    BY <1>11, NoTaskAssumption, TimesAssumption DEF SetClientRepeat, IInv,
      lockVars, callVars, ackVars, TypeOK, Places
  <2>2. OneTransmission'
    BY <1>11, NoTaskAssumption DEF SetClientRepeat, IInv,
      lockVars, callVars, ackVars, TypeOK, OneTransmission, CrcKnown
  <2>3. WaiterTableExact'
    BY <1>11 DEF SetClientRepeat, IInv,
      lockVars, callVars, ackVars, TypeOK, WaiterTableExact, MarksDoNotRetransmit, CrcKnown,
           FiredAwaits
  <2>4. EchoIsDuplicate' /\ CrcKnown' /\ FiredAwaits'
    BY <1>11 DEF SetClientRepeat, IInv,
      lockVars, callVars, ackVars, TypeOK, EchoIsDuplicate, CrcKnown, FiredAwaits,
           WaiterTableExact
  <2>5. CacheFires'
    BY <1>11, TimesAssumption DEF SetClientRepeat, IInv,
      lockVars, callVars, ackVars, TypeOK, CacheFires, CrcKnown, WaiterTableExact,
           FiredAwaits
  <2> QED
    BY <2>1, <2>2, <2>3, <2>4, <2>5 DEF IInv
<1>12. CASE UNCHANGED vars
  <2>1. TypeOK'
    BY <1>12, NoTaskAssumption, TimesAssumption DEF vars, IInv,
      lockVars, callVars, ackVars, TypeOK, Places
  <2>2. OneTransmission'
    BY <1>12, NoTaskAssumption DEF vars, IInv,
      lockVars, callVars, ackVars, TypeOK, OneTransmission, CrcKnown
  <2>3. WaiterTableExact'
    BY <1>12 DEF vars, IInv,
      lockVars, callVars, ackVars, TypeOK, WaiterTableExact, MarksDoNotRetransmit, CrcKnown,
           FiredAwaits
  <2>4. EchoIsDuplicate' /\ CrcKnown' /\ FiredAwaits'
    BY <1>12 DEF vars, IInv,
      lockVars, callVars, ackVars, TypeOK, EchoIsDuplicate, CrcKnown, FiredAwaits,
           WaiterTableExact
  <2>5. CacheFires'
    BY <1>12, TimesAssumption DEF vars, IInv,
      lockVars, callVars, ackVars, TypeOK, CacheFires, CrcKnown, WaiterTableExact,
           FiredAwaits
  <2> QED
    BY <2>1, <2>2, <2>3, <2>4, <2>5 DEF IInv
<1> QED
  BY <1>1, <1>2, <1>3, <1>4, <1>5, <1>6, <1>7, <1>8, <1>9, <1>10, <1>11, <1>12
  DEF Next, TaskStep, Cancel

(* The invariant holds in every reachable state.                           *)
LEMMA Invariance == Spec => []IInv
  BY InitInv, StepInv, PTL DEF Spec

(* Every variable of the transmit path keeps its type.                     *)
THEOREM TypeCorrect == Spec => []TypeOK
<1>1. IInv => TypeOK
  BY DEF IInv
<1> QED
  BY <1>1, Invariance, PTL

(* However many sends overlap, and wherever they fail or are cancelled, at *)
(* most one is between radio.send and the release of _tx_lock, and it is   *)
(* the owner of the lock.                                                  *)
THEOREM MutualExclusion == Spec => []OneTransmission
<1>1. IInv => OneTransmission
  BY DEF IInv
<1> QED
  BY <1>1, Invariance, PTL

(* _waiting_acks never leaks a waiter, never loses one and never keeps an  *)
(* empty key.                                                              *)
THEOREM WaiterTable == Spec => []WaiterTableExact
<1>1. IInv => WaiterTableExact
  BY DEF IInv
<1> QED
  BY <1>1, Invariance, PTL

(* A node's own packet is in the packet filter before it can be echoed.    *)
THEOREM OwnEcho == Spec => []EchoIsDuplicate
<1>1. IInv => EchoIsDuplicate
  BY DEF IInv
<1> QED
  BY <1>1, Invariance, PTL

(* A send times out only when no ACK of an earlier tick is cached for it.  *)
THEOREM NoFalseTimeout == Spec => NoTimeoutWithAckInHand
<1>1. IInv => \A t \in Tasks :
        pc[t] = "wait" => ~(crc[t] \in cached /\ age[crc[t]] > 0)
  BY DEF IInv, CacheFires, Awaiting
<1>2. IInv => \A t \in Tasks :
        pc[t] = "wait" /\ pc'[t] = "done" /\ result'[t] = "false" =>
          ~(crc[t] \in cached /\ age[crc[t]] > 0)
  BY <1>1
<1> QED
  BY <1>2, Invariance, PTL DEF NoTimeoutWithAckInHand

(* A task leaves _waiting_acks only by being acknowledged or by ending.    *)
THEOREM CoWaiters == Spec => CoWaitersKept
<1> DEFINE Kept == \A t \in Tasks, c \in Crcs :
      t \in waiters[c] /\ t \notin waiters'[c] => t \in fired' \/ pc'[t] = "done"
<1>1. ASSUME IInv, [Next]_vars PROVE Kept
  <2>1. CASE UNCHANGED waiters
    BY <2>1
  <2>2. ASSUME NEW t \in Tasks, NEW r, LeaveWait(t, r) PROVE Kept
    <3>1. waiters' = [waiters EXCEPT ![crc[t]] = waiters[crc[t]] \ {t}]
          /\ pc' = [pc EXCEPT ![t] = "done"]
      BY <2>2 DEF LeaveWait, DiscardAckWaiter, Return, Goto
    <3> QED
      BY <1>1, <3>1 DEF IInv, TypeOK
  <2>3. ASSUME NEW t \in Tasks, Transmitted(t) PROVE Kept
    <3>1. UNCHANGED waiters
          \/ waiters' = [waiters EXCEPT ![crc[t]] = waiters[crc[t]] \cup {t}]
      BY <2>3 DEF Transmitted, ExpectAck
    <3> QED
      BY <1>1, <3>1 DEF IInv, TypeOK
  <2>4. ASSUME NEW c \in Crcs, AckReceived(c) PROVE Kept
    BY <1>1, <2>4 DEF AckReceived, IInv, TypeOK
  <2>5. ASSUME NEW t \in Tasks, TaskStep(t) \/ Cancel(t) PROVE Kept
    BY <2>1, <2>2, <2>3, <2>5
    DEF TaskStep, Cancel, RefuseFloodTrace, SendPacket, ThrottleOver, Granted,
        RadioFailed, RadioSent, CallbackDone, CallbackRaised, DelayOver, AckWakes,
        AckTimesOut, CancelWait, CancelQueued, CancelFunnel, ackVars
  <2>6. CASE PruneAcks \/ Tick \/ SetClientRepeat \/ UNCHANGED vars
    BY <2>1, <2>6 DEF PruneAcks, Tick, SetClientRepeat, vars, ackVars
  <2> QED
    BY <1>1, <2>4, <2>5, <2>6 DEF Next
<1> QED
  BY <1>1, Invariance, PTL DEF Spec, CoWaitersKept

-----------------------------------------------------------------------------
(* The refinement of SendPromise.                                          *)

(* A call that moves changes the phase of no other.                        *)
LEMMA PhaseMoves ==
  ASSUME TypeOK, NEW t \in Tasks, NEW place, Goto(t, place)
  PROVE  Promise!Move(t, PhaseOf(place))
  BY DEF TypeOK, Goto, Promise!Move

LEMMA PhaseEnds ==
  ASSUME TypeOK, NEW t \in Tasks, NEW r, Return(t, r)
  PROVE  Promise!End(t, r)
<1>1. PhaseOf("done") = "ended"
  BY DEF PhaseOf, Queued, InFunnel, Awaiting
<1> QED
  BY <1>1, PhaseMoves DEF Return, Promise!End

LEMMA Phases ==
  ASSUME NEW place \in Places
  PROVE  /\ PhaseOf(place) = "idle" <=> place = "new"
         /\ PhaseOf(place) = "asked" <=> place \in {"throttle"} \cup Queued
         /\ PhaseOf(place) = "onair" <=> place \in InFunnel
         /\ PhaseOf(place) = "awaiting" <=> place \in Awaiting
  BY DEF PhaseOf, Places, Queued, InFunnel, Awaiting

LEMMA InitRefines == Init => Promise!Init
<1> SUFFICES ASSUME Init PROVE Promise!Init
  OBVIOUS
<1>1. PhaseOf("new") = "idle"
  BY DEF PhaseOf, Queued, InFunnel, Awaiting
<1>2. [t \in Tasks |-> PhaseOf(pc[t])] = [t \in Tasks |-> "idle"]
  BY <1>1 DEF Init
<1> QED
  BY <1>2 DEF Init, Promise!Init

(* The phase of each call, read off the abstract variable.                 *)
LEMMA PhaseRead ==
  ASSUME TypeOK, NEW t \in Tasks
  PROVE  LET ph == [u \in Tasks |-> PhaseOf(pc[u])]
         IN  /\ ph[t] = "idle" <=> pc[t] = "new"
             /\ ph[t] = "asked" <=> pc[t] \in {"throttle"} \cup Queued
             /\ ph[t] = "onair" <=> pc[t] \in InFunnel
             /\ ph[t] = "awaiting" <=> pc[t] \in Awaiting
  BY Phases DEF TypeOK

(* A call that parks, on the lock or in the throttle, has asked.           *)
LEMMA ParkRefines ==
  ASSUME TypeOK, NEW t \in Tasks, Promise!Asks(t),
         NEW place \in {"throttle"} \cup Queued, Goto(t, place),
         UNCHANGED <<result, fired, cached>>
  PROVE  [Promise!Next]_(Promise!vars)
<1>1. PhaseOf(place) = "asked"
  BY Phases DEF Places
<1>2. Promise!Move(t, "asked")
  BY <1>1, PhaseMoves
<1>3. CASE pc[t] = "new"
  <2>1. Promise!Ask(t)
    BY <1>2, <1>3, PhaseRead DEF Promise!Ask
  <2> QED
    BY <2>1 DEF Promise!Next
<1>4. CASE pc[t] # "new"
  <2>1. UNCHANGED crc /\ PhaseOf(pc[t]) = "asked"
    BY <1>4, PhaseRead DEF Promise!Asks
  <2>2. \A u \in Tasks : PhaseOf(pc'[u]) = PhaseOf(pc[u])
    BY <1>1, <2>1 DEF Goto, TypeOK
  <2>3. UNCHANGED [u \in Tasks |-> PhaseOf(pc[u])]
    BY <2>2
  <2> QED
    BY <2>1, <2>3 DEF Promise!vars
<1> QED
  BY <1>3, <1>4

(* Going through the locked section: on the air, raised, or still asking.  *)
LEMMA UnderLockRefines ==
  ASSUME TypeOK, OneTransmission, NEW t \in Tasks, Promise!Asks(t),
         pc[t] \in {"new", "throttle"} \cup Queued, owner = NoTask,
         NEW gated, UnderLock(t, gated), UNCHANGED <<fired, cached>>
  PROVE  [Promise!Next]_(Promise!vars)
<1>1. CASE Goto(t, "radio") /\ UNCHANGED result
  <2>1. \A u \in Tasks : PhaseOf(pc[u]) # "onair"
    BY PhaseRead, NoTaskAssumption DEF OneTransmission
  <2>2. PhaseOf("radio") = "onair"
    BY Phases DEF Places, InFunnel
  <2>3. Promise!GoOnAir(t)
    BY <1>1, <2>1, <2>2, PhaseMoves DEF Promise!GoOnAir
  <2> QED
    BY <2>3 DEF Promise!Next
<1>2. CASE Return(t, "raised")
  <2>1. Promise!End(t, "raised")
    BY <1>2, PhaseEnds
  <2>2. Promise!Fail(t)
    BY <2>1, PhaseRead DEF Promise!Fail
  <2> QED
    BY <2>2 DEF Promise!Next
<1>3. CASE Goto(t, "throttle") /\ UNCHANGED result
  BY <1>3, ParkRefines
<1> QED
  BY <1>1, <1>2, <1>3 DEF UnderLock, StartTransmit

(* Ending before there is an ACK to wait for.                              *)
LEMMA EndEarlyRefines ==
  ASSUME TypeOK, NEW t \in Tasks,
         pc[t] \in {"new", "throttle"} \cup Queued \cup InFunnel,
         NEW r \in {"false", "raised", "cancelled"}, Return(t, r),
         UNCHANGED <<crc, fired, cached>>
  PROVE  [Promise!Next]_(Promise!vars)
<1>1. Promise!End(t, r)
  BY PhaseEnds
<1>2. Promise!Fail(t)
  BY <1>1, PhaseRead DEF Promise!Fail
<1> QED
  BY <1>2 DEF Promise!Next

(* Transmitted: the call succeeds, or it awaits its ACK.                   *)
LEMMA TransmittedRefines ==
  ASSUME TypeOK, NEW t \in Tasks, pc[t] \in InFunnel, Transmitted(t),
         UNCHANGED <<crc, cached>>
  PROVE  [Promise!Next]_(Promise!vars)
<1>1. CASE t \in acked
  <2>1. PhaseOf("delay") = "awaiting"
    BY Phases DEF Places, Awaiting
  <2>2. Promise!Move(t, "awaiting")
    BY <1>1, <2>1, PhaseMoves DEF Transmitted
  <2>3. fired' = fired \cup (IF crc[t] \in cached THEN {t} ELSE {})
    BY <1>1 DEF Transmitted, ExpectAck
  <2>4. Promise!Await(t)
    BY <1>1, <2>2, <2>3, PhaseRead DEF Promise!Await, Transmitted
  <2> QED
    BY <2>4 DEF Promise!Next
<1>2. CASE t \notin acked
  <2>1. Promise!End(t, "true")
    BY <1>2, PhaseEnds DEF Transmitted
  <2>2. Promise!Succeed(t)
    BY <1>2, <2>1, PhaseRead DEF Promise!Succeed, Transmitted
  <2> QED
    BY <2>2 DEF Promise!Next
<1> QED
  BY <1>1, <1>2

(* The end of an ACK wait: "true" only for a call that was confirmed.      *)
LEMMA LeaveWaitRefines ==
  ASSUME TypeOK, NEW t \in Tasks, pc[t] \in Awaiting,
         NEW r \in {"true", "false", "cancelled"}, r = "true" => t \in fired,
         LeaveWait(t, r)
  PROVE  [Promise!Next]_(Promise!vars)
<1>1. /\ Promise!End(t, r) /\ fired' = fired \ {t} /\ UNCHANGED <<crc, cached>>
  BY PhaseEnds DEF LeaveWait, callVars
<1>2. CASE r = "true"
  <2>1. Promise!Deliver(t)
    BY <1>1, <1>2, PhaseRead DEF Promise!Deliver
  <2> QED
    BY <2>1 DEF Promise!Next
<1>3. CASE r # "true"
  <2>1. Promise!GiveUp(t)
    BY <1>1, <1>3, PhaseRead DEF Promise!GiveUp
  <2> QED
    BY <2>1 DEF Promise!Next
<1> QED
  BY <1>2, <1>3

(* Every step of the funnel is a step of the promise, or changes nothing   *)
(* that the promise can see.                                               *)
LEMMA StepRefines ==
  ASSUME IInv, [Next]_vars PROVE [Promise!Next]_(Promise!vars)
<1> USE DEF IInv
<1>1. ASSUME NEW t \in Tasks, SendPacket(t) PROVE [Promise!Next]_(Promise!vars)
  <2>1. Promise!Asks(t) /\ pc[t] = "new" /\ UNCHANGED <<fired, cached>>
    BY <1>1, PhaseRead DEF SendPacket, Promise!Asks, ackVars
  <2>2. CASE owner = NoTask /\ UnderLock(t, clientRepeat)
    BY <2>1, <2>2, UnderLockRefines
  <2>3. CASE /\ UNCHANGED result
             /\ \E place \in {"throttle"} \cup Queued : Goto(t, place)
    BY <2>1, <2>3, ParkRefines
  <2> QED
    BY <1>1, <2>2, <2>3 DEF SendPacket, TakeLock, Queued
<1>2. ASSUME NEW t \in Tasks, ThrottleOver(t) \/ Granted(t)
      PROVE  [Promise!Next]_(Promise!vars)
  <2>1. /\ Promise!Asks(t) /\ pc[t] \in {"throttle"} \cup Queued
        /\ UNCHANGED <<fired, cached>>
    BY <1>2, PhaseRead DEF ThrottleOver, Granted, Promise!Asks, ackVars, callVars
  <2>2. CASE owner = NoTask /\ \E gated \in BOOLEAN : UnderLock(t, gated)
    BY <2>1, <2>2, UnderLockRefines
  <2>3. CASE /\ UNCHANGED result
             /\ \E place \in {"throttle"} \cup Queued : Goto(t, place)
    BY <2>1, <2>3, ParkRefines
  <2> QED
    BY <1>2, <2>2, <2>3 DEF ThrottleOver, Granted, TakeLock, Queued
<1>3. ASSUME NEW t \in Tasks,
             \/ RefuseFloodTrace(t) \/ RadioFailed(t) \/ CallbackRaised(t)
             \/ CancelQueued(t) \/ CancelFunnel(t)
      PROVE  [Promise!Next]_(Promise!vars)
  BY <1>3, EndEarlyRefines
  DEF RefuseFloodTrace, RadioFailed, CallbackRaised, CancelQueued, CancelFunnel,
      callVars, ackVars, InFunnel
<1>4. ASSUME NEW t \in Tasks, RadioSent(t) \/ CallbackDone(t)
      PROVE  [Promise!Next]_(Promise!vars)
  <2>1. pc[t] \in InFunnel /\ UNCHANGED <<crc, cached>>
    BY <1>4 DEF RadioSent, CallbackDone, InFunnel, callVars
  <2>2. CASE Transmitted(t)
    BY <2>1, <2>2, TransmittedRefines
  <2>3. CASE Goto(t, "callback") /\ UNCHANGED <<result, fired>>
    <3>1. PhaseOf(pc[t]) = "onair" /\ PhaseOf("callback") = "onair"
      BY <2>1, Phases DEF TypeOK, Places, InFunnel
    <3>2. \A u \in Tasks : PhaseOf(pc'[u]) = PhaseOf(pc[u])
      BY <2>3, <3>1 DEF Goto, TypeOK
    <3>3. UNCHANGED [u \in Tasks |-> PhaseOf(pc[u])]
      BY <3>2
    <3> QED
      BY <2>1, <2>3, <3>3 DEF Promise!vars
  <2> QED
    BY <1>4, <2>2, <2>3 DEF RadioSent, CallbackDone
<1>5. ASSUME NEW t \in Tasks, DelayOver(t) PROVE [Promise!Next]_(Promise!vars)
  <2>1. CASE t \in fired
    BY <1>5, <2>1, LeaveWaitRefines DEF DelayOver, Awaiting
  <2>2. CASE t \notin fired
    <3>1. PhaseOf(pc[t]) = "awaiting" /\ PhaseOf("wait") = "awaiting"
      BY <1>5, Phases DEF DelayOver, TypeOK, Places, Awaiting
    <3>2. \A u \in Tasks : PhaseOf(pc'[u]) = PhaseOf(pc[u])
      BY <1>5, <2>2, <3>1 DEF DelayOver, Goto, TypeOK
    <3>3. UNCHANGED [u \in Tasks |-> PhaseOf(pc[u])]
      BY <3>2
    <3> QED
      BY <1>5, <2>2, <3>3 DEF DelayOver, Promise!vars, callVars, ackVars
  <2> QED
    BY <2>1, <2>2
<1>6. ASSUME NEW t \in Tasks, AckWakes(t) \/ AckTimesOut(t) \/ CancelWait(t)
      PROVE  [Promise!Next]_(Promise!vars)
  BY <1>6, LeaveWaitRefines DEF AckWakes, AckTimesOut, CancelWait, Awaiting
<1>7. ASSUME NEW c \in Crcs, AckReceived(c) PROVE [Promise!Next]_(Promise!vars)
  <2>1. fired \cup waiters[c]
        = fired \cup {t \in Tasks : pc[t] \in Awaiting /\ crc[t] = c}
    BY <1>7 DEF WaiterTableExact, TypeOK
  <2>2. {t \in Tasks : pc[t] \in Awaiting /\ crc[t] = c}
        = {t \in Tasks : [u \in Tasks |-> PhaseOf(pc[u])][t] = "awaiting"
                          /\ crc[t] = c}
    BY PhaseRead
  <2>3. UNCHANGED <<pc, result, crc>> /\ cached' = cached \cup {c}
        /\ fired' = fired \cup waiters[c]
    BY <1>7 DEF AckReceived, callVars
  <2>4. Promise!AckHeard(c)
    BY <2>1, <2>2, <2>3 DEF Promise!AckHeard
  <2> QED
    BY <1>7, <2>4 DEF Promise!Next
<1>8. CASE PruneAcks
  <2>1. Promise!Forget
    BY <1>8 DEF PruneAcks, Promise!Forget, callVars
  <2> QED
    BY <2>1 DEF Promise!Next
<1>9. CASE Tick \/ SetClientRepeat \/ UNCHANGED vars
  BY <1>9 DEF Tick, SetClientRepeat, vars, callVars, ackVars, Promise!vars
<1> QED
  BY <1>1, <1>2, <1>3, <1>4, <1>5, <1>6, <1>7, <1>8, <1>9
  DEF Next, TaskStep, Cancel

(* send_packet, with its lock, its waiter table and its events, keeps the  *)
(* promise of SendPromise: one packet on the air at a time, every awaiting *)
(* send confirmed by an ACK of its CRC, success only when confirmed.       *)
THEOREM Refinement == Spec => ImplementsPromise
<1>1. IInv /\ [Next]_vars => [Promise!Next]_(Promise!vars)
  BY StepRefines
<1> QED
  BY InitRefines, <1>1, Invariance, PTL DEF Spec, ImplementsPromise, Promise!Spec

-----------------------------------------------------------------------------
(* The inbox.  Its caches of received packets, by the set of messages that *)
(* share one: Direct for _seen_txt, Channel for _seen_group_packets.       *)

Entries(peers) == Seq([msg : peers, at : Nat])

(* A recording that no cache need remember any more.                       *)
Lapsed(mark, t) == t - mark.at > Ttl \/ Cardinality(mark.since) >= SeenMax

(* Each message's last recording, and what its cache recorded after it.    *)
MarksOk(marks) ==
  /\ marks \in [Mail!Msg -> [at : Nat, since : SUBSET Mail!Msg] \cup {None}]
  /\ \A m \in Mail!Msg : marks[m] # None => IsFiniteSet(marks[m].since)

(* A cache of `peers` has each of them once, in the order they were last   *)
(* recorded in; and one of `watched` that it does not hold has lapsed.     *)
Tracks(cache, marks, t, peers, watched) ==
  /\ cache \in Entries(peers)
  /\ \A i, j \in 1..Len(cache) : cache[i].msg = cache[j].msg => i = j
  /\ \A i \in 1..Len(cache) : marks[cache[i].msg] # None =>
       /\ marks[cache[i].msg].at = cache[i].at
       /\ \A j \in 1..Len(cache) : i < j => cache[j].msg \in marks[cache[i].msg].since
  /\ \A m \in watched : marks[m] # None =>
       (\E i \in 1..Len(cache) : cache[i].msg = m) \/ Lapsed(marks[m], t)

(* `rest` is what is left of `cache`; p says where its entries were.       *)
Embeds(rest, cache, p) ==
  /\ p \in [1..Len(rest) -> 1..Len(cache)]
  /\ \A i \in 1..Len(rest) : rest[i] = cache[p[i]]
  /\ \A i, j \in 1..Len(rest) : i < j => p[i] < p[j]

(* The recordings after m is recorded in the cache of `peers`: Mark.       *)
Recorded(marks, m, peers, t) ==
  [x \in Mail!Msg |->
     IF x = m THEN [at |-> t, since |-> {}]
     ELSE IF x \in peers /\ marks[x] # None
          THEN [marks[x] EXCEPT !.since = @ \cup {m}] ELSE marks[x]]

(* Facts about numbers and sequences.                                      *)
LEMMA LeastExists ==
  ASSUME NEW S \in SUBSET Nat, S # {}
  PROVE  \E i \in S : \A j \in S : i <= j
<1> DEFINE R == OpToRel(<, Nat)
<1>1. PICK i \in S : \A j \in S : ~(<<j, i>> \in R)
  BY NatLessThanWellFounded, WFMin
<1>2. \A j \in S : ~(j < i)
  BY <1>1 DEF OpToRel
<1> QED BY <1>2

LEMMA CutFront ==
  ASSUME NEW S, NEW s \in Seq(S), NEW n \in 0..Len(s)
  PROVE  /\ SubSeq(s, n + 1, Len(s)) \in Seq(S)
         /\ Len(SubSeq(s, n + 1, Len(s))) = Len(s) - n
         /\ \A i \in 1..(Len(s) - n) : SubSeq(s, n + 1, Len(s))[i] = s[n + i]
<1>1. Len(s) \in Nat /\ n \in Nat /\ n <= Len(s)
  OBVIOUS
<1>2. SubSeq(s, n + 1, Len(s)) \in Seq(S)
  BY <1>1
<1>3. Len(SubSeq(s, n + 1, Len(s))) = Len(s) - n
  BY <1>1
<1>4. \A i \in 1..(Len(s) - n) : SubSeq(s, n + 1, Len(s))[i] = s[n + i]
  BY <1>1
<1> QED BY <1>2, <1>3, <1>4

LEMMA CutOut ==
  ASSUME NEW S, NEW s \in Seq(S), NEW k \in 1..Len(s)
  PROVE  LET r == SubSeq(s, 1, k - 1) \o SubSeq(s, k + 1, Len(s))
         IN  /\ r \in Seq(S) /\ Len(r) = Len(s) - 1
             /\ \A i \in 1..(Len(s) - 1) : r[i] = IF i < k THEN s[i] ELSE s[i + 1]
<1> DEFINE a == SubSeq(s, 1, k - 1)
           b == SubSeq(s, k + 1, Len(s))
           r == a \o b
<1>0. Len(s) \in Nat /\ k \in Nat /\ 1 <= k /\ k <= Len(s)
  OBVIOUS
<1>1. a \in Seq(S) /\ Len(a) = k - 1 /\ \A i \in 1..(k - 1) : a[i] = s[i]
  BY <1>0
<1>2. b \in Seq(S) /\ Len(b) = Len(s) - k /\ \A i \in 1..(Len(s) - k) : b[i] = s[k + i]
  BY <1>0, CutFront
<1> HIDE DEF a, b
<1>3. r \in Seq(S) /\ Len(r) = Len(s) - 1
  <2>1. \A p, q \in Seq(S) : p \o q \in Seq(S) /\ Len(p \o q) = Len(p) + Len(q)
    OBVIOUS
  <2>2. r \in Seq(S) /\ Len(r) = Len(a) + Len(b)
    BY <1>1, <1>2, <2>1
  <2> QED BY <1>0, <1>1, <1>2, <2>2
<1>4. ASSUME NEW i \in 1..(Len(s) - 1) PROVE r[i] = IF i < k THEN s[i] ELSE s[i + 1]
  <2>1. CASE i < k
    BY <1>0, <1>1, <1>2, <2>1
  <2>2. CASE ~(i < k)
    <3>1. i - Len(a) \in 1..(Len(s) - k) /\ k + (i - Len(a)) = i + 1
      BY <1>0, <1>1, <2>2
    <3>2. r[i] = b[i - Len(a)]
      BY <1>0, <1>1, <1>2, <2>2
    <3> QED BY <1>2, <2>2, <3>1, <3>2
  <2> QED BY <2>1, <2>2
<1> QED BY <1>3, <1>4 DEF a, b

LEMMA EntryOf ==
  ASSUME NEW peers, NEW cache \in Entries(peers), NEW i \in 1..Len(cache)
  PROVE  cache[i].msg \in peers /\ cache[i].at \in Nat
<1>1. cache \in Seq([msg : peers, at : Nat])
  BY DEF Entries
<1>2. \A S : \A s \in Seq(S) : \A j \in 1..Len(s) : s[j] \in S
  OBVIOUS
<1>3. cache[i] \in [msg : peers, at : Nat]
  BY <1>1, <1>2
<1> QED BY <1>3

(* A cache may drop the entries of messages that have lapsed.              *)
LEMMA PartTracks ==
  ASSUME NEW cache, NEW marks, NEW t, NEW peers, NEW W, NEW V \in SUBSET W,
         Tracks(cache, marks, t, peers, W),
         NEW rest \in Entries(peers), NEW p, Embeds(rest, cache, p),
         \A q \in 1..Len(cache) :
           \/ \E i \in 1..Len(rest) : p[i] = q
           \/ cache[q].msg \notin V
           \/ marks[cache[q].msg] # None => Lapsed(marks[cache[q].msg], t)
  PROVE  Tracks(rest, marks, t, peers, V)
<1> DEFINE n == Len(rest)
<1>0. n \in Nat /\ Len(cache) \in Nat
  BY DEF Tracks, Entries
<1>1. \A i, j \in 1..n : rest[i].msg = rest[j].msg => i = j
  <2> SUFFICES ASSUME NEW i \in 1..n, NEW j \in 1..n, rest[i].msg = rest[j].msg
               PROVE  i = j
    OBVIOUS
  <2>1. p[i] \in 1..Len(cache) /\ p[j] \in 1..Len(cache) /\ p[i] = p[j]
    BY DEF Embeds, Tracks
  <2>2. (i < j => p[i] < p[j]) /\ (j < i => p[j] < p[i])
    BY DEF Embeds
  <2> QED BY <1>0, <2>1, <2>2
<1>2. ASSUME NEW i \in 1..n, marks[rest[i].msg] # None
      PROVE  /\ marks[rest[i].msg].at = rest[i].at
             /\ \A j \in 1..n : i < j => rest[j].msg \in marks[rest[i].msg].since
  BY <1>2 DEF Embeds, Tracks
<1>3. ASSUME NEW m \in V, marks[m] # None
      PROVE  (\E i \in 1..n : rest[i].msg = m) \/ Lapsed(marks[m], t)
  <2>1. CASE \E q \in 1..Len(cache) : cache[q].msg = m
    <3>1. PICK q \in 1..Len(cache) : cache[q].msg = m
      BY <2>1
    <3>2. CASE \E i \in 1..n : p[i] = q
      BY <3>1, <3>2 DEF Embeds
    <3> QED BY <1>3, <3>1, <3>2
  <2>2. CASE ~ \E q \in 1..Len(cache) : cache[q].msg = m
    BY <1>3, <2>2 DEF Tracks
  <2> QED BY <2>1, <2>2
<1> QED BY <1>1, <1>2, <1>3 DEF Tracks

(* A recording adds m to what came after the others of its cache.          *)
LEMMA RecordedOk ==
  ASSUME NEW marks, NEW t \in Nat, NEW peers, NEW m \in Mail!Msg, MarksOk(marks)
  PROVE  LET new == Recorded(marks, m, peers, t)
         IN  /\ MarksOk(new) /\ new[m] = [at |-> t, since |-> {}]
             /\ \A x \in Mail!Msg : x # m /\ new[x] # None =>
                  /\ marks[x] # None /\ new[x].at = marks[x].at
                  /\ marks[x].since \subseteq new[x].since
                  /\ new[x].since \in {marks[x].since, marks[x].since \cup {m}}
                  /\ x \in peers => m \in new[x].since
<1> DEFINE new == Recorded(marks, m, peers, t)
<1>2. new[m] = [at |-> t, since |-> {}]
  BY DEF Recorded
<1>3. ASSUME NEW x \in Mail!Msg, x # m, new[x] # None
      PROVE  /\ marks[x] # None /\ new[x].at = marks[x].at
             /\ marks[x].since \subseteq new[x].since
             /\ new[x].since \in {marks[x].since, marks[x].since \cup {m}}
             /\ x \in peers => m \in new[x].since
             /\ new[x] \in [at : Nat, since : SUBSET Mail!Msg]
  BY <1>3 DEF Recorded, MarksOk
<1>4. ASSUME NEW x \in Mail!Msg, new[x] # None PROVE IsFiniteSet(new[x].since)
  <2>1. CASE x = m
    <3>1. new[x].since = {}
      BY <1>2, <2>1
    <3> QED BY <3>1, FS_EmptySet
  <2>2. CASE x # m
    <3>1. IsFiniteSet(marks[x].since)
      BY <1>3, <1>4, <2>2 DEF MarksOk
    <3>2. IsFiniteSet(marks[x].since \cup {m})
      BY <3>1, FS_AddElement
    <3> QED BY <1>3, <1>4, <2>2, <3>1, <3>2
  <2> QED BY <2>1, <2>2
<1>5. MarksOk(new)
  <2>1. ASSUME NEW x \in Mail!Msg
        PROVE  new[x] \in [at : Nat, since : SUBSET Mail!Msg] \cup {None}
    BY <1>2, <1>3
  <2>2. new \in [Mail!Msg -> [at : Nat, since : SUBSET Mail!Msg] \cup {None}]
    BY <2>1 DEF Recorded
  <2> QED BY <1>4, <2>2 DEF MarksOk
<1> QED BY <1>2, <1>3, <1>5

(* The message recorded goes to the end of its cache.                      *)
LEMMA AppendTracks ==
  ASSUME NEW rest, NEW marks, NEW t \in Nat, NEW peers \in SUBSET Mail!Msg, NEW m \in peers,
         MarksOk(marks), Tracks(rest, marks, t, peers, peers \ {m}),
         \A i \in 1..Len(rest) : rest[i].msg # m
  PROVE  /\ MarksOk(Recorded(marks, m, peers, t))
         /\ Tracks(Append(rest, [msg |-> m, at |-> t]), Recorded(marks, m, peers, t), t,
                   peers, peers)
<1> DEFINE n == Len(rest)
           e == [msg |-> m, at |-> t]
           c == Append(rest, e)
           new == Recorded(marks, m, peers, t)
<1>0. rest \in Entries(peers) /\ n \in Nat /\ e \in [msg : peers, at : Nat]
  BY DEF Tracks, Entries
<1>1. /\ c \in Entries(peers) /\ Len(c) = n + 1 /\ c[n + 1] = e
      /\ \A i \in 1..n : c[i] = rest[i]
  BY <1>0 DEF Entries
<1>2. new[m] = [at |-> t, since |-> {}] /\ MarksOk(new)
  BY RecordedOk
<1>3. ASSUME NEW x \in Mail!Msg, x # m, new[x] # None
      PROVE  /\ marks[x] # None /\ new[x].at = marks[x].at
             /\ marks[x].since \subseteq new[x].since
             /\ new[x].since \in {marks[x].since, marks[x].since \cup {m}}
             /\ x \in peers => m \in new[x].since
  BY <1>3, RecordedOk
<1>6. \A i, j \in 1..Len(c) : c[i].msg = c[j].msg => i = j
  <2> SUFFICES ASSUME NEW i \in 1..Len(c), NEW j \in 1..Len(c), c[i].msg = c[j].msg
               PROVE  i = j
    OBVIOUS
  <2>1. CASE i = n + 1 /\ j # n + 1
    BY <1>0, <1>1, <2>1
  <2>2. CASE i # n + 1 /\ j = n + 1
    BY <1>0, <1>1, <2>2
  <2>3. CASE i # n + 1 /\ j # n + 1
    <3>1. i \in 1..n /\ j \in 1..n
      BY <1>0, <1>1, <2>3
    <3> QED BY <1>1, <3>1 DEF Tracks
  <2> QED BY <2>1, <2>2, <2>3
<1>7. ASSUME NEW i \in 1..Len(c), new[c[i].msg] # None
      PROVE  /\ new[c[i].msg].at = c[i].at
             /\ \A j \in 1..Len(c) : i < j => c[j].msg \in new[c[i].msg].since
  <2>1. CASE i = n + 1
    BY <1>0, <1>1, <1>2, <2>1
  <2>2. CASE i # n + 1
    <3>1. i \in 1..n /\ c[i] = rest[i]
      BY <1>0, <1>1, <2>2
    <3>2. rest[i].msg \in peers /\ rest[i].msg \in Mail!Msg /\ rest[i].msg # m
      BY <1>0, <3>1, EntryOf
    <3>3. /\ marks[rest[i].msg] # None /\ new[rest[i].msg].at = marks[rest[i].msg].at
          /\ marks[rest[i].msg].since \subseteq new[rest[i].msg].since
          /\ m \in new[rest[i].msg].since
      BY <1>3, <1>7, <3>1, <3>2
    <3>4. /\ marks[rest[i].msg].at = rest[i].at
          /\ \A j \in 1..n : i < j => rest[j].msg \in marks[rest[i].msg].since
      BY <3>1, <3>3 DEF Tracks
    <3>5. ASSUME NEW j \in 1..Len(c), i < j PROVE c[j].msg \in new[c[i].msg].since
      <4>1. CASE j = n + 1
        BY <1>1, <3>1, <3>3, <4>1
      <4>2. CASE j # n + 1
        <5>1. j \in 1..n /\ c[j] = rest[j]
          BY <1>0, <1>1, <4>2
        <5> QED BY <3>1, <3>3, <3>4, <3>5, <5>1
      <4> QED BY <4>1, <4>2
    <3> QED BY <3>1, <3>3, <3>4, <3>5
  <2> QED BY <2>1, <2>2
<1>8. ASSUME NEW x \in peers, new[x] # None
      PROVE  (\E i \in 1..Len(c) : c[i].msg = x) \/ Lapsed(new[x], t)
  <2>1. CASE x = m
    <3>1. n + 1 \in 1..Len(c) /\ c[n + 1].msg = m
      BY <1>0, <1>1
    <3> QED BY <2>1, <3>1
  <2>2. CASE x # m
    <3>1. x \in Mail!Msg /\ x \in peers \ {m} /\ marks[x] # None
      BY <1>3, <1>8, <2>2
    <3>2. CASE \E i \in 1..n : rest[i].msg = x
      <4>1. PICK i \in 1..n : rest[i].msg = x
        BY <3>2
      <4>2. i \in 1..Len(c) /\ c[i].msg = x
        BY <1>0, <1>1, <4>1
      <4> QED BY <4>2
    <3>3. CASE Lapsed(marks[x], t)
      <4>1. new[x].at = marks[x].at
        BY <1>3, <1>8, <2>2, <3>1
      <4>2. IsFiniteSet(marks[x].since)
        BY <3>1 DEF MarksOk
      <4>3. /\ Cardinality(marks[x].since) \in Nat
            /\ Cardinality(marks[x].since \cup {m}) \in Nat
            /\ Cardinality(marks[x].since) <= Cardinality(marks[x].since \cup {m})
        <5>1. Cardinality(marks[x].since) \in Nat
          BY <4>2, FS_CardinalityType
        <5>2. Cardinality(marks[x].since \cup {m}) =
                IF m \in marks[x].since THEN Cardinality(marks[x].since)
                ELSE Cardinality(marks[x].since) + 1
          BY <4>2, FS_AddElement
        <5> QED BY <5>1, <5>2
      <4>4. /\ Cardinality(new[x].since) \in Nat
            /\ Cardinality(new[x].since) >= Cardinality(marks[x].since)
        <5>1. new[x].since \in {marks[x].since, marks[x].since \cup {m}}
          BY <1>3, <1>8, <2>2, <3>1
        <5>2. CASE new[x].since = marks[x].since
          BY <4>3, <5>2
        <5>3. CASE new[x].since = marks[x].since \cup {m}
          BY <4>3, <5>3
        <5> QED BY <5>1, <5>2, <5>3
      <4>5. SeenMax \in Nat
        BY MailGiven DEF Mail!InboxAssumption
      <4> QED BY <3>3, <4>1, <4>3, <4>4, <4>5 DEF Lapsed
    <3> QED BY <3>1, <3>2, <3>3 DEF Tracks
  <2> QED BY <2>1, <2>2
<1> HIDE DEF new, c
<1> QED BY <1>1, <1>2, <1>6, <1>7, <1>8 DEF Tracks, c, new

(* The entry that a full cache drops has SeenMax others recorded after it. *)
LEMMA BoundedTracks ==
  ASSUME NEW cache, NEW marks, NEW t, NEW peers \in SUBSET Mail!Msg,
         MarksOk(marks), Tracks(cache, marks, t, peers, peers), Len(cache) <= SeenMax + 1
  PROVE  Tracks(Mail!Bounded(cache), marks, t, peers, peers)
         /\ Len(Mail!Bounded(cache)) <= SeenMax
<1> DEFINE rest == Tail(cache)
           p == [i \in 1..Len(rest) |-> i + 1]
<1>0. SeenMax \in Nat \ {0} /\ cache \in Entries(peers) /\ Len(cache) \in Nat
  BY MailGiven DEF Mail!InboxAssumption, Tracks, Entries
<1>1. CASE Len(cache) <= SeenMax
  BY <1>0, <1>1 DEF Mail!Bounded
<1>2. CASE Len(cache) = SeenMax + 1
  <2>1. /\ rest \in Entries(peers) /\ Len(rest) = SeenMax
        /\ \A i \in 1..Len(rest) : rest[i] = cache[i + 1]
    BY <1>0, <1>2 DEF Entries
  <2>2. Embeds(rest, cache, p)
    BY <1>0, <1>2, <2>1 DEF Embeds
  <2>3. 1 \in 1..Len(cache)
    BY <1>0, <1>2
  <2>4. ASSUME marks[cache[1].msg] # None PROVE Lapsed(marks[cache[1].msg], t)
    <3> DEFINE S == marks[cache[1].msg].since
               f == [i \in 1..SeenMax |-> cache[i + 1].msg]
    <3>1. cache[1].msg \in Mail!Msg
      BY <1>0, <2>3, EntryOf
    <3>2. IsFiniteSet(S)
      BY <2>4, <3>1 DEF MarksOk
    <3>3. \A i \in 1..SeenMax : i + 1 \in 1..Len(cache) /\ 1 < i + 1
      BY <1>0, <1>2
    <3>4. \A i \in 1..SeenMax : cache[i + 1].msg \in S
      BY <2>3, <2>4, <3>3 DEF Tracks
    <3>5. \A i, j \in 1..SeenMax : f[i] = f[j] => i = j
      <4> SUFFICES ASSUME NEW i \in 1..SeenMax, NEW j \in 1..SeenMax, f[i] = f[j]
                   PROVE  i = j
        OBVIOUS
      <4>1. i + 1 = j + 1
        BY <3>3 DEF Tracks
      <4> QED BY <4>1
    <3>a. f \in [1..SeenMax -> S]
      BY <3>4
    <3> HIDE DEF f, S
    <3>6. f \in Injection(1..SeenMax, S)
      <4>1. DOMAIN f = 1..SeenMax
        BY <3>a
      <4> QED BY <3>a, <3>5, <4>1 DEF Injection, IsInjective
    <3>7. Cardinality(1..SeenMax) <= Cardinality(S)
      BY <3>2, <3>6, FS_Injection
    <3>8. Cardinality(1..SeenMax) = SeenMax
      BY <1>0, FS_Interval
    <3>9. Cardinality(S) \in Nat
      BY <3>2, FS_CardinalityType
    <3> QED BY <1>0, <3>7, <3>8, <3>9 DEF Lapsed, S
  <2>5. \A q \in 1..Len(cache) :
          (\E i \in 1..Len(rest) : p[i] = q) \/ q = 1
    <3> SUFFICES ASSUME NEW q \in 1..Len(cache), q # 1
                 PROVE  \E i \in 1..Len(rest) : p[i] = q
      OBVIOUS
    <3>1. q - 1 \in 1..Len(rest) /\ p[q - 1] = q
      BY <1>0, <1>2, <2>1
    <3> QED BY <3>1
  <2> HIDE DEF p, rest
  <2>6. Tracks(rest, marks, t, peers, peers)
    BY <2>1, <2>2, <2>4, <2>5, PartTracks
  <2>7. Mail!Bounded(cache) = rest
    BY <1>0, <1>2 DEF Mail!Bounded, rest
  <2> QED BY <1>0, <2>1, <2>6, <2>7
<1> QED BY <1>0, <1>1, <1>2

(* Eviction by age drops a prefix, all of it expired.                      *)
LEMMA Evicts ==
  ASSUME NEW peers, NEW cache \in Entries(peers)
  PROVE  \E n \in 0..Len(cache) :
           /\ Mail!EvictExpired(cache) = SubSeq(cache, n + 1, Len(cache))
           /\ \A i \in 1..n : ~(now - cache[i].at <= Ttl)
<1> DEFINE fresh == {i \in 1..Len(cache) : now - cache[i].at <= Ttl}
<1>0. Len(cache) \in Nat /\ cache \in Seq([msg : peers, at : Nat])
  BY DEF Entries
<1>1. CASE fresh = {}
  <2>1. Mail!EvictExpired(cache) = <<>>
    BY <1>1 DEF Mail!EvictExpired
  <2>2. SubSeq(cache, Len(cache) + 1, Len(cache)) = <<>>
    BY <1>0
  <2>3. Len(cache) \in 0..Len(cache) /\ \A i \in 1..Len(cache) : ~(now - cache[i].at <= Ttl)
    BY <1>0, <1>1
  <2> QED BY <2>1, <2>2, <2>3
<1>2. CASE fresh # {}
  <2> DEFINE k == CHOOSE i \in fresh : \A j \in fresh : i <= j
  <2>1. fresh \in SUBSET Nat
    BY <1>0
  <2>2. \E i \in fresh : \A j \in fresh : i <= j
    BY <1>2, <2>1, LeastExists
  <2>3. k \in fresh /\ \A j \in fresh : k <= j
    BY <2>2
  <2>4. Mail!EvictExpired(cache) = SubSeq(cache, k, Len(cache))
    BY <1>2 DEF Mail!EvictExpired
  <2> HIDE DEF k
  <2>5. k - 1 \in 0..Len(cache) /\ (k - 1) + 1 = k
    BY <1>0, <2>3
  <2>6. ASSUME NEW i \in 1..(k - 1) PROVE ~(now - cache[i].at <= Ttl)
    <3>1. i \in 1..Len(cache) /\ ~(k <= i)
      BY <1>0, <2>3
    <3> QED BY <2>3, <3>1
  <2> QED BY <2>4, <2>5, <2>6
<1> QED BY <1>1, <1>2

LEMMA EvictTracks ==
  ASSUME NEW cache, NEW peers, now \in Nat, Tracks(cache, marked, now, peers, peers)
  PROVE  /\ Tracks(Mail!EvictExpired(cache), marked, now, peers, peers)
         /\ Len(Mail!EvictExpired(cache)) <= Len(cache)
<1>0. cache \in Entries(peers) /\ Len(cache) \in Nat /\ Ttl \in Nat
  BY MailGiven DEF Tracks, Entries, Mail!InboxAssumption
<1>1. PICK n \in 0..Len(cache) :
        /\ Mail!EvictExpired(cache) = SubSeq(cache, n + 1, Len(cache))
        /\ \A i \in 1..n : ~(now - cache[i].at <= Ttl)
  BY <1>0, Evicts
<1> DEFINE rest == SubSeq(cache, n + 1, Len(cache))
           p == [i \in 1..Len(rest) |-> n + i]
<1>2. /\ rest \in Entries(peers) /\ Len(rest) = Len(cache) - n
      /\ \A i \in 1..Len(rest) : rest[i] = cache[n + i]
  BY <1>0, CutFront DEF Entries
<1>3. Embeds(rest, cache, p)
  BY <1>0, <1>2 DEF Embeds
<1>4. \A q \in 1..Len(cache) : (\E i \in 1..Len(rest) : p[i] = q) \/ q \in 1..n
  <2> SUFFICES ASSUME NEW q \in 1..Len(cache), q \notin 1..n
               PROVE  \E i \in 1..Len(rest) : p[i] = q
    OBVIOUS
  <2>1. q - n \in 1..Len(rest) /\ p[q - n] = q
    BY <1>0, <1>2
  <2> QED BY <2>1
<1>5. ASSUME NEW q \in 1..n, marked[cache[q].msg] # None
      PROVE  Lapsed(marked[cache[q].msg], now)
  <2>1. q \in 1..Len(cache)
    BY <1>0
  <2>2. cache[q].at \in Nat /\ marked[cache[q].msg].at = cache[q].at
    BY <1>0, <1>5, <2>1, EntryOf DEF Tracks
  <2> QED BY <1>0, <1>1, <2>2 DEF Lapsed
<1> HIDE DEF rest, p
<1>6. Tracks(rest, marked, now, peers, peers)
  BY <1>2, <1>3, <1>4, <1>5, PartTracks
<1> QED BY <1>0, <1>1, <1>2, <1>6 DEF rest

LEMMA WithoutTracks ==
  ASSUME NEW cache, NEW marks, NEW t, NEW peers, Tracks(cache, marks, t, peers, peers), NEW m
  PROVE  /\ Tracks(Mail!Without(cache, m), marks, t, peers, peers \ {m})
         /\ \A i \in 1..Len(Mail!Without(cache, m)) : Mail!Without(cache, m)[i].msg # m
         /\ Len(Mail!Without(cache, m)) <= Len(cache)
<1>0. cache \in Entries(peers) /\ Len(cache) \in Nat
  BY DEF Tracks, Entries
<1>1. CASE ~Mail!Holds(cache, m)
  <2>1. Mail!Without(cache, m) = cache
    BY <1>1 DEF Mail!Without
  <2>2. Tracks(cache, marks, t, peers, peers \ {m})
    BY DEF Tracks
  <2> QED BY <1>0, <1>1, <2>1, <2>2 DEF Mail!Holds
<1>2. CASE Mail!Holds(cache, m)
  <2> DEFINE k == CHOOSE i \in 1..Len(cache) : cache[i].msg = m
             rest == SubSeq(cache, 1, k - 1) \o SubSeq(cache, k + 1, Len(cache))
             p == [i \in 1..Len(rest) |-> IF i < k THEN i ELSE i + 1]
  <2>1. k \in 1..Len(cache) /\ cache[k].msg = m
    BY <1>2 DEF Mail!Holds
  <2>2. Mail!Without(cache, m) = rest
    BY <1>2 DEF Mail!Without, Mail!Removed
  <2> HIDE DEF k
  <2>3. /\ rest \in Entries(peers) /\ Len(rest) = Len(cache) - 1
        /\ \A i \in 1..Len(rest) : rest[i] = IF i < k THEN cache[i] ELSE cache[i + 1]
    BY <2>1, <1>0, CutOut DEF Entries
  <2> HIDE DEF rest
  <2>4. Embeds(rest, cache, p)
    <3>1. p \in [1..Len(rest) -> 1..Len(cache)]
      BY <1>0, <2>1, <2>3
    <3>2. \A i \in 1..Len(rest) : rest[i] = cache[p[i]]
      BY <2>3
    <3>3. \A i, j \in 1..Len(rest) : i < j => p[i] < p[j]
      BY <1>0, <2>1, <2>3
    <3> QED BY <3>1, <3>2, <3>3 DEF Embeds
  <2>5. \A q \in 1..Len(cache) : (\E i \in 1..Len(rest) : p[i] = q) \/ q = k
    <3> SUFFICES ASSUME NEW q \in 1..Len(cache), q # k
                 PROVE  \E i \in 1..Len(rest) : p[i] = q
      OBVIOUS
    <3>1. CASE q < k
      <4>1. q \in 1..Len(rest) /\ p[q] = q
        BY <1>0, <2>1, <2>3, <3>1
      <4> QED BY <4>1
    <3>2. CASE k < q
      <4>1. q - 1 \in 1..Len(rest) /\ p[q - 1] = q
        BY <1>0, <2>1, <2>3, <3>2
      <4> QED BY <4>1
    <3> QED BY <1>0, <2>1, <3>1, <3>2
  <2>6. \A i \in 1..Len(rest) : rest[i].msg # m
    <3> SUFFICES ASSUME NEW i \in 1..Len(rest), rest[i].msg = m PROVE FALSE
      OBVIOUS
    <3>1. p[i] \in 1..Len(cache) /\ cache[p[i]].msg = m
      BY <2>4 DEF Embeds
    <3>2. p[i] = k
      BY <2>1, <3>1 DEF Tracks
    <3> QED BY <1>0, <2>1, <2>3, <3>2
  <2> HIDE DEF p
  <2>7. Tracks(rest, marks, t, peers, peers \ {m})
    BY <2>1, <2>3, <2>4, <2>5, PartTracks
  <2> QED BY <1>0, <2>2, <2>3, <2>6, <2>7
<1> QED BY <1>1, <1>2

(* What each of the two caches goes through as a message is recorded.      *)
LEMMA SeenAddTracks ==
  ASSUME NEW cache, NEW peers \in SUBSET Mail!Msg, NEW m \in peers, now \in Nat,
         MarksOk(marked), Tracks(cache, marked, now, peers, peers), Len(cache) <= SeenMax,
         ~Mail!Holds(cache, m)
  PROVE  /\ Tracks(Mail!SeenAdd(cache, m), Recorded(marked, m, peers, now), now, peers, peers)
         /\ Len(Mail!SeenAdd(cache, m)) <= SeenMax
<1> DEFINE rest == Mail!EvictExpired(cache)
           c == Append(rest, [msg |-> m, at |-> now])
<1>0. cache \in Entries(peers) /\ Len(cache) \in Nat /\ SeenMax \in Nat
  BY MailGiven DEF Tracks, Entries, Mail!InboxAssumption
<1>1. Tracks(rest, marked, now, peers, peers) /\ Len(rest) <= Len(cache)
  BY EvictTracks
<1>2. PICK n \in 0..Len(cache) : rest = SubSeq(cache, n + 1, Len(cache))
  BY <1>0, Evicts
<1>3. Len(rest) = Len(cache) - n /\ \A i \in 1..(Len(cache) - n) : rest[i] = cache[n + i]
  BY <1>0, <1>2, CutFront DEF Entries
<1>4. \A i \in 1..Len(rest) : rest[i].msg # m
  BY <1>0, <1>3 DEF Mail!Holds
<1>5. Tracks(rest, marked, now, peers, peers \ {m}) /\ rest \in Entries(peers)
  BY <1>1 DEF Tracks
<1> HIDE DEF rest
<1>6. Len(rest) \in Nat /\ Len(c) = Len(rest) + 1
  BY <1>5 DEF Entries
<1>7. MarksOk(Recorded(marked, m, peers, now))
      /\ Tracks(c, Recorded(marked, m, peers, now), now, peers, peers)
  BY <1>4, <1>5, AppendTracks
<1>8. Len(c) <= SeenMax + 1
  BY <1>0, <1>1, <1>6
<1>9. Mail!SeenAdd(cache, m) = Mail!Bounded(c)
  BY DEF Mail!SeenAdd, rest
<1> HIDE DEF c
<1> QED BY <1>7, <1>8, <1>9, BoundedTracks

LEMMA GroupAddTracks ==
  ASSUME NEW m \in Mail!Channel, now \in Nat, MarksOk(marked),
         Tracks(seenGroup, marked, now, Mail!Channel, Mail!Channel), Len(seenGroup) <= SeenMax
  PROVE  /\ Tracks(Mail!GroupAdd(m), Recorded(marked, m, Mail!Channel, now), now,
                   Mail!Channel, Mail!Channel)
         /\ Len(Mail!GroupAdd(m)) <= SeenMax
<1> DEFINE peers == Mail!Channel
           old == Mail!EvictExpired(seenGroup)
           rest == Mail!Without(old, m)
           c == Append(rest, [msg |-> m, at |-> now])
<1>0. peers \in SUBSET Mail!Msg /\ Len(seenGroup) \in Nat /\ SeenMax \in Nat
  BY MailGiven DEF Tracks, Entries, Mail!InboxAssumption, Mail!Msg
<1>1. Tracks(old, marked, now, peers, peers) /\ Len(old) <= Len(seenGroup)
  BY EvictTracks
<1>2. /\ Tracks(rest, marked, now, peers, peers \ {m})
      /\ \A i \in 1..Len(rest) : rest[i].msg # m
      /\ Len(rest) <= Len(old)
  BY <1>1, WithoutTracks
<1>3. Mail!GroupAdd(m) = Mail!Bounded(c)
  BY DEF Mail!GroupAdd
<1>4. Len(old) \in Nat
  BY <1>1 DEF Tracks, Entries
<1> HIDE DEF old, rest
<1>5. rest \in Entries(peers)
  BY <1>2 DEF Tracks
<1>6. Len(rest) \in Nat /\ Len(c) = Len(rest) + 1
  BY <1>5 DEF Entries
<1>7. MarksOk(Recorded(marked, m, peers, now))
      /\ Tracks(c, Recorded(marked, m, peers, now), now, peers, peers)
  BY <1>0, <1>2, AppendTracks
<1>8. Len(c) <= SeenMax + 1
  BY <1>0, <1>1, <1>2, <1>4, <1>6
<1> HIDE DEF c
<1> QED BY <1>0, <1>3, <1>7, <1>8, BoundedTracks

(* A cache is not disturbed by a recording in another, nor by the clock.   *)
LEMMA OtherTracks ==
  ASSUME NEW cache, NEW peers \in SUBSET Mail!Msg, NEW others, NEW m \in others,
         peers \cap others = {}, Tracks(cache, marked, now, peers, peers)
  PROVE  Tracks(cache, Recorded(marked, m, others, now), now, peers, peers)
<1>1. \A x \in peers : Recorded(marked, m, others, now)[x] = marked[x]
  BY DEF Recorded
<1>2. cache \in Entries(peers)
  BY DEF Tracks
<1>3. \A i \in 1..Len(cache) : cache[i].msg \in peers
  BY <1>2, EntryOf
<1> QED BY <1>1, <1>2, <1>3 DEF Tracks

LEMMA LaterTracks ==
  ASSUME NEW cache, NEW peers \in SUBSET Mail!Msg, now \in Nat, MarksOk(marked),
         Tracks(cache, marked, now, peers, peers)
  PROVE  Tracks(cache, marked, now + 1, peers, peers)
<1>1. ASSUME NEW x \in peers, marked[x] # None, Lapsed(marked[x], now)
      PROVE  Lapsed(marked[x], now + 1)
  <2>1. marked[x].at \in Nat /\ Ttl \in Nat
    BY <1>1, MailGiven DEF MarksOk, Mail!InboxAssumption
  <2> QED BY <1>1, <2>1 DEF Lapsed
<1> QED BY <1>1 DEF Tracks

-----------------------------------------------------------------------------
(* The inbox's inductive invariant: both caches track the recordings.      *)
InboxInv ==
  /\ now \in Nat /\ MarksOk(marked)
  /\ Tracks(seenTxt, marked, now, Mail!Direct, Mail!Direct) /\ Len(seenTxt) <= SeenMax
  /\ Tracks(seenGroup, marked, now, Mail!Channel, Mail!Channel) /\ Len(seenGroup) <= SeenMax
  /\ events \in Seq([msg : Mail!Direct, acks : Nat])
  /\ inbox \in Seq([msg : Mail!Msg, idx : Slots \cup {None}])

(* What the queue is made of, and the messages in it.                      *)
Letters == [msg : Mail!Msg, idx : Slots \cup {None}]
Contents == {inbox[i].msg : i \in 1..Len(inbox)}

(* MessageQueue.push brings in at most the message pushed.                 *)
LEMMA PushBrings ==
  ASSUME NEW S, inbox \in Seq(S), NEW m, NEW idx, [msg |-> m, idx |-> idx] \in S,
         Mail!Push(m, idx)
  PROVE  inbox' \in Seq(S) /\ Contents' \subseteq Contents \cup {m}
<1> DEFINE e == [msg |-> m, idx |-> idx]
<1>0. Len(inbox) \in Nat /\ e \in S /\ e.msg = m
  OBVIOUS
<1> HIDE DEF e
<1>1. \A s \in Seq(S) : /\ Append(s, e) \in Seq(S) /\ Len(Append(s, e)) = Len(s) + 1
                        /\ Append(s, e)[Len(s) + 1] = e
                        /\ \A i \in 1..Len(s) : Append(s, e)[i] = s[i]
  BY <1>0
<1>2. ASSUME NEW s \in Seq(S), inbox' = Append(s, e),
             \A i \in 1..Len(s) : s[i].msg \in Contents
      PROVE  inbox' \in Seq(S) /\ Contents' \subseteq Contents \cup {m}
  <2>1. Len(s) \in Nat
    OBVIOUS
  <2>2. ASSUME NEW i \in 1..Len(inbox') PROVE inbox'[i].msg \in Contents \cup {m}
    <3>1. i \in 1..Len(s) \/ i = Len(s) + 1
      BY <1>1, <1>2, <2>1
    <3> QED BY <1>0, <1>1, <1>2, <3>1
  <2> QED BY <1>1, <1>2, <2>2 DEF Contents
<1>3. CASE inbox' = Append(inbox, e)
  BY <1>2, <1>3 DEF Contents
<1>4. CASE /\ Mail!ChannelEntries # {}
           /\ LET first == CHOOSE i \in Mail!ChannelEntries :
                             \A j \in Mail!ChannelEntries : i <= j
              IN inbox' = Append(Mail!Removed(inbox, first), e)
  <2> DEFINE k == CHOOSE i \in Mail!ChannelEntries : \A j \in Mail!ChannelEntries : i <= j
             rest == SubSeq(inbox, 1, k - 1) \o SubSeq(inbox, k + 1, Len(inbox))
  <2>1. Mail!ChannelEntries \in SUBSET Nat
    BY <1>0 DEF Mail!ChannelEntries
  <2>2. k \in Mail!ChannelEntries
    BY <1>4, <2>1, LeastExists
  <2>3. k \in 1..Len(inbox)
    BY <2>2 DEF Mail!ChannelEntries
  <2>4. inbox' = Append(rest, e)
    BY <1>4 DEF Mail!Removed
  <2> HIDE DEF k
  <2>5. /\ rest \in Seq(S) /\ Len(rest) = Len(inbox) - 1
        /\ \A i \in 1..(Len(inbox) - 1) :
             rest[i] = IF i < k THEN inbox[i] ELSE inbox[i + 1]
    BY <2>3, CutOut
  <2> HIDE DEF rest
  <2>6. ASSUME NEW i \in 1..Len(rest) PROVE rest[i].msg \in Contents
    <3>1. i \in 1..Len(inbox) /\ i + 1 \in 1..Len(inbox)
      BY <1>0, <2>5
    <3> QED BY <2>5, <3>1 DEF Contents
  <2> QED BY <1>2, <2>4, <2>5, <2>6
<1>5. CASE inbox' = inbox
  BY <1>5 DEF Contents
<1> QED BY <1>3, <1>4, <1>5 DEF Mail!Push, e

LEMMA LowestIn ==
  ASSUME NEW S \in SUBSET Slots, S # {}
  PROVE  Mail!Lowest(S) \in S
<1>1. S \in SUBSET Nat
  BY MailGiven DEF Mail!InboxAssumption
<1> QED BY <1>1, LeastExists DEF Mail!Lowest

LEMMA SlotFound ==
  ASSUME NEW m, Mail!Matches(m) # {}
  PROVE  /\ Mail!Lowest(Mail!Matches(m)) \in Slots
         /\ Mail!FindByName(channels[Mail!Lowest(Mail!Matches(m))].name) \in Slots
<1> DEFINE k == Mail!Lowest(Mail!Matches(m))
           S == {i \in Slots : channels[i] # None /\ channels[i].name = channels[k].name}
<1>1. k \in Mail!Matches(m)
  BY LowestIn DEF Mail!Matches
<1>2. k \in S
  BY <1>1 DEF Mail!Matches
<1>3. Mail!Lowest(S) \in S
  BY <1>2, LowestIn
<1> QED BY <1>1, <1>3 DEF Mail!Matches, Mail!FindByName

(* Where a message enters the queue, its last recording has lapsed.        *)
EntersLapsed ==
  \A m \in Mail!Msg : m \in Contents' \ Contents /\ marked[m] # None => Lapsed(marked[m], now)

LEMMA InboxStarts == Mail!Init => InboxInv
<1> SUFFICES ASSUME Mail!Init PROVE InboxInv
  OBVIOUS
<1>1. now \in Nat /\ MarksOk(marked) /\ \A m \in Mail!Msg : marked[m] = None
  BY DEF Mail!Init, MarksOk
<1>2. \A S : <<>> \in Seq(S) /\ Len(<<>>) = 0
  OBVIOUS
<1>3. Mail!Direct \in SUBSET Mail!Msg /\ Mail!Channel \in SUBSET Mail!Msg
  BY DEF Mail!Msg
<1>4. \A P \in SUBSET Mail!Msg : Tracks(<<>>, marked, now, P, P)
  BY <1>1, <1>2 DEF Tracks, Entries
<1>5. SeenMax \in Nat
  BY MailGiven DEF Mail!InboxAssumption
<1> QED BY <1>1, <1>2, <1>3, <1>4, <1>5 DEF InboxInv, Mail!Init

LEMMA TextStep ==
  ASSUME InboxInv, Mail!NewMessage
  PROVE  InboxInv' /\ EntersLapsed
<1> DEFINE m == Head(events).msg
<1>0. /\ now \in Nat /\ MarksOk(marked) /\ now' = now
      /\ seenGroup' = seenGroup /\ Len(seenGroup) <= SeenMax /\ Len(seenTxt) <= SeenMax
      /\ Tracks(seenTxt, marked, now, Mail!Direct, Mail!Direct)
      /\ Tracks(seenGroup, marked, now, Mail!Channel, Mail!Channel)
      /\ inbox \in Seq(Letters)
  BY DEF InboxInv, Mail!NewMessage, Letters
<1>1. Mail!Direct \in SUBSET Mail!Msg /\ Mail!Channel \in SUBSET Mail!Msg
      /\ Mail!Direct \cap Mail!Channel = {}
  BY MailGiven DEF Mail!Msg, Mail!InboxAssumption
<1>2. m \in Mail!Direct /\ events' \in Seq([msg : Mail!Direct, acks : Nat])
  <2>1. events # <<>> /\ events' = Tail(events)
    BY DEF Mail!NewMessage
  <2>2. \A S : \A s \in Seq(S) : s # <<>> => Head(s) \in S /\ Tail(s) \in Seq(S)
    OBVIOUS
  <2>3. events \in Seq([msg : Mail!Direct, acks : Nat])
    BY DEF InboxInv
  <2>4. Head(events) \in [msg : Mail!Direct, acks : Nat]
        /\ Tail(events) \in Seq([msg : Mail!Direct, acks : Nat])
    BY <2>1, <2>2, <2>3
  <2> QED BY <2>1, <2>4
<1>3. CASE Mail!Holds(seenTxt, m)
  <2>1. seenTxt' = seenTxt /\ inbox' = inbox /\ marked' = marked
    BY <1>3 DEF Mail!NewMessage, Mail!SeenAdd
  <2> QED BY <1>0, <1>2, <2>1 DEF InboxInv, EntersLapsed, Contents, Letters
<1>4. CASE ~Mail!Holds(seenTxt, m)
  <2>1. /\ seenTxt' = Mail!SeenAdd(seenTxt, m) /\ Mail!Push(m, None)
        /\ marked' = Recorded(marked, m, Mail!Direct, now)
    BY <1>4 DEF Mail!NewMessage, Mail!Mark, Recorded
  <2>2. [msg |-> m, idx |-> None] \in Letters
    BY <1>1, <1>2 DEF Letters
  <2> HIDE DEF m
  <2>3. inbox' \in Seq(Letters) /\ Contents' \subseteq Contents \cup {m}
    BY <1>0, <2>1, <2>2, PushBrings
  <2>4. /\ Tracks(seenTxt', marked', now, Mail!Direct, Mail!Direct)
        /\ Len(seenTxt') <= SeenMax
    BY <1>0, <1>1, <1>2, <1>4, <2>1, SeenAddTracks
  <2>5. Tracks(seenGroup', marked', now, Mail!Channel, Mail!Channel)
    BY <1>0, <1>1, <1>2, <2>1, OtherTracks
  <2>6. MarksOk(marked')
    BY <1>0, <1>1, <1>2, <2>1, RecordedOk
  <2>7. marked[m] # None => Lapsed(marked[m], now)
    BY <1>0, <1>2, <1>4 DEF Tracks, Mail!Holds
  <2>8. EntersLapsed
    BY <2>3, <2>7 DEF EntersLapsed
  <2> QED BY <1>0, <1>2, <2>3, <2>4, <2>5, <2>6, <2>8 DEF InboxInv, MarksOk, Tracks, Entries,
                                                         Lapsed, Letters
<1> QED BY <1>3, <1>4

(* A packet recorded in the group cache, whether queued or not.            *)
LEMMA GroupStep ==
  ASSUME InboxInv, NEW m \in Mail!Channel, seenGroup' = Mail!GroupAdd(m),
         Mail!Mark(m, Mail!Channel), UNCHANGED <<now, seenTxt, events>>,
         \/ inbox' = inbox
         \/ ~Mail!GroupHit(m) /\ \E idx \in Slots : Mail!Push(m, idx)
  PROVE  InboxInv' /\ EntersLapsed
<1>0. /\ now \in Nat /\ MarksOk(marked) /\ now' = now /\ seenTxt' = seenTxt
      /\ Len(seenGroup) <= SeenMax /\ Len(seenTxt) <= SeenMax
      /\ Tracks(seenTxt, marked, now, Mail!Direct, Mail!Direct)
      /\ Tracks(seenGroup, marked, now, Mail!Channel, Mail!Channel)
      /\ inbox \in Seq(Letters) /\ events' \in Seq([msg : Mail!Direct, acks : Nat])
  BY DEF InboxInv, Letters
<1>1. Mail!Direct \in SUBSET Mail!Msg /\ m \in Mail!Msg /\ Mail!Direct \cap Mail!Channel = {}
  BY MailGiven DEF Mail!Msg, Mail!InboxAssumption
<1>2. marked' = Recorded(marked, m, Mail!Channel, now)
  BY DEF Mail!Mark, Recorded
<1>3. /\ Tracks(seenGroup', marked', now, Mail!Channel, Mail!Channel)
      /\ Len(seenGroup') <= SeenMax
  BY <1>0, <1>2, GroupAddTracks
<1>4. Tracks(seenTxt', marked', now, Mail!Direct, Mail!Direct)
  BY <1>0, <1>1, <1>2, OtherTracks
<1>5. MarksOk(marked')
  BY <1>0, <1>1, <1>2, RecordedOk
<1>6. inbox' \in Seq(Letters) /\ EntersLapsed
  <2>1. CASE inbox' = inbox
    BY <1>0, <2>1 DEF EntersLapsed, Contents
  <2>2. CASE ~Mail!GroupHit(m) /\ \E idx \in Slots : Mail!Push(m, idx)
    <3>1. PICK idx \in Slots : Mail!Push(m, idx)
      BY <2>2
    <3>2. [msg |-> m, idx |-> idx] \in Letters
      BY <1>1 DEF Letters
    <3>3. inbox' \in Seq(Letters) /\ Contents' \subseteq Contents \cup {m}
      BY <1>0, <3>1, <3>2, PushBrings
    <3>4. Tracks(Mail!EvictExpired(seenGroup), marked, now, Mail!Channel, Mail!Channel)
      BY <1>0, EvictTracks
    <3>5. marked[m] # None => Lapsed(marked[m], now)
      BY <2>2, <3>4 DEF Tracks, Mail!GroupHit, Mail!Holds
    <3> QED BY <3>3, <3>5 DEF EntersLapsed
  <2> QED BY <2>1, <2>2
<1> QED BY <1>0, <1>3, <1>4, <1>5, <1>6 DEF InboxInv, Letters

(* Steps that record nothing and let nothing in.                           *)
Quiet ==
  /\ UNCHANGED <<seenTxt, seenGroup, marked>> /\ now' \in {now, now + 1}
  /\ \/ UNCHANGED events
     \/ \E e \in [msg : Mail!Direct, acks : Nat] : events' = Append(events, e)
  /\ UNCHANGED inbox \/ (inbox # <<>> /\ inbox' = Tail(inbox))

LEMMA QuietStep ==
  ASSUME InboxInv, Quiet
  PROVE  InboxInv' /\ EntersLapsed
<1>0. Mail!Direct \in SUBSET Mail!Msg /\ Mail!Channel \in SUBSET Mail!Msg
  BY DEF Mail!Msg
<1>1. /\ now' \in Nat
      /\ Tracks(seenTxt, marked, now', Mail!Direct, Mail!Direct)
      /\ Tracks(seenGroup, marked, now', Mail!Channel, Mail!Channel)
  BY <1>0, LaterTracks DEF InboxInv, Quiet
<1>2. events' \in Seq([msg : Mail!Direct, acks : Nat])
  <2>1. \A S : \A s \in Seq(S) : \A e \in S : Append(s, e) \in Seq(S)
    OBVIOUS
  <2>2. events \in Seq([msg : Mail!Direct, acks : Nat])
    BY DEF InboxInv
  <2>3. ASSUME NEW e \in [msg : Mail!Direct, acks : Nat], events' = Append(events, e)
        PROVE  events' \in Seq([msg : Mail!Direct, acks : Nat])
    BY <2>1, <2>2, <2>3
  <2> QED BY <2>2, <2>3 DEF Quiet
<1>3. inbox' \in Seq(Letters) /\ Contents' \subseteq Contents
  <2>1. inbox \in Seq(Letters)
    BY DEF InboxInv, Letters
  <2>2. CASE UNCHANGED inbox
    BY <2>1, <2>2 DEF Contents
  <2>3. CASE inbox # <<>> /\ inbox' = Tail(inbox)
    <3>1. /\ Tail(inbox) \in Seq(Letters) /\ Len(inbox) \in Nat
          /\ Len(Tail(inbox)) = Len(inbox) - 1
          /\ \A i \in 1..(Len(inbox) - 1) :
               Tail(inbox)[i] = inbox[i + 1] /\ i + 1 \in 1..Len(inbox)
      <4>1. \A S : \A s \in Seq(S) : s # <<>> =>
              /\ Tail(s) \in Seq(S) /\ Len(s) \in Nat /\ Len(Tail(s)) = Len(s) - 1
              /\ \A i \in 1..(Len(s) - 1) : Tail(s)[i] = s[i + 1] /\ i + 1 \in 1..Len(s)
        OBVIOUS
      <4> QED BY <2>1, <2>3, <4>1
    <3>2. ASSUME NEW i \in 1..Len(inbox') PROVE inbox'[i].msg \in Contents
      <4>1. inbox'[i] = inbox[i + 1] /\ i + 1 \in 1..Len(inbox)
        BY <2>3, <3>1
      <4> QED BY <4>1 DEF Contents
    <3> QED BY <2>3, <3>1, <3>2 DEF Contents
  <2> QED BY <2>2, <2>3 DEF Quiet
<1>4. EntersLapsed
  BY <1>3 DEF EntersLapsed
<1> QED BY <1>1, <1>2, <1>3, <1>4 DEF InboxInv, Letters, Quiet

LEMMA InboxStep ==
  ASSUME InboxInv, [Mail!Next]_Mail!vars
  PROVE  InboxInv' /\ EntersLapsed
<1>1. ASSUME NEW m \in Mail!Msg, NEW flood \in BOOLEAN, NEW knownPath \in BOOLEAN,
             NEW allowed \in BOOLEAN, NEW fails \in BOOLEAN,
             Mail!RxText(m, flood, knownPath, allowed, fails)
      PROVE  InboxInv' /\ EntersLapsed
  <2>1. UNCHANGED <<seenTxt, seenGroup, marked, now, inbox>> /\ m \in Mail!Direct
    BY <1>1 DEF Mail!RxText, Mail!rx
  <2>2. Mail!Acks(m, flood, knownPath, allowed) \in Nat
    BY DEF Mail!Acks, Mail!AckPackets
  <2>3. \/ UNCHANGED events
        \/ \E e \in [msg : Mail!Direct, acks : Nat] : events' = Append(events, e)
    <3>1. [msg |-> m, acks |-> 0] \in [msg : Mail!Direct, acks : Nat]
          /\ [msg |-> m, acks |-> Mail!Acks(m, flood, knownPath, allowed)]
               \in [msg : Mail!Direct, acks : Nat]
      BY <2>1, <2>2
    <3>2. \/ UNCHANGED events \/ events' = Append(events, [msg |-> m, acks |-> 0])
          \/ events' = Append(events, [msg |-> m,
                                       acks |-> Mail!Acks(m, flood, knownPath, allowed)])
      BY <1>1 DEF Mail!RxText
    <3> QED BY <3>1, <3>2
  <2>4. Quiet
    BY <2>1, <2>3 DEF Quiet
  <2> QED BY <2>4, QuietStep
<1>2. ASSUME NEW m \in Mail!Msg, Mail!RxGroupText(m) PROVE InboxInv' /\ EntersLapsed
  <2>1. m \in Mail!Channel
    BY <1>2 DEF Mail!RxGroupText, Mail!Channel
  <2>2. CASE Mail!Matches(m) = {}
    <3>1. UNCHANGED <<seenTxt, seenGroup, marked, now, inbox, events>>
      BY <1>2, <2>2 DEF Mail!RxGroupText, Mail!rx
    <3>2. Quiet
      BY <3>1 DEF Quiet
    <3> QED BY <3>2, QuietStep
  <2>3. CASE Mail!Matches(m) # {}
    <3>1. /\ seenGroup' = Mail!GroupAdd(m) /\ Mail!Mark(m, Mail!Channel)
          /\ UNCHANGED <<now, seenTxt, events>>
      BY <1>2, <2>3 DEF Mail!RxGroupText
    <3>2. \/ inbox' = inbox
          \/ ~Mail!GroupHit(m)
             /\ Mail!Push(m, Mail!FindByName(channels[Mail!Lowest(Mail!Matches(m))].name))
      BY <1>2, <2>3 DEF Mail!RxGroupText
    <3> QED BY <2>1, <2>3, <3>1, <3>2, SlotFound, GroupStep
  <2> QED BY <2>2, <2>3
<1>3. ASSUME NEW m \in Mail!Msg, Mail!RxGroupData(m) PROVE InboxInv' /\ EntersLapsed
  <2>1. m \in Mail!Channel
    BY <1>3 DEF Mail!RxGroupData, Mail!Channel
  <2>2. CASE Mail!Matches(m) = {}
    <3>1. UNCHANGED <<seenTxt, seenGroup, marked, now, inbox, events>>
      BY <1>3, <2>2 DEF Mail!RxGroupData
    <3>2. Quiet
      BY <3>1 DEF Quiet
    <3> QED BY <3>2, QuietStep
  <2>3. CASE Mail!Matches(m) # {}
    <3>1. /\ seenGroup' = Mail!GroupAdd(m) /\ Mail!Mark(m, Mail!Channel)
          /\ UNCHANGED <<now, seenTxt, events>>
      BY <1>3, <2>3 DEF Mail!RxGroupData
    <3>2. \/ inbox' = inbox
          \/ ~Mail!GroupHit(m) /\ Mail!Push(m, Mail!Lowest(Mail!Matches(m)))
      BY <1>3, <2>3 DEF Mail!RxGroupData
    <3> QED BY <2>1, <2>3, <3>1, <3>2, SlotFound, GroupStep
  <2> QED BY <2>2, <2>3
<1>4. ASSUME NEW m \in Mail!Msg, Mail!SendChannel(m) PROVE InboxInv' /\ EntersLapsed
  <2>1. m \in Mail!Channel
    BY <1>4, MailGiven DEF Mail!SendChannel, Mail!InboxAssumption
  <2>2. /\ seenGroup' = Mail!GroupAdd(m) /\ Mail!Mark(m, Mail!Channel)
        /\ UNCHANGED <<now, seenTxt, events, inbox>>
    BY <1>4 DEF Mail!SendChannel
  <2> QED BY <2>1, <2>2, GroupStep
<1>5. CASE Mail!NewMessage
  BY <1>5, TextStep
<1>6. CASE Mail!Tick
  <2>1. UNCHANGED <<seenTxt, seenGroup, marked, inbox, events>> /\ now' = now + 1
    BY <1>6 DEF Mail!Tick, Mail!rx
  <2>2. Quiet
    BY <2>1 DEF Quiet
  <2> QED BY <2>2, QuietStep
<1>7. CASE \/ \E i \in Slots, c \in [name : Names, secret : Secrets] \cup {None} :
                Mail!SetChannel(i, c)
           \/ Mail!RegisterCommand \/ Mail!UnregisterCommand \/ Mail!SyncThread
           \/ Mail!AppSync \/ Mail!AppRead \/ Mail!Reconnect \/ UNCHANGED Mail!vars
  <2>1. UNCHANGED <<seenTxt, seenGroup, marked, inbox, events, now>>
    BY <1>7 DEF Mail!SetChannel, Mail!RegisterCommand, Mail!UnregisterCommand,
                Mail!SyncThread, Mail!AppSync, Mail!AppRead, Mail!Reconnect, Mail!rx, Mail!vars
  <2>2. Quiet
    BY <2>1 DEF Quiet
  <2> QED BY <2>2, QuietStep
<1>8. CASE Mail!SyncNext
  <2>1. UNCHANGED <<seenTxt, seenGroup, marked, events, now>>
        /\ (UNCHANGED inbox \/ (inbox # <<>> /\ inbox' = Tail(inbox)))
    BY <1>8 DEF Mail!SyncNext, Mail!rx
  <2>2. Quiet
    BY <2>1 DEF Quiet
  <2> QED BY <2>2, QuietStep
<1> QED BY <1>1, <1>2, <1>3, <1>4, <1>5, <1>6, <1>7, <1>8 DEF Mail!Next

(* However many copies of a packet are heard, in whatever order, and       *)
(* whatever the sizes of the caches and the queue: a message enters the    *)
(* queue again only once a TTL has gone by since it was last recorded, or  *)
(* as many other packets have been recorded since as its cache holds       *)
(* (_SeenCache and PacketHashCache under _handle_new_message and the       *)
(* group handlers).  The inductive invariant is that a cache holds the     *)
(* packets recorded in it in the order of their last recording, and        *)
(* forgets none before its window has closed.                              *)
THEOREM InboxDeduplicates == Mail!Spec => QueuedOncePerWindow
<1>1. InboxInv /\ [Mail!Next]_Mail!vars => InboxInv'
  BY InboxStep
<1>2. InboxInv /\ [Mail!Next]_Mail!vars =>
        \A m \in Mail!Msg :
          m \in ({inbox'[i].msg : i \in 1..Len(inbox')} \ Mail!Queued) /\ marked[m] # None =>
            \/ now - marked[m].at > Ttl
            \/ Mail!Cardinality(marked[m].since) >= SeenMax
  BY InboxStep DEF EntersLapsed, Contents, Mail!Queued, Lapsed, Mail!Cardinality, Cardinality
<1> QED
  BY <1>1, <1>2, InboxStarts, PTL DEF Mail!Spec, QueuedOncePerWindow, Mail!QueuedOncePerWindow
=============================================================================
