--------------------------- MODULE TransmitProofs ---------------------------
(* The airtime budget is never overdrawn.  The SX1262: a staged chip is    *)
(* not disturbed, an idle one listens, and what was claimed is read once.  *)
(* The link of the KISS modem: one thread reads it.                        *)
EXTENDS Transmit, KissLine, TLAPS

\* Leaves are tried with Zenon first and then with the SMT solver.
USE ZenonT(2), SMTT(20), ZenonT(20)

(* Whoever is at the radio owns the lock.                                  *)
AtRadio == \A t \in Tasks : pc[t] = "radio" => owner = t

BInv == TypeOK /\ AtRadio /\ BucketBounded /\ AdmissionHolds

LEMMA Products == \A a, b \in Nat : a * b \in Nat
  OBVIOUS

(* What a refill gives: it stays within the bucket, and it never takes the *)
(* budget below the reserve.                                               *)
LEMMA RefillFacts ==
  ASSUME TypeOK, BucketBounded
  PROVE  /\ Refilled \in Nat
         /\ \E r \in Rates : Refilled <= Window * r
         /\ budget >= Reserve => Refilled >= Reserve
         /\ MaxBudget \in Nat /\ MaxBudget >= Reserve
<1>1. /\ rate \in Nat /\ rate > 0 /\ lag \in Nat /\ budget \in Nat
      /\ Window \in Nat /\ Reserve \in Nat
  BY BudgetAssumption DEF TypeOK
<1>2. lag * rate \in Nat /\ Window * rate \in Nat
  BY <1>1, Products
<1>3. Reserve <= Window * rate
  BY BudgetAssumption DEF TypeOK
<1> DEFINE p == lag * rate
           w == Window * rate
<1>4. Refilled = IF lag = 0 THEN budget ELSE IF budget + p < w THEN budget + p ELSE w
  BY DEF Refilled, Least, MaxBudget
<1>5. p \in Nat /\ w \in Nat /\ Reserve <= w
  BY <1>2, <1>3
<1> HIDE DEF p, w
<1>6. Refilled \in Nat /\ (budget >= Reserve => Refilled >= Reserve)
      /\ (Refilled <= w \/ Refilled = budget)
  BY <1>1, <1>4, <1>5
<1>7. \E r \in Rates : Refilled <= Window * r
  <2>1. CASE Refilled <= w
    BY <2>1 DEF w, TypeOK
  <2>2. CASE Refilled = budget
    BY <2>2 DEF BucketBounded
  <2> QED
    BY <1>6, <2>1, <2>2
<1> QED
  BY <1>3, <1>2, <1>6, <1>7 DEF MaxBudget

LEMMA TicksNat ==
  ASSUME TypeOK, NEW u \in Int PROVE TicksFor(u) \in Nat
<1>1. rate \in Nat /\ rate > 0
  BY BudgetAssumption DEF TypeOK
<1>2. CASE u <= 0
  BY <1>2 DEF TicksFor
<1>3. CASE u > 0
  <2>1. u + rate - 1 \in Nat
    BY <1>1, <1>3
  <2>2. \A n \in Nat, k \in Nat \ {0} : n \div k \in Nat
    OBVIOUS
  <2> QED
    BY <1>1, <1>3, <2>1, <2>2 DEF TicksFor
<1> QED
  BY <1>2, <1>3

(* An empty wait means the reserve is there.                               *)
LEMMA WaitFacts ==
  ASSUME TypeOK, BucketBounded
  PROVE  Wait \in Nat /\ (Wait = 0 => Refilled >= Reserve)
<1>1. Refilled \in Nat /\ Reserve \in Nat /\ rate \in Nat /\ rate > 0 /\ pace \in Nat
  BY RefillFacts, BudgetAssumption DEF TypeOK
<1>2. TicksFor(Reserve - Refilled) \in Nat
  BY <1>1, TicksNat
<1>3. ASSUME Reserve - Refilled > 0 PROVE TicksFor(Reserve - Refilled) > 0
  <2>1. \A n, k \in Nat : k > 0 /\ n >= k => n \div k > 0
    OBVIOUS
  <2>2. Reserve - Refilled + rate - 1 \in Nat /\ Reserve - Refilled + rate - 1 >= rate
    BY <1>1, <1>3
  <2> QED
    BY <1>1, <1>3, <2>1, <2>2 DEF TicksFor
<1> QED
  BY <1>1, <1>2, <1>3 DEF Wait

LEMMA BInit == Init => BInv
<1>1. Init => TypeOK
  <2> SUFFICES ASSUME Init PROVE TypeOK
    OBVIOUS
  <2>1. 0 \in Nat /\ 0 \in 0..Window /\ <<>> \in Seq(Tasks)
    BY BudgetAssumption
  <2> QED
    BY <2>1 DEF Init, TypeOK
<1>3. Init => AtRadio /\ AdmissionHolds
  BY DEF Init, AtRadio, AdmissionHolds
<1>2. Init => BucketBounded
  <2> SUFFICES ASSUME Init PROVE 0 <= Window * rate
    BY BudgetAssumption DEF Init, BucketBounded
  <2> QED
    BY BudgetAssumption, Products DEF Init
<1> QED
  BY <1>1, <1>2, <1>3 DEF BInv

-----------------------------------------------------------------------------
(* A call that enters the lock, parks on it or goes to sleep again, after  *)
(* the budget was refilled or left alone.                                  *)
LEMMA MoveInv ==
  ASSUME BInv, NEW t \in Tasks, pc[t] # "radio",
         UNCHANGED <<rate, clientRepeat>>,
         \/ budget' = Refilled /\ lag' = 0 /\ pace' = pace
         \/ UNCHANGED bucket,
         queue' \in Seq(Tasks), sleep' \in [Tasks -> Nat],
         gated' = gated \/ gated' = gated \cup {t},
         \/ /\ owner = NoTask /\ owner' = t /\ pc' = [pc EXCEPT ![t] = "radio"]
            /\ t \in gated' /\ clientRepeat => budget' >= Reserve
         \/ /\ owner' = owner
            /\ \E place \in {"queue", "throttle", "done"} : pc' = [pc EXCEPT ![t] = place]
  PROVE  BInv'
<1> USE DEF BInv
<1>1. Window \in Nat /\ budget \in Nat /\ Reserve \in Nat /\ Refilled \in Nat
  BY BudgetAssumption, RefillFacts DEF TypeOK
<1>2. TypeOK'
  <2>1. pc' \in [Tasks -> {"new", "throttle", "queue", "radio", "done"}]
    BY DEF TypeOK
  <2>2. owner' \in Tasks \cup {NoTask} /\ gated' \subseteq Tasks
    BY DEF TypeOK
  <2>3. budget' \in Nat /\ lag' \in 0..Window /\ pace' \in Nat
    BY <1>1 DEF TypeOK, bucket
  <2> QED
    BY <2>1, <2>2, <2>3 DEF TypeOK
<1>3. AtRadio'
  BY NoTaskAssumption DEF AtRadio, TypeOK
<1>4. BucketBounded'
  BY RefillFacts DEF BucketBounded, bucket
<1>5. budget >= Reserve => budget' >= Reserve
  BY RefillFacts DEF bucket
<1>6. AdmissionHolds'
  BY <1>5, NoTaskAssumption DEF AdmissionHolds, AtRadio, TypeOK
<1> QED
  BY <1>2, <1>3, <1>4, <1>6

(* Acquire keeps the queue well-formed.                                    *)
LEMMA AcquireFacts ==
  ASSUME TypeOK, NEW t \in Tasks, Acquire(t)
  PROVE  /\ queue' \in Seq(Tasks)
         /\ \/ owner = NoTask /\ owner' = t /\ pc' = [pc EXCEPT ![t] = "radio"]
            \/ owner' = owner /\ pc' = [pc EXCEPT ![t] = "queue"]
<1>1. CASE owner = NoTask /\ queue = <<>>
  BY <1>1 DEF Acquire, Goto, TypeOK
<1>2. CASE ~(owner = NoTask /\ queue = <<>>)
  <2>1. /\ queue' = Append(queue, t) /\ owner' = owner
        /\ pc' = [pc EXCEPT ![t] = "queue"]
    BY <1>2 DEF Acquire, Goto
  <2>2. Append(queue, t) \in Seq(Tasks)
    BY DEF TypeOK
  <2> QED
    BY <2>1, <2>2
<1> QED
  BY <1>1, <1>2

(* The end of a call at the radio, whatever it leaves in the bucket.       *)
LEMMA LeaveInv ==
  ASSUME BInv, NEW t \in Tasks, pc[t] = "radio", owner' = NoTask,
         pc' = [pc EXCEPT ![t] = "done"],
         UNCHANGED <<sleep, gated, queue, rate, clientRepeat>>,
         budget' \in Nat, lag' \in 0..Window, pace' \in Nat, BucketBounded'
  PROVE  BInv'
<1> USE DEF BInv
<1>1. TypeOK'
  BY DEF TypeOK
<1>2. \A u \in Tasks : pc'[u] # "radio"
  BY NoTaskAssumption DEF AtRadio, TypeOK
<1> QED
  BY <1>1, <1>2 DEF AtRadio, AdmissionHolds, TypeOK

LEMMA ThrottleInv ==
  ASSUME BInv, NEW t \in Tasks, pc[t] # "radio", AwaitTxBudget(t),
         UNCHANGED <<rate, clientRepeat>>,
         gated' = gated \/ gated' = gated \cup {t}
  PROVE  BInv'
<1> USE DEF BInv
<1>1. CASE clientRepeat /\ Wait = 0
  <2>1. /\ budget' = Refilled /\ lag' = 0 /\ pace' = pace
        /\ Acquire(t) /\ UNCHANGED sleep /\ Refilled >= Reserve
    BY <1>1, WaitFacts DEF AwaitTxBudget, Refill
  <2> QED
    BY <2>1, AcquireFacts, MoveInv DEF TypeOK
<1>2. CASE clientRepeat /\ Wait # 0
  <2>1. /\ budget' = Refilled /\ lag' = 0 /\ pace' = pace
        /\ pc' = [pc EXCEPT ![t] = "throttle"] /\ UNCHANGED <<owner, queue>>
        /\ sleep' = [sleep EXCEPT ![t] = Wait] /\ Wait \in Nat
    BY <1>2, WaitFacts DEF AwaitTxBudget, Refill, Goto
  <2>2. sleep' \in [Tasks -> Nat] /\ queue' \in Seq(Tasks)
    BY <2>1 DEF TypeOK
  <2> QED
    BY <2>1, <2>2, MoveInv
<1>3. CASE ~clientRepeat
  <2>1. Acquire(t) /\ UNCHANGED <<sleep, bucket>>
    BY <1>3 DEF AwaitTxBudget
  <2> QED
    BY <1>3, <2>1, AcquireFacts, MoveInv DEF TypeOK
<1> QED
  BY <1>1, <1>2, <1>3

LEMMA BStep == BInv /\ [Next]_vars => BInv'
<1> SUFFICES ASSUME BInv, [Next]_vars PROVE BInv'
  OBVIOUS
<1> USE DEF BInv
<1>0. /\ Window \in Nat \ {0} /\ Reserve \in Nat /\ MinReserve \in Nat
      /\ Airtimes \subseteq Nat /\ Rates \subseteq Nat \ {0}
  BY BudgetAssumption
<1>1. ASSUME NEW t \in Tasks, SendPacket(t) PROVE BInv'
  <2>1. CASE clientRepeat
    BY <1>1, <2>1, ThrottleInv DEF SendPacket
  <2>2. CASE ~clientRepeat
    <3>1. pc[t] = "new" /\ Acquire(t) /\ UNCHANGED <<gated, sleep, bucket, rate, clientRepeat>>
      BY <1>1, <2>2 DEF SendPacket
    <3> QED
      BY <2>2, <3>1, AcquireFacts, MoveInv DEF TypeOK
  <2> QED
    BY <2>1, <2>2
<1>2. ASSUME NEW t \in Tasks, Wake(t) PROVE BInv'
  BY <1>2, ThrottleInv DEF Wake
<1>3. ASSUME NEW t \in Tasks, Granted(t) PROVE BInv'
  <2>1. queue # <<>>
    BY <1>3 DEF Granted
  <2>2. queue' \in Seq(Tasks) /\ pc[t] # "radio" /\ owner = NoTask
        /\ UNCHANGED <<gated, rate, clientRepeat>>
    BY <1>3, <2>1 DEF Granted, TypeOK
  <2>3. CASE t \in gated /\ clientRepeat /\ Wait = 0
    <3>1. /\ budget' = Refilled /\ lag' = 0 /\ pace' = pace /\ UNCHANGED sleep
          /\ owner' = t /\ pc' = [pc EXCEPT ![t] = "radio"] /\ Refilled >= Reserve
      BY <1>3, <2>3, WaitFacts DEF Granted, Refill, Goto
    <3> QED
      BY <2>2, <3>1, MoveInv DEF TypeOK
  <2>4. CASE t \in gated /\ clientRepeat /\ Wait # 0
    <3>1. /\ budget' = Refilled /\ lag' = 0 /\ pace' = pace /\ UNCHANGED owner
          /\ sleep' = [sleep EXCEPT ![t] = Wait] /\ Wait \in Nat
          /\ pc' = [pc EXCEPT ![t] = "throttle"]
      BY <1>3, <2>4, WaitFacts DEF Granted, Refill, Goto
    <3>2. sleep' \in [Tasks -> Nat]
      BY <3>1 DEF TypeOK
    <3> QED
      BY <2>2, <3>1, <3>2, MoveInv
  <2>5. CASE ~(t \in gated /\ clientRepeat)
    <3>1. owner' = t /\ pc' = [pc EXCEPT ![t] = "radio"] /\ UNCHANGED <<sleep, bucket>>
      BY <1>3, <2>5 DEF Granted, Goto
    <3> QED
      BY <2>2, <2>5, <3>1, MoveInv DEF TypeOK
  <2> QED
    BY <2>3, <2>4, <2>5
<1>4. ASSUME NEW t \in Tasks, RadioSent(t) PROVE BInv'
  <2>1. CASE clientRepeat
    <3>1. PICK a \in Airtimes : Debit(a)
      BY <1>4, <2>1 DEF RadioSent
    <3> DEFINE left == IF a > Refilled THEN 0 ELSE Refilled - a
    <3>2. left \in Nat /\ left <= Refilled
      BY <1>0, RefillFacts
    <3>3. budget' = left /\ lag' = 0 /\ pace' = TicksFor(MinReserve - left)
      BY <3>1 DEF Debit
    <3>4. pace' \in Nat
      BY <1>0, <3>2, <3>3, TicksNat
    <3>5. PICK r \in Rates : Refilled <= Window * r
      BY RefillFacts
    <3>6. Window * r \in Nat /\ Refilled \in Nat
      BY <1>0, Products, RefillFacts
    <3> HIDE DEF left
    <3>7. BucketBounded'
      BY <3>2, <3>3, <3>5, <3>6 DEF BucketBounded
    <3>8. lag' \in 0..Window /\ budget' \in Nat
      BY <1>0, <3>2, <3>3
    <3>9. /\ pc[t] = "radio" /\ owner' = NoTask /\ pc' = [pc EXCEPT ![t] = "done"]
          /\ UNCHANGED <<sleep, gated, queue, rate, clientRepeat>>
      BY <1>4 DEF RadioSent, Goto
    <3> QED
      BY <3>4, <3>7, <3>8, <3>9, LeaveInv
  <2>2. CASE ~clientRepeat
    BY <1>4, <2>2, LeaveInv DEF RadioSent, Goto, bucket, TypeOK, BucketBounded
  <2> QED
    BY <2>1, <2>2
<1>5. ASSUME NEW t \in Tasks, RadioFailed(t) PROVE BInv'
  BY <1>5, LeaveInv DEF RadioFailed, Goto, bucket, TypeOK, BucketBounded
<1>6. ASSUME NEW t \in Tasks, CancelThrottled(t) PROVE BInv'
  BY <1>6, MoveInv DEF CancelThrottled, Goto, TypeOK
<1>7. ASSUME NEW t \in Tasks, CancelQueued(t) PROVE BInv'
  <2>1. PICK i \in 1..Len(queue) :
          queue' = SubSeq(queue, 1, i - 1) \o SubSeq(queue, i + 1, Len(queue))
    BY <1>7 DEF CancelQueued
  <2>2. SubSeq(queue, 1, i - 1) \in Seq(Tasks) /\ SubSeq(queue, i + 1, Len(queue)) \in Seq(Tasks)
    BY DEF TypeOK
  <2>3. queue' \in Seq(Tasks)
    BY <2>1, <2>2
  <2> QED
    BY <1>7, <2>3, MoveInv DEF CancelQueued, Goto, TypeOK
<1>8. CASE SetClientRepeat
  <2>1. MaxBudget \in Nat /\ MaxBudget >= Reserve
    BY RefillFacts
  <2>2. TypeOK' /\ AtRadio'
    BY <1>0, <1>8, <2>1 DEF SetClientRepeat, ResetTxBudget, bucket, TypeOK, AtRadio
  <2>3. BucketBounded'
    <3>1. CASE clientRepeat
      BY <1>8, <3>1 DEF SetClientRepeat, bucket, BucketBounded
    <3>2. CASE ~clientRepeat
      <4>1. budget' = Window * rate /\ rate \in Rates /\ Window * rate \in Nat
        BY <1>8, <2>1, <3>2 DEF SetClientRepeat, ResetTxBudget, MaxBudget, TypeOK
      <4> QED
        BY <4>1 DEF BucketBounded
    <3> QED
      BY <3>1, <3>2
  <2>4. AdmissionHolds'
    BY <1>8, <2>1 DEF SetClientRepeat, ResetTxBudget, AdmissionHolds
  <2> QED
    BY <2>2, <2>3, <2>4
<1>9. CASE SetTuningParams
  BY <1>9 DEF SetTuningParams, bucket, TypeOK, AtRadio, BucketBounded, AdmissionHolds
<1>10. CASE Tick
  <2>1. TypeOK'
    BY <1>0, <1>10 DEF Tick, Least, TypeOK
  <2> QED
    BY <1>10, <2>1 DEF Tick, AtRadio, BucketBounded, AdmissionHolds
<1>11. CASE UNCHANGED vars
  BY <1>11 DEF vars, TypeOK, AtRadio, BucketBounded, AdmissionHolds
<1> QED
  BY <1>1, <1>2, <1>3, <1>4, <1>5, <1>6, <1>7, <1>8, <1>9, <1>10, <1>11 DEF Next, TaskStep

LEMMA BInvariance == Spec => []BInv
  BY BInit, BStep, PTL DEF Spec

(* Every variable of the budget keeps its type; in particular the budget   *)
(* is never negative.                                                      *)
THEOREM BudgetTypes == Spec => []TypeOK
<1>1. BInv => TypeOK
  BY DEF BInv
<1> QED
  BY <1>1, BInvariance, PTL

(* The clamp of _refill_tx_budget bounds the bucket.                       *)
THEOREM Bounded == Spec => []BucketBounded
<1>1. BInv => BucketBounded
  BY DEF BInv
<1> QED
  BY <1>1, BInvariance, PTL

(* The recheck under _tx_lock authorises no send past another call's debit *)
(* ("a snapshot taken before queueing cannot transmit past a debit another *)
(* task committed", send_packet).                                          *)
THEOREM Admission == Spec => []AdmissionHolds
<1>1. BInv => AdmissionHolds
  BY DEF BInv
<1> QED
  BY <1>1, BInvariance, PTL

-----------------------------------------------------------------------------
AtWork(j) == at[j] \notin {"idle", "lock"}

(* _tx_lock: one job at a time.                                            *)
OneAtWork == \A j, k \in Job : AtWork(j) /\ AtWork(k) => j = k

(* What is latched was not claimed yet, and the flags of the interrupt the *)
(* background task is about to claim are all that was latched with it.     *)
LatchedUnclaimed ==
  /\ claimed \subseteq 1..ended
  /\ \A f \in Sx!Terminal : latch[f] <= ended /\ latch[f] \notin claimed
  /\ last.flags \cap Sx!Terminal # {} =>
       /\ last.of \in 1..ended
       /\ \A f \in Sx!Terminal : latch[f] = last.of => f \in last.flags

SInv ==
  /\ Sx!TypeOK /\ OneAtWork /\ Sx!StagedUndisturbed /\ Sx!ListensWhenIdle
  /\ LatchedUnclaimed /\ Sx!ClaimedNotDrained

LEMMA InitSInv == ASSUME Sx!Init PROVE SInv
BY DEF Sx!Init, SInv, Sx!TypeOK, OneAtWork, AtWork, Sx!StagedUndisturbed, Sx!ListensWhenIdle,
    Sx!Locked,
       LatchedUnclaimed, Sx!ClaimedNotDrained, Sx!ChipState, Sx!Places, Sx!Flags, Sx!Terminal

(* What the drain consumes was not claimed.                                *)
LEMMA Drained ==
  ASSUME SInv, Sx!Drain, UNCHANGED <<last, ended, claimed>>
  PROVE  LatchedUnclaimed' /\ Sx!ClaimedNotDrained' /\ latch' \in [Sx!Terminal -> Nat]
<1>1. /\ latch' = [f \in Sx!Terminal |-> 0] /\ last' = last /\ ended' = ended /\ claimed' = claimed
      /\ ended \in Nat /\ claimed \subseteq 1..ended
  BY DEF SInv, Sx!Drain, LatchedUnclaimed, Sx!TypeOK
<1>2. ~ \E f \in Sx!Terminal : latch[f] \in claimed
  BY DEF SInv, LatchedUnclaimed
<1>3. Sx!ClaimedNotDrained'
  BY <1>2 DEF SInv, Sx!Drain, Sx!ClaimedNotDrained
<1>4. latch' \in [Sx!Terminal -> Nat] /\ \A f \in Sx!Terminal : latch'[f] = 0
  BY <1>1
<1>5. LatchedUnclaimed'
  BY <1>1, <1>4 DEF SInv, LatchedUnclaimed
<1> QED
  BY <1>3, <1>4, <1>5

(* What is asked of the chip, and where that leaves it.                    *)
LEMMA Asked ==
  ASSUME NEW c \in Sx!ChipState, NEW m \in {"rx", "tx", "cad"}
  PROVE  /\ Sx!Standby(c) \in Sx!ChipState /\ Sx!Standby(c).mode = "standby"
         /\ Sx!Quiet(c, m) \in Sx!ChipState /\ Sx!Quiet(c, m).mode = c.mode /\ Sx!Quiet(c, m).mask = m
         /\ Sx!Listen(c) \in Sx!ChipState /\ Sx!Listen(c).mode = "rx" /\ Sx!Listen(c).mask = "rx"
BY DEF Sx!ChipState, Sx!Standby, Sx!Quiet, Sx!Listen

Staged == {"cadSet", "cadWait", "staged", "txDrain", "txSetup", "txWait"}

(* A job that moves while no other is at work, and finds or leaves the     *)
(* chip where its new place wants it, keeps the invariant.                 *)
LEMMA Moved ==
  ASSUME SInv, NEW j \in Job, \A k \in Job \ {j} : at[k] \in {"idle", "lock"},
         NEW to \in Sx!Places, Sx!Go(j, to), chip' \in Sx!ChipState,
         to \in Staged => chip'.mode # "rx",
         to \in {"idle", "lock"} => chip'.mode = "rx" /\ chip'.mask = "rx",
         \/ latch' = latch /\ again' = again
         \/ Sx!Drain,
         last' = last, ended' = ended, claimed' = claimed
  PROVE  SInv'
<1>1. /\ at' \in [Job -> Sx!Places] /\ at'[j] = to
      /\ \A k \in Job \ {j} : at'[k] = at[k]
  BY DEF Sx!Go, SInv, Sx!TypeOK
<1>2. OneAtWork' /\ Sx!StagedUndisturbed' /\ Sx!ListensWhenIdle'
  BY <1>1 DEF OneAtWork, AtWork, Sx!StagedUndisturbed, Sx!ListensWhenIdle, Sx!Locked, Staged
<1>3. LatchedUnclaimed' /\ Sx!ClaimedNotDrained' /\ latch' \in [Sx!Terminal -> Nat]
  <2>1. CASE Sx!Drain
    BY <2>1, Drained
  <2>2. CASE latch' = latch /\ again' = again
    BY <2>2 DEF SInv, LatchedUnclaimed, Sx!ClaimedNotDrained, Sx!TypeOK
  <2> QED
    BY <2>1, <2>2
<1>4. Sx!TypeOK'
  BY <1>1, <1>3 DEF SInv, Sx!TypeOK
<1> QED
  BY <1>2, <1>3, <1>4 DEF SInv

LEMMA Alone ==
  ASSUME SInv, NEW j \in Job, AtWork(j)
  PROVE  \A k \in Job \ {j} : at[k] \in {"idle", "lock"}
BY DEF SInv, OneAtWork, AtWork

(* The places the drain before a scan leads to.                            *)
LEMMA ScanStarts ==
  ASSUME SInv, NEW j \in Job, \A k \in Job \ {j} : at[k] \in {"idle", "lock"},
         \/ Sx!StartScan(j)
         \/ Sx!ToScan(j),
         last' = last, ended' = ended, claimed' = claimed
  PROVE  SInv'
<1>1. chip \in Sx!ChipState
  BY DEF SInv, Sx!TypeOK
<1>2. CASE Sx!ToScan(j)
  <2>1. Sx!Drain /\ Sx!Go(j, "cadSet") /\ chip' \in Sx!ChipState /\ chip'.mode = "standby"
    BY <1>1, <1>2, Asked DEF Sx!ToScan
  <2> QED
    BY <2>1, Moved DEF Sx!Places
<1>3. CASE Sx!Go(j, "cadDrain") /\ UNCHANGED <<chip, latch, again>>
  BY <1>1, <1>3, Moved DEF Sx!Places, Staged
<1> QED
  BY <1>2, <1>3 DEF Sx!StartScan

LEMMA RetrySInv ==
  ASSUME SInv, NEW j \in Job, \A k \in Job \ {j} : at[k] \in {"idle", "lock"},
         Sx!Retry(j), chip' \in Sx!ChipState, latch' = latch, again' = again,
         last' = last, ended' = ended, claimed' = claimed
  PROVE  SInv'
BY Moved DEF Sx!Retry, Sx!Places, Staged

LEMMA LbtSInv ==
  ASSUME SInv, NEW j \in Job, Sx!Lbt(j) PROVE SInv'
<1>a. chip \in Sx!ChipState
  BY DEF SInv, Sx!TypeOK
<1>1. CASE Sx!GetLock(j)
  <2>1. /\ \A k \in Job \ {j} : at[k] \in {"idle", "lock"}
        /\ last' = last /\ ended' = ended /\ claimed' = claimed
    BY <1>1 DEF Sx!GetLock, Sx!Locked
  <2>2. CASE Sx!StartScan(j)
    BY <2>1, <2>2, ScanStarts
  <2>3. CASE Sx!Go(j, "lbt") /\ UNCHANGED <<chip, latch, again>>
    BY <1>a, <2>1, <2>3, Moved DEF Sx!Places, Staged
  <2> QED
    BY <1>1, <2>2, <2>3 DEF Sx!GetLock
<1>2. ASSUME AtWork(j) PROVE \A k \in Job \ {j} : at[k] \in {"idle", "lock"}
  BY <1>2, Alone
<1>3. CASE Sx!Receiving(j)
  BY <1>a, <1>2, <1>3, RetrySInv DEF Sx!Receiving, AtWork, Sx!irqs, Sx!history
<1>4. CASE Sx!ChannelScan(j)
  BY <1>2, <1>4, ScanStarts DEF Sx!ChannelScan, AtWork
<1>5. CASE Sx!CadDrains(j)
  BY <1>2, <1>5, ScanStarts DEF Sx!CadDrains, AtWork
<1>6. CASE Sx!SetCad(j)
  <2>1. chip' \in Sx!ChipState /\ chip'.mode = "cad"
    BY <1>a, <1>6 DEF Sx!SetCad, Sx!Quiet, Sx!ChipState
  <2> QED
    BY <1>2, <1>6, <2>1, Moved DEF Sx!SetCad, AtWork, Sx!Places, Staged, Sx!irqs, Sx!history
<1>7. CASE at[j] = "cadWait" /\ Sx!CadEnds(j) /\ UNCHANGED <<Sx!irqs, Sx!history>>
  <2>1. /\ \A k \in Job \ {j} : at[k] \in {"idle", "lock"}
        /\ latch' = latch /\ again' = again /\ last' = last /\ ended' = ended
        /\ claimed' = claimed
    BY <1>2, <1>7 DEF AtWork, Sx!irqs, Sx!history
  <2>2. CASE Sx!Go(j, "idle") /\ chip' = Sx!Listen(chip)
    BY <1>a, <2>1, <2>2, Asked, Moved DEF Sx!Places, Staged
  <2>3. CASE chip' = Sx!Listen(chip) /\ Sx!Retry(j)
    BY <1>a, <2>1, <2>3, Asked, RetrySInv
  <2>4. CASE chip' = Sx!Quiet(Sx!Standby(chip), "rx") /\ Sx!Go(j, "commit")
    BY <1>a, <2>1, <2>4, Asked, Moved DEF Sx!Places, Staged
  <2> QED
    BY <1>7, <2>2, <2>3, <2>4 DEF Sx!CadEnds
<1>8. CASE Sx!CadDone(j) \/ Sx!CadTimesOut(j)
  BY <1>7, <1>8 DEF Sx!CadDone, Sx!CadTimesOut
<1>9. CASE Sx!BackoffOver(j)
  BY <1>a, <1>2, <1>9, Moved DEF Sx!BackoffOver, AtWork, Sx!Places, Staged, Sx!irqs, Sx!history
<1>10. CASE Sx!Commit(j)
  BY <1>a, <1>2, <1>10, Asked, Moved DEF Sx!Commit, AtWork, Sx!Places, Staged, Sx!history
<1> QED
  BY <1>1, <1>3, <1>4, <1>5, <1>6, <1>8, <1>9, <1>10 DEF Sx!Lbt

LEMMA TxSInv ==
  ASSUME SInv, NEW j \in Job, Sx!Tx(j) PROVE SInv'
<1>a. chip \in Sx!ChipState
  BY DEF SInv, Sx!TypeOK
<1>1. ASSUME AtWork(j) PROVE \A k \in Job \ {j} : at[k] \in {"idle", "lock"}
  BY <1>1, Alone
<1>2. ASSUME Sx!ToTx(j), at[j] \in {"staged", "txDrain"},
             last' = last, ended' = ended, claimed' = claimed
      PROVE  SInv'
  <2>1. chip.mode # "rx"
    BY <1>2 DEF SInv, Sx!StagedUndisturbed
  <2>2. chip' \in Sx!ChipState /\ chip'.mode = chip.mode
    BY <1>a, <1>2 DEF Sx!ToTx, Sx!Quiet, Sx!ChipState
  <2> QED
    BY <1>1, <1>2, <2>1, <2>2, Moved DEF Sx!ToTx, AtWork, Sx!Places, Staged
<1>3. CASE Sx!Stage(j)
  <2>1. CASE Sx!ToTx(j)
    BY <1>2, <1>3, <2>1 DEF Sx!Stage
  <2>2. CASE Sx!Go(j, "txDrain") /\ UNCHANGED <<chip, latch, again, busy>>
    <3>1. chip.mode # "rx"
      BY <1>3 DEF Sx!Stage, SInv, Sx!StagedUndisturbed
    <3> QED
      BY <1>a, <1>1, <1>3, <2>2, <3>1, Moved DEF Sx!Stage, AtWork, Sx!Places, Staged
  <2> QED
    BY <1>3, <2>1, <2>2 DEF Sx!Stage
<1>4. CASE Sx!TxDrains(j)
  BY <1>2, <1>4 DEF Sx!TxDrains
<1>5. CASE Sx!SetTx(j)
  <2>1. chip' \in Sx!ChipState /\ chip'.mode = "tx"
    BY <1>a, <1>5 DEF Sx!SetTx, Sx!ChipState
  <2> QED
    BY <1>1, <1>5, <2>1, Moved DEF Sx!SetTx, AtWork, Sx!Places, Staged, Sx!irqs, Sx!history
<1>6. CASE Sx!TxRefused(j)
  BY <1>a, <1>1, <1>6, Asked, Moved DEF Sx!TxRefused, AtWork, Sx!Places, Staged, Sx!irqs, Sx!history
<1>7. CASE Sx!TxComplete(j)
  <2>1. chip' \in Sx!ChipState
    BY <1>a, <1>7 DEF Sx!TxComplete, Sx!ChipState
  <2> QED
    BY <1>1, <1>7, <2>1, Moved DEF Sx!TxComplete, AtWork, Sx!Places, Staged, Sx!irqs, Sx!history
<1>8. CASE Sx!TxTimesOut(j)
  <2>1. chip' \in Sx!ChipState
    BY <1>a, <1>8 DEF Sx!TxTimesOut, Sx!Standby, Sx!ChipState
  <2> QED
    BY <1>1, <1>8, <2>1, Moved DEF Sx!TxTimesOut, AtWork, Sx!Places, Staged, Sx!irqs, Sx!history
<1>9. CASE Sx!RestoreRxMode(j)
  <2>1. chip' \in Sx!ChipState /\ chip'.mode = "rx" /\ chip'.mask = "rx"
    BY <1>a, <1>9 DEF Sx!RestoreRxMode, Sx!Listen, Sx!Quiet, Sx!ChipState
  <2> QED
    BY <1>1, <1>9, <2>1, Moved DEF Sx!RestoreRxMode, AtWork, Sx!Places, Staged, Sx!irqs, Sx!history
<1> QED
  BY <1>3, <1>4, <1>5, <1>6, <1>7, <1>8, <1>9 DEF Sx!Tx

(* Whatever leaves the jobs where they are, and the chip in its mode, or   *)
(* takes it out of receive mode only when it was not in it.                *)
LEMMA ChipKeeps ==
  ASSUME SInv, at' = at, chip' \in Sx!ChipState, chip'.mask = chip.mask,
         chip'.mode = chip.mode \/ (chip.mode # "rx" /\ chip'.mode = "standby")
  PROVE  OneAtWork' /\ Sx!StagedUndisturbed' /\ Sx!ListensWhenIdle'
BY DEF SInv, OneAtWork, AtWork, Sx!StagedUndisturbed, Sx!ListensWhenIdle, Sx!Locked

LEMMA LatchKeeps ==
  ASSUME SInv, latch' = latch, again' = again, last' = last, ended' = ended, claimed' = claimed
  PROVE  /\ LatchedUnclaimed' /\ Sx!ClaimedNotDrained' /\ latch' \in [Sx!Terminal -> Nat]
         /\ last' \in [flags : SUBSET Sx!Flags, of : Nat] /\ ended' \in Nat /\ claimed' \subseteq Nat
BY DEF SInv, LatchedUnclaimed, Sx!ClaimedNotDrained, Sx!TypeOK

LEMMA ChipSInv ==
  ASSUME SInv, Sx!Chip PROVE SInv'
<1>a. chip \in Sx!ChipState /\ at \in [Job -> Sx!Places]
  BY DEF SInv, Sx!TypeOK
<1>1. \A flag \in Sx!Flags : Sx!WithFlag(flag) \in SUBSET Sx!Flags
  BY <1>a DEF Sx!WithFlag, Sx!ChipState
<1>2. /\ chip' \in Sx!ChipState /\ chip'.mask = chip.mask
      /\ chip'.mode = chip.mode \/ (chip.mode # "rx" /\ chip'.mode = "standby")
  <2>1. CASE Sx!ChipHearsPreamble
    <3>1. Sx!WithFlag("marker") \in SUBSET Sx!Flags
      BY <1>1 DEF Sx!Flags
    <3> QED
      BY <1>a, <2>1, <3>1 DEF Sx!ChipHearsPreamble, Sx!ChipState
  <2>2. CASE Sx!ChipReceives
    <3>1. PICK flag \in Sx!Terminal : chip' = [chip EXCEPT !.rx = FALSE, !.irq = Sx!WithFlag(flag)]
      BY <2>2 DEF Sx!ChipReceives
    <3>2. Sx!WithFlag(flag) \in SUBSET Sx!Flags
      BY <1>1 DEF Sx!Flags
    <3> QED
      BY <1>a, <3>1, <3>2 DEF Sx!ChipState
  <2>3. CASE Sx!ChipTransmits
    <3>1. Sx!WithFlag("txdone") \in SUBSET Sx!Flags
      BY <1>1 DEF Sx!Flags
    <3> QED
      BY <1>a, <2>3, <3>1 DEF Sx!ChipTransmits, Sx!ChipState
  <2>4. CASE Sx!ChipScans
    <3>1. PICK flag \in {"clear", "found"} :
            chip' = [chip EXCEPT !.mode = "standby", !.irq = Sx!WithFlag(flag)]
      BY <2>4 DEF Sx!ChipScans
    <3>2. Sx!WithFlag(flag) \in SUBSET Sx!Flags
      BY <1>1 DEF Sx!Flags
    <3> QED
      BY <1>a, <2>4, <3>1, <3>2 DEF Sx!ChipScans, Sx!ChipState
  <2> QED
    BY <2>1, <2>2, <2>3, <2>4 DEF Sx!Chip
<1>3. /\ at' = at /\ latch' = latch /\ again' = again /\ last' = last /\ ended' = ended
      /\ claimed' = claimed
  BY DEF Sx!Chip, Sx!ChipHearsPreamble, Sx!ChipReceives, Sx!ChipTransmits, Sx!ChipScans, Sx!jobs,
      Sx!history
<1>4. Sx!TypeOK'
  BY <1>a, <1>2, <1>3, LatchKeeps DEF Sx!TypeOK
<1> QED
  BY <1>2, <1>3, <1>4, ChipKeeps, LatchKeeps DEF SInv

LEMMA HandleSInv ==
  ASSUME SInv, Sx!HandleInterrupt PROVE SInv'
<1> DEFINE flags == chip.irq  n == ended + 1
<1>a. /\ chip \in Sx!ChipState /\ at \in [Job -> Sx!Places] /\ flags \in SUBSET Sx!Flags
      /\ ended \in Nat /\ n \in Nat /\ latch \in [Sx!Terminal -> Nat]
      /\ last \in [flags : SUBSET Sx!Flags, of : Nat]
      /\ claimed \subseteq 1..ended /\ claimed \subseteq Nat
  BY DEF SInv, Sx!TypeOK, Sx!ChipState, LatchedUnclaimed
<1>1. /\ chip' \in Sx!ChipState /\ chip'.mask = chip.mask /\ chip'.mode = chip.mode /\ at' = at
      /\ claimed' = claimed /\ again' = again
  BY <1>a DEF Sx!HandleInterrupt, Sx!ChipState, Sx!jobs
<1>2. /\ last' = IF flags = {} THEN last ELSE [flags |-> flags, of |-> n]
      /\ latch' = [f \in Sx!Terminal |-> IF f \in flags THEN n ELSE latch[f]]
      /\ ended' = IF flags \cap Sx!Terminal # {} THEN n ELSE ended
  BY DEF Sx!HandleInterrupt
<1>3. Sx!TypeOK'
  <2> HIDE DEF flags, n
  <2>1. latch' \in [Sx!Terminal -> Nat] /\ ended' \in Nat
    BY <1>a, <1>2
  <2>2. last' \in [flags : SUBSET Sx!Flags, of : Nat]
    BY <1>a, <1>2
  <2> QED
    BY <1>a, <1>1, <2>1, <2>2 DEF Sx!TypeOK
<1>4. \A f \in Sx!Terminal : latch[f] <= ended /\ latch[f] \notin claimed /\ latch[f] \in Nat
  BY <1>a DEF SInv, LatchedUnclaimed
<1>5. LatchedUnclaimed'
  <2>1. CASE flags \cap Sx!Terminal # {}
    <3>1. /\ ended' = n /\ last' = [flags |-> flags, of |-> n]
          /\ \A f \in Sx!Terminal : latch'[f] = IF f \in flags THEN n ELSE latch[f]
      BY <1>2, <2>1
    <3>2. last'.flags = flags /\ last'.of = n
      BY <3>1
    <3> QED
      BY <1>a, <1>1, <1>4, <3>1, <3>2 DEF LatchedUnclaimed
  <2>2. CASE flags \cap Sx!Terminal = {}
    <3>1. ended' = ended /\ \A f \in Sx!Terminal : latch'[f] = latch[f]
      BY <1>2, <2>2
    <3>2. CASE flags = {}
      <4>1. last' = last
        BY <1>2, <3>2
      <4> QED
        BY <1>1, <3>1, <4>1 DEF SInv, LatchedUnclaimed
    <3>3. CASE flags # {}
      <4>1. last'.flags \cap Sx!Terminal = {}
        BY <1>2, <2>2, <3>3
      <4> QED
        BY <1>a, <1>1, <1>4, <3>1, <4>1 DEF LatchedUnclaimed
    <3> QED
      BY <3>2, <3>3
  <2> QED
    BY <2>1, <2>2
<1>6. Sx!ClaimedNotDrained'
  BY <1>1 DEF SInv, Sx!ClaimedNotDrained
<1> QED
  BY <1>1, <1>3, <1>5, <1>6, ChipKeeps DEF SInv

LEMMA RxProcessesSInv ==
  ASSUME SInv, Sx!RxProcesses PROVE SInv'
<1>a. /\ chip \in Sx!ChipState /\ at \in [Job -> Sx!Places] /\ at' = at /\ last' = last
      /\ ended' = ended /\ ended \in Nat /\ latch \in [Sx!Terminal -> Nat]
      /\ last \in [flags : SUBSET Sx!Flags, of : Nat] /\ claimed \subseteq 1..ended
      /\ again' = again /\ \A f \in Sx!Terminal : latch[f] <= ended
  BY DEF SInv, Sx!TypeOK, Sx!RxProcesses, Sx!jobs, LatchedUnclaimed
<1>1. chip' \in Sx!ChipState /\ OneAtWork' /\ Sx!StagedUndisturbed' /\ Sx!ListensWhenIdle'
  <2>1. CASE ~Sx!Locked /\ chip' = Sx!Listen(chip)
    BY <1>a, <2>1, Asked
      DEF SInv, OneAtWork, AtWork, Sx!StagedUndisturbed, Sx!ListensWhenIdle, Sx!Locked
  <2>2. CASE chip' = chip
    BY <1>a, <2>2, ChipKeeps
  <2> QED
    BY <2>1, <2>2 DEF Sx!RxProcesses, Sx!RestoresRx
<1>2. /\ latch' = [f \in Sx!Terminal |-> IF f \in last.flags THEN 0 ELSE latch[f]]
      /\ claimed' = IF last.flags \cap Sx!Terminal # {} THEN claimed \cup {last.of} ELSE claimed
  BY DEF Sx!RxProcesses, Sx!Claim
<1>3. latch' \in [Sx!Terminal -> Nat] /\ claimed' \subseteq 1..ended
  BY <1>a, <1>2 DEF SInv, LatchedUnclaimed
<1>4. LatchedUnclaimed'
  <2>1. \A f \in Sx!Terminal : latch'[f] <= ended /\ latch'[f] \notin claimed'
    <3>1. ASSUME NEW f \in Sx!Terminal PROVE latch'[f] <= ended /\ latch'[f] \notin claimed'
      <4>1. CASE f \in last.flags
        BY <1>a, <1>2, <1>3, <4>1
      <4>2. CASE f \notin last.flags
        BY <1>a, <1>2, <4>2 DEF SInv, LatchedUnclaimed
      <4> QED
        BY <4>1, <4>2
    <3> QED
      BY <3>1
  <2>2. ASSUME last.flags \cap Sx!Terminal # {}
        PROVE  last.of \in 1..ended /\ \A f \in Sx!Terminal : latch'[f] = last.of => f \in last.flags
    BY <1>2, <2>2 DEF SInv, LatchedUnclaimed
  <2> QED
    BY <1>a, <1>3, <2>1, <2>2 DEF LatchedUnclaimed
<1>5. Sx!TypeOK'
  BY <1>a, <1>1, <1>3 DEF Sx!TypeOK
<1>6. Sx!ClaimedNotDrained'
  BY <1>a DEF SInv, Sx!ClaimedNotDrained
<1> QED
  BY <1>1, <1>4, <1>5, <1>6 DEF SInv

LEMMA StepSInv ==
  ASSUME SInv, [Sx!Next]_Sx!vars PROVE SInv'
<1>a. chip \in Sx!ChipState /\ at \in [Job -> Sx!Places]
  BY DEF SInv, Sx!TypeOK
<1>1. ASSUME at' = at, chip' = chip, latch' = latch, again' = again, last' = last,
             ended' = ended, claimed' = claimed
      PROVE  SInv'
  BY <1>a, <1>1, ChipKeeps, LatchKeeps DEF SInv, Sx!TypeOK
<1>2. CASE Sx!RxWakes \/ Sx!RxRestored \/ UNCHANGED Sx!vars
  BY <1>1, <1>2 DEF Sx!RxWakes, Sx!RxRestored, Sx!vars, Sx!irqs, Sx!jobs, Sx!history
<1>3. ASSUME NEW j \in Job, NEW to \in {"idle", "lock"}, at[j] \in {"idle", "lock"}, Sx!Go(j, to),
             chip' = chip, latch' = latch, again' = again, last' = last, ended' = ended,
             claimed' = claimed
      PROVE  SInv'
  <2>1. /\ at' \in [Job -> Sx!Places]
        /\ \A k \in Job : at'[k] = at[k] \/ (at'[k] \in {"idle", "lock"} /\ at[k] \in {"idle", "lock"})
    BY <1>a, <1>3 DEF Sx!Go, Sx!Places
  <2>2. OneAtWork' /\ Sx!StagedUndisturbed' /\ Sx!ListensWhenIdle'
    BY <1>3, <2>1 DEF SInv, OneAtWork, AtWork, Sx!StagedUndisturbed, Sx!ListensWhenIdle, Sx!Locked
  <2> QED
    BY <1>a, <1>3, <2>1, <2>2, LatchKeeps DEF SInv, Sx!TypeOK
<1>4. ASSUME NEW j \in Job, Sx!Begin(j) \/ Sx!ScanGivesUp(j) PROVE SInv'
  BY <1>3, <1>4 DEF Sx!Begin, Sx!ScanGivesUp, Sx!irqs, Sx!history
<1> QED
  BY <1>2, <1>4, ChipSInv, HandleSInv, RxProcessesSInv, LbtSInv, TxSInv
    DEF Sx!Next, Sx!RxTask, Sx!JobStep

LEMMA ChipInvariance == Sx!Spec => []SInv
<1>1. Sx!Init => SInv
  BY InitSInv
<1>2. SInv /\ [Sx!Next]_Sx!vars => SInv'
  BY StepSInv
<1> QED
  BY <1>1, <1>2, PTL DEF Sx!Spec

(* The background task never returns the chip to receive mode while a send *)
(* or a scan has it staged, so that no packet heard overwrites the one to  *)
(* send (sx1262_wrapper.py 719-735).                                       *)
THEOREM Undisturbed == Sx!Spec => []StagedUndisturbed
<1>1. SInv => StagedUndisturbed
  BY DEF SInv, StagedUndisturbed
<1> QED BY <1>1, ChipInvariance, PTL

(* However sends and scans end, by success, refusal or timeout: the chip   *)
(* listens, with the interrupts of RX enabled, when none is at work.       *)
THEOREM Listening == Sx!Spec => []ListensWhenIdle
<1>1. SInv => ListensWhenIdle
  BY DEF SInv, ListensWhenIdle
<1> QED BY <1>1, ChipInvariance, PTL

(* A reception the background task has claimed is not read again by the    *)
(* drain before the buffer is reused, however the interrupts fall.         *)
THEOREM ReadOnce == Sx!Spec => []ClaimedNotDrained
<1>1. SInv => ClaimedNotDrained
  BY DEF SInv, ClaimedNotDrained
<1> QED BY <1>1, ChipInvariance, PTL

-----------------------------------------------------------------------------
(* Where a thread that brings the link up holds the connection lock, and   *)
(* where it reports a failed write, holding the write lock.                *)
Marking == {"mark", "markClose", "markGate", "markStart"}
Linking == Marking \cup {"join", "open", "enter", "lock", "await", "answered", "failed",
                         "commit"}
Places == Linking \cup {"dead", "idle", "work", "loop", "acquire", "exit", "done"}

(* The lock is owned by whoever brings the link up, so that only one does. *)
Owned ==
  /\ kpc \in [Line!Threads -> Places]
  /\ \A t \in Line!Linkers : kpc[t] \in Linking => connLock = t
  /\ \A t \in Line!Linkers : kpc[t] \in Marking => writeLock = t

(* The reader that is alive belongs to the latest opening, and a reconnect *)
(* worker that has joined it finds none when it opens the port again.      *)
Latest == \A s \in Slots : Line!Alive(Line!Rx(s)) => rxThread = s
Joined == \A w \in Workers, s \in Slots : kpc[w] = "open" => ~Line!Alive(Line!Rx(s))

ReaderInv == Owned /\ (~outlived => Latest /\ Joined)

-----------------------------------------------------------------------------
LEMMA ThreadNames ==
  /\ \A s \in Slots : Line!Rx(s) \in Line!Threads /\ Line!Tx(s) \in Line!Threads
                      /\ Line!Rx(s) \notin Line!Linkers /\ Line!Tx(s) \notin Line!Linkers
  /\ \A s, r \in Slots : (Line!Rx(s) = Line!Rx(r) => s = r) /\ Line!Rx(s) # Line!Tx(r)
  /\ \A t \in Line!Linkers : t \in Line!Threads /\ t # Health /\ t \notin Closers
                             /\ t \notin Line!Readers /\ t \notin Line!Writers
  /\ \A s \in Slots : Line!Rx(s) \in Line!Readers /\ Line!Rx(s) # Health /\ Line!Rx(s) \notin Closers
                      /\ Line!Tx(s) # Health
  /\ \A s \in Slots : Line!Tx(s) \in Line!Writers /\ Line!Tx(s) \notin Line!Readers
  /\ Workers \subseteq Line!Linkers /\ Openers \subseteq Line!Linkers /\ Workers \cap Openers = {}
  /\ Health \in Line!Threads /\ Closers \subseteq Line!Threads
<1>1. \A s, r \in Slots : (Line!Rx(s) = Line!Rx(r) => s = r) /\ Line!Rx(s) # Line!Tx(r)
  BY DEF Line!Rx, Line!Tx
<1>2. \A s \in Slots : Line!Rx(s) \in Line!Readers /\ Line!Tx(s) \in Line!Writers
  BY DEF Line!Readers, Line!Writers
<1>3. \A s \in Slots : Line!Tx(s) \notin Line!Readers
  BY <1>1 DEF Line!Readers
<1> QED BY <1>1, <1>2, <1>3, LineGiven DEF Line!LinkAssumption, Line!Threads, Line!Linkers

LEMMA ReaderInit == Line!Init => ReaderInv
<1> SUFFICES ASSUME Line!Init PROVE ReaderInv
  OBVIOUS
<1>1. /\ \A t \in Line!Threads : kpc[t] \in {"dead", "idle"}
      /\ \A s \in Slots : kpc[Line!Rx(s)] = "dead"
  BY ThreadNames DEF Line!Init
<1>2. kpc \in [Line!Threads -> Places]
  BY <1>1 DEF Line!Init, Places
<1> QED BY <1>1, <1>2, ThreadNames
        DEF ReaderInv, Owned, Latest, Joined, Line!Alive, Linking, Marking

(* A thread moves to a place where it holds no more locks than before, and *)
(* no reader comes to life.                                                *)
LEMMA Moves ==
  ASSUME ReaderInv, NEW t \in Line!Threads, NEW place \in Places,
         kpc' = [kpc EXCEPT ![t] = place],
         t \in Line!Readers => kpc[t] # "dead" \/ place = "dead",
         t \in Line!Linkers => (place \in Linking => connLock' = t)
                               /\ (place \in Marking => writeLock' = t)
                               /\ (place = "open" /\ t \in Workers /\ ~outlived'
                                     => \A s \in Slots : ~Line!Alive(Line!Rx(s))),
         connLock' = connLock \/ connLock = None \/ connLock = t,
         writeLock' = writeLock \/ writeLock = None \/ writeLock = t,
         rxThread' = rxThread, outlived => outlived'
  PROVE  ReaderInv'
<1>1. /\ kpc'[t] = place /\ \A o \in Line!Threads \ {t} : kpc'[o] = kpc[o]
      /\ kpc' \in [Line!Threads -> Places]
  BY DEF ReaderInv, Owned
<1>2. None \notin Line!Threads
  BY LineGiven DEF Line!LinkAssumption
<1>3. Owned'
  <2>1. \A o \in Line!Linkers : kpc'[o] \in Linking => connLock' = o
    BY <1>1, <1>2, ThreadNames DEF ReaderInv, Owned
  <2>2. \A o \in Line!Linkers : kpc'[o] \in Marking => writeLock' = o
    BY <1>1, <1>2, ThreadNames DEF ReaderInv, Owned
  <2> QED BY <1>1, <2>1, <2>2 DEF Owned
<1>4. \A s \in Slots : Line!Alive(Line!Rx(s))' => Line!Alive(Line!Rx(s))
  BY <1>1, ThreadNames DEF Line!Alive
<1>5. ~outlived' => Latest'
  BY <1>4 DEF ReaderInv, Latest
<1>6. ~outlived' => Joined'
  BY <1>1, <1>4, ThreadNames DEF ReaderInv, Joined
<1> QED BY <1>3, <1>5, <1>6 DEF ReaderInv

LEMMA MarkStepInv ==
  ASSUME ReaderInv, NEW t \in Line!Threads, Line!MarkStep(t) PROVE ReaderInv'
<1> USE DEF Places, Linking, Marking
<1>1. /\ connLock' = connLock /\ rxThread' = rxThread /\ outlived' = outlived
      /\ kpc[t] \in Marking
  BY DEF Line!MarkStep, Line!MarkDegraded, Line!MarkClose, Line!MarkGate, Line!MarkStart,
      Line!port, Line!hist, Line!locks
<1>2. t \in Line!Linkers => connLock = t /\ writeLock = t
  BY <1>1 DEF ReaderInv, Owned
<1>3. /\ Line!AfterMark(t) \in {"dead", "work", "failed", "idle"}
      /\ t \in Line!Readers => Line!AfterMark(t) = "dead"
  <2>1. \A r \in Line!Readers : r \notin Line!Writers
    BY ThreadNames DEF Line!Readers, Line!Writers
  <2>2. CASE t \in Line!Readers
    BY <2>1, <2>2 DEF Line!AfterMark
  <2>3. CASE t \in Line!Writers
    BY <2>1, <2>3 DEF Line!AfterMark
  <2>4. CASE t \notin Line!Readers \cup Line!Writers
    BY <2>4 DEF Line!AfterMark
  <2> QED BY <2>2, <2>3, <2>4
<1>4. writeLock' = writeLock \/ writeLock = t
  BY DEF Line!MarkStep, Line!MarkDegraded, Line!MarkClose, Line!MarkGate, Line!MarkStart,
      Line!ReleaseWrite, Line!locks
<1>5. CASE kpc' = [kpc EXCEPT ![t] = Line!AfterMark(t)]
  BY <1>1, <1>2, <1>3, <1>4, <1>5, Moves
<1>6. CASE Line!MarkDegraded(t) /\ ~stop
  <2>1. kpc' = [kpc EXCEPT ![t] = "markClose"] /\ writeLock' = writeLock
    BY <1>6 DEF Line!MarkDegraded, Line!Goto
  <2> QED BY <1>1, <1>2, <2>1, Moves
<1>7. CASE Line!MarkClose(t)
  <2>1. kpc' = [kpc EXCEPT ![t] = "markGate"] /\ writeLock' = writeLock
    BY <1>7 DEF Line!MarkClose, Line!Goto, Line!locks
  <2> QED BY <1>1, <1>2, <2>1, Moves
<1>8. CASE Line!MarkGate(t) /\ ~(stop \/ gate)
  <2>1. kpc' = [kpc EXCEPT ![t] = "markStart"] /\ writeLock' = writeLock
    BY <1>8 DEF Line!MarkGate, Line!Goto
  <2> QED BY <1>1, <1>2, <2>1, Moves
<1>9. CASE Line!MarkStart(t) /\ Line!IdleWorkers # {}
  <2>1. PICK w \in Line!IdleWorkers : kpc' = [kpc EXCEPT ![t] = Line!AfterMark(t), ![w] = "loop"]
    BY <1>9 DEF Line!MarkStart
  <2>2. w \in Workers /\ kpc[w] = "idle" /\ w # t /\ w \in Line!Threads
    BY <1>1, <2>1, ThreadNames DEF Line!IdleWorkers
  <2>3. /\ kpc' \in [Line!Threads -> Places] /\ kpc'[t] = Line!AfterMark(t) /\ kpc'[w] = "loop"
        /\ \A o \in Line!Threads \ {t, w} : kpc'[o] = kpc[o]
    BY <1>3, <2>1, <2>2 DEF ReaderInv, Owned
  <2>4. \A s \in Slots : Line!Alive(Line!Rx(s))' => Line!Alive(Line!Rx(s))
    BY <1>1, <1>3, <2>2, <2>3, ThreadNames DEF Line!Alive
  <2>5. Owned'
    <3>1. \A o \in Line!Linkers : kpc'[o] \in Linking => connLock' = o
      BY <1>1, <1>2, <2>2, <2>3, ThreadNames DEF ReaderInv, Owned
    <3>2. \A o \in Line!Linkers : kpc'[o] \in Marking => writeLock' = o
      <4> SUFFICES ASSUME NEW o \in Line!Linkers, kpc'[o] \in Marking PROVE writeLock' = o
        OBVIOUS
      <4>1. o # t /\ o # w /\ kpc[o] \in Marking
        BY <1>3, <2>2, <2>3, ThreadNames
      <4> QED BY <1>4, <4>1 DEF ReaderInv, Owned
    <3> QED BY <2>3, <3>1, <3>2 DEF Owned
  <2>6. \A o \in Workers : kpc'[o] = "open" => kpc[o] = "open"
    BY <1>3, <2>2, <2>3, ThreadNames
  <2> QED BY <1>1, <2>4, <2>5, <2>6 DEF ReaderInv, Latest, Joined
<1>10. \/ kpc' = [kpc EXCEPT ![t] = Line!AfterMark(t)]
       \/ Line!MarkDegraded(t) /\ ~stop
       \/ Line!MarkClose(t)
       \/ Line!MarkGate(t) /\ ~(stop \/ gate)
       \/ Line!MarkStart(t) /\ Line!IdleWorkers # {}
  <2>1. Line!MarkDegraded(t) /\ stop => kpc' = [kpc EXCEPT ![t] = Line!AfterMark(t)]
    BY DEF Line!MarkDegraded, Line!Goto
  <2>2. Line!MarkGate(t) /\ (stop \/ gate) => kpc' = [kpc EXCEPT ![t] = Line!AfterMark(t)]
    BY DEF Line!MarkGate, Line!Goto
  <2>3. Line!MarkStart(t) /\ Line!IdleWorkers = {} => kpc' = [kpc EXCEPT ![t] = Line!AfterMark(t)]
    BY DEF Line!MarkStart, Line!Goto
  <2> QED BY <2>1, <2>2, <2>3 DEF Line!MarkStep
<1> QED BY <1>5, <1>6, <1>7, <1>8, <1>9, <1>10

LEMMA CmdStepInv ==
  ASSUME ReaderInv, NEW t \in Line!Threads, Line!CmdStep(t) PROVE ReaderInv'
<1> USE DEF Places, Linking, Marking
<1>1. /\ connLock' = connLock /\ rxThread' = rxThread /\ outlived' = outlived
      /\ writeLock' = writeLock \/ writeLock = None
      /\ kpc[t] \in {"enter", "lock", "await"}
  BY DEF Line!CmdStep, Line!CmdEnter, Line!CmdWrite, Line!CmdAnswered, Line!CmdTimesOut, Line!port,
      Line!hist, Line!locks
<1>2. \/ kpc' = [kpc EXCEPT ![t] = "failed"] \/ kpc' = [kpc EXCEPT ![t] = "lock"]
      \/ kpc' = [kpc EXCEPT ![t] = "await"] \/ kpc' = [kpc EXCEPT ![t] = "answered"]
      \/ kpc' = [kpc EXCEPT ![t] = "mark"] /\ writeLock' = t
  BY DEF Line!CmdStep, Line!CmdEnter, Line!CmdWrite, Line!CmdAnswered, Line!CmdTimesOut, Line!Goto
<1>3. t \in Line!Linkers => connLock = t
  BY <1>1 DEF ReaderInv, Owned, Linking
<1>4. CASE kpc' = [kpc EXCEPT ![t] = "mark"] /\ writeLock' = t
  BY <1>1, <1>3, <1>4, Moves
<1>5. ASSUME NEW place \in {"failed", "lock", "await", "answered"},
             kpc' = [kpc EXCEPT ![t] = place]
      PROVE  ReaderInv'
  BY <1>1, <1>3, <1>5, Moves DEF Marking
<1> QED BY <1>2, <1>4, <1>5

LEMMA OpenInv == ASSUME ReaderInv, NEW t \in Line!Linkers, Line!Open(t) PROVE ReaderInv'
<1> USE DEF Places, Linking, Marking
<1>1. PICK s \in Line!FreeSlots :
        /\ rxThread' = s
        /\ kpc' = [kpc EXCEPT ![t] = "enter", ![Line!Rx(s)] = "work", ![Line!Tx(s)] = "work"]
  BY DEF Line!Open
<1>2. /\ connLock' = connLock /\ writeLock' = writeLock /\ kpc[t] = "open"
      /\ outlived' <=> (outlived \/ (t \in Openers /\ \E r \in Line!Readers : Line!Alive(r)))
  BY DEF Line!Open, Line!locks
<1>3. s \in Slots
  BY DEF Line!FreeSlots
<1>4. /\ kpc' \in [Line!Threads -> Places] /\ kpc'[t] = "enter"
      /\ \A o \in Line!Threads \ {t, Line!Rx(s), Line!Tx(s)} : kpc'[o] = kpc[o]
  BY <1>1, <1>3, ThreadNames DEF ReaderInv, Owned
<1>5. connLock = t
  BY <1>2 DEF ReaderInv, Owned, Linking
<1>6. Owned'
  BY <1>2, <1>3, <1>4, <1>5, ThreadNames DEF ReaderInv, Owned, Marking
<1>7. ASSUME ~outlived' PROVE \A r \in Slots : ~Line!Alive(Line!Rx(r))
  <2>1. CASE t \in Openers
    BY <1>2, <1>7, <2>1, ThreadNames
  <2>2. CASE t \in Workers
    BY <1>2, <1>7, <2>2 DEF ReaderInv, Joined
  <2> QED BY <2>1, <2>2 DEF Line!Linkers
<1>8. ASSUME ~outlived' PROVE Latest'
  BY <1>1, <1>3, <1>4, <1>7, <1>8, ThreadNames DEF Latest, Line!Alive
<1>9. \A w \in Workers : kpc'[w] # "open"
  <2> SUFFICES ASSUME NEW w \in Workers, w # t PROVE kpc'[w] # "open"
    BY <1>4
  <2>1. kpc'[w] = kpc[w]
    BY <1>3, <1>4, ThreadNames
  <2> QED BY <1>5, <2>1, ThreadNames DEF ReaderInv, Owned, Linking
<1> QED BY <1>6, <1>8, <1>9 DEF ReaderInv, Joined

LEMMA LinkStepInv == ASSUME ReaderInv, NEW t \in Line!Linkers, Line!LinkStep(t) PROVE ReaderInv'
<1> USE DEF Places, Marking, Linking
<1>1. CASE Line!Open(t)
  BY <1>1, OpenInv
<1>2. CASE ~Line!Open(t)
  <2>1. /\ rxThread' = rxThread /\ outlived' = outlived /\ writeLock' = writeLock
        /\ kpc[t] \in {"open", "answered", "failed", "commit"}
        /\ \/ kpc' = [kpc EXCEPT ![t] = IF t \in Workers THEN "loop" ELSE "done"]
           \/ kpc' = [kpc EXCEPT ![t] = "enter"] /\ connLock' = connLock
           \/ kpc' = [kpc EXCEPT ![t] = "commit"] /\ connLock' = connLock
           \/ kpc' = [kpc EXCEPT ![t] = IF t \in Workers THEN "exit" ELSE "done"]
    BY <1>2 DEF Line!LinkStep, Line!OpenFails, Line!HandshakeGoesOn, Line!HandshakeFails,
        Line!Commit, Line!GiveUp, Line!Goto,
       Line!Ready, Line!port, Line!locks, Line!hist
  <2>2. connLock = t /\ t \in Line!Threads /\ t \notin Line!Readers
    BY <2>1, ThreadNames DEF ReaderInv, Owned, Linking
  <2>3. ASSUME NEW place \in {"loop", "done", "exit"}, kpc' = [kpc EXCEPT ![t] = place]
        PROVE  ReaderInv'
    BY <2>1, <2>2, <2>3, Moves DEF Linking
  <2>4. ASSUME NEW place \in {"enter", "commit"}, kpc' = [kpc EXCEPT ![t] = place],
               connLock' = connLock
        PROVE  ReaderInv'
    BY <2>1, <2>2, <2>4, Moves
  <2> QED BY <2>1, <2>3, <2>4
<1> QED BY <1>1, <1>2

LEMMA WorkerStepInv == ASSUME ReaderInv, NEW w \in Workers, Line!WorkerStep(w) PROVE ReaderInv'
<1> USE DEF Places, Linking, Marking
<1>1. w \in Line!Linkers /\ w \in Line!Threads /\ w \notin Line!Readers
  BY ThreadNames
<1>2. CASE Line!WorkerLoop(w) \/ Line!WorkerExits(w) \/ (Line!WorkerLock(w) /\ stop)
  <2>1. /\ connLock' = connLock /\ writeLock' = writeLock /\ rxThread' = rxThread
        /\ outlived' = outlived
        /\ \/ kpc' = [kpc EXCEPT ![w] = "exit"] \/ kpc' = [kpc EXCEPT ![w] = "acquire"]
           \/ kpc' = [kpc EXCEPT ![w] = "idle"]
    BY <1>2 DEF Line!WorkerLoop, Line!WorkerExits, Line!WorkerLock, Line!Goto, Line!locks,
        Line!port, Line!hist
  <2>2. ASSUME NEW place \in {"exit", "acquire", "idle"}, kpc' = [kpc EXCEPT ![w] = place]
        PROVE  ReaderInv'
    BY <1>1, <2>1, <2>2, Moves
  <2> QED BY <2>1, <2>2
<1>3. CASE Line!WorkerLock(w) /\ ~stop
  <2>1. /\ connLock = None /\ connLock' = w /\ writeLock' = writeLock
        /\ rxThread' = rxThread /\ outlived' = outlived
        /\ kpc' = [kpc EXCEPT ![w] = "join"]
    BY <1>3 DEF Line!WorkerLock, Line!Goto, Line!hist
  <2> QED BY <1>1, <2>1, Moves
<1>4. CASE Line!WorkerJoins(w)
  <2>1. /\ kpc[w] = "join" /\ connLock' = connLock /\ writeLock' = writeLock
        /\ rxThread' = rxThread /\ (outlived' <=> outlived \/ Line!IoAlive)
        /\ kpc' = [kpc EXCEPT ![w] = "open"]
    BY <1>4 DEF Line!WorkerJoins, Line!Goto, Line!locks, Line!port
  <2>2. connLock = w
    BY <1>1, <2>1 DEF ReaderInv, Owned
  <2>3. ~outlived' => \A s \in Slots : ~Line!Alive(Line!Rx(s))
    BY <2>1, LineGiven DEF Line!LinkAssumption, Line!IoAlive, ReaderInv, Latest
  <2>4. outlived => outlived'
    BY <2>1
  <2> QED BY <1>1, <2>1, <2>2, <2>3, <2>4, Moves
<1> QED BY <1>2, <1>3, <1>4 DEF Line!WorkerStep

LEMMA OtherStepsInv ==
  ASSUME ReaderInv,
         \/ \E o \in Openers : Line!Connect(o)
         \/ \E c \in Closers : Line!Disconnect(c)
         \/ Line!HealthCheck \/ Line!HealthResult
         \/ \E s \in Slots : \/ Line!RxExits(s) \/ Line!RxAdopts(s) \/ Line!RxFails(s)
                             \/ Line!TxFails(s) \/ Line!TxExits(s)
  PROVE  ReaderInv'
<1> USE DEF Places, Linking, Marking
<1>1. ASSUME NEW o \in Openers, Line!Connect(o) PROVE ReaderInv'
  <2>1. /\ kpc' = [kpc EXCEPT ![o] = "open"] /\ connLock = None /\ connLock' = o
        /\ writeLock' = writeLock /\ rxThread' = rxThread /\ outlived' = outlived
    BY <1>1 DEF Line!Connect, Line!Goto, Line!port, Line!hist
  <2>2. o \in Line!Threads /\ o \notin Line!Readers /\ o \notin Workers
    BY ThreadNames
  <2> QED BY <2>1, <2>2, Moves
<1>2. ASSUME NEW c \in Closers, Line!Disconnect(c) PROVE ReaderInv'
  <2>1. /\ kpc' = [kpc EXCEPT ![c] = "done"] /\ connLock' = connLock /\ kpc[c] = "idle"
        /\ writeLock' = writeLock /\ rxThread' = rxThread /\ outlived' = outlived
    BY <1>2 DEF Line!Disconnect, Line!Goto, Line!locks, Line!hist
  <2>2. c \in Line!Threads
    BY ThreadNames
  <2> QED BY <2>1, <2>2, Moves
<1>3. CASE Line!HealthCheck \/ Line!HealthResult
  <2>1. /\ connLock' = connLock /\ writeLock' = writeLock /\ rxThread' = rxThread
        /\ outlived' = outlived /\ kpc[Health] # "dead"
        /\ \/ kpc' = [kpc EXCEPT ![Health] = "enter"] \/ kpc' = [kpc EXCEPT ![Health] = "idle"]
           \/ kpc' = [kpc EXCEPT ![Health] = "mark"]
    BY <1>3 DEF Line!HealthCheck, Line!HealthResult, Line!Goto, Line!locks, Line!port, Line!hist
  <2>2. Health \in Line!Threads /\ Health \notin Line!Linkers
    BY ThreadNames
  <2>3. ASSUME NEW place \in {"enter", "idle", "mark"}, kpc' = [kpc EXCEPT ![Health] = place]
        PROVE  ReaderInv'
    BY <2>1, <2>2, <2>3, Moves
  <2> QED BY <2>1, <2>3
<1>4. ASSUME NEW s \in Slots, Line!RxExits(s) \/ Line!RxFails(s) PROVE ReaderInv'
  <2>1. /\ connLock' = connLock /\ writeLock' = writeLock /\ rxThread' = rxThread
        /\ outlived' = outlived /\ kpc[Line!Rx(s)] # "dead"
        /\ \/ kpc' = [kpc EXCEPT ![Line!Rx(s)] = "dead"] \/ kpc' = [kpc EXCEPT ![Line!Rx(s)] = "mark"]
    BY <1>4 DEF Line!RxExits, Line!RxFails, Line!Goto, Line!locks, Line!hist
  <2>2. Line!Rx(s) \in Line!Threads /\ Line!Rx(s) \notin Line!Linkers
    BY ThreadNames
  <2> QED BY <2>1, <2>2, Moves
<1>5. ASSUME NEW s \in Slots, Line!RxAdopts(s) PROVE ReaderInv'
  BY <1>5 DEF Line!RxAdopts, Line!locks, Line!hist, ReaderInv, Owned, Latest, Joined, Line!Alive
<1>6. ASSUME NEW s \in Slots, Line!TxFails(s) \/ Line!TxExits(s) PROVE ReaderInv'
  <2>1. /\ connLock' = connLock /\ rxThread' = rxThread /\ outlived' = outlived
        /\ writeLock' = writeLock \/ writeLock = None
        /\ \/ kpc' = [kpc EXCEPT ![Line!Tx(s)] = "dead"] \/ kpc' = [kpc EXCEPT ![Line!Tx(s)] = "mark"]
    BY <1>6 DEF Line!TxExits, Line!TxFails, Line!Goto, Line!locks, Line!port, Line!hist
  <2>2. Line!Tx(s) \in Line!Threads /\ Line!Tx(s) \notin Line!Linkers /\ Line!Tx(s) \notin Line!Readers
    BY ThreadNames
  <2> QED BY <2>1, <2>2, Moves
<1> QED BY <1>1, <1>2, <1>3, <1>4, <1>5, <1>6

LEMMA ReaderStep == ReaderInv /\ [Line!Next]_Line!vars => ReaderInv'
<1> SUFFICES ASSUME ReaderInv, [Line!Next]_Line!vars PROVE ReaderInv'
  OBVIOUS
<1>1. CASE UNCHANGED Line!vars
  BY <1>1 DEF Line!vars, Line!port, Line!locks, Line!hist, ReaderInv, Owned, Latest, Joined,
      Line!Alive
<1> QED BY <1>1, MarkStepInv, CmdStepInv, LinkStepInv, WorkerStepInv, OtherStepsInv DEF Line!Next

(* OneReader holds of every behaviour of the KISS modem's link, whatever   *)
(* the number of threads and of openings: as long as the joins of          *)
(* _stop_io_threads are in time and connect is not called over a live      *)
(* link, at most one _rx_worker is alive.                                  *)
THEOREM LinkHasOneReader == Line!Spec => []OneReader
<1>1. ReaderInv => OneReader
  BY DEF ReaderInv, Latest, Line!Readers, OneReader, Line!OneReader
<1> QED BY <1>1, ReaderInit, ReaderStep, PTL DEF Line!Spec
=============================================================================
