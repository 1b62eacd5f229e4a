--------------------------- MODULE RuntimeProofs ----------------------------
(* The life cycle of the companion: a stop that has returned left the node *)
(* stopped.  The frame server: the newest connection keeps the slot.       *)
EXTENDS Runtime, TLAPS

\* Leaves are tried with Zenon first and then with the SMT solver.
USE ZenonT(2), SMTT(20), ZenonT(20)

-----------------------------------------------------------------------------
(* The ready queue: no task is in it twice, and what is served and what is *)
(* appended leaves the rest in order.                                      *)
Task == {Caller(c) : c \in Calls} \cup {Runner(s) : s \in Starts}

In(q, t) == \E i \in 1..Len(q) : q[i] = t
Distinct(q) == \A i, j \in 1..Len(q) : q[i] = q[j] => i = j
Ahead(q, a, b) == \E i, j \in 1..Len(q) : i < j /\ q[i] = a /\ q[j] = b

LEMMA QueuedIn == ASSUME ready \in Seq(Task), NEW t PROVE Queued(t) <=> In(ready, t)
  BY DEF Queued, In

LEMMA TailConcat ==
  ASSUME NEW q \in Seq(Task), q # <<>>, Distinct(q), NEW w \in Seq(Task), Distinct(w),
         \A x : In(w, x) /\ In(q, x) => x = Head(q)
  PROVE  LET r == Tail(q) \o w IN
         /\ r \in Seq(Task) /\ Distinct(r) /\ In(q, Head(q))
         /\ \A x : In(r, x) <=> (In(q, x) /\ x # Head(q)) \/ In(w, x)
         /\ \A a, b : Ahead(q, a, b) /\ a # Head(q) => Ahead(r, a, b)
         /\ \A a, b : In(q, a) /\ a # Head(q) /\ In(w, b) => Ahead(r, a, b)
         /\ \A a : ~Ahead(q, a, Head(q))
<1> DEFINE r == Tail(q) \o w
           n == Len(q)
           m == Len(w)
<1>1. /\ r \in Seq(Task) /\ n \in Nat \ {0} /\ m \in Nat /\ Len(r) = (n - 1) + m
      /\ Head(q) = q[1] /\ 1 \in 1..n
  BY DEF r
<1>2. /\ \A i \in 1..(n - 1) : r[i] = q[i + 1]
      /\ \A i \in 1..m : r[(n - 1) + i] = w[i]
  <2>1. Tail(q) \in Seq(Task) /\ Len(Tail(q)) = n - 1 /\ \A i \in 1..(n - 1) : Tail(q)[i] = q[i + 1]
    OBVIOUS
  <2>2. \A i \in 1..(n - 1) : r[i] = Tail(q)[i]
    BY <2>1
  <2>3. \A i \in 1..m : r[(n - 1) + i] = w[i]
    BY <2>1
  <2> QED BY <2>1, <2>2, <2>3
<1>3. /\ \A i \in 1..(n - 1) : i + 1 \in 1..n /\ i + 1 # 1
      /\ \A k \in 1..((n - 1) + m) : k \in 1..(n - 1) \/ (k - (n - 1) \in 1..m /\ k = (n - 1) + (k - (n - 1)))
      /\ \A i \in 1..m : (n - 1) + i \in 1..((n - 1) + m)
      /\ \A i \in 1..(n - 1) : i \in 1..((n - 1) + m)
      /\ \A k \in 1..n : k # 1 => k - 1 \in 1..(n - 1) /\ k = (k - 1) + 1
  BY <1>1
<1>4. \A i, j \in 1..n : q[i] = q[j] => i = j
  BY DEF Distinct
<1>5. \A i, j \in 1..m : w[i] = w[j] => i = j
  BY DEF Distinct
<1>6. \A i \in 1..m, j \in 1..n : w[i] = q[j] => j = 1
  <2> SUFFICES ASSUME NEW i \in 1..m, NEW j \in 1..n, w[i] = q[j] PROVE j = 1
    OBVIOUS
  <2>1. In(w, w[i]) /\ In(q, w[i])
    BY DEF In
  <2> QED BY <1>1, <1>4, <2>1
<1> HIDE DEF r, n, m
<1>7. Distinct(r)
  <2> SUFFICES ASSUME NEW i \in 1..((n - 1) + m), NEW j \in 1..((n - 1) + m), r[i] = r[j]
               PROVE  i = j
    BY <1>1 DEF Distinct
  <2>1. CASE i \in 1..(n - 1) /\ j \in 1..(n - 1)
    <3>1. i + 1 = j + 1
      BY <1>2, <1>3, <1>4, <2>1
    <3> QED BY <3>1
  <2>2. CASE i \in 1..(n - 1) /\ j \notin 1..(n - 1)
    BY <1>2, <1>3, <1>6, <2>2
  <2>3. CASE i \notin 1..(n - 1) /\ j \in 1..(n - 1)
    BY <1>2, <1>3, <1>6, <2>3
  <2>4. CASE i \notin 1..(n - 1) /\ j \notin 1..(n - 1)
    <3>1. i - (n - 1) = j - (n - 1)
      BY <1>2, <1>3, <1>5, <2>4
    <3> QED BY <1>1, <3>1
  <2> QED BY <2>1, <2>2, <2>3, <2>4
<1>8. \A x : In(r, x) <=> (In(q, x) /\ x # Head(q)) \/ In(w, x)
  <2> TAKE x
  <2>1. In(r, x) => (In(q, x) /\ x # Head(q)) \/ In(w, x)
    <3> SUFFICES ASSUME NEW k \in 1..((n - 1) + m), r[k] = x
                 PROVE  (In(q, x) /\ x # Head(q)) \/ In(w, x)
      BY <1>1 DEF In
    <3>1. CASE k \in 1..(n - 1)
      <4>1. k + 1 \in 1..n /\ q[k + 1] = x /\ k + 1 # 1
        BY <1>2, <1>3, <3>1
      <4> QED BY <1>1, <1>4, <4>1 DEF In, n
    <3>2. CASE k \notin 1..(n - 1)
      <4>1. k - (n - 1) \in 1..m /\ w[k - (n - 1)] = x
        BY <1>2, <1>3, <3>2
      <4> QED BY <4>1 DEF In, m
    <3> QED BY <3>1, <3>2
  <2>2. In(q, x) /\ x # Head(q) => In(r, x)
    <3> SUFFICES ASSUME NEW k \in 1..n, q[k] = x, x # Head(q) PROVE In(r, x)
      BY DEF In, n
    <3>1. k # 1 /\ k - 1 \in 1..(n - 1) /\ k = (k - 1) + 1
      BY <1>1, <1>3
    <3>2. r[k - 1] = x /\ k - 1 \in 1..((n - 1) + m)
      BY <1>2, <1>3, <3>1
    <3> QED BY <1>1, <3>2 DEF In
  <2>3. In(w, x) => In(r, x)
    <3> SUFFICES ASSUME NEW k \in 1..m, w[k] = x PROVE In(r, x)
      BY DEF In, m
    <3>1. r[(n - 1) + k] = x /\ (n - 1) + k \in 1..((n - 1) + m)
      BY <1>2, <1>3
    <3> QED BY <1>1, <3>1 DEF In
  <2> QED BY <2>1, <2>2, <2>3
<1>9. \A a, b : Ahead(q, a, b) /\ a # Head(q) => Ahead(r, a, b)
  <2> SUFFICES ASSUME NEW i \in 1..n, NEW j \in 1..n, i < j, q[i] # Head(q)
               PROVE  Ahead(r, q[i], q[j])
    BY DEF Ahead, n
  <2>1. i # 1 /\ j # 1
    BY <1>1
  <2>2. /\ i - 1 \in 1..((n - 1) + m) /\ j - 1 \in 1..((n - 1) + m) /\ i - 1 < j - 1
        /\ r[i - 1] = q[i] /\ r[j - 1] = q[j]
    BY <1>1, <1>2, <1>3, <2>1
  <2> QED BY <1>1, <2>2 DEF Ahead
<1>10. \A a, b : In(q, a) /\ a # Head(q) /\ In(w, b) => Ahead(r, a, b)
  <2> SUFFICES ASSUME NEW i \in 1..n, NEW j \in 1..m, q[i] # Head(q)
               PROVE  Ahead(r, q[i], w[j])
    BY DEF In, n, m
  <2>1. i # 1
    BY <1>1
  <2>2. /\ i - 1 \in 1..((n - 1) + m) /\ (n - 1) + j \in 1..((n - 1) + m) /\ i - 1 < (n - 1) + j
        /\ r[i - 1] = q[i] /\ r[(n - 1) + j] = w[j]
    BY <1>1, <1>2, <1>3, <2>1
  <2> QED BY <1>1, <2>2 DEF Ahead
<1>11. \A a : ~Ahead(q, a, Head(q))
  <2> SUFFICES ASSUME NEW i \in 1..n, NEW j \in 1..n, i < j, q[j] = Head(q) PROVE FALSE
    BY DEF Ahead, n
  <2> QED BY <1>1, <1>4
<1>12. In(q, Head(q))
  BY <1>1 DEF In, n
<1> QED BY <1>1, <1>7, <1>8, <1>9, <1>10, <1>11, <1>12 DEF r

(* The task at the head runs and wakes those of w.                         *)
LEMMA Served ==
  ASSUME ready \in Seq(Task), Distinct(ready), NEW t, NEW w \in Seq(Task), Distinct(w),
         \A x : In(w, x) /\ Queued(x) => x = t, Runs(t, w)
  PROVE  /\ ready' \in Seq(Task) /\ Distinct(ready') /\ Queued(t)
         /\ \A x : Queued(x)' <=> (Queued(x) /\ x # t) \/ In(w, x)
         /\ \A a, b : Ahead(ready, a, b) /\ a # t => Ahead(ready', a, b)
         /\ \A a, b : Queued(a) /\ a # t /\ In(w, b) => Ahead(ready', a, b)
         /\ \A a : ~Ahead(ready, a, t)
<1>1. ready # <<>> /\ Head(ready) = t /\ ready' = Tail(ready) \o w
  BY DEF Runs, Resumes
<1>2. \A x : Queued(x) <=> In(ready, x)
  BY QueuedIn
<1>3. /\ ready' \in Seq(Task) /\ Distinct(ready') /\ In(ready, t)
      /\ \A x : In(ready', x) <=> (In(ready, x) /\ x # t) \/ In(w, x)
      /\ \A a, b : Ahead(ready, a, b) /\ a # t => Ahead(ready', a, b)
      /\ \A a, b : In(ready, a) /\ a # t /\ In(w, b) => Ahead(ready', a, b)
      /\ \A a : ~Ahead(ready, a, t)
  BY <1>1, <1>2, TailConcat
<1>4. \A x : Queued(x)' <=> In(ready', x)
  BY <1>3 DEF Queued, In
<1> QED BY <1>2, <1>3, <1>4

LEMMA Appended ==
  ASSUME ready \in Seq(Task), Distinct(ready), NEW t \in Task, ~Queued(t),
         ready' = Append(ready, t)
  PROVE  /\ ready' \in Seq(Task) /\ Distinct(ready')
         /\ \A x : Queued(x)' <=> Queued(x) \/ x = t
         /\ \A a, b : Ahead(ready, a, b) => Ahead(ready', a, b)
         /\ \A a : Queued(a) => Ahead(ready', a, t)
<1> DEFINE n == Len(ready)
<1>1. /\ ready' \in Seq(Task) /\ Len(ready') = n + 1 /\ n \in Nat
      /\ ready'[n + 1] = t /\ \A i \in 1..n : ready'[i] = ready[i]
  OBVIOUS
<1>2. 1..(n + 1) = (1..n) \cup {n + 1} /\ \A i \in 1..n : i < n + 1
  BY <1>1
<1>3. \A x : Queued(x) <=> \E i \in 1..n : ready[i] = x
  BY DEF Queued
<1>4. \A x : Queued(x)' <=> \E i \in 1..(n + 1) : ready'[i] = x
  BY <1>1 DEF Queued
<1>5. \A i, j \in 1..n : ready[i] = ready[j] => i = j
  BY DEF Distinct
<1>6. \A a, b : Ahead(ready, a, b) <=> \E i, j \in 1..n : i < j /\ ready[i] = a /\ ready[j] = b
  BY DEF Ahead
<1>7. \A a, b : Ahead(ready', a, b) <=>
                  \E i, j \in 1..(n + 1) : i < j /\ ready'[i] = a /\ ready'[j] = b
  BY <1>1 DEF Ahead
<1> HIDE DEF n
<1>8. Distinct(ready')
  BY <1>1, <1>2, <1>3, <1>5 DEF Distinct
<1>9. \A x : Queued(x)' <=> Queued(x) \/ x = t
  BY <1>1, <1>2, <1>3, <1>4
<1>10. \A a, b : Ahead(ready, a, b) => Ahead(ready', a, b)
  BY <1>1, <1>2, <1>6, <1>7
<1>11. \A a : Queued(a) => Ahead(ready', a, t)
  BY <1>1, <1>2, <1>3, <1>7
<1> QED BY <1>1, <1>8, <1>9, <1>10, <1>11

LEMMA Lists ==
  /\ <<>> \in Seq(Task) /\ Distinct(<<>>) /\ \A x : ~In(<<>>, x)
  /\ \A a \in Task : <<a>> \in Seq(Task) /\ Distinct(<<a>>) /\ \A x : In(<<a>>, x) <=> x = a
  /\ \A a, b \in Task : a # b => /\ <<a, b>> \in Seq(Task) /\ Distinct(<<a, b>>)
                                 /\ \A x : In(<<a, b>>, x) <=> x = a \/ x = b
<1>1. <<>> \in Seq(Task) /\ Distinct(<<>>) /\ \A x : ~In(<<>>, x)
  BY DEF Distinct, In
<1>2. ASSUME NEW a \in Task
      PROVE  <<a>> \in Seq(Task) /\ Distinct(<<a>>) /\ \A x : In(<<a>>, x) <=> x = a
  BY DEF Distinct, In
<1>3. ASSUME NEW a \in Task, NEW b \in Task, a # b
      PROVE  /\ <<a, b>> \in Seq(Task) /\ Distinct(<<a, b>>)
             /\ \A x : In(<<a, b>>, x) <=> x = a \/ x = b
  <2>1. 1..2 = {1, 2} /\ Len(<<a, b>>) = 2 /\ <<a, b>>[1] = a /\ <<a, b>>[2] = b
    OBVIOUS
  <2> QED BY <1>3, <2>1 DEF Distinct, In
<1> QED BY <1>1, <1>2, <1>3

-----------------------------------------------------------------------------
(* What holds as long as no start was called while a stop was under way.   *)
UnderWay(c) == pc[c] \notin {"idle"} \cup Finished
LiveRunner(s) == Queued(Runner(s)) \/ loop[s] \in {"tick", "health"}
NoRunner == \A s \in Starts : ~LiveRunner(s)
Quiet == ~rxEnabled /\ ~active /\ NoRunner

LifeTypes ==
  /\ pc \in [Calls -> {"idle", "starting", "reciprocals", "yielded", "waitStopped", "awaitTask",
                       "done", "failed"}]
  /\ loop \in [Starts -> {"none", "tick", "health", "ended", "died", "unarmed"}]
  /\ ready \in Seq(Task) /\ Distinct(ready) /\ fresh \subseteq Stops
  /\ dispatcherTask \in Starts \cup {NoTask}
  /\ active \in BOOLEAN /\ stoppedEvent = ~active

(* Who may be in the queue; no stop ever has to await a task.              *)
Queueing ==
  /\ \A c \in Stops : Queued(Caller(c)) => pc[c] \in {"idle", "reciprocals", "yielded", "waitStopped"}
  /\ \A c \in Stops : pc[c] # "awaitTask"
  /\ \A s \in Starts : Queued(Caller(s)) => pc[s] \in {"idle", "starting"}
  /\ \A s \in Starts : Queued(Runner(s)) => loop[s] \in {"none", "tick", "health"}
  /\ \A s \in Starts : pc[s] = "idle" => loop[s] = "none" /\ ~Queued(Runner(s))

(* A start that is still to run was called before every stop that is still *)
(* to run, and while none was under way; a stop that has yielded runs      *)
(* after every runner that had been scheduled.                             *)
Order ==
  /\ \A s \in Starts, c \in Stops : pc[s] = "idle" /\ Queued(Caller(s)) =>
       /\ ~UnderWay(c)
       /\ pc[c] = "idle" /\ Queued(Caller(c)) => Ahead(ready, Caller(s), Caller(c))
  /\ \A s \in Starts, c \in Stops :
       pc[c] = "yielded" /\ Queued(Caller(c)) /\ loop[s] = "none" /\ Queued(Runner(s)) =>
         Ahead(ready, Runner(s), Caller(c))

(* There is at most one runner, that of the latest start, and without      *)
(* _running only while a stop is under way.                                *)
OneRunner ==
  /\ \A s, t \in Starts : LiveRunner(s) /\ LiveRunner(t) => s = t
  /\ \A s \in Starts : LiveRunner(s) /\ running => dispatcherTask = s
  /\ \A s \in Starts : LiveRunner(s) /\ ~running => \E c \in Stops : UnderWay(c)
  /\ \A s \in Starts : loop[s] \in {"tick", "health"} => active
  /\ dispatcherTask \in Starts => LiveRunner(dispatcherTask) \/ Ended(dispatcherTask)

Woken == \A c \in Stops : pc[c] = "waitStopped" /\ Queued(Caller(c)) => Quiet

Final == \A c \in fresh : pc[c] \in Finished => Quiet

NotOverlapped == LifeTypes /\ Queueing /\ Order /\ OneRunner /\ Woken /\ Final

LifeInv == ~overlapped => NotOverlapped

LEMMA Names ==
  /\ \A c \in Calls : Caller(c) \in Task
  /\ \A s \in Starts : Runner(s) \in Task
  /\ \A a, b : (Caller(a) = Caller(b) <=> a = b) /\ (Runner(a) = Runner(b) <=> a = b)
               /\ Caller(a) # Runner(b)
  /\ Starts \subseteq Calls /\ Stops \subseteq Calls /\ Cleanups \subseteq Calls
  /\ Starts \cap Stops = {} /\ Starts \cap Cleanups = {} /\ Stops \cap Cleanups = {}
<1>1. \A a, b : (Caller(a) = Caller(b) <=> a = b) /\ (Runner(a) = Runner(b) <=> a = b)
                /\ Caller(a) # Runner(b)
  BY DEF Caller, Runner
<1>2. /\ Starts \subseteq Calls /\ Stops \subseteq Calls /\ Cleanups \subseteq Calls
      /\ Starts \cap Stops = {} /\ Starts \cap Cleanups = {} /\ Stops \cap Cleanups = {}
  BY TasksAssumption DEF Calls
<1> QED BY <1>1, <1>2 DEF Task

LEMMA LifeInit == Init => LifeInv
<1> SUFFICES ASSUME Init PROVE NotOverlapped
  BY DEF LifeInv
<1>1. \A x : ~Queued(x)
  BY DEF Init, Queued
<1>2. LifeTypes
  BY Lists DEF Init, LifeTypes
<1>3. Queueing
  BY <1>1, Names DEF Init, Queueing
<1>4. Order
  BY <1>1 DEF Init, Order
<1>5. OneRunner
  BY <1>1, TasksAssumption DEF Init, OneRunner, LiveRunner
<1>6. Woken /\ Final
  BY <1>1 DEF Init, Woken, Final
<1> QED BY <1>2, <1>3, <1>4, <1>5, <1>6 DEF NotOverlapped

(* A call is made, or what a task waits for has happened.                  *)
LEMMA AppendStep ==
  ASSUME NotOverlapped, NEW t \in Task, ~Queued(t), ready' = Append(ready, t),
         UNCHANGED <<pc, loop, radioVars, eventVars, fresh>>,
         \/ \E s \in Starts : t = Caller(s) /\ pc[s] = "idle" /\ ~StopPending
         \/ \E c \in Stops : t = Caller(c) /\ pc[c] \in {"idle", "reciprocals"}
         \/ \E c \in Cleanups : t = Caller(c)
         \/ \E s \in Starts : t = Runner(s) /\ loop[s] \in {"tick", "health"}
  PROVE  NotOverlapped'
<1> USE DEF NotOverlapped
<1>1. UNCHANGED <<pc, loop, running, dispatcherTask, stoppedEvent, active, rxEnabled, fresh>>
  BY DEF radioVars, eventVars
<1>2. /\ ready' \in Seq(Task) /\ Distinct(ready')
      /\ \A x : Queued(x)' <=> Queued(x) \/ x = t
      /\ \A a, b : Ahead(ready, a, b) => Ahead(ready', a, b)
      /\ \A a : Queued(a) => Ahead(ready', a, t)
  BY Appended DEF LifeTypes
<1>3. LifeTypes'
  BY <1>1, <1>2 DEF LifeTypes
<1>4. Queueing'
  BY <1>1, <1>2, Names DEF Queueing
<1>5. \A s \in Starts : LiveRunner(s)' <=> LiveRunner(s)
  BY <1>1, <1>2, Names DEF LiveRunner
<1>6. \A c \in Stops : UnderWay(c)' <=> UnderWay(c)
  BY <1>1 DEF UnderWay
<1>7. Order'
  <2>1. ASSUME NEW s \in Starts, NEW c \in Stops, pc[s] = "idle", Queued(Caller(s))'
        PROVE  /\ ~UnderWay(c)
               /\ pc[c] = "idle" /\ Queued(Caller(c))' => Ahead(ready', Caller(s), Caller(c))
    <3>1. CASE t = Caller(s)
      <4>1. ~StopPending
        BY <3>1, Names
      <4>2. ~UnderWay(c) /\ (pc[c] = "idle" => ~Queued(Caller(c)))
        BY <4>1 DEF StopPending, UnderWay, Finished
      <4> QED BY <1>2, <3>1, <4>2, Names
    <3>2. CASE t # Caller(s)
      <4>1. Queued(Caller(s))
        BY <1>2, <2>1, <3>2
      <4> QED BY <1>2, <2>1, <4>1 DEF Order
    <3> QED BY <3>1, <3>2
  <2>2. ASSUME NEW s \in Starts, NEW c \in Stops, pc[c] = "yielded", Queued(Caller(c))',
               loop[s] = "none", Queued(Runner(s))'
        PROVE  Ahead(ready', Runner(s), Caller(c))
    <3>1. t # Caller(c) /\ t # Runner(s)
      BY <2>2, Names
    <3> QED BY <1>2, <2>2, <3>1 DEF Order
  <2> QED BY <1>1, <1>6, <2>1, <2>2 DEF Order
<1>8. OneRunner'
  <2>1. \A s \in Starts : Ended(s)' <=> Ended(s)
    BY <1>1 DEF Ended
  <2> QED BY <1>1, <1>5, <1>6, <2>1 DEF OneRunner
<1>9. Quiet' <=> Quiet
  BY <1>1, <1>5 DEF Quiet, NoRunner
<1>10. Woken' /\ Final'
  BY <1>1, <1>2, <1>9, Names DEF Woken, Final
<1> QED BY <1>3, <1>4, <1>7, <1>8, <1>10

(* The runner of s takes a turn that does not end it.                      *)
LEMMA RunnerTurn ==
  ASSUME NotOverlapped, NEW s \in Starts, Runs(Runner(s), <<>>), NEW place,
         loop' = [loop EXCEPT ![s] = place],
         UNCHANGED <<pc, radioVars, fresh>>,
         \/ place \in {"tick", "health"} /\ (active' \/ loop[s] # "none")
         \/ place \in {"died", "unarmed"},
         \/ UNCHANGED <<stoppedEvent, active, rxEnabled>>
         \/ active' = TRUE /\ stoppedEvent' = FALSE
  PROVE  NotOverlapped'
<1> USE DEF NotOverlapped
<1>1. /\ UNCHANGED <<pc, running, dispatcherTask, fresh>>
      /\ place \in {"none", "tick", "health", "ended", "died", "unarmed"}
      /\ loop'[s] = place /\ place # "none"
      /\ \A t \in Starts \ {s} : loop'[t] = loop[t]
  BY DEF radioVars, LifeTypes
<1>2. /\ ready' \in Seq(Task) /\ Distinct(ready') /\ Queued(Runner(s))
      /\ \A x : Queued(x)' <=> Queued(x) /\ x # Runner(s)
      /\ \A a, b : Ahead(ready, a, b) /\ a # Runner(s) => Ahead(ready', a, b)
  BY Served, Lists DEF LifeTypes
<1>3. LifeTypes'
  BY <1>1, <1>2 DEF LifeTypes
<1>4. LiveRunner(s) /\ \A t \in Starts : LiveRunner(t) => t = s
  BY <1>2 DEF OneRunner, LiveRunner
<1>5. \A t \in Starts : LiveRunner(t)' => LiveRunner(t) /\ t = s
  BY <1>1, <1>2, <1>4 DEF LiveRunner
<1>6. ~Quiet
  BY <1>4 DEF Quiet, NoRunner
<1>7. Queueing'
  BY <1>1, <1>2, Names DEF Queueing
<1>8. \A c \in Stops : UnderWay(c)' <=> UnderWay(c)
  BY <1>1 DEF UnderWay
<1>9. Order'
  BY <1>1, <1>2, <1>8, Names DEF Order
<1>10. OneRunner'
  <2>1. \A t \in Starts : loop'[t] \in {"tick", "health"} => active'
    <3>1. ASSUME NEW t \in Starts, loop'[t] \in {"tick", "health"} PROVE active'
      <4>1. LiveRunner(t)'
        BY <3>1 DEF LiveRunner
      <4>2. t = s
        BY <1>5, <4>1
      <4>3. place \in {"tick", "health"}
        BY <1>1, <3>1, <4>2
      <4>4. CASE loop[s] \in {"tick", "health"}
        BY <4>4 DEF OneRunner
      <4>5. CASE loop[s] = "none"
        BY <4>3, <4>5
      <4> QED BY <1>2, <4>4, <4>5 DEF Queueing
    <3> QED BY <3>1
  <2>2. dispatcherTask' \in Starts => LiveRunner(dispatcherTask)' \/ Ended(dispatcherTask)'
    <3> SUFFICES ASSUME dispatcherTask \in Starts
                 PROVE  LiveRunner(dispatcherTask)' \/ Ended(dispatcherTask)'
      BY <1>1
    <3>1. CASE dispatcherTask = s
      BY <1>1, <3>1 DEF LiveRunner, Ended
    <3>2. CASE dispatcherTask # s
      <4>1. Ended(dispatcherTask)
        BY <1>4, <3>2 DEF OneRunner
      <4> QED BY <1>1, <3>2, <4>1 DEF Ended
    <3> QED BY <3>1, <3>2
  <2>3. \A t, u \in Starts : LiveRunner(t)' /\ LiveRunner(u)' => t = u
    BY <1>5
  <2>4. /\ \A t \in Starts : LiveRunner(t)' /\ running' => dispatcherTask' = t
        /\ \A t \in Starts : LiveRunner(t)' /\ ~running' => \E c \in Stops : UnderWay(c)'
    BY <1>1, <1>5, <1>8 DEF OneRunner
  <2> QED BY <2>1, <2>2, <2>3, <2>4 DEF OneRunner
<1>11. Woken' /\ Final'
  BY <1>1, <1>2, <1>6 DEF Woken, Final
<1> QED BY <1>3, <1>7, <1>9, <1>10, <1>11

LEMMA OrdersAreSequences ==
  ASSUME NEW S, NEW w \in WakeOrders(S)
  PROVE  /\ \E n \in Nat : /\ w \in [1..n -> S]
                           /\ \A i, j \in 1..n : i # j => w[i] # w[j]
         /\ S = {} => w = <<>>
<1>1. PICK n \in 0..Cardinality(Stops) : w \in [1..n -> S]
  BY DEF WakeOrders
<1>2. n \in Nat
  OBVIOUS
<1>3. \A i, j \in 1..n : w[i] = w[j] => i = j
  BY <1>1 DEF WakeOrders
<1>4. ASSUME S = {} PROVE w = <<>>
  <2>1. n = 0
    BY <1>1, <1>2, <1>4
  <2> QED BY <1>1, <2>1
<1> QED BY <1>1, <1>2, <1>3, <1>4

(* The end of the run wakes the stops that wait for it.                    *)
LEMMA EndTurn ==
  ASSUME NotOverlapped, NEW s \in Starts, NEW how \in {"ended", "died"}, LoopEnd(s, how)
  PROVE  NotOverlapped'
<1> USE DEF NotOverlapped
<1> DEFINE Waiting == {c \in Stops : pc[c] = "waitStopped" /\ ~Queued(Caller(c))}
           Joining == {c \in Stops : pc[c] = "awaitTask" /\ awaits[c] = s}
<1>1. PICK waiters \in WakeOrders(Waiting), joiners \in WakeOrders(Joining) :
        Runs(Runner(s), [i \in 1..Len(waiters \o joiners) |-> Caller((waiters \o joiners)[i])])
  BY DEF LoopEnd
<1> DEFINE w == [i \in 1..Len(waiters \o joiners) |-> Caller((waiters \o joiners)[i])]
<1>2. w \in Seq(Task) /\ Distinct(w) /\ \A x : In(w, x) => \E c \in Waiting : x = Caller(c)
  <2>1. Joining = {}
    BY DEF Queueing
  <2>2. joiners = <<>>
    BY <2>1, OrdersAreSequences
  <2>3. PICK n \in Nat : /\ waiters \in [1..n -> Waiting]
                        /\ \A i, j \in 1..n : i # j => waiters[i] # waiters[j]
    BY OrdersAreSequences
  <2>7. waiters \in Seq(Waiting) /\ Len(waiters) = n
    BY <2>3
  <2>8. waiters \o joiners = waiters
    BY <2>2, <2>7
  <2>9. w = [i \in 1..n |-> Caller(waiters[i])]
    BY <2>7, <2>8
  <2>10. \A i \in 1..n : w[i] = Caller(waiters[i]) /\ waiters[i] \in Waiting
    BY <2>3, <2>9
  <2>11. Waiting \subseteq Calls
    BY Names
  <2> HIDE DEF w, Waiting
  <2>12. w \in [1..n -> Task]
    BY <2>3, <2>9, <2>11, Names
  <2>13. w \in Seq(Task) /\ Len(w) = n
    BY <2>12
  <2>14. Distinct(w)
    BY <2>3, <2>10, <2>13, Names DEF Distinct
  <2> QED BY <2>10, <2>13, <2>14 DEF In
<1> HIDE DEF w
<1>3. /\ ready' \in Seq(Task) /\ Distinct(ready') /\ Queued(Runner(s))
      /\ \A x : Queued(x)' <=> (Queued(x) /\ x # Runner(s)) \/ In(w, x)
      /\ \A a, b : Ahead(ready, a, b) /\ a # Runner(s) => Ahead(ready', a, b)
  <2>1. \A x : In(w, x) /\ Queued(x) => x = Runner(s)
    BY <1>2
  <2>2. Runs(Runner(s), w)
    BY <1>1 DEF w
  <2> QED BY <1>2, <2>1, <2>2, Served DEF LifeTypes
<1>4. /\ \A t \in Starts : Queued(Runner(t))' <=> Queued(Runner(t)) /\ t # s
      /\ \A c \in Calls : Queued(Caller(c))' =>
           Queued(Caller(c)) \/ (c \in Stops /\ pc[c] = "waitStopped")
  BY <1>2, <1>3, Names
<1>5. /\ UNCHANGED <<pc, running, dispatcherTask, fresh>>
      /\ loop'[s] = how /\ \A t \in Starts \ {s} : loop'[t] = loop[t]
      /\ ~active' /\ ~rxEnabled' /\ stoppedEvent'
  BY DEF LoopEnd, radioVars, LifeTypes
<1>6. LifeTypes'
  BY <1>3, <1>5 DEF LifeTypes, LoopEnd
<1>7. \A t \in Starts : ~LiveRunner(t)'
  <2>1. \A t \in Starts : LiveRunner(t) => t = s
    BY <1>3 DEF OneRunner, LiveRunner
  <2> QED BY <1>4, <1>5, <2>1 DEF LiveRunner
<1>8. Quiet'
  BY <1>5, <1>7 DEF Quiet, NoRunner
<1>9. Woken' /\ Final'
  BY <1>8 DEF Woken, Final
<1>10. Queueing'
  <2>1. pc[s] # "idle"
    BY <1>3 DEF Queueing
  <2> QED BY <1>4, <1>5, <2>1, Names DEF Queueing
<1>11. \A c \in Stops : UnderWay(c)' <=> UnderWay(c)
  BY <1>5 DEF UnderWay
<1>12. Order'
  <2>1. ASSUME NEW t \in Starts, NEW c \in Stops, pc[t] = "idle", Queued(Caller(t))'
        PROVE  /\ ~UnderWay(c)
               /\ pc[c] = "idle" /\ Queued(Caller(c))' => Ahead(ready', Caller(t), Caller(c))
    <3>1. Queued(Caller(t))
      BY <1>4, <2>1, Names
    <3> QED BY <1>3, <1>4, <2>1, <3>1, Names DEF Order
  <2>2. \A t \in Starts : ~Queued(Runner(t))'
    BY <1>7 DEF LiveRunner
  <2> QED BY <1>5, <1>11, <2>1, <2>2 DEF Order
<1>13. OneRunner'
  <2>1. \A t \in Starts : loop'[t] \notin {"tick", "health"}
    BY <1>7 DEF LiveRunner
  <2>2. dispatcherTask' \in Starts => Ended(dispatcherTask)'
    <3> SUFFICES ASSUME dispatcherTask \in Starts PROVE Ended(dispatcherTask)'
      BY <1>5
    <3>1. CASE dispatcherTask = s
      BY <1>5, <3>1 DEF Ended
    <3>2. CASE dispatcherTask # s
      <4>1. ~LiveRunner(dispatcherTask)
        BY <1>3, <3>2 DEF OneRunner, LiveRunner
      <4> QED BY <1>5, <3>2, <4>1 DEF OneRunner, Ended
    <3> QED BY <3>1, <3>2
  <2> QED BY <1>7, <2>1, <2>2 DEF OneRunner
<1> QED BY <1>6, <1>9, <1>10, <1>12, <1>13

(* The caller of a start or of a cleanup takes a turn that spawns nothing. *)
LEMMA BystanderTurn ==
  ASSUME NotOverlapped, NEW c \in Starts \cup Cleanups, NEW w \in {<<>>, <<Caller(c)>>},
         Runs(Caller(c), w), NEW place \in {"starting", "done", "failed"},
         pc' = [pc EXCEPT ![c] = place],
         c \in Starts \/ w = <<>>, w # <<>> => place = "starting",
         UNCHANGED <<loop, active, stoppedEvent>>, rxEnabled' => rxEnabled,
         fresh' \subseteq fresh,
         \/ UNCHANGED <<running, dispatcherTask>>
         \/ ~running' /\ dispatcherTask' = NoTask /\ dispatcherTask \in Starts /\ Ended(dispatcherTask)
  PROVE  NotOverlapped'
<1> USE DEF NotOverlapped
<1>1. /\ c \in Calls /\ c \notin Stops
      /\ pc'[c] = place /\ \A d \in Calls \ {c} : pc'[d] = pc[d]
      /\ \A d \in Stops : pc'[d] = pc[d]
  BY Names DEF LifeTypes
<1>2. /\ w \in Seq(Task) /\ Distinct(w) /\ \A x : In(w, x) <=> w # <<>> /\ x = Caller(c)
  <2>1. CASE w = <<>>
    BY <2>1, Lists
  <2>2. CASE w = <<Caller(c)>>
    <3>1. <<Caller(c)>> # <<>>
      OBVIOUS
    <3> QED BY <1>1, <2>2, <3>1, Lists, Names
  <2> QED BY <2>1, <2>2
<1>3. /\ ready' \in Seq(Task) /\ Distinct(ready') /\ Queued(Caller(c))
      /\ \A x : Queued(x)' <=> (Queued(x) /\ x # Caller(c)) \/ In(w, x)
      /\ \A a, b : Ahead(ready, a, b) /\ a # Caller(c) => Ahead(ready', a, b)
  BY <1>2, Served DEF LifeTypes
<1>4. /\ \A t \in Starts : Queued(Runner(t))' <=> Queued(Runner(t))
      /\ \A d \in Calls \ {c} : Queued(Caller(d))' <=> Queued(Caller(d))
      /\ Queued(Caller(c))' => w # <<>>
  BY <1>2, <1>3, Names
<1>5. LifeTypes'
  BY <1>1, <1>3 DEF LifeTypes
<1>6. Queueing'
  BY <1>1, <1>4, Names DEF Queueing
<1>7. \A d \in Stops : UnderWay(d)' <=> UnderWay(d)
  BY <1>1 DEF UnderWay
<1>8. \A t \in Starts : (LiveRunner(t)' <=> LiveRunner(t)) /\ (Ended(t)' <=> Ended(t))
  BY <1>4 DEF LiveRunner, Ended
<1>9. Order'
  BY <1>1, <1>3, <1>4, <1>7, Names DEF Order
<1>10. OneRunner'
  <2>1. CASE UNCHANGED <<running, dispatcherTask>>
    BY <1>7, <1>8, <2>1 DEF OneRunner
  <2>2. CASE ~running' /\ dispatcherTask' = NoTask /\ dispatcherTask \in Starts
             /\ Ended(dispatcherTask)
    <3>1. ~LiveRunner(dispatcherTask)
      BY <2>2 DEF LiveRunner, Ended, Queueing
    <3>2. \A t \in Starts : LiveRunner(t) => ~running
      BY <3>1 DEF OneRunner
    <3>3. \A t \in Starts : LiveRunner(t)' => \E d \in Stops : UnderWay(d)'
      BY <1>7, <1>8, <3>2 DEF OneRunner
    <3>4. NoTask \notin Starts
      BY TasksAssumption
    <3> QED BY <1>8, <2>2, <3>3, <3>4 DEF OneRunner
  <2> QED BY <2>1, <2>2
<1>11. Quiet => Quiet'
  BY <1>8 DEF Quiet, NoRunner
<1>12. Woken' /\ Final'
  BY <1>1, <1>4, <1>11, Names DEF Woken, Final, LifeTypes
<1> QED BY <1>5, <1>6, <1>9, <1>10, <1>12

(* A start that finds the radio not running spawns its runner.             *)
LEMMA SpawnTurn ==
  ASSUME NotOverlapped, NEW s \in Starts, Start(s), ~running PROVE NotOverlapped'
<1> USE DEF NotOverlapped
<1> DEFINE w == IF active THEN <<Runner(s)>> ELSE <<Runner(s), Caller(s)>>
           place == IF active THEN "done" ELSE "starting"
<1>1. /\ pc[s] = "idle" /\ fresh' = {} /\ running' /\ dispatcherTask' = s
      /\ pc' = [pc EXCEPT ![s] = place] /\ Runs(Caller(s), w)
      /\ UNCHANGED <<loop, active, stoppedEvent>>
  BY DEF Start, Goto, eventVars
<1>2. /\ s \in Calls /\ pc'[s] = place /\ \A d \in Calls \ {s} : pc'[d] = pc[d]
      /\ \A d \in Stops : pc'[d] = pc[d]
  BY <1>1, Names DEF LifeTypes
<1>3. /\ w \in Seq(Task) /\ Distinct(w)
      /\ \A x : In(w, x) <=> x = Runner(s) \/ (~active /\ x = Caller(s))
  BY <1>2, Lists, Names
<1>4. ~Queued(Runner(s)) /\ loop[s] = "none"
  BY <1>1 DEF Queueing
<1> HIDE DEF w
<1>5. /\ ready' \in Seq(Task) /\ Distinct(ready') /\ Queued(Caller(s))
      /\ \A x : Queued(x)' <=> (Queued(x) /\ x # Caller(s)) \/ In(w, x)
      /\ \A a, b : Ahead(ready, a, b) /\ a # Caller(s) => Ahead(ready', a, b)
  <2>1. \A x : In(w, x) /\ Queued(x) => x = Caller(s)
    BY <1>3, <1>4
  <2> QED BY <1>1, <1>3, <2>1, Served DEF LifeTypes
<1>6. /\ \A t \in Starts : Queued(Runner(t))' <=> Queued(Runner(t)) \/ t = s
      /\ \A d \in Calls \ {s} : Queued(Caller(d))' <=> Queued(Caller(d))
      /\ Queued(Caller(s))' => ~active
  BY <1>3, <1>5, Names
<1>7. \A c \in Stops : ~UnderWay(c)
  BY <1>1, <1>5 DEF Order
<1>8. \A t \in Starts : ~LiveRunner(t)
  BY <1>7 DEF OneRunner
<1>9. \A t \in Starts : LiveRunner(t)' <=> t = s
  BY <1>1, <1>6, <1>8 DEF LiveRunner
<1>10. \A c \in Stops : ~UnderWay(c)'
  BY <1>2, <1>7 DEF UnderWay
<1>11. LifeTypes'
  BY <1>1, <1>2, <1>5 DEF LifeTypes
<1>12. Queueing'
  BY <1>1, <1>2, <1>4, <1>6, Names DEF Queueing
<1>13. Order'
  <2>1. ASSUME NEW t \in Starts, NEW c \in Stops, pc'[t] = "idle", Queued(Caller(t))',
               pc'[c] = "idle", Queued(Caller(c))'
        PROVE  Ahead(ready', Caller(t), Caller(c))
    <3>1. t # s /\ c # s /\ pc[t] = "idle" /\ pc[c] = "idle"
      BY <1>2, <2>1, Names
    <3>2. Queued(Caller(t)) /\ Queued(Caller(c))
      BY <1>6, <2>1, <3>1, Names
    <3>3. Ahead(ready, Caller(t), Caller(c))
      BY <3>1, <3>2 DEF Order
    <3> QED BY <1>5, <3>1, <3>3, Names
  <2>2. \A c \in Stops : pc'[c] # "yielded"
    BY <1>10 DEF UnderWay, Finished
  <2> QED BY <1>10, <2>1, <2>2 DEF Order
<1>14. OneRunner'
  BY <1>1, <1>8, <1>9 DEF OneRunner, LiveRunner
<1>15. Woken'
  BY <1>10 DEF Woken, UnderWay, Finished
<1>16. Final'
  BY <1>1 DEF Final
<1> QED BY <1>11, <1>12, <1>13, <1>14, <1>15, <1>16

(* A stop takes a turn: it goes on to wait, or it ends with all quiet.     *)
LEMMA StopTurn ==
  ASSUME NotOverlapped, NEW c \in Stops, NEW w \in {<<>>, <<Caller(c)>>}, Runs(Caller(c), w),
         NEW place \in {"reciprocals", "yielded", "waitStopped", "done", "failed"},
         pc' = [pc EXCEPT ![c] = place], w # <<>> => place = "yielded",
         UNCHANGED <<loop, active, stoppedEvent>>, rxEnabled' => rxEnabled,
         fresh' \subseteq fresh \cup {c}, running' => running,
         dispatcherTask' = dispatcherTask \/ (dispatcherTask' = NoTask /\ NoRunner),
         place \in Finished => ~rxEnabled' /\ ~active /\ NoRunner
  PROVE  NotOverlapped'
<1> USE DEF NotOverlapped
<1>1. /\ c \in Calls /\ c \notin Starts
      /\ pc'[c] = place /\ \A d \in Calls \ {c} : pc'[d] = pc[d]
      /\ \A s \in Starts : pc'[s] = pc[s]
      /\ \A d \in Stops \ {c} : pc'[d] = pc[d]
  BY Names DEF LifeTypes
<1>2. /\ w \in Seq(Task) /\ Distinct(w) /\ \A x : In(w, x) <=> w # <<>> /\ x = Caller(c)
  <2>1. CASE w = <<>>
    BY <2>1, Lists
  <2>2. CASE w = <<Caller(c)>>
    <3>1. <<Caller(c)>> # <<>>
      OBVIOUS
    <3> QED BY <1>1, <2>2, <3>1, Lists, Names
  <2> QED BY <2>1, <2>2
<1>3. /\ ready' \in Seq(Task) /\ Distinct(ready') /\ Queued(Caller(c))
      /\ \A x : Queued(x)' <=> (Queued(x) /\ x # Caller(c)) \/ In(w, x)
      /\ \A a, b : Ahead(ready, a, b) /\ a # Caller(c) => Ahead(ready', a, b)
      /\ \A a, b : Queued(a) /\ a # Caller(c) /\ In(w, b) => Ahead(ready', a, b)
      /\ \A a : ~Ahead(ready, a, Caller(c))
  BY <1>2, Served DEF LifeTypes
<1>4. /\ \A t \in Starts : Queued(Runner(t))' <=> Queued(Runner(t))
      /\ \A d \in Calls \ {c} : Queued(Caller(d))' <=> Queued(Caller(d))
      /\ Queued(Caller(c))' => w # <<>>
  BY <1>2, <1>3, Names
<1>5. LifeTypes'
  BY <1>1, <1>3 DEF LifeTypes
<1>6. Queueing'
  BY <1>1, <1>4, Names DEF Queueing
<1>7. \A s \in Starts : pc[s] = "idle" => ~Queued(Caller(s))
  <2>1. CASE UnderWay(c)
    BY <2>1 DEF Order
  <2>2. CASE ~UnderWay(c)
    <3>1. pc[c] = "idle"
      BY <1>3, <2>2 DEF UnderWay, Queueing, Finished
    <3> QED BY <1>3, <3>1 DEF Order
  <2> QED BY <2>1, <2>2
<1>8. \A t \in Starts : (LiveRunner(t)' <=> LiveRunner(t)) /\ (Ended(t)' <=> Ended(t))
  BY <1>4 DEF LiveRunner, Ended
<1>9. Order'
  <2>1. \A s \in Starts : pc'[s] = "idle" => ~Queued(Caller(s))'
    BY <1>1, <1>4, <1>7, Names
  <2>2. ASSUME NEW s \in Starts, NEW d \in Stops, pc'[d] = "yielded", Queued(Caller(d))',
               loop[s] = "none", Queued(Runner(s))'
        PROVE  Ahead(ready', Runner(s), Caller(d))
    <3>1. Queued(Runner(s))
      BY <1>4, <2>2
    <3>2. CASE d = c
      BY <1>2, <1>3, <1>4, <2>2, <3>1, <3>2, Names
    <3>3. CASE d # c
      BY <1>1, <1>3, <1>4, <2>2, <3>1, <3>3, Names DEF Order
    <3> QED BY <3>2, <3>3
  <2> QED BY <2>1, <2>2 DEF Order
<1>10. OneRunner'
  <2>1. CASE NoRunner
    <3>1. \A t \in Starts : ~LiveRunner(t)'
      BY <1>8, <2>1 DEF NoRunner
    <3>2. NoTask \notin Starts
      BY TasksAssumption
    <3> QED BY <1>8, <3>1, <3>2 DEF OneRunner, LiveRunner
  <2>2. CASE ~NoRunner
    <3>1. dispatcherTask' = dispatcherTask /\ place \notin Finished
      BY <2>2
    <3>2. UnderWay(c)'
      BY <1>1, <3>1 DEF UnderWay
    <3> QED BY <1>8, <3>1, <3>2 DEF OneRunner
  <2> QED BY <2>1, <2>2
<1>11. Quiet => Quiet'
  BY <1>8 DEF Quiet, NoRunner
<1>12. Woken'
  BY <1>1, <1>4, <1>11, Names DEF Woken
<1>13. Final'
  <2>1. place \in Finished => Quiet'
    BY <1>8 DEF Quiet, NoRunner
  <2> QED BY <1>1, <1>11, <2>1 DEF Final, LifeTypes
<1> QED BY <1>5, <1>6, <1>9, <1>10, <1>12, <1>13

-----------------------------------------------------------------------------
(* The actions, as turns.                                                  *)
LEMMA StartTurns ==
  ASSUME NotOverlapped, NEW s \in Starts, StartStep(s) PROVE NotOverlapped'
<1>1. s \in Starts \cup Cleanups /\ <<>> \in {<<>>, <<Caller(s)>>}
      /\ <<Caller(s)>> \in {<<>>, <<Caller(s)>>}
  OBVIOUS
<1>2. CASE Start(s) /\ running
  <2>1. /\ Runs(Caller(s), <<>>) /\ pc' = [pc EXCEPT ![s] = "done"]
        /\ UNCHANGED <<loop, active, stoppedEvent>> /\ (rxEnabled' => rxEnabled)
        /\ fresh' \subseteq fresh /\ UNCHANGED <<running, dispatcherTask>>
    BY <1>2 DEF Start, Goto, eventVars
  <2> QED BY <1>1, <2>1, BystanderTurn
<1>3. CASE Start(s) /\ ~running
  BY <1>3, SpawnTurn
<1>4. CASE StartPolls(s)
  <2>1. /\ UNCHANGED <<loop, active, stoppedEvent>> /\ (rxEnabled' => rxEnabled)
        /\ fresh' \subseteq fresh /\ pc[s] = "starting"
    BY <1>4 DEF StartPolls, eventVars
  <2>2. CASE active \/ dispatcherTask = NoTask
    <3>1. /\ Runs(Caller(s), <<>>) /\ UNCHANGED <<running, dispatcherTask>>
          /\ \/ pc' = [pc EXCEPT ![s] = "done"]
             \/ pc' = [pc EXCEPT ![s] = "failed"]
      BY <1>4, <2>2 DEF StartPolls, Goto
    <3> QED BY <1>1, <2>1, <3>1, BystanderTurn
  <2>3. CASE ~active /\ dispatcherTask # NoTask /\ Ended(dispatcherTask)
    <3>1. /\ Runs(Caller(s), <<>>) /\ dispatcherTask' = NoTask /\ ~running'
          /\ \/ pc' = [pc EXCEPT ![s] = "done"]
             \/ pc' = [pc EXCEPT ![s] = "failed"]
      BY <1>4, <2>3 DEF StartPolls, Goto
    <3>2. dispatcherTask \in Starts
      BY <2>3 DEF NotOverlapped, LifeTypes
    <3> QED BY <1>1, <2>1, <2>3, <3>1, <3>2, BystanderTurn
  <2>4. CASE ~active /\ dispatcherTask # NoTask /\ ~Ended(dispatcherTask)
    <3>1. Runs(Caller(s), <<Caller(s)>>) /\ UNCHANGED <<pc, running, dispatcherTask>>
      BY <1>4, <2>4 DEF StartPolls
    <3>2. pc' = [pc EXCEPT ![s] = "starting"]
      BY <2>1, <3>1 DEF NotOverlapped, LifeTypes
    <3> QED BY <1>1, <2>1, <3>1, <3>2, BystanderTurn
  <2> QED BY <2>2, <2>3, <2>4
<1> QED BY <1>2, <1>3, <1>4 DEF StartStep

(* Nothing runs, so that the task a stop would await is none or over.      *)
LEMMA Awaited ==
  ASSUME NotOverlapped, NoRunner, NEW c, AwaitTask(c, dispatcherTask)
  PROVE  \/ pc' = [pc EXCEPT ![c] = "done"] /\ dispatcherTask' = NoTask
         \/ pc' = [pc EXCEPT ![c] = "failed"] /\ dispatcherTask' = dispatcherTask
<1>1. dispatcherTask = NoTask \/ Ended(dispatcherTask)
  BY DEF NotOverlapped, LifeTypes, OneRunner, NoRunner
<1> QED BY <1>1 DEF AwaitTask, Goto

LEMMA SignalTurn ==
  ASSUME NotOverlapped, NEW c \in Stops, DispatcherStop(c), UNCHANGED loop,
         running' => running, fresh' \subseteq fresh \cup {c}
  PROVE  NotOverlapped'
<1>1. /\ <<>> \in {<<>>, <<Caller(c)>>} /\ <<Caller(c)>> \in {<<>>, <<Caller(c)>>}
      /\ stoppedEvent = ~active
  BY DEF NotOverlapped, LifeTypes
<1>2. UNCHANGED <<loop, active, stoppedEvent>> /\ (rxEnabled' => rxEnabled)
  BY DEF DispatcherStop
<1>3. CASE active
  <2>1. /\ Runs(Caller(c), <<>>) /\ pc' = [pc EXCEPT ![c] = "waitStopped"]
        /\ dispatcherTask' = dispatcherTask
    BY <1>1, <1>3 DEF DispatcherStop, WaitStopped, Goto
  <2> QED BY <1>1, <1>2, <2>1, StopTurn DEF Finished
<1>4. CASE ~active
  <2>1. /\ Runs(Caller(c), <<Caller(c)>>) /\ pc' = [pc EXCEPT ![c] = "yielded"]
        /\ dispatcherTask' = dispatcherTask
    BY <1>4 DEF DispatcherStop, Goto
  <2> QED BY <1>1, <1>2, <2>1, StopTurn DEF Finished
<1> QED BY <1>3, <1>4

LEMMA StopTurns ==
  ASSUME NotOverlapped, NEW c \in Stops, StopStep(c) PROVE NotOverlapped'
<1>1. <<>> \in {<<>>, <<Caller(c)>>} /\ stoppedEvent = ~active
  BY DEF NotOverlapped, LifeTypes
<1>2. CASE Stop(c)
  <2>1. UNCHANGED loop /\ (running' => running) /\ fresh' \subseteq fresh \cup {c}
    BY <1>2 DEF Stop
  <2>2. CASE DispatcherStop(c)
    BY <2>1, <2>2, SignalTurn
  <2>3. CASE Goto(c, "reciprocals") /\ Runs(Caller(c), <<>>)
             /\ UNCHANGED <<dispatcherTask, awaits, eventVars>>
    <3>1. /\ pc' = [pc EXCEPT ![c] = "reciprocals"] /\ (rxEnabled' => rxEnabled)
          /\ UNCHANGED <<active, stoppedEvent>>
      BY <2>3 DEF Goto, eventVars
    <3> QED BY <1>1, <2>1, <2>3, <3>1, StopTurn DEF Finished
  <2> QED BY <1>2, <2>2, <2>3 DEF Stop
<1>3. CASE ReciprocalsAwaited(c)
  BY <1>3, SignalTurn DEF ReciprocalsAwaited
<1>4. CASE StopYielded(c)
  <2>1. /\ pc[c] = "yielded" /\ Runs(Caller(c), <<>>) /\ ~rxEnabled'
        /\ UNCHANGED <<loop, active, stoppedEvent>> /\ (running' => running)
        /\ fresh' \subseteq fresh \cup {c}
    BY <1>4 DEF StopYielded
  <2>2. CASE active
    <3>1. pc' = [pc EXCEPT ![c] = "waitStopped"] /\ dispatcherTask' = dispatcherTask
      BY <1>1, <1>4, <2>2 DEF StopYielded, WaitStopped, Goto
    <3> QED BY <1>1, <2>1, <3>1, StopTurn DEF Finished
  <2>3. CASE ~active
    <3>1. Queued(Caller(c)) /\ \A a : ~Ahead(ready, a, Caller(c))
      BY <2>1, Served, Lists DEF NotOverlapped, LifeTypes
    <3>2. NoRunner
      BY <2>1, <2>3, <3>1 DEF NotOverlapped, NoRunner, LiveRunner, Order, OneRunner, Queueing
    <3>3. AwaitTask(c, dispatcherTask)
      BY <1>4, <2>3 DEF StopYielded
    <3>4. CASE pc' = [pc EXCEPT ![c] = "done"] /\ dispatcherTask' = NoTask
      BY <1>1, <2>1, <2>3, <3>2, <3>4, StopTurn
    <3>5. CASE pc' = [pc EXCEPT ![c] = "failed"] /\ dispatcherTask' = dispatcherTask
      BY <1>1, <2>1, <2>3, <3>2, <3>5, StopTurn
    <3> QED BY <3>2, <3>3, <3>4, <3>5, Awaited
  <2> QED BY <2>2, <2>3
<1>5. CASE StoppedSeen(c)
  <2>1. /\ pc[c] = "waitStopped" /\ Runs(Caller(c), <<>>) /\ AwaitTask(c, dispatcherTask)
        /\ UNCHANGED <<loop, active, stoppedEvent, rxEnabled>> /\ (running' => running)
        /\ fresh' \subseteq fresh \cup {c}
    BY <1>5 DEF StoppedSeen, eventVars
  <2>2. Queued(Caller(c))
    BY <2>1, Served, Lists DEF NotOverlapped, LifeTypes
  <2>3. ~rxEnabled /\ ~active /\ NoRunner
    BY <2>1, <2>2 DEF NotOverlapped, Woken, Quiet
  <2>4. CASE pc' = [pc EXCEPT ![c] = "done"] /\ dispatcherTask' = NoTask
    BY <1>1, <2>1, <2>3, <2>4, StopTurn
  <2>5. CASE pc' = [pc EXCEPT ![c] = "failed"] /\ dispatcherTask' = dispatcherTask
    BY <1>1, <2>1, <2>3, <2>5, StopTurn
  <2> QED BY <2>1, <2>3, <2>4, <2>5, Awaited
<1>6. ~TaskAwaited(c)
  BY DEF TaskAwaited, NotOverlapped, Queueing
<1> QED BY <1>2, <1>3, <1>4, <1>5, <1>6 DEF StopStep

LEMMA CleanupTurn ==
  ASSUME NotOverlapped, NEW c \in Cleanups, Cleanup(c) PROVE NotOverlapped'
<1>1. c \in Starts \cup Cleanups /\ <<>> \in {<<>>, <<Caller(c)>>}
  OBVIOUS
<1>2. /\ Runs(Caller(c), <<>>) /\ pc' = [pc EXCEPT ![c] = "done"]
      /\ UNCHANGED <<loop, active, stoppedEvent>> /\ (rxEnabled' => rxEnabled)
      /\ fresh' \subseteq fresh /\ UNCHANGED <<running, dispatcherTask>>
  BY DEF Cleanup, Goto, radioVars
<1> QED BY <1>1, <1>2, BystanderTurn

LEMMA RunnerTurns ==
  ASSUME NotOverlapped, NEW s \in Starts, RunnerStep(s) PROVE NotOverlapped'
<1>1. CASE RunPrelude(s)
  BY <1>1, RunnerTurn DEF RunPrelude
<1>2. CASE NodeFails(s)
  BY <1>2, RunnerTurn DEF NodeFails, eventVars
<1>3. CASE ArmFails(s)
  BY <1>3, RunnerTurn DEF ArmFails
<1>4. CASE LoopPass(s)
  <2>1. PICK place \in {"tick", "health"} : loop' = [loop EXCEPT ![s] = place]
    BY <1>4 DEF LoopPass
  <2> QED BY <1>4, <2>1, RunnerTurn DEF LoopPass, eventVars
<1>5. CASE HealthDone(s)
  BY <1>5, RunnerTurn DEF HealthDone, eventVars
<1>6. CASE LoopStops(s) \/ LoopDies(s)
  BY <1>6, EndTurn DEF LoopStops, LoopDies
<1> QED BY <1>1, <1>2, <1>3, <1>4, <1>5, <1>6 DEF RunnerStep

LEMMA LifeStep == LifeInv /\ [Next]_vars => LifeInv'
<1> SUFFICES ASSUME LifeInv, [Next]_vars, ~overlapped' PROVE NotOverlapped'
  BY DEF LifeInv
<1>1. ~overlapped
  BY DEF Next, vars, ServeQueue, CallMade, ReciprocalsOver, LoopWakes
<1>2. NotOverlapped
  BY <1>1 DEF LifeInv
<1>3. CASE ServeQueue
  BY <1>2, <1>3, RunnerTurns, StartTurns, StopTurns, CleanupTurn DEF ServeQueue
<1>4. ASSUME NEW c \in Calls, CallMade(c) PROVE NotOverlapped'
  <2>1. c \in Starts => ~StopPending
    BY <1>4 DEF CallMade
  <2> QED BY <1>2, <1>4, <2>1, AppendStep, Names DEF CallMade, Calls
<1>5. ASSUME NEW c \in Stops, ReciprocalsOver(c) PROVE NotOverlapped'
  BY <1>2, <1>5, AppendStep, Names DEF ReciprocalsOver
<1>6. ASSUME NEW s \in Starts, LoopWakes(s) PROVE NotOverlapped'
  BY <1>2, <1>6, AppendStep, Names DEF LoopWakes
<1>7. CASE UNCHANGED vars
  BY <1>2, <1>7 DEF vars, NotOverlapped, LifeTypes, Queueing, Order, OneRunner, Woken, Final,
     Quiet, NoRunner, LiveRunner, UnderWay, Queued, Ended
<1> QED BY <1>3, <1>4, <1>5, <1>6, <1>7 DEF Next

(* StopIsFinal holds of every behaviour of CompanionRadio's start and stop *)
(* and of the dispatcher's run_forever, for any number of calls: a stop    *)
(* that returns, with no start called since, leaves RX disarmed and no     *)
(* runner active or still to come.                                         *)
THEOREM LifeStops == Spec => []StopIsFinal
<1>1. LifeInv => StopIsFinal
  BY DEF LifeInv, NotOverlapped, Final, StopIsFinal, Quiet, NoRunner, LiveRunner
<1> QED BY <1>1, LifeInit, LifeStep, PTL DEF Spec

-----------------------------------------------------------------------------
FramePlaces == {"new", "start", "evictTask", "evictClose", "read", "cmd", "cleanTask", "done",
                "stop", "stopTask", "stopClose", "stopWait"}

SlotInv ==
  /\ fpc \in [Frames!Tasks -> FramePlaces] /\ installed \in Seq(Conns)
  /\ Frames!NewestKeepsSlot

LEMMA SlotInit == Frames!Init => SlotInv
  BY DEF Frames!Init, SlotInv, Frames!NewestKeepsSlot, FramePlaces

(* A step that moves the one task t, not to be served, and leaves the slot. *)
LEMMA SlotMoves ==
  ASSUME SlotInv, NEW t \in Frames!Tasks, NEW place \in FramePlaces, Frames!Goto(t, place), UNCHANGED installed,
         place \in {"read", "cmd"} => fpc[t] \in {"read", "cmd"},
         t = Stopper => place # "new",
         fpc'[Stopper] = "new" => \/ UNCHANGED <<clientWriter, writeQueue>>
                                  \/ t \in Conns /\ place = "done" /\ Frames!Release(t)
  PROVE  SlotInv'
<1>1. fpc' \in [Frames!Tasks -> FramePlaces] /\ Stopper \in Frames!Tasks /\ Conns \subseteq Frames!Tasks
  BY DEF SlotInv, Frames!Goto, Frames!Tasks
<1>2. ASSUME installed # <<>>, fpc'[Stopper] = "new", fpc'[Frames!Newest] \in {"read", "cmd"}
      PROVE  clientWriter' = Frames!Newest /\ writeQueue' = Frames!Newest
  <2>1. Frames!Newest \in Conns
    BY <1>2 DEF SlotInv, Frames!Newest
  <2>2. fpc[Stopper] = "new" /\ fpc[Frames!Newest] \in {"read", "cmd"}
    BY <1>1, <1>2, <2>1 DEF SlotInv, Frames!Goto
  <2>3. clientWriter = Frames!Newest /\ writeQueue = Frames!Newest
    BY <1>2, <2>2 DEF SlotInv, Frames!NewestKeepsSlot
  <2>4. CASE t \in Conns /\ place = "done" /\ Frames!Release(t)
    <3>1. t # Frames!Newest
      BY <1>2, <2>4 DEF SlotInv, Frames!Goto
    <3> QED BY <2>3, <2>4, <3>1 DEF Frames!Release
  <2> QED BY <1>2, <2>3, <2>4
<1>3. Frames!Newest' = Frames!Newest
  BY DEF Frames!Newest
<1> QED BY <1>1, <1>2, <1>3 DEF SlotInv, Frames!NewestKeepsSlot

LEMMA SlotStays ==
  ASSUME SlotInv, UNCHANGED <<fpc, installed, clientWriter, writeQueue>>
  PROVE  SlotInv'
  BY DEF SlotInv, Frames!NewestKeepsSlot, Frames!Newest

LEMMA SlotTaken ==
  ASSUME SlotInv, NEW c \in Conns, NEW rest, Frames!Install(c, rest)
  PROVE  SlotInv'
<1>1. installed' \in Seq(Conns) /\ Frames!Newest' = c
  BY DEF Frames!Install, SlotInv, Frames!Newest
<1>2. fpc' \in [Frames!Tasks -> FramePlaces]
  BY DEF Frames!Install, Frames!Goto, SlotInv, Frames!Tasks, FramePlaces
<1> QED BY <1>1, <1>2 DEF SlotInv, Frames!NewestKeepsSlot, Frames!Install

LEMMA CloseOldStep ==
  ASSUME SlotInv, NEW c \in Conns, NEW o, Frames!CloseOld(c, o) PROVE SlotInv'
<1>1. CASE o \in lost
  BY <1>1, SlotTaken DEF Frames!CloseOld
<1>2. CASE o \notin lost
  BY <1>2, SlotMoves DEF Frames!CloseOld, Frames!Tasks, FramePlaces
<1> QED BY <1>1, <1>2

LEMMA ClientTurns ==
  ASSUME SlotInv, NEW c \in Conns,
         Frames!HandleClient(c) \/ Frames!EvictTaskGone(c) \/ Frames!EvictClosed(c)
  PROVE  SlotInv'
<1>1. CASE Frames!HandleClient(c)
  <2>1. CASE Frames!Install(c, Tail(fready))
    BY <2>1, SlotTaken
  <2>2. CASE Frames!CloseOld(c, clientWriter)
    BY <2>2, CloseOldStep
  <2>3. CASE Frames!Goto(c, "evictTask") /\ UNCHANGED <<Frames!slot, installed>>
    BY <2>3, SlotMoves DEF Frames!Tasks, FramePlaces, Frames!slot
  <2> QED BY <1>1, <2>1, <2>2, <2>3 DEF Frames!HandleClient
<1>2. CASE Frames!EvictTaskGone(c)
  BY <1>2, CloseOldStep DEF Frames!EvictTaskGone
<1>3. CASE Frames!EvictClosed(c)
  BY <1>3, SlotTaken DEF Frames!EvictClosed
<1> QED BY <1>1, <1>2, <1>3

LEMMA CleanupStep ==
  ASSUME SlotInv, NEW c \in Conns, NEW q, Frames!Cleanup(c, q), UNCHANGED installed PROVE SlotInv'
<1>1. CASE Frames!Goto(c, "cleanTask") /\ UNCHANGED Frames!slot
  BY <1>1, SlotMoves DEF Frames!Tasks, FramePlaces, Frames!slot
<1>2. CASE Frames!Release(c)
  <2>1. Frames!Goto(c, "done")
    BY <1>2 DEF Frames!Release
  <2> QED BY <1>2, <2>1, SlotMoves, FramesGiven
      DEF Frames!FrameAssumption, Frames!Tasks, FramePlaces
<1> QED BY <1>1, <1>2 DEF Frames!Cleanup

LEMMA RespondStep ==
  ASSUME SlotInv, NEW c \in Conns, Frames!Respond(c), UNCHANGED installed, fpc[c] \in {"read", "cmd"}
  PROVE  SlotInv'
<1>1. CASE wpc[c] = "done"
  BY <1>1, CleanupStep DEF Frames!Respond
<1>2. CASE wpc[c] # "done"
  BY <1>2, SlotMoves, FramesGiven
    DEF Frames!FrameAssumption, Frames!Respond, Frames!Tasks, FramePlaces, Frames!slot
<1> QED BY <1>1, <1>2

LEMMA ReaderTurns ==
  ASSUME SlotInv, NEW c \in Conns,
         Frames!ReadClientFrames(c) \/ Frames!CommandDone(c) \/ Frames!CleanupTaskGone(c)
  PROVE  SlotInv'
<1>1. CASE Frames!ReadClientFrames(c)
  <2>1. UNCHANGED installed /\ fpc[c] = "read"
    BY <1>1 DEF Frames!ReadClientFrames, Frames!hist, Frames!Turn
  <2>2. CASE Frames!Respond(c)
    BY <2>1, <2>2, RespondStep
  <2>3. CASE Frames!Goto(c, "cmd") /\ UNCHANGED Frames!slot
    BY <2>1, <2>3, SlotMoves, FramesGiven
      DEF Frames!FrameAssumption, Frames!Tasks, FramePlaces, Frames!slot
  <2>4. CASE Frames!Cleanup(c, queue)
    BY <2>1, <2>4, CleanupStep
  <2> QED BY <1>1, <2>2, <2>3, <2>4 DEF Frames!ReadClientFrames
<1>2. CASE Frames!CommandDone(c)
  BY <1>2, RespondStep DEF Frames!CommandDone, Frames!Turn, Frames!hist
<1>3. CASE Frames!CleanupTaskGone(c)
  <2>1. Frames!Goto(c, "done") /\ Frames!Release(c) /\ UNCHANGED installed
    BY <1>3 DEF Frames!CleanupTaskGone, Frames!Release, Frames!hist
  <2> QED BY <2>1, SlotMoves, FramesGiven DEF Frames!FrameAssumption, Frames!Tasks, FramePlaces
<1> QED BY <1>1, <1>2, <1>3

LEMMA ServerStops ==
  ASSUME SlotInv, Frames!Stop \/ Frames!StopTaskGone \/ Frames!StopClientGone \/ Frames!StopClientsGone \/ Frames!CallStop
  PROVE  SlotInv'
<1>1. \E place \in FramePlaces \ {"new", "read", "cmd"} : Frames!Goto(Stopper, place)
  BY DEF Frames!Stop, Frames!StopTaskGone, Frames!StopClientGone, Frames!StopClientsGone,
      Frames!CallStop, Frames!StopClient, Frames!StopServer,
         FramePlaces
<1>2. UNCHANGED installed /\ Stopper \in Frames!Tasks
  BY DEF Frames!Stop, Frames!StopTaskGone, Frames!StopClientGone, Frames!StopClientsGone,
      Frames!CallStop, Frames!hist, Frames!Tasks
<1>3. fpc'[Stopper] # "new"
  BY <1>1, <1>2 DEF Frames!Goto, SlotInv
<1> QED BY <1>1, <1>2, <1>3, SlotMoves

LEMMA SlotStep == SlotInv /\ [Frames!Next]_Frames!vars => SlotInv'
<1> SUFFICES ASSUME SlotInv, [Frames!Next]_Frames!vars PROVE SlotInv'
  OBVIOUS
<1>1. CASE Frames!ServerTurn
  BY <1>1, ClientTurns, ReaderTurns, ServerStops DEF Frames!ServerTurn
<1>2. ASSUME NEW c \in Conns, Frames!Arrive(c) PROVE SlotInv'
  <2>1. Frames!Goto(c, "start") /\ UNCHANGED <<installed, clientWriter, writeQueue>>
    BY <1>2 DEF Frames!Arrive, Frames!hist, Frames!slot
  <2> QED BY <2>1, SlotMoves, FramesGiven DEF Frames!FrameAssumption, Frames!Tasks, FramePlaces
<1>3. CASE Frames!CallStop
  BY <1>3, ServerStops
<1>4. ASSUME NEW c \in Conns,
             \/ Frames!CommandArrives(c) \/ Frames!ClientLeaves(c) \/ Frames!ConnectionReset(c)
             \/ Frames!CommandResumes(c) \/ Frames!WriterLoop(c) \/ Frames!ConnectionLost(c)
      PROVE  SlotInv'
  <2>1. UNCHANGED <<fpc, installed, clientWriter, writeQueue>>
    BY <1>4 DEF Frames!CommandArrives, Frames!ClientLeaves, Frames!ConnectionReset,
        Frames!CommandResumes, Frames!WriterLoop,
                Frames!ConnectionLost, Frames!Wakes, Frames!Lose, Frames!hist, Frames!slot
  <2> QED BY <2>1, SlotStays
<1>5. CASE Frames!PushEvent \/ UNCHANGED Frames!vars
  <2>1. UNCHANGED <<fpc, installed, clientWriter, writeQueue>>
    BY <1>5 DEF Frames!PushEvent, Frames!vars, Frames!hist, Frames!slot
  <2> QED BY <2>1, SlotStays
<1> QED BY <1>1, <1>2, <1>3, <1>4, <1>5 DEF Frames!Next, Frames!Environment

(* For any number of connections, frames and queue places: the client that *)
(* took the slot last keeps it and its queue while it is served, however   *)
(* the cleanup of those it evicted is delayed.                             *)
THEOREM SlotKept == Frames!Spec => []NewestKeepsSlot
<1>1. SlotInv => NewestKeepsSlot
  BY DEF SlotInv, NewestKeepsSlot
<1> QED BY <1>1, SlotInit, SlotStep, PTL DEF Frames!Spec
=============================================================================
