-------------------------- MODULE CompanionProofs ---------------------------
(* The teacher of return paths settles once per contact and teaches the    *)
(* best copy, for any replies, copies and delays.  The device settings:    *)
(* floods are scoped as asked, and what is signed was acknowledged.  The   *)
(* sessions: one answer to each command, and the host's requests left      *)
(* alone.                                                                  *)
EXTENDS Companion, FiniteSetTheorems, TLAPS

\* Leaves are tried with Zenon first and then with the SMT solver.
USE ZenonT(1), SMTT(20), ZenonT(20)

InFlight(r) == pc[r] \in {"settle", "inject"}

RateTypes ==
  /\ pc \in [Replies -> Places] /\ timer \in [Replies -> Nat]
  /\ last \in [Contacts -> Nat]

(* The claim a teach made is younger than the time its teach still needs.  *)
ClaimOutlasts ==
  \A r \in Replies :
    /\ pc[r] = "settle" => last[Sender[r]] + timer[r] <= Settle
    /\ pc[r] = "inject" => last[Sender[r]] + timer[r] <= Settle + InjectMax

OneInFlight ==
  \A r, q \in Replies :
    InFlight(r) /\ InFlight(q) /\ Sender[r] = Sender[q] => r = q

RateInv == RateTypes /\ ClaimOutlasts /\ OneInFlight

-----------------------------------------------------------------------------
LEMMA RateInit == Init => RateInv
  BY ReturnPathAssumption
  DEF Init, RateInv, RateTypes, ClaimOutlasts, OneInFlight, InFlight, Places

(* A step of one reply's task that leaves every claim alone, or renews its *)
(* contact's, and does not put the task in flight.                         *)
LEMMA OtherStep ==
  ASSUME RateInv, NEW r \in Replies, NEW place \in Places \ {"settle", "inject"},
         NEW wait \in Nat, Move(r, place, wait),
         \/ UNCHANGED last
         \/ Claim(Sender[r])
  PROVE  RateInv'
<1>1. /\ pc' = [pc EXCEPT ![r] = place] /\ timer' = [timer EXCEPT ![r] = wait]
      /\ Sender \in [Replies -> Contacts]
  BY ReturnPathAssumption DEF Move
<1>2. RateTypes'
  BY <1>1 DEF RateInv, RateTypes, Claim
<1>3. \A k \in Contacts : last'[k] <= last[k]
  BY <1>1 DEF RateInv, RateTypes, Claim
<1>4. \A q \in Replies : InFlight(q)' => q # r /\ pc'[q] = pc[q] /\ timer'[q] = timer[q]
  BY <1>1 DEF InFlight, RateInv, RateTypes
<1>5. ClaimOutlasts'
  <2> SUFFICES ASSUME NEW q \in Replies, InFlight(q)'
               PROVE  /\ pc'[q] = "settle" => last'[Sender[q]] + timer'[q] <= Settle
                      /\ pc'[q] = "inject" => last'[Sender[q]] + timer'[q] <= Settle + InjectMax
    BY DEF ClaimOutlasts, InFlight
  <2>1. /\ last[Sender[q]] \in Nat /\ last'[Sender[q]] \in Nat /\ timer[q] \in Nat
        /\ Settle \in Nat /\ InjectMax \in Nat
    BY <1>1, <1>2, ReturnPathAssumption DEF RateInv, RateTypes
  <2>2. last'[Sender[q]] <= last[Sender[q]]
    BY <1>1, <1>3
  <2> QED BY <1>4, <2>1, <2>2 DEF RateInv, ClaimOutlasts
<1>6. OneInFlight'
  BY <1>4 DEF RateInv, OneInFlight, InFlight
<1> QED BY <1>2, <1>5, <1>6 DEF RateInv

LEMMA TeachStep ==
  ASSUME PromptInjector, RateInv, NEW r \in Replies, Teach(r)
  PROVE  RateInv'
<1>1. /\ pc' = [pc EXCEPT ![r] = "settle"] /\ timer' = [timer EXCEPT ![r] = Settle]
      /\ last' = [last EXCEPT ![Sender[r]] = 0] /\ last[Sender[r]] = Cooldown
  BY DEF Teach, Move, Claim
<1>2. /\ Sender \in [Replies -> Contacts] /\ Settle \in Nat /\ InjectMax \in Nat
      /\ Cooldown \in Nat
  BY ReturnPathAssumption
<1>3. RateTypes'
  BY <1>1, <1>2 DEF RateInv, RateTypes, Places
<1>4. \A q \in Replies : InFlight(q) => Sender[q] # Sender[r]
  BY <1>1, <1>2 DEF InFlight, RateInv, RateTypes, ClaimOutlasts, PromptInjector
<1>5. \A q \in Replies \ {r} : pc'[q] = pc[q] /\ timer'[q] = timer[q]
  BY <1>1 DEF RateInv, RateTypes
<1>6. pc'[r] = "settle" /\ timer'[r] = Settle /\ last'[Sender[r]] = 0
  BY <1>1, <1>2 DEF RateInv, RateTypes
<1>7. ClaimOutlasts'
  <2> SUFFICES ASSUME NEW q \in Replies \ {r}
               PROVE  /\ pc'[q] = "settle" => last'[Sender[q]] + timer'[q] <= Settle
                      /\ pc'[q] = "inject" => last'[Sender[q]] + timer'[q] <= Settle + InjectMax
    BY <1>2, <1>6 DEF ClaimOutlasts
  <2>1. CASE InFlight(q)
    <3>1. last'[Sender[q]] = last[Sender[q]]
      BY <1>1, <1>2, <1>4, <2>1 DEF RateInv, RateTypes
    <3> QED BY <1>5, <3>1 DEF RateInv, ClaimOutlasts
  <2>2. CASE ~InFlight(q)
    BY <1>5, <2>2 DEF InFlight
  <2> QED BY <2>1, <2>2
<1>8. OneInFlight'
  BY <1>4, <1>5 DEF RateInv, OneInFlight, InFlight
<1> QED BY <1>3, <1>7, <1>8 DEF RateInv

LEMMA DispatchStep ==
  ASSUME RateInv, NEW r \in Replies, DispatchTeach(r)
  PROVE  RateInv'
<1>1. /\ pc' = [pc EXCEPT ![r] = "inject"] /\ timer' = [timer EXCEPT ![r] = InjectMax]
      /\ pc[r] = "settle" /\ timer[r] = 0 /\ last' = last
  BY DEF DispatchTeach, Move
<1>2. /\ Sender \in [Replies -> Contacts] /\ Settle \in Nat /\ InjectMax \in Nat
  BY ReturnPathAssumption
<1>3. RateTypes'
  BY <1>1, <1>2 DEF RateInv, RateTypes, Places
<1>4. last[Sender[r]] <= Settle /\ last[Sender[r]] \in Nat
  <2>1. last[Sender[r]] \in Nat
    BY <1>2 DEF RateInv, RateTypes
  <2>2. last[Sender[r]] + timer[r] <= Settle
    BY <1>1 DEF RateInv, ClaimOutlasts
  <2> QED BY <1>1, <1>2, <2>1, <2>2
<1>5. ClaimOutlasts'
  BY <1>1, <1>2, <1>4 DEF RateInv, RateTypes, ClaimOutlasts
<1>6. OneInFlight'
  BY <1>1 DEF RateInv, RateTypes, OneInFlight, InFlight
<1> QED BY <1>3, <1>5, <1>6 DEF RateInv

LEMMA RaiseStep ==
  ASSUME RateInv, NEW r \in Replies, InjectorRaises(r)
  PROVE  RateInv'
<1>1. /\ pc' = [pc EXCEPT ![r] = "done"] /\ timer' = [timer EXCEPT ![r] = 0]
      /\ last' = [last EXCEPT ![Sender[r]] = Cooldown] /\ pc[r] = "inject"
  BY DEF InjectorRaises, Move
<1>2. Sender \in [Replies -> Contacts] /\ Cooldown \in Nat
  BY ReturnPathAssumption
<1>3. RateTypes'
  BY <1>1, <1>2 DEF RateInv, RateTypes, Places
<1>4. \A q \in Replies : InFlight(q)' =>
        /\ q # r /\ pc'[q] = pc[q] /\ timer'[q] = timer[q] /\ Sender[q] # Sender[r]
  BY <1>1 DEF InFlight, RateInv, RateTypes, OneInFlight
<1>5. ClaimOutlasts'
  BY <1>1, <1>2, <1>4 DEF InFlight, RateInv, RateTypes, ClaimOutlasts
<1>6. OneInFlight'
  BY <1>4 DEF RateInv, OneInFlight, InFlight
<1> QED BY <1>3, <1>5, <1>6 DEF RateInv

LEMMA TickStep ==
  ASSUME RateInv, Tick
  PROVE  RateInv'
<1>1. /\ \A r \in Busy : timer[r] > 0
      /\ timer' = [r \in Replies |-> IF timer[r] > 0 THEN timer[r] - 1 ELSE 0]
      /\ last' = [k \in Contacts |-> Least(last[k] + 1, Cooldown)] /\ pc' = pc
  BY DEF Tick
<1>2. /\ Sender \in [Replies -> Contacts] /\ Settle \in Nat /\ InjectMax \in Nat
      /\ Cooldown \in Nat
  BY ReturnPathAssumption
<1>3. RateTypes'
  BY <1>1, <1>2 DEF RateInv, RateTypes, Least
<1>4. ClaimOutlasts'
  <2> SUFFICES ASSUME NEW q \in Replies, InFlight(q)
               PROVE  /\ pc[q] = "settle" => last'[Sender[q]] + timer'[q] <= Settle
                      /\ pc[q] = "inject" => last'[Sender[q]] + timer'[q] <= Settle + InjectMax
    BY <1>1 DEF ClaimOutlasts, InFlight
  <2>1. timer[q] > 0 /\ timer[q] \in Nat /\ timer'[q] = timer[q] - 1
    BY <1>1 DEF Busy, InFlight, RateInv, RateTypes
  <2>2. /\ last[Sender[q]] \in Nat /\ last'[Sender[q]] \in Nat
        /\ last'[Sender[q]] <= last[Sender[q]] + 1
    BY <1>1, <1>2 DEF Least, RateInv, RateTypes
  <2> QED BY <1>2, <2>1, <2>2 DEF RateInv, ClaimOutlasts
<1>5. OneInFlight'
  BY <1>1 DEF RateInv, OneInFlight, InFlight
<1> QED BY <1>3, <1>4, <1>5 DEF RateInv

-----------------------------------------------------------------------------
LEMMA RateStep ==
  ASSUME PromptInjector, RateInv, [Next]_vars
  PROVE  RateInv'
<1>0. InjectMax \in Nat /\ Settle \in Nat
  BY ReturnPathAssumption
<1>1. ASSUME NEW r \in Replies, Step(r) PROVE RateInv'
  <2>1. CASE MaybeTeachFromFloodReply(r)
    <3>1. CASE Teach(r) BY <3>1, TeachStep
    <3>2. CASE CooldownActive(r)
      BY <3>2, OtherStep DEF CooldownActive, Places
    <3> QED BY <2>1, <3>1, <3>2 DEF MaybeTeachFromFloodReply
  <2>2. CASE DispatchTeach(r) BY <2>2, DispatchStep
  <2>3. CASE InjectorRaises(r) BY <2>3, RaiseStep
  <2>4. CASE NoKnownRoute(r) BY <2>4, OtherStep DEF NoKnownRoute, Places
  <2>5. CASE Injected(r) BY <2>5, OtherStep DEF Injected, Places
  <2>7. CASE SendReciprocalPath(r) BY <1>0, <2>7, OtherStep DEF SendReciprocalPath, Places
  <2>8. CASE ReciprocalSent(r) BY <1>0, <2>8, OtherStep DEF ReciprocalSent, Places
  <2>9. CASE ReciprocalFails(r) BY <2>9, OtherStep DEF ReciprocalFails, Places
  <2>10. CASE MaybeReteachBetterCopy(r)
    <3>1. Move(r, "done", 0) \/ Move(r, "reinject", InjectMax)
      BY <2>10 DEF MaybeReteachBetterCopy
    <3>2. UNCHANGED last
      BY <2>10 DEF MaybeReteachBetterCopy
    <3> QED BY <1>0, <3>1, <3>2, OtherStep DEF Places
  <2>11. CASE ReteachSent(r) BY <2>11, OtherStep DEF ReteachSent, Places
  <2>12. CASE ReteachFails(r) BY <2>12, OtherStep DEF ReteachFails, Places
  <2> QED BY <1>1, <2>1, <2>2, <2>3, <2>4, <2>5, <2>7, <2>8, <2>9,
             <2>10, <2>11, <2>12 DEF Step
<1>2. ASSUME NEW r \in Replies, NEW c \in Copies, NoteFloodCopy(r, c) PROVE RateInv'
  BY <1>2 DEF NoteFloodCopy, RateInv, RateTypes, ClaimOutlasts, OneInFlight, InFlight
<1>3. CASE Tick BY <1>3, TickStep
<1>4. CASE UNCHANGED vars
  BY <1>4 DEF vars, RateInv, RateTypes, ClaimOutlasts, OneInFlight, InFlight
<1> QED BY <1>1, <1>2, <1>3, <1>4 DEF Next

(* Two triggers for one contact never both hold a settle window: the claim *)
(* _teach makes before it awaits anything outlasts the teach, as long as   *)
(* settling and sending take less than the cooldown.                       *)
THEOREM OneTeach ==
  ASSUME PromptInjector
  PROVE  Spec => []OneTeachSettling
<1>1. RateInv /\ [Next]_vars => RateInv'
  BY RateStep
<1>2. RateInv => OneTeachSettling
  BY DEF RateInv, OneInFlight, InFlight, OneTeachSettling
<1> QED BY RateInit, <1>1, <1>2, PTL DEF Spec

-----------------------------------------------------------------------------
(* The best copy is taught.  What the table holds of one reply: sets of    *)
(* entries.                                                                *)
Entries == [reply : Replies, copy : Copies, age : Nat]
Ways(hs) == {c \in hs : c.margin >= MinMargin}
Top(c, hs) == \A d \in Ways(hs) : ~Exceeds(Rank(d), Rank(c))

(* No older than it may be in the place its reply's task is in.            *)
Young(age, place, wait, hold) ==
  /\ place = "none" => age <= hold
  /\ place = "settle" => age + wait <= HoldMax + Settle
  /\ place = "recip" => age + wait <= HoldMax + InjectMax
  /\ place = "resettle" => age + wait <= HoldMax + InjectMax + Settle

(* Until its teach is chosen, a reply's entry is there as soon as a route  *)
(* of it has been heard, and is the best of them.                          *)
Waits == {"none", "settle", "recip", "resettle"}
Known(es, place, wait, hold, hs) ==
  place \in Waits =>
    /\ Ways(hs) # {} => es # {}
    /\ \A e \in es : e.copy \in Ways(hs) /\ Top(e.copy, hs) /\ Young(e.age, place, wait, hold)

Timed(place, wait, hold) ==
  /\ wait \in Nat /\ hold \in 0..HoldMax
  /\ place \in {"settle", "resettle"} => wait <= Settle
  /\ place = "recip" => wait <= InjectMax

OneEach(t) == \A i, j \in 1..Len(t) : t[i].reply = t[j].reply => i = j

CopyTypes ==
  /\ pc \in [Replies -> Places] /\ timer \in [Replies -> Nat]
  /\ heard \in [Replies -> SUBSET Copies] /\ held \in [Replies -> 0..HoldMax]
  /\ seed \in [Replies -> Copies \cup {NoCopy}]
  /\ chosen \in [Replies -> Copies \cup {NoCopy}]
  /\ table \in Seq(Entries)

(* The inductive invariant.                                                *)
BestInv ==
  /\ CopyTypes /\ OneEach(table)
  /\ \A r \in Replies :
       /\ heard[r] # {} => seed[r] \in heard[r]
       /\ Timed(pc[r], timer[r], held[r])
       /\ Known(EntriesOf(table, r), pc[r], timer[r], held[r], heard[r])

-----------------------------------------------------------------------------
LEMMA LeastExists ==
  ASSUME NEW S \in SUBSET Nat, S # {}
  PROVE  \E i \in S : \A j \in S : i <= j
<1> DEFINE R == OpToRel(<, Nat)
<1>1. PICK i \in S : \A j \in S : ~(<<j, i>> \in R)
  BY NatLessThanWellFounded, WFMin
<1>2. \A j \in S : ~(j < i)
  BY <1>1 DEF OpToRel
<1> QED BY <1>2

LEMMA CutFront ==
  ASSUME NEW S, NEW s \in Seq(S), NEW n \in 0..Len(s)
  PROVE  /\ SubSeq(s, n + 1, Len(s)) \in Seq(S)
         /\ Len(SubSeq(s, n + 1, Len(s))) = Len(s) - n
         /\ \A i \in 1..(Len(s) - n) : SubSeq(s, n + 1, Len(s))[i] = s[n + i]
<1>1. Len(s) \in Nat /\ n \in Nat /\ n <= Len(s)
  OBVIOUS
<1>2. SubSeq(s, n + 1, Len(s)) \in Seq(S)
  BY <1>1
<1>3. Len(SubSeq(s, n + 1, Len(s))) = Len(s) - n
  BY <1>1
<1>4. \A i \in 1..(Len(s) - n) : SubSeq(s, n + 1, Len(s))[i] = s[n + i]
  BY <1>1
<1> QED BY <1>2, <1>3, <1>4

LEMMA CutOut ==
  ASSUME NEW S, NEW s \in Seq(S), NEW k \in 1..Len(s)
  PROVE  LET r == SubSeq(s, 1, k - 1) \o SubSeq(s, k + 1, Len(s))
         IN  /\ r \in Seq(S) /\ Len(r) = Len(s) - 1
             /\ \A i \in 1..(Len(s) - 1) : r[i] = IF i < k THEN s[i] ELSE s[i + 1]
<1> DEFINE a == SubSeq(s, 1, k - 1)
           b == SubSeq(s, k + 1, Len(s))
           r == a \o b
<1>0. Len(s) \in Nat /\ k \in Nat /\ 1 <= k /\ k <= Len(s)
  OBVIOUS
<1>1. a \in Seq(S) /\ Len(a) = k - 1 /\ \A i \in 1..(k - 1) : a[i] = s[i]
  BY <1>0
<1>2. b \in Seq(S) /\ Len(b) = Len(s) - k /\ \A i \in 1..(Len(s) - k) : b[i] = s[k + i]
  BY <1>0, CutFront
<1> HIDE DEF a, b
<1>3. r \in Seq(S) /\ Len(r) = Len(s) - 1
  <2>1. \A p, q \in Seq(S) : p \o q \in Seq(S) /\ Len(p \o q) = Len(p) + Len(q)
    OBVIOUS
  <2>2. r \in Seq(S) /\ Len(r) = Len(a) + Len(b)
    BY <1>1, <1>2, <2>1
  <2> QED BY <1>0, <1>1, <1>2, <2>2
<1>4. ASSUME NEW i \in 1..(Len(s) - 1) PROVE r[i] = IF i < k THEN s[i] ELSE s[i + 1]
  <2>1. CASE i < k
    BY <1>0, <1>1, <1>2, <2>1
  <2>2. CASE ~(i < k)
    <3>1. i - Len(a) \in 1..(Len(s) - k) /\ k + (i - Len(a)) = i + 1
      BY <1>0, <1>1, <2>2
    <3>2. r[i] = b[i - Len(a)]
      BY <1>0, <1>1, <1>2, <2>2
    <3> QED BY <1>2, <2>2, <3>1, <3>2
  <2> QED BY <2>1, <2>2
<1> QED BY <1>3, <1>4 DEF a, b

LEMMA EntryIn ==
  ASSUME NEW t \in Seq(Entries), NEW i \in 1..Len(t)
  PROVE  t[i] \in Entries
<1>1. \A S : \A s \in Seq(S) : \A j \in 1..Len(s) : s[j] \in S
  OBVIOUS
<1> QED BY <1>1

LEMMA EntriesIn ==
  ASSUME NEW t, NEW r, NEW e
  PROVE  e \in EntriesOf(t, r) <=> \E i \in 1..Len(t) : t[i] = e /\ e.reply = r
BY DEF EntriesOf

LEMMA EntriesTyped ==
  ASSUME NEW t \in Seq(Entries), NEW r, NEW e \in EntriesOf(t, r)
  PROVE  e.copy \in Copies /\ e.age \in Nat
<1>1. e \in Entries
  BY EntryIn, EntriesIn
<1> QED BY <1>1 DEF Entries

(* _prune_copies keeps what has not expired.                               *)
LEMMA PrunedEntries ==
  ASSUME table \in Seq(Entries), OneEach(table)
  PROVE  /\ Pruned \in Seq(Entries) /\ OneEach(Pruned)
         /\ \A q : /\ EntriesOf(Pruned, q) \subseteq EntriesOf(table, q)
                   /\ \A e \in EntriesOf(table, q) : e.age <= Ttl => e \in EntriesOf(Pruned, q)
<1> DEFINE fresh == {i \in 1..Len(table) : table[i].age <= Ttl}
<1>0. Len(table) \in Nat
  OBVIOUS
<1>1. CASE fresh = {}
  <2>1. Pruned = <<>>
    BY <1>1 DEF Pruned
  <2>2. <<>> \in Seq(Entries) /\ Len(<<>>) = 0 /\ 1..0 = {}
    OBVIOUS
  <2>3. OneEach(Pruned) /\ \A q : EntriesOf(Pruned, q) = {}
    BY <2>1, <2>2, EntriesIn DEF OneEach
  <2>4. ASSUME NEW q, NEW e \in EntriesOf(table, q) PROVE ~(e.age <= Ttl)
    BY <1>1, EntriesIn
  <2> QED BY <2>1, <2>2, <2>3, <2>4
<1>2. CASE fresh # {}
  <2> DEFINE k == CHOOSE i \in fresh : \A j \in fresh : i <= j
             rest == SubSeq(table, k, Len(table))
  <2>1. fresh \in SUBSET Nat
    BY <1>0
  <2>2. k \in fresh /\ \A j \in fresh : k <= j
    BY <1>2, <2>1, LeastExists
  <2>3. Pruned = rest
    BY <1>2 DEF Pruned
  <2> HIDE DEF k
  <2>4. k - 1 \in 0..Len(table) /\ (k - 1) + 1 = k
    BY <1>0, <2>2
  <2>5. /\ rest \in Seq(Entries) /\ Len(rest) = Len(table) - (k - 1)
        /\ \A i \in 1..Len(rest) : rest[i] = table[(k - 1) + i]
    BY <2>4, CutFront
  <2>6. \A i \in 1..Len(rest) : (k - 1) + i \in 1..Len(table)
    BY <1>0, <2>4, <2>5
  <2> HIDE DEF rest
  <2>7. OneEach(rest)
    <3> SUFFICES ASSUME NEW i \in 1..Len(rest), NEW j \in 1..Len(rest),
                        rest[i].reply = rest[j].reply
                 PROVE  i = j
      BY DEF OneEach
    <3>1. (k - 1) + i = (k - 1) + j
      BY <2>5, <2>6 DEF OneEach
    <3> QED BY <2>4, <3>1
  <2>8. ASSUME NEW q, NEW e \in EntriesOf(rest, q) PROVE e \in EntriesOf(table, q)
    BY <2>5, <2>6, EntriesIn
  <2>9. ASSUME NEW q, NEW e \in EntriesOf(table, q), e.age <= Ttl
        PROVE  e \in EntriesOf(rest, q)
    <3>1. PICK i \in 1..Len(table) : table[i] = e /\ e.reply = q
      BY EntriesIn
    <3>2. k <= i
      BY <2>2, <2>9, <3>1
    <3>3. i - (k - 1) \in 1..Len(rest) /\ (k - 1) + (i - (k - 1)) = i
      BY <1>0, <2>4, <2>5, <3>2
    <3>4. rest[i - (k - 1)] = e
      BY <2>5, <3>1, <3>3
    <3> QED BY <3>1, <3>3, <3>4, EntriesIn
  <2> QED BY <2>3, <2>5, <2>7, <2>8, <2>9
<1> QED BY <1>1, <1>2

LEMMA WithoutEntries ==
  ASSUME NEW t \in Seq(Entries), OneEach(t), NEW r
  PROVE  /\ Without(t, r) \in Seq(Entries) /\ OneEach(Without(t, r))
         /\ EntriesOf(Without(t, r), r) = {}
         /\ \A q : q # r => EntriesOf(Without(t, r), q) = EntriesOf(t, q)
<1> DEFINE at == {i \in 1..Len(t) : t[i].reply = r}
<1>0. Len(t) \in Nat
  OBVIOUS
<1>1. CASE at = {}
  <2>1. Without(t, r) = t
    BY <1>1 DEF Without
  <2>2. EntriesOf(t, r) = {}
    BY <1>1, EntriesIn
  <2> QED BY <2>1, <2>2
<1>2. CASE at # {}
  <2> DEFINE k == CHOOSE j \in at : TRUE
             rest == SubSeq(t, 1, k - 1) \o SubSeq(t, k + 1, Len(t))
  <2>1. k \in at
    BY <1>2
  <2>2. Without(t, r) = rest
    BY <1>2 DEF Without
  <2> HIDE DEF k
  <2>3. k \in 1..Len(t) /\ t[k].reply = r
    BY <2>1
  <2>4. /\ rest \in Seq(Entries) /\ Len(rest) = Len(t) - 1
        /\ \A i \in 1..(Len(t) - 1) : rest[i] = IF i < k THEN t[i] ELSE t[i + 1]
    BY <2>3, CutOut
  <2> DEFINE p(i) == IF i < k THEN i ELSE i + 1
  <2> HIDE DEF rest
  <2>5. \A i \in 1..Len(rest) : rest[i] = t[p(i)] /\ p(i) \in 1..Len(t) /\ p(i) # k
    BY <1>0, <2>3, <2>4
  <2>6. \A i, j \in 1..Len(rest) : p(i) = p(j) => i = j
    BY <1>0, <2>3, <2>4
  <2>7. ASSUME NEW m \in 1..Len(t), m # k PROVE \E i \in 1..Len(rest) : p(i) = m
    <3>1. CASE m < k
      <4>1. m \in 1..Len(rest) /\ p(m) = m
        BY <1>0, <2>3, <2>4, <3>1
      <4> QED BY <4>1
    <3>2. CASE k < m
      <4>1. m - 1 \in 1..Len(rest) /\ p(m - 1) = m
        BY <1>0, <2>3, <2>4, <3>2
      <4> QED BY <4>1
    <3> QED BY <1>0, <2>3, <2>7, <3>1, <3>2
  <2> HIDE DEF p
  <2>8. OneEach(rest)
    BY <2>5, <2>6 DEF OneEach
  <2>9. EntriesOf(rest, r) = {}
    <3> SUFFICES ASSUME NEW e \in EntriesOf(rest, r) PROVE FALSE
      OBVIOUS
    <3>1. PICK i \in 1..Len(rest) : rest[i] = e /\ e.reply = r
      BY EntriesIn
    <3>2. t[p(i)].reply = r /\ p(i) \in 1..Len(t) /\ p(i) # k
      BY <2>5, <3>1
    <3> QED BY <2>3, <3>2 DEF OneEach
  <2>10. ASSUME NEW q, q # r PROVE EntriesOf(rest, q) = EntriesOf(t, q)
    <3>1. ASSUME NEW e \in EntriesOf(rest, q) PROVE e \in EntriesOf(t, q)
      BY <2>5, EntriesIn
    <3>2. ASSUME NEW e \in EntriesOf(t, q) PROVE e \in EntriesOf(rest, q)
      <4>1. PICK m \in 1..Len(t) : t[m] = e /\ e.reply = q
        BY EntriesIn
      <4>2. m # k
        BY <2>3, <2>10, <4>1
      <4>3. PICK i \in 1..Len(rest) : p(i) = m
        BY <2>7, <4>2
      <4> QED BY <2>5, <4>1, <4>3, EntriesIn
    <3> QED BY <3>1, <3>2
  <2> QED BY <2>2, <2>4, <2>8, <2>9, <2>10
<1> QED BY <1>1, <1>2

(* One entry of a reply: the table never outgrows the replies.             *)
LEMMA TableFits ==
  ASSUME Provisioned, NEW t \in Seq(Entries), OneEach(t)
  PROVE  ~(Len(t) > CacheMax)
<1> DEFINE f == [i \in 1..Len(t) |-> t[i].reply]
<1>1. Len(t) \in Nat /\ CacheMax \in Nat
  BY ReturnPathAssumption
<1>2. \A i \in 1..Len(t) : t[i].reply \in Replies
  BY EntryIn DEF Entries
<1>3. f \in [1..Len(t) -> Replies] /\ \A i, j \in 1..Len(t) : f[i] = f[j] => i = j
  BY <1>2 DEF OneEach
<1> HIDE DEF f
<1>4. f \in Injection(1..Len(t), Replies)
  <2>1. DOMAIN f = 1..Len(t)
    BY <1>3
  <2> QED BY <1>3, <2>1 DEF Injection, IsInjective
<1>5. Cardinality(1..Len(t)) <= Cardinality(Replies)
  BY <1>4, FS_Injection DEF Provisioned
<1>6. Cardinality(1..Len(t)) = Len(t)
  BY <1>1, FS_Interval
<1>7. Cardinality(Replies) \in Nat
  BY FS_CardinalityType DEF Provisioned
<1> QED BY <1>1, <1>5, <1>6, <1>7 DEF Provisioned

LEMMA AppendEntries ==
  ASSUME NEW t \in Seq(Entries), OneEach(t), NEW e \in Entries, EntriesOf(t, e.reply) = {}
  PROVE  /\ Append(t, e) \in Seq(Entries) /\ OneEach(Append(t, e))
         /\ EntriesOf(Append(t, e), e.reply) = {e}
         /\ \A q : q # e.reply => EntriesOf(Append(t, e), q) = EntriesOf(t, q)
<1> DEFINE a == Append(t, e)
           n == Len(t)
<1>1. /\ n \in Nat /\ a \in Seq(Entries) /\ Len(a) = n + 1 /\ a[n + 1] = e
      /\ \A i \in 1..n : a[i] = t[i]
  OBVIOUS
<1>2. \A i \in 1..n : t[i].reply # e.reply
  BY EntriesIn
<1>3. \A i \in 1..Len(a) : i \in 1..n \/ i = n + 1
  BY <1>1
<1>4. n + 1 \in 1..Len(a) /\ \A i \in 1..n : i \in 1..Len(a)
  BY <1>1
<1> HIDE DEF a
<1>5. OneEach(a)
  BY <1>1, <1>2, <1>3 DEF OneEach
<1>6. ASSUME NEW q, NEW x
      PROVE  x \in EntriesOf(a, q) <=> x \in EntriesOf(t, q) \/ (x = e /\ e.reply = q)
  BY <1>1, <1>3, <1>4, EntriesIn
<1>7. EntriesOf(a, e.reply) = {e}
  <2>1. \A x : x \in EntriesOf(a, e.reply) <=> x = e
    BY <1>6
  <2> QED BY <2>1
<1>8. ASSUME NEW q, q # e.reply PROVE EntriesOf(a, q) = EntriesOf(t, q)
  <2>1. \A x : x \in EntriesOf(a, q) <=> x \in EntriesOf(t, q)
    BY <1>6, <1>8
  <2> QED BY <2>1
<1> QED BY <1>1, <1>5, <1>7, <1>8 DEF a

-----------------------------------------------------------------------------
(* Rank is a total preorder of copies.                                     *)
LEMMA RankOrder ==
  ASSUME NEW a \in Copies, NEW b \in Copies, NEW c \in Copies
  PROVE  /\ ~Exceeds(Rank(a), Rank(a))
         /\ Exceeds(Rank(a), Rank(b)) => ~Exceeds(Rank(b), Rank(a))
         /\ ~Exceeds(Rank(a), Rank(b)) /\ ~Exceeds(Rank(b), Rank(c)) =>
              ~Exceeds(Rank(a), Rank(c))
<1>1. \A x \in Copies : x.margin \in Int /\ x.hops \in Nat
  BY ReturnPathAssumption
<1>2. Reliable \in Int
  BY ReturnPathAssumption
<1>3. \A x \in Copies : /\ Rank(x)[1] = (IF x.margin >= Reliable THEN 1 ELSE 0)
                        /\ Rank(x)[2] = (IF x.margin >= Reliable THEN -x.hops ELSE x.margin)
                        /\ Rank(x)[3] = (IF x.margin >= Reliable THEN x.margin ELSE -x.hops)
  BY DEF Rank
<1>4. \A x \in Copies : Rank(x)[1] \in Int /\ Rank(x)[2] \in Int /\ Rank(x)[3] \in Int
  BY <1>1, <1>2, <1>3
<1>5. \A x, y, z \in Int \X Int \X Int :
        /\ ~Exceeds(x, x) /\ (Exceeds(x, y) => ~Exceeds(y, x))
        /\ ~Exceeds(x, y) /\ ~Exceeds(y, z) => ~Exceeds(x, z)
  BY DEF Exceeds
<1>6. \A x \in Copies : Rank(x) \in Int \X Int \X Int
  BY <1>1 DEF Rank
<1> QED BY <1>5, <1>6

(* The best by rank of what is heard is what the module promises.          *)
LEMMA TopIsBest ==
  ASSUME Provisioned, NEW r \in Replies, heard[r] \subseteq Copies, NEW c \in Ways(heard[r]),
         Top(c, heard[r])
  PROVE  IsBest(c, r)
<1>0. /\ \A x \in Copies : x.margin \in Int /\ x.hops \in Nat
      /\ Reliable \in Int /\ MinMargin \in Int /\ MinMargin <= Reliable
  BY ReturnPathAssumption DEF Provisioned
<1>1. c \in Copies /\ \A d \in heard[r] : d \in Copies
  BY DEF Ways
<1>2. CASE ReliableRoutes(r) # {}
  <2>1. ASSUME NEW d \in ReliableRoutes(r) PROVE c.margin >= Reliable /\ c.hops <= d.hops
    <3>1. d \in Ways(heard[r]) /\ d \in Copies /\ d.margin >= Reliable
      BY <1>0, <1>1 DEF ReliableRoutes, Ways
    <3>2. ~Exceeds(Rank(d), Rank(c))
      BY <3>1 DEF Top
    <3>3. Rank(d) = <<1, -d.hops, d.margin>>
      BY <3>1 DEF Rank
    <3>4. CASE c.margin >= Reliable
      BY <1>0, <1>1, <3>1, <3>2, <3>3, <3>4 DEF Rank, Exceeds
    <3>5. CASE ~(c.margin >= Reliable)
      BY <1>0, <1>1, <3>1, <3>2, <3>3, <3>5 DEF Rank, Exceeds
    <3> QED BY <3>4, <3>5
  <2> QED BY <1>2, <2>1 DEF IsBest
<1>3. CASE ReliableRoutes(r) = {}
  <2>1. ASSUME NEW d \in Routes(r) PROVE d.margin <= c.margin
    <3>1. d \in Ways(heard[r]) /\ d \in Copies /\ ~(d.margin >= Reliable)
      BY <1>1, <1>3 DEF ReliableRoutes, Ways, Routes
    <3>2. ~(c.margin >= Reliable)
      BY <1>3 DEF ReliableRoutes, Ways
    <3>3. ~Exceeds(Rank(d), Rank(c))
      BY <3>1 DEF Top
    <3> QED BY <1>0, <1>1, <3>1, <3>2, <3>3 DEF Rank, Exceeds
  <2> QED BY <1>3, <2>1 DEF IsBest
<1> QED BY <1>2, <1>3

LEMMA NoWayIsBest ==
  ASSUME Provisioned, NEW r \in Replies, heard[r] \subseteq Copies, Ways(heard[r]) = {}, NEW c
  PROVE  IsBest(c, r)
<1>1. \A d \in heard[r] : d.margin \in Int
  BY ReturnPathAssumption
<1>2. ReliableRoutes(r) = {} /\ Routes(r) = {}
  BY <1>1, ReturnPathAssumption DEF ReliableRoutes, Routes, Ways, Provisioned
<1> QED BY <1>2 DEF IsBest

-----------------------------------------------------------------------------
(* An entry of a waiting reply has not expired.                            *)
LEMMA YoungLives ==
  ASSUME Provisioned, NEW age \in Nat, NEW place \in Waits, NEW wait, NEW hold,
         Timed(place, wait, hold), Young(age, place, wait, hold)
  PROVE  age <= Ttl
BY ReturnPathAssumption DEF Waits, Timed, Young, Provisioned

LEMMA Newborn ==
  ASSUME NEW place \in Waits, NEW wait, NEW hold, Timed(place, wait, hold)
  PROVE  Young(0, place, wait, hold)
BY ReturnPathAssumption DEF Waits, Timed, Young

(* _record_copy keeps what is known of every reply, and takes in the copy  *)
(* recorded.                                                               *)
LEMMA Records ==
  ASSUME Provisioned, BestInv, NEW r \in Replies, NEW c \in Copies
  PROVE  /\ RecordCopy(r, c) \in Seq(Entries) /\ OneEach(RecordCopy(r, c))
         /\ \A q \in Replies : q # r =>
              Known(EntriesOf(RecordCopy(r, c), q), pc[q], timer[q], held[q], heard[q])
         /\ Known(EntriesOf(RecordCopy(r, c), r), pc[r], timer[r], held[r], heard[r] \cup {c})
<1>0. /\ table \in Seq(Entries) /\ OneEach(table)
      /\ \A q \in Replies : /\ heard[q] \subseteq Copies /\ Timed(pc[q], timer[q], held[q])
                            /\ Known(EntriesOf(table, q), pc[q], timer[q], held[q], heard[q])
  BY DEF BestInv, CopyTypes
<1>1. CASE c.margin < MinMargin
  <2>1. RecordCopy(r, c) = table
    BY <1>1 DEF RecordCopy
  <2>2. Ways(heard[r] \cup {c}) = Ways(heard[r])
    BY <1>1, ReturnPathAssumption DEF Ways
  <2>3. Known(EntriesOf(table, r), pc[r], timer[r], held[r], heard[r] \cup {c})
    BY <1>0, <2>2 DEF Known, Top
  <2> QED BY <1>0, <2>1, <2>3
<1>2. CASE ~(c.margin < MinMargin)
  <2> DEFINE kept == {e \in EntriesOf(Pruned, r) : ~Exceeds(Rank(c), Rank(e.copy))}
             best == IF kept = {} THEN c ELSE (CHOOSE e \in kept : TRUE).copy
             new == [reply |-> r, copy |-> best, age |-> 0]
             rest == Without(Pruned, r)
             with == Append(rest, new)
  <2>1. /\ Pruned \in Seq(Entries) /\ OneEach(Pruned)
        /\ \A q : /\ EntriesOf(Pruned, q) \subseteq EntriesOf(table, q)
                  /\ \A e \in EntriesOf(table, q) : e.age <= Ttl => e \in EntriesOf(Pruned, q)
    BY <1>0, PrunedEntries
  <2>2. /\ rest \in Seq(Entries) /\ OneEach(rest) /\ EntriesOf(rest, r) = {}
        /\ \A q : q # r => EntriesOf(rest, q) = EntriesOf(Pruned, q)
    BY <2>1, WithoutEntries
  <2>3. (best = c /\ kept = {}) \/ \E e \in kept : best = e.copy
    OBVIOUS
  <2>4. \A e \in EntriesOf(Pruned, r) : e.copy \in Copies
    BY <2>1, EntriesTyped
  <2>5. best \in Copies
    BY <2>3, <2>4
  <2> HIDE DEF best
  <2>6. new \in Entries /\ new.reply = r /\ new.copy = best /\ new.age = 0
    BY <2>5 DEF Entries
  <2> HIDE DEF new, rest
  <2>7. /\ with \in Seq(Entries) /\ OneEach(with) /\ EntriesOf(with, r) = {new}
        /\ \A q : q # r => EntriesOf(with, q) = EntriesOf(Pruned, q)
    BY <2>2, <2>6, AppendEntries
  <2>8. RecordCopy(r, c) = with
    <3>1. ~(Len(with) > CacheMax)
      BY <2>7, TableFits
    <3>2. RecordCopy(r, c) = IF Len(with) > CacheMax THEN Tail(with) ELSE with
      BY <1>2 DEF RecordCopy, best, new, rest
    <3> QED BY <3>1, <3>2
  <2> HIDE DEF with
  <2>9. ASSUME NEW q \in Replies, pc[q] \in Waits
        PROVE  EntriesOf(Pruned, q) = EntriesOf(table, q)
    <3>1. ASSUME NEW e \in EntriesOf(table, q) PROVE e \in EntriesOf(Pruned, q)
      <4>1. e.age \in Nat
        BY <1>0, EntriesTyped
      <4>2. Young(e.age, pc[q], timer[q], held[q])
        BY <1>0, <2>9 DEF Known
      <4>3. e.age <= Ttl
        BY <1>0, <2>9, <4>1, <4>2, YoungLives
      <4> QED BY <2>1, <4>3
    <3> QED BY <2>1, <3>1
  <2>10. ASSUME NEW q \in Replies, q # r
         PROVE  Known(EntriesOf(with, q), pc[q], timer[q], held[q], heard[q])
    <3>1. CASE pc[q] \in Waits
      BY <1>0, <2>7, <2>9, <2>10, <3>1
    <3> QED BY <3>1 DEF Known
  <2>11. ASSUME pc[r] \in Waits
         PROVE  /\ best \in Ways(heard[r] \cup {c}) /\ Top(best, heard[r] \cup {c})
                /\ Young(0, pc[r], timer[r], held[r])
    <3>1. Young(0, pc[r], timer[r], held[r])
      BY <1>0, <2>11, Newborn
    <3>2. \A e \in EntriesOf(Pruned, r) : e.copy \in Ways(heard[r]) /\ Top(e.copy, heard[r])
      BY <1>0, <2>9, <2>11 DEF Known
    <3>3. c \in Ways(heard[r] \cup {c})
      BY <1>2, ReturnPathAssumption DEF Ways
    <3>4. \A d \in Ways(heard[r] \cup {c}) : d \in Copies /\ (d = c \/ d \in Ways(heard[r]))
      BY <1>0 DEF Ways
    <3>5. CASE \E e \in kept : best = e.copy
      <4>1. PICK e \in kept : best = e.copy
        BY <3>5
      <4>2. best \in Ways(heard[r]) /\ Top(best, heard[r]) /\ ~Exceeds(Rank(c), Rank(best))
        BY <3>2, <4>1
      <4>3. best \in Ways(heard[r] \cup {c})
        BY <4>2 DEF Ways
      <4>4. Top(best, heard[r] \cup {c})
        BY <3>4, <4>2 DEF Top
      <4> QED BY <3>1, <4>3, <4>4
    <3>6. CASE best = c /\ kept = {}
      <4>1. ASSUME NEW d \in Ways(heard[r]) PROVE ~Exceeds(Rank(d), Rank(c))
        <5>1. EntriesOf(Pruned, r) # {}
          BY <1>0, <2>9, <2>11, <4>1 DEF Known
        <5>2. PICK e \in EntriesOf(Pruned, r) : TRUE
          BY <5>1
        <5>3. e.copy \in Copies /\ d \in Copies /\ Exceeds(Rank(c), Rank(e.copy))
          BY <1>0, <2>4, <3>4, <3>6, <5>2 DEF Ways
        <5>4. ~Exceeds(Rank(d), Rank(e.copy)) /\ ~Exceeds(Rank(e.copy), Rank(c))
          BY <3>2, <5>2, <5>3, RankOrder DEF Top
        <5> QED BY <5>3, <5>4, RankOrder
      <4>2. Top(c, heard[r] \cup {c})
        BY <3>4, <4>1, RankOrder DEF Top
      <4> QED BY <3>1, <3>3, <3>6, <4>2
    <3> QED BY <2>3, <3>5, <3>6
  <2>12. Known(EntriesOf(with, r), pc[r], timer[r], held[r], heard[r] \cup {c})
    BY <2>6, <2>7, <2>11 DEF Known
  <2> QED BY <2>7, <2>8, <2>10, <2>12
<1> QED BY <1>1, <1>2

-----------------------------------------------------------------------------
(* The choice of a teach is right.                                         *)
Taught ==
  \A r \in Replies :
    /\ pc[r] = "settle" /\ pc'[r] = "inject" => IsBest(chosen'[r], r)
    /\ pc[r] = "resettle" /\ pc'[r] = "reinject" => IsBest(chosen'[r], r)
    /\ pc[r] = "resettle" /\ pc'[r] = "done" => IsBest(seed[r], r)

LEMMA BestInit == Init => BestInv
<1> SUFFICES ASSUME Init PROVE BestInv
  OBVIOUS
<1>1. CopyTypes
  BY ReturnPathAssumption DEF Init, CopyTypes, Places
<1>2. Len(table) = 0 /\ 1..0 = {}
  BY DEF Init
<1>3. OneEach(table) /\ \A r : EntriesOf(table, r) = {}
  BY <1>2, EntriesIn DEF OneEach
<1>4. ASSUME NEW r \in Replies
      PROVE  /\ heard[r] = {} /\ Timed(pc[r], timer[r], held[r])
             /\ Known({}, pc[r], timer[r], held[r], {})
  BY ReturnPathAssumption DEF Init, Timed, Known, Ways
<1> QED BY <1>1, <1>3, <1>4 DEF BestInv

(* A step of the task of r, whatever it does to the entry of r.            *)
LEMMA TaskStep ==
  ASSUME BestInv, NEW r \in Replies, NEW place \in Places, NEW wait \in Nat,
         Move(r, place, wait), UNCHANGED <<heard, held, seed>>,
         chosen' \in [Replies -> Copies \cup {NoCopy}],
         table' \in Seq(Entries), OneEach(table'),
         \A q \in Replies : q # r =>
           Known(EntriesOf(table', q), pc[q], timer[q], held[q], heard[q]),
         Timed(place, wait, held[r]),
         Known(EntriesOf(table', r), place, wait, held[r], heard[r])
  PROVE  /\ BestInv' /\ pc'[r] = place
         /\ \A q \in Replies : q # r => pc'[q] = pc[q]
<1>1. /\ pc' = [pc EXCEPT ![r] = place] /\ timer' = [timer EXCEPT ![r] = wait]
      /\ heard' = heard /\ held' = held /\ seed' = seed
  BY DEF Move
<1>2. CopyTypes'
  BY <1>1 DEF BestInv, CopyTypes
<1>3. /\ pc'[r] = place /\ timer'[r] = wait
      /\ \A q \in Replies : q # r => pc'[q] = pc[q] /\ timer'[q] = timer[q]
  BY <1>1 DEF BestInv, CopyTypes
<1>4. ASSUME NEW q \in Replies
      PROVE  /\ heard'[q] # {} => seed'[q] \in heard'[q]
             /\ Timed(pc'[q], timer'[q], held'[q])
             /\ Known(EntriesOf(table', q), pc'[q], timer'[q], held'[q], heard'[q])
  <2>1. CASE q = r
    BY <1>1, <1>3, <2>1 DEF BestInv
  <2>2. CASE q # r
    BY <1>1, <1>3, <2>2 DEF BestInv
  <2> QED BY <2>1, <2>2
<1>5. BestInv'
  BY <1>2, <1>4 DEF BestInv
<1> QED BY <1>3, <1>5

(* A step of the task of r that leaves the table and the choice alone.     *)
LEMMA PlainStep ==
  ASSUME BestInv, NEW r \in Replies, NEW place \in Places, NEW wait \in Nat,
         Move(r, place, wait), UNCHANGED <<heard, held, seed, chosen, table>>,
         pc[r] \notin {"settle", "resettle"},
         Timed(place, wait, held[r]),
         place \in Waits => pc[r] \in Waits,
         \A age \in Nat : Young(age, pc[r], timer[r], held[r]) =>
                          Young(age, place, wait, held[r])
  PROVE  BestInv' /\ Taught
<1>1. /\ chosen' \in [Replies -> Copies \cup {NoCopy}] /\ table' = table
      /\ table \in Seq(Entries) /\ OneEach(table)
      /\ UNCHANGED <<heard, held, seed>>
  BY DEF BestInv, CopyTypes
<1>2. \A q \in Replies : Known(EntriesOf(table, q), pc[q], timer[q], held[q], heard[q])
  BY DEF BestInv
<1>3. \A e \in EntriesOf(table, r) : e.age \in Nat
  BY <1>1, EntriesTyped
<1>4. Known(EntriesOf(table, r), place, wait, held[r], heard[r])
  BY <1>2, <1>3 DEF Known
<1>5. BestInv' /\ pc'[r] = place /\ \A q \in Replies : q # r => pc'[q] = pc[q]
  BY <1>1, <1>2, <1>4, TaskStep
<1>6. Taught
  BY <1>5 DEF Taught
<1> QED BY <1>5, <1>6

(* The steps that leave the table alone.                                   *)
LEMMA QuietTask ==
  ASSUME BestInv, NEW r \in Replies,
         \/ NoKnownRoute(r) \/ Injected(r) \/ InjectorRaises(r) \/ SendReciprocalPath(r)
         \/ ReciprocalSent(r) \/ ReciprocalFails(r) \/ ReteachSent(r) \/ ReteachFails(r)
  PROVE  BestInv' /\ Taught
<1>0. /\ Timed(pc[r], timer[r], held[r]) /\ HoldMax \in Nat /\ InjectMax \in Nat /\ Settle \in Nat
      /\ held[r] \in 0..HoldMax /\ timer[r] \in Nat
  BY ReturnPathAssumption DEF BestInv, CopyTypes
<1>1. CASE Move(r, "done", 0) /\ pc[r] \notin {"settle", "resettle"}
           /\ UNCHANGED <<heard, held, seed, chosen, table>>
  <2>1. /\ "done" \in Places /\ "done" \notin Waits /\ 0 \in Nat
        /\ Timed("done", 0, held[r])
        /\ \A age \in Nat : Young(age, "done", 0, held[r])
    BY <1>0 DEF Places, Waits, Timed, Young
  <2> QED BY <1>1, <2>1, PlainStep
<1>2. CASE SendReciprocalPath(r)
  <2>1. /\ pc[r] = "none" /\ Move(r, "recip", InjectMax)
        /\ UNCHANGED <<heard, held, seed, chosen, table>>
    BY <1>2 DEF SendReciprocalPath
  <2>2. /\ "recip" \in Places /\ pc[r] \in Waits /\ Timed("recip", InjectMax, held[r])
        /\ \A age \in Nat : Young(age, pc[r], timer[r], held[r]) =>
                            Young(age, "recip", InjectMax, held[r])
    BY <1>0, <2>1 DEF Places, Waits, Timed, Young
  <2> QED BY <1>0, <2>1, <2>2, PlainStep
<1>3. CASE ReciprocalSent(r)
  <2>1. /\ pc[r] = "recip" /\ Move(r, "resettle", Settle)
        /\ UNCHANGED <<heard, held, seed, chosen, table>>
    BY <1>3 DEF ReciprocalSent
  <2>2. /\ "resettle" \in Places /\ pc[r] \in Waits /\ Timed("resettle", Settle, held[r])
        /\ \A age \in Nat : Young(age, pc[r], timer[r], held[r]) =>
                            Young(age, "resettle", Settle, held[r])
    BY <1>0, <2>1 DEF Places, Waits, Timed, Young
  <2> QED BY <1>0, <2>1, <2>2, PlainStep
<1> QED
  BY <1>1, <1>2, <1>3 DEF NoKnownRoute, Injected, InjectorRaises, ReciprocalFails, ReteachSent,
                          ReteachFails

LEMMA TeachBegins ==
  ASSUME Provisioned, BestInv, NEW r \in Replies, MaybeTeachFromFloodReply(r)
  PROVE  BestInv' /\ Taught
<1>0. /\ HoldMax \in Nat /\ InjectMax \in Nat /\ Settle \in Nat
      /\ held[r] \in 0..HoldMax /\ seed[r] \in heard[r] /\ heard[r] \subseteq Copies
      /\ chosen \in [Replies -> Copies \cup {NoCopy}]
      /\ pc[r] = "none" /\ UNCHANGED <<heard, held, seed, chosen>>
      /\ table' = RecordCopy(r, seed[r])
  BY ReturnPathAssumption DEF BestInv, CopyTypes, MaybeTeachFromFloodReply
<1>1. heard[r] \cup {seed[r]} = heard[r] /\ seed[r] \in Copies
  BY <1>0
<1>2. /\ table' \in Seq(Entries) /\ OneEach(table')
      /\ \A q \in Replies : q # r =>
           Known(EntriesOf(table', q), pc[q], timer[q], held[q], heard[q])
      /\ Known(EntriesOf(table', r), pc[r], timer[r], held[r], heard[r])
  BY <1>0, <1>1, Records
<1>3. PICK place \in {"settle", "done"}, wait \in {Settle, 0} :
        /\ Move(r, place, wait)
        /\ place = "settle" => wait = Settle
  BY DEF MaybeTeachFromFloodReply, Teach, CooldownActive
<1>4. place \in Places /\ wait \in Nat /\ Timed(place, wait, held[r])
  BY <1>0, <1>3 DEF Places, Timed
<1>5. \A e \in EntriesOf(table', r) : e.age \in Nat
  BY <1>2, EntriesTyped
<1>6. ASSUME NEW age \in Nat, Young(age, "none", timer[r], held[r])
      PROVE  Young(age, "settle", Settle, held[r])
  BY <1>0, <1>6 DEF Young
<1>7. Known(EntriesOf(table', r), place, wait, held[r], heard[r])
  <2>1. CASE place = "done"
    BY <2>1 DEF Known, Waits
  <2>2. CASE place = "settle"
    BY <1>0, <1>2, <1>3, <1>5, <1>6, <2>2 DEF Known, Waits
  <2> QED BY <1>3, <2>1, <2>2
<1>8. BestInv' /\ pc'[r] = place /\ \A q \in Replies : q # r => pc'[q] = pc[q]
  BY <1>0, <1>2, <1>3, <1>4, <1>7, TaskStep
<1>9. Taught
  BY <1>0, <1>8 DEF Taught
<1> QED BY <1>8, <1>9

(* _dispatch_teach and maybe_reteach_better_copy take the entry out.       *)
LEMMA TeachChosen ==
  ASSUME Provisioned, BestInv, NEW r \in Replies,
         DispatchTeach(r) \/ MaybeReteachBetterCopy(r)
  PROVE  BestInv' /\ Taught
<1>0. /\ pc[r] \in Waits /\ held[r] \in 0..HoldMax /\ heard[r] \subseteq Copies
      /\ chosen \in [Replies -> Copies \cup {NoCopy}] /\ seed[r] \in Copies \cup {NoCopy}
      /\ UNCHANGED <<heard, held, seed>> /\ table' = Without(table, r)
      /\ table \in Seq(Entries) /\ OneEach(table)
      /\ Known(EntriesOf(table, r), pc[r], timer[r], held[r], heard[r])
      /\ InjectMax \in Nat /\ HoldMax \in Nat
  BY ReturnPathAssumption DEF BestInv, CopyTypes, DispatchTeach, MaybeReteachBetterCopy, Waits
<1>1. /\ table' \in Seq(Entries) /\ OneEach(table')
      /\ \A q : q # r => EntriesOf(table', q) = EntriesOf(table, q)
  BY <1>0, WithoutEntries
<1>2. \A q \in Replies : q # r =>
        Known(EntriesOf(table', q), pc[q], timer[q], held[q], heard[q])
  BY <1>1 DEF BestInv
<1>3. \A e \in EntriesOf(table, r) : e.copy \in Copies /\ IsBest(e.copy, r)
  <2> SUFFICES ASSUME NEW e \in EntriesOf(table, r) PROVE e.copy \in Copies /\ IsBest(e.copy, r)
    OBVIOUS
  <2>1. e.copy \in Copies
    BY <1>0, EntriesTyped
  <2>2. e.copy \in Ways(heard[r]) /\ Top(e.copy, heard[r])
    BY <1>0 DEF Known
  <2> QED BY <1>0, <2>1, <2>2, TopIsBest
<1>4. EntriesOf(table, r) = {} => IsBest(seed[r], r)
  BY <1>0, NoWayIsBest DEF Known
<1>5. ASSUME NEW place \in {"inject", "reinject", "done"}, NEW wait \in Nat,
             Move(r, place, wait), chosen' \in [Replies -> Copies \cup {NoCopy}]
      PROVE  BestInv' /\ pc'[r] = place /\ \A q \in Replies : q # r => pc'[q] = pc[q]
  <2>1. place \in Places /\ Timed(place, wait, held[r])
    BY <1>0 DEF Places, Timed
  <2>2. Known(EntriesOf(table', r), place, wait, held[r], heard[r])
    BY DEF Known, Waits
  <2> QED BY <1>0, <1>1, <1>2, <1>5, <2>1, <2>2, TaskStep
<1>6. CASE DispatchTeach(r)
  <2> DEFINE best == EntriesOf(table, r)
             c == IF best = {} THEN seed[r] ELSE (CHOOSE e \in best : TRUE).copy
  <2>1. c \in Copies \cup {NoCopy} /\ IsBest(c, r)
    BY <1>0, <1>3, <1>4
  <2>2. /\ pc[r] = "settle" /\ Move(r, "inject", InjectMax)
        /\ chosen' = [chosen EXCEPT ![r] = c]
    BY <1>6 DEF DispatchTeach
  <2> HIDE DEF c
  <2>3. chosen' \in [Replies -> Copies \cup {NoCopy}] /\ chosen'[r] = c
    BY <1>0, <2>1, <2>2
  <2>4. BestInv' /\ pc'[r] = "inject" /\ \A q \in Replies : q # r => pc'[q] = pc[q]
    BY <1>0, <1>5, <2>2, <2>3
  <2>5. Taught
    BY <2>1, <2>2, <2>3, <2>4 DEF Taught
  <2> QED BY <2>4, <2>5
<1>7. CASE MaybeReteachBetterCopy(r)
  <2> DEFINE better == {e \in EntriesOf(table, r) : e.copy # seed[r]}
  <2>0. pc[r] = "resettle"
    BY <1>7 DEF MaybeReteachBetterCopy
  <2>1. CASE better = {}
    <3>1. Move(r, "done", 0) /\ chosen' = chosen
      BY <1>7, <2>1 DEF MaybeReteachBetterCopy
    <3>2. BestInv' /\ pc'[r] = "done" /\ \A q \in Replies : q # r => pc'[q] = pc[q]
      BY <1>0, <1>5, <3>1
    <3>3. IsBest(seed[r], r)
      BY <1>3, <1>4, <2>1
    <3>4. Taught
      BY <2>0, <3>2, <3>3 DEF Taught
    <3> QED BY <3>2, <3>4
  <2>2. CASE better # {}
    <3> DEFINE c == (CHOOSE e \in better : TRUE).copy
    <3>1. c \in Copies /\ IsBest(c, r)
      BY <1>3, <2>2
    <3>2. Move(r, "reinject", InjectMax) /\ chosen' = [chosen EXCEPT ![r] = c]
      BY <1>7, <2>2 DEF MaybeReteachBetterCopy
    <3> HIDE DEF c
    <3>3. chosen' \in [Replies -> Copies \cup {NoCopy}] /\ chosen'[r] = c
      BY <1>0, <3>1, <3>2
    <3>4. BestInv' /\ pc'[r] = "reinject" /\ \A q \in Replies : q # r => pc'[q] = pc[q]
      BY <1>0, <1>5, <3>2, <3>3
    <3>5. Taught
      BY <2>0, <3>1, <3>3, <3>4 DEF Taught
    <3> QED BY <3>4, <3>5
  <2> QED BY <2>1, <2>2
<1> QED BY <1>6, <1>7

LEMMA CopyHeard ==
  ASSUME Provisioned, BestInv, NEW r \in Replies, NEW c \in Copies, NoteFloodCopy(r, c)
  PROVE  BestInv' /\ Taught
<1>0. /\ heard' = [heard EXCEPT ![r] = @ \cup {c}] /\ table' = RecordCopy(r, c)
      /\ seed' = (IF heard[r] = {} THEN [seed EXCEPT ![r] = c] ELSE seed)
      /\ UNCHANGED <<pc, timer, held, chosen>>
  BY DEF NoteFloodCopy
<1>1. CopyTypes
  BY DEF BestInv
<1>2. /\ heard'[r] = heard[r] \cup {c} /\ seed'[r] = (IF heard[r] = {} THEN c ELSE seed[r])
      /\ \A q \in Replies : q # r => heard'[q] = heard[q] /\ seed'[q] = seed[q]
  BY <1>0, <1>1 DEF CopyTypes
<1>3. /\ table' \in Seq(Entries) /\ OneEach(table')
      /\ \A q \in Replies : q # r =>
           Known(EntriesOf(table', q), pc[q], timer[q], held[q], heard[q])
      /\ Known(EntriesOf(table', r), pc[r], timer[r], held[r], heard'[r])
  BY <1>0, <1>2, Records
<1>4. CopyTypes'
  <2>1. heard' \in [Replies -> SUBSET Copies] /\ seed' \in [Replies -> Copies \cup {NoCopy}]
    BY <1>0, <1>1 DEF CopyTypes
  <2> QED BY <1>0, <1>1, <1>3, <2>1 DEF CopyTypes
<1>5. ASSUME NEW q \in Replies
      PROVE  /\ heard'[q] # {} => seed'[q] \in heard'[q]
             /\ Timed(pc'[q], timer'[q], held'[q])
             /\ Known(EntriesOf(table', q), pc'[q], timer'[q], held'[q], heard'[q])
  <2>1. CASE q = r
    BY <1>0, <1>2, <1>3, <2>1 DEF BestInv
  <2>2. CASE q # r
    BY <1>0, <1>2, <1>3, <2>2 DEF BestInv
  <2> QED BY <2>1, <2>2
<1>6. BestInv'
  BY <1>3, <1>4, <1>5 DEF BestInv
<1>7. Taught
  BY <1>0 DEF Taught
<1> QED BY <1>6, <1>7

(* Time ages every entry alike, and no task past what is due to it.        *)
LEMMA TimePasses ==
  ASSUME BestInv, Tick
  PROVE  BestInv' /\ Taught
<1> DEFINE Aged(e) == [e EXCEPT !.age = Least(@ + 1, Ttl + 1)]
<1>0. /\ table' = [i \in 1..Len(table) |-> Aged(table[i])]
      /\ timer' = [q \in Replies |-> IF timer[q] > 0 THEN timer[q] - 1 ELSE 0]
      /\ held' = [q \in Replies |-> IF pc[q] = "none" /\ heard[q] # {}
                                    THEN held[q] + 1 ELSE held[q]]
      /\ UNCHANGED <<pc, heard, seed, chosen>>
  BY DEF Tick
<1>1. /\ CopyTypes /\ Len(table) \in Nat /\ OneEach(table) /\ Ttl \in Nat
      /\ HoldMax \in Nat /\ Settle \in Nat /\ InjectMax \in Nat
  BY ReturnPathAssumption DEF BestInv, CopyTypes
<1>2. \A e \in Entries : /\ Aged(e) \in Entries /\ Aged(e).reply = e.reply
                         /\ Aged(e).copy = e.copy /\ Aged(e).age <= e.age + 1
  BY <1>1 DEF Entries, Least
<1>3. \A i \in 1..Len(table) : table[i] \in Entries
  BY <1>1, EntryIn DEF CopyTypes
<1> HIDE DEF Aged
<1>4. /\ table' \in Seq(Entries) /\ Len(table') = Len(table)
      /\ \A i \in 1..Len(table) : table'[i] = Aged(table[i])
  <2>1. \A n \in Nat : \A g \in [1..n -> Entries] : g \in Seq(Entries) /\ Len(g) = n
    OBVIOUS
  <2>2. table' \in [1..Len(table) -> Entries]
    BY <1>0, <1>2, <1>3
  <2> QED BY <1>0, <1>1, <2>1, <2>2
<1>5. OneEach(table')
  BY <1>1, <1>2, <1>3, <1>4 DEF OneEach
<1>6. ASSUME NEW q \in Replies, NEW x \in EntriesOf(table', q)
      PROVE  \E e \in EntriesOf(table, q) : x.copy = e.copy /\ x.age <= e.age + 1
                                            /\ x.age \in Nat /\ e.age \in Nat
  <2>1. PICK i \in 1..Len(table) : table'[i] = x /\ x.reply = q
    BY <1>4, EntriesIn
  <2>2. x = Aged(table[i]) /\ table[i] \in Entries /\ x \in Entries
    BY <1>2, <1>3, <1>4, <2>1
  <2>3. table[i] \in EntriesOf(table, q)
    BY <1>2, <2>1, <2>2, EntriesIn
  <2>4. x.age \in Nat /\ table[i].age \in Nat
    BY <2>2 DEF Entries
  <2> QED BY <1>2, <2>2, <2>3, <2>4
<1>7. ASSUME NEW q \in Replies, EntriesOf(table, q) # {} PROVE EntriesOf(table', q) # {}
  <2>1. PICK i \in 1..Len(table) : table[i].reply = q
    BY <1>7, EntriesIn
  <2>2. table'[i].reply = q /\ i \in 1..Len(table')
    BY <1>2, <1>3, <1>4, <2>1
  <2> QED BY <2>2, EntriesIn
<1>8. ASSUME NEW q \in Replies
      PROVE  /\ Timed(pc[q], timer'[q], held'[q]) /\ held'[q] \in 0..HoldMax
             /\ timer'[q] \in Nat
             /\ \A a, b \in Nat :
                  b <= a + 1 /\ pc[q] \in Waits /\ heard[q] # {}
                    /\ Young(a, pc[q], timer[q], held[q]) =>
                  Young(b, pc[q], timer'[q], held'[q])
  <2>1. /\ Timed(pc[q], timer[q], held[q]) /\ timer[q] \in Nat /\ held[q] \in 0..HoldMax
        /\ timer'[q] = (IF timer[q] > 0 THEN timer[q] - 1 ELSE 0)
        /\ held'[q] = (IF pc[q] = "none" /\ heard[q] # {} THEN held[q] + 1 ELSE held[q])
    BY <1>0 DEF BestInv, CopyTypes
  <2>2. /\ pc[q] \notin {"none", "done"} => timer[q] > 0
        /\ pc[q] = "none" /\ heard[q] # {} => held[q] < HoldMax
    BY DEF Tick, Busy
  <2>3. held'[q] \in 0..HoldMax /\ timer'[q] \in Nat /\ timer'[q] <= timer[q]
    BY <1>1, <2>1, <2>2
  <2>4. Timed(pc[q], timer'[q], held'[q])
    BY <1>1, <2>1, <2>3 DEF Timed
  <2>5. ASSUME NEW a \in Nat, NEW b \in Nat, b <= a + 1, pc[q] \in Waits, heard[q] # {},
               Young(a, pc[q], timer[q], held[q])
        PROVE  Young(b, pc[q], timer'[q], held'[q])
    <3>1. CASE pc[q] = "none"
      BY <1>1, <2>1, <2>5, <3>1 DEF Young
    <3>2. CASE pc[q] # "none"
      <4>1. timer'[q] = timer[q] - 1 /\ timer[q] > 0
        BY <2>1, <2>2, <2>5, <3>2 DEF Waits
      <4> QED BY <1>1, <2>1, <2>5, <3>2, <4>1 DEF Young
    <3> QED BY <3>1, <3>2
  <2> QED BY <2>3, <2>4, <2>5
<1>9. CopyTypes'
  <2>1. timer' \in [Replies -> Nat] /\ held' \in [Replies -> 0..HoldMax]
    BY <1>0, <1>8
  <2> QED BY <1>0, <1>1, <1>4, <2>1 DEF CopyTypes
<1>10. ASSUME NEW q \in Replies
       PROVE  Known(EntriesOf(table', q), pc[q], timer'[q], held'[q], heard[q])
  <2> SUFFICES ASSUME pc[q] \in Waits
               PROVE  /\ Ways(heard[q]) # {} => EntriesOf(table', q) # {}
                      /\ \A x \in EntriesOf(table', q) :
                           /\ x.copy \in Ways(heard[q]) /\ Top(x.copy, heard[q])
                           /\ Young(x.age, pc[q], timer'[q], held'[q])
    BY DEF Known
  <2>1. /\ Ways(heard[q]) # {} => EntriesOf(table, q) # {}
        /\ \A e \in EntriesOf(table, q) :
             /\ e.copy \in Ways(heard[q]) /\ Top(e.copy, heard[q])
             /\ Young(e.age, pc[q], timer[q], held[q])
    BY DEF BestInv, Known
  <2>2. ASSUME NEW x \in EntriesOf(table', q)
        PROVE  /\ x.copy \in Ways(heard[q]) /\ Top(x.copy, heard[q])
               /\ Young(x.age, pc[q], timer'[q], held'[q])
    <3>1. PICK e \in EntriesOf(table, q) : x.copy = e.copy /\ x.age <= e.age + 1
                                           /\ x.age \in Nat /\ e.age \in Nat
      BY <1>6
    <3>2. heard[q] # {}
      BY <2>1, <3>1 DEF Ways
    <3> QED BY <1>8, <2>1, <3>1, <3>2
  <2> QED BY <1>7, <2>1, <2>2
<1>11. BestInv'
  BY <1>0, <1>5, <1>8, <1>9, <1>10 DEF BestInv
<1>12. Taught
  BY <1>0 DEF Taught
<1> QED BY <1>11, <1>12

LEMMA BestStep ==
  ASSUME Provisioned, BestInv, [Next]_vars
  PROVE  BestInv' /\ Taught
<1>1. ASSUME NEW r \in Replies, Step(r) PROVE BestInv' /\ Taught
  BY <1>1, QuietTask, TeachBegins, TeachChosen DEF Step
<1>2. ASSUME NEW r \in Replies, NEW c \in Copies, NoteFloodCopy(r, c)
      PROVE  BestInv' /\ Taught
  BY <1>2, CopyHeard
<1>3. CASE Tick
  BY <1>3, TimePasses
<1>4. CASE UNCHANGED vars
  BY <1>4 DEF vars, BestInv, CopyTypes, Taught
<1> QED BY <1>1, <1>2, <1>3, <1>4 DEF Next

(* For any replies, copies and delays: the copy that a teach embeds is the *)
(* best of those heard when it is chosen, and a reciprocal that is left    *)
(* uncorrected had taught the best; as long as the table has room for the  *)
(* replies and keeps a copy for as long as a reply can take                *)
(* (_record_copy, _dispatch_teach, maybe_reteach_better_copy).             *)
THEOREM TeachesBest ==
  ASSUME Provisioned
  PROVE  Spec => BestCopyTaught
<1>1. BestInv /\ [Next]_vars => BestInv'
  BY BestStep
<1>2. BestInv /\ [Next]_vars =>
        \A r \in Replies :
          /\ pc[r] = "settle" /\ pc'[r] = "inject" => IsBest(chosen'[r], r)
          /\ pc[r] = "resettle" /\ pc'[r] = "reinject" => IsBest(chosen'[r], r)
          /\ pc[r] = "resettle" /\ pc'[r] = "done" => IsBest(seed[r], r)
  BY BestStep DEF Taught
<1> QED BY <1>1, <1>2, BestInit, PTL DEF Spec, BestCopyTaught

-----------------------------------------------------------------------------
(* The fields that the scope and the signing buffer depend on.             *)
SettingsTypes ==
  /\ prefs \in [freq : Freq, power : Power, repeat : BOOLEAN, def : Key \cup {Zero, None},
                mode : [Device!Mirrored -> Mode]]
  /\ scope \in [key : Key \cup {None}, unscoped : BOOLEAN]
  /\ disp \in [key : Key \cup {None}, def : Key \cup {None}, unscoped : BOOLEAN,
               repeat : BOOLEAN, mode : [Device!Mirrored -> Mode]]
  /\ scopeAsked \in Key \cup {"default", "unscoped"}
  /\ sign \in Seq(Byte) \cup {None} /\ acked \in Seq(Byte)

(* The companion's two fields tell what was asked.                         *)
ScopeKept ==
  /\ scope.unscoped <=> scopeAsked = "unscoped"
  /\ ~scope.unscoped => scope.key = IF scopeAsked \in Key THEN scopeAsked ELSE None

(* A dispatcher that start() has seen holds the same, except that          *)
(* set_flood_unscoped clears its override.                                 *)
ScopeMirrored ==
  Device!Owned /\ seeded => /\ disp.unscoped = scope.unscoped
                            /\ ~scope.unscoped => disp.key = scope.key
                            /\ disp.def = Device!DefaultScopeKey(prefs)

SettingsInv == SettingsTypes /\ ScopeKept /\ ScopeMirrored /\ Device!SignsWhatWasAcked

LEMMA SettingsInit ==
  ASSUME Device!KeysAssumption, Device!ValuesAssumption, Device!Init PROVE SettingsInv
BY DEF Device!KeysAssumption, Device!ValuesAssumption, Device!Init, SettingsInv, SettingsTypes,
    ScopeKept,
       ScopeMirrored, Device!SignsWhatWasAcked, Device!FreshDispatcher

(* The invariant gives the property.                                       *)
LEMMA ScopeFollows ==
  ASSUME Device!KeysAssumption, SettingsInv PROVE Device!ScopeAsAsked
<1> USE DEF SettingsInv, SettingsTypes, ScopeKept, ScopeMirrored, Device!ApplyFloodScope,
            Device!DispatcherFloodScope
<1>1. CASE scopeAsked = "unscoped"
  BY <1>1 DEF Device!ScopeAsAsked
<1>2. CASE scopeAsked = "default"
  BY <1>2 DEF Device!ScopeAsAsked, Device!KeysAssumption
<1>3. CASE scopeAsked \in Key
  BY <1>3 DEF Device!ScopeAsAsked, Device!KeysAssumption
<1> QED
  BY <1>1, <1>2, <1>3

LEMMA FloodScopeSteps ==
  ASSUME Device!KeysAssumption, SettingsInv, UNCHANGED <<owner, seeded, prefs, Device!signVars>>,
         Device!SetFloodUnscoped \/ \E k \in Key \cup {Zero, None} : Device!SetFloodScope(k)
  PROVE  SettingsInv'
<1> USE DEF SettingsInv, SettingsTypes, ScopeKept, ScopeMirrored, Device!SignsWhatWasAcked,
      Device!signVars,
            Device!Owned, Device!DefaultScopeKey
<1>1. CASE Device!SetFloodUnscoped
  BY <1>1 DEF Device!SetFloodUnscoped
<1>2. ASSUME NEW k \in Key \cup {Zero, None}, Device!SetFloodScope(k) PROVE SettingsInv'
  <2>1. /\ scope' = [key |-> IF k \in Key THEN k ELSE None, unscoped |-> FALSE]
        /\ scopeAsked' = IF k \in Key THEN k ELSE "default"
        /\ disp' = IF Device!Owned THEN [disp EXCEPT !.key = scope'.key, !.unscoped = FALSE] ELSE disp
    BY <1>2 DEF Device!SetFloodScope
  <2> QED
    BY <1>2, <2>1 DEF Device!KeysAssumption
<1> QED
  BY <1>1, <1>2

LEMMA DefaultScopeSteps ==
  ASSUME Device!KeysAssumption, SettingsInv, UNCHANGED <<owner, seeded, Device!scopeVars, Device!signVars>>,
         NEW k \in Key \cup {Zero, None}, Device!SetDefaultFloodScope(k)
  PROVE  SettingsInv'
BY DEF Device!KeysAssumption, SettingsInv, SettingsTypes, ScopeKept, ScopeMirrored,
       Device!SignsWhatWasAcked, Device!signVars, Device!scopeVars, Device!Owned,
           Device!DefaultScopeKey, Device!SetDefaultFloodScope

(* Steps that change neither the scope nor the default nor what start()    *)
(* mirrored of them.                                                       *)
LEMMA OtherSettings ==
  ASSUME SettingsInv, UNCHANGED <<owner, seeded, Device!scopeVars>>, SettingsTypes', Device!SignsWhatWasAcked',
         prefs'.def = prefs.def, disp'.key = disp.key, disp'.def = disp.def,
         disp'.unscoped = disp.unscoped
  PROVE  SettingsInv'
BY DEF SettingsInv, ScopeKept, ScopeMirrored, Device!scopeVars, Device!Owned, Device!DefaultScopeKey

LEMMA SettingsStep ==
  ASSUME Device!KeysAssumption, Device!ValuesAssumption, SettingsInv, [Device!Next]_Device!vars PROVE SettingsInv'
<1> USE DEF Device!KeysAssumption
<1>0. CASE UNCHANGED <<owner, seeded, Device!scopeVars, prefs, disp, Device!signVars>>
  BY <1>0, OtherSettings
    DEF SettingsInv, SettingsTypes, Device!SignsWhatWasAcked, Device!scopeVars, Device!signVars
<1>1. CASE Device!CmdSetFloodScope \/ Device!SetFloodRegion
  BY <1>0, <1>1, FloodScopeSteps
    DEF Device!CmdSetFloodScope, Device!SetFloodRegion, Device!Refuse, Device!nodeVars
<1>2. CASE Device!CmdSetDefaultFloodScope
  BY <1>0, <1>2, DefaultScopeSteps
    DEF Device!CmdSetDefaultFloodScope, Device!Refuse, Device!nodeVars
<1>3. CASE Device!CmdSetRadioParams
  <2>1. ASSUME NEW f \in Freq, NEW repeat \in BOOLEAN, UNCHANGED <<Device!scopeVars, Device!signVars, Device!nodeVars>>,
               prefs' = Device!SetClientRepeat(Device!SetRadioParams(prefs, f), repeat),
               disp' = [disp EXCEPT !.repeat = repeat]
        PROVE  SettingsInv'
    BY <2>1, OtherSettings
    DEF SettingsInv, SettingsTypes, Device!SignsWhatWasAcked, Device!scopeVars, Device!signVars,
        Device!nodeVars,
        Device!SetClientRepeat, Device!SetRadioParams
  <2> QED
    BY <1>0, <1>3, <2>1 DEF Device!CmdSetRadioParams, Device!Refuse, Device!nodeVars
<1>4. CASE Device!CmdSetTxPower
  <2>1. ASSUME NEW p \in Power, UNCHANGED <<Device!scopeVars, Device!signVars, Device!nodeVars, disp>>,
               prefs' = [prefs EXCEPT !.power = p]
        PROVE  SettingsInv'
    BY <2>1, OtherSettings
    DEF SettingsInv, SettingsTypes, Device!SignsWhatWasAcked, Device!scopeVars, Device!signVars,
        Device!nodeVars
  <2> QED
    BY <1>0, <1>4, <2>1 DEF Device!CmdSetTxPower, Device!Refuse, Device!nodeVars
<1>5. ASSUME NEW m \in Device!Mirrored, Device!Set(m) PROVE SettingsInv'
  <2>1. PICK v \in Mode : Device!SetMode(m, v)
    BY <1>5 DEF Device!Set
  <2>2. /\ prefs' = [prefs EXCEPT !.mode[m] = v]
        /\ disp' = [disp EXCEPT !.mode[m] = v] \/ disp' = disp
    BY <2>1 DEF Device!SetMode
  <2>3. prefs.mode \in [Device!Mirrored -> Mode] /\ disp.mode \in [Device!Mirrored -> Mode]
    BY DEF SettingsInv, SettingsTypes
  <2>4. /\ [prefs.mode EXCEPT ![m] = v] \in [Device!Mirrored -> Mode]
        /\ [disp.mode EXCEPT ![m] = v] \in [Device!Mirrored -> Mode]
    BY <2>3
  <2>5. SettingsTypes' /\ UNCHANGED <<owner, seeded, Device!scopeVars, Device!signVars>>
    BY <1>5, <2>2, <2>4 DEF Device!Set, SettingsInv, SettingsTypes, Device!scopeVars,
        Device!signVars, Device!nodeVars
  <2>6. /\ prefs'.def = prefs.def /\ disp'.key = disp.key /\ disp'.def = disp.def
        /\ disp'.unscoped = disp.unscoped
    BY <2>2 DEF SettingsInv, SettingsTypes
  <2> QED
    BY <2>5, <2>6, OtherSettings DEF SettingsInv, Device!SignsWhatWasAcked, Device!signVars
<1>6. CASE Device!CmdSignStart \/ Device!CmdSignData \/ Device!CmdSignFinish
  <2>1. CASE Device!CmdSignStart
    BY <2>1, OtherSettings
      DEF Device!CmdSignStart, SettingsInv, SettingsTypes, Device!SignsWhatWasAcked,
       Device!scopeVars, Device!nodeVars, Device!ValuesAssumption
  <2>2. ASSUME NEW c \in Chunk, sign # None, Len(sign) + Len(c) <= MaxSignDataSize,
               sign' = sign \o c, acked' = acked \o c,
               UNCHANGED <<prefs, Device!scopeVars, disp, Device!nodeVars>>
        PROVE  SettingsInv'
    <3>1. sign \in Seq(Byte) /\ c \in Seq(Byte) /\ acked = sign
      BY <2>2 DEF SettingsInv, SettingsTypes, Device!SignsWhatWasAcked, Device!ValuesAssumption
    <3>2. sign' \in Seq(Byte) /\ acked' = sign' /\ Len(sign') <= MaxSignDataSize
      BY <2>2, <3>1
    <3> QED
      BY <2>2, <3>2, OtherSettings
      DEF SettingsInv, SettingsTypes, Device!SignsWhatWasAcked, Device!scopeVars, Device!nodeVars
  <2>3. CASE sign' = None /\ acked' = <<>> /\ UNCHANGED <<prefs, Device!scopeVars, disp, Device!nodeVars>>
    BY <2>3, OtherSettings
    DEF SettingsInv, SettingsTypes, Device!SignsWhatWasAcked, Device!scopeVars, Device!nodeVars
  <2> QED
    BY <1>0, <1>6, <2>1, <2>2, <2>3
      DEF Device!CmdSignData, Device!CmdSignFinish, Device!Refuse, Device!nodeVars
<1>7. CASE Device!Start
  <2>1. CASE Device!Owned
    <3>1. disp' = [key |-> scope.key, def |-> Device!DefaultScopeKey(prefs),
                   unscoped |-> scope.unscoped, repeat |-> prefs.repeat, mode |-> prefs.mode]
      BY <1>7, <2>1 DEF Device!Start
    <3> QED
      BY <1>7, <3>1 DEF Device!Start, SettingsInv, SettingsTypes, ScopeKept, ScopeMirrored,
         Device!SignsWhatWasAcked, Device!scopeVars, Device!signVars, Device!DefaultScopeKey
  <2>2. CASE ~Device!Owned
    <3>1. disp' = [disp EXCEPT !.mode["multi"] = prefs.mode["multi"]]
      BY <1>7, <2>2 DEF Device!Start
    <3>2. disp' \in [key : Key \cup {None}, def : Key \cup {None}, unscoped : BOOLEAN,
                     repeat : BOOLEAN, mode : [Device!Mirrored -> Mode]]
      BY <3>1 DEF SettingsInv, SettingsTypes, Device!Mirrored
    <3> QED
      BY <1>7, <2>2, <3>2 DEF Device!Start, SettingsInv, SettingsTypes, ScopeKept, ScopeMirrored,
         Device!SignsWhatWasAcked, Device!scopeVars, Device!signVars, Device!Owned
  <2> QED
    BY <2>1, <2>2
<1>8. CASE Device!ImportPrivateKey
  <2>1. Device!FreshDispatcher \in [key : Key \cup {None}, def : Key \cup {None}, unscoped : BOOLEAN,
                                    repeat : BOOLEAN, mode : [Device!Mirrored -> Mode]]
    BY DEF Device!FreshDispatcher, Device!ValuesAssumption
  <2> QED
    BY <1>8, <2>1
    DEF Device!ImportPrivateKey, SettingsInv, SettingsTypes, ScopeKept, ScopeMirrored,
        Device!SignsWhatWasAcked, Device!scopeVars, Device!signVars, Device!Owned,
            Device!DefaultScopeKey
<1>9. CASE Device!CmdSetPathHashMode \/ Device!CmdSetTuningParams \/ Device!CmdSetOtherParams
  BY <1>0, <1>5, <1>9
  DEF Device!CmdSetPathHashMode, Device!CmdSetTuningParams, Device!CmdSetOtherParams,
      Device!Refuse, Device!nodeVars, Device!Mirrored
<1>10. CASE Device!CmdSetDeviceTime \/ Device!Tick \/ Device!Stop \/ UNCHANGED Device!vars
  BY <1>0, <1>10
  DEF Device!CmdSetDeviceTime, Device!Tick, Device!Stop, Device!Refuse, Device!nodeVars,
      Device!vars, Device!scopeVars, Device!signVars
<1>11. CASE Device!Refuse \/ Device!Report \/ Device!Unread
  BY <1>0, <1>11 DEF Device!Refuse, Device!Report, Device!Unread, Device!nodeVars
<1> QED
  BY <1>1, <1>2, <1>3, <1>4, <1>6, <1>7, <1>8, <1>9, <1>10, <1>11
  DEF Device!Next, Device!Command, Device!CmdSetAdvertName, Device!CmdSetAdvertLatlon,
      Device!CmdSetCustomVar, Device!CmdAppStart,
      Device!CmdDeviceQuery, Device!CmdGetBattAndStorage, Device!CmdGetStats,
          Device!CmdGetDefaultFloodScope,
      Device!CmdGetDeviceTime, Device!CmdExportPrivateKey, Device!CmdImportPrivateKey,
          Device!CmdGetTuningParams,
      Device!CmdGetCustomVars, Device!CmdGetAutoaddConfig, Device!CmdGetAllowedRepeatFreq

LEMMA SettingsInvariant == Device!Spec => []SettingsInv
<1>1. Device!Init => SettingsInv
  BY DeviceGiven, SettingsInit
<1>2. SettingsInv /\ [Device!Next]_Device!vars => SettingsInv'
  BY DeviceGiven, SettingsStep
<1> QED BY <1>1, <1>2, PTL DEF Device!Spec

(* Whatever keys are set, cleared and overridden, by an application or at  *)
(* a start of the companion: a flood carries the scope that was last asked *)
(* for, since the dispatcher's copy is written with the companion's own.   *)
THEOREM ScopeIsAsAsked == Device!Spec => []ScopeAsAsked
<1>1. SettingsInv => ScopeAsAsked
  BY DeviceGiven, ScopeFollows DEF ScopeAsAsked
<1> QED BY <1>1, SettingsInvariant, PTL

(* The bytes to be signed are exactly the chunks that were acknowledged    *)
(* since the signing began, for chunks and a limit of any size.            *)
THEOREM SignedAsAcked == Device!Spec => []SignsWhatWasAcked
<1>1. SettingsInv => SignsWhatWasAcked
  BY DEF SettingsInv, SignsWhatWasAcked
<1> QED BY <1>1, SettingsInvariant, PTL

-----------------------------------------------------------------------------
Op == {"simple", "login", "status", "telemetry", "binary", "discovery"}
Place == [op : Clients!Idle \cup Op, tag : Tag \cup {None}, sent : BOOLEAN]

QueueTypes ==
  /\ slot \in Client \cup {None} /\ doing \in [Client -> Place]
  /\ asked \in [Client -> Nat] /\ out \in [Client -> Seq(Client \X Nat)]

(* Before it connects a client has asked and been told nothing; whoever    *)
(* holds the slot has connected, and has asked for what it waits for.      *)
Arrivals ==
  \A c \in Client :
    /\ doing[c].op = "new" => asked[c] = 0 /\ out[c] = <<>> /\ slot # c
    /\ Clients!Suspended(c) => asked[c] > 0

QueueInv == QueueTypes /\ Arrivals /\ Clients!OneAnswerEach

(* No tag of the host's is in a table of the frame server's.               *)
HostApart ==
  /\ callbacks \in [Clients!Tags -> {"host", "noop", None}]
  /\ \A t \in HostTag : t \notin own /\ t \notin disc /\ t \notin ctlOwn

TableInv == HostApart /\ Clients!HostLeftAlone

queueVars == <<slot, doing, asked, out>>

-----------------------------------------------------------------------------
LEMMA NoAnswers ==
  ASSUME NEW c PROVE Clients!AnswersInOrder(<<>>, c, 0)
BY DEF Clients!AnswersInOrder

LEMMA OwnAnswer ==
  ASSUME NEW c \in Client, NEW s \in Seq(Client \X Nat), NEW n \in Nat,
         Clients!AnswersInOrder(s, c, n)
  PROVE  Clients!AnswersInOrder(Append(s, <<c, n + 1>>), c, n + 1)
<1> DEFINE s2 == Append(s, <<c, n + 1>>)
           mine == {i \in 1..Len(s) : s[i][1] = c}
           mine2 == {i \in 1..Len(s2) : s2[i][1] = c}
<1>1. /\ Len(s2) = Len(s) + 1 /\ s2[Len(s) + 1] = <<c, n + 1>>
      /\ \A i \in 1..Len(s) : s2[i] = s[i]
      /\ Len(s) \in Nat
  OBVIOUS
<1>2. mine2 = mine \cup {Len(s) + 1}
  BY <1>1
<1>3. {s[i][2] : i \in mine} = 1..n /\ \A i, j \in mine : i < j => s[i][2] < s[j][2]
  BY DEF Clients!AnswersInOrder
<1>4. {s2[i][2] : i \in mine2} = 1..(n + 1)
  <2>1. \A i \in mine : s2[i][2] \in 1..n
    BY <1>1, <1>3
  <2>2. \A k \in 1..n : \E i \in mine : s2[i][2] = k
    BY <1>1, <1>3
  <2>3. s2[Len(s) + 1][2] = n + 1
    BY <1>1
  <2>4. 1..(n + 1) = (1..n) \cup {n + 1}
    OBVIOUS
  <2> HIDE DEF s2, mine, mine2
  <2> QED
    BY <1>2, <2>1, <2>2, <2>3, <2>4
<1>5. \A i, j \in mine2 : i < j => s2[i][2] < s2[j][2]
  <2>1. \A i \in mine : i \in 1..Len(s) /\ s2[i][2] \in 1..n /\ s2[i] = s[i]
    BY <1>1, <1>3
  <2>2. s2[Len(s) + 1][2] = n + 1
    BY <1>1
  <2>3. SUFFICES ASSUME NEW i \in mine2, NEW j \in mine2, i < j
                 PROVE  s2[i][2] < s2[j][2]
    OBVIOUS
  <2>4. i \in mine
    BY <1>1, <1>2, <2>1, <2>3
  <2>5. CASE j \in mine
    BY <1>3, <2>1, <2>3, <2>4, <2>5
  <2>6. CASE j = Len(s) + 1
    BY <2>1, <2>2, <2>4, <2>6
  <2> QED
    BY <1>2, <2>5, <2>6
<1> QED
  BY <1>4, <1>5 DEF Clients!AnswersInOrder

LEMMA OthersAnswer ==
  ASSUME NEW c \in Client, NEW d \in Client, d # c, NEW s \in Seq(Client \X Nat),
         NEW n \in Nat, NEW m \in Nat, Clients!AnswersInOrder(s, c, n)
  PROVE  Clients!AnswersInOrder(Append(s, <<d, m>>), c, n)
<1> DEFINE s2 == Append(s, <<d, m>>)
           mine == {i \in 1..Len(s) : s[i][1] = c}
           mine2 == {i \in 1..Len(s2) : s2[i][1] = c}
<1>1. /\ Len(s2) = Len(s) + 1 /\ s2[Len(s) + 1] = <<d, m>>
      /\ \A i \in 1..Len(s) : s2[i] = s[i]
      /\ Len(s) \in Nat
  OBVIOUS
<1>2. mine2 = mine /\ \A i \in mine : s2[i] = s[i]
  BY <1>1
<1>3. {s[i][2] : i \in mine} = 1..n /\ \A i, j \in mine : i < j => s[i][2] < s[j][2]
  BY DEF Clients!AnswersInOrder
<1>4. {s2[i][2] : i \in mine2} = 1..n /\ \A i, j \in mine2 : i < j => s2[i][2] < s2[j][2]
  <2> HIDE DEF s2, mine, mine2
  <2>1. {s2[i][2] : i \in mine2} = {s[i][2] : i \in mine}
    BY <1>2
  <2>2. \A i, j \in mine2 : i < j => s2[i][2] < s2[j][2]
    BY <1>2, <1>3
  <2> QED BY <1>3, <2>1, <2>2
<1> QED
  BY <1>4 DEF Clients!AnswersInOrder

-----------------------------------------------------------------------------
LEMMA SessionInit ==
  ASSUME Clients!TagsAssumption, Clients!Init PROVE QueueInv /\ TableInv
<1>1. QueueInv
  BY NoAnswers
  DEF Clients!TagsAssumption, Clients!Init, QueueInv, QueueTypes, Place, Op, Arrivals,
      Clients!OneAnswerEach, Clients!Suspended,
      Clients!Idle, Clients!At
<1>2. TableInv
  BY DEF Clients!TagsAssumption, Clients!Init, TableInv, HostApart, Clients!HostLeftAlone,
      Clients!Tags
<1> QED
  BY <1>1, <1>2

(* Every command is answered at once or awaits a send.                     *)
LEMMA Commands ==
  ASSUME NEW c \in Client, Clients!Command(c)
  PROVE  Clients!AtOnce(c) \/ \E op \in Op, t \in Tag \cup {None} : Clients!Await(c, op, t)
BY DEF Clients!Command, Clients!Simple, Clients!CmdSendTxtMsg, Clients!CmdSendChannelTxtMsg,
    Clients!CmdSendChannelData, Clients!CmdSendRawData,
       Clients!CmdSendRawPacket, Clients!CmdSendTracePath, Clients!CmdSendSelfAdvert,
           Clients!CmdShareContact, Clients!CmdGetContacts,
       Clients!CmdGetContactByKey, Clients!CmdGetAdvertPath, Clients!CmdExportContact,
           Clients!CmdGetChannel, Clients!CmdHasConnection,
       Clients!CmdLogout, Clients!CmdSendLogin, Clients!CmdSendStatusReq,
           Clients!CmdSendTelemetryReq, Clients!CmdSendBinaryReq,
       Clients!CmdSendAnonReq, Clients!CmdSendPathDiscoveryReq, Clients!CmdSendControlData, Op

LEMMA AtOnceQueue ==
  ASSUME Clients!TagsAssumption, QueueInv, NEW c \in Client, Clients!AtOnce(c) PROVE QueueInv'
<1> USE DEF QueueInv, QueueTypes
<1>1. /\ slot = c /\ doing[c].op = "read" /\ UNCHANGED <<slot, doing>>
      /\ asked' = [asked EXCEPT ![c] = @ + 1]
      /\ out' = [out EXCEPT ![c] = Append(@, <<c, asked[c] + 1>>)]
  BY DEF Clients!AtOnce, Clients!Takes, Clients!Answer, Clients!TagsAssumption
<1>2. QueueTypes'
  BY <1>1
<1>3. ~Clients!Suspended(c) /\ ~Clients!Suspended(c)'
  BY <1>1 DEF Clients!Suspended, Clients!Idle
<1>4. Clients!AnswersInOrder(out'[c], c, asked'[c])
  BY <1>1, <1>3, OwnAnswer DEF Clients!OneAnswerEach
<1>5. Clients!OneAnswerEach'
  BY <1>1, <1>3, <1>4 DEF Clients!OneAnswerEach
<1>6. Arrivals'
  BY <1>1 DEF Arrivals, Clients!Suspended
<1> QED
  BY <1>2, <1>5, <1>6

LEMMA AwaitQueue ==
  ASSUME Clients!TagsAssumption, QueueInv, NEW c \in Client, NEW op \in Op, NEW t \in Tag \cup {None},
         Clients!Await(c, op, t)
  PROVE  QueueInv'
<1> USE DEF QueueInv, QueueTypes
<1>1. /\ slot = c /\ doing[c].op = "read" /\ UNCHANGED <<slot, out>>
      /\ asked' = [asked EXCEPT ![c] = @ + 1]
      /\ doing' = [doing EXCEPT ![c] = [op |-> op, tag |-> t, sent |-> FALSE]]
  BY DEF Clients!Await, Clients!Takes
<1>2. QueueTypes'
  BY <1>1 DEF Place
<1>3. ~Clients!Suspended(c) /\ Clients!Suspended(c)' /\ \A d \in Client \ {c} : Clients!Suspended(d)' <=> Clients!Suspended(d)
  BY <1>1 DEF Clients!Suspended, Clients!Idle, Op
<1>4. Clients!OneAnswerEach'
  BY <1>1, <1>3 DEF Clients!OneAnswerEach, Clients!TagsAssumption
<1>5. Arrivals'
  BY <1>1, <1>3 DEF Arrivals, Op
<1> QED
  BY <1>2, <1>4, <1>5

LEMMA TransmitQueue ==
  ASSUME QueueInv, NEW c \in Client, Clients!Transmit(c) PROVE QueueInv'
<1> USE DEF QueueInv, QueueTypes
<1>1. doing' = [doing EXCEPT ![c].sent = TRUE] /\ UNCHANGED <<slot, asked, out>>
  BY DEF Clients!Transmit
<1>2. QueueTypes' /\ \A d \in Client : doing'[d].op = doing[d].op
  BY <1>1 DEF Place
<1> QED
  BY <1>1, <1>2 DEF Arrivals, Clients!OneAnswerEach, Clients!Suspended

LEMMA ResumesQueue ==
  ASSUME Clients!TagsAssumption, QueueInv, NEW c \in Client, NEW op \in Op, Clients!Resumes(c, op)
  PROVE  QueueInv'
<1> USE DEF QueueInv, QueueTypes
<1>1. /\ Clients!Suspended(c) /\ doing[c].op = op /\ UNCHANGED <<slot, asked>>
      /\ doing' = [doing EXCEPT ![c] = Clients!At(IF slot = c THEN "read" ELSE "gone")]
      /\ out' = IF slot = None THEN out ELSE [out EXCEPT ![slot] = Append(@, <<c, asked[c]>>)]
  BY DEF Clients!Resumes, Clients!Answer
<1>2. QueueTypes'
  BY <1>1 DEF Place, Clients!At, Clients!Idle
<1>3. /\ doing'[c].op \in {"read", "gone"} /\ ~Clients!Suspended(c)'
      /\ \A d \in Client \ {c} : doing'[d] = doing[d] /\ (Clients!Suspended(d)' <=> Clients!Suspended(d))
  BY <1>1 DEF Clients!Suspended, Clients!Idle, Clients!At
<1>4. ASSUME NEW d \in Client, slot' = d
      PROVE  Clients!AnswersInOrder(out'[d], d, IF Clients!Suspended(d)' THEN asked'[d] - 1 ELSE asked'[d])
  <2>0. slot = d /\ out'[d] = Append(out[d], <<c, asked[c]>>)
    BY <1>1, <1>4 DEF Clients!TagsAssumption
  <2>1. CASE d = c
    <3>1. Clients!AnswersInOrder(out[c], c, asked[c] - 1) /\ asked[c] - 1 \in Nat
      BY <1>1, <2>0, <2>1 DEF Clients!OneAnswerEach, Arrivals
    <3>2. Clients!AnswersInOrder(Append(out[c], <<c, (asked[c] - 1) + 1>>), c, (asked[c] - 1) + 1)
      BY <3>1, OwnAnswer
    <3>3. (asked[c] - 1) + 1 = asked[c]
      OBVIOUS
    <3> QED
      BY <1>1, <1>3, <2>0, <2>1, <3>2, <3>3
  <2>2. CASE d # c
    <3> DEFINE n == IF Clients!Suspended(d) THEN asked[d] - 1 ELSE asked[d]
    <3>1. Clients!AnswersInOrder(out[d], d, n) /\ n \in Nat
      BY <2>0 DEF Clients!OneAnswerEach, Arrivals
    <3>2. Clients!AnswersInOrder(Append(out[d], <<c, asked[c]>>), d, n)
      BY <2>2, <3>1, OthersAnswer
    <3> QED
      BY <1>1, <1>3, <2>0, <2>2, <3>2
  <2> QED
    BY <2>1, <2>2
<1>5. Clients!OneAnswerEach'
  BY <1>4 DEF Clients!OneAnswerEach
<1>6. Arrivals'
  BY <1>1, <1>3 DEF Arrivals
<1> QED
  BY <1>2, <1>5, <1>6

LEMMA ConnectQueue ==
  ASSUME Clients!TagsAssumption, QueueInv, NEW c \in Client, Clients!Connect(c) PROVE QueueInv'
<1> USE DEF QueueInv, QueueTypes
<1>1. /\ doing[c].op = "new" /\ slot' = c /\ UNCHANGED <<asked, out>>
      /\ doing'[c] = Clients!At("read") /\ doing' \in [Client -> Place]
      /\ \A d \in Client \ {c} : doing'[d] \in {doing[d], Clients!At("gone")}
  BY DEF Clients!Connect, Place, Clients!At, Clients!Idle
<1>2. ~Clients!Suspended(c)' /\ \A d \in Client \ {c} : Clients!Suspended(d)' => Clients!Suspended(d)
  BY <1>1 DEF Clients!Suspended, Clients!Idle, Clients!At
<1>3. asked[c] = 0 /\ out[c] = <<>>
  BY <1>1 DEF Arrivals
<1>4. Clients!OneAnswerEach'
  BY <1>1, <1>2, <1>3, NoAnswers DEF Clients!OneAnswerEach
<1>5. \A d \in Client : doing'[d].op = "new" => d # c /\ doing[d].op = "new"
  <2>1. Clients!At("read").op # "new" /\ Clients!At("gone").op # "new"
    BY DEF Clients!At
  <2> QED
    BY <1>1, <2>1
<1>6. Arrivals'
  BY <1>1, <1>2, <1>5 DEF Arrivals, Clients!Suspended
<1> QED
  BY <1>1, <1>4, <1>6

LEMMA LeaveQueue ==
  ASSUME Clients!TagsAssumption, QueueInv, NEW c \in Client, Clients!Leave(c) PROVE QueueInv'
<1> USE DEF QueueInv, QueueTypes
<1>1. /\ slot' = None /\ UNCHANGED <<asked, out>>
      /\ doing' \in [Client -> Place] /\ doing'[c] = Clients!At("gone")
      /\ \A d \in Client \ {c} : doing'[d] = doing[d]
  BY DEF Clients!Leave, Place, Clients!At, Clients!Idle
<1>2. Clients!OneAnswerEach'
  BY <1>1 DEF Clients!OneAnswerEach, Clients!TagsAssumption
<1>3. \A d \in Client : /\ doing'[d].op = "new" => doing[d].op = "new"
                        /\ Clients!Suspended(d)' => Clients!Suspended(d)
  <2>1. Clients!At("gone").op = "gone"
    BY DEF Clients!At
  <2> QED
    BY <1>1, <2>1 DEF Clients!Suspended, Clients!Idle
<1>4. Arrivals'
  BY <1>1, <1>3 DEF Arrivals, Clients!Suspended, Clients!TagsAssumption
<1> QED
  BY <1>1, <1>2, <1>4

LEMMA QueueStep ==
  ASSUME Clients!TagsAssumption, QueueInv, [Clients!Next]_Clients!vars PROVE QueueInv'
<1>1. ASSUME NEW c \in Client, Clients!Command(c) PROVE QueueInv'
  BY <1>1, Commands, AtOnceQueue, AwaitQueue
<1>2. ASSUME NEW c \in Client, Clients!Handler(c) PROVE QueueInv'
  <2>1. \E op \in Op : Clients!Resumes(c, op)
    BY <1>2 DEF Clients!Handler, Clients!SimpleSent, Clients!RequestSent, Clients!BinaryReqSent,
        Clients!PathDiscoverySent, Op
  <2> QED
    BY <2>1, ResumesQueue
<1>3. CASE UNCHANGED queueVars
  BY <1>3 DEF queueVars, QueueInv, QueueTypes, Arrivals, Clients!OneAnswerEach, Clients!Suspended
<1> QED
  BY <1>1, <1>2, <1>3, TransmitQueue, ConnectQueue, LeaveQueue
  DEF Clients!Next, Clients!vars, queueVars, Clients!WriteResult, Clients!HostBinaryReq,
      Clients!Response, Clients!RequestLost, Clients!PushControlData

-----------------------------------------------------------------------------
(* The tables.                                                             *)
LEMMA CommandTables ==
  ASSUME Clients!TagsAssumption, TableInv, NEW c \in Client, Clients!Command(c) PROVE TableInv'
<1> USE DEF TableInv, HostApart, Clients!HostLeftAlone, Clients!tables
<1>0. UNCHANGED pushed
  BY Commands DEF Clients!AtOnce, Clients!Await, Clients!Takes
<1>1. CASE UNCHANGED <<own, disc, callbacks, ctlOwn>>
  BY <1>0, <1>1
<1>2. ASSUME NEW t \in Tag, callbacks' = [callbacks EXCEPT ![t] = "noop"],
             ctlOwn' = ctlOwn \cup {t}, UNCHANGED <<disc, own>>
      PROVE  TableInv'
  BY <1>0, <1>2 DEF Clients!TagsAssumption, Clients!Tags
<1> QED
  BY <1>1, <1>2
  DEF Clients!Command, Clients!Simple, Clients!CmdSendTxtMsg, Clients!CmdSendChannelTxtMsg,
      Clients!CmdSendChannelData, Clients!CmdSendRawData,
       Clients!CmdSendRawPacket, Clients!CmdSendTracePath, Clients!CmdSendSelfAdvert,
           Clients!CmdShareContact, Clients!CmdGetContacts,
       Clients!CmdGetContactByKey, Clients!CmdGetAdvertPath, Clients!CmdExportContact,
           Clients!CmdGetChannel, Clients!CmdHasConnection,
       Clients!CmdLogout, Clients!CmdSendLogin, Clients!CmdSendStatusReq,
           Clients!CmdSendTelemetryReq, Clients!CmdSendBinaryReq,
       Clients!CmdSendAnonReq, Clients!CmdSendPathDiscoveryReq, Clients!CmdSendControlData

LEMMA TableStep ==
  ASSUME Clients!TagsAssumption, QueueTypes, TableInv, [Clients!Next]_Clients!vars PROVE TableInv'
<1> USE DEF TableInv, HostApart, Clients!HostLeftAlone, Clients!tables
<1>1. ASSUME NEW c \in Client, Clients!Command(c) PROVE TableInv'
  BY <1>1, CommandTables
<1>2. ASSUME NEW c \in Client, Clients!Handler(c) PROVE TableInv'
  <2>1. UNCHANGED pushed
    BY <1>2 DEF Clients!Handler, Clients!SimpleSent, Clients!RequestSent, Clients!BinaryReqSent,
        Clients!PathDiscoverySent, Clients!Resumes
  <2>2. doing[c].tag \notin HostTag
    BY DEF QueueTypes, Place, Clients!TagsAssumption
  <2> QED
    BY <1>2, <2>1, <2>2
    DEF Clients!Handler, Clients!SimpleSent, Clients!RequestSent, Clients!BinaryReqSent,
        Clients!PathDiscoverySent
<1>3. ASSUME NEW t \in Clients!Tags, Clients!Response(t) PROVE TableInv'
  BY <1>3 DEF Clients!Response, Clients!OnBinaryResponse, Clients!Push, Clients!TagsAssumption
<1>4. ASSUME NEW t \in Clients!Tags, Clients!PushControlData(t) PROVE TableInv'
  <2>1. CASE t \in ctlOwn
    <3>1. callbacks' = [callbacks EXCEPT ![t] = None] /\ t \notin HostTag
      BY <1>4, <2>1 DEF Clients!PushControlData
    <3>2. \A u \in HostTag : u \in Clients!Tags /\ callbacks'[u] = callbacks[u]
      BY <3>1 DEF Clients!Tags
    <3> QED
      BY <1>4, <2>1, <3>1, <3>2 DEF Clients!PushControlData
  <2>2. CASE t \notin ctlOwn
    BY <1>4, <2>2 DEF Clients!PushControlData
  <2> QED
    BY <2>1, <2>2
<1>5. CASE UNCHANGED <<pushed, own, disc, callbacks, ctlOwn>>
  BY <1>5
<1> QED
  BY <1>1, <1>2, <1>3, <1>4, <1>5
  DEF Clients!Next, Clients!vars, Clients!rest, Clients!Connect, Clients!Leave, Clients!Transmit,
      Clients!WriteResult, Clients!HostBinaryReq, Clients!RequestLost

LEMMA SessionInvariant == Clients!Spec => [](QueueInv /\ TableInv)
<1>1. Clients!Init => QueueInv /\ TableInv
  BY ClientsGiven, SessionInit
<1>2. QueueInv /\ TableInv /\ [Clients!Next]_Clients!vars => QueueInv' /\ TableInv'
  BY ClientsGiven, QueueStep, TableStep DEF QueueInv
<1> QED
  BY <1>1, <1>2, PTL DEF Clients!Spec

(* Whoever connects, leaves or is evicted while commands are under way,    *)
(* for any number of clients and commands: the client that holds the slot  *)
(* has one answer to each command in order, but for the one being handled. *)
THEOREM AnswersOnce == Clients!Spec => []OneAnswerEach
<1>1. QueueInv /\ TableInv => OneAnswerEach
  BY DEF QueueInv, OneAnswerEach
<1> QED BY <1>1, SessionInvariant, PTL

(* For any number of clients and of requests under way: no client is       *)
(* pushed a response to a request of the host's, and none of the host's    *)
(* discovery callbacks is removed for a client's.                          *)
THEOREM HostIsLeftAlone == Clients!Spec => []HostLeftAlone
<1>1. QueueInv /\ TableInv => HostLeftAlone
  BY DEF TableInv, HostLeftAlone
<1> QED BY <1>1, SessionInvariant, PTL
=============================================================================
