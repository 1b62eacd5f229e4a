------------------------------ MODULE ReturnPath ------------------------------
(***************************************************************************)
(* ReturnPathTeacher (node/handlers/return_path.py) and the reciprocal     *)
(* PATH of node/handlers/protocol_response.py: which of the copies of a    *)
(* flood reply its sender is taught to answer along, and how often.        *)
(*                                                                         *)
(* A reply stands for its packet hash.  It is processed once (the copies   *)
(* after the first are dropped as duplicates) but every copy is seen by    *)
(* note_flood_copy.  Timestamps are kept as ages: last[k] is the time      *)
(* since the cooldown of contact k was claimed, and Cooldown when there is *)
(* no claim that still counts.                                             *)
(***************************************************************************)
EXTENDS Integers, Sequences, FiniteSets

CONSTANTS
  Replies, Contacts,
  Sender,      \* the contact each reply comes from
  Copies,      \* what may be heard of a reply: a margin and a hop count
  MinMargin, Reliable,    \* RETURN_PATH_MIN_MARGIN_DB, .._RELIABLE_MARGIN_DB
  Settle, Cooldown, Ttl,  \* RETURN_PATH_SETTLE_S, .._COOLDOWN_S, .._COPY_TTL_S
  CacheMax,    \* RETURN_PATH_COPY_CACHE_MAX
  HoldMax,     \* longest time between hearing a copy and processing it
  InjectMax,   \* longest time a packet waits in the send path
  MaxCopies    \* bound on the copies heard of each reply

ASSUME ReturnPathAssumption ==
  /\ Sender \in [Replies -> Contacts]
  /\ Copies \subseteq [margin : Int, hops : Nat] /\ MinMargin \in Int /\ Reliable \in Int
  /\ Settle \in Nat /\ Cooldown \in Nat /\ Ttl \in Nat /\ CacheMax \in Nat \ {0}
  /\ HoldMax \in Nat /\ InjectMax \in Nat /\ MaxCopies \in Nat

VARIABLES
  pc, timer,  \* the task of each reply, and the time it has left to wait
  heard,      \* the copies of each reply heard so far
  held,       \* time since the first of them, up to HoldMax
  seed,       \* the first of them, the one that is processed
  chosen,     \* the copy whose path is being taught
  last,       \* _last_taught
  table       \* _recent_copies, the least recently touched entry first

vars == <<pc, timer, heard, held, seed, chosen, last, table>>

NoCopy == [margin |-> -1000, hops |-> 0]

Init ==
  /\ pc = [r \in Replies |-> "none"] /\ timer = [r \in Replies |-> 0]
  /\ heard = [r \in Replies |-> {}] /\ held = [r \in Replies |-> 0]
  /\ seed = [r \in Replies |-> NoCopy] /\ chosen = [r \in Replies |-> NoCopy]
  /\ last = [k \in Contacts |-> Cooldown]
  /\ table = <<>>

-----------------------------------------------------------------------------
(* Mutant: ranked by margin alone, as firmware's hold does.                *)
RankByMargin(c) == <<0, c.margin, -c.hops>>

(* _copy_rank: larger is better, compared lexicographically.               *)
Rank(c) == IF c.margin >= Reliable THEN <<1, -c.hops, c.margin>>
           ELSE <<0, c.margin, -c.hops>>

Exceeds(a, b) ==
  \/ a[1] > b[1]
  \/ a[1] = b[1] /\ a[2] > b[2]
  \/ a[1] = b[1] /\ a[2] = b[2] /\ a[3] > b[3]

(* _prune_copies: expired entries go, from the front.                      *)
Pruned ==
  LET fresh == {i \in 1..Len(table) : table[i].age <= Ttl}
  IN  IF fresh = {} THEN <<>>
      ELSE SubSeq(table, CHOOSE i \in fresh : \A j \in fresh : i <= j, Len(table))

(* A dictionary has one entry of a reply, or none.                         *)
Without(entries, r) ==
  LET at == {i \in 1..Len(entries) : entries[i].reply = r}
  IN  IF at = {} THEN entries
      ELSE LET i == CHOOSE j \in at : TRUE
           IN  SubSeq(entries, 1, i - 1) \o SubSeq(entries, i + 1, Len(entries))

EntriesOf(entries, r) == {entries[i] : i \in {j \in 1..Len(entries) : entries[j].reply = r}}

(* _record_copy: the table once copy c of reply r is recorded.  The entry  *)
(* touched moves to the end; an overflow evicts from the front.            *)
RecordCopy(r, c) ==
  IF c.margin < MinMargin THEN table
  ELSE LET kept == {e \in EntriesOf(Pruned, r) : ~Exceeds(Rank(c), Rank(e.copy))}
           best == IF kept = {} THEN c ELSE (CHOOSE e \in kept : TRUE).copy
           with == Append(Without(Pruned, r), [reply |-> r, copy |-> best, age |-> 0])
       IN  IF Len(with) > CacheMax THEN Tail(with) ELSE with

(* note_flood_copy, called for every copy before duplicates are dropped.   *)
(* Copies that differ in margin or hops came along different paths.        *)
NoteFloodCopy(r, c) ==
  /\ Cardinality(heard[r]) < MaxCopies /\ c \notin heard[r]
  /\ heard' = [heard EXCEPT ![r] = @ \cup {c}]
  /\ seed' = IF heard[r] = {} THEN [seed EXCEPT ![r] = c] ELSE seed
  /\ table' = RecordCopy(r, c)
  /\ UNCHANGED <<pc, timer, held, chosen, last>>

-----------------------------------------------------------------------------
Move(r, place, wait) ==
  /\ pc' = [pc EXCEPT ![r] = place] /\ timer' = [timer EXCEPT ![r] = wait]

Claim(k) == last' = [last EXCEPT ![k] = 0]

(* No route to the sender is known, so its flood reply needs no teach.     *)
NoKnownRoute(r) ==
  /\ pc[r] = "none" /\ heard[r] # {}
  /\ Move(r, "done", 0)
  /\ UNCHANGED <<heard, held, seed, chosen, last, table>>

(* _teach: the cooldown is tested and claimed in one step.                 *)
Teach(r) ==
  last[Sender[r]] = Cooldown /\ Claim(Sender[r]) /\ Move(r, "settle", Settle)

CooldownActive(r) ==
  last[Sender[r]] < Cooldown /\ UNCHANGED last /\ Move(r, "done", 0)

(* The reply is a RESPONSE: maybe_teach_from_flood_reply, for the copy     *)
(* that is processed.                                                      *)
MaybeTeachFromFloodReply(r) ==
  /\ pc[r] = "none" /\ heard[r] # {}
  /\ table' = RecordCopy(r, seed[r])
  /\ Teach(r) \/ CooldownActive(r)
  /\ UNCHANGED <<heard, held, seed, chosen>>

(* _dispatch_teach, after the settle window: the best copy on record, or   *)
(* else the seed, is handed to the injector.                               *)
DispatchTeach(r) ==
  /\ pc[r] = "settle" /\ timer[r] = 0
  /\ LET best == EntriesOf(table, r)
     IN  chosen' = [chosen EXCEPT ![r] =
                      IF best = {} THEN seed[r] ELSE (CHOOSE e \in best : TRUE).copy]
  /\ table' = Without(table, r) /\ Move(r, "inject", InjectMax)
  /\ UNCHANGED <<heard, held, seed, last>>

(* The injector returned; that it may return False is not looked at.       *)
Injected(r) ==
  /\ pc[r] = "inject" /\ Move(r, "done", 0)
  /\ UNCHANGED <<heard, held, seed, chosen, last, table>>

(* It raised: the cooldown goes back to what it was before the claim,      *)
(* which no longer counted or the claim would not have been made.          *)
InjectorRaises(r) ==
  /\ pc[r] = "inject" /\ Move(r, "done", 0)
  /\ last' = [last EXCEPT ![Sender[r]] = Cooldown]
  /\ UNCHANGED <<heard, held, seed, chosen, table>>

-----------------------------------------------------------------------------
(* The reply is a PATH: _send_reciprocal_path queues one that teaches the  *)
(* copy that is processed.                                                 *)
SendReciprocalPath(r) ==
  /\ pc[r] = "none" /\ heard[r] # {}
  /\ Move(r, "recip", InjectMax)
  /\ UNCHANGED <<heard, held, seed, chosen, last, table>>

(* _dispatch_reciprocal once it is sent: note_evidence_teach, then         *)
(* schedule_reteach_better_copy.                                           *)
ReciprocalSent(r) ==
  /\ pc[r] = "recip" /\ Claim(Sender[r]) /\ Move(r, "resettle", Settle)
  /\ UNCHANGED <<heard, held, seed, chosen, table>>

(* It raised, was rejected, or stop cancelled it.                          *)
ReciprocalFails(r) ==
  /\ pc[r] = "recip" /\ Move(r, "done", 0)
  /\ UNCHANGED <<heard, held, seed, chosen, last, table>>

(* maybe_reteach_better_copy after its settle window.                      *)
MaybeReteachBetterCopy(r) ==
  /\ pc[r] = "resettle" /\ timer[r] = 0
  /\ table' = Without(table, r)
  /\ LET better == {e \in EntriesOf(table, r) : e.copy # seed[r]}
     IN  IF better = {} THEN Move(r, "done", 0) /\ UNCHANGED chosen
         ELSE /\ Move(r, "reinject", InjectMax)
              /\ chosen' = [chosen EXCEPT ![r] = (CHOOSE e \in better : TRUE).copy]
  /\ UNCHANGED <<heard, held, seed, last>>

ReteachSent(r) ==
  /\ pc[r] = "reinject" /\ Claim(Sender[r]) /\ Move(r, "done", 0)
  /\ UNCHANGED <<heard, held, seed, chosen, table>>

ReteachFails(r) ==
  /\ pc[r] = "reinject" /\ Move(r, "done", 0)
  /\ UNCHANGED <<heard, held, seed, chosen, last, table>>

-----------------------------------------------------------------------------
Busy == {r \in Replies : pc[r] \notin {"none", "done"}}

Least(a, b) == IF a < b THEN a ELSE b

(* Time passes, no further than the next thing that is due.                *)
Tick ==
  /\ \A r \in Busy : timer[r] > 0
  /\ \A r \in Replies : pc[r] = "none" /\ heard[r] # {} => held[r] < HoldMax
  /\ timer' = [r \in Replies |-> IF timer[r] > 0 THEN timer[r] - 1 ELSE 0]
  /\ held' = [r \in Replies |-> IF pc[r] = "none" /\ heard[r] # {}
                                THEN held[r] + 1 ELSE held[r]]
  /\ last' = [k \in Contacts |-> Least(last[k] + 1, Cooldown)]
  /\ table' = [i \in 1..Len(table) |->
                 [table[i] EXCEPT !.age = Least(@ + 1, Ttl + 1)]]
  /\ UNCHANGED <<pc, heard, seed, chosen>>

Step(r) ==
  \/ NoKnownRoute(r) \/ MaybeTeachFromFloodReply(r) \/ DispatchTeach(r)
  \/ Injected(r) \/ InjectorRaises(r)
  \/ SendReciprocalPath(r) \/ ReciprocalSent(r) \/ ReciprocalFails(r)
  \/ MaybeReteachBetterCopy(r) \/ ReteachSent(r) \/ ReteachFails(r)

Next ==
  \/ \E r \in Replies : Step(r) \/ \E c \in Copies : NoteFloodCopy(r, c)
  \/ Tick

Spec == Init /\ [][Next]_vars

-----------------------------------------------------------------------------
Places == {"none", "settle", "inject", "recip", "resettle", "reinject", "done"}

TypeOK ==
  /\ pc \in [Replies -> Places] /\ timer \in [Replies -> Nat]
  /\ heard \in [Replies -> SUBSET Copies] /\ held \in [Replies -> 0..HoldMax]
  /\ seed \in [Replies -> Copies \cup {NoCopy}]
  /\ chosen \in [Replies -> Copies \cup {NoCopy}]
  /\ last \in [Contacts -> 0..Cooldown]
  /\ Len(table) <= CacheMax
  /\ \A i, j \in 1..Len(table) : table[i].reply = table[j].reply => i = j

Routes(r) == {c \in heard[r] : c.margin >= MinMargin}
ReliableRoutes(r) == {c \in heard[r] : c.margin >= Reliable}

(* What the module promises of a route: with a reliable copy to choose     *)
(* from it is reliable and none of those is shorter; otherwise none that   *)
(* is a route at all has more margin.                                      *)
IsBest(c, r) ==
  IF ReliableRoutes(r) # {}
  THEN c.margin >= Reliable /\ \A d \in ReliableRoutes(r) : c.hops <= d.hops
  ELSE \A d \in Routes(r) : d.margin <= c.margin

(* The copy a teach embeds is the best of those heard by the end of the    *)
(* settle window, whichever copy triggered it and whatever other replies   *)
(* were recorded, pruned or taught meanwhile; and a reciprocal that is not *)
(* corrected already taught the best (_dispatch_teach,                     *)
(* maybe_reteach_better_copy).  The table must have room for the replies   *)
(* and keep them for as long as they take: Provisioned.                    *)
BestCopyTaught ==
  [][\A r \in Replies :
       /\ pc[r] = "settle" /\ pc'[r] = "inject" => IsBest(chosen'[r], r)
       /\ pc[r] = "resettle" /\ pc'[r] = "reinject" => IsBest(chosen'[r], r)
       /\ pc[r] = "resettle" /\ pc'[r] = "done" => IsBest(seed[r], r)]_vars

(* "two concurrent triggers for the same contact cannot both pass the      *)
(* check and both transmit" (_teach).                                      *)
OneTeachSettling ==
  \A r, q \in Replies :
    pc[r] = "settle" /\ pc[q] = "settle" /\ Sender[r] = Sender[q] => r = q

(* The send path is quick enough for a claim to outlast its teach.         *)
PromptInjector == Settle + InjectMax < Cooldown

(* The table of copies is large enough, and its entries live long enough,  *)
(* for every reply under way; a reliable route is a route.                 *)
Provisioned ==
  /\ IsFiniteSet(Replies) /\ Cardinality(Replies) <= CacheMax
  /\ HoldMax + InjectMax + Settle <= Ttl /\ MinMargin <= Reliable
=============================================================================
