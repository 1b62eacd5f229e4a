------------------------- MODULE KissExchangeProofs -------------------------
(* The exchange with the KISS modem: sends are confirmed, commands         *)
(* answered and packets delivered in order.                                *)
EXTENDS KissExchange, TLAPS

\* Leaves are tried with Zenon first and then with the SMT solver.
USE ZenonT(2), SMTT(20), ZenonT(20)

(* The frames to and from the modem.                                       *)
Answers == {"ok", "value", "error"}
Orders == {"set", "signal", "get"}
Sent1 == [kind : {"data"} \cup Orders, arg : Nat, of : Nat]
Got1 == [kind : {"done", "busy", "heard", "meta"} \cup Answers, arg : Nat, of : Nat]

ExchangeTypes ==
  /\ link \in {"up", "down", "opening"} /\ session \in Nat
  /\ sender \in [Sender -> {"idle", "lock", "wait"}]
  /\ tx \in [holder : Sender \cup {None}, event : BOOLEAN, result : {"none", "sent", "failed"}]
  /\ caller \in [Callers -> [kind : {"none"} \cup Orders, at : {"idle", "lock", "wait"}]]
  /\ \A c \in Callers : caller[c].kind = "none" <=> caller[c].at = "idle"
  /\ response \in [kind : {"none"} \cup Orders, got : {"none"} \cup Answers]
  /\ pending \in Seq(Got1)
  /\ out \in [id : Nat, of : Nat, meta : Nat, from : Nat]
  /\ modem \in [tx : BOOLEAN, set : BOOLEAN, report : BOOLEAN]
  /\ wire \in Seq(Sent1) /\ reply \in Seq(Got1)
  /\ count \in [sends : Nat, commands : Nat, heard : Nat, drops : Nat]
  /\ credit \in Int /\ late \in BOOLEAN /\ lied \in BOOLEAN /\ relapsed \in BOOLEAN

(* The frames of a line that confirm a transmit have transmits of their    *)
(* own among n, and so has the one a sender has yet to be told of.         *)
Confirmations(q) == {i \in 1..Len(q) : q[i].kind = "done" /\ q[i].arg = 1}
Backed(q, n) ==
  \E f \in [Confirmations(q) -> 1..n] : \A i, j \in Confirmations(q) : f[i] = f[j] => i = j
Untold == IF tx.holder # None /\ tx.result = "sent" THEN 1 ELSE 0

CreditInv ==
  /\ \A s \in Sender : sender[s] = "wait" => tx.holder = s
  /\ credit - Untold \in Nat /\ Backed(reply, credit - Untold)

(* The packets on their way to the callback, oldest first.                 *)
OrderInv ==
  /\ \A i, j \in 1..Len(pending) : i < j => pending[i].arg < pending[j].arg
  /\ \A i, j \in 1..Len(reply) :
       i < j /\ reply[i].kind = "heard" /\ reply[j].kind = "heard" => reply[i].arg < reply[j].arg
  /\ \A i \in 1..Len(pending), j \in 1..Len(reply) :
       reply[j].kind = "heard" => pending[i].arg < reply[j].arg
  /\ \A i \in 1..Len(pending) : out.id < pending[i].arg /\ pending[i].arg <= count.heard
  /\ \A i \in 1..Len(reply) :
       reply[i].kind = "heard" => out.id < reply[i].arg /\ reply[i].arg <= count.heard
  /\ out.id <= count.heard

(* At most one of: a command on the wire, its response on the way back,    *)
(* the response in the hands of the caller.                                *)
CommandsOn(q) == {i \in 1..Len(q) : q[i].kind \in Orders}
AnswersOn(q) == {i \in 1..Len(q) : q[i].kind \in Answers}

AskingInv ==
  /\ \A c, d \in Callers : Holds(c) /\ Holds(d) => c = d
  /\ \A c \in Callers : Holds(c) => response.kind = caller[c].kind
  /\ LockFree => response = Unasked
  /\ response.got # "none" => response.got \in Acceptable(response.kind)
  /\ response.kind = "none" => CommandsOn(wire) = {} /\ AnswersOn(reply) = {}
  /\ response.got # "none" => CommandsOn(wire) = {} /\ AnswersOn(reply) = {}
  /\ CommandsOn(wire) = {} \/ AnswersOn(reply) = {}
  /\ \A i, j \in CommandsOn(wire) : i = j
  /\ \A i, j \in AnswersOn(reply) : i = j
  /\ \A i \in CommandsOn(wire) : wire[i].kind = response.kind
  /\ \A i \in AnswersOn(reply) : reply[i].kind \in Acceptable(response.kind)
  /\ responses = <<>> /\ ~lied

LinkInv ==
  /\ caller[Reconnector].kind \in {"none", "set"}
  /\ link = "up" => caller[Reconnector].at = "idle"
  /\ link = "opening" => caller[Reconnector].at # "idle" /\ ~relapsed
  /\ link = "down" /\ caller[Reconnector].at # "idle" => relapsed
  /\ link = "up" /\ ~relapsed => modem.set
  /\ Holds(Reconnector) /\ ~relapsed /\ response.got = "ok" => modem.set
  /\ Holds(Reconnector) /\ ~relapsed /\ (\E i \in AnswersOn(reply) : reply[i].kind = "ok")
       => modem.set

ExchangeInv ==
  ExchangeTypes /\ CreditInv /\ OrderInv /\ (~late => AskingInv /\ LinkInv)

-----------------------------------------------------------------------------
(* The frames of the kinds K on a line after a step: none that was not     *)
(* there before, and in the same order.                                    *)
Fewer(new, old, K) ==
  \E n \in Nat : \A j \in 1..Len(new) :
    new[j].kind \in K => j + n \in 1..Len(old) /\ new[j] = old[j + n]

LEMMA FewerSame ==
  ASSUME NEW F, NEW q \in Seq(F), NEW K
  PROVE  Fewer(q, q, K)
<1>1. \A j \in 1..Len(q) : j + 0 = j
  OBVIOUS
<1> QED BY <1>1 DEF Fewer

LEMMA FewerEmpty ==
  ASSUME NEW F, NEW q \in Seq(F), NEW K
  PROVE  Fewer(<<>>, q, K)
  BY DEF Fewer

LEMMA FewerTail ==
  ASSUME NEW F, NEW q \in Seq(F), q # <<>>, NEW K
  PROVE  Fewer(Tail(q), q, K)
<1>1. \A j \in 1..Len(Tail(q)) : j + 1 \in 1..Len(q) /\ Tail(q)[j] = q[j + 1]
  OBVIOUS
<1> QED BY <1>1 DEF Fewer

LEMMA FewerAppend ==
  ASSUME NEW F, NEW q \in Seq(F), NEW f \in F, NEW K, f.kind \notin K
  PROVE  Fewer(Append(q, f), q, K)
<1>1. \A j \in 1..Len(Append(q, f)) :
        Append(q, f)[j] = f \/ (j + 0 \in 1..Len(q) /\ Append(q, f)[j] = q[j + 0])
  OBVIOUS
<1> QED BY <1>1 DEF Fewer

LEMMA FewerTwice ==
  ASSUME NEW F, NEW p \in Seq(F), NEW q \in Seq(F), NEW r \in Seq(F), NEW K,
         Fewer(p, q, K), Fewer(q, r, K)
  PROVE  Fewer(p, r, K)
<1>1. PICK m \in Nat : \A j \in 1..Len(p) :
        p[j].kind \in K => j + m \in 1..Len(q) /\ p[j] = q[j + m]
  BY DEF Fewer
<1>2. PICK n \in Nat : \A j \in 1..Len(q) :
        q[j].kind \in K => j + n \in 1..Len(r) /\ q[j] = r[j + n]
  BY DEF Fewer
<1>3. ASSUME NEW j \in 1..Len(p), p[j].kind \in K
      PROVE  j + (m + n) \in 1..Len(r) /\ p[j] = r[j + (m + n)]
  <2>1. j + m \in 1..Len(q) /\ p[j] = q[j + m]
    BY <1>1, <1>3
  <2>2. (j + m) + n \in 1..Len(r) /\ q[j + m] = r[(j + m) + n]
    BY <1>2, <1>3, <2>1
  <2>3. (j + m) + n = j + (m + n)
    OBVIOUS
  <2> QED BY <2>1, <2>2, <2>3
<1>4. m + n \in Nat
  OBVIOUS
<1> QED BY <1>3, <1>4 DEF Fewer

-----------------------------------------------------------------------------
(* Confirmations on the line from the modem.                               *)
LEMMA BackedFewer ==
  ASSUME NEW p \in Seq(Got1), NEW q \in Seq(Got1), NEW n \in Nat,
         Fewer(p, q, {"done"}), Backed(q, n)
  PROVE  Backed(p, n)
<1>1. PICK m \in Nat : \A j \in 1..Len(p) :
        p[j].kind = "done" => j + m \in 1..Len(q) /\ p[j] = q[j + m]
  BY DEF Fewer
<1>2. PICK f \in [Confirmations(q) -> 1..n] : \A i, j \in Confirmations(q) : f[i] = f[j] => i = j
  BY DEF Backed
<1> DEFINE g == [j \in Confirmations(p) |-> f[j + m]]
<1>3. \A j \in Confirmations(p) : j \in Nat /\ j + m \in Confirmations(q)
  BY <1>1 DEF Confirmations
<1>4. g \in [Confirmations(p) -> 1..n]
  BY <1>2, <1>3
<1>5. ASSUME NEW i \in Confirmations(p), NEW j \in Confirmations(p), g[i] = g[j] PROVE i = j
  <2>1. f[i + m] = f[j + m]
    BY <1>5
  <2>2. i + m = j + m /\ i \in Nat /\ j \in Nat
    BY <1>2, <1>3, <2>1
  <2> QED BY <2>2
<1> QED BY <1>4, <1>5 DEF Backed

(* A confirmation is read: it leaves its transmit to the one it is for.    *)
LEMMA ConfirmationRead ==
  ASSUME NEW q \in Seq(Got1), q # <<>>, Head(q).kind = "done", Head(q).arg = 1,
         NEW n \in Nat, Backed(q, n)
  PROVE  n - 1 \in Nat /\ Backed(Tail(q), n - 1)
<1>1. PICK f \in [Confirmations(q) -> 1..n] : \A i, j \in Confirmations(q) : f[i] = f[j] => i = j
  BY DEF Backed
<1>2. 1 \in Confirmations(q)
  BY DEF Confirmations
<1>3. f[1] \in 1..n /\ n - 1 \in Nat
  BY <1>1, <1>2
<1>4. \A j \in 1..Len(Tail(q)) : j + 1 \in 1..Len(q) /\ j + 1 # 1 /\ Tail(q)[j] = q[j + 1]
  OBVIOUS
<1>5. \A j \in Confirmations(Tail(q)) : j \in Nat /\ j + 1 \in Confirmations(q) /\ j + 1 # 1
  BY <1>4 DEF Confirmations
<1> DEFINE g == [j \in Confirmations(Tail(q)) |-> IF f[j + 1] = n THEN f[1] ELSE f[j + 1]]
<1>6. ASSUME NEW j \in Confirmations(Tail(q)) PROVE f[j + 1] \in 1..n /\ f[j + 1] # f[1]
  BY <1>1, <1>2, <1>5
<1>7. ASSUME NEW j \in Confirmations(Tail(q)) PROVE g[j] \in 1..(n - 1)
  BY <1>3, <1>6
<1>8. ASSUME NEW i \in Confirmations(Tail(q)), NEW j \in Confirmations(Tail(q)), g[i] = g[j]
      PROVE  i = j
  <2>1. f[i + 1] = f[j + 1]
    BY <1>6, <1>8
  <2>2. i + 1 = j + 1 /\ i \in Nat /\ j \in Nat
    BY <1>1, <1>5, <2>1
  <2> QED BY <2>2
<1>9. g \in [Confirmations(Tail(q)) -> 1..(n - 1)]
  BY <1>7
<1> QED BY <1>3, <1>8, <1>9 DEF Backed

(* A transmit is made, and reported or not.                                *)
LEMMA ConfirmationSent ==
  ASSUME NEW q \in Seq(Got1), NEW f \in Got1, NEW n \in Nat, Backed(q, n)
  PROVE  /\ Backed(q, n + 1) /\ Backed(Append(q, f), n + 1)
         /\ f.arg # 1 => Backed(Append(q, f), n)
<1> DEFINE new == Append(q, f)
           last == Len(q) + 1
<1>1. PICK g \in [Confirmations(q) -> 1..n] : \A i, j \in Confirmations(q) : g[i] = g[j] => i = j
  BY DEF Backed
<1>2. /\ \A j \in 1..Len(q) : j \in 1..Len(new) /\ new[j] = q[j]
      /\ \A j \in 1..Len(new) : j \in 1..Len(q) \/ (j = last /\ new[j] = f)
  OBVIOUS
<1> HIDE DEF new, last
<1>3. \A j \in Confirmations(new) : j \in Confirmations(q) \/ (j = last /\ f.arg = 1)
  BY <1>2 DEF Confirmations
<1>4. \A j \in Confirmations(q) : g[j] \in 1..n /\ g[j] \in 1..(n + 1) /\ g[j] # n + 1
  BY <1>1
<1>5. Backed(q, n + 1)
  <2>1. g \in [Confirmations(q) -> 1..(n + 1)]
    BY <1>1, <1>4
  <2> QED BY <1>1, <2>1 DEF Backed
<1>6. Backed(new, n + 1)
  <2> DEFINE h == [j \in Confirmations(new) |-> IF j \in Confirmations(q) THEN g[j] ELSE n + 1]
  <2>1. h \in [Confirmations(new) -> 1..(n + 1)]
    BY <1>4
  <2>2. \A i, j \in Confirmations(new) : h[i] = h[j] => i = j
    BY <1>1, <1>3, <1>4
  <2> QED BY <2>1, <2>2 DEF Backed
<1>7. ASSUME f.arg # 1 PROVE Backed(new, n)
  <2> DEFINE h == [j \in Confirmations(new) |-> g[j]]
  <2>1. h \in [Confirmations(new) -> 1..n]
    BY <1>3, <1>4, <1>7
  <2>2. \A i, j \in Confirmations(new) : h[i] = h[j] => i = j
    BY <1>1, <1>3, <1>7
  <2> QED BY <2>1, <2>2 DEF Backed
<1> QED BY <1>5, <1>6, <1>7 DEF new

-----------------------------------------------------------------------------
(* What leaves each part of the invariant alone.                           *)
LEMMA CreditSame ==
  ASSUME ExchangeTypes, ExchangeTypes', CreditInv, credit' = credit,
         \A s \in Sender : sender'[s] = "wait" => sender[s] = "wait",
         tx'.holder = tx.holder, tx'.result = tx.result,
         Fewer(reply', reply, {"done"})
  PROVE  CreditInv'
<1>1. reply \in Seq(Got1) /\ reply' \in Seq(Got1)
  BY DEF ExchangeTypes
<1>2. Untold' = Untold
  BY DEF Untold
<1>3. credit - Untold \in Nat /\ Backed(reply, credit - Untold)
  BY DEF CreditInv
<1>4. Backed(reply', credit - Untold)
  BY <1>1, <1>3, BackedFewer
<1>5. \A s \in Sender : sender'[s] = "wait" => tx'.holder = s
  BY DEF CreditInv
<1> QED BY <1>2, <1>3, <1>4, <1>5 DEF CreditInv, Backed, Confirmations

LEMMA OrderSame ==
  ASSUME ExchangeTypes, ExchangeTypes', OrderInv, pending' = pending, out' = out,
         count'.heard = count.heard, Fewer(reply', reply, {"heard"})
  PROVE  OrderInv'
<1>1. PICK n \in Nat : \A j \in 1..Len(reply') :
        reply'[j].kind = "heard" => j + n \in 1..Len(reply) /\ reply'[j] = reply[j + n]
  BY DEF Fewer
<1>2. reply \in Seq(Got1) /\ reply' \in Seq(Got1)
  BY DEF ExchangeTypes
<1>3. ASSUME NEW i \in 1..Len(reply'), NEW j \in 1..Len(reply'), i < j,
             reply'[i].kind = "heard", reply'[j].kind = "heard"
      PROVE  reply'[i].arg < reply'[j].arg
  <2>1. /\ i + n \in 1..Len(reply) /\ reply'[i] = reply[i + n]
        /\ j + n \in 1..Len(reply) /\ reply'[j] = reply[j + n]
    BY <1>1, <1>3
  <2>2. i + n < j + n
    BY <1>3
  <2> QED BY <1>3, <2>1, <2>2 DEF OrderInv
<1>4. ASSUME NEW j \in 1..Len(reply'), reply'[j].kind = "heard"
      PROVE  /\ \A i \in 1..Len(pending) : pending[i].arg < reply'[j].arg
             /\ out.id < reply'[j].arg /\ reply'[j].arg <= count.heard
  <2>1. j + n \in 1..Len(reply) /\ reply'[j] = reply[j + n]
    BY <1>1, <1>4
  <2> QED BY <1>4, <2>1 DEF OrderInv
<1> QED BY <1>3, <1>4 DEF OrderInv

LEMMA AskingSame ==
  ASSUME ExchangeTypes, ExchangeTypes', AskingInv, UNCHANGED <<response, responses, lied>>,
         \A c \in Callers : /\ Holds(c)' <=> Holds(c)
                            /\ Holds(c) => caller'[c] = caller[c],
         Fewer(wire', wire, Orders), Fewer(reply', reply, Answers)
  PROVE  AskingInv'
<1>1. PICK m \in Nat : \A j \in 1..Len(wire') :
        wire'[j].kind \in Orders => j + m \in 1..Len(wire) /\ wire'[j] = wire[j + m]
  BY DEF Fewer
<1>2. PICK n \in Nat : \A j \in 1..Len(reply') :
        reply'[j].kind \in Answers => j + n \in 1..Len(reply) /\ reply'[j] = reply[j + n]
  BY DEF Fewer
<1>3. \A j \in CommandsOn(wire') : /\ j \in Nat /\ j + m \in CommandsOn(wire)
                                   /\ wire'[j] = wire[j + m]
  BY <1>1 DEF CommandsOn
<1>4. \A j \in AnswersOn(reply') : /\ j \in Nat /\ j + n \in AnswersOn(reply)
                                   /\ reply'[j] = reply[j + n]
  BY <1>2 DEF AnswersOn
<1>5. CommandsOn(wire)' = CommandsOn(wire') /\ AnswersOn(reply)' = AnswersOn(reply')
  BY DEF CommandsOn, AnswersOn
<1>6. \A i, j \in CommandsOn(wire') : i = j
  <2> SUFFICES ASSUME NEW i \in CommandsOn(wire'), NEW j \in CommandsOn(wire') PROVE i = j
    OBVIOUS
  <2>1. i + m = j + m /\ i \in Nat /\ j \in Nat
    BY <1>3 DEF AskingInv
  <2> QED BY <2>1
<1>7. \A i, j \in AnswersOn(reply') : i = j
  <2> SUFFICES ASSUME NEW i \in AnswersOn(reply'), NEW j \in AnswersOn(reply') PROVE i = j
    OBVIOUS
  <2>1. i + n = j + n /\ i \in Nat /\ j \in Nat
    BY <1>4 DEF AskingInv
  <2> QED BY <2>1
<1>8. LockFree' <=> LockFree
  BY DEF LockFree
<1>9. /\ CommandsOn(wire) = {} => CommandsOn(wire') = {}
      /\ AnswersOn(reply) = {} => AnswersOn(reply') = {}
  BY <1>3, <1>4
<1>10. \A i \in CommandsOn(wire') : wire'[i].kind = response.kind
  BY <1>3 DEF AskingInv
<1>11. \A i \in AnswersOn(reply') : reply'[i].kind \in Acceptable(response.kind)
  BY <1>4 DEF AskingInv
<1>12. Acceptable(response.kind)' = Acceptable(response.kind)
  BY DEF Acceptable
<1>13. /\ \A c, d \in Callers : Holds(c)' /\ Holds(d)' => c = d
       /\ \A c \in Callers : Holds(c)' => response'.kind = caller'[c].kind
  BY DEF AskingInv
<1> QED BY <1>5, <1>6, <1>7, <1>8, <1>9, <1>10, <1>11, <1>12, <1>13 DEF AskingInv, Unasked

LEMMA LinkSame ==
  ASSUME ExchangeTypes, ExchangeTypes', LinkInv, UNCHANGED <<link, relapsed>>,
         caller'[Reconnector] = caller[Reconnector], modem'.set = modem.set,
         response'.got = response.got, Fewer(reply', reply, Answers)
  PROVE  LinkInv'
<1>1. PICK n \in Nat : \A j \in 1..Len(reply') :
        reply'[j].kind \in Answers => j + n \in 1..Len(reply) /\ reply'[j] = reply[j + n]
  BY DEF Fewer
<1>2. \A j \in AnswersOn(reply') : j + n \in AnswersOn(reply) /\ reply'[j] = reply[j + n]
  BY <1>1 DEF AnswersOn
<1>3. AnswersOn(reply)' = AnswersOn(reply')
  BY DEF AnswersOn
<1>4. (\E i \in AnswersOn(reply') : reply'[i].kind = "ok")
        => \E i \in AnswersOn(reply) : reply[i].kind = "ok"
  BY <1>2
<1>5. Holds(Reconnector)' <=> Holds(Reconnector)
  BY DEF Holds
<1> QED BY <1>3, <1>4, <1>5 DEF LinkInv

-----------------------------------------------------------------------------
LEMMA Frames2 ==
  ASSUME session \in Nat, NEW arg \in Nat
  PROVE  /\ \A k \in {"done", "busy", "heard", "meta"} \cup Answers :
              /\ Frame(k, arg) \in Got1 /\ Frame(k, arg).kind = k /\ Frame(k, arg).arg = arg
         /\ \A k \in {"data"} \cup Orders :
              /\ Frame(k, arg) \in Sent1 /\ Frame(k, arg).kind = k
  BY DEF Frame, Got1, Sent1

LEMMA GotArgs ==
  ASSUME NEW q \in Seq(Got1)
  PROVE  \A i \in 1..Len(q) : q[i] \in Got1 /\ q[i].arg \in Nat
<1>1. \A i \in 1..Len(q) : q[i] \in Got1
  OBVIOUS
<1>2. \A g \in Got1 : g.arg \in Nat
  BY DEF Got1
<1> QED BY <1>1, <1>2

LEMMA ExchangeInit == Init => ExchangeInv
<1> SUFFICES ASSUME Init PROVE ExchangeInv
  OBVIOUS
<1>1. /\ tx \in [holder : Sender \cup {None}, event : BOOLEAN, result : {"none", "sent", "failed"}]
      /\ tx.holder = None
  BY DEF Init, Free
<1>2. /\ Quiet \in [kind : {"none"} \cup Orders, at : {"idle", "lock", "wait"}]
      /\ Quiet.kind = "none" /\ Quiet.at = "idle"
  BY DEF Quiet
<1>3. /\ caller \in [Callers -> [kind : {"none"} \cup Orders, at : {"idle", "lock", "wait"}]]
      /\ \A c \in Callers : caller[c].kind = "none" /\ caller[c].at = "idle"
  BY <1>2 DEF Init
<1>4. /\ response \in [kind : {"none"} \cup Orders, got : {"none"} \cup Answers]
      /\ response.kind = "none" /\ response.got = "none"
  BY DEF Init, Unasked
<1>5. out \in [id : Nat, of : Nat, meta : Nat, from : Nat] /\ out.id = 0
  BY DEF Init
<1>6. modem \in [tx : BOOLEAN, set : BOOLEAN, report : BOOLEAN] /\ modem.set
  BY DEF Init
<1>7. count \in [sends : Nat, commands : Nat, heard : Nat, drops : Nat]
  BY ExchangeAssumption DEF Init
<1>8. ExchangeTypes
  <2>1. /\ link = "up" /\ session = 1 /\ credit = 0 /\ late = FALSE /\ lied = FALSE
        /\ relapsed = FALSE /\ sender = [s \in Sender |-> "idle"]
    BY DEF Init
  <2>2. pending \in Seq(Got1) /\ wire \in Seq(Sent1) /\ reply \in Seq(Got1)
    BY DEF Init
  <2>3. late \in BOOLEAN /\ lied \in BOOLEAN /\ relapsed \in BOOLEAN
    BY <2>1
  <2>4. sender \in [Sender -> {"idle", "lock", "wait"}]
    BY <2>1
  <2>5. session \in Nat /\ credit \in Int /\ link \in {"up", "down", "opening"}
    BY <2>1
  <2>6. \A c \in Callers : caller[c].kind = "none" <=> caller[c].at = "idle"
    BY <1>3
  <2> QED BY <1>1, <1>3, <1>4, <1>5, <1>6, <1>7, <2>2, <2>3, <2>4, <2>5, <2>6 DEF ExchangeTypes
<1>9. Confirmations(reply) = {} /\ CommandsOn(wire) = {} /\ AnswersOn(reply) = {}
  BY DEF Init, Confirmations, CommandsOn, AnswersOn
<1>10. CreditInv
  <2>1. Untold = 0
    BY <1>1 DEF Untold
  <2>2. Backed(reply, 0)
    <3> DEFINE f == [i \in Confirmations(reply) |-> i]
    <3>1. f \in [Confirmations(reply) -> 1..0] /\ \A i, j \in Confirmations(reply) : f[i] = f[j] => i = j
      BY <1>9
    <3> QED BY <3>1 DEF Backed
  <2>3. credit = 0 /\ credit - Untold = 0 /\ \A s \in Sender : sender[s] = "idle"
    BY <2>1 DEF Init
  <2> QED BY <2>2, <2>3 DEF CreditInv
<1>11. OrderInv
  BY <1>5, <1>7 DEF Init, OrderInv
<1>12. AskingInv
  <2>1. \A c \in Callers : ~Holds(c)
    BY <1>3 DEF Holds
  <2>2. response = Unasked /\ responses = <<>> /\ ~lied
    BY DEF Init
  <2> QED BY <1>4, <1>9, <2>1, <2>2 DEF AskingInv
<1>13. Reconnector \in Callers
  BY DEF Callers
<1>14. LinkInv
  BY <1>3, <1>6, <1>13 DEF Init, LinkInv, Holds
<1> QED BY <1>8, <1>10, <1>11, <1>12, <1>14 DEF ExchangeInv

(* The senders: only who waits for the modem changes.                      *)
LEMMA SenderSteps ==
  ASSUME ExchangeInv, NEW s \in Sender,
         SendFrameAndWait(s) \/ SendFrame(s) \/ ResolveTxDone(s) \/ SendUnconfirmed(s)
  PROVE  ExchangeInv'
<1>1. /\ UNCHANGED <<link, session, caller, response, responses, pending, out, modem, wire,
                     reply, late, lied, relapsed>>
      /\ count' = count \/ count' = [count EXCEPT !.sends = @ + 1]
  BY DEF SendFrameAndWait, SendFrame, ResolveTxDone, SendUnconfirmed, asking, hearing, lines,
      history
<1>2. /\ ExchangeTypes
      /\ sender \in [Sender -> {"idle", "lock", "wait"}]
      /\ tx \in [holder : Sender \cup {None}, event : BOOLEAN, result : {"none", "sent", "failed"}]
      /\ reply \in Seq(Got1) /\ wire \in Seq(Sent1) /\ credit \in Int /\ None \notin Sender
      /\ count \in [sends : Nat, commands : Nat, heard : Nat, drops : Nat]
  BY ExchangeAssumption DEF ExchangeInv, ExchangeTypes
<1>3. /\ count' \in [sends : Nat, commands : Nat, heard : Nat, drops : Nat]
      /\ count'.heard = count.heard
  BY <1>1, <1>2
<1>4. ASSUME tx' \in [holder : Sender \cup {None}, event : BOOLEAN,
                      result : {"none", "sent", "failed"}],
             sender' \in [Sender -> {"idle", "lock", "wait"}], credit' \in Int
      PROVE  ExchangeTypes'
  BY <1>1, <1>2, <1>3, <1>4 DEF ExchangeTypes
<1>5. \A K : Fewer(reply', reply, K)
  BY <1>1, <1>2, FewerSame
<1>6. \A K : Fewer(wire', wire, K)
  BY <1>1, <1>2, FewerSame
<1>7. ASSUME ExchangeTypes' PROVE OrderInv' /\ (~late' => AskingInv' /\ LinkInv')
  <2>1. OrderInv'
    BY <1>1, <1>2, <1>3, <1>5, <1>7, OrderSame DEF ExchangeInv
  <2>2. \A c \in Callers : (Holds(c)' <=> Holds(c)) /\ caller'[c] = caller[c]
    BY <1>1 DEF Holds
  <2>3. ASSUME ~late PROVE AskingInv'
    BY <1>1, <1>2, <1>5, <1>6, <1>7, <2>2, <2>3, AskingSame DEF ExchangeInv
  <2>4. ASSUME ~late PROVE LinkInv'
    BY <1>1, <1>2, <1>5, <1>7, <2>4, LinkSame DEF ExchangeInv
  <2> QED BY <1>1, <2>1, <2>3, <2>4
<1>8. /\ credit - Untold \in Nat /\ Backed(reply, credit - Untold)
      /\ Untold \in 0..1 /\ (Untold = 1 => Backed(reply, credit - Untold + 1))
      /\ \A r \in Sender : sender[r] = "wait" => tx.holder = r
  <2>1. credit - Untold \in Nat /\ Backed(reply, credit - Untold)
    BY DEF ExchangeInv, CreditInv
  <2>2. Frame("done", 0) \in Got1
    BY Frames2 DEF ExchangeInv, ExchangeTypes
  <2>3. Backed(reply, credit - Untold + 1)
    BY <1>2, <2>1, <2>2, ConfirmationSent
  <2> QED BY <2>1, <2>3 DEF ExchangeInv, CreditInv, Untold
<1>9. /\ tx'.holder = None => Untold' = 0
      /\ tx'.result = "none" => Untold' = 0
  BY DEF Untold
<1>14. ASSUME Untold' = 0, credit' \in Nat, Backed(reply, credit'),
              \A r \in Sender : sender'[r] = "wait" => tx'.holder = r
       PROVE  CreditInv'
  <2>0. Untold' = 0 /\ credit' \in Nat
    BY <1>14
  <2>a. \A n \in Nat : n - 0 = n
    OBVIOUS
  <2>1. (credit - Untold)' = credit'
    BY <2>0, <2>a, Zenon
  <2>2. Backed(reply, credit - Untold)' <=> Backed(reply, credit')
    <3>1. Confirmations(reply)' = Confirmations(reply)
      BY <1>1 DEF Confirmations
    <3> QED BY <2>1, <3>1 DEF Backed
  <2> QED BY <1>14, <2>1, <2>2 DEF CreditInv
<1>10. CASE SendFrameAndWait(s)
  <2>1. /\ UNCHANGED <<tx, credit>> /\ sender' = [sender EXCEPT ![s] = "lock"]
    BY <1>10 DEF SendFrameAndWait
  <2>2. ExchangeTypes'
    BY <1>2, <1>4, <2>1
  <2>3. \A r \in Sender : sender'[r] = "wait" => sender[r] = "wait"
    BY <1>2, <2>1
  <2>4. CreditInv'
    BY <1>2, <1>5, <2>1, <2>2, <2>3, CreditSame DEF ExchangeInv
  <2> QED BY <1>7, <2>2, <2>4 DEF ExchangeInv
<1>11. CASE SendFrame(s)
  <2>1. /\ credit' = credit /\ tx.holder = None
        /\ \/ tx' = Cleared(s) /\ sender' = [sender EXCEPT ![s] = "wait"]
           \/ tx' = [Cleared(s) EXCEPT !.holder = None] /\ sender' = [sender EXCEPT ![s] = "idle"]
    BY <1>11 DEF SendFrame, history
  <2>2. /\ tx' \in [holder : Sender \cup {None}, event : BOOLEAN,
                    result : {"none", "sent", "failed"}]
        /\ tx'.result = "none"
        /\ sender' \in [Sender -> {"idle", "lock", "wait"}]
    <3>1. sender' \in [Sender -> {"idle", "lock", "wait"}]
      BY <1>2, <2>1
    <3>2. tx' = Cleared(s) \/ tx' = [Cleared(s) EXCEPT !.holder = None]
      BY <2>1
    <3>3. CASE tx' = Cleared(s)
      BY <3>1, <3>3 DEF Cleared
    <3>4. CASE tx' = [Cleared(s) EXCEPT !.holder = None]
      BY <3>1, <3>4 DEF Cleared
    <3> QED BY <3>2, <3>3, <3>4
  <2>3. ExchangeTypes'
    BY <1>2, <1>4, <2>1, <2>2
  <2>4. \A r \in Sender : sender[r] # "wait"
    BY <1>2, <1>8, <2>1
  <2>5. \A r \in Sender : sender'[r] = "wait" => r = s /\ tx'.holder = s
    BY <1>2, <2>1, <2>4 DEF Cleared
  <2>6. credit \in Nat /\ Backed(reply, credit)
    <3>1. Untold = 0 /\ credit - 0 = credit
      BY <1>2, <2>1 DEF Untold
    <3> QED BY <1>8, <3>1
  <2>7. CreditInv'
    BY <1>9, <1>14, <2>1, <2>2, <2>5, <2>6
  <2> QED BY <1>7, <2>3, <2>7 DEF ExchangeInv
<1>12. CASE ResolveTxDone(s)
  <2>1. /\ credit' = IF tx.result = "sent" THEN credit - 1 ELSE credit
        /\ sender[s] = "wait"
        /\ tx' = [tx EXCEPT !.holder = None] /\ sender' = [sender EXCEPT ![s] = "idle"]
    BY <1>12 DEF ResolveTxDone
  <2>2. /\ tx' \in [holder : Sender \cup {None}, event : BOOLEAN,
                    result : {"none", "sent", "failed"}]
        /\ tx'.holder = None
        /\ sender' \in [Sender -> {"idle", "lock", "wait"}] /\ credit' \in Int
    <3>1. sender' \in [Sender -> {"idle", "lock", "wait"}] /\ credit' \in Int
      BY <1>2, <2>1
    <3>2. tx' = [tx EXCEPT !.holder = None]
      BY <2>1
    <3> QED BY <1>2, <3>1, <3>2
  <2>3. ExchangeTypes'
    BY <1>4, <2>2
  <2>4. tx.holder = s
    BY <1>8, <2>1
  <2>5. \A r \in Sender : sender'[r] # "wait"
    <3>1. sender' = [sender EXCEPT ![s] = "idle"]
      BY <2>1
    <3>2. \A r \in Sender : sender[r] = "wait" => r = s
      BY <1>8, <2>4
    <3> QED BY <1>2, <3>1, <3>2
  <2>6. Untold = IF tx.result = "sent" THEN 1 ELSE 0
    BY <1>2, <2>4 DEF Untold
  <2>7. credit' \in Nat /\ Backed(reply, credit')
    <3>1. credit' = credit - Untold
      BY <1>2, <2>1, <2>6
    <3> QED BY <1>8, <3>1
  <2>8. CreditInv'
    BY <1>9, <1>14, <2>2, <2>5, <2>7
  <2> QED BY <1>7, <2>3, <2>8 DEF ExchangeInv
<1>13. CASE SendUnconfirmed(s)
  <2>1. /\ credit' = credit /\ sender[s] = "wait"
        /\ tx' = [tx EXCEPT !.holder = None] /\ sender' = [sender EXCEPT ![s] = "idle"]
    BY <1>13 DEF SendUnconfirmed, history
  <2>2. /\ tx' \in [holder : Sender \cup {None}, event : BOOLEAN,
                    result : {"none", "sent", "failed"}]
        /\ tx'.holder = None
        /\ sender' \in [Sender -> {"idle", "lock", "wait"}] /\ credit' \in Int
    <3>1. sender' \in [Sender -> {"idle", "lock", "wait"}] /\ credit' \in Int
      BY <1>2, <2>1
    <3>2. tx' = [tx EXCEPT !.holder = None]
      BY <2>1
    <3> QED BY <1>2, <3>1, <3>2
  <2>3. ExchangeTypes'
    BY <1>4, <2>2
  <2>4. tx.holder = s
    BY <1>8, <2>1
  <2>5. \A r \in Sender : sender'[r] # "wait"
    <3>1. sender' = [sender EXCEPT ![s] = "idle"]
      BY <2>1
    <3>2. \A r \in Sender : sender[r] = "wait" => r = s
      BY <1>8, <2>4
    <3> QED BY <1>2, <3>1, <3>2
  <2>6. credit' \in Nat /\ Backed(reply, credit')
    <3>1. CASE Untold = 0
      <4>1. credit' = credit - Untold
        BY <1>2, <2>1, <3>1
      <4> QED BY <1>8, <4>1
    <3>2. CASE Untold = 1
      <4>1. credit' = credit - Untold + 1 /\ credit' \in Nat
        BY <1>2, <1>8, <2>1, <3>2
      <4> QED BY <1>8, <3>2, <4>1
    <3> QED BY <1>8, <3>1, <3>2
  <2>7. CreditInv'
    BY <1>9, <1>14, <2>2, <2>5, <2>6
  <2> QED BY <1>7, <2>3, <2>7 DEF ExchangeInv
<1> QED BY <1>10, <1>11, <1>12, <1>13

LEMMA CommandsAlone ==
  ASSUME ExchangeInv, ExchangeTypes',
         UNCHANGED <<caller, response, responses, lied, late, link, relapsed>>,
         modem'.set = modem.set, Fewer(wire', wire, Orders), Fewer(reply', reply, Answers)
  PROVE  ~late' => AskingInv' /\ LinkInv'
<1>1. ExchangeTypes
  BY DEF ExchangeInv
<1>2. \A c \in Callers : (Holds(c)' <=> Holds(c)) /\ caller'[c] = caller[c]
  BY DEF Holds
<1>3. ASSUME ~late PROVE AskingInv'
  BY <1>1, <1>2, <1>3, AskingSame DEF ExchangeInv
<1>4. ASSUME ~late PROVE LinkInv'
  BY <1>1, <1>4, LinkSame DEF ExchangeInv
<1> QED BY <1>3, <1>4

LEMMA TxWorkerStep == ASSUME ExchangeInv, TxWorker PROVE ExchangeInv'
<1>1. /\ UNCHANGED <<link, session, sender, tx, caller, response, responses, pending, out, modem,
                     reply, count, credit, late, lied, relapsed>>
      /\ wire' = Append(wire, Frame("data", 0))
  BY DEF TxWorker, asking, hearing, history
<1>2. /\ ExchangeTypes /\ session \in Nat /\ wire \in Seq(Sent1) /\ reply \in Seq(Got1)
  BY DEF ExchangeInv, ExchangeTypes
<1>3. Frame("data", 0) \in Sent1 /\ Frame("data", 0).kind = "data"
  BY <1>2, Frames2
<1>4. wire' \in Seq(Sent1)
  BY <1>1, <1>2, <1>3
<1>5. ExchangeTypes'
  BY <1>1, <1>2, <1>4 DEF ExchangeTypes
<1>6. \A K : Fewer(reply', reply, K)
  BY <1>1, <1>2, FewerSame
<1>7. Fewer(wire', wire, Orders)
  <2>1. Frame("data", 0).kind \notin Orders
    BY <1>3 DEF Orders
  <2> QED BY <1>1, <1>2, <1>3, <2>1, FewerAppend
<1>8. CreditInv'
  BY <1>1, <1>2, <1>5, <1>6, CreditSame DEF ExchangeInv
<1>9. OrderInv'
  BY <1>1, <1>2, <1>5, <1>6, OrderSame DEF ExchangeInv
<1>10. ~late' => AskingInv' /\ LinkInv'
  BY <1>1, <1>5, <1>6, <1>7, CommandsAlone
<1> QED BY <1>5, <1>8, <1>9, <1>10 DEF ExchangeInv

(* What the RX worker reads: the head of the line is gone.                 *)
LEMMA ReadLine ==
  ASSUME ExchangeTypes, NEW K, Received(K)
  PROVE  /\ reply # <<>> /\ Head(reply) \in Got1 /\ Head(reply).kind \in K
         /\ reply' = Tail(reply) /\ reply' \in Seq(Got1) /\ \A J : Fewer(reply', reply, J)
<1>1. reply \in Seq(Got1) /\ reply # <<>> /\ reply' = Tail(reply) /\ Head(reply).kind \in K
  BY DEF ExchangeTypes, Received
<1>2. Head(reply) \in Got1 /\ Tail(reply) \in Seq(Got1)
  BY <1>1
<1> QED BY <1>1, <1>2, FewerTail

LEMMA TxDoneStep == ASSUME ExchangeInv, TxDone PROVE ExchangeInv'
<1> DEFINE res == IF Head(reply).arg = 1 THEN "sent" ELSE "failed"
<1>1. /\ UNCHANGED <<link, session, sender, caller, response, responses, pending, out, modem,
                     wire, count, credit, late, lied, relapsed>>
      /\ Received({"done"}) /\ tx' = [tx EXCEPT !.event = TRUE, !.result = res]
  BY DEF TxDone, asking, hearing, history
<1>2. /\ ExchangeTypes /\ wire \in Seq(Sent1) /\ reply \in Seq(Got1) /\ credit \in Int
      /\ tx \in [holder : Sender \cup {None}, event : BOOLEAN, result : {"none", "sent", "failed"}]
  BY DEF ExchangeInv, ExchangeTypes
<1>3. /\ reply # <<>> /\ Head(reply).kind = "done" /\ reply' = Tail(reply)
      /\ reply' \in Seq(Got1) /\ \A J : Fewer(reply', reply, J)
  BY <1>1, <1>2, ReadLine
<1>4. /\ tx' \in [holder : Sender \cup {None}, event : BOOLEAN, result : {"none", "sent", "failed"}]
      /\ tx'.holder = tx.holder /\ tx'.result = res
  BY <1>1, <1>2
<1>5. ExchangeTypes'
  BY <1>1, <1>2, <1>3, <1>4 DEF ExchangeTypes
<1>6. CreditInv'
  <2> DEFINE n == credit - Untold
  <2>1. n \in Nat /\ Backed(reply, n) /\ credit - 0 = credit /\ Untold \in 0..1
    BY <1>2 DEF ExchangeInv, CreditInv, Untold
  <2>2. ASSUME NEW m \in Nat, credit - Untold' = m, Backed(reply', m) PROVE CreditInv'
    <3>1. \A s \in Sender : sender'[s] = "wait" => tx'.holder = s
      BY <1>1, <1>4 DEF ExchangeInv, CreditInv
    <3>2. (credit - Untold)' = m
      BY <1>1, <2>2
    <3>3. Backed(reply, credit - Untold)' <=> Backed(reply', m)
      BY <3>2 DEF Backed, Confirmations
    <3> QED BY <2>2, <3>1, <3>2, <3>3 DEF CreditInv
  <2>3. Frame("done", 0) \in Got1
    BY Frames2 DEF ExchangeInv, ExchangeTypes
  <2>4. CASE Head(reply).arg = 1
    <3>1. n - 1 \in Nat /\ Backed(reply', n - 1)
      BY <1>2, <1>3, <2>1, <2>4, ConfirmationRead
    <3>2. Backed(reply', n - 1 + 1)
      BY <1>3, <2>3, <3>1, ConfirmationSent
    <3>3. Untold' \in 0..1 /\ (Untold = 1 => Untold' = 1)
      BY <1>4, <2>4 DEF Untold
    <3>4. CASE Untold = 1
      <4>1. credit - Untold' = n
        BY <1>2, <3>3, <3>4
      <4>2. n - 1 + 1 = n
        BY <2>1
      <4> QED BY <2>1, <2>2, <3>2, <4>1, <4>2
    <3>5. CASE Untold = 0 /\ Untold' = 1
      <4>1. credit - Untold' = n - 1
        BY <1>2, <3>5
      <4> QED BY <2>2, <3>1, <4>1
    <3>6. CASE Untold = 0 /\ Untold' = 0
      <4>1. credit - Untold' = n /\ n - 1 + 1 = n
        BY <1>2, <2>1, <3>6
      <4> QED BY <2>1, <2>2, <3>2, <4>1
    <3> QED BY <2>1, <3>3, <3>4, <3>5, <3>6
  <2>5. CASE Head(reply).arg # 1
    <3>1. Untold' = 0
      BY <1>4, <2>5 DEF Untold
    <3>2. Backed(reply', n)
      BY <1>2, <1>3, <2>1, BackedFewer
    <3>3. Backed(reply', n + 1)
      BY <1>3, <2>1, <2>3, <3>2, ConfirmationSent
    <3>4. CASE Untold = 0
      <4>1. credit - Untold' = n
        BY <1>2, <3>1, <3>4
      <4> QED BY <2>1, <2>2, <3>2, <4>1
    <3>5. CASE Untold = 1
      <4>1. credit - Untold' = n + 1 /\ n + 1 \in Nat
        BY <1>2, <2>1, <3>1, <3>5
      <4> QED BY <2>2, <3>3, <4>1
    <3> QED BY <2>1, <3>4, <3>5
  <2> QED BY <2>4, <2>5
<1>7. OrderInv'
  BY <1>1, <1>2, <1>3, <1>5, OrderSame DEF ExchangeInv
<1>8. Fewer(wire', wire, Orders)
  BY <1>1, <1>2, FewerSame
<1>9. ~late' => AskingInv' /\ LinkInv'
  BY <1>1, <1>3, <1>5, <1>8, CommandsAlone
<1> QED BY <1>5, <1>6, <1>7, <1>9 DEF ExchangeInv

LEMMA TxBusyStep == ASSUME ExchangeInv, TxBusy PROVE ExchangeInv'
<1>1. /\ UNCHANGED <<link, session, sender, tx, caller, response, responses, pending, out, modem,
                     wire, count, credit, late, lied, relapsed>>
      /\ Received({"busy"})
  BY DEF TxBusy, sending, asking, hearing, history
<1>2. ExchangeTypes /\ wire \in Seq(Sent1)
  BY DEF ExchangeInv, ExchangeTypes
<1>3. reply' \in Seq(Got1) /\ \A J : Fewer(reply', reply, J)
  BY <1>1, <1>2, ReadLine
<1>4. ExchangeTypes'
  BY <1>1, <1>2, <1>3 DEF ExchangeTypes
<1>5. CreditInv'
  BY <1>1, <1>2, <1>3, <1>4, CreditSame DEF ExchangeInv
<1>6. OrderInv'
  BY <1>1, <1>2, <1>3, <1>4, OrderSame DEF ExchangeInv
<1>7. Fewer(wire', wire, Orders)
  BY <1>1, <1>2, FewerSame
<1>8. ~late' => AskingInv' /\ LinkInv'
  BY <1>1, <1>3, <1>4, <1>7, CommandsAlone
<1> QED BY <1>4, <1>5, <1>6, <1>8 DEF ExchangeInv

(* A packet joins those that wait for their RxMeta.                        *)
LEMMA DataReceivedStep == ASSUME ExchangeInv, DataReceived PROVE ExchangeInv'
<1> DEFINE f == Head(reply)
<1>1. /\ UNCHANGED <<link, session, sender, tx, caller, response, responses, out, modem,
                     wire, count, credit, late, lied, relapsed>>
      /\ Received({"heard"})
      /\ pending' = pending \/ pending' = Append(pending, f)
  BY DEF DataReceived, sending, asking, history
<1>2. ExchangeTypes /\ wire \in Seq(Sent1) /\ pending \in Seq(Got1) /\ reply \in Seq(Got1)
  BY DEF ExchangeInv, ExchangeTypes
<1>3. /\ reply # <<>> /\ f \in Got1 /\ f.kind = "heard" /\ reply' = Tail(reply)
      /\ reply' \in Seq(Got1) /\ \A J : Fewer(reply', reply, J)
  BY <1>1, <1>2, ReadLine
<1>4. pending' \in Seq(Got1)
  <2>1. \A g \in Got1 : Append(pending, g) \in Seq(Got1)
    BY <1>2
  <2> QED BY <1>1, <1>2, <1>3, <2>1
<1>5. ExchangeTypes'
  BY <1>1, <1>2, <1>3, <1>4 DEF ExchangeTypes
<1>6. CreditInv'
  BY <1>1, <1>2, <1>3, <1>5, CreditSame DEF ExchangeInv
<1>7. OrderInv'
  <2>1. CASE pending' = pending
    BY <1>1, <1>2, <1>3, <1>5, <2>1, OrderSame DEF ExchangeInv
  <2>2. CASE pending' = Append(pending, f)
    <3>1. /\ \A j \in 1..Len(reply') : /\ j + 1 \in 1..Len(reply) /\ 1 < j + 1
                                       /\ reply'[j] = reply[j + 1]
          /\ 1 \in 1..Len(reply) /\ reply[1] = f
      BY <1>2, <1>3
    <3>2. \A i \in 1..Len(pending') : \/ i \in 1..Len(pending) /\ pending'[i] = pending[i]
                                      \/ i = Len(pending) + 1 /\ pending'[i] = f
      BY <1>2, <1>3, <2>2
    <3> HIDE DEF f
    <3>3. ASSUME NEW i \in 1..Len(reply'), NEW j \in 1..Len(reply'), i < j,
                 reply'[i].kind = "heard", reply'[j].kind = "heard"
          PROVE  reply'[i].arg < reply'[j].arg
      <4>1. i + 1 < j + 1
        BY <3>3
      <4> QED BY <3>1, <3>3, <4>1 DEF ExchangeInv, OrderInv
    <3>4. ASSUME NEW i \in 1..Len(pending'), NEW j \in 1..Len(reply'), reply'[j].kind = "heard"
          PROVE  pending'[i].arg < reply'[j].arg
      BY <1>3, <3>1, <3>2, <3>4 DEF ExchangeInv, OrderInv
    <3>5. ASSUME NEW i \in 1..Len(pending'), NEW j \in 1..Len(pending'), i < j
          PROVE  pending'[i].arg < pending'[j].arg
      <4>1. i \in 1..Len(pending) /\ pending'[i] = pending[i]
        BY <3>2, <3>5
      <4>2. CASE j \in 1..Len(pending) /\ pending'[j] = pending[j]
        BY <3>5, <4>1, <4>2 DEF ExchangeInv, OrderInv
      <4>3. CASE pending'[j] = f
        BY <1>3, <3>1, <4>1, <4>3 DEF ExchangeInv, OrderInv
      <4> QED BY <3>2, <4>2, <4>3
    <3>6. \A i \in 1..Len(pending') : out.id < pending'[i].arg /\ pending'[i].arg <= count.heard
      BY <1>3, <3>1, <3>2 DEF ExchangeInv, OrderInv
    <3>7. \A i \in 1..Len(reply') :
            reply'[i].kind = "heard" => out.id < reply'[i].arg /\ reply'[i].arg <= count.heard
      BY <3>1 DEF ExchangeInv, OrderInv
    <3> QED BY <1>1, <3>3, <3>4, <3>5, <3>6, <3>7 DEF ExchangeInv, OrderInv
  <2> QED BY <1>1, <2>1, <2>2
<1>8. Fewer(wire', wire, Orders)
  BY <1>1, <1>2, FewerSame
<1>9. ~late' => AskingInv' /\ LinkInv'
  BY <1>1, <1>3, <1>5, <1>8, CommandsAlone
<1> QED BY <1>5, <1>6, <1>7, <1>9 DEF ExchangeInv

(* The oldest packet is delivered, with its RxMeta or without.             *)
LEMMA DeliverOrder ==
  ASSUME ExchangeInv, pending # <<>>, pending' = Tail(pending), NEW meta, NEW from,
         Deliver(Head(pending), meta, from), count' = count, Fewer(reply', reply, {"heard"})
  PROVE  OrderInv' /\ out'.id > out.id
<1>1. pending \in Seq(Got1)
  BY DEF ExchangeInv, ExchangeTypes
<1>2. PICK n \in Nat : \A j \in 1..Len(reply') :
        reply'[j].kind = "heard" => j + n \in 1..Len(reply) /\ reply'[j] = reply[j + n]
  BY DEF Fewer
<1>3. out'.id = pending[1].arg /\ 1 \in 1..Len(pending)
  <2>1. Head(pending) = pending[1] /\ 1 \in 1..Len(pending)
    BY <1>1
  <2> QED BY <2>1 DEF Deliver
<1>4. \A i \in 1..Len(pending') : /\ i + 1 \in 1..Len(pending) /\ 1 < i + 1
                                  /\ pending'[i] = pending[i + 1]
  BY <1>1
<1>5. OrderInv
  BY DEF ExchangeInv
<1>6. ASSUME NEW i \in 1..Len(pending'), NEW j \in 1..Len(pending'), i < j
      PROVE  pending'[i].arg < pending'[j].arg
  <2>1. i + 1 < j + 1
    BY <1>6
  <2> QED BY <1>4, <1>5, <2>1 DEF OrderInv
<1>7. \A i \in 1..Len(pending') : out'.id < pending'[i].arg /\ pending'[i].arg <= count.heard
  BY <1>3, <1>4, <1>5 DEF OrderInv
<1>8. ASSUME NEW i \in 1..Len(reply'), NEW j \in 1..Len(reply'), i < j,
             reply'[i].kind = "heard", reply'[j].kind = "heard"
      PROVE  reply'[i].arg < reply'[j].arg
  <2>1. /\ i + n \in 1..Len(reply) /\ reply'[i] = reply[i + n]
        /\ j + n \in 1..Len(reply) /\ reply'[j] = reply[j + n]
    BY <1>2, <1>8
  <2>2. i + n < j + n
    BY <1>8
  <2> QED BY <1>5, <1>8, <2>1, <2>2 DEF OrderInv
<1>9. ASSUME NEW j \in 1..Len(reply'), reply'[j].kind = "heard"
      PROVE  /\ \A i \in 1..Len(pending') : pending'[i].arg < reply'[j].arg
             /\ out'.id < reply'[j].arg /\ reply'[j].arg <= count.heard
  <2>1. j + n \in 1..Len(reply) /\ reply'[j] = reply[j + n]
    BY <1>2, <1>9
  <2>2. out'.id < reply'[j].arg /\ reply'[j].arg <= count.heard
    BY <1>3, <1>5, <1>9, <2>1 DEF OrderInv
  <2>3. \A i \in 1..Len(pending') : pending'[i].arg < reply'[j].arg
    BY <1>4, <1>5, <1>9, <2>1 DEF OrderInv
  <2> QED BY <2>2, <2>3
<1>10. out'.id <= count.heard /\ out'.id > out.id
  <2>1. out.id < pending[1].arg /\ pending[1].arg <= count.heard
    BY <1>3, <1>5 DEF OrderInv
  <2>2. out.id \in Nat
    BY DEF ExchangeInv, ExchangeTypes
  <2>3. pending[1] \in Got1
    BY <1>1, <1>3
  <2>4. pending[1].arg \in Nat
    BY <2>3 DEF Got1
  <2> QED BY <1>3, <2>1, <2>2, <2>4
<1> QED BY <1>6, <1>7, <1>8, <1>9, <1>10 DEF OrderInv

LEMMA DeliverTypes ==
  ASSUME ExchangeTypes, pending # <<>>, pending' = Tail(pending), NEW meta \in Nat, NEW from \in Nat,
         Deliver(Head(pending), meta, from)
  PROVE  pending' \in Seq(Got1) /\ out' \in [id : Nat, of : Nat, meta : Nat, from : Nat]
<1>1. pending \in Seq(Got1)
  BY DEF ExchangeTypes
<1>2. Head(pending) \in Got1 /\ Tail(pending) \in Seq(Got1)
  BY <1>1
<1>3. Head(pending).arg \in Nat /\ Head(pending).of \in Nat
  BY <1>2 DEF Got1
<1> QED BY <1>2, <1>3 DEF Deliver

LEMMA RxMetaStep ==
  ASSUME ExchangeInv, RxMeta
  PROVE  ExchangeInv' /\ (out' # out => out'.id > out.id)
<1>1. /\ UNCHANGED <<link, session, sender, tx, caller, response, responses, modem, wire, count,
                     credit, late, lied, relapsed>>
      /\ Received({"meta"})
      /\ \/ UNCHANGED <<pending, out>>
         \/ /\ pending # <<>> /\ Deliver(Head(pending), Head(reply).arg, Head(reply).of)
            /\ pending' = Tail(pending)
  BY DEF RxMeta, sending, asking, history
<1>2. ExchangeTypes /\ wire \in Seq(Sent1)
  BY DEF ExchangeInv, ExchangeTypes
<1>3. /\ Head(reply) \in Got1 /\ reply' \in Seq(Got1) /\ \A J : Fewer(reply', reply, J)
  BY <1>1, <1>2, ReadLine
<1>4. Head(reply).arg \in Nat /\ Head(reply).of \in Nat
  BY <1>3 DEF Got1
<1>5. pending' \in Seq(Got1) /\ out' \in [id : Nat, of : Nat, meta : Nat, from : Nat]
  <2>1. CASE UNCHANGED <<pending, out>>
    BY <1>2, <2>1 DEF ExchangeTypes
  <2> QED BY <1>1, <1>2, <1>4, <2>1, DeliverTypes
<1>6. ExchangeTypes'
  BY <1>1, <1>2, <1>3, <1>5 DEF ExchangeTypes
<1>7. CreditInv'
  BY <1>1, <1>2, <1>3, <1>6, CreditSame DEF ExchangeInv
<1>8. OrderInv' /\ (out' # out => out'.id > out.id)
  <2>1. CASE UNCHANGED <<pending, out>>
    BY <1>1, <1>2, <1>3, <1>6, <2>1, OrderSame DEF ExchangeInv
  <2> QED BY <1>1, <1>3, <2>1, DeliverOrder
<1>9. Fewer(wire', wire, Orders)
  BY <1>1, <1>2, FewerSame
<1>10. ~late' => AskingInv' /\ LinkInv'
  BY <1>1, <1>3, <1>6, <1>9, CommandsAlone
<1> QED BY <1>6, <1>7, <1>8, <1>10 DEF ExchangeInv

LEMMA FlushStep ==
  ASSUME ExchangeInv, FlushExpiredRxFrames
  PROVE  ExchangeInv' /\ (out' # out => out'.id > out.id)
<1>1. /\ UNCHANGED <<link, session, sender, tx, caller, response, responses, modem, wire, reply,
                     count, credit, late, lied, relapsed>>
      /\ pending # <<>> /\ Deliver(Head(pending), 0, Head(pending).of)
      /\ pending' = Tail(pending)
  BY DEF FlushExpiredRxFrames, sending, asking, lines, history
<1>2. /\ ExchangeTypes /\ wire \in Seq(Sent1) /\ reply \in Seq(Got1) /\ pending \in Seq(Got1)
  BY DEF ExchangeInv, ExchangeTypes
<1>3. Head(pending) \in Got1
  BY <1>1, <1>2
<1>4. Head(pending).of \in Nat
  BY <1>3 DEF Got1
<1>5. pending' \in Seq(Got1) /\ out' \in [id : Nat, of : Nat, meta : Nat, from : Nat]
  BY <1>1, <1>2, <1>4, DeliverTypes
<1>6. ExchangeTypes'
  BY <1>1, <1>2, <1>5 DEF ExchangeTypes
<1>7. \A J : Fewer(reply', reply, J)
  BY <1>1, <1>2, FewerSame
<1>8. CreditInv'
  BY <1>1, <1>2, <1>6, <1>7, CreditSame DEF ExchangeInv
<1>9. OrderInv' /\ out'.id > out.id
  BY <1>1, <1>7, DeliverOrder
<1>10. Fewer(wire', wire, Orders)
  BY <1>1, <1>2, FewerSame
<1>11. ~late' => AskingInv' /\ LinkInv'
  BY <1>1, <1>6, <1>7, <1>10, CommandsAlone
<1> QED BY <1>6, <1>8, <1>9, <1>11 DEF ExchangeInv

-----------------------------------------------------------------------------
(* The modem takes data from the wire, transmits it and hears packets.     *)
LEMMA TakesDataStep == ASSUME ExchangeInv, ModemTakesData PROVE ExchangeInv'
<1>1. /\ UNCHANGED <<link, session, sender, tx, caller, response, responses, pending, out, count,
                     credit, late, lied, relapsed>>
      /\ wire # <<>> /\ wire' = Tail(wire)
      /\ \/ reply' = Append(reply, Frame("busy", 0)) /\ modem' = modem
         \/ reply' = reply /\ modem' = [modem EXCEPT !.tx = TRUE]
  BY DEF ModemTakesData, sending, asking, hearing, history
<1>2. /\ ExchangeTypes /\ wire \in Seq(Sent1) /\ reply \in Seq(Got1) /\ session \in Nat
      /\ modem \in [tx : BOOLEAN, set : BOOLEAN, report : BOOLEAN]
  BY DEF ExchangeInv, ExchangeTypes
<1>3. Frame("busy", 0) \in Got1 /\ Frame("busy", 0).kind = "busy"
  BY <1>2, Frames2
<1>4. /\ modem' \in [tx : BOOLEAN, set : BOOLEAN, report : BOOLEAN] /\ modem'.set = modem.set
  BY <1>1, <1>2
<1>5. /\ Tail(wire) \in Seq(Sent1) /\ Append(reply, Frame("busy", 0)) \in Seq(Got1)
  BY <1>1, <1>2, <1>3
<1>6. wire' \in Seq(Sent1) /\ reply' \in Seq(Got1)
  BY <1>1, <1>2, <1>5
<1>7. ExchangeTypes'
  BY <1>1, <1>2, <1>4, <1>6 DEF ExchangeTypes
<1>8. \A K : "busy" \notin K => Fewer(reply', reply, K)
  <2> SUFFICES ASSUME NEW K, "busy" \notin K PROVE Fewer(reply', reply, K)
    OBVIOUS
  <2>1. Frame("busy", 0).kind \notin K
    BY <1>3
  <2>2. Fewer(reply, reply, K)
    BY <1>2, FewerSame
  <2>3. Fewer(Append(reply, Frame("busy", 0)), reply, K)
    BY <1>2, <1>3, <2>1, FewerAppend
  <2> QED BY <1>1, <2>2, <2>3
<1>9. Fewer(wire', wire, Orders)
  BY <1>1, <1>2, FewerTail
<1>10. /\ Fewer(reply', reply, {"done"}) /\ Fewer(reply', reply, {"heard"})
       /\ Fewer(reply', reply, Answers)
  BY <1>8 DEF Answers
<1>11. CreditInv'
  BY <1>1, <1>2, <1>7, <1>10, CreditSame DEF ExchangeInv
<1>12. OrderInv'
  BY <1>1, <1>2, <1>7, <1>10, OrderSame DEF ExchangeInv
<1>13. ~late' => AskingInv' /\ LinkInv'
  BY <1>1, <1>4, <1>7, <1>9, <1>10, CommandsAlone
<1> QED BY <1>7, <1>11, <1>12, <1>13 DEF ExchangeInv

LEMMA TransmitsStep == ASSUME ExchangeInv, ModemTransmits PROVE ExchangeInv'
<1>1. PICK ok \in {0, 1} :
        /\ reply' \in {reply} \cup (IF link = "down" THEN {} ELSE {Append(reply, Frame("done", ok))})
        /\ credit' = credit + ok
  BY DEF ModemTransmits
<1>2. /\ UNCHANGED <<link, session, sender, tx, caller, response, responses, pending, out, wire,
                     count, late, lied, relapsed>>
      /\ modem' = [modem EXCEPT !.tx = FALSE]
  BY DEF ModemTransmits, sending, asking, hearing
<1>3. /\ ExchangeTypes /\ wire \in Seq(Sent1) /\ reply \in Seq(Got1) /\ session \in Nat
      /\ modem \in [tx : BOOLEAN, set : BOOLEAN, report : BOOLEAN] /\ credit \in Int
  BY DEF ExchangeInv, ExchangeTypes
<1> DEFINE f == Frame("done", ok)
<1>4. f \in Got1 /\ f.kind = "done" /\ f.arg = ok
  BY <1>3, Frames2
<1> HIDE DEF f
<1>5. reply' = reply \/ reply' = Append(reply, f)
  BY <1>1 DEF f
<1>6. Append(reply, f) \in Seq(Got1)
  BY <1>3, <1>4
<1>7. /\ modem' \in [tx : BOOLEAN, set : BOOLEAN, report : BOOLEAN] /\ modem'.set = modem.set
  BY <1>2, <1>3
<1>8. reply' \in Seq(Got1) /\ credit' \in Int
  <2>1. reply' \in Seq(Got1)
    BY <1>3, <1>5, <1>6
  <2>2. credit' \in Int
    BY <1>1, <1>3
  <2> QED BY <2>1, <2>2
<1>9. ExchangeTypes'
  BY <1>2, <1>3, <1>7, <1>8 DEF ExchangeTypes
<1>10. \A K : "done" \notin K => Fewer(reply', reply, K)
  <2> SUFFICES ASSUME NEW K, "done" \notin K PROVE Fewer(reply', reply, K)
    OBVIOUS
  <2>1. f.kind \notin K
    BY <1>4
  <2>2. Fewer(reply, reply, K)
    BY <1>3, FewerSame
  <2>3. Fewer(Append(reply, f), reply, K)
    BY <1>3, <1>4, <2>1, FewerAppend
  <2> QED BY <1>5, <2>2, <2>3
<1>11. Fewer(wire', wire, Orders)
  BY <1>2, <1>3, FewerSame
<1>12. Fewer(reply', reply, {"heard"}) /\ Fewer(reply', reply, Answers)
  BY <1>10 DEF Answers
<1>13. CreditInv'
  <2> DEFINE n == credit - Untold
  <2>1. n \in Nat /\ Backed(reply, n)
    BY DEF ExchangeInv, CreditInv
  <2>2. (credit - Untold)' = n + ok /\ n + ok \in Nat
    <3>1. Untold \in 0..1 /\ Untold' = Untold
      BY <1>2 DEF Untold
    <3> QED BY <1>1, <1>3, <2>1, <3>1
  <2>3. /\ Backed(reply, n + 1) /\ Backed(Append(reply, f), n + 1)
        /\ ok # 1 => Backed(Append(reply, f), n)
    BY <1>3, <1>4, <2>1, ConfirmationSent
  <2> HIDE DEF n
  <2>5. Backed(reply', n + ok)
    <3>1. CASE ok = 1
      BY <1>5, <2>3, <3>1
    <3>2. CASE ok = 0
      <4>1. n + ok = n
        BY <2>1, <3>2
      <4> QED BY <1>5, <2>1, <2>3, <3>2, <4>1
    <3> QED BY <1>1, <3>1, <3>2
  <2>6. \A s \in Sender : sender'[s] = "wait" => tx'.holder = s
    BY <1>2 DEF ExchangeInv, CreditInv
  <2>7. Backed(reply, credit - Untold)' <=> Backed(reply', n + ok)
    BY <2>2 DEF Backed, Confirmations
  <2> QED BY <2>2, <2>5, <2>6, <2>7 DEF CreditInv
<1>14. OrderInv'
  BY <1>2, <1>3, <1>9, <1>12, OrderSame DEF ExchangeInv
<1>15. ~late' => AskingInv' /\ LinkInv'
  BY <1>2, <1>7, <1>9, <1>11, <1>12, CommandsAlone
<1> QED BY <1>9, <1>13, <1>14, <1>15 DEF ExchangeInv

(* A packet is heard: its frame is the newest of all.                      *)
LEMMA HearsStep == ASSUME ExchangeInv, ModemHears PROVE ExchangeInv'
<1> DEFINE id == count.heard + 1
           h == Frame("heard", id)
           m == Frame("meta", id)
           one == Append(reply, h)
<1>1. /\ UNCHANGED <<link, session, sender, tx, caller, response, responses, pending, out, modem,
                     wire, credit, late, lied, relapsed>>
      /\ count' = [count EXCEPT !.heard = @ + 1]
      /\ \/ reply' = (reply \o <<h>>) \o <<m>>
         \/ reply' = (reply \o <<h>>) \o <<>>
  BY DEF ModemHears, sending, asking, hearing
<1>2. /\ ExchangeTypes /\ wire \in Seq(Sent1) /\ reply \in Seq(Got1) /\ session \in Nat
      /\ count \in [sends : Nat, commands : Nat, heard : Nat, drops : Nat]
      /\ out \in [id : Nat, of : Nat, meta : Nat, from : Nat] /\ pending \in Seq(Got1)
  BY DEF ExchangeInv, ExchangeTypes
<1>3. id \in Nat /\ count.heard \in Nat
  BY <1>2
<1>4. /\ h \in Got1 /\ h.kind = "heard" /\ h.arg = id
      /\ m \in Got1 /\ m.kind = "meta"
  BY <1>2, <1>3, Frames2
<1> HIDE DEF h, m
<1>5. one \in Seq(Got1) /\ reply \o <<h>> = one
  BY <1>2, <1>4
<1>6. one \o <<m>> = Append(one, m) /\ one \o <<>> = one /\ Append(one, m) \in Seq(Got1)
  BY <1>4, <1>5
<1>7. reply' = one \/ reply' = Append(one, m)
  BY <1>1, <1>5, <1>6
<1>8. reply' \in Seq(Got1)
  BY <1>5, <1>6, <1>7
<1>9. /\ count' \in [sends : Nat, commands : Nat, heard : Nat, drops : Nat]
      /\ count'.heard = id
  <2>1. count' = [count EXCEPT !.heard = @ + 1]
    BY <1>1
  <2> QED BY <1>2, <1>3, <2>1
<1>10. ExchangeTypes'
  <2>1. count' \in [sends : Nat, commands : Nat, heard : Nat, drops : Nat]
    BY <1>9
  <2>2. UNCHANGED <<link, session, sender, tx, caller, response, pending, out, modem, wire,
                    credit, late, lied, relapsed>>
    BY <1>1
  <2> QED BY <1>2, <1>8, <2>1, <2>2 DEF ExchangeTypes
<1>11. \A K : "meta" \notin K => Fewer(reply', one, K)
  <2> SUFFICES ASSUME NEW K, "meta" \notin K PROVE Fewer(reply', one, K)
    OBVIOUS
  <2>1. m.kind \notin K
    BY <1>4
  <2> HIDE DEF one
  <2> QED BY <1>4, <1>5, <1>7, <2>1, FewerSame, FewerAppend
<1>12. \A K : "meta" \notin K /\ "heard" \notin K => Fewer(reply', reply, K)
  <2> SUFFICES ASSUME NEW K, "meta" \notin K, "heard" \notin K PROVE Fewer(reply', reply, K)
    OBVIOUS
  <2>1. h.kind \notin K
    BY <1>4
  <2>2. Fewer(one, reply, K)
    BY <1>2, <1>4, <2>1, FewerAppend
  <2> HIDE DEF one
  <2> QED BY <1>2, <1>5, <1>8, <1>11, <2>2, FewerTwice
<1>13. Fewer(reply', reply, {"done"}) /\ Fewer(reply', reply, Answers)
  BY <1>12 DEF Answers
<1>14. Fewer(wire', wire, Orders)
  BY <1>1, <1>2, FewerSame
<1>15. CreditInv'
  BY <1>1, <1>2, <1>10, <1>13, CreditSame DEF ExchangeInv
<1>16. ~late' => AskingInv' /\ LinkInv'
  BY <1>1, <1>10, <1>13, <1>14, CommandsAlone
<1>17. OrderInv'
  <2>1. OrderInv
    BY DEF ExchangeInv
  <2>2. \A j \in 1..Len(one) : \/ j \in 1..Len(reply) /\ one[j] = reply[j]
                               \/ j = Len(reply) + 1 /\ one[j] = h
    BY <1>2, <1>4
  <2> HIDE DEF one
  <2>3. PICK n \in Nat : \A j \in 1..Len(reply') :
          reply'[j].kind = "heard" => j + n \in 1..Len(one) /\ reply'[j] = one[j + n]
    <3>1. Fewer(reply', one, {"heard"})
      BY <1>11
    <3> QED BY <3>1 DEF Fewer
  <2>4. ASSUME NEW j \in 1..Len(reply'), reply'[j].kind = "heard"
        PROVE  \/ j + n \in 1..Len(reply) /\ reply'[j] = reply[j + n] /\ reply'[j].arg <= count.heard
               \/ j + n = Len(reply) + 1 /\ reply'[j].arg = id
    <3>1. j + n \in 1..Len(one) /\ reply'[j] = one[j + n]
      BY <2>3, <2>4
    <3> QED BY <1>4, <2>1, <2>2, <2>4, <3>1 DEF OrderInv
  <2>5. ASSUME NEW i \in 1..Len(reply'), NEW j \in 1..Len(reply'), i < j,
               reply'[i].kind = "heard", reply'[j].kind = "heard"
        PROVE  reply'[i].arg < reply'[j].arg
    <3>1. i + n < j + n
      BY <2>5
    <3>2. i + n \in 1..Len(reply) /\ reply'[i] = reply[i + n] /\ reply'[i].arg <= count.heard
      <4>1. ~(i + n = Len(reply) + 1)
        <5>1. j + n \in 1..Len(reply) \/ j + n = Len(reply) + 1
          BY <2>4, <2>5
        <5>2. Len(reply) \in Nat
          BY <1>2
        <5> QED BY <3>1, <5>1, <5>2
      <4> QED BY <2>4, <2>5, <4>1
    <3>3. CASE j + n \in 1..Len(reply) /\ reply'[j] = reply[j + n]
      BY <2>1, <2>5, <3>1, <3>2, <3>3 DEF OrderInv
    <3>4. CASE reply'[j].arg = id
      <4>1. reply'[i].arg \in Nat
        BY <1>8, GotArgs
      <4> QED BY <1>3, <3>2, <3>4, <4>1
    <3> QED BY <2>4, <2>5, <3>3, <3>4
  <2>6. ASSUME NEW j \in 1..Len(reply'), reply'[j].kind = "heard"
        PROVE  /\ \A i \in 1..Len(pending) : pending[i].arg < reply'[j].arg
               /\ out.id < reply'[j].arg /\ reply'[j].arg <= id
    <3>1. CASE j + n \in 1..Len(reply) /\ reply'[j] = reply[j + n] /\ reply'[j].arg <= count.heard
      <4>1. reply'[j].arg \in Nat
        BY <1>8, GotArgs
      <4>2. reply'[j].arg <= id
        BY <1>3, <3>1, <4>1
      <4> QED BY <2>1, <2>6, <3>1, <4>2 DEF OrderInv
    <3>2. CASE reply'[j].arg = id
      <4>1. \A i \in 1..Len(pending) : pending[i].arg \in Nat /\ pending[i].arg <= count.heard
        BY <1>2, <2>1, GotArgs DEF OrderInv
      <4>2. out.id \in Nat /\ out.id <= count.heard
        BY <1>2, <2>1 DEF OrderInv
      <4> QED BY <1>3, <3>2, <4>1, <4>2
    <3> QED BY <2>4, <2>6, <3>1, <3>2
  <2>7. \A i \in 1..Len(pending) : pending[i].arg <= id
    <3>1. \A i \in 1..Len(pending) : pending[i].arg \in Nat /\ pending[i].arg <= count.heard
      BY <1>2, <2>1, GotArgs DEF OrderInv
    <3> QED BY <1>3, <3>1
  <2>8. out.id <= id
    BY <1>2, <1>3, <2>1 DEF OrderInv
  <2> HIDE DEF id
  <2> QED BY <1>1, <1>9, <2>1, <2>5, <2>6, <2>7, <2>8 DEF OrderInv
<1> QED BY <1>10, <1>15, <1>16, <1>17 DEF ExchangeInv

-----------------------------------------------------------------------------
(* The commands: what a step of a caller leaves alone.                     *)
CallerType == [kind : {"none"} \cup Orders, at : {"idle", "lock", "wait"}]

LEMMA CallersKept ==
  ASSUME ExchangeTypes, NEW c \in Callers, NEW v \in CallerType,
         v.kind = "none" <=> v.at = "idle", caller' = [caller EXCEPT ![c] = v]
  PROVE  /\ caller' \in [Callers -> CallerType]
         /\ \A d \in Callers : caller'[d].kind = "none" <=> caller'[d].at = "idle"
         /\ caller'[c] = v /\ \A d \in Callers : d # c => caller'[d] = caller[d]
<1>1. /\ caller \in [Callers -> CallerType]
      /\ \A d \in Callers : caller[d].kind = "none" <=> caller[d].at = "idle"
  BY DEF ExchangeTypes, CallerType
<1>2. caller' \in [Callers -> CallerType]
  BY <1>1
<1>3. caller'[c] = v /\ \A d \in Callers : d # c => caller'[d] = caller[d]
  BY <1>1
<1> QED BY <1>1, <1>2, <1>3

LEMMA QuietCaller ==
  Quiet \in CallerType /\ Quiet.kind = "none" /\ Quiet.at = "idle"
  BY DEF Quiet, CallerType

LEMMA Elsewhere ==
  ASSUME ExchangeInv, ExchangeTypes',
         UNCHANGED <<sender, tx, reply, credit, pending, out>>, count'.heard = count.heard
  PROVE  CreditInv' /\ OrderInv'
<1>1. ExchangeTypes /\ reply \in Seq(Got1)
  BY DEF ExchangeInv, ExchangeTypes
<1>2. \A K : Fewer(reply', reply, K)
  BY <1>1, FewerSame
<1>3. CreditInv'
  BY <1>1, <1>2, CreditSame DEF ExchangeInv
<1>4. OrderInv'
  BY <1>1, <1>2, OrderSame DEF ExchangeInv
<1> QED BY <1>3, <1>4

LEMMA AskStep ==
  ASSUME ExchangeInv, NEW c \in Caller, NEW kind \in Orders, Asked(c, kind)
  PROVE  ExchangeInv'
<1> DEFINE v == [kind |-> kind, at |-> "lock"]
<1>1. /\ caller[c] = Quiet /\ caller' = [caller EXCEPT ![c] = v]
      /\ count' = [count EXCEPT !.commands = @ + 1]
      /\ UNCHANGED <<link, session, sender, tx, response, responses, pending, out, modem, wire,
                     reply, credit, late, lied, relapsed>>
  BY DEF Asked, Ask, sending, hearing, lines
<1>2. /\ ExchangeTypes /\ wire \in Seq(Sent1) /\ reply \in Seq(Got1)
      /\ count \in [sends : Nat, commands : Nat, heard : Nat, drops : Nat]
  BY DEF ExchangeInv, ExchangeTypes
<1>3. c \in Callers /\ Reconnector \in Callers /\ c # Reconnector
  BY ExchangeAssumption DEF Callers
<1>4. v \in CallerType /\ v.kind = kind /\ v.at = "lock" /\ kind # "none"
  BY DEF CallerType, Orders
<1> HIDE DEF v
<1>5. /\ caller' \in [Callers -> CallerType]
      /\ \A d \in Callers : caller'[d].kind = "none" <=> caller'[d].at = "idle"
      /\ caller'[c] = v /\ \A d \in Callers : d # c => caller'[d] = caller[d]
  BY <1>1, <1>2, <1>3, <1>4, CallersKept
<1>6. /\ count' \in [sends : Nat, commands : Nat, heard : Nat, drops : Nat]
      /\ count'.heard = count.heard
  <2>1. count' = [count EXCEPT !.commands = @ + 1]
    BY <1>1
  <2> QED BY <1>2, <2>1
<1>7. ExchangeTypes'
  BY <1>1, <1>2, <1>5, <1>6 DEF ExchangeTypes, CallerType
<1>8. CreditInv' /\ OrderInv'
  BY <1>1, <1>6, <1>7, Elsewhere
<1>9. \A d \in Callers : (Holds(d)' <=> Holds(d)) /\ (Holds(d) => caller'[d] = caller[d])
  BY <1>1, <1>4, <1>5, QuietCaller DEF Holds
<1>10. Fewer(wire', wire, Orders) /\ Fewer(reply', reply, Answers)
  BY <1>1, <1>2, FewerSame
<1>11. ASSUME ~late PROVE AskingInv'
  BY <1>1, <1>2, <1>7, <1>9, <1>10, <1>11, AskingSame DEF ExchangeInv
<1>12. caller'[Reconnector] = caller[Reconnector]
  BY <1>3, <1>5
<1>13. ASSUME ~late PROVE LinkInv'
  BY <1>1, <1>2, <1>7, <1>10, <1>12, <1>13, LinkSame DEF ExchangeInv
<1> QED BY <1>1, <1>7, <1>8, <1>11, <1>13 DEF ExchangeInv

(* A command is written.                                                   *)
LEMMA WriteCommandStep ==
  ASSUME ExchangeInv, NEW c \in Callers, WriteCommand(c)
  PROVE  ExchangeInv'
<1> DEFINE k == caller[c].kind
           v == [kind |-> k, at |-> "wait"]
           f == Frame(k, 0)
<1>1. /\ caller[c].at = "lock" /\ LockFree /\ caller' = [caller EXCEPT ![c].at = "wait"]
      /\ response' = [kind |-> k, got |-> "none"] /\ wire' = Append(wire, f)
      /\ UNCHANGED <<link, session, sender, tx, responses, pending, out, modem, reply, count,
                     credit, late, lied, relapsed>>
  BY DEF WriteCommand, sending, hearing, history
<1>2. /\ ExchangeTypes /\ wire \in Seq(Sent1) /\ reply \in Seq(Got1) /\ session \in Nat
      /\ caller \in [Callers -> CallerType]
      /\ \A d \in Callers : caller[d].kind = "none" <=> caller[d].at = "idle"
  BY DEF ExchangeInv, ExchangeTypes, CallerType
<1>3. k \in Orders
  <2>1. caller[c] \in CallerType /\ k # "none"
    BY <1>1, <1>2
  <2> QED BY <2>1 DEF CallerType
<1>4. v \in CallerType /\ v.kind = k /\ v.at = "wait" /\ k # "none" /\ caller' = [caller EXCEPT ![c] = v]
  <2>1. caller[c] \in CallerType
    BY <1>2
  <2>2. [caller[c] EXCEPT !.at = "wait"] = v
    BY <2>1 DEF CallerType
  <2>3. caller' = [caller EXCEPT ![c] = [caller[c] EXCEPT !.at = "wait"]]
    BY <1>1, <1>2
  <2> QED BY <1>3, <2>2, <2>3 DEF CallerType, Orders
<1>5. f \in Sent1 /\ f.kind = k
  BY <1>2, <1>3, Frames2
<1>6. /\ response' \in [kind : {"none"} \cup Orders, got : {"none"} \cup Answers]
      /\ response'.kind = k /\ response'.got = "none"
  BY <1>1, <1>3
<1> HIDE DEF v, f, k
<1>7. /\ caller' \in [Callers -> CallerType]
      /\ \A d \in Callers : caller'[d].kind = "none" <=> caller'[d].at = "idle"
      /\ caller'[c] = v /\ \A d \in Callers : d # c => caller'[d] = caller[d]
  BY <1>2, <1>4, CallersKept
<1>8. wire' \in Seq(Sent1)
  BY <1>1, <1>2, <1>5
<1>9. ExchangeTypes'
  BY <1>1, <1>2, <1>6, <1>7, <1>8 DEF ExchangeTypes, CallerType
<1>10. CreditInv' /\ OrderInv'
  BY <1>1, <1>9, Elsewhere
<1>11. \A d \in Callers : Holds(d)' <=> d = c
  BY <1>1, <1>4, <1>7 DEF Holds, LockFree
<1>12. ASSUME ~late PROVE AskingInv' /\ LinkInv'
  <2>1. AskingInv /\ LinkInv
    BY <1>12 DEF ExchangeInv
  <2>2. response.kind = "none" /\ response.got = "none"
    BY <1>1, <2>1 DEF AskingInv, Unasked
  <2>3. CommandsOn(wire) = {} /\ AnswersOn(reply) = {}
    BY <2>1, <2>2 DEF AskingInv
  <2>4. \A i \in 1..Len(wire') : \/ i \in 1..Len(wire) /\ wire'[i] = wire[i]
                                 \/ i = Len(wire) + 1 /\ wire'[i] = f
    BY <1>1, <1>2, <1>5
  <2>5. \A i \in CommandsOn(wire') : i = Len(wire) + 1 /\ wire'[i].kind = k
    BY <1>5, <2>3, <2>4 DEF CommandsOn
  <2>6. CommandsOn(wire)' = CommandsOn(wire') /\ AnswersOn(reply)' = {}
    BY <1>1, <2>3 DEF CommandsOn, AnswersOn
  <2>7. ~LockFree'
    BY <1>11 DEF LockFree
  <2>8. AskingInv'
    <3>1. /\ \A d, e \in Callers : Holds(d)' /\ Holds(e)' => d = e
          /\ \A d \in Callers : Holds(d)' => response'.kind = caller'[d].kind
      BY <1>4, <1>6, <1>7, <1>11
    <3>2. responses' = <<>> /\ ~lied'
      BY <1>1, <2>1 DEF AskingInv
    <3> QED BY <1>4, <1>6, <2>5, <2>6, <2>7, <3>1, <3>2 DEF AskingInv
  <2>9. LinkInv'
    <3>1. Reconnector \in Callers
      BY DEF Callers
    <3>2. /\ caller'[Reconnector].kind = caller[Reconnector].kind
          /\ caller'[Reconnector].at = "idle" <=> caller[Reconnector].at = "idle"
      BY <1>1, <1>4, <1>7, <3>1 DEF k
    <3> QED BY <1>1, <1>6, <2>1, <2>6, <3>2 DEF LinkInv
  <2> QED BY <2>8, <2>9
<1> QED BY <1>1, <1>9, <1>10, <1>12 DEF ExchangeInv

(* A command ends: what becomes of the caller and of the link.             *)
LEMMA AnsweredEffect ==
  ASSUME ExchangeTypes, NEW c \in Callers, NEW ok \in BOOLEAN, Answered(c, ok)
  PROVE  /\ caller' \in [Callers -> CallerType]
         /\ \A d \in Callers : caller'[d].kind = "none" <=> caller'[d].at = "idle"
         /\ caller'[c] = Quiet /\ \A d \in Callers : d # c => caller'[d] = caller[d]
         /\ link' \in {"up", "down", "opening"}
         /\ c # Reconnector => link' = link
         /\ c = Reconnector => link' = IF ok THEN "up" ELSE "down"
<1>1. caller' = [caller EXCEPT ![c] = Quiet]
  BY DEF Answered
<1>2. /\ caller' \in [Callers -> CallerType]
      /\ \A d \in Callers : caller'[d].kind = "none" <=> caller'[d].at = "idle"
      /\ caller'[c] = Quiet /\ \A d \in Callers : d # c => caller'[d] = caller[d]
  BY <1>1, QuietCaller, CallersKept
<1> QED BY <1>2 DEF Answered, ExchangeTypes

LEMMA UseQueuedStep ==
  ASSUME ExchangeInv, NEW c \in Callers, UseQueued(c)
  PROVE  ExchangeInv'
<1>1. /\ UNCHANGED <<session, sender, tx, response, pending, out, modem, wire, reply, count,
                     credit, late, relapsed>>
      /\ MatchIn(responses, caller[c].kind) # {}
      /\ lied' \in BOOLEAN /\ \E ok \in BOOLEAN : Answered(c, ok)
  BY DEF UseQueued, sending, hearing, lines
<1>2. ExchangeTypes
  BY DEF ExchangeInv
<1>3. /\ caller' \in [Callers -> CallerType]
      /\ \A d \in Callers : caller'[d].kind = "none" <=> caller'[d].at = "idle"
      /\ link' \in {"up", "down", "opening"}
  BY <1>1, <1>2, AnsweredEffect
<1>4. ExchangeTypes'
  BY <1>1, <1>2, <1>3 DEF ExchangeTypes, CallerType
<1>5. CreditInv' /\ OrderInv'
  BY <1>1, <1>4, Elsewhere
<1>6. late
  <2> SUFFICES ASSUME ~late PROVE FALSE
    OBVIOUS
  <2>1. responses = <<>>
    BY DEF ExchangeInv, AskingInv
  <2> QED BY <1>1, <2>1 DEF MatchIn
<1> QED BY <1>1, <1>4, <1>5, <1>6 DEF ExchangeInv

LEMMA WriteFailsStep ==
  ASSUME ExchangeInv, NEW c \in Callers, WriteFails(c)
  PROVE  ExchangeInv'
<1>1. /\ UNCHANGED <<session, sender, tx, response, responses, pending, out, modem, wire, reply,
                     count, credit, late, lied, relapsed>>
      /\ caller[c].at = "lock" /\ link = "down" /\ Answered(c, FALSE)
  BY DEF WriteFails, sending, hearing, lines, history
<1>2. ExchangeTypes /\ wire \in Seq(Sent1) /\ reply \in Seq(Got1)
  BY DEF ExchangeInv, ExchangeTypes
<1>3. /\ caller' \in [Callers -> CallerType]
      /\ \A d \in Callers : caller'[d].kind = "none" <=> caller'[d].at = "idle"
      /\ caller'[c] = Quiet /\ \A d \in Callers : d # c => caller'[d] = caller[d]
      /\ link' = "down"
  BY <1>1, <1>2, AnsweredEffect
<1>4. ExchangeTypes'
  BY <1>1, <1>2, <1>3 DEF ExchangeTypes, CallerType
<1>5. CreditInv' /\ OrderInv'
  BY <1>1, <1>4, Elsewhere
<1>6. \A d \in Callers : (Holds(d)' <=> Holds(d)) /\ (Holds(d) => caller'[d] = caller[d])
  BY <1>1, <1>3, QuietCaller DEF Holds
<1>7. Fewer(wire', wire, Orders) /\ Fewer(reply', reply, Answers)
  BY <1>1, <1>2, FewerSame
<1>8. ASSUME ~late PROVE AskingInv'
  BY <1>1, <1>2, <1>4, <1>6, <1>7, <1>8, AskingSame DEF ExchangeInv
<1>9. ASSUME ~late PROVE LinkInv'
  <2>1. LinkInv /\ Reconnector \in Callers
    BY <1>9 DEF ExchangeInv, Callers
  <2>2. CASE c = Reconnector
    <3>1. caller'[Reconnector].kind = "none" /\ caller'[Reconnector].at = "idle"
      BY <1>3, <2>2, QuietCaller
    <3> QED BY <1>3, <3>1 DEF LinkInv, Holds
  <2>3. CASE c # Reconnector
    <3>1. caller'[Reconnector] = caller[Reconnector]
      BY <1>3, <2>1, <2>3
    <3> QED BY <1>1, <1>2, <1>3, <1>4, <1>7, <2>1, <3>1, LinkSame
  <2> QED BY <2>2, <2>3
<1> QED BY <1>1, <1>4, <1>5, <1>8, <1>9 DEF ExchangeInv

LEMMA UnaskedResponse ==
  /\ Unasked \in [kind : {"none"} \cup Orders, got : {"none"} \cup Answers]
  /\ Unasked.kind = "none" /\ Unasked.got = "none"
  BY DEF Unasked

LEMMA CommandReturnsStep ==
  ASSUME ExchangeInv, NEW c \in Callers, CommandReturns(c)
  PROVE  ExchangeInv'
<1> DEFINE ok == response.got # "error"
<1>1. /\ UNCHANGED <<session, sender, tx, responses, pending, out, modem, wire, reply,
                     count, credit, late, lied, relapsed>>
      /\ Holds(c) /\ response.got # "none" /\ ok \in BOOLEAN /\ Answered(c, ok)
      /\ response' = Unasked
  BY DEF CommandReturns, sending, hearing, lines, history
<1>2. ExchangeTypes /\ wire \in Seq(Sent1) /\ reply \in Seq(Got1)
  BY DEF ExchangeInv, ExchangeTypes
<1>3. /\ caller' \in [Callers -> CallerType]
      /\ \A d \in Callers : caller'[d].kind = "none" <=> caller'[d].at = "idle"
      /\ caller'[c] = Quiet /\ \A d \in Callers : d # c => caller'[d] = caller[d]
      /\ link' \in {"up", "down", "opening"}
      /\ c # Reconnector => link' = link
      /\ c = Reconnector => link' = IF ok THEN "up" ELSE "down"
  <2> HIDE DEF ok
  <2> QED BY <1>1, <1>2, AnsweredEffect
<1>4. ExchangeTypes'
  BY <1>1, <1>2, <1>3, UnaskedResponse DEF ExchangeTypes, CallerType
<1>5. CreditInv' /\ OrderInv'
  BY <1>1, <1>4, Elsewhere
<1>6. ASSUME ~late PROVE AskingInv' /\ LinkInv'
  <2>1. AskingInv /\ LinkInv /\ Reconnector \in Callers
    BY <1>6 DEF ExchangeInv, Callers
  <2>2. CommandsOn(wire) = {} /\ AnswersOn(reply) = {}
    BY <1>1, <2>1 DEF AskingInv
  <2>3. CommandsOn(wire)' = {} /\ AnswersOn(reply)' = {}
    BY <1>1, <2>2 DEF CommandsOn, AnswersOn
  <2>4. \A d \in Callers : ~Holds(d)'
    <3>1. \A d \in Callers : Holds(d) => d = c
      BY <1>1, <2>1 DEF AskingInv
    <3> QED BY <1>3, <3>1, QuietCaller DEF Holds
  <2>5. responses' = <<>> /\ ~lied'
    BY <1>1, <2>1 DEF AskingInv
  <2>6. AskingInv'
    BY <1>1, <2>3, <2>4, <2>5, UnaskedResponse DEF AskingInv
  <2>7. LinkInv'
    <3>1. CASE c = Reconnector
      <4>1. caller'[Reconnector].kind = "none" /\ caller'[Reconnector].at = "idle"
        BY <1>3, <3>1, QuietCaller
      <4>2. ASSUME ok, ~relapsed PROVE modem.set
        <5>1. caller[c].at = "wait" /\ caller[c].kind \in {"none", "set"}
              /\ (caller[c].kind = "none" <=> caller[c].at = "idle")
          BY <1>1, <1>2, <2>1, <3>1 DEF Holds, LinkInv, ExchangeTypes
        <5>2. response.kind = "set"
          BY <1>1, <2>1, <5>1 DEF AskingInv
        <5>3. response.got = "ok"
          BY <1>1, <2>1, <4>2, <5>2 DEF AskingInv, Acceptable
        <5> QED BY <1>1, <2>1, <3>1, <4>2, <5>3 DEF LinkInv
      <4> QED BY <1>1, <1>3, <2>4, <3>1, <4>1, <4>2, <2>1 DEF LinkInv
    <3>2. CASE c # Reconnector
      <4>1. caller'[Reconnector] = caller[Reconnector] /\ link' = link
        BY <1>3, <2>1, <3>2
      <4> QED BY <1>1, <2>1, <2>4, <4>1 DEF LinkInv
    <3> QED BY <3>1, <3>2
  <2> QED BY <2>6, <2>7
<1> QED BY <1>1, <1>4, <1>5, <1>6 DEF ExchangeInv

LEMMA CommandTimesOutStep ==
  ASSUME ExchangeInv, NEW c \in Callers, CommandTimesOut(c)
  PROVE  ExchangeInv'
<1>1. /\ UNCHANGED <<session, sender, tx, responses, pending, out, modem, wire, reply,
                     count, credit, lied, relapsed>>
      /\ Answered(c, FALSE) /\ response' = Unasked /\ late' = TRUE
  BY DEF CommandTimesOut, sending, hearing, lines
<1>2. ExchangeTypes
  BY DEF ExchangeInv
<1>3. /\ caller' \in [Callers -> CallerType]
      /\ \A d \in Callers : caller'[d].kind = "none" <=> caller'[d].at = "idle"
      /\ link' \in {"up", "down", "opening"}
  BY <1>1, <1>2, AnsweredEffect
<1>4. late' \in BOOLEAN
  BY <1>1
<1>5. ExchangeTypes'
  BY <1>1, <1>2, <1>3, <1>4, UnaskedResponse DEF ExchangeTypes, CallerType
<1>6. CreditInv' /\ OrderInv'
  BY <1>1, <1>5, Elsewhere
<1> QED BY <1>1, <1>5, <1>6 DEF ExchangeInv

(* A response is filed.                                                    *)
LEMMA ResponseStep ==
  ASSUME ExchangeInv, ResponseReceived
  PROVE  ExchangeInv'
<1> DEFINE k == Head(reply).kind
<1>1. /\ UNCHANGED <<link, session, sender, tx, caller, pending, out, modem, wire, count, credit,
                     late, lied, relapsed>>
      /\ Received(Answers) /\ Filed(k)
  BY DEF ResponseReceived, Answers, sending, hearing, history
<1>2. /\ ExchangeTypes /\ wire \in Seq(Sent1) /\ reply \in Seq(Got1)
      /\ response \in [kind : {"none"} \cup Orders, got : {"none"} \cup Answers]
  BY DEF ExchangeInv, ExchangeTypes
<1>3. /\ reply # <<>> /\ k \in Answers /\ reply' = Tail(reply)
      /\ reply' \in Seq(Got1) /\ \A J : Fewer(reply', reply, J)
  BY <1>1, <1>2, ReadLine
<1>4. /\ \A j \in 1..Len(reply') : j + 1 \in 1..Len(reply) /\ reply'[j] = reply[j + 1]
      /\ 1 \in 1..Len(reply) /\ reply[1].kind = k
  BY <1>2, <1>3
<1> HIDE DEF k
<1>5. response' = [response EXCEPT !.got = k] \/ response' = response
  BY <1>1 DEF Filed
<1>6. response' \in [kind : {"none"} \cup Orders, got : {"none"} \cup Answers]
  BY <1>2, <1>3, <1>5
<1>7. ExchangeTypes'
  BY <1>1, <1>2, <1>3, <1>6 DEF ExchangeTypes
<1>8. CreditInv'
  BY <1>1, <1>2, <1>3, <1>7, CreditSame DEF ExchangeInv
<1>9. OrderInv'
  BY <1>1, <1>2, <1>3, <1>7, OrderSame DEF ExchangeInv
<1>10. ASSUME ~late PROVE AskingInv' /\ LinkInv'
  <2>1. AskingInv /\ LinkInv /\ Reconnector \in Callers
    BY <1>10 DEF ExchangeInv, Callers
  <2>2. 1 \in AnswersOn(reply)
    BY <1>3, <1>4 DEF AnswersOn
  <2>3. /\ CommandsOn(wire) = {} /\ response.kind # "none" /\ k \in Acceptable(response.kind)
    BY <1>4, <2>1, <2>2 DEF AskingInv
  <2>4. response' = [response EXCEPT !.got = k] /\ responses' = responses
    BY <1>1, <2>3 DEF Filed
  <2>5. response'.kind = response.kind /\ response'.got = k /\ k # "none"
    BY <1>2, <1>3, <2>4 DEF Answers
  <2>6. AnswersOn(reply)' = {} /\ CommandsOn(wire)' = {}
    <3>1. \A j \in 1..Len(reply') : j + 1 # 1
      BY <1>3
    <3>2. \A j \in 1..Len(reply') : j + 1 \notin AnswersOn(reply)
      BY <2>1, <2>2, <3>1 DEF AskingInv
    <3>3. \A j \in 1..Len(reply') : reply'[j].kind \notin Answers
      BY <1>4, <3>2 DEF AnswersOn
    <3> QED BY <1>1, <2>3, <3>3 DEF AnswersOn, CommandsOn
  <2>7. \A c \in Callers : Holds(c)' <=> Holds(c)
    BY <1>1 DEF Holds
  <2>8. ~LockFree'
    <3>1. ~LockFree
      BY <2>1, <2>3, UnaskedResponse DEF AskingInv
    <3> QED BY <2>7, <3>1 DEF LockFree
  <2>9. AskingInv'
    <3>1. /\ \A c, d \in Callers : Holds(c)' /\ Holds(d)' => c = d
          /\ \A c \in Callers : Holds(c)' => response'.kind = caller'[c].kind
      BY <1>1, <2>1, <2>5, <2>7 DEF AskingInv
    <3>2. response'.got \in Acceptable(response'.kind)
      BY <2>3, <2>5
    <3>3. responses' = <<>> /\ ~lied'
      BY <1>1, <2>1, <2>4 DEF AskingInv
    <3>4. Acceptable(response.kind)' = Acceptable(response'.kind)
      BY DEF Acceptable
    <3> QED BY <2>3, <2>5, <2>6, <2>8, <3>1, <3>2, <3>3, <3>4 DEF AskingInv
  <2>10. LinkInv'
    <3>1. ASSUME Holds(Reconnector), ~relapsed, k = "ok" PROVE modem.set
      BY <1>4, <2>1, <2>2, <3>1 DEF LinkInv
    <3> QED BY <1>1, <2>1, <2>5, <2>6, <2>7, <3>1 DEF LinkInv
  <2> QED BY <2>9, <2>10
<1> QED BY <1>1, <1>7, <1>8, <1>9, <1>10 DEF ExchangeInv

(* The modem obeys a command.                                              *)
LEMMA ObeysStep ==
  ASSUME ExchangeInv, ModemObeys
  PROVE  ExchangeInv'
<1> DEFINE k == Head(wire).kind
<1>1. /\ UNCHANGED <<link, session, sender, tx, caller, response, responses, pending, out, count,
                     credit, late, lied, relapsed>>
      /\ wire # <<>> /\ k # "data" /\ wire' = Tail(wire)
  BY DEF ModemObeys, sending, asking, hearing, history
<1>2. /\ ExchangeTypes /\ wire \in Seq(Sent1) /\ reply \in Seq(Got1) /\ session \in Nat
      /\ modem \in [tx : BOOLEAN, set : BOOLEAN, report : BOOLEAN]
  BY DEF ExchangeInv, ExchangeTypes
<1>3. /\ Head(wire) \in Sent1 /\ Tail(wire) \in Seq(Sent1)
      /\ 1 \in 1..Len(wire) /\ wire[1].kind = k
      /\ \A j \in 1..Len(Tail(wire)) : j + 1 \in 1..Len(wire) /\ Tail(wire)[j] = wire[j + 1]
  BY <1>1, <1>2
<1>4. k \in Orders
  BY <1>1, <1>3 DEF Sent1
<1>5. PICK a \in Answers :
        /\ reply' = Append(reply, Frame(a, 0)) /\ a \in Acceptable(k)
        /\ \/ a = "error" /\ modem' = modem
           \/ modem' = [modem EXCEPT !.set = @ \/ k = "set",
                                     !.report = IF k = "signal" THEN ~@ ELSE @]
  <2>1. \/ /\ modem' = [modem EXCEPT !.set = @ \/ k = "set",
                                     !.report = IF k = "signal" THEN ~@ ELSE @]
           /\ reply' = Append(reply, Frame(IF k = "get" THEN "value" ELSE "ok", 0))
        \/ reply' = Append(reply, Frame("error", 0)) /\ modem' = modem
    BY DEF ModemObeys
  <2> HIDE DEF k
  <2>2. (IF k = "get" THEN "value" ELSE "ok") \in Answers /\ "error" \in Answers
    BY DEF Answers
  <2>3. (IF k = "get" THEN "value" ELSE "ok") \in Acceptable(k) /\ "error" \in Acceptable(k)
    BY <1>4 DEF Acceptable, Orders
  <2> QED BY <2>1, <2>2, <2>3
<1> DEFINE f == Frame(a, 0)
<1>6. f \in Got1 /\ f.kind = a
  BY <1>2, Frames2
<1>7. /\ modem' \in [tx : BOOLEAN, set : BOOLEAN, report : BOOLEAN]
      /\ modem.set => modem'.set
      /\ a # "error" /\ k = "set" => modem'.set
  <2> HIDE DEF k
  <2>1. CASE modem' = modem /\ a = "error"
    BY <1>2, <2>1
  <2>2. CASE modem' = [modem EXCEPT !.set = @ \/ k = "set",
                                    !.report = IF k = "signal" THEN ~@ ELSE @]
    <3>1. (modem.set \/ k = "set") \in BOOLEAN /\ (IF k = "signal" THEN ~modem.report ELSE modem.report) \in BOOLEAN
      BY <1>2
    <3>2. modem'.set = (modem.set \/ k = "set")
      BY <1>2, <2>2
    <3>3. modem' \in [tx : BOOLEAN, set : BOOLEAN, report : BOOLEAN]
      BY <1>2, <2>2, <3>1
    <3> QED BY <3>2, <3>3
  <2> QED BY <1>5, <2>1, <2>2
<1> HIDE DEF k, f
<1>8. Append(reply, f) \in Seq(Got1)
  BY <1>2, <1>6
<1>9. reply' = Append(reply, f)
  BY <1>5 DEF f
<1>10. ExchangeTypes'
  BY <1>1, <1>2, <1>3, <1>7, <1>8, <1>9 DEF ExchangeTypes
<1>11. Fewer(reply', reply, {"done"}) /\ Fewer(reply', reply, {"heard"})
  <2>1. f.kind \notin {"done"} /\ f.kind \notin {"heard"}
    BY <1>6 DEF Answers
  <2> QED BY <1>2, <1>6, <1>9, <2>1, FewerAppend
<1>12. CreditInv'
  BY <1>1, <1>2, <1>10, <1>11, CreditSame DEF ExchangeInv
<1>13. OrderInv'
  BY <1>1, <1>2, <1>10, <1>11, OrderSame DEF ExchangeInv
<1>14. ASSUME ~late PROVE AskingInv' /\ LinkInv'
  <2>1. AskingInv /\ LinkInv /\ Reconnector \in Callers
    BY <1>14 DEF ExchangeInv, Callers
  <2>2. 1 \in CommandsOn(wire)
    BY <1>3, <1>4 DEF CommandsOn
  <2>3. /\ AnswersOn(reply) = {} /\ response.kind = k /\ response.got = "none" /\ k # "none"
    BY <1>3, <1>4, <2>1, <2>2 DEF AskingInv, Orders
  <2>4. CommandsOn(wire)' = {}
    <3>1. \A j \in 1..Len(Tail(wire)) : j + 1 # 1
      BY <1>3
    <3>2. \A j \in 1..Len(Tail(wire)) : j + 1 \notin CommandsOn(wire)
      BY <2>1, <2>2, <3>1 DEF AskingInv
    <3>3. \A j \in 1..Len(Tail(wire)) : Tail(wire)[j].kind \notin Orders
      BY <1>3, <3>2 DEF CommandsOn
    <3> QED BY <1>1, <3>3 DEF CommandsOn
  <2>5. \A i \in 1..Len(reply') : \/ i \in 1..Len(reply) /\ reply'[i] = reply[i]
                                  \/ i = Len(reply) + 1 /\ reply'[i] = f
    BY <1>2, <1>6, <1>9
  <2>6. \A i \in AnswersOn(reply') : i = Len(reply) + 1 /\ reply'[i].kind = a
    BY <1>6, <2>3, <2>5 DEF AnswersOn
  <2>7. AnswersOn(reply)' = AnswersOn(reply')
    BY DEF AnswersOn
  <2>8. \A c \in Callers : Holds(c)' <=> Holds(c)
    BY <1>1 DEF Holds
  <2>9. ~LockFree'
    <3>1. ~LockFree
      BY <2>1, <2>3, UnaskedResponse DEF AskingInv
    <3> QED BY <2>8, <3>1 DEF LockFree
  <2>10. AskingInv'
    <3>1. /\ \A c, d \in Callers : Holds(c)' /\ Holds(d)' => c = d
          /\ \A c \in Callers : Holds(c)' => response'.kind = caller'[c].kind
      BY <1>1, <2>1, <2>8 DEF AskingInv
    <3>2. responses' = <<>> /\ ~lied'
      BY <1>1, <2>1 DEF AskingInv
    <3>3. \A i \in AnswersOn(reply') : reply'[i].kind \in Acceptable(response.kind)
      BY <1>5, <2>3, <2>6
    <3>4. \A i, j \in AnswersOn(reply') : i = j
      BY <2>6
    <3>5. Acceptable(response.kind)' = Acceptable(response.kind)
      BY <1>1 DEF Acceptable
    <3> QED BY <1>1, <2>3, <2>4, <2>7, <2>9, <3>1, <3>2, <3>3, <3>4, <3>5 DEF AskingInv
  <2>11. LinkInv'
    <3>1. ASSUME Holds(Reconnector), NEW i \in AnswersOn(reply'), reply'[i].kind = "ok"
          PROVE  modem'.set
      <4>1. a = "ok"
        BY <2>6, <3>1
      <4>2. caller[Reconnector].kind = k /\ caller[Reconnector].kind \in {"none", "set"}
        BY <2>1, <2>3, <3>1 DEF AskingInv, LinkInv
      <4>3. k = "set"
        BY <2>3, <4>2
      <4> QED BY <1>7, <4>1, <4>3
    <3> QED BY <1>1, <1>7, <2>1, <2>3, <2>7, <2>8, <3>1 DEF LinkInv
  <2> QED BY <2>10, <2>11
<1> QED BY <1>1, <1>10, <1>12, <1>13, <1>14 DEF ExchangeInv

(* The link fails, and is opened again.                                    *)
LEMMA FailureStep ==
  ASSUME ExchangeInv, MarkSerialFailure
  PROVE  ExchangeInv'
<1>1. /\ UNCHANGED <<session, sender, caller, response, responses, pending, out, credit, late,
                     lied>>
      /\ link # "down" /\ count' = [count EXCEPT !.drops = @ + 1]
      /\ link' = "down" /\ tx' = [tx EXCEPT !.event = TRUE] /\ wire' = <<>> /\ reply' = <<>>
      /\ modem' = modem \/ modem' = [tx |-> FALSE, set |-> FALSE, report |-> TRUE]
      /\ relapsed' = (relapsed \/ link = "opening")
  BY DEF MarkSerialFailure, asking, hearing
<1>2. /\ ExchangeTypes /\ wire \in Seq(Sent1) /\ reply \in Seq(Got1)
      /\ count \in [sends : Nat, commands : Nat, heard : Nat, drops : Nat]
      /\ tx \in [holder : Sender \cup {None}, event : BOOLEAN, result : {"none", "sent", "failed"}]
      /\ modem \in [tx : BOOLEAN, set : BOOLEAN, report : BOOLEAN]
      /\ link \in {"up", "down", "opening"}
  BY DEF ExchangeInv, ExchangeTypes
<1>3. /\ count' \in [sends : Nat, commands : Nat, heard : Nat, drops : Nat]
      /\ count'.heard = count.heard
  <2>1. count' = [count EXCEPT !.drops = @ + 1]
    BY <1>1
  <2>2. count \in [sends : Nat, commands : Nat, heard : Nat, drops : Nat]
    BY <1>2
  <2> QED BY <2>1, <2>2
<1>4. /\ tx' \in [holder : Sender \cup {None}, event : BOOLEAN, result : {"none", "sent", "failed"}]
      /\ tx'.holder = tx.holder /\ tx'.result = tx.result
  <2>1. tx' = [tx EXCEPT !.event = TRUE]
    BY <1>1
  <2> QED BY <1>2, <2>1
<1>5. modem' \in [tx : BOOLEAN, set : BOOLEAN, report : BOOLEAN]
  <2>1. modem' = modem \/ modem' = [tx |-> FALSE, set |-> FALSE, report |-> TRUE]
    BY <1>1
  <2>2. modem \in [tx : BOOLEAN, set : BOOLEAN, report : BOOLEAN]
    BY <1>2
  <2>3. [tx |-> FALSE, set |-> FALSE, report |-> TRUE]
          \in [tx : BOOLEAN, set : BOOLEAN, report : BOOLEAN]
    OBVIOUS
  <2> QED BY <2>1, <2>2, <2>3
<1>6. wire' \in Seq(Sent1) /\ reply' \in Seq(Got1) /\ relapsed' \in BOOLEAN
      /\ link' \in {"up", "down", "opening"}
  BY <1>1
<1>7. ExchangeTypes'
  <2>1. UNCHANGED <<session, sender, caller, response, pending, out, credit, late, lied>>
    BY <1>1
  <2> QED BY <1>2, <1>3, <1>4, <1>5, <1>6, <2>1 DEF ExchangeTypes
<1>8. \A J : Fewer(reply', reply, J)
  BY <1>1, <1>2, FewerEmpty
<1>9. Fewer(wire', wire, Orders)
  BY <1>1, <1>2, FewerEmpty
<1>10. CreditInv'
  BY <1>1, <1>2, <1>4, <1>7, <1>8, CreditSame DEF ExchangeInv
<1>11. OrderInv'
  BY <1>1, <1>2, <1>3, <1>7, <1>8, OrderSame DEF ExchangeInv
<1>12. \A c \in Callers : (Holds(c)' <=> Holds(c)) /\ caller'[c] = caller[c]
  BY <1>1 DEF Holds
<1>13. ASSUME ~late PROVE AskingInv'
  BY <1>1, <1>2, <1>7, <1>8, <1>9, <1>12, <1>13, AskingSame DEF ExchangeInv
<1>14. ASSUME ~late PROVE LinkInv'
  <2>1. LinkInv /\ Reconnector \in Callers
    BY <1>14 DEF ExchangeInv, Callers
  <2>2. AnswersOn(reply)' = {}
    BY <1>1 DEF AnswersOn
  <2>3. caller'[Reconnector] = caller[Reconnector] /\ (Holds(Reconnector)' <=> Holds(Reconnector))
    BY <1>12, <2>1
  <2>4. caller[Reconnector].at # "idle" => relapsed'
    BY <1>1, <1>2, <2>1 DEF LinkInv
  <2>5. Holds(Reconnector) => relapsed'
    BY <2>4 DEF Holds
  <2> QED BY <1>1, <2>1, <2>2, <2>3, <2>4, <2>5 DEF LinkInv
<1> QED BY <1>1, <1>7, <1>10, <1>11, <1>13, <1>14 DEF ExchangeInv

LEMMA OpenStep ==
  ASSUME ExchangeInv, OpenSerial
  PROVE  ExchangeInv'
<1> DEFINE v == [kind |-> "set", at |-> "lock"]
<1>1. /\ UNCHANGED <<sender, tx, response, responses, out, modem, count, credit, late, lied>>
      /\ caller[Reconnector] = Quiet /\ link' = "opening" /\ session' = session + 1
      /\ pending' = <<>> /\ wire' = <<>> /\ reply' = <<>> /\ relapsed' = FALSE
      /\ caller' = [caller EXCEPT ![Reconnector] = v]
  BY DEF OpenSerial, ClearPendingRx, sending
<1>2. ExchangeTypes /\ wire \in Seq(Sent1) /\ reply \in Seq(Got1) /\ session \in Nat
  BY DEF ExchangeInv, ExchangeTypes
<1>3. Reconnector \in Callers
  BY DEF Callers
<1>4. v \in CallerType /\ v.kind = "set" /\ v.at = "lock"
  BY DEF CallerType, Orders
<1> HIDE DEF v
<1>5. /\ caller' \in [Callers -> CallerType]
      /\ \A d \in Callers : caller'[d].kind = "none" <=> caller'[d].at = "idle"
      /\ caller'[Reconnector] = v
      /\ \A d \in Callers : d # Reconnector => caller'[d] = caller[d]
  BY <1>1, <1>2, <1>3, <1>4, CallersKept
<1>6. /\ wire' \in Seq(Sent1) /\ reply' \in Seq(Got1) /\ pending' \in Seq(Got1)
      /\ relapsed' \in BOOLEAN /\ link' \in {"up", "down", "opening"} /\ session' \in Nat
  <2>1. wire' \in Seq(Sent1) /\ reply' \in Seq(Got1) /\ pending' \in Seq(Got1)
    BY <1>1
  <2>2. relapsed' \in BOOLEAN /\ link' \in {"up", "down", "opening"}
    BY <1>1
  <2>3. session' = session + 1
    BY <1>1
  <2>4. session' \in Nat
    BY <1>2, <2>3
  <2> QED BY <2>1, <2>2, <2>4
<1>7. ExchangeTypes'
  <2>1. UNCHANGED <<sender, tx, response, out, modem, count, credit, late, lied>>
    BY <1>1
  <2> QED BY <1>2, <1>5, <1>6, <2>1 DEF ExchangeTypes, CallerType
<1>8. \A J : Fewer(reply', reply, J)
  BY <1>1, <1>2, FewerEmpty
<1>9. Fewer(wire', wire, Orders)
  BY <1>1, <1>2, FewerEmpty
<1>10. CreditInv'
  BY <1>1, <1>2, <1>7, <1>8, CreditSame DEF ExchangeInv
<1>11. OrderInv'
  <2>1. out.id <= count.heard
    BY DEF ExchangeInv, OrderInv
  <2>2. Len(pending') = 0 /\ Len(reply') = 0
    BY <1>1
  <2> QED BY <1>1, <2>1, <2>2 DEF OrderInv
<1>12. \A c \in Callers : (Holds(c)' <=> Holds(c)) /\ (Holds(c) => caller'[c] = caller[c])
  BY <1>1, <1>4, <1>5, QuietCaller DEF Holds
<1>13. ASSUME ~late PROVE AskingInv'
  BY <1>1, <1>2, <1>7, <1>8, <1>9, <1>12, <1>13, AskingSame DEF ExchangeInv
<1>14. LinkInv'
  BY <1>1, <1>4, <1>5 DEF LinkInv, Holds
<1> QED BY <1>1, <1>7, <1>10, <1>11, <1>13, <1>14 DEF ExchangeInv

-----------------------------------------------------------------------------
LEMMA ExchangeStep ==
  ASSUME ExchangeInv, [Next]_vars
  PROVE  ExchangeInv' /\ (out' # out => out'.id > out.id)
<1>1. ASSUME UNCHANGED vars PROVE ExchangeInv' /\ out' = out
  <2>1. UNCHANGED <<link, session, sender, tx, caller, response, responses, pending, out, modem,
                    wire, reply, count, credit, late, lied, relapsed>>
    BY <1>1 DEF vars, sending, asking, hearing, lines, history
  <2>2. ExchangeTypes' <=> ExchangeTypes
    BY <2>1 DEF ExchangeTypes
  <2>6. AskingInv' <=> AskingInv
    BY <2>1 DEF AskingInv, Holds, LockFree, CommandsOn, AnswersOn, Acceptable
  <2>3. CreditInv' <=> CreditInv
    BY <2>1 DEF CreditInv, Backed, Confirmations, Untold
  <2>4. OrderInv' <=> OrderInv
    BY <2>1 DEF OrderInv
  <2>5. LinkInv' <=> LinkInv
    BY <2>1 DEF LinkInv, Holds, AnswersOn
  <2> QED BY <2>1, <2>2, <2>3, <2>4, <2>5, <2>6 DEF ExchangeInv
<1>2. ASSUME Sends \/ SendSteps PROVE ExchangeInv' /\ out' = out
  <2>1. CASE TxWorker
    BY <2>1, TxWorkerStep DEF TxWorker, hearing
  <2>2. ASSUME NEW s \in Sender,
               SendFrameAndWait(s) \/ SendFrame(s) \/ ResolveTxDone(s) \/ SendUnconfirmed(s)
        PROVE  ExchangeInv' /\ out' = out
    <3>1. out' = out
      BY <2>2 DEF SendFrameAndWait, SendFrame, ResolveTxDone, SendUnconfirmed, hearing
    <3> QED BY <2>2, <3>1, SenderSteps
  <2> QED BY <1>2, <2>1, <2>2 DEF Sends, SendSteps
<1>3. ASSUME Asks PROVE ExchangeInv' /\ out' = out
  <2>1. PICK c \in Caller, kind \in Orders : Asked(c, kind)
    BY <1>3 DEF Asks, SetRadio, SetSignalReport, Query, QueryIdentity, Orders
  <2>2. out' = out
    BY <2>1 DEF Asked, Ask, hearing
  <2> QED BY <2>1, <2>2, AskStep
<1>4. ASSUME AskSteps PROVE ExchangeInv' /\ out' = out
  <2>1. PICK c \in Callers : \/ UseQueued(c) \/ WriteCommand(c) \/ WriteFails(c)
                             \/ CommandReturns(c) \/ CommandTimesOut(c)
    BY <1>4 DEF AskSteps
  <2>2. out' = out
    BY <2>1 DEF UseQueued, WriteCommand, WriteFails, CommandReturns, CommandTimesOut, hearing
  <2> QED BY <2>1, <2>2, UseQueuedStep, WriteCommandStep, WriteFailsStep, CommandReturnsStep,
             CommandTimesOutStep
<1>5. ASSUME RxWorker PROVE ExchangeInv' /\ (out' # out => out'.id > out.id)
  <2>1. CASE TxDone
    BY <2>1, TxDoneStep DEF TxDone, hearing
  <2>2. CASE TxBusy
    BY <2>2, TxBusyStep DEF TxBusy, hearing
  <2>3. CASE ResponseReceived
    BY <2>3, ResponseStep DEF ResponseReceived, hearing
  <2>4. CASE DataReceived
    BY <2>4, DataReceivedStep DEF DataReceived
  <2> QED BY <1>5, <2>1, <2>2, <2>3, <2>4, RxMetaStep, FlushStep DEF RxWorker
<1>6. ASSUME Modem PROVE ExchangeInv' /\ out' = out
  <2>1. out' = out
    BY <1>6 DEF Modem, ModemTakesData, ModemTransmits, ModemObeys, ModemHears, hearing
  <2> QED BY <1>6, <2>1, TakesDataStep, TransmitsStep, ObeysStep, HearsStep DEF Modem
<1>7. ASSUME MarkSerialFailure PROVE ExchangeInv' /\ out' = out
  BY <1>7, FailureStep DEF MarkSerialFailure, hearing
<1>8. ASSUME OpenSerial PROVE ExchangeInv' /\ out' = out
  BY <1>8, OpenStep DEF OpenSerial
<1> QED BY <1>1, <1>2, <1>3, <1>4, <1>5, <1>6, <1>7, <1>8 DEF Next

LEMMA ExchangeInvariant == Spec => []ExchangeInv
<1>1. Init => ExchangeInv
  BY ExchangeInit
<1>2. ExchangeInv /\ [Next]_vars => ExchangeInv'
  BY ExchangeStep
<1> QED BY <1>1, <1>2, PTL DEF Spec

(* No more sends succeed than the modem has confirmed, for any number of   *)
(* senders and callers and whatever the link does: the frames that confirm *)
(* a transmit and are still to be read, and the one the holder of the lock *)
(* has yet to be told of, are covered by transmits that were made.         *)
THEOREM SendsConfirmed == Spec => []ConfirmedOnce
<1>1. ExchangeInv => ConfirmedOnce
  <2> SUFFICES ASSUME ExchangeInv PROVE ConfirmedOnce
    OBVIOUS
  <2>1. reply \in Seq(Got1) /\ credit \in Int
    BY DEF ExchangeInv, ExchangeTypes
  <2>2. credit - Untold \in Nat /\ Untold \in 0..1
    BY DEF ExchangeInv, CreditInv, Untold
  <2> QED BY <2>1, <2>2 DEF ConfirmedOnce
<1> QED BY <1>1, ExchangeInvariant, PTL

(* Until a command times out, at most one of the wire, the line back and   *)
(* the caller holds a command or its response, so no response is left over *)
(* for a command it was not meant for; and the reconnect thread takes the  *)
(* link up with the modem configured, unless the link failed meanwhile.    *)
THEOREM CommandsAnswered == Spec => []AnsweredIfAsked
<1>1. ExchangeInv => AnsweredIfAsked
  BY DEF ExchangeInv, AskingInv, LinkInv, AnsweredIfAsked
<1> QED BY <1>1, ExchangeInvariant, PTL

(* Packets reach the callback in the order they were heard, each once, for *)
(* any number of packets and whatever becomes of their reports.            *)
THEOREM HeardInOrder == Spec => InArrivalOrder
<1>1. ExchangeInv /\ [Next]_vars => [out' # out => out'.id > out.id]_vars
  BY ExchangeStep
<1> QED BY <1>1, ExchangeInvariant, PTL DEF Spec, InArrivalOrder
=============================================================================
