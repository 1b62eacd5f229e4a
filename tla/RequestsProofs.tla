--------------------------- MODULE RequestsProofs ---------------------------
(***************************************************************************)
(* For any number of requests, contacts and attempts: the response waiters  *)
(* are exactly the tags of the requests in progress, a login or a legacy    *)
(* protocol request never withholds a reply its waiter was given, and no    *)
(* login callback or password outlives the logins it was made for.          *)
(***************************************************************************)
EXTENDS Requests, TLAPS

\* Leaves are tried with Zenon first and then with the SMT solver.
USE ZenonT(2), SMTT(20), ZenonT(20)

\* The types the argument needs; the frame sessions play no part in it.
Typed ==
    /\ workload \in [Requests -> [kind : Kinds, contact : Contacts]]
    /\ pc \in [Requests -> {"idle", "sending", "waiting", "resending", "done"}]
    /\ attempt \in [Requests -> Nat]
    /\ event \in [Requests -> (Requests \X Nat) \cup {None}]
    /\ result \in [Requests -> {"none", "reply", "sent", "failed", "timeout", "cancelled"}]
    /\ waiters \subseteq Tags
    /\ binary \subseteq Requests \X Nat /\ discovery \subseteq Requests \X Nat
    /\ pending \in [Contacts -> Requests \cup {None}]
    /\ rx \in Tags \cup {None}

\* The other two tables hold tags of their own kinds of request only.
TablesApart == \A t \in binary \cup discovery : Kind(t[1]) \in {"binary", "discovery"}

\* Login callbacks are of logins, and that of an API login is registered for
\* its own contact and not beyond its call.
LoginCallbackLive ==
    \A c \in Contacts : pending[c] # None =>
        \/ Kind(pending[c]) = "frame"
        \/ Kind(pending[c]) = "login" /\ Live(pending[c]) /\ Target(pending[c]) = c

IInv == Typed /\ TablesApart /\ LoginCallbackLive /\ WaiterTableExact /\ LateReplyReported

LEMMA TagFacts ==
    ASSUME NEW t \in Tags
    PROVE  t[1] \in Requests /\ t[2] \in Nat /\ t = <<t[1], t[2]>> /\ t # None
  BY RequestsAssumption DEF Tags

LEMMA InitIInv == Init => IInv
  BY RequestsAssumption
  DEF Init, IInv, Typed, TablesApart, LoginCallbackLive, WaiterTableExact, LateReplyReported,
      Live, Of, Tagged, TagsOf

(***************************************************************************)
(* One lemma per group of actions.                                          *)
(***************************************************************************)
LEMMA StartStep ==
    ASSUME IInv, NEW r \in Requests,
           StartLogin(r) \/ StartTagged(r) \/ StartBinary(r) \/ StartDiscovery(r) \/ StartFrame(r)
    PROVE  IInv'
<1> USE DEF IInv
<1>0. Begin(r)
  BY DEF StartLogin, StartTagged, StartBinary, StartDiscovery, StartFrame
<1>a. /\ UNCHANGED <<workload, event, result, rx>>
      /\ pc' \in [Requests -> {"idle", "sending", "waiting", "resending", "done"}]
      /\ attempt' \in [Requests -> Nat]
  BY <1>0 DEF Begin, Typed
<1>b. <<r, 1>> \in Tags /\ <<r, 1>> \in Requests \X Nat
  BY RequestsAssumption DEF Tags
<1>c. /\ waiters' \subseteq Tags
      /\ binary' \subseteq Requests \X Nat /\ discovery' \subseteq Requests \X Nat
  BY <1>b DEF StartLogin, StartTagged, StartBinary, StartDiscovery, StartFrame, Typed, tagVars
<1>d. Target(r) \in Contacts
  BY DEF Target, Typed
<1>e. pending' \in [Contacts -> Requests \cup {None}]
  BY <1>d
  DEF StartLogin, StartTagged, StartBinary, StartDiscovery, StartFrame, Typed, loginVars
<1>1. Begin(r) /\ Kind(r)' = Kind(r) /\ Typed'
  BY <1>0, <1>a, <1>c, <1>e DEF Typed, Kind
<1>2. TablesApart'
  BY <1>1 DEF StartLogin, StartTagged, StartBinary, StartDiscovery, StartFrame, Begin,
      TablesApart, Kind, tagVars
<1>3. LoginCallbackLive'
  BY <1>1, RequestsAssumption
  DEF StartLogin, StartTagged, StartBinary, StartDiscovery, StartFrame, Begin,
      LoginCallbackLive, Kind, Target, Live, loginVars, Typed, Frames, Of
<1>4. WaiterTableExact'
  BY <1>1, TagFacts
  DEF StartLogin, StartTagged, StartBinary, StartDiscovery, StartFrame, Begin,
      WaiterTableExact, Kind, Live, tagVars, Typed, Tagged, Of, TagsOf, Frames
<1>5. LateReplyReported'
  BY <1>1 DEF Begin, LateReplyReported, Kind, Of, Typed
<1> QED BY <1>1, <1>2, <1>3, <1>4, <1>5

\* Steps that touch none of the tables of the argument and no outcome of a
\* login or legacy request.
LEMMA SendOkStep ==
    ASSUME IInv, NEW r \in Requests, SendOkRetrying(r) \/ SendOkFrame(r)
    PROVE  IInv'
<1> USE DEF IInv
<1>1. /\ UNCHANGED <<workload, attempt, event, result, waiters, binary, discovery, pending, rx>>
      /\ Live(r)
      /\ \/ r \in Retrying /\ pc' = [pc EXCEPT ![r] = "waiting"]
         \/ r \in Frames /\ pc' = [pc EXCEPT ![r] = "done"]
  BY DEF SendOkRetrying, SendOkFrame, tagVars, loginVars, Live
<1>2. Typed'
  BY <1>1 DEF Typed, Tags
<1>3. TablesApart'
  BY <1>1 DEF TablesApart, Kind
<1>4. LoginCallbackLive'
  BY <1>1 DEF LoginCallbackLive, Kind, Target, Live, Frames, Of, Typed
<1>5. WaiterTableExact'
  BY <1>1, TagFacts DEF WaiterTableExact, Kind, Live, Tagged, TagsOf, Frames, Of, Typed
<1>6. LateReplyReported'
  BY <1>1 DEF LateReplyReported, Kind, Of, Frames, Typed, Live
<1> QED BY <1>2, <1>3, <1>4, <1>5, <1>6

\* A request that ends clears its waiters or its callback and its outcome is
\* right for its kind.
LEMMA EndStep ==
    ASSUME IInv, NEW r \in Requests, NEW value, Live(r),
           value \in {"reply", "failed", "timeout"},
           Kind(r) \in {"login", "legacy"} /\ event[r] # None /\ value # "failed"
               => value = "reply",
           Finish(r, value), Cleanup(r),
           UNCHANGED <<workload, attempt, event, binary, discovery, rx>>
    PROVE  IInv'
<1> USE DEF IInv
<1>1. Target(r) \in Contacts
  BY DEF Target, Typed
<1>2. pending' \in [Contacts -> Requests \cup {None}]
  BY <1>1 DEF Typed, Cleanup, WithoutCallback, loginVars
<1>3. Typed'
  BY <1>2 DEF Typed, Finish, Cleanup, Tags
<1>4. TablesApart'
  BY DEF TablesApart, Kind
<1>5. LoginCallbackLive'
  <2> SUFFICES ASSUME NEW c \in Contacts, pending'[c] # None, Kind(pending[c])' # "frame"
               PROVE  /\ Kind(pending[c])' = "login"
                      /\ Live(pending[c])' /\ Target(pending[c])' = c
    BY DEF LoginCallbackLive
  <2>1. pending'[c] = pending[c]
    BY <1>1 DEF Cleanup, WithoutCallback, Typed, loginVars
  <2>2. pending[c] \in Requests /\ Kind(pending[c])' = Kind(pending[c])
    BY <2>1 DEF Kind, Typed
  <2>3. Kind(pending[c]) = "login" /\ Live(pending[c]) /\ Target(pending[c]) = c
    BY <2>1, <2>2 DEF LoginCallbackLive
  <2>4. pending[c] # r
    <3> SUFFICES ASSUME pending[c] = r PROVE FALSE
      OBVIOUS
    <3>1. pending' = [pending EXCEPT ![c] = None]
      BY <2>3 DEF Cleanup, WithoutCallback
    <3> QED BY <3>1 DEF Typed
  <2> QED BY <2>1, <2>2, <2>3, <2>4 DEF Finish, Live, Target, Typed
<1>6. WaiterTableExact'
  <2>1. ASSUME NEW t \in waiters' PROVE t[1] \in Tagged' /\ Live(t[1])' /\ t[2] <= attempt'[t[1]]
    <3>1. t \in waiters /\ t \notin TagsOf(r)
      BY DEF Cleanup
    <3>2. t \in Tags /\ t[1] \in Tagged /\ Live(t[1]) /\ t[2] <= attempt[t[1]]
      BY <3>1 DEF WaiterTableExact, Typed
    <3>3. t[1] \in Requests /\ t[2] \in 1 .. attempt[t[1]]
      BY <3>2, TagFacts DEF Tags, Typed
    <3>4. t[1] # r
      BY <3>1, <3>2, <3>3, TagFacts DEF TagsOf
    <3> QED BY <3>2, <3>3, <3>4 DEF Tagged, Of, Kind, Live, Finish, Typed
  <2>2. ASSUME NEW q \in Tagged', Live(q)', event'[q] = None PROVE TagsOf(q)' \subseteq waiters'
    <3>1. q \in Tagged /\ q # r /\ q \in Requests /\ Live(q)
      BY <2>2 DEF Tagged, Of, Kind, Live, Finish, Typed
    <3>2. TagsOf(q) \subseteq waiters /\ TagsOf(q)' = TagsOf(q)
      BY <2>2, <3>1 DEF WaiterTableExact, TagsOf
    <3> QED BY <3>1, <3>2 DEF Cleanup, TagsOf
  <2> QED BY <2>1, <2>2 DEF WaiterTableExact
<1>7. LateReplyReported'
  BY DEF LateReplyReported, Finish, Of, Kind, Typed
<1> QED BY <1>3, <1>4, <1>5, <1>6, <1>7

\* What happens to frame sessions only removes callbacks, and ends frame
\* commands and sessions.
LEMMA FrameStep ==
    ASSUME IInv, Typed',
           UNCHANGED <<workload, attempt, event, waiters, binary, discovery, rx>>,
           \A c \in Contacts : pending'[c] \in {pending[c], None},
           \A r \in Requests \ Frames : pc'[r] = pc[r] /\ result'[r] = result[r]
    PROVE  IInv'
<1> USE DEF IInv
<1>1. TablesApart'
  BY DEF TablesApart, Kind
<1>2. LoginCallbackLive'
  <2> SUFFICES ASSUME NEW c \in Contacts, pending'[c] # None, Kind(pending[c])' # "frame"
               PROVE  /\ Kind(pending[c])' = "login"
                      /\ Live(pending[c])' /\ Target(pending[c])' = c
    BY DEF LoginCallbackLive
  <2>1. /\ pending'[c] = pending[c] /\ pending[c] \in Requests
        /\ Kind(pending[c])' = Kind(pending[c])
    BY DEF Kind, Typed
  <2>2. /\ Kind(pending[c]) = "login" /\ Live(pending[c]) /\ Target(pending[c]) = c
        /\ pending[c] \notin Frames
    BY <2>1 DEF LoginCallbackLive, Frames, Of
  <2> QED BY <2>1, <2>2 DEF Live, Target
<1>3. WaiterTableExact'
  <2>1. Tagged' = Tagged /\ \A r \in Tagged : r \in Requests \ Frames
    BY DEF Tagged, Frames, Of, Kind
  <2> QED BY <2>1 DEF WaiterTableExact, Live, TagsOf
<1>4. LateReplyReported'
  BY DEF LateReplyReported, Of, Frames, Kind
<1> QED BY <1>1, <1>2, <1>3, <1>4

LEMMA DropSessionFacts ==
    ASSUME IInv, NEW s \in Requests,
           DropSession(s) \/ UNCHANGED <<session, pending, password>>
    PROVE  /\ pending' \in [Contacts -> Requests \cup {None}]
           /\ \A c \in Contacts : pending'[c] \in {pending[c], None}
<1>1. Target(s) \in Contacts
  BY DEF Target, IInv, Typed
<1>2. pending' = pending \/ pending' = [pending EXCEPT ![Target(s)] = None]
  BY DEF DropSession, WithoutCallback
<1> QED BY <1>1, <1>2 DEF IInv, Typed

\* A reply: the table it is taken from loses its tag, and the event of the
\* request it completes is set.
LEMMA ProtocolHandlesStep ==
    ASSUME IInv, Typed', NEW t \in Tags, NEW isPath \in BOOLEAN, ProtocolHandles(t, isPath),
           UNCHANGED workload
    PROVE  IInv'
<1> USE DEF IInv
<1>0. t[1] \in Requests /\ t # None
  BY TagFacts
<1>1. UNCHANGED <<pc, attempt, result, pending>>
  BY DEF ProtocolHandles, callVars, loginVars
<1>2. TablesApart'
  BY DEF TablesApart, Kind, ProtocolHandles
<1>3. LoginCallbackLive'
  BY <1>1 DEF LoginCallbackLive, Kind, Live, Target
<1>4. WaiterTableExact'
  <2>1. Tagged' = Tagged
    BY DEF Tagged, Of, Kind
  <2>2. \A q \in waiters' : q[1] \in Tagged' /\ Live(q[1])' /\ q[2] <= attempt'[q[1]]
    BY <1>1, <2>1 DEF WaiterTableExact, ProtocolHandles, Live
  <2>3. ASSUME NEW r \in Tagged, Live(r), event'[r] = None PROVE TagsOf(r) \subseteq waiters'
    <3>1. event[r] = None /\ r \in Requests
      BY <1>0, <2>3 DEF ProtocolHandles, Typed, Tagged, Of
    <3>2. TagsOf(r) \subseteq waiters
      BY <2>3, <3>1 DEF WaiterTableExact
    <3>3. CASE t \in waiters
      <4>1. event' = [event EXCEPT ![t[1]] = t]
        BY <3>3 DEF ProtocolHandles
      <4>2. t[1] # r
        BY <4>1, <1>0, <2>3 DEF Typed
      <4> QED BY <3>2, <4>2, TagFacts DEF ProtocolHandles, TagsOf
    <3>4. CASE t \notin waiters
      BY <3>2, <3>4 DEF ProtocolHandles
    <3> QED BY <3>3, <3>4
  <2> QED BY <1>1, <2>1, <2>2, <2>3 DEF WaiterTableExact, Live, TagsOf
<1>5. LateReplyReported'
  <2>1. ASSUME NEW r \in Of({"login", "legacy"}), pc[r] = "done" PROVE event'[r] = event[r]
    <3>1. r \in Requests /\ Kind(r) \in {"login", "legacy"}
      BY DEF Of
    <3>2. ~(t \in waiters /\ t[1] = r)
      BY <2>1 DEF WaiterTableExact, Live
    <3>3. ~(t \in binary \cup discovery /\ t[1] = r)
      BY <3>1 DEF TablesApart
    <3> QED BY <1>0, <3>1, <3>2, <3>3 DEF ProtocolHandles, Typed
  <2> QED BY <1>1, <2>1 DEF LateReplyReported, Of, Kind
<1> QED BY <1>2, <1>3, <1>4, <1>5

LEMMA LoginHandlesStep ==
    ASSUME IInv, NEW t \in Tags, TakenForLogin(t), LoginHandles(t),
           rx' \in Tags \cup {None}, UNCHANGED workload
    PROVE  IInv'
<1> USE DEF IInv
<1> DEFINE c == Target(t[1])
           o == pending[c]
<1>0. t[1] \in Requests /\ t # None /\ c \in Contacts /\ t \in Requests \X Nat
  BY TagFacts, RequestsAssumption DEF Target, Typed, Tags
<1>1. UNCHANGED <<pc, attempt, result, waiters, binary, discovery, pending>>
  BY DEF LoginHandles, callVars, tagVars
<1>2. o \in Requests /\ (event' = event \/ event' = [event EXCEPT ![o] = t])
  BY <1>0 DEF LoginHandles, TakenForLogin, Typed
<1>3. Typed'
  BY <1>0, <1>1, <1>2 DEF Typed, Tags
<1>4. TablesApart'
  BY <1>1 DEF TablesApart, Kind
<1>5. LoginCallbackLive'
  BY <1>1 DEF LoginCallbackLive, Kind, Live, Target
<1>6. WaiterTableExact'
  <2>1. Tagged' = Tagged /\ \A r \in Requests : event'[r] = None => event[r] = None
    BY <1>0, <1>2 DEF Tagged, Of, Kind, Typed
  <2> QED BY <1>1, <2>1 DEF WaiterTableExact, Live, TagsOf, Tagged, Of
<1>7. LateReplyReported'
  <2>1. ASSUME NEW r \in Of({"login", "legacy"}), pc[r] = "done", event'[r] # event[r] PROVE FALSE
    <3>1. r = o /\ r \in Requests /\ Kind(r) \in {"login", "legacy"}
      BY <1>2, <2>1 DEF Of, Typed
    <3>2. o # None /\ Kind(o) # "frame"
      BY <3>1, RequestsAssumption
    <3>3. Live(o)
      BY <3>2, <1>0 DEF LoginCallbackLive
    <3> QED BY <3>1, <3>3, <2>1 DEF Live
  <2> QED BY <1>1, <2>1 DEF LateReplyReported, Of, Kind
<1> QED BY <1>3, <1>4, <1>5, <1>6, <1>7

-----------------------------------------------------------------------------
LEMMA CallStepIInv ==
    ASSUME IInv, NEW r \in Requests, CallStep(r)
    PROVE  IInv'
<1>1. CASE SendOkRetrying(r) \/ SendOkFrame(r)
  BY <1>1, SendOkStep
<1>2. CASE SendFails(r) /\ Kind(r) # "legacy"
  <2> DEFINE value == IF Kind(r) = "login" /\ pc[r] = "resending" THEN Outcome(r) ELSE "failed"
  <2>1. /\ Live(r) /\ Finish(r, value) /\ Cleanup(r)
        /\ UNCHANGED <<workload, attempt, event, binary, discovery, rx>>
    BY <1>2 DEF SendFails, Live
  <2>2. /\ value \in {"reply", "failed", "timeout"}
        /\ event[r] # None /\ value # "failed" => value = "reply"
    BY DEF Outcome
  <2> QED BY <2>1, <2>2, EndStep
<1>3. CASE SendFails(r) /\ Kind(r) = "legacy"
  <2>1. /\ UNCHANGED <<workload, attempt, event, result, waiters, binary, discovery, pending, rx>>
        /\ Live(r) /\ pc' = [pc EXCEPT ![r] = "waiting"]
    BY <1>3 DEF SendFails, Live, loginVars
  <2>2. Typed'
    BY <2>1 DEF IInv, Typed, Tags
  <2>3. TablesApart' /\ LoginCallbackLive'
    BY <2>1 DEF IInv, TablesApart, LoginCallbackLive, Kind, Target, Live, Typed
  <2>4. WaiterTableExact'
    BY <2>1, TagFacts DEF IInv, WaiterTableExact, Kind, Live, Tagged, TagsOf, Of, Typed
  <2>5. LateReplyReported'
    BY <2>1 DEF IInv, LateReplyReported, Kind, Of, Typed
  <2> QED BY <2>2, <2>3, <2>4, <2>5 DEF IInv
<1>4. CASE Wake(r) \/ GiveUp(r)
  <2>1. /\ Live(r) /\ Cleanup(r) /\ Finish(r, Outcome(r))
        /\ UNCHANGED <<workload, attempt, event, binary, discovery, rx>>
    BY <1>4 DEF Wake, GiveUp, Live, Outcome
  <2>2. /\ Outcome(r) \in {"reply", "failed", "timeout"}
        /\ event[r] # None => Outcome(r) = "reply"
    BY DEF Outcome
  <2> QED BY <2>1, <2>2, EndStep
<1>5. CASE Retry(r)
  <2>1. /\ UNCHANGED <<workload, event, result, binary, discovery, pending, rx>>
        /\ pc' = [pc EXCEPT ![r] = "resending"] /\ pc[r] = "waiting"
        /\ attempt' = [attempt EXCEPT ![r] = attempt[r] + 1]
        /\ attempt[r] \in Nat /\ attempt[r] + 1 \in 1 .. MaxAttempts
        /\ waiters' = IF r \in Tagged THEN waiters \cup {<<r, attempt[r] + 1>>} ELSE waiters
    BY <1>5, RequestsAssumption DEF IInv, Retry, loginVars, Typed, Tag
  <2>2. Typed'
    BY <2>1 DEF IInv, Typed, Tags
  <2>3. TablesApart' /\ LoginCallbackLive'
    BY <2>1 DEF IInv, TablesApart, LoginCallbackLive, Kind, Target, Live, Typed
  <2>4. WaiterTableExact'
    BY <2>1, TagFacts DEF IInv, WaiterTableExact, Kind, Live, Tagged, TagsOf, Of, Typed
  <2>5. LateReplyReported'
    BY <2>1 DEF IInv, LateReplyReported, Kind, Of, Typed
  <2> QED BY <2>2, <2>3, <2>4, <2>5 DEF IInv
<1>6. ASSUME NEW ok \in BOOLEAN, SendBinary(r, ok) \/ SendDiscovery(r, ok)
      PROVE  IInv'
  <2>1. /\ UNCHANGED <<workload, attempt, event, waiters, pending, rx>>
        /\ Kind(r) \in {"binary", "discovery"} /\ pc[r] = "sending"
        /\ pc' = [pc EXCEPT ![r] = "done"]
        /\ \E v \in {"sent", "failed"} : result' = [result EXCEPT ![r] = v]
        /\ \A t \in binary' \cup discovery' : t \in binary \cup discovery \/ t = <<r, attempt[r]>>
    BY <1>6 DEF SendBinary, SendDiscovery, Finish, loginVars, Tag
  <2>2. <<r, attempt[r]>> \in Requests \X Nat
    BY DEF IInv, Typed
  <2>3. Typed'
    BY <2>1, <2>2 DEF IInv, Typed, Tags
  <2>4. TablesApart' /\ LoginCallbackLive'
    BY <2>1 DEF IInv, TablesApart, LoginCallbackLive, Kind, Target, Live, Typed
  <2>5. WaiterTableExact'
    BY <2>1, TagFacts DEF IInv, WaiterTableExact, Kind, Live, Tagged, TagsOf, Of, Typed
  <2>6. LateReplyReported'
    BY <2>1 DEF IInv, LateReplyReported, Kind, Of, Typed
  <2> QED BY <2>3, <2>4, <2>5, <2>6 DEF IInv
<1>7. CASE SendFailsFrame(r)
  <2>1. /\ UNCHANGED <<workload, attempt, event, result, waiters, binary, discovery, rx>>
        /\ r \in Frames /\ pc' = [pc EXCEPT ![r] = "done"]
        /\ DropSession(r) \/ UNCHANGED <<session, pending, password>>
    BY <1>7 DEF SendFailsFrame, tagVars
  <2>2. Typed'
    BY <2>1, DropSessionFacts DEF IInv, Typed, Tags
  <2>3. \A q \in Requests \ Frames : pc'[q] = pc[q] /\ result'[q] = result[q]
    BY <2>1 DEF IInv, Typed
  <2> QED BY <2>1, <2>2, <2>3, DropSessionFacts, FrameStep
<1> QED BY <1>1, <1>2, <1>3, <1>4, <1>5, <1>6, <1>7 DEF CallStep

LEMMA TaskStepIInv ==
    ASSUME IInv, NEW s \in Requests, TaskStep(s)
    PROVE  IInv'
<1>1. CASE FrameLooksAgain(s)
  <2>1. UNCHANGED <<workload, pc, attempt, event, result, waiters, binary, discovery, pending, rx>>
    BY <1>1 DEF FrameLooksAgain, tagVars, loginVars
  <2>2. Typed'
    BY <2>1 DEF IInv, Typed, Tags
  <2> QED BY <2>1, <2>2, FrameStep
<1>2. ASSUME NEW value \in {"reply", "timeout"}, s \in Frames, FrameDone(s, value)
      PROVE  IInv'
  <2>1. /\ UNCHANGED <<workload, pc, attempt, event, waiters, binary, discovery, rx>>
        /\ result' = [result EXCEPT ![s] = value] /\ DropSession(s)
    BY <1>2 DEF FrameDone, tagVars
  <2>2. Typed'
    BY <2>1, DropSessionFacts DEF IInv, Typed, Tags
  <2>3. \A q \in Requests \ Frames : pc'[q] = pc[q] /\ result'[q] = result[q]
    BY <1>2, <2>1 DEF IInv, Typed
  <2> QED BY <2>1, <2>2, <2>3, DropSessionFacts, FrameStep
<1> QED BY <1>1, <1>2 DEF TaskStep, FrameWake, FrameExpires

LEMMA ClearFrameLoginsIInv == ASSUME IInv, ClearFrameLogins PROVE IInv'
<1>1. /\ UNCHANGED <<workload, pc, attempt, event, waiters, binary, discovery, rx>>
      /\ pending' \in [Contacts -> Requests \cup {None}]
      /\ \A c \in Contacts : pending'[c] \in {pending[c], None}
  BY DEF ClearFrameLogins, tagVars, IInv, Typed
<1>2. /\ result' \in [Requests -> {"none", "reply", "sent", "failed", "timeout", "cancelled"}]
      /\ \A q \in Requests \ Frames : result'[q] = result[q]
  BY DEF ClearFrameLogins, IInv, Typed
<1>3. Typed'
  BY <1>1, <1>2 DEF IInv, Typed, Tags
<1> QED BY <1>1, <1>2, <1>3, FrameStep

LEMMA ReplyIInv ==
    ASSUME IInv, NEW t \in Tags, Response(t) \/ PathReply(t) \/ BinaryExpires(t)
    PROVE  IInv'
<1>0. t \in Requests \X Nat /\ t[1] \in Requests
  BY TagFacts, RequestsAssumption DEF Tags
<1>1. ASSUME NEW isPath \in BOOLEAN, ProtocolHandles(t, isPath), rx' \in Tags \cup {None},
             UNCHANGED workload
      PROVE  IInv'
  <2>1. UNCHANGED <<pc, attempt, result, pending>>
    BY <1>1 DEF ProtocolHandles, callVars, loginVars
  <2>2. event' \in [Requests -> (Requests \X Nat) \cup {None}]
    BY <1>0, <1>1 DEF ProtocolHandles, IInv, Typed
  <2>3. Typed'
    BY <1>1, <2>1, <2>2 DEF IInv, Typed, Tags, ProtocolHandles
  <2> QED BY <1>1, <2>3, ProtocolHandlesStep
<1>2. CASE Response(t)
  <2>1. rx' \in Tags \cup {None} /\ UNCHANGED workload
    BY <1>2 DEF Response, IInv, Typed, Tags
  <2>2. CASE TakenForLogin(t)
    BY <1>2, <2>1, <2>2, LoginHandlesStep DEF Response
  <2>3. CASE ~TakenForLogin(t)
    BY <1>1, <1>2, <2>1, <2>3 DEF Response
  <2> QED BY <2>2, <2>3
<1>3. CASE PathReply(t)
  BY <1>1, <1>3 DEF PathReply
<1>4. CASE BinaryExpires(t)
  <2>1. /\ UNCHANGED <<workload, pc, attempt, event, result, waiters, discovery, pending, rx>>
        /\ binary' \subseteq binary
    BY <1>4 DEF BinaryExpires, callVars, loginVars
  <2>2. Typed'
    BY <2>1 DEF IInv, Typed, Tags
  <2>3. TablesApart'
    BY <2>1 DEF IInv, TablesApart, Kind
  <2>4. LoginCallbackLive' /\ WaiterTableExact' /\ LateReplyReported'
    BY <2>1 DEF IInv, LoginCallbackLive, WaiterTableExact, LateReplyReported, Live, Kind,
                Target, Of, Tagged, TagsOf
  <2> QED BY <2>2, <2>3, <2>4 DEF IInv
<1> QED BY <1>2, <1>3, <1>4

LEMMA PathReplyLoginIInv == ASSUME IInv, PathReplyLogin PROVE IInv'
<1>1. rx \in Tags /\ rx' \in Tags \cup {None} /\ UNCHANGED workload
  BY DEF PathReplyLogin, IInv, Typed
<1>2. CASE TakenForLogin(rx)
  BY <1>1, <1>2, LoginHandlesStep DEF PathReplyLogin
<1>3. CASE ~TakenForLogin(rx)
  <2>1. UNCHANGED <<workload, pc, attempt, event, result, waiters, binary, discovery, pending>>
    BY <1>1, <1>3 DEF PathReplyLogin, callVars, tagVars, loginVars
  <2>2. Typed'
    BY <1>1, <2>1 DEF IInv, Typed, Tags
  <2>3. TablesApart' /\ LoginCallbackLive' /\ WaiterTableExact' /\ LateReplyReported'
    BY <2>1 DEF IInv, TablesApart, LoginCallbackLive, WaiterTableExact, LateReplyReported,
                Live, Kind, Target, Of, Tagged, TagsOf
  <2> QED BY <2>2, <2>3 DEF IInv
<1> QED BY <1>2, <1>3

LEMMA StutterIInv == ASSUME IInv, UNCHANGED vars PROVE IInv'
<1>1. Typed'
  BY DEF vars, IInv, Typed, Tags
<1>2. TablesApart' /\ LoginCallbackLive' /\ WaiterTableExact' /\ LateReplyReported'
  BY DEF vars, IInv, TablesApart, LoginCallbackLive, WaiterTableExact, LateReplyReported,
         Live, Kind, Target, Of, Tagged, TagsOf
<1> QED BY <1>1, <1>2 DEF IInv

LEMMA Inductive == Spec => []IInv
<1>1. IInv /\ [Next]_vars => IInv'
  BY StartStep, CallStepIInv, TaskStepIInv, ReplyIInv, PathReplyLoginIInv,
     ClearFrameLoginsIInv, StutterIInv DEF Next
<1> QED BY <1>1, InitIInv, PTL DEF Spec

-----------------------------------------------------------------------------
(***************************************************************************)
(* Login state is released.  The argument is about the frame sessions: one  *)
(* that is registered is still being sent or has a waiting task, whoever    *)
(* else joined it, and it is what a frame callback and a stored password    *)
(* without a live API login rest on.                                        *)
(***************************************************************************)
FrameTyped ==
    /\ session \in [Contacts -> Requests \cup {None}]
    /\ joined \in [Requests -> Requests \cup {None}]
    /\ task \in [Requests -> {"none", "waiting", "done"}]

\* A session is that of a command that has begun.
JoinedBegun ==
    /\ \A r \in Requests : joined[r] # None => pc[joined[r]] # "idle"
    /\ \A r \in Requests : task[r] # "none" => pc[r] # "idle"
    /\ \A r \in Frames : pc[r] = "sending" => joined[r] # None

SessionsLive ==
    \A c \in Contacts : session[c] # None =>
        LET s == session[c] IN
        /\ s \in Frames /\ Target(s) = c /\ joined[s] = s /\ task[s] # "done"
        /\ pc[s] = "sending" \/ task[s] = "waiting"

FrameCallbacks ==
    \A c \in Contacts : pending[c] # None /\ Kind(pending[c]) = "frame" => session[c] = pending[c]

PasswordsOwned ==
    \A h \in password :
        \/ \E r \in Requests : Kind(r) = "login" /\ Live(r) /\ HashOf(r) = h
        \/ \E c \in Contacts : session[c] # None /\ Hash[c] = h

LInv == FrameTyped /\ JoinedBegun /\ SessionsLive /\ FrameCallbacks /\ PasswordsOwned

LEMMA InitLInv == Init => LInv
<1> SUFFICES ASSUME Init PROVE LInv
  OBVIOUS
<1>1. FrameTyped
  BY DEF Init, FrameTyped
<1>2. JoinedBegun
  BY DEF Init, JoinedBegun, Frames, Of
<1>3. SessionsLive /\ FrameCallbacks /\ PasswordsOwned
  BY DEF Init, SessionsLive, FrameCallbacks, PasswordsOwned
<1> QED BY <1>1, <1>2, <1>3 DEF LInv

\* The invariant gives the property.
LEMMA Released == ASSUME IInv, LInv PROVE LoginStateReleased
<1>1. ASSUME NEW c \in Contacts, session[c] # None
      PROVE  /\ session[c] \in Requests /\ LoginInProgress(session[c])
             /\ HashOf(session[c]) = Hash[c]
  BY <1>1 DEF LInv, SessionsLive, Frames, Of, LoginInProgress, Live, HashOf
<1>2. ASSUME NEW c \in Contacts, pending[c] # None PROVE LoginInProgress(pending[c])
  BY <1>1, <1>2 DEF IInv, LoginCallbackLive, LInv, FrameCallbacks, LoginInProgress
<1>3. ASSUME NEW h \in password PROVE \E r \in Requests : HashOf(r) = h /\ LoginInProgress(r)
  BY <1>1, <1>3 DEF LInv, PasswordsOwned, LoginInProgress
<1> QED BY <1>2, <1>3 DEF LoginStateReleased

LEMMA KindFacts ==
    ASSUME IInv, UNCHANGED workload
    PROVE  /\ \A r \in Requests : Kind(r)' = Kind(r) /\ Target(r)' = Target(r)
                                  /\ HashOf(r)' = HashOf(r) /\ Target(r) \in Contacts
           /\ Frames' = Frames /\ Frames \subseteq Requests
           /\ \A r \in Frames : Kind(r) = "frame"
  BY DEF IInv, Typed, Kind, Target, HashOf, Frames, Of

\* Steps of requests that are no frame commands, and replies: the sessions
\* stay, a callback is removed or set for a login, and a password goes with
\* the login that ends.
KeepsSessions ==
    /\ UNCHANGED <<workload, session, joined, task>>
    /\ \A r \in Frames : pc'[r] = pc[r] \/ (pc[r] = "waiting" /\ pc'[r] # "idle"
                                            /\ pc'[r] # "sending")
    /\ \A r \in Requests : pc[r] # "idle" => pc'[r] # "idle"
    /\ \A c \in Contacts : \/ pending'[c] \in {pending[c], None}
                           \/ pending'[c] \in Requests /\ Kind(pending'[c]) = "login"
    /\ \A h \in password' :
          \/ \E r \in Requests : Kind(r) = "login" /\ Live(r)' /\ HashOf(r) = h
          \/ h \in password /\ \A r \in Requests :
                Kind(r) = "login" /\ Live(r) /\ HashOf(r) = h => Live(r)'

LEMMA KeepsSessionsLInv == ASSUME IInv, LInv, KeepsSessions PROVE LInv'
<1>0. FrameTyped /\ JoinedBegun /\ SessionsLive /\ FrameCallbacks /\ PasswordsOwned
  BY DEF LInv
<1>k. UNCHANGED <<workload, session, joined, task>>
  BY DEF KeepsSessions
<1>p. /\ \A r \in Frames : pc'[r] = pc[r] \/ (pc[r] = "waiting" /\ pc'[r] # "idle"
                                              /\ pc'[r] # "sending")
      /\ \A r \in Requests : pc[r] # "idle" => pc'[r] # "idle"
  BY DEF KeepsSessions
<1>1. FrameTyped'
  BY <1>0, <1>k DEF FrameTyped
<1>2. JoinedBegun'
  BY <1>0, <1>k, <1>p, KindFacts DEF JoinedBegun, FrameTyped
<1>3. SessionsLive'
  BY <1>0, <1>k, <1>p, KindFacts DEF SessionsLive, FrameTyped
<1>4. FrameCallbacks'
  <2> SUFFICES ASSUME NEW c \in Contacts, pending'[c] # None, Kind(pending[c])' = "frame"
               PROVE  session'[c] = pending'[c]
    BY DEF FrameCallbacks
  <2>1. CASE pending'[c] = pending[c]
    <3>1. Kind(pending[c]) = "frame"
      BY <1>k, <2>1 DEF Kind
    <3> QED BY <1>0, <1>k, <2>1, <3>1 DEF FrameCallbacks
  <2>2. CASE pending'[c] \in Requests /\ Kind(pending'[c]) = "login"
    BY <1>k, <2>2 DEF Kind
  <2> QED BY <2>1, <2>2 DEF KeepsSessions
<1>5. PasswordsOwned'
  <2> SUFFICES ASSUME NEW h \in password'
               PROVE  \/ \E r \in Requests : Kind(r)' = "login" /\ Live(r)' /\ HashOf(r)' = h
                      \/ \E c \in Contacts : session'[c] # None /\ Hash[c] = h
    BY DEF PasswordsOwned
  <2>1. CASE \E r \in Requests : Kind(r) = "login" /\ Live(r)' /\ HashOf(r) = h
    BY <1>k, <2>1, KindFacts
  <2>2. CASE h \in password /\ \A r \in Requests :
                Kind(r) = "login" /\ Live(r) /\ HashOf(r) = h => Live(r)'
    BY <1>0, <1>k, <2>2, KindFacts DEF PasswordsOwned
  <2> QED BY <2>1, <2>2 DEF KeepsSessions
<1> QED BY <1>1, <1>2, <1>3, <1>4, <1>5 DEF LInv

\* A request that is no frame command ends with its own cleanup.
LEMMA EndLInv ==
    ASSUME IInv, LInv, NEW r \in Requests, Cleanup(r), pc' = [pc EXCEPT ![r] = "done"],
           r \notin Frames \/ pc[r] = "waiting", Live(r),
           UNCHANGED <<workload, session, joined, task>>
    PROVE  LInv'
<1>1. /\ \A q \in Requests : pc[q] # "idle" => pc'[q] # "idle"
      /\ \A q \in Frames : pc'[q] = pc[q] \/ (pc[q] = "waiting" /\ pc'[q] # "idle"
                                              /\ pc'[q] # "sending")
      /\ \A q \in Requests \ {r} : Live(q) => Live(q)'
  BY DEF IInv, Typed, Live, Frames, Of
<1>2. \A c \in Contacts : pending'[c] \in {pending[c], None}
  BY DEF Cleanup, WithoutCallback, loginVars, IInv, Typed
<1>3. /\ password' \subseteq password
      /\ Kind(r) = "login" => HashOf(r) \notin password'
  BY DEF Cleanup, loginVars
<1>4. KeepsSessions
  BY <1>1, <1>2, <1>3 DEF KeepsSessions
<1> QED BY <1>4, KeepsSessionsLInv

\* A reply takes no session, and a password only away.
LEMMA ReplyLInv ==
    ASSUME IInv, LInv, UNCHANGED <<workload, pc, pending, session, joined, task>>,
           password' \subseteq password
    PROVE  LInv'
<1>1. \A r \in Requests : Live(r) => Live(r)'
  BY DEF Live
<1>2. KeepsSessions
  BY <1>1 DEF KeepsSessions
<1> QED BY <1>2, KeepsSessionsLInv

LEMMA StartLInv ==
    ASSUME IInv, LInv, NEW r \in Requests,
           StartLogin(r) \/ StartTagged(r) \/ StartBinary(r) \/ StartDiscovery(r)
    PROVE  LInv'
<1>1. /\ r \notin Frames /\ pc' = [pc EXCEPT ![r] = "sending"]
      /\ UNCHANGED <<workload, session, joined, task>>
      /\ \/ UNCHANGED <<pending, password>>
         \/ /\ Kind(r) = "login" /\ password' = password \cup {HashOf(r)}
            /\ pending' = [pending EXCEPT ![Target(r)] = r]
  BY DEF StartLogin, StartTagged, StartBinary, StartDiscovery, Begin, frameVars, loginVars,
         Frames, Of, Tagged
<1>2. /\ \A q \in Requests : pc[q] # "idle" => pc'[q] # "idle"
      /\ \A q \in Frames : pc'[q] = pc[q]
      /\ \A q \in Requests : Live(q) => Live(q)'
      /\ Live(r)'
  BY <1>1 DEF IInv, Typed, Live, Frames, Of
<1>3. \A c \in Contacts : \/ pending'[c] \in {pending[c], None}
                          \/ pending'[c] \in Requests /\ Kind(pending'[c]) = "login"
  BY <1>1 DEF IInv, Typed
<1>4. \A h \in password' :
        \/ \E q \in Requests : Kind(q) = "login" /\ Live(q)' /\ HashOf(q) = h
        \/ h \in password /\ \A q \in Requests :
              Kind(q) = "login" /\ Live(q) /\ HashOf(q) = h => Live(q)'
  BY <1>1, <1>2
<1>5. KeepsSessions
  BY <1>1, <1>2, <1>3, <1>4 DEF KeepsSessions
<1> QED BY <1>5, KeepsSessionsLInv

\* A frame command joins a session that takes replies still, or opens one.
LEMMA StartFrameLInv == ASSUME IInv, LInv, NEW r \in Requests, StartFrame(r) PROVE LInv'
<1> DEFINE c0 == Target(r)
           s0 == IF Reusable(session[c0]) THEN session[c0] ELSE r
<1>i. FrameTyped /\ JoinedBegun /\ SessionsLive /\ FrameCallbacks /\ PasswordsOwned
  BY DEF LInv
<1>1. /\ r \in Frames /\ pc[r] = "idle" /\ c0 \in Contacts /\ Target(r) = c0
      /\ pc' = [pc EXCEPT ![r] = "sending"]
      /\ session' = [session EXCEPT ![c0] = s0]
      /\ joined' = [joined EXCEPT ![r] = s0]
      /\ pending' = IF s0 = r THEN [pending EXCEPT ![c0] = r] ELSE pending
      /\ password' = password \cup {HashOf(r)}
      /\ UNCHANGED <<workload, task>>
  BY KindFacts DEF StartFrame, Begin
<1>2. s0 # r => s0 = session[c0] /\ session[c0] # None
  BY DEF Reusable
<1> HIDE DEF c0, s0
<1>3. /\ s0 \in Frames /\ Target(s0) = c0 /\ s0 \in Requests /\ r \in Requests /\ s0 # None
      /\ s0 # r => pc[s0] # "idle"
  BY <1>i, <1>1, <1>2, KindFacts, RequestsAssumption DEF SessionsLive, JoinedBegun, FrameTyped
<1>4. task[r] = "none"
  BY <1>i, <1>1, <1>3 DEF JoinedBegun
<1>5. FrameTyped'
  BY <1>i, <1>1, <1>3 DEF FrameTyped
<1>6. \A q \in Requests : pc[q] # "idle" => q # r /\ pc'[q] = pc[q]
  BY <1>1 DEF IInv, Typed
<1>6a. pc'[r] = "sending" /\ pc'[s0] # "idle"
  BY <1>1, <1>3, <1>6 DEF IInv, Typed
<1>7. JoinedBegun'
  <2>1. \A q \in Requests : joined'[q] # None => pc'[joined'[q]] # "idle"
    BY <1>i, <1>1, <1>3, <1>6, <1>6a DEF JoinedBegun, FrameTyped
  <2>2. \A q \in Requests : task'[q] # "none" => pc'[q] # "idle"
    BY <1>i, <1>1, <1>4, <1>6 DEF JoinedBegun
  <2>3. \A q \in Frames' : pc'[q] = "sending" => joined'[q] # None
    <3> SUFFICES ASSUME NEW q \in Frames, pc'[q] = "sending" PROVE joined'[q] # None
      BY <1>1, KindFacts
    <3>1. CASE q = r
      BY <1>i, <1>1, <1>3, <3>1 DEF FrameTyped
    <3>2. CASE q # r
      BY <1>i, <1>1, <3>2, KindFacts DEF JoinedBegun, FrameTyped, IInv, Typed
    <3> QED BY <3>1, <3>2
  <2> QED BY <1>i, <2>1, <2>2, <2>3 DEF JoinedBegun
<1>8. SessionsLive'
  <2> SUFFICES ASSUME NEW c \in Contacts, session'[c] # None
               PROVE  LET s == session'[c] IN
                      /\ s \in Frames /\ Target(s) = c /\ joined'[s] = s /\ task'[s] # "done"
                      /\ pc'[s] = "sending" \/ task'[s] = "waiting"
    BY <1>i, <1>1, KindFacts DEF SessionsLive
  <2>1. CASE c = c0 /\ s0 = r
    BY <1>i, <1>1, <1>3, <1>4, <1>6a, <2>1 DEF FrameTyped
  <2>2. CASE c # c0 \/ s0 # r
    <3>1. session'[c] = session[c]
      BY <1>i, <1>1, <1>2, <2>2 DEF FrameTyped
    <3>2. session[c] # r
      <4>1. CASE c = c0
        BY <2>2, <4>1, <1>2
      <4>2. CASE c # c0
        BY <1>i, <1>1, <4>2, <3>1 DEF SessionsLive
      <4> QED BY <4>1, <4>2
    <3>3. joined'[session[c]] = joined[session[c]] /\ pc'[session[c]] = pc[session[c]]
      BY <1>i, <1>1, <3>1, <3>2, KindFacts DEF FrameTyped, IInv, Typed, SessionsLive
    <3> QED BY <1>i, <1>1, <3>1, <3>3 DEF SessionsLive
  <2> QED BY <2>1, <2>2
<1>9. FrameCallbacks'
  <2> SUFFICES ASSUME NEW c \in Contacts, pending'[c] # None, Kind(pending[c])' = "frame"
               PROVE  session'[c] = pending'[c]
    BY <1>i DEF FrameCallbacks
  <2>1. CASE c = c0 /\ s0 = r
    BY <1>i, <1>1, <2>1 DEF FrameTyped, IInv, Typed
  <2>2. CASE c # c0 \/ s0 # r
    <3>1. session'[c] = session[c] /\ pending'[c] = pending[c]
      BY <1>i, <1>1, <1>2, <2>2 DEF FrameTyped, IInv, Typed
    <3>2. Kind(pending[c]) = "frame"
      BY <1>1, <3>1 DEF Kind
    <3> QED BY <1>i, <3>1, <3>2 DEF FrameCallbacks
  <2> QED BY <2>1, <2>2
<1>10. PasswordsOwned'
  <2> SUFFICES ASSUME NEW h \in password'
               PROVE  \/ \E q \in Requests : Kind(q)' = "login" /\ Live(q)' /\ HashOf(q)' = h
                      \/ \E c \in Contacts : session'[c] # None /\ Hash[c] = h
    BY <1>i DEF PasswordsOwned
  <2>1. session'[c0] # None /\ \A c \in Contacts : session[c] # None => session'[c] # None
    BY <1>i, <1>1, <1>3 DEF FrameTyped
  <2>2. CASE h = HashOf(r)
    BY <1>1, <2>1, <2>2 DEF HashOf
  <2>3. CASE h \in password
    <3>1. \A q \in Requests : Live(q) => Live(q)'
      BY <1>6 DEF Live
    <3> QED BY <1>i, <1>1, <2>1, <2>3, <3>1, KindFacts DEF PasswordsOwned
  <2> QED BY <1>1, <2>2, <2>3
<1> QED BY <1>5, <1>7, <1>8, <1>9, <1>10 DEF LInv

\* Taking a session down takes its callback and its password with it; the
\* others keep theirs.  It is what a step does in which only frame commands
\* and their tasks move on, and only of the sessions it takes down.
TakesDown(gone) ==
    /\ gone \in SUBSET Frames /\ \A s \in gone : session[Target(s)] = s
    /\ UNCHANGED <<workload, joined>>
    /\ session' \in [Contacts -> Requests \cup {None}]
    /\ \A c \in Contacts : session'[c] = IF session[c] \in gone THEN None ELSE session[c]
    /\ \A c \in Contacts : pending'[c] = IF pending[c] \in gone THEN None ELSE pending[c]
    /\ password' = password \ {HashOf(s) : s \in gone}
    /\ task' \in [Requests -> {"none", "waiting", "done"}]
    /\ \A q \in Requests \ gone : task'[q] = task[q]
    /\ \A q \in gone : task[q] = "none" => task'[q] = "none"
    /\ \A q \in Frames \ gone : session[Target(q)] = q => pc'[q] = pc[q]
    /\ \A q \in Requests : pc'[q] = pc[q] \/ (pc[q] = "sending" /\ pc'[q] = "done"
                                              /\ q \in Frames)

LEMMA TakesDownLInv == ASSUME IInv, LInv, NEW gone, TakesDown(gone) PROVE LInv'
<1>0. FrameTyped /\ JoinedBegun /\ SessionsLive /\ FrameCallbacks /\ PasswordsOwned
  BY DEF LInv
<1>g. gone \subseteq Frames /\ \A s \in gone : session[Target(s)] = s
  BY DEF TakesDown
<1>k. UNCHANGED <<workload, joined>>
  BY DEF TakesDown
<1>n. None \notin gone
  BY <1>g, <1>k, RequestsAssumption, KindFacts
<1>s. \A c \in Contacts : session'[c] = IF session[c] \in gone THEN None ELSE session[c]
  BY DEF TakesDown
<1>c. \A c \in Contacts : pending'[c] = IF pending[c] \in gone THEN None ELSE pending[c]
  BY DEF TakesDown
<1>w. password' = password \ {HashOf(s) : s \in gone}
  BY DEF TakesDown
<1>t. /\ \A q \in Requests \ gone : task'[q] = task[q]
      /\ \A q \in gone : task[q] = "none" => task'[q] = "none"
  BY DEF TakesDown
<1>q. \A q \in Frames \ gone : session[Target(q)] = q => pc'[q] = pc[q]
  BY DEF TakesDown
<1>p. \A q \in Requests : pc'[q] = pc[q] \/ (pc[q] = "sending" /\ pc'[q] = "done" /\ q \in Frames)
  BY DEF TakesDown
<1>1. FrameTyped'
  BY <1>0, <1>k DEF TakesDown, FrameTyped
<1>2. JoinedBegun'
  <2>1. /\ \A q \in Requests : pc[q] # "idle" => pc'[q] # "idle"
        /\ \A q \in Requests : pc'[q] = "sending" => pc[q] = "sending"
    BY <1>p
  <2>2. \A q \in Requests : task'[q] # "none" => task[q] # "none"
    BY <1>t
  <2> QED BY <1>0, <1>k, <2>1, <2>2, KindFacts DEF JoinedBegun, FrameTyped
<1>3. SessionsLive'
  <2> SUFFICES ASSUME NEW c \in Contacts, session'[c] # None
               PROVE  LET s == session'[c] IN
                      /\ s \in Frames /\ Target(s) = c /\ joined'[s] = s /\ task'[s] # "done"
                      /\ pc'[s] = "sending" \/ task'[s] = "waiting"
    BY <1>k, KindFacts, <1>0 DEF SessionsLive, FrameTyped
  <2>1. session'[c] = session[c] /\ session[c] \notin gone /\ session[c] # None
    BY <1>s
  <2>2. /\ session[c] \in Frames /\ Target(session[c]) = c /\ joined[session[c]] = session[c]
        /\ task[session[c]] # "done"
        /\ pc[session[c]] = "sending" \/ task[session[c]] = "waiting"
    BY <1>0, <2>1 DEF SessionsLive
  <2>3. pc'[session[c]] = pc[session[c]] /\ task'[session[c]] = task[session[c]]
    BY <1>k, <1>q, <1>t, <2>1, <2>2, KindFacts
  <2> QED BY <1>k, <2>1, <2>2, <2>3
<1>4. FrameCallbacks'
  <2> SUFFICES ASSUME NEW c \in Contacts, pending'[c] # None, Kind(pending[c])' = "frame"
               PROVE  session'[c] = pending'[c]
    BY DEF FrameCallbacks
  <2>1. pending'[c] = pending[c] /\ pending[c] \notin gone /\ pending[c] # None
    BY <1>c
  <2>2. Kind(pending[c]) = "frame"
    BY <1>k, <2>1 DEF Kind
  <2>3. session[c] = pending[c]
    BY <1>0, <2>1, <2>2 DEF FrameCallbacks
  <2> QED BY <1>s, <2>1, <2>3
<1>5. PasswordsOwned'
  <2> SUFFICES ASSUME NEW h \in password'
               PROVE  \/ \E q \in Requests : Kind(q)' = "login" /\ Live(q)' /\ HashOf(q)' = h
                      \/ \E c \in Contacts : session'[c] # None /\ Hash[c] = h
    BY DEF PasswordsOwned
  <2>1. h \in password /\ \A s \in gone : HashOf(s) # h
    BY <1>w
  <2>2. CASE \E q \in Requests : Kind(q) = "login" /\ Live(q) /\ HashOf(q) = h
    <3>1. PICK q \in Requests : Kind(q) = "login" /\ Live(q) /\ HashOf(q) = h
      BY <2>2
    <3>2. q \notin Frames /\ pc'[q] = pc[q]
      BY <1>k, <1>p, <3>1, KindFacts
    <3>3. Live(q)'
      BY <3>1, <3>2 DEF Live
    <3> QED BY <1>k, <3>1, <3>3, KindFacts
  <2>3. CASE \E c \in Contacts : session[c] # None /\ Hash[c] = h
    <3>1. PICK c \in Contacts : session[c] # None /\ Hash[c] = h
      BY <2>3
    <3>2. Target(session[c]) = c
      BY <1>0, <3>1 DEF SessionsLive
    <3>3. HashOf(session[c]) = h
      BY <3>1, <3>2 DEF HashOf
    <3>4. session[c] \notin gone
      BY <2>1, <3>3
    <3> QED BY <1>s, <3>1, <3>4
  <2> QED BY <1>0, <2>1, <2>2, <2>3 DEF PasswordsOwned
<1> QED BY <1>1, <1>2, <1>3, <1>4, <1>5 DEF LInv

\* The session whose owner's command was sent has a waiting task from then on.
LEMMA SendOkFrameLInv == ASSUME IInv, LInv, NEW r \in Requests, SendOkFrame(r) PROVE LInv'
<1> DEFINE s0 == joined[r]
<1>i. FrameTyped /\ JoinedBegun /\ SessionsLive /\ FrameCallbacks /\ PasswordsOwned
  BY DEF LInv
<1>1. /\ r \in Frames /\ pc[r] = "sending" /\ s0 \in Requests
      /\ pc' = [pc EXCEPT ![r] = "done"]
      /\ task' = IF task[s0] = "none" THEN [task EXCEPT ![s0] = "waiting"] ELSE task
      /\ UNCHANGED <<workload, pending, password, session, joined>>
  BY <1>i DEF SendOkFrame, loginVars, JoinedBegun, FrameTyped
<1>2. FrameTyped'
  BY <1>i, <1>1 DEF FrameTyped
<1>3. /\ \A q \in Requests : pc[q] # "idle" => pc'[q] # "idle"
      /\ \A q \in Requests \ {r} : pc'[q] = pc[q]
      /\ pc'[r] = "done"
  BY <1>1 DEF IInv, Typed
<1>4. /\ task[s0] # "done" => task'[s0] = "waiting"
      /\ \A q \in Requests : task'[q] = task[q] \/ (task'[q] = "waiting" /\ q = s0
                                                    /\ task[q] = "none")
  BY <1>i, <1>1 DEF FrameTyped
<1>5. JoinedBegun'
  BY <1>i, <1>1, <1>3, <1>4, KindFacts DEF JoinedBegun, FrameTyped
<1>6. SessionsLive'
  <2> SUFFICES ASSUME NEW c \in Contacts, session[c] # None
               PROVE  LET s == session[c] IN
                      /\ s \in Frames /\ Target(s) = c /\ joined[s] = s /\ task'[s] # "done"
                      /\ pc'[s] = "sending" \/ task'[s] = "waiting"
    BY <1>i, <1>1, KindFacts DEF SessionsLive
  <2>1. /\ session[c] \in Frames /\ Target(session[c]) = c /\ joined[session[c]] = session[c]
        /\ task[session[c]] # "done"
        /\ pc[session[c]] = "sending" \/ task[session[c]] = "waiting"
    BY <1>i DEF SessionsLive
  <2> QED BY <1>1, <1>3, <1>4, <2>1, KindFacts
<1>7. FrameCallbacks'
  BY <1>i, <1>1 DEF FrameCallbacks, Kind
<1>8. PasswordsOwned'
  <2>1. \A q \in Requests : Kind(q) = "login" /\ Live(q) => Live(q)'
    BY <1>1, <1>3, KindFacts DEF Live
  <2> QED BY <1>i, <1>1, <2>1, KindFacts DEF PasswordsOwned
<1> QED BY <1>2, <1>5, <1>6, <1>7, <1>8 DEF LInv

LEMMA DropSessionLInv ==
    ASSUME IInv, LInv, NEW s \in Frames, DropSession(s), UNCHANGED <<workload, joined>>,
           \/ /\ joined[s] = s /\ pc[s] = "sending" /\ UNCHANGED task
              /\ pc' = [pc EXCEPT ![s] = "done"]
           \/ /\ task[s] = "waiting" /\ task' = [task EXCEPT ![s] = "done"]
              /\ UNCHANGED pc
    PROVE  LInv'
<1> DEFINE gone == IF session[Target(s)] = s THEN {s} ELSE {}
<1>i. FrameTyped /\ JoinedBegun /\ SessionsLive /\ FrameCallbacks /\ PasswordsOwned
  BY DEF LInv
<1>0. s \in Requests /\ Target(s) \in Contacts
  BY KindFacts
<1>1. gone \in SUBSET Frames /\ \A q \in gone : session[Target(q)] = q
  OBVIOUS
<1>2. /\ session' \in [Contacts -> Requests \cup {None}]
      /\ \A c \in Contacts : session'[c] = IF session[c] \in gone THEN None ELSE session[c]
  BY <1>i, <1>0, RequestsAssumption DEF DropSession, FrameTyped, SessionsLive
<1>3. \A c \in Contacts : pending'[c] = IF pending[c] \in gone THEN None ELSE pending[c]
  <2>1. \A c \in Contacts : pending[c] = s => session[c] = s
    BY <1>i, <1>0, KindFacts, RequestsAssumption DEF FrameCallbacks
  <2>2. \A c \in Contacts : session[c] = s => c = Target(s)
    BY <1>i, <1>0, RequestsAssumption DEF SessionsLive
  <2> QED BY <1>0, <2>1, <2>2 DEF DropSession, WithoutCallback, IInv, Typed
<1>4. password' = password \ {HashOf(q) : q \in gone}
  BY DEF DropSession
<1>5. /\ task' \in [Requests -> {"none", "waiting", "done"}]
      /\ \A q \in Requests \ {s} : task'[q] = task[q]
      /\ task[s] = "none" => task'[s] = "none"
      /\ \A q \in Requests : pc'[q] = pc[q] \/ (pc[q] = "sending" /\ pc'[q] = "done" /\ q = s)
  BY <1>i, <1>0 DEF FrameTyped, IInv, Typed
<1>6. CASE session[Target(s)] = s
  <2>1. gone = {s}
    BY <1>6
  <2>2. /\ \A q \in Requests \ gone : task'[q] = task[q]
        /\ \A q \in Frames \ gone : session[Target(q)] = q => pc'[q] = pc[q]
        /\ \A q \in Requests : pc'[q] = pc[q] \/ (pc[q] = "sending" /\ pc'[q] = "done"
                                                  /\ q \in Frames)
        /\ \A q \in gone : task[q] = "none" => task'[q] = "none"
    BY <1>5, <2>1, KindFacts
  <2> HIDE DEF gone
  <2>3. TakesDown(gone)
    BY <1>1, <1>2, <1>3, <1>4, <1>5, <2>2 DEF TakesDown
  <2> QED BY <2>3, TakesDownLInv
<1>7. CASE session[Target(s)] # s
  <2>1. UNCHANGED <<session, pending, password>>
    BY <1>7 DEF DropSession
  <2>2. \A c \in Contacts : session[c] # s
    BY <1>i, <1>0, <1>7, RequestsAssumption DEF SessionsLive
  <2>3. FrameTyped'
    BY <1>i, <1>2, <1>5 DEF FrameTyped
  <2>4. JoinedBegun'
    <3>1. /\ \A q \in Requests : pc[q] # "idle" => pc'[q] # "idle"
          /\ \A q \in Requests : pc'[q] = "sending" => pc[q] = "sending"
          /\ \A q \in Requests : task'[q] # "none" => task[q] # "none"
      BY <1>0, <1>5
    <3> QED BY <1>i, <3>1, KindFacts DEF JoinedBegun, FrameTyped
  <2>5. SessionsLive'
    <3> SUFFICES ASSUME NEW c \in Contacts, session[c] # None
                 PROVE  LET q == session[c] IN
                        /\ q \in Frames /\ Target(q) = c /\ joined[q] = q /\ task'[q] # "done"
                        /\ pc'[q] = "sending" \/ task'[q] = "waiting"
      BY <1>i, <2>1, KindFacts DEF SessionsLive
    <3>1. /\ session[c] \in Frames /\ Target(session[c]) = c /\ joined[session[c]] = session[c]
          /\ task[session[c]] # "done"
          /\ pc[session[c]] = "sending" \/ task[session[c]] = "waiting"
      BY <1>i DEF SessionsLive
    <3> QED BY <1>5, <2>2, <3>1, KindFacts
  <2>6. FrameCallbacks'
    BY <1>i, <2>1 DEF FrameCallbacks, Kind
  <2>7. PasswordsOwned'
    <3>1. \A q \in Requests : Kind(q) = "login" /\ Live(q) => Live(q)'
      BY <1>5, KindFacts DEF Live
    <3> QED BY <1>i, <2>1, <3>1, KindFacts DEF PasswordsOwned
  <2> QED BY <2>3, <2>4, <2>5, <2>6, <2>7 DEF LInv
<1> QED BY <1>6, <1>7

LEMMA ClearFrameLoginsLInv == ASSUME IInv, LInv, ClearFrameLogins PROVE LInv'
<1> DEFINE open == {s \in Frames : session[Target(s)] = s}
<1>1. /\ open \in SUBSET Frames /\ \A q \in open : session[Target(q)] = q
      /\ UNCHANGED <<workload, joined, pc>>
      /\ password' = password \ {HashOf(q) : q \in open}
  BY DEF ClearFrameLogins
<1>2. /\ session' \in [Contacts -> Requests \cup {None}]
      /\ \A c \in Contacts : session'[c] = IF session[c] \in open THEN None ELSE session[c]
  <2>1. \A c \in Contacts : session[c] = None \/ session[c] \in open
    BY DEF LInv, SessionsLive
  <2> QED BY <2>1 DEF ClearFrameLogins
<1>3. \A c \in Contacts : pending'[c] = IF pending[c] \in open THEN None ELSE pending[c]
  BY DEF ClearFrameLogins
<1>4. /\ task' \in [Requests -> {"none", "waiting", "done"}]
      /\ \A q \in Requests \ open : task'[q] = task[q]
      /\ \A q \in open : task[q] = "none" => task'[q] = "none"
  BY KindFacts, <1>1 DEF ClearFrameLogins, LInv, FrameTyped
<1> HIDE DEF open
<1>5. TakesDown(open)
  BY <1>1, <1>2, <1>3, <1>4 DEF TakesDown
<1> QED BY <1>5, TakesDownLInv

LEMMA CallStepLInv == ASSUME IInv, LInv, NEW r \in Requests, CallStep(r) PROVE LInv'
<1> USE DEF frameVars, loginVars
<1>1. CASE SendOkRetrying(r) \/ Retry(r) \/ (SendFails(r) /\ Kind(r) = "legacy")
  <2>1. /\ UNCHANGED <<workload, pending, password, session, joined, task>>
        /\ r \notin Frames \/ pc[r] = "waiting"
        /\ \E v \in {"waiting", "resending"} : pc' = [pc EXCEPT ![r] = v]
    BY <1>1 DEF SendOkRetrying, Retry, SendFails, Retrying, Frames, Of
  <2>2. /\ \A q \in Requests : pc[q] # "idle" => pc'[q] # "idle"
        /\ \A q \in Frames : pc'[q] = pc[q] \/ (pc[q] = "waiting" /\ pc'[q] # "idle"
                                                /\ pc'[q] # "sending")
        /\ \A q \in Requests : Live(q) => Live(q)'
    BY <2>1, KindFacts DEF IInv, Typed, Live
  <2>3. KeepsSessions
    BY <2>1, <2>2 DEF KeepsSessions
  <2> QED BY <2>3, KeepsSessionsLInv
<1>2. CASE SendFails(r) /\ Kind(r) # "legacy"
  <2>1. /\ Live(r) /\ Cleanup(r) /\ pc' = [pc EXCEPT ![r] = "done"] /\ r \notin Frames
        /\ UNCHANGED <<workload, session, joined, task>>
    BY <1>2 DEF SendFails, Live, Finish, Retrying, Frames, Of
  <2> QED BY <2>1, EndLInv
<1>3. CASE Wake(r) \/ GiveUp(r)
  <2>1. /\ Live(r) /\ Cleanup(r) /\ pc' = [pc EXCEPT ![r] = "done"] /\ pc[r] = "waiting"
        /\ UNCHANGED <<workload, session, joined, task>>
    BY <1>3 DEF Wake, GiveUp, Live, Finish
  <2> QED BY <2>1, EndLInv
<1>4. ASSUME NEW ok \in BOOLEAN, SendBinary(r, ok) \/ SendDiscovery(r, ok)
      PROVE  LInv'
  <2>1. /\ UNCHANGED <<workload, pending, password, session, joined, task>>
        /\ Kind(r) \in {"binary", "discovery"} /\ pc' = [pc EXCEPT ![r] = "done"]
    BY <1>4 DEF SendBinary, SendDiscovery, Finish
  <2>2. /\ \A q \in Requests : pc[q] # "idle" => pc'[q] # "idle"
        /\ \A q \in Frames : pc'[q] = pc[q]
        /\ \A q \in Requests : Kind(q) = "login" /\ Live(q) => Live(q)'
    BY <2>1, KindFacts DEF IInv, Typed, Live
  <2>3. KeepsSessions
    BY <2>1, <2>2 DEF KeepsSessions
  <2> QED BY <2>3, KeepsSessionsLInv
<1>5. CASE SendOkFrame(r)
  BY <1>5, SendOkFrameLInv
<1>6. CASE SendFailsFrame(r)
  <2>1. CASE joined[r] = r
    BY <1>6, <2>1, DropSessionLInv DEF SendFailsFrame
  <2>2. CASE joined[r] # r
    <3>1. /\ r \in Frames /\ pc[r] = "sending" /\ pc' = [pc EXCEPT ![r] = "done"]
          /\ UNCHANGED <<workload, pending, password, session, joined, task>>
      BY <1>6, <2>2 DEF SendFailsFrame
    <3>2. /\ \A q \in Requests \ {r} : pc'[q] = pc[q]
          /\ pc'[r] = "done"
      BY <3>1 DEF IInv, Typed
    <3>3. \A q \in Frames : session[Target(q)] = q => pc'[q] = pc[q]
      <4>1. \A q \in Frames : session[Target(q)] = q => joined[q] = q
        BY <3>1, KindFacts, RequestsAssumption DEF LInv, SessionsLive
      <4> QED BY <2>2, <3>1, <3>2, <4>1, KindFacts
    <3>4. /\ session' \in [Contacts -> Requests \cup {None}]
          /\ task' \in [Requests -> {"none", "waiting", "done"}]
      BY <3>1 DEF LInv, FrameTyped
    <3>5. /\ \A c \in Contacts : session'[c] = IF session[c] \in {} THEN None ELSE session[c]
          /\ \A c \in Contacts : pending'[c] = IF pending[c] \in {} THEN None ELSE pending[c]
          /\ password' = password \ {HashOf(q) : q \in {}}
          /\ \A q \in Requests : pc'[q] = pc[q] \/ (pc[q] = "sending" /\ pc'[q] = "done"
                                                    /\ q \in Frames)
      BY <3>1, <3>2
    <3>6. {} \in SUBSET Frames
      OBVIOUS
    <3>7. TakesDown({})
      BY <3>1, <3>3, <3>4, <3>5, <3>6 DEF TakesDown
    <3> QED BY <3>7, TakesDownLInv
  <2> QED BY <2>1, <2>2
<1> QED BY <1>1, <1>2, <1>3, <1>4, <1>5, <1>6 DEF CallStep

LEMMA TaskStepLInv == ASSUME IInv, LInv, NEW s \in Requests, TaskStep(s) PROVE LInv'
<1>1. CASE FrameLooksAgain(s)
  BY <1>1, ReplyLInv DEF FrameLooksAgain, loginVars
<1>2. ASSUME NEW value, s \in Frames, FrameDone(s, value) PROVE LInv'
  BY <1>2, DropSessionLInv DEF FrameDone
<1> QED BY <1>1, <1>2 DEF TaskStep, FrameWake, FrameExpires

LEMMA RepliesLInv ==
    ASSUME IInv, LInv,
           \/ \E t \in Tags : Response(t) \/ PathReply(t) \/ BinaryExpires(t)
           \/ PathReplyLogin
    PROVE  LInv'
<1>1. /\ UNCHANGED <<workload, pc, pending, session, joined, task>>
      /\ password' \subseteq password
  BY DEF Response, PathReply, BinaryExpires, PathReplyLogin, ProtocolHandles, LoginHandles,
         frameVars, loginVars, callVars
<1> QED BY <1>1, ReplyLInv

LEMMA InductiveLInv == Spec => []LInv
<1>1. IInv /\ LInv /\ UNCHANGED vars => LInv'
  BY ReplyLInv DEF vars
<1>2. IInv /\ LInv /\ [Next]_vars => LInv'
  BY <1>1, StartLInv, StartFrameLInv, CallStepLInv, TaskStepLInv, RepliesLInv,
     ClearFrameLoginsLInv DEF Next
<1> QED BY <1>2, Inductive, InitLInv, PTL DEF Spec

\* Whatever the requests, contacts and number of attempts, every transmission
\* of an unanswered request can still be answered and no waiter outlives its
\* request.
THEOREM WaitersExact == Spec => []WaiterTableExact
  BY Inductive, PTL DEF IInv

\* A login or a legacy protocol request that returns reports the reply its
\* waiter was given, whenever it landed.
THEOREM LateReplies == Spec => []LateReplyReported
  BY Inductive, PTL DEF IInv

\* No login callback and no stored password outlives the logins it was made
\* for, whichever of them failed, were answered late or were cancelled, and
\* however many contacts share a hash.
THEOREM LoginReleased == Spec => []LoginStateReleased
  BY Inductive, InductiveLInv, Released, PTL
=============================================================================
