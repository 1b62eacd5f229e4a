------------------------------ MODULE Requests ------------------------------
(***************************************************************************)
(* The companion's requests to a peer and the two handlers that match the   *)
(* peer's replies to them (companion/base_send.py, base_callbacks.py,       *)
(* base_support.py, node/handlers/login_response.py, protocol_response.py   *)
(* and path.py).                                                            *)
(*                                                                          *)
(* A request is of one of six kinds:                                        *)
(*   "login"      send_login: a callback keyed by the contact, retries;     *)
(*   "frame"      a frame client's login: one transmission per command,     *)
(*                commands to one contact share a session;                  *)
(*   "proto"      status and telemetry: a waiter per tag, retries;          *)
(*   "legacy"     _send_protocol_request: the same, send results ignored;   *)
(*   "binary"     send_binary_req, send_anon_req: a tag with an expiry;     *)
(*   "discovery"  send_path_discovery_req: a tag recorded after the send.   *)
(*                                                                          *)
(* A request's n-th transmission carries the tag <<r, n>>, as every packet  *)
(* takes a fresh strictly greater timestamp (PacketBuilder._get_timestamp). *)
(* Code between two awaits is one action.  The awaits are: the transmission *)
(* (_send_packet), the wait for a reply, and, for a PATH reply, the gap     *)
(* between the two sub-handlers of PathHandler.  Time is left out: a wait   *)
(* may run out at any moment, in particular just as its reply lands.        *)
(***************************************************************************)
EXTENDS Naturals, FiniteSets

CONSTANTS Requests,     \* the calls made, each at most once
          Contacts,     \* the peers, by full public key
          Workloads,    \* what the callers ask: [Requests -> [kind, contact]]
          Hash,         \* [Contacts -> the one-byte hash of its key]
          MaxAttempts,  \* DEFAULT_MAX_ATTEMPTS
          None

Kinds == {"login", "frame", "proto", "legacy", "binary", "discovery"}

ASSUME RequestsAssumption ==
    /\ Workloads \subseteq [Requests -> [kind : Kinds, contact : Contacts]]
    /\ MaxAttempts \in Nat \ {0}
    /\ None \notin Requests /\ None \notin Requests \X Nat

VARIABLES
    workload,  \* the member of Workloads this behaviour is about
    pc,        \* [Requests -> where the call is]
    attempt,   \* [Requests -> transmissions begun]
    event,     \* [Requests -> the reply that set its event, or None]
    result,    \* [Requests -> what the caller was given]
    waiters,   \* keys of ProtocolResponseHandler._response_waiters
    binary,    \* keys of _pending_binary_requests, the unexpired ones
    discovery, \* _pending_discovery_tags
    pending,   \* LoginResponseHandler._pending_logins: [Contacts -> owner of the callback]
    password,  \* keys of _active_login_passwords
    session,   \* _pending_frame_logins: [Contacts -> the command that opened it]
    joined,    \* [Requests -> the session a frame command found or opened]
    task,      \* [Requests -> the waiting task of the session it opened]
    fresh,     \* sessions whose expiry was moved since their task last looked
    rx         \* the PATH reply between PathHandler's two sub-handlers, or None

Kind(r) == workload[r].kind
Target(r) == workload[r].contact

Of(kinds) == {r \in Requests : Kind(r) \in kinds}

\* Requests whose every transmission registers a response waiter.
Tagged == Of({"proto", "legacy"})

\* Requests that wait, and transmit again when the wait runs out.
Retrying == Of({"proto", "legacy", "login"})

Frames == Of({"frame"})

Tags == Requests \X (1 .. MaxAttempts)

vars == <<workload, pc, attempt, event, result, waiters, binary, discovery, pending, password,
          session, joined, task, fresh, rx>>

callVars == <<pc, attempt, result>>
tagVars == <<waiters, binary, discovery>>
loginVars == <<pending, password>>
frameVars == <<session, joined, task, fresh>>

Tag(r) == <<r, attempt[r]>>
TagsOf(r) == {<<r, n>> : n \in 1 .. attempt[r]}
Live(r) == pc[r] \notin {"idle", "done"}
HashOf(r) == Hash[Target(r)]

TypeOK ==
    /\ workload \in Workloads
    /\ pc \in [Requests -> {"idle", "sending", "waiting", "resending", "done"}]
    /\ attempt \in [Requests -> 0 .. MaxAttempts]
    /\ event \in [Requests -> Tags \cup {None}]
    /\ result \in [Requests -> {"none", "reply", "sent", "failed", "timeout", "cancelled"}]
    /\ waiters \subseteq Tags /\ binary \subseteq Tags /\ discovery \subseteq Tags
    /\ pending \in [Contacts -> Requests \cup {None}]
    /\ password \subseteq {Hash[c] : c \in Contacts}
    /\ session \in [Contacts -> Frames \cup {None}]
    /\ joined \in [Requests -> Frames \cup {None}]
    /\ task \in [Requests -> {"none", "waiting", "done"}]
    /\ fresh \subseteq Frames
    /\ rx \in Tags \cup {None}

Init ==
    /\ workload \in Workloads
    /\ pc = [r \in Requests |-> "idle"]
    /\ attempt = [r \in Requests |-> 0]
    /\ event = [r \in Requests |-> None]
    /\ result = [r \in Requests |-> "none"]
    /\ waiters = {} /\ binary = {} /\ discovery = {}
    /\ pending = [c \in Contacts |-> None]
    /\ password = {}
    /\ session = [c \in Contacts |-> None]
    /\ joined = [r \in Requests |-> None]
    /\ task = [r \in Requests |-> "none"]
    /\ fresh = {}
    /\ rx = None

-----------------------------------------------------------------------------
(* Starting a request: everything up to the await of _send_packet.          *)

Begin(r) ==
    /\ pc[r] = "idle"
    /\ pc' = [pc EXCEPT ![r] = "sending"]
    /\ attempt' = [attempt EXCEPT ![r] = 1]
    /\ UNCHANGED <<event, result, rx, workload>>

StartLogin(r) ==
    /\ Kind(r) = "login"
    /\ Begin(r)
    /\ password' = password \cup {HashOf(r)}
    /\ pending' = [pending EXCEPT ![Target(r)] = r]
    /\ UNCHANGED <<tagVars, frameVars>>

StartTagged(r) ==
    /\ r \in Tagged
    /\ Begin(r)
    /\ waiters' = waiters \cup {<<r, 1>>}
    /\ UNCHANGED <<binary, discovery, loginVars, frameVars>>

StartBinary(r) ==
    /\ Kind(r) = "binary"
    /\ Begin(r)
    /\ binary' = binary \cup {<<r, 1>>}
    /\ UNCHANGED <<waiters, discovery, loginVars, frameVars>>

StartDiscovery(r) ==
    /\ Kind(r) = "discovery"
    /\ Begin(r)
    /\ UNCHANGED <<tagVars, loginVars, frameVars>>

\* A session whose event is set or whose task has ended is replaced.
Reusable(s) == s # None /\ event[s] = None /\ task[s] # "done"

StartFrame(r) ==
    LET c == Target(r)
        s == IF Reusable(session[c]) THEN session[c] ELSE r
    IN  /\ r \in Frames
        /\ Begin(r)
        /\ session' = [session EXCEPT ![c] = s]
        /\ joined' = [joined EXCEPT ![r] = s]
        /\ pending' = IF s = r THEN [pending EXCEPT ![c] = r] ELSE pending
        /\ password' = password \cup {HashOf(r)}
        /\ UNCHANGED <<tagVars, task, fresh>>

-----------------------------------------------------------------------------
(* Ending a request.                                                        *)

\* remove_login_callback: only the caller's own callback is removed.
WithoutCallback(r) ==
    IF pending[Target(r)] = r THEN [pending EXCEPT ![Target(r)] = None] ELSE pending

\* The cleanup of a started request: its waiters, or its login callback and
\* the stored password.
Cleanup(r) ==
    /\ waiters' = waiters \ TagsOf(r)
    /\ IF Kind(r) = "login"
       THEN /\ pending' = WithoutCallback(r)
            /\ password' = password \ {HashOf(r)}
       ELSE UNCHANGED loginVars

Finish(r, value) ==
    /\ pc' = [pc EXCEPT ![r] = "done"]
    /\ result' = [result EXCEPT ![r] = value]

\* Mutant: a wait that ran out is a timeout, whatever landed meanwhile.
OutcomeOfWait(r) == "timeout"

Outcome(r) == IF event[r] # None THEN "reply" ELSE "timeout"

\* Mutant: the stored password is left behind.
DropSessionOnly(s) ==
    IF session[Target(s)] = s
    THEN /\ session' = [session EXCEPT ![Target(s)] = None]
         /\ pending' = WithoutCallback(s)
         /\ UNCHANGED password
    ELSE UNCHANGED <<session, pending, password>>

\* The finally clause of a session's task, and the owner's failed send: both
\* act only while the session is still the registered one.
DropSession(s) ==
    IF session[Target(s)] = s
    THEN /\ session' = [session EXCEPT ![Target(s)] = None]
         /\ pending' = WithoutCallback(s)
         /\ password' = password \ {HashOf(s)}
    ELSE UNCHANGED <<session, pending, password>>

-----------------------------------------------------------------------------
(* _send_packet returns.                                                    *)

\* _start_request and _finish_started_request go on to wait.
SendOkRetrying(r) ==
    /\ r \in Retrying /\ pc[r] \in {"sending", "resending"}
    /\ pc' = [pc EXCEPT ![r] = "waiting"]
    /\ UNCHANGED <<attempt, event, result, tagVars, loginVars, frameVars, rx, workload>>

\* Only _request_with_retries ignores the failure and waits all the same.  In
\* _finish_started_request a failed resend ends the request as failed; the
\* login task then still reports what its event holds.
SendFails(r) ==
    /\ r \in Retrying /\ pc[r] \in {"sending", "resending"}
    /\ IF Kind(r) = "legacy"
       THEN /\ pc' = [pc EXCEPT ![r] = "waiting"]
            /\ UNCHANGED <<result, waiters, loginVars, attempt>>
       ELSE /\ Finish(r, IF Kind(r) = "login" /\ pc[r] = "resending"
                         THEN Outcome(r) ELSE "failed")
            /\ UNCHANGED attempt
            /\ Cleanup(r)
    /\ UNCHANGED <<event, binary, discovery, frameVars, rx, workload>>

SendBinary(r, ok) ==
    /\ Kind(r) = "binary" /\ pc[r] = "sending"
    /\ Finish(r, IF ok THEN "sent" ELSE "failed")
    /\ binary' = IF ok THEN binary ELSE binary \ {Tag(r)}
    /\ UNCHANGED <<attempt, event, waiters, discovery, loginVars, frameVars, rx, workload>>

SendDiscovery(r, ok) ==
    /\ Kind(r) = "discovery" /\ pc[r] = "sending"
    /\ Finish(r, IF ok THEN "sent" ELSE "failed")
    /\ discovery' = IF ok THEN discovery \cup {Tag(r)} ELSE discovery
    /\ UNCHANGED <<attempt, event, waiters, binary, loginVars, frameVars, rx, workload>>

SendOkFrame(r) ==
    LET s == joined[r]
    IN  /\ r \in Frames /\ pc[r] = "sending"
        /\ pc' = [pc EXCEPT ![r] = "done"]
        /\ task' = IF task[s] = "none" THEN [task EXCEPT ![s] = "waiting"] ELSE task
        /\ fresh' = IF task[s] = "waiting" THEN fresh \cup {s} ELSE fresh
        /\ UNCHANGED <<attempt, event, result, tagVars, loginVars, session, joined, rx, workload>>

\* Only the command that opened the session takes it down.
SendFailsFrame(r) ==
    /\ r \in Frames /\ pc[r] = "sending"
    /\ pc' = [pc EXCEPT ![r] = "done"]
    /\ IF joined[r] = r THEN DropSession(r) ELSE UNCHANGED <<session, pending, password>>
    /\ UNCHANGED <<attempt, event, result, tagVars, joined, task, fresh, rx, workload>>

-----------------------------------------------------------------------------
(* The waits.                                                               *)

Wake(r) ==
    /\ pc[r] = "waiting" /\ event[r] # None
    /\ Finish(r, "reply")
    /\ UNCHANGED attempt
    /\ Cleanup(r)
    /\ UNCHANGED <<event, binary, discovery, frameVars, rx, workload>>

\* A wait that runs out with an attempt left builds the next packet and
\* registers its tag.
Retry(r) ==
    /\ pc[r] = "waiting" /\ attempt[r] < MaxAttempts
    /\ pc' = [pc EXCEPT ![r] = "resending"]
    /\ attempt' = [attempt EXCEPT ![r] = @ + 1]
    /\ waiters' = IF r \in Tagged THEN waiters \cup {Tag(r)'} ELSE waiters
    /\ UNCHANGED <<event, result, binary, discovery, loginVars, frameVars, rx, workload>>

\* Mutant: the attempts are counted from one past the last.
GiveUpLate(r) ==
    /\ pc[r] = "waiting"
    /\ attempt[r] > MaxAttempts \/ Kind(r) = "proto"
    /\ Finish(r, Outcome(r))
    /\ UNCHANGED attempt
    /\ Cleanup(r)
    /\ UNCHANGED <<event, binary, discovery, frameVars, rx, workload>>

\* The last wait runs out, or the total budget of a status or telemetry
\* request is spent: the tag built for the attempt not made is cleared too.
GiveUp(r) ==
    /\ pc[r] = "waiting"
    /\ attempt[r] = MaxAttempts \/ Kind(r) = "proto"
    /\ Finish(r, Outcome(r))
    /\ UNCHANGED attempt
    /\ Cleanup(r)
    /\ UNCHANGED <<event, binary, discovery, frameVars, rx, workload>>

\* The session's task: its event is set, or its deadline passed.
FrameDone(s, value) ==
    /\ task[s] = "waiting"
    /\ task' = [task EXCEPT ![s] = "done"]
    /\ result' = [result EXCEPT ![s] = value]
    /\ DropSession(s)
    /\ UNCHANGED <<pc, attempt, event, tagVars, joined, fresh, rx, workload>>

FrameWake(s) == s \in Frames /\ event[s] # None /\ FrameDone(s, "reply")

FrameExpires(s) ==
    s \in Frames \ fresh /\ event[s] = None /\ FrameDone(s, "timeout")

\* The wait used the deadline of an earlier command: look again.
FrameLooksAgain(s) ==
    /\ s \in fresh /\ task[s] = "waiting"
    /\ fresh' = fresh \ {s}
    /\ UNCHANGED <<pc, attempt, event, result, tagVars, loginVars, session, joined, task,
                   rx, workload>>

\* cleanup_expired_binary_requests, which precedes every look at the table.
BinaryExpires(t) ==
    /\ t \in binary
    /\ binary' = binary \ {t}
    /\ UNCHANGED <<callVars, event, waiters, discovery, loginVars, frameVars, rx, workload>>

\* _clear_pending_frame_logins, when the companion stops.
ClearFrameLogins ==
    LET open == {s \in Frames : session[Target(s)] = s}
    IN  /\ open # {}
        /\ session' = [c \in Contacts |-> None]
        /\ pending' = [c \in Contacts |-> IF pending[c] \in open THEN None ELSE pending[c]]
        /\ password' = password \ {HashOf(s) : s \in open}
        /\ task' = [s \in Requests |->
                       IF s \in open /\ task[s] = "waiting" THEN "done" ELSE task[s]]
        /\ result' = [s \in Requests |->
                         IF s \in open /\ task[s] = "waiting" THEN "cancelled" ELSE result[s]]
        /\ UNCHANGED <<pc, attempt, event, tagVars, joined, fresh, rx, workload>>

-----------------------------------------------------------------------------
(* Replies.                                                                 *)

\* A peer may answer any transmission that was begun, late and repeatedly; a
\* transmission reported as failed may have been heard.
Answerable == {t \in Tags : t[2] <= attempt[t[1]]}

\* ProtocolResponseHandler.__call__ with the companion's _on_binary_response:
\* the waiter of this contact and tag, then a pending path discovery (only a
\* PATH reply carries a path), then a pending binary request.
ProtocolHandles(t, isPath) ==
    /\ waiters' = waiters \ {t}
    /\ discovery' = IF isPath /\ t \notin waiters THEN discovery \ {t} ELSE discovery
    /\ binary' = IF t \in waiters \/ (isPath /\ t \in discovery) THEN binary ELSE binary \ {t}
    /\ event' = IF t \in waiters \cup binary \/ (isPath /\ t \in discovery)
                THEN [event EXCEPT ![t[1]] = t] ELSE event
    /\ UNCHANGED <<callVars, loginVars, frameVars>>

\* has_pending_request_tag, the probe of LoginResponseHandler.
ForeignRequest(t) == t \in waiters \cup binary

\* LoginResponseHandler takes a reply for a login when one is pending for the
\* authenticated contact and the probe does not claim the tag.
TakenForLogin(t) == pending[Target(t[1])] # None /\ ~ForeignRequest(t)

\* _process_login_response: the pending callback, and the password cleared.
\* A frame session keeps the first reply, an API login the last.
LoginHandles(t) ==
    LET o == pending[Target(t[1])]
    IN  /\ event' = IF o \in Frames /\ event[o] # None THEN event ELSE [event EXCEPT ![o] = t]
        /\ password' = password \ {HashOf(t[1])}
        /\ UNCHANGED <<callVars, tagVars, pending, frameVars>>

\* A RESPONSE goes to the login handler, which forwards what is not its own.
Response(t) ==
    /\ t \in Answerable
    /\ IF TakenForLogin(t) THEN LoginHandles(t) ELSE ProtocolHandles(t, FALSE)
    /\ UNCHANGED <<rx, workload>>

\* A PATH goes to the protocol handler, then to the login handler.
PathReply(t) ==
    /\ t \in Answerable /\ rx = None
    /\ ProtocolHandles(t, TRUE)
    /\ rx' = t
    /\ UNCHANGED workload

PathReplyLogin ==
    /\ rx # None
    /\ IF TakenForLogin(rx) THEN LoginHandles(rx)
       ELSE UNCHANGED <<callVars, event, tagVars, loginVars, frameVars>>
    /\ rx' = None
    /\ UNCHANGED workload

-----------------------------------------------------------------------------
CallStep(r) ==
    \/ SendOkRetrying(r) \/ SendFails(r) \/ Wake(r) \/ Retry(r) \/ GiveUp(r)
    \/ \E ok \in BOOLEAN : SendBinary(r, ok) \/ SendDiscovery(r, ok)
    \/ SendOkFrame(r) \/ SendFailsFrame(r)

TaskStep(s) == FrameWake(s) \/ FrameExpires(s) \/ FrameLooksAgain(s)

Next ==
    \/ \E r \in Requests :
          \/ StartLogin(r) \/ StartTagged(r) \/ StartBinary(r) \/ StartDiscovery(r)
          \/ StartFrame(r)
          \/ CallStep(r) \/ TaskStep(r)
    \/ \E t \in Tags : Response(t) \/ PathReply(t) \/ BinaryExpires(t)
    \/ PathReplyLogin
    \/ ClearFrameLogins

Spec == Init /\ [][Next]_vars

\* _send_packet returns (SendFunnel) and every wait has a timeout.  It is
\* enough that some pending step of the requests is taken, whichever: each
\* brings its request nearer its end.
Fairness ==
    WF_vars(\E r \in Requests : CallStep(r) \/ TaskStep(r))

LiveSpec == Spec /\ Fairness

-----------------------------------------------------------------------------
\* The response waiters are exactly the tags of requests in progress: every
\* transmission of an unanswered request can still be answered, and a request
\* that ended left no callback behind (base_send.py registers a tag before each
\* send and clears all of them at the end; protocol_response.py pops the one
\* that was answered).
WaiterTableExact ==
    /\ \A t \in waiters : t[1] \in Tagged /\ Live(t[1]) /\ t[2] <= attempt[t[1]]
    /\ \A r \in Tagged : Live(r) /\ event[r] = None => TagsOf(r) \subseteq waiters

\* A login callback or a stored password never outlives the logins it was made
\* for: remove_login_callback and clear_login_password run on every way out,
\* and a login that ends does not take down the callback of a later one.
LoginInProgress(r) ==
    \/ Live(r) /\ Kind(r) \in {"login", "frame"}
    \/ task[r] = "waiting"

LoginStateReleased ==
    /\ \A c \in Contacts : pending[c] # None => LoginInProgress(pending[c])
    /\ \A h \in password : \E r \in Requests : HashOf(r) = h /\ LoginInProgress(r)

\* A request that returns tells its caller of the reply its waiter was given,
\* also one that landed between two attempts or as the last wait ran out
\* ("A late reply that lands between attempts resolves the waiter
\* immediately", _request_with_retries; _format_login_result looks at the
\* event and not at how the wait ended).
LateReplyReported ==
    \A r \in Of({"login", "legacy"}) :
        pc[r] = "done" /\ event[r] # None /\ result[r] # "failed" => result[r] = "reply"

\* Every request returns to its caller and every frame session's task ends,
\* whatever is lost: waits are bounded and so are the attempts.
EveryRequestReturns ==
    <>[](\A r \in Requests : ~Live(r) /\ task[r] # "waiting")

\* has_pending_request_tag: "so a status/telemetry/neighbours reply is never
\* mistaken for a login reply while a login to the same contact is still
\* pending": the reply a waiting request has just been given does not complete
\* a login as well.
NeverMistakenForLogin ==
    [][\A r \in Of({"login", "frame"}) :
          event'[r] # event[r] /\ event'[r] = rx /\ rx' = None =>
              Kind(rx[1]) \in {"login", "frame"} \/ event[rx[1]] # rx]_vars
=============================================================================
