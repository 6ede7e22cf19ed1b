----------------------- MODULE CPEStateMachine_proofs -----------------------
(***************************************************************************)
(* Proofs about CPEStateMachine for all values of its constants.           *)
(*                                                                         *)
(* The methods of the class are operators on the memory of the process, so *)
(* the invariant is stated of a memory x, and each operator has a lemma:   *)
(* Ready memories, in which a POST may be missing, are what a callback     *)
(* has in the middle; Settled ones are what it leaves behind.  A second    *)
(* invariant, Speaks, tells what the open session has said; the relations  *)
(* Goes and Answered tell what a callback makes of the memory it finds.    *)
(* The theorems then need one step per action.                             *)
(***************************************************************************)
EXTENDS CPEStateMachine, SequenceTheorems, TLAPS

-----------------------------------------------------------------------------
(* The invariant *)

\* One retry timer, named by its handle, and only without a session; an end
\* callback only with one.
Good(x) ==
  /\ x \in Memory
  /\ x.wait_timers = (IF x.start_session_timeout THEN 1 ELSE 0)
  /\ HasSession(x) => ~x.start_session_timeout
  /\ x.run_at_end => HasSession(x)

\* No POST in flight.
Quiet(x) == x.posts = <<>> /\ x.outstanding = None

\* Exactly one POST in flight, in a session that may go on.
Posted(x) ==
  /\ Len(x.posts) = 1
  /\ x.outstanding = Head(x.posts)
  /\ x.session.state \in {"ACTIVE", "NOMORE"}
  /\ x.session.has_url

Waits(x) == IF HasSession(x) THEN Posted(x) ELSE Quiet(x)

Ready(x)   == Good(x) /\ (x.exited \/ Waits(x) \/ (Quiet(x) /\ x.session.state # "ONHOLD"))
Settled(x) == Good(x) /\ (x.exited \/ Waits(x))

\* r differs from x in nothing that Good, Quiet and Posted look at.
Alike(r, x) ==
  /\ r \in Memory
  /\ r.up = x.up
  /\ x.exited => r.exited
  /\ r.session = x.session
  /\ r.posts = x.posts
  /\ r.outstanding = x.outstanding
  /\ r.wait_timers = x.wait_timers
  /\ r.start_session_timeout = x.start_session_timeout
  /\ r.run_at_end = x.run_at_end

IInv ==
  /\ Settled(m)
  /\ ~m.up => m = NewProcess
  /\ acs_disabled \in BOOLEAN
  /\ acs_url \in BOOLEAN

-----------------------------------------------------------------------------
(* Lemmas on types, and on the event queue *)

LEMMA MessageTypes ==
  /\ None \notin Messages
  /\ Response \in Messages
  /\ Empty \in Messages
  /\ Requests \subseteq Messages
  /\ \A events \in SUBSET Events, params \in SUBSET Params :
        Inform(events, params) \in Messages
BY DEF None, Messages, Response, Empty, Requests, Inform

LEMMA EventTypes ==
  /\ Bootstrap \in Events /\ Periodic \in Events /\ ValueChange \in Events
  /\ ConnectionRequest \in Events /\ TransferDone \in Events
  /\ \A key \in Keys : MDownload(key) \in Events /\ MReboot(key) \in Events
<1>1. ASSUME NEW r \in Reasons, NEW key \in Keys \cup {NoKey}
      PROVE  Event(r, key) \in Events
  BY DEF Event, Events
<1>2. {"0 BOOTSTRAP", "2 PERIODIC", "4 VALUE CHANGE", "6 CONNECTION REQUEST",
       "7 TRANSFER COMPLETE", "M Download", "M Reboot"} \subseteq Reasons
  BY DEF Reasons, InformReasons, TransferReasons
<1>3. QED
  BY <1>1, <1>2 DEF Bootstrap, Periodic, ValueChange, ConnectionRequest,
                    TransferDone, MDownload, MReboot

LEMMA AlikeKeeps ==
  ASSUME NEW x, NEW r, Alike(r, x), Good(x)
  PROVE  Good(r) /\ (Ready(x) => Ready(r)) /\ (Settled(x) => Settled(r))
BY DEF Alike, Good, Ready, Settled, Waits, Quiet, Posted, HasSession

LEMMA WithEventsAlike ==
  ASSUME NEW x \in Memory, NEW q \in SUBSET Events
  PROVE  Alike(WithEvents(x, q), x)
<1> DEFINE e == x.exited \/ (x.limited /\ Cardinality(q) > MAX_EVENT_QUEUE_SIZE)
           r == WithEvents(x, q)
<1>1. e \in BOOLEAN /\ (x.exited => e)
  BY DEF Memory
<1>2. r = [x EXCEPT !.event_queue = q, !.exited = e]
  BY DEF WithEvents
<1> HIDE DEF e, r
<1>3. Alike(r, x)
  BY <1>1, <1>2 DEF Alike, Memory
<1>4. QED
  BY <1>3 DEF r

LEMMA AddEventAlike ==
  ASSUME NEW x \in Memory, NEW ev \in Events
  PROVE  Alike(AddEvent(x, ev), x)
<1>1. x.event_queue \cup {ev} \in SUBSET Events
  BY DEF Memory
<1>2. QED
  BY <1>1, WithEventsAlike DEF AddEvent

LEMMA RemoveFromDequeueAlike ==
  ASSUME NEW x \in Memory, NEW reasons
  PROVE  Alike(RemoveFromDequeue(x, reasons), x)
<1> DEFINE q == {ev \in x.event_queue : ev.reason \notin reasons}
           r == RemoveFromDequeue(x, reasons)
<1>1. q \in SUBSET Events
  BY DEF Memory
<1>2. r = [x EXCEPT !.event_queue = q, !.limited = FALSE]
  BY DEF RemoveFromDequeue
<1> HIDE DEF q, r
<1>3. Alike(r, x)
  BY <1>1, <1>2 DEF Alike, Memory
<1>4. QED
  BY <1>3 DEF r

-----------------------------------------------------------------------------
(* Lemmas on sessions: close, retry, post, run *)

LEMMA CloseSessionGood ==
  ASSUME NEW x \in Memory
  PROVE  LET c == CloseSession(x) IN
         /\ c \in Memory
         /\ c.session = NoSession /\ ~HasSession(c) /\ ~c.run_at_end
         /\ c.up = x.up /\ c.exited = x.exited
         /\ c.posts = x.posts /\ c.outstanding = x.outstanding
         /\ c.wait_timers = x.wait_timers
         /\ c.start_session_timeout = x.start_session_timeout
         /\ c.changed = x.changed
BY DEF CloseSession, Memory, NoSession, HasSession, SessionStates

\* Callers of _ScheduleRetrySession hold a session, and so no timer.
LEMMA ScheduleRetrySessionSettled ==
  ASSUME NEW x, NEW counted \in BOOLEAN, Good(x), HasSession(x), x.exited \/ Quiet(x)
  PROVE  LET r == ScheduleRetrySession(x, counted) IN
         Settled(r) /\ r.up = x.up
<1> DEFINE c == CloseSession(x)
           r == ScheduleRetrySession(x, counted)
<1>1. /\ c \in Memory
      /\ ~HasSession(c) /\ ~c.run_at_end
      /\ c.up = x.up /\ c.exited = x.exited
      /\ c.posts = x.posts /\ c.outstanding = x.outstanding
      /\ c.wait_timers = 0
  BY CloseSessionGood DEF Good
<1>2. r = [c EXCEPT !.retry_count = IF counted THEN @ + 1 ELSE @,
                    !.start_session_timeout = TRUE,
                    !.wait_timers = @ + 1]
  BY DEF ScheduleRetrySession
<1> DEFINE n == IF counted THEN c.retry_count + 1 ELSE c.retry_count
<1> HIDE DEF c
<1>2a. n \in Nat
  BY <1>1 DEF Memory
<1>2b. r = [c EXCEPT !.retry_count = n, !.start_session_timeout = TRUE, !.wait_timers = 1]
  BY <1>1, <1>2
<1> HIDE DEF r, n
<1>3. r \in Memory
  BY <1>1, <1>2a, <1>2b DEF Memory
<1>4. /\ r.wait_timers = 1 /\ r.start_session_timeout
      /\ r.session = c.session /\ ~r.run_at_end
      /\ r.up = x.up /\ r.exited = x.exited
      /\ r.posts = x.posts /\ r.outstanding = x.outstanding
  BY <1>1, <1>2b DEF Memory
<1>5. QED
  BY <1>1, <1>3, <1>4 DEF Settled, Good, Waits, Quiet, HasSession, r

LEMMA CancelSessionRetriesSettled ==
  ASSUME NEW x, Good(x)
  PROVE  LET r == CancelSessionRetries(x) IN
         /\ Good(r)
         /\ ~r.start_session_timeout
         /\ r.session = x.session /\ r.posts = x.posts /\ r.outstanding = x.outstanding
         /\ r.up = x.up /\ r.exited = x.exited
         /\ r.event_queue = x.event_queue
<1> DEFINE r == CancelSessionRetries(x)
<1>1. x \in Memory
  BY DEF Good
<1> DEFINE w == IF x.start_session_timeout THEN x.wait_timers - 1 ELSE x.wait_timers
<1>2. w = 0
  BY DEF Good
<1>3. r = [x EXCEPT !.wait_timers = w, !.start_session_timeout = FALSE, !.retry_count = 0]
  BY DEF CancelSessionRetries
<1> HIDE DEF r, w
<1>4. r = [x EXCEPT !.wait_timers = 0, !.start_session_timeout = FALSE, !.retry_count = 0]
  BY <1>2, <1>3
<1>5. /\ r \in Memory
      /\ r.wait_timers = 0 /\ ~r.start_session_timeout
      /\ r.session = x.session /\ r.posts = x.posts /\ r.outstanding = x.outstanding
      /\ r.up = x.up /\ r.exited = x.exited
      /\ r.event_queue = x.event_queue /\ r.run_at_end = x.run_at_end
  BY <1>1, <1>4 DEF Memory
<1>6. QED
  BY <1>5 DEF Good, HasSession, r

LEMMA PostSettled ==
  ASSUME NEW x, NEW msg \in Messages, Good(x), Quiet(x),
         x.session.state \in {"ACTIVE", "NOMORE"}, x.session.has_url
  PROVE  LET r == Post(x, msg) IN Settled(r) /\ r.up = x.up
<1> DEFINE r == Post(x, msg)
<1>1. x \in Memory /\ x.posts = <<>>
  BY DEF Good, Quiet
<1>2. Append(x.posts, msg) = <<msg>> /\ <<msg>> \in Seq(Messages)
  BY <1>1
<1>3. r = [x EXCEPT !.outstanding = msg, !.posts = <<msg>>]
  BY <1>2 DEF Post
<1> HIDE DEF r
<1>4. /\ r \in Memory
      /\ r.outstanding = msg /\ r.posts = <<msg>>
      /\ r.session = x.session /\ r.run_at_end = x.run_at_end
      /\ r.up = x.up /\ r.exited = x.exited
      /\ r.wait_timers = x.wait_timers
      /\ r.start_session_timeout = x.start_session_timeout
  BY <1>1, <1>2, <1>3 DEF Memory
<1>5. HasSession(r) /\ Posted(r)
  BY <1>4 DEF HasSession, Posted
<1>6. QED
  BY <1>4, <1>5 DEF Settled, Good, Waits, HasSession, r

LEMMA PostInformSettled ==
  ASSUME NEW x, Good(x), Quiet(x), x.session.state = "CONNECT", x.session.has_url
  PROVE  LET r == PostInform(x) IN Settled(r) /\ r.up = x.up
<1> DEFINE msg == InformFor(x)
           y == [x EXCEPT !.session.state = StateUpdate(@, "sent_inform"),
                          !.changed_sent = @ \cup x.changed,
                          !.changed = {},
                          !.informed = msg.events]
<1>1. x \in Memory
  BY DEF Good
<1>2. msg \in Messages /\ msg.events \in SUBSET Events
  BY <1>1, EventTypes, MessageTypes DEF InformFor, Inform, Memory
<1>3. StateUpdate(x.session.state, "sent_inform") = "ACTIVE"
  BY DEF StateUpdate
<1> DEFINE evs == msg.events
           sent == x.changed_sent \cup x.changed
           sn == [x.session EXCEPT !.state = "ACTIVE"]
<1>4. /\ sn.state = "ACTIVE" /\ sn.has_url
      /\ sn \in [state : SessionStates \cup {"NONE"},
                 ping_received : BOOLEAN, has_url : BOOLEAN]
      /\ sent \in SUBSET Params
  BY <1>1 DEF Memory, SessionStates
<1>5. y = [x EXCEPT !.session = sn, !.changed_sent = sent, !.changed = {},
                    !.informed = evs]
  BY <1>1, <1>3 DEF Memory
<1> HIDE DEF y, sn, sent, evs, msg
<1>6. /\ y \in Memory
      /\ y.session = sn /\ y.posts = x.posts /\ y.outstanding = x.outstanding
      /\ y.run_at_end = x.run_at_end /\ y.up = x.up
      /\ y.wait_timers = x.wait_timers
      /\ y.start_session_timeout = x.start_session_timeout
  BY <1>1, <1>2, <1>4, <1>5 DEF Memory, evs
<1>7. Good(y) /\ Quiet(y)
  BY <1>4, <1>6 DEF Good, Quiet, HasSession
<1>8. PostInform(x) = Post(y, msg)
  BY DEF PostInform, y, msg
<1>9. QED
  BY <1>2, <1>4, <1>6, <1>7, <1>8, PostSettled

LEMMA PostNextSettled ==
  ASSUME NEW x, Good(x), Quiet(x), x.session.has_url,
         x.session.state \in {"CONNECT", "ACTIVE", "NOMORE"}
  PROVE  LET r == PostNext(x) IN Settled(r) /\ r.up = x.up
<1>1. x \in Memory
  BY DEF Good
<1>2. CASE x.session.state = "CONNECT"
  BY <1>2, PostInformSettled DEF PostNext, InformRequired
<1>3. CASE x.session.state # "CONNECT"
  <2>1. ~InformRequired(x.session.state)
    BY <1>3 DEF InformRequired
  <2>2. ASSUME x.response_queue # <<>>
        PROVE  LET r == PostResponse(x) IN Settled(r) /\ r.up = x.up
    <3> DEFINE q == Tail(x.response_queue)
               y == [x EXCEPT !.response_queue = q]
    <3>1. q \in Seq({Response}) /\ Head(x.response_queue) \in Messages
      BY <1>1, <2>2, MessageTypes DEF Memory
    <3> HIDE DEF q
    <3>2. Alike(y, x)
      BY <1>1, <3>1 DEF Alike, Memory
    <3>3. Good(y) /\ Quiet(y) /\ y.session = x.session /\ y.up = x.up
      BY <3>2, AlikeKeeps DEF Alike, Quiet
    <3> HIDE DEF y
    <3>4. PostResponse(x) = Post(y, Head(x.response_queue))
      BY DEF PostResponse, y, q
    <3>5. QED
      BY <1>3, <3>1, <3>3, <3>4, PostSettled
  <2>3. ASSUME x.request_queue # <<>>
        PROVE  LET r == PostRequest(x) IN Settled(r) /\ r.up = x.up
    <3> DEFINE q == Tail(x.request_queue)
               y == [x EXCEPT !.request_queue = q]
    <3>1. q \in Seq(Requests) /\ Head(x.request_queue) \in Messages
      BY <1>1, <2>3, MessageTypes DEF Memory
    <3> HIDE DEF q
    <3>2. Alike(y, x)
      BY <1>1, <3>1 DEF Alike, Memory
    <3>3. Good(y) /\ Quiet(y) /\ y.session = x.session /\ y.up = x.up
      BY <3>2, AlikeKeeps DEF Alike, Quiet
    <3> HIDE DEF y
    <3>4. PostRequest(x) = Post(y, Head(x.request_queue))
      BY DEF PostRequest, y, q
    <3>5. QED
      BY <1>3, <3>1, <3>3, <3>4, PostSettled
  <2>4. LET r == PostEmpty(x) IN Settled(r) /\ r.up = x.up
    <3> DEFINE sn == [x.session EXCEPT !.state = "NOMORE"]
               y == [x EXCEPT !.session = sn]
    <3>1. StateUpdate(x.session.state, "cpe_to_acs_empty") = "NOMORE"
      BY <1>3 DEF StateUpdate
    <3>2. /\ sn.state = "NOMORE" /\ sn.has_url
          /\ sn \in [state : SessionStates \cup {"NONE"},
                     ping_received : BOOLEAN, has_url : BOOLEAN]
      BY <1>1 DEF Memory, SessionStates
    <3>3. PostEmpty(x) = Post(y, Empty)
      BY <1>1, <3>1 DEF PostEmpty, Memory
    <3> HIDE DEF sn
    <3>4. Good(y) /\ Quiet(y) /\ y.session = sn /\ y.up = x.up
      BY <1>1, <1>3, <3>2 DEF Good, Quiet, HasSession, Memory
    <3> HIDE DEF y
    <3>5. QED
      BY <3>2, <3>3, <3>4, MessageTypes, PostSettled
  <2>5. QED
    BY <2>1, <2>2, <2>3, <2>4 DEF PostNext
<1>4. QED
  BY <1>2, <1>3

\* A Ready memory whose session is not DONE, or can only be given up.
LEMMA RunOpenSettled ==
  ASSUME NEW x, Ready(x),
         x.session.state = "DONE" => x.exited \/ ~x.session.has_url
  PROVE  LET r == RunOpen(x) IN Settled(r) /\ r.up = x.up
<1>1. Good(x) /\ x \in Memory
  BY DEF Ready, Good
<1>2. CASE x.exited \/ ~HasSession(x)
  BY <1>2 DEF RunOpen, Ready, Settled, Waits
<1>3. CASE ~x.exited /\ HasSession(x)
  <2>1. Posted(x) \/ (Quiet(x) /\ x.session.state # "ONHOLD")
    BY <1>3 DEF Ready, Waits
  <2>2. CASE ~x.session.has_url
    <3>1. RunOpen(x) = ScheduleRetrySession(x, FALSE)
      BY <1>3, <2>2 DEF RunOpen
    <3>2. Quiet(x)
      BY <2>1, <2>2 DEF Posted
    <3>3. QED
      BY <1>1, <1>3, <3>1, <3>2, ScheduleRetrySessionSettled
  <2>3. CASE x.session.has_url /\ x.outstanding # None
    <3>1. RunOpen(x) = x
      BY <1>3, <2>3 DEF RunOpen
    <3>2. QED
      BY <1>1, <1>3, <2>1, <2>3, <3>1 DEF Quiet, Settled, Waits
  <2>4. CASE x.session.has_url /\ x.outstanding = None
    <3>1. RunOpen(x) = PostNext(x)
      BY <1>3, <2>4 DEF RunOpen
    <3>2. ~Posted(x)
      BY <1>1, <2>4, MessageTypes DEF Posted, Memory
    <3>3. x.session.state \in {"CONNECT", "ACTIVE", "NOMORE"}
      BY <1>1, <1>3, <2>1, <2>4, <3>2 DEF Memory, SessionStates, HasSession
    <3>4. QED
      BY <1>1, <2>1, <2>4, <3>1, <3>2, <3>3, PostNextSettled
  <2>5. QED
    BY <2>2, <2>3, <2>4
<1>4. QED
  BY <1>2, <1>3
LEMMA NewSessionSettled ==
  ASSUME NEW x, NEW ev \in Events, Settled(x), acs_url \in BOOLEAN
  PROVE  LET r == NewSession(x, ev) IN Settled(r) /\ r.up = x.up
<1> DEFINE c == CancelSessionRetries(x)
           d == AddEvent(c, ev)
           sn == NewCwmpSession(acs_url)
           y == [d EXCEPT !.session = sn]
<1>1. /\ Good(c) /\ ~c.start_session_timeout
      /\ c.session = x.session /\ c.posts = x.posts /\ c.outstanding = x.outstanding
      /\ c.up = x.up /\ c.exited = x.exited
  BY CancelSessionRetriesSettled DEF Settled
<1>2. Settled(c)
  BY <1>1 DEF Settled, Waits, Quiet, Posted, HasSession
<1>3. CASE acs_disabled
  BY <1>1, <1>2, <1>3 DEF NewSession
<1>4. CASE ~acs_disabled /\ HasSession(x)
  BY <1>4 DEF NewSession
<1>5. CASE ~acs_disabled /\ ~HasSession(x)
  <2>1. Good(d) /\ Settled(d) /\ Alike(d, c)
    BY <1>1, <1>2, AddEventAlike, AlikeKeeps DEF Good
  <2>2. /\ sn.state = "CONNECT"
        /\ sn \in [state : SessionStates \cup {"NONE"},
                   ping_received : BOOLEAN, has_url : BOOLEAN]
    BY DEF NewCwmpSession, SessionStates
  <2> HIDE DEF c, d, sn
  <2>3. /\ y \in Memory
        /\ y.session = sn /\ y.up = x.up /\ y.exited = d.exited
        /\ y.posts = d.posts /\ y.outstanding = d.outstanding
        /\ y.wait_timers = d.wait_timers
        /\ y.start_session_timeout = d.start_session_timeout
        /\ y.run_at_end = d.run_at_end
    BY <1>1, <2>1, <2>2 DEF Alike, Memory
  <2>4. Good(y)
    BY <1>1, <2>1, <2>2, <2>3 DEF Good, HasSession, Alike
  <2>5. y.exited \/ Quiet(y)
    BY <1>1, <1>5, <2>1, <2>3 DEF Settled, Waits, Quiet, Alike, HasSession
  <2>6. Ready(y) /\ y.session.state # "DONE"
    BY <2>2, <2>3, <2>4, <2>5 DEF Ready
  <2>7. NewSession(x, ev) = RunOpen(y)
    BY <1>5 DEF NewSession, c, d, sn
  <2>8. QED
    BY <2>3, <2>6, <2>7, RunOpenSettled
<1>6. QED
  BY <1>3, <1>4, <1>5

LEMMA NewValueChangeSessionSettled ==
  ASSUME NEW x, Settled(x), acs_url \in BOOLEAN
  PROVE  LET r == NewValueChangeSession(x) IN Settled(r) /\ r.up = x.up
BY NewSessionSettled, EventTypes DEF NewValueChangeSession

LEMMA NewPingSessionSettled ==
  ASSUME NEW x, Settled(x), acs_url \in BOOLEAN
  PROVE  LET r == NewPingSession(x) IN Settled(r) /\ r.up = x.up
<1>1. Good(x) /\ x \in Memory
  BY DEF Settled, Good
<1>2. CASE HasSession(x)
  <2> DEFINE sn == [x.session EXCEPT !.ping_received = TRUE]
             r == [x EXCEPT !.session = sn]
  <2>1. /\ sn.state = x.session.state /\ sn.has_url = x.session.has_url
        /\ sn \in [state : SessionStates \cup {"NONE"},
                   ping_received : BOOLEAN, has_url : BOOLEAN]
    BY <1>1 DEF Memory
  <2>2. NewPingSession(x) = r
    BY <1>1, <1>2 DEF NewPingSession, Memory
  <2> HIDE DEF sn
  <2>3. /\ r \in Memory
        /\ r.session = sn /\ r.posts = x.posts /\ r.outstanding = x.outstanding
        /\ r.run_at_end = x.run_at_end /\ r.up = x.up /\ r.exited = x.exited
        /\ r.wait_timers = x.wait_timers
        /\ r.start_session_timeout = x.start_session_timeout
    BY <1>1, <2>1 DEF Memory
  <2> HIDE DEF r
  <2>4. Settled(r)
    BY <2>1, <2>3 DEF Settled, Good, Waits, Posted, Quiet, HasSession
  <2>5. QED
    BY <2>2, <2>3, <2>4
<1>3. CASE ~HasSession(x) /\ ~x.ping_recent
  <2> DEFINE y == [x EXCEPT !.ping_timeout_pending = FALSE, !.ping_recent = TRUE]
             z == RemoveFromDequeue(y, {"6 CONNECTION REQUEST"})
  <2>1. Alike(y, x)
    BY <1>1 DEF Alike, Memory
  <2>2. Settled(y) /\ Good(y)
    BY <1>1, <2>1, AlikeKeeps
  <2> HIDE DEF y
  <2>3. Alike(z, y)
    BY <2>2, RemoveFromDequeueAlike DEF Good
  <2>4. Settled(z)
    BY <2>2, <2>3, AlikeKeeps
  <2>5. NewPingSession(x) = NewSession(z, ConnectionRequest)
    BY <1>3 DEF NewPingSession, y
  <2> HIDE DEF z
  <2>6. QED
    BY <2>1, <2>3, <2>4, <2>5, EventTypes, NewSessionSettled DEF Alike
<1>4. CASE ~HasSession(x) /\ x.ping_recent /\ ~x.ping_timeout_pending
  <2> DEFINE n == x.ping_timers + 1
             r == [x EXCEPT !.ping_timeout_pending = TRUE, !.ping_timers = n]
  <2>1. n \in Nat
    BY <1>1 DEF Memory
  <2>2. NewPingSession(x) = r
    BY <1>1, <1>4 DEF NewPingSession, Memory
  <2> HIDE DEF n
  <2>3. Alike(r, x)
    BY <1>1, <2>1 DEF Alike, Memory
  <2>4. QED
    BY <1>1, <2>2, <2>3, AlikeKeeps DEF Alike
<1>5. CASE ~HasSession(x) /\ x.ping_recent /\ x.ping_timeout_pending
  BY <1>5 DEF NewPingSession
<1>6. QED
  BY <1>2, <1>3, <1>4, <1>5

LEMMA FinishSettled ==
  ASSUME NEW x, Good(x), Quiet(x), HasSession(x), acs_url \in BOOLEAN
  PROVE  LET r == Finish(x) IN Settled(r) /\ r.up = x.up
<1> DEFINE d == CloseSession(x)
           c == [d EXCEPT !.outstanding = None, !.retry_count = 0]
<1>1. /\ d \in Memory
      /\ ~HasSession(d) /\ ~d.run_at_end
      /\ d.up = x.up /\ d.posts = <<>>
      /\ d.wait_timers = 0 /\ ~d.start_session_timeout
  BY CloseSessionGood DEF Good, Quiet
<1> HIDE DEF d
<1>2. /\ c \in Memory
      /\ c.session = d.session /\ ~c.run_at_end
      /\ c.up = x.up /\ c.posts = <<>> /\ c.outstanding = None
      /\ c.wait_timers = 0 /\ ~c.start_session_timeout
  BY <1>1 DEF Memory
<1> HIDE DEF c
<1>3. Settled(c) /\ c.up = x.up
  BY <1>1, <1>2 DEF Settled, Good, Waits, Quiet, HasSession
<1>4. Finish(x) = IF c.changed # {} THEN NewValueChangeSession(c)
                  ELSE IF x.session.ping_received THEN NewPingSession(c)
                  ELSE c
  BY DEF Finish, c, d
<1>5. QED
  BY <1>3, <1>4, NewValueChangeSessionSettled, NewPingSessionSettled

LEMMA RunSettled ==
  ASSUME NEW x, Ready(x), acs_url \in BOOLEAN
  PROVE  LET r == Run(x) IN Settled(r) /\ r.up = x.up
<1>1. CASE HasSession(x) /\ x.session.has_url /\ x.session.state = "DONE" /\ ~x.exited
  <2>1. Good(x) /\ Quiet(x)
    BY <1>1 DEF Ready, Waits, Posted
  <2>2. Run(x) = Finish(x)
    BY <1>1 DEF Run, ShouldClose
  <2>3. QED
    BY <1>1, <2>1, <2>2, FinishSettled
<1>2. CASE ~(HasSession(x) /\ x.session.has_url /\ x.session.state = "DONE" /\ ~x.exited)
  <2>1. Run(x) = RunOpen(x)
    BY <1>2 DEF Run, ShouldClose
  <2>2. QED
    BY <1>2, <2>1, RunOpenSettled DEF HasSession
<1>3. QED
  BY <1>1, <1>2

LEMMA SendSettled ==
  ASSUME NEW x, NEW req \in Requests, Ready(x), acs_url \in BOOLEAN
  PROVE  LET r == Send(x, req) IN Settled(r) /\ r.up = x.up
<1> DEFINE q == Append(x.request_queue, req)
           y == [x EXCEPT !.request_queue = q]
<1>1. Good(x) /\ x \in Memory
  BY DEF Ready, Good
<1>2. q \in Seq(Requests)
  BY <1>1 DEF Memory
<1>3. Send(x, req) = Run(y)
  BY DEF Send
<1> HIDE DEF q
<1>4. Alike(y, x)
  BY <1>1, <1>2 DEF Alike, Memory
<1>5. Ready(y) /\ y.up = x.up
  BY <1>1, <1>4, AlikeKeeps DEF Alike
<1> HIDE DEF y
<1>6. QED
  BY <1>3, <1>5, RunSettled

LEMMA SendResponseSettled ==
  ASSUME NEW x, Ready(x), acs_url \in BOOLEAN
  PROVE  LET r == SendResponse(x) IN Settled(r) /\ r.up = x.up
<1> DEFINE q == Append(x.response_queue, Response)
           y == [x EXCEPT !.response_queue = q]
<1>1. Good(x) /\ x \in Memory
  BY DEF Ready, Good
<1>2. q \in Seq({Response})
  BY <1>1 DEF Memory
<1>3. SendResponse(x) = Run(y)
  BY DEF SendResponse
<1> HIDE DEF q
<1>4. Alike(y, x)
  BY <1>1, <1>2 DEF Alike, Memory
<1>5. Ready(y) /\ y.up = x.up
  BY <1>1, <1>4, AlikeKeeps DEF Alike
<1> HIDE DEF y
<1>6. QED
  BY <1>3, <1>5, RunSettled

LEMMA QueueTransferCompleteSettled ==
  ASSUME NEW x, NEW key \in Keys, Settled(x), acs_url \in BOOLEAN
  PROVE  LET r == QueueTransferComplete(x, key) IN Settled(r) /\ r.up = x.up
<1>1. ASSUME NEW y, NEW ev \in Events, Settled(y)
      PROVE  Settled(AddEvent(y, ev)) /\ AddEvent(y, ev).up = y.up
  BY <1>1, AddEventAlike, AlikeKeeps DEF Alike, Settled, Good
<1> DEFINE once == IF Queued(x, TransferDone) THEN x ELSE AddEvent(x, TransferDone)
           announced == IF HasSession(x) THEN x ELSE AddEvent(once, MDownload(key))
<1>2. Settled(once) /\ once.up = x.up
  BY <1>1, EventTypes
<1>3. Settled(announced) /\ announced.up = x.up
  <2> HIDE DEF once
  <2>1. QED
    BY <1>1, <1>2, EventTypes
<1>4. QueueTransferComplete(x, key) = Send(announced, TransferComplete(key))
  BY DEF QueueTransferComplete
<1> HIDE DEF announced
<1>5. TransferComplete(key) \in Requests
  BY DEF TransferComplete, Requests
<1>6. QED
  BY <1>3, <1>4, <1>5, SendSettled DEF Ready, Settled
-----------------------------------------------------------------------------
(* Lemmas on replies *)

LEMMA InformResponseReceivedAlike ==
  ASSUME NEW x \in Memory
  PROVE  Alike(InformResponseReceived(x), x)
<1> DEFINE y == RemoveFromDequeue(x, InformReasons)
           r == [y EXCEPT !.changed_sent = {}]
<1>1. Alike(y, x)
  BY RemoveFromDequeueAlike
<1> HIDE DEF y
<1>2. Alike(r, x)
  BY <1>1 DEF Alike, Memory
<1>3. QED
  BY <1>2 DEF InformResponseReceived, y

LEMMA HandleReplyReady ==
  ASSUME NEW x, NEW reply, Good(x), Quiet(x), x.session.has_url,
         x.session.state \in {"ACTIVE", "NOMORE"}, acs_url \in BOOLEAN
  PROVE  LET r == HandleReply(x, reply) IN Ready(r) /\ r.up = x.up
<1>1. x \in Memory /\ Ready(x) /\ HasSession(x)
  BY DEF Good, Ready, HasSession
<1>2. CASE reply = "InformResponse"
  BY <1>1, <1>2, InformResponseReceivedAlike, AlikeKeeps DEF HandleReply, Failures, Alike
<1>3. CASE reply = "TransferCompleteResponse"
  BY <1>1, <1>3, RemoveFromDequeueAlike, AlikeKeeps
     DEF HandleReply, Failures, TransferCompleteReceived, Alike
<1>4. CASE reply \in {"Rpc", "Fault"}
  BY <1>1, <1>4, SendResponseSettled DEF HandleReply, Failures, Ready, Settled
<1>5. CASE reply = "Download"
  <2> DEFINE y == [x EXCEPT !.downloading = TRUE]
  <2>1. Alike(y, x)
    BY <1>1 DEF Alike, Memory
  <2>2. Ready(y) /\ y.up = x.up
    BY <1>1, <2>1, AlikeKeeps DEF Alike
  <2> HIDE DEF y
  <2>3. HandleReply(x, reply) = SendResponse(y)
    BY <1>5 DEF HandleReply, Failures, y
  <2>4. QED
    BY <2>2, <2>3, SendResponseSettled DEF Ready, Settled
<1>6. CASE reply = "Reboot"
  <2> DEFINE y == [x EXCEPT !.run_at_end = TRUE]
  <2>1. /\ y \in Memory
        /\ y.session = x.session /\ y.up = x.up
        /\ y.posts = x.posts /\ y.outstanding = x.outstanding
        /\ y.wait_timers = x.wait_timers
        /\ y.start_session_timeout = x.start_session_timeout
    BY <1>1 DEF Memory
  <2> HIDE DEF y
  <2>2. Ready(y)
    BY <1>1, <2>1 DEF Ready, Good, Quiet, HasSession
  <2>3. HandleReply(x, reply) = SendResponse(y)
    BY <1>6 DEF HandleReply, Failures, RebootAtEnd, y
  <2>4. QED
    BY <2>1, <2>2, <2>3, SendResponseSettled DEF Ready, Settled
<1>7. CASE reply = "Empty"
  <2> DEFINE next == StateUpdate(x.session.state, "acs_to_cpe_empty")
             sn == [x.session EXCEPT !.state = next]
             y == [x EXCEPT !.session = sn]
  <2>1. next \in {"ACTIVE", "DONE"}
    BY DEF StateUpdate
  <2>2. HandleReply(x, reply) = y
    BY <1>1, <1>7 DEF HandleReply, Failures, Memory
  <2> HIDE DEF next
  <2>3. /\ sn.state = next
        /\ sn \in [state : SessionStates \cup {"NONE"},
                   ping_received : BOOLEAN, has_url : BOOLEAN]
    BY <1>1, <2>1 DEF Memory, SessionStates
  <2> HIDE DEF sn
  <2>4. Ready(y) /\ y.up = x.up
    BY <1>1, <2>1, <2>3 DEF Ready, Good, Quiet, HasSession, Memory
  <2> HIDE DEF y
  <2>5. QED
    BY <2>2, <2>4
<1>8. CASE reply \in Failures
  <2>1. HandleReply(x, reply) = ScheduleRetrySession(x, TRUE)
    BY <1>8 DEF HandleReply, Failures
  <2> HIDE DEF HandleReply, Failures
  <2>2. QED
    BY <1>1, <2>1, ScheduleRetrySessionSettled DEF Ready, Settled
<1>9. CASE reply \notin Failures \cup {"InformResponse", "TransferCompleteResponse",
                                     "Rpc", "Fault", "Download", "Reboot", "Empty"}
  <2> DEFINE y == [x EXCEPT !.exited = TRUE]
  <2>1. HandleReply(x, reply) = y
    BY <1>9 DEF HandleReply, Failures
  <2>2. Alike(y, x)
    BY <1>1 DEF Alike, Memory
  <2> HIDE DEF y
  <2>3. QED
    BY <1>1, <2>1, <2>2, AlikeKeeps DEF Alike
<1>10. QED
  BY <1>2, <1>3, <1>4, <1>5, <1>6, <1>7, <1>8, <1>9

LEMMA HandleSessionEndAlike ==
  ASSUME NEW x \in Memory, NEW reply
  PROVE  Alike(HandleSessionEnd(x, reply), x)
<1> DEFINE n == x.num_599 + 1
           e == x.exited \/ n > LIMIT_599
           y == [x EXCEPT !.num_599 = n, !.exited = e]
           z == [x EXCEPT !.num_599 = 0]
<1>1. n \in Nat /\ e \in BOOLEAN /\ (x.exited => e)
  BY DEF Memory
<1>2. HandleSessionEnd(x, reply) = IF reply = "599" THEN y ELSE z
  BY DEF HandleSessionEnd
<1>3. Alike(z, x)
  BY DEF Alike, Memory
<1> HIDE DEF n, e
<1>4. Alike(y, x)
  BY <1>1 DEF Alike, Memory
<1>5. QED
  BY <1>2, <1>3, <1>4

LEMMA GotResponseToSettled ==
  ASSUME NEW x, NEW reply, Settled(x), ~x.exited, x.posts # <<>>, acs_url \in BOOLEAN
  PROVE  LET r == GotResponseTo(x, reply) IN Settled(r) /\ r.up = x.up
<1> DEFINE y == Receive(x)
           z == HandleReply(y, reply)
           w == HandleSessionEnd(z, reply)
<1>1. Good(x) /\ x \in Memory /\ HasSession(x) /\ Posted(x)
  BY DEF Settled, Good, Waits, Quiet
<1>2. Tail(x.posts) = <<>>
  <2>1. x.posts \in Seq(Messages) /\ Len(x.posts) = 1
    BY <1>1 DEF Posted, Memory
  <2>2. Tail(x.posts) \in Seq(Messages) /\ Len(Tail(x.posts)) = 0
    BY <2>1
  <2>3. QED
    BY <2>2, EmptySeq
<1>3. y = [x EXCEPT !.outstanding = None, !.posts = <<>>]
  BY <1>2 DEF Receive
<1> HIDE DEF y
<1>4. /\ y \in Memory
      /\ y.session = x.session /\ y.up = x.up
      /\ y.posts = <<>> /\ y.outstanding = None
      /\ y.wait_timers = x.wait_timers
      /\ y.start_session_timeout = x.start_session_timeout
      /\ y.run_at_end = x.run_at_end
  <2> DEFINE none == <<>>
  <2>1. none \in Seq(Messages) /\ y = [x EXCEPT !.outstanding = None, !.posts = none]
    BY <1>3
  <2> HIDE DEF none
  <2>2. y \in Memory
    BY <1>1, <2>1 DEF Memory
  <2>3. QED
    BY <1>1, <1>3, <2>2 DEF Memory
<1>5. Good(y) /\ Quiet(y)
  BY <1>1, <1>4 DEF Good, Quiet, HasSession
<1>6. Ready(z) /\ z.up = x.up
  BY <1>1, <1>4, <1>5, HandleReplyReady DEF Posted
<1> HIDE DEF z
<1>7. Alike(w, z)
  BY <1>6, HandleSessionEndAlike DEF Ready, Good
<1>8. Ready(w) /\ w.up = x.up
  BY <1>6, <1>7, AlikeKeeps DEF Alike, Ready
<1>9. GotResponseTo(x, reply) = Run(w)
  BY <1>1 DEF GotResponseTo, w, z, y
<1> HIDE DEF w
<1>10. QED
  BY <1>8, <1>9, RunSettled

-----------------------------------------------------------------------------
(* The invariant holds *)

LEMMA NewProcessSettled ==
  /\ Settled(NewProcess) /\ NewProcess.up = FALSE
  /\ \A b \in BOOLEAN : Settled([NewProcess EXCEPT !.up = TRUE, !.downloading = b])
<1>1. /\ NewProcess \in Memory
      /\ \A b \in BOOLEAN : [NewProcess EXCEPT !.up = TRUE, !.downloading = b] \in Memory
  <2>1. NoSession \in [state : SessionStates \cup {"NONE"},
                      ping_received : BOOLEAN, has_url : BOOLEAN]
    BY DEF NoSession
  <2>2. NewProcess \in Memory
    BY <2>1 DEF NewProcess, Memory
  <2>3. QED
    BY <2>2 DEF Memory
<1>2. QED
  BY <1>1 DEF Settled, Good, Waits, Quiet, HasSession, NewProcess, NoSession

LEMMA StartupWithSettled ==
  ASSUME NEW x, NEW reboots \in Restored, NEW transfers \in Restored,
         Settled(x), acs_url \in BOOLEAN
  PROVE  LET r == StartupWith(x, reboots, transfers) IN Settled(r) /\ r.up = x.up
<1> DEFINE q == {MReboot(key) : key \in reboots}
           queued == WithEvents(x, q)
           started == NewSession(queued, Bootstrap)
<1>1. q \in SUBSET Events /\ transfers \subseteq Keys
  BY EventTypes DEF Restored
<1> HIDE DEF q
<1>2. Settled(queued) /\ queued.up = x.up
  BY <1>1, WithEventsAlike, AlikeKeeps DEF Alike, Settled, Good
<1> HIDE DEF queued
<1>3. Settled(started) /\ started.up = x.up
  BY <1>2, EventTypes, NewSessionSettled
<1> HIDE DEF started
<1>4. StartupWith(x, reboots, transfers) =
        IF transfers = {} THEN started
        ELSE QueueTransferComplete(started, CHOOSE key \in transfers : TRUE)
  BY DEF StartupWith, started, queued, q
<1>5. transfers # {} => (CHOOSE key \in transfers : TRUE) \in Keys
  BY <1>1
<1>6. QED
  BY <1>3, <1>4, <1>5, QueueTransferCompleteSettled

LEMMA InitIInv == Init => IInv
BY NewProcessSettled DEF Init, IInv

LEMMA NextIInv == IInv /\ [Next]_vars => IInv'
<1> SUFFICES ASSUME IInv, [Next]_vars PROVE IInv'
  OBVIOUS
<1> USE DEF IInv
<1>0. m \in Memory /\ Good(m)
  BY DEF Settled, Good
<1>1. CASE Startup
  <2>1. PICK reboots \in Restored, transfers \in Restored, downloading \in BOOLEAN :
          m' = StartupWith([m EXCEPT !.up = TRUE, !.downloading = downloading],
                           reboots, transfers)
    BY <1>1 DEF Startup
  <2> DEFINE x == [m EXCEPT !.up = TRUE, !.downloading = downloading]
  <2>2. Settled(x) /\ x.up
    BY <1>0, <1>1, NewProcessSettled DEF Startup, Memory
  <2> HIDE DEF x
  <2>3. m' = StartupWith(x, reboots, transfers)
    BY <2>1 DEF x
  <2>4. Settled(m') /\ m'.up
    BY <2>2, <2>3, StartupWithSettled
  <2>5. QED
    BY <1>1, <2>4 DEF Startup, env, Settled, Good, Waits, Quiet, Posted, HasSession
<1>2. ASSUME NEW reply \in AllReplies, GotResponse(reply) PROVE IInv'
  <2>1. Settled(m') /\ m'.up
    BY <1>2, GotResponseToSettled DEF GotResponse, Running
  <2>2. QED
    BY <1>2, <2>1 DEF GotResponse, env, Settled, Good, Waits, Quiet, Posted, HasSession
<1>3. CASE SessionWaitTimer
  <2> DEFINE n == m.wait_timers - 1
             fired == [m EXCEPT !.wait_timers = n, !.start_session_timeout = FALSE]
             sn == NewCwmpSession(acs_url)
             y == [fired EXCEPT !.session = sn]
  <2>1. m.start_session_timeout /\ n = 0 /\ ~HasSession(m) /\ Quiet(m) /\ m.up
    BY <1>3 DEF SessionWaitTimer, Settled, Good, Waits, Running
  <2>2. /\ sn.state = "CONNECT"
        /\ sn \in [state : SessionStates \cup {"NONE"},
                   ping_received : BOOLEAN, has_url : BOOLEAN]
    BY DEF NewCwmpSession, SessionStates
  <2>3. fired.session = m.session
    BY <1>0 DEF Memory
  <2>4. m' = Run(y)
    BY <1>3, <2>1, <2>3 DEF SessionWaitTimer, HasSession
  <2> HIDE DEF n, sn
  <2>5. /\ y \in Memory /\ y.session = sn /\ y.up = m.up
        /\ y.posts = m.posts /\ y.outstanding = m.outstanding
        /\ y.wait_timers = 0 /\ ~y.start_session_timeout
        /\ y.run_at_end = m.run_at_end
    BY <1>0, <2>1, <2>2 DEF Memory
  <2> HIDE DEF y
  <2>6. Ready(y)
    BY <1>0, <2>1, <2>2, <2>5 DEF Ready, Good, Quiet, HasSession
  <2>7. Settled(m') /\ m'.up
    BY <2>1, <2>4, <2>5, <2>6, RunSettled
  <2>8. QED
    BY <1>3, <2>7 DEF SessionWaitTimer, env, Settled, Good, Waits, Quiet, Posted, HasSession
<1>4. CASE PingReceived
  BY <1>4, NewPingSessionSettled DEF PingReceived, Running, env
<1>5. CASE NewTimeoutPingSession
  <2> DEFINE n == m.ping_timers - 1
             fired == [m EXCEPT !.ping_timers = n, !.ping_timeout_pending = FALSE]
  <2>1. n \in Nat
    BY <1>0, <1>5 DEF NewTimeoutPingSession, Memory
  <2>2. m' = IF m.ping_timeout_pending THEN NewPingSession(fired) ELSE fired
    BY <1>5 DEF NewTimeoutPingSession
  <2> HIDE DEF n
  <2>3. Alike(fired, m)
    BY <1>0, <2>1 DEF Alike, Memory
  <2>4. Settled(fired) /\ fired.up
    BY <1>0, <1>5, <2>3, AlikeKeeps DEF NewTimeoutPingSession, Running, Alike
  <2> HIDE DEF fired
  <2>5. Settled(m') /\ m'.up
    BY <2>2, <2>4, NewPingSessionSettled
  <2>6. QED
    BY <1>5, <2>5 DEF NewTimeoutPingSession, env
<1>6. CASE RateLimitExpires
  <2>1. m.up
    BY <1>6 DEF RateLimitExpires, NewProcess
  <2>2. Alike(m', m)
    BY <1>0, <1>6 DEF RateLimitExpires, Alike, Memory
  <2>3. QED
    BY <1>0, <1>6, <2>1, <2>2, AlikeKeeps DEF RateLimitExpires, env, Alike
<1>7. CASE NewPeriodicSession
  BY <1>7, EventTypes, NewSessionSettled DEF NewPeriodicSession, Running, env
<1>8. CASE NewWakeupSession
  BY <1>8, EventTypes, NewSessionSettled DEF NewWakeupSession, Running, env
<1>9. ASSUME NEW p \in Params, NEW active \in BOOLEAN, ParameterChanged(p, active)
      PROVE  IInv'
  <2> DEFINE more == m.changed \cup {p}
             set == [m EXCEPT !.changed = more]
  <2>1. more \in SUBSET Params
    BY <1>0 DEF Memory
  <2>2. m' = IF active THEN NewValueChangeSession(set) ELSE set
    BY <1>9 DEF ParameterChanged
  <2> HIDE DEF more
  <2>3. Alike(set, m)
    BY <1>0, <2>1 DEF Alike, Memory
  <2>4. Settled(set) /\ set.up
    BY <1>0, <1>9, <2>3, AlikeKeeps DEF ParameterChanged, Running, Alike
  <2> HIDE DEF set
  <2>5. Settled(m') /\ m'.up
    BY <2>2, <2>4, NewValueChangeSessionSettled
  <2>6. QED
    BY <1>9, <2>5 DEF ParameterChanged, env
<1>10. ASSUME NEW key \in Keys, SendTransferComplete(key) PROVE IInv'
  <2> DEFINE sent == [m EXCEPT !.downloading = FALSE]
  <2>1. Alike(sent, m)
    BY <1>0 DEF Alike, Memory
  <2>2. Settled(sent) /\ sent.up
    BY <1>0, <1>10, <2>1, AlikeKeeps DEF SendTransferComplete, Running, Alike
  <2> HIDE DEF sent
  <2>3. m' = QueueTransferComplete(sent, key)
    BY <1>10 DEF SendTransferComplete, sent
  <2>4. Settled(m') /\ m'.up
    BY <2>2, <2>3, QueueTransferCompleteSettled
  <2>5. QED
    BY <1>10, <2>4 DEF SendTransferComplete, env
<1>11. CASE Respawn \/ Crash
  BY <1>11, NewProcessSettled DEF Respawn, Crash, env
<1>12. CASE AcsDisabledChanges \/ FindUrl \/ LoseUrl
  BY <1>12 DEF AcsDisabledChanges, FindUrl, LoseUrl
<1>13. CASE UNCHANGED vars
  BY <1>13 DEF vars, Settled, Good, Waits, Quiet, Posted, HasSession
<1>14. QED
  BY <1>1, <1>2, <1>3, <1>4, <1>5, <1>6, <1>7, <1>8, <1>9, <1>10, <1>11, <1>12, <1>13
     DEF Next

LEMMA Invariance == Spec => []IInv
BY InitIInv, NextIInv, PTL DEF Spec

-----------------------------------------------------------------------------
(* Theorems *)

\* Type correctness: whatever the callbacks of CPEStateMachine do, and in
\* whatever order, its attributes keep their types.
THEOREM TypeCorrect == Spec => []TypeOK
<1>1. IInv => TypeOK
  BY DEF IInv, Settled, Good, TypeOK
<1>2. QED
  BY <1>1, Invariance, PTL

\* CPEStateMachine never hangs on "outstanding": an open session of the running
\* process waits for exactly one answer.
THEOREM OnePostPerSession == Spec => []SessionAwaitsOnePost
<1>1. IInv => SessionAwaitsOnePost
  <2> SUFFICES ASSUME IInv, Running(m) PROVE SessionAwaitsOnePost
    BY DEF SessionAwaitsOnePost
  <2>1. m.posts \in Seq(Messages) /\ Waits(m)
    BY DEF IInv, Settled, Good, Running, Memory
  <2>2. CASE HasSession(m)
    <3>1. Len(m.posts) = 1 /\ m.outstanding = Head(m.posts)
      BY <2>1, <2>2 DEF Waits, Posted
    <3>2. m.posts # <<>>
      BY <3>1, EmptySeq
    <3>3. QED
      BY <2>2, <3>1, <3>2 DEF SessionAwaitsOnePost
  <2>3. CASE ~HasSession(m)
    BY <2>1, <2>3, EmptySeq DEF SessionAwaitsOnePost, Waits, Quiet
  <2>4. QED
    BY <2>2, <2>3
<1>2. QED
  BY <1>1, Invariance, PTL

\* _ScheduleRetrySession never overwrites a live timer, and _SessionWaitTimer
\* never overwrites an open session.
THEOREM AtMostOneRetryTimer == Spec => []OneRetryTimer
<1>1. IInv => OneRetryTimer
  BY DEF IInv, Settled, Good, OneRetryTimer
<1>2. QED
  BY <1>1, Invariance, PTL

\* The callback of a Reboot RPC is never left behind without a session.
THEOREM EndCallbacksAreServed == Spec => []EndCallbacksServed
<1>1. IInv => EndCallbacksServed
  BY DEF IInv, Settled, Good, EndCallbacksServed
<1>2. QED
  BY <1>1, Invariance, PTL
-----------------------------------------------------------------------------
(* What the sessions say: a second invariant                               *)
(*                                                                         *)
(* Settled tells that a POST is there, Speaks what is in it and how it     *)
(* relates to what the process has to report.  A callback either goes on   *)
(* with the session it finds, or opens one that begins with an Inform      *)
(* (Goes); only the answer to a POST moves an open session (the lemmas on  *)
(* GotResponse).                                                           *)

\* The reason that a ping removes; no other event has it.
Asked == "6 CONNECTION REQUEST"

Keyed(x) ==
  \A ev \in x.event_queue : ev.reason = Asked => ev = ConnectionRequest

\* Everything queued was announced; an Inform that is awaited carries it.
Announced(x) ==
  /\ x.event_queue \subseteq x.informed
  /\ Head(x.posts).type = "Inform" =>
       /\ x.session.state = "ACTIVE"
       /\ Head(x.posts).events = x.informed
       /\ Head(x.posts).params = x.changed_sent
  /\ x.session.state = "NOMORE" => Head(x.posts).type \in {"Response", "Empty"}

Speaks(x) == x.exited \/ (Keyed(x) /\ (HasSession(x) => Announced(x)))

\* r has to report what x has.
Same(r, x) ==
  /\ r.event_queue = x.event_queue
  /\ r.informed = x.informed
  /\ r.changed = x.changed
  /\ r.changed_sent = x.changed_sent

\* r has forgotten nothing, but for a connection request while the ACS is disabled.
Remembers(r, x) ==
  /\ \A ev \in x.event_queue \ r.event_queue :
        ev = ConnectionRequest /\ acs_disabled /\ ~HasSession(r)
  /\ x.changed \cup x.changed_sent \subseteq r.changed \cup r.changed_sent

\* The Inform of r's session is under way.
Informs(r) ==
  /\ r.session.state = "ACTIVE"
  /\ Head(r.posts).type = "Inform"
  /\ Head(r.posts).events = r.informed
  /\ Head(r.posts).params = r.changed_sent
  /\ r.event_queue \subseteq r.informed

\* What callbacks other than the answer to a POST make of x.
Goes(r, x) ==
  /\ x.exited => r.exited
  /\ ~r.exited =>
       /\ Remembers(r, x)
       /\ Keyed(r)
       /\ HasSession(x) =>
            /\ r.session.state = x.session.state
            /\ r.posts = x.posts
            /\ r.informed = x.informed
            /\ r.changed_sent = x.changed_sent
            /\ r.event_queue = x.event_queue
       /\ ~HasSession(x) /\ HasSession(r) => Informs(r)

LEMMA GoesSpeaks ==
  ASSUME NEW x, NEW r, Speaks(x), Goes(r, x)
  PROVE  Speaks(r)
<1>1. SUFFICES ASSUME ~r.exited PROVE Speaks(r)
  BY DEF Speaks
<1>2. Keyed(x) /\ Keyed(r)
  BY <1>1 DEF Speaks, Goes
<1>3. CASE HasSession(x)
  BY <1>1, <1>2, <1>3 DEF Goes, Speaks, Announced, HasSession
<1>4. CASE ~HasSession(x)
  <2>1. HasSession(r) => Informs(r)
    BY <1>1, <1>4 DEF Goes
  <2>2. Informs(r) => Announced(r)
    BY DEF Informs, Announced
  <2>3. QED
    BY <1>2, <2>1, <2>2 DEF Speaks
<1>5. QED
  BY <1>3, <1>4

\* A callback that changes nothing, or only what Goes does not look at.
LEMMA StaysGoes ==
  ASSUME NEW x, NEW r, Speaks(x), Same(r, x), x.exited => r.exited,
         r.session.state = x.session.state, r.posts = x.posts
  PROVE  Goes(r, x)
<1>1. SUFFICES ASSUME ~r.exited PROVE Goes(r, x)
  BY DEF Goes
<1>2. Keyed(x) /\ ~x.exited
  BY <1>1 DEF Speaks
<1>3. Remembers(r, x) /\ Keyed(r)
  <2>1. /\ r.event_queue = x.event_queue
        /\ r.changed = x.changed /\ r.changed_sent = x.changed_sent
    BY DEF Same
  <2>2. x.event_queue \ r.event_queue = {}
    BY <2>1
  <2>3. QED
    BY <1>2, <2>1, <2>2 DEF Remembers, Keyed
<1>4. QED
  BY <1>1, <1>2, <1>3 DEF Goes, Same, HasSession

LEMMA EventReasons ==
  /\ Bootstrap.reason # Asked
  /\ Periodic.reason # Asked
  /\ ValueChange.reason # Asked
  /\ TransferDone.reason # Asked
  /\ \A key : /\ MDownload(key).reason # Asked
              /\ MReboot(key).reason # Asked
BY DEF Asked, Bootstrap, Periodic, ValueChange, TransferDone, MDownload, MReboot, Event

LEMMA WithEventsSays ==
  ASSUME NEW x \in Memory, NEW q
  PROVE  LET r == WithEvents(x, q) IN
         /\ x.exited => r.exited
         /\ r.session = x.session /\ r.posts = x.posts /\ r.outstanding = x.outstanding
         /\ r.event_queue = q /\ r.informed = x.informed
         /\ r.changed = x.changed /\ r.changed_sent = x.changed_sent
<1> DEFINE e == x.exited \/ (x.limited /\ Cardinality(q) > MAX_EVENT_QUEUE_SIZE)
           r == WithEvents(x, q)
<1>1. x.exited => e
  OBVIOUS
<1>2. r = [x EXCEPT !.event_queue = q, !.exited = e]
  BY DEF WithEvents
<1> HIDE DEF e, r
<1>3. /\ r.exited = e
      /\ r.session = x.session /\ r.posts = x.posts /\ r.outstanding = x.outstanding
      /\ r.event_queue = q /\ r.informed = x.informed
      /\ r.changed = x.changed /\ r.changed_sent = x.changed_sent
  BY <1>2 DEF Memory
<1>4. QED
  BY <1>1, <1>3 DEF r

LEMMA RemoveFromDequeueSays ==
  ASSUME NEW x \in Memory, NEW reasons
  PROVE  LET r == RemoveFromDequeue(x, reasons) IN
         /\ r.exited = x.exited
         /\ r.session = x.session /\ r.posts = x.posts /\ r.outstanding = x.outstanding
         /\ r.event_queue = {ev \in x.event_queue : ev.reason \notin reasons}
         /\ r.informed = x.informed
         /\ r.changed = x.changed /\ r.changed_sent = x.changed_sent
<1> DEFINE q == {ev \in x.event_queue : ev.reason \notin reasons}
           r == RemoveFromDequeue(x, reasons)
<1>1. r = [x EXCEPT !.event_queue = q, !.limited = FALSE]
  BY DEF RemoveFromDequeue
<1> HIDE DEF q, r
<1>2. /\ r.exited = x.exited
      /\ r.session = x.session /\ r.posts = x.posts /\ r.outstanding = x.outstanding
      /\ r.event_queue = q /\ r.informed = x.informed
      /\ r.changed = x.changed /\ r.changed_sent = x.changed_sent
  BY <1>1 DEF Memory
<1>3. QED
  BY <1>2 DEF r, q

LEMMA CancelSessionRetriesSays ==
  ASSUME NEW x \in Memory
  PROVE  LET r == CancelSessionRetries(x) IN Same(r, x) /\ r.exited = x.exited
BY DEF CancelSessionRetries, Same, Memory

LEMMA CloseSessionSays ==
  ASSUME NEW x \in Memory
  PROVE  LET c == CloseSession(x) IN
         /\ c.event_queue = x.event_queue
         /\ c.changed = x.changed /\ c.changed_sent = x.changed_sent
BY DEF CloseSession, Memory

LEMMA ScheduleRetrySessionSays ==
  ASSUME NEW x \in Memory, NEW counted \in BOOLEAN
  PROVE  LET r == ScheduleRetrySession(x, counted) IN
         /\ ~HasSession(r)
         /\ r.exited = x.exited
         /\ r.event_queue = x.event_queue
         /\ r.changed = x.changed /\ r.changed_sent = x.changed_sent
<1> DEFINE c == IF HasSession(x) THEN CloseSession(x) ELSE x
           n == IF counted THEN c.retry_count + 1 ELSE c.retry_count
           w == c.wait_timers + 1
           r == ScheduleRetrySession(x, counted)
<1>1. /\ c \in Memory /\ ~HasSession(c) /\ c.exited = x.exited
      /\ c.event_queue = x.event_queue
      /\ c.changed = x.changed /\ c.changed_sent = x.changed_sent
  BY CloseSessionGood, CloseSessionSays
<1>2. r = [c EXCEPT !.retry_count = n, !.start_session_timeout = TRUE, !.wait_timers = w]
  BY DEF ScheduleRetrySession
<1> HIDE DEF c, n, w, r
<1>3. /\ r.session = c.session /\ r.exited = c.exited
      /\ r.event_queue = c.event_queue
      /\ r.changed = c.changed /\ r.changed_sent = c.changed_sent
  BY <1>1, <1>2 DEF Memory
<1>4. QED
  BY <1>1, <1>3 DEF HasSession, r

LEMMA PostSays ==
  ASSUME NEW x \in Memory, NEW msg \in Messages, Quiet(x)
  PROVE  LET r == Post(x, msg) IN
         /\ Same(r, x) /\ r.session = x.session /\ r.exited = x.exited
         /\ r.posts # <<>> /\ Head(r.posts) = msg
<1> DEFINE r == Post(x, msg)
<1>1. Append(x.posts, msg) = <<msg>>
  BY DEF Quiet
<1>2. r = [x EXCEPT !.outstanding = msg, !.posts = <<msg>>]
  BY <1>1 DEF Post
<1> HIDE DEF r
<1>3. r.posts = <<msg>> /\ r.session = x.session /\ r.exited = x.exited
  BY <1>2 DEF Memory
<1>4. Same(r, x)
  BY <1>2 DEF Memory, Same
<1>5. QED
  BY <1>3, <1>4 DEF r

LEMMA PostInformSays ==
  ASSUME NEW x, Good(x), Quiet(x), x.session.state = "CONNECT"
  PROVE  LET r == PostInform(x) IN
         /\ r.exited = x.exited
         /\ Informs(r)
         /\ r.event_queue = x.event_queue
         /\ r.changed \cup r.changed_sent = x.changed \cup x.changed_sent
<1> DEFINE msg == InformFor(x)
           y == [x EXCEPT !.session.state = StateUpdate(@, "sent_inform"),
                          !.changed_sent = @ \cup x.changed,
                          !.changed = {},
                          !.informed = msg.events]
           evs == msg.events
           sent == x.changed_sent \cup x.changed
           sn == [x.session EXCEPT !.state = "ACTIVE"]
<1>1. x \in Memory
  BY DEF Good
<1>2. msg \in Messages /\ evs \in SUBSET Events
  BY <1>1, EventTypes, MessageTypes DEF InformFor, Inform, Memory
<1>3. msg.type = "Inform" /\ msg.params = sent /\ x.event_queue \subseteq evs
  <2> DEFINE all == x.event_queue \cup (IF sent = {} THEN {} ELSE {ValueChange})
  <2>1. msg = [type |-> "Inform", events |-> all, params |-> sent]
    BY DEF InformFor, Inform
  <2>2. x.event_queue \subseteq all
    OBVIOUS
  <2> HIDE DEF all, sent, msg
  <2>3. msg.type = "Inform" /\ msg.params = sent /\ msg.events = all
    BY <2>1
  <2>4. QED
    BY <2>2, <2>3 DEF evs
<1>4. StateUpdate(x.session.state, "sent_inform") = "ACTIVE"
  BY DEF StateUpdate
<1>5. sn.state = "ACTIVE"
      /\ sn \in [state : SessionStates \cup {"NONE"},
                 ping_received : BOOLEAN, has_url : BOOLEAN]
      /\ sent \in SUBSET Params
  BY <1>1 DEF Memory, SessionStates
<1>6. y = [x EXCEPT !.session = sn, !.changed_sent = sent, !.changed = {},
                    !.informed = evs]
  BY <1>1, <1>4 DEF Memory
<1>7. PostInform(x) = Post(y, msg)
  BY DEF PostInform
<1>8. evs = msg.events /\ sent = x.changed_sent \cup x.changed
  OBVIOUS
<1> HIDE DEF y, sn, sent, evs, msg
<1>9. /\ y \in Memory
      /\ y.session = sn /\ y.posts = x.posts /\ y.outstanding = x.outstanding
      /\ y.event_queue = x.event_queue /\ y.informed = evs
      /\ y.changed = {} /\ y.changed_sent = sent /\ y.exited = x.exited
  BY <1>1, <1>2, <1>5, <1>6 DEF Memory
<1>10. Quiet(y)
  BY <1>9 DEF Quiet
<1> DEFINE r == Post(y, msg)
<1>11. Same(r, y) /\ r.session = y.session /\ r.exited = y.exited /\ Head(r.posts) = msg
  BY <1>2, <1>9, <1>10, PostSays
<1> HIDE DEF r
<1>12. Informs(r)
  BY <1>3, <1>5, <1>8, <1>9, <1>11 DEF Informs, Same
<1>13. QED
  BY <1>7, <1>8, <1>9, <1>11, <1>12 DEF Same, r

\* GetNext in a session that has said its Inform: a response goes before a request,
\* a request before the empty message, and no request after it.
LEMMA PostNextSays ==
  ASSUME NEW x, Good(x), Quiet(x), x.session.state \in {"ACTIVE", "NOMORE"}
  PROVE  LET r == PostNext(x) IN
         /\ Same(r, x) /\ r.exited = x.exited
         /\ \/ /\ x.response_queue # <<>>
               /\ r.session.state = x.session.state /\ Head(r.posts).type = "Response"
            \/ /\ x.response_queue = <<>> /\ x.session.state = "ACTIVE"
               /\ r.session.state = "ACTIVE" /\ Head(r.posts).type = "TransferComplete"
            \/ /\ x.response_queue = <<>>
               /\ r.session.state = "NOMORE" /\ Head(r.posts).type = "Empty"
<1>1. x \in Memory /\ ~InformRequired(x.session.state) /\ ResponseAllowed(x.session.state)
  BY DEF Good, InformRequired, ResponseAllowed
<1>2. CASE x.response_queue # <<>>
  <2> DEFINE q == Tail(x.response_queue)
             msg == Head(x.response_queue)
             y == [x EXCEPT !.response_queue = q]
  <2>1. q \in Seq({Response}) /\ msg \in {Response}
    BY <1>1, <1>2 DEF Memory
  <2>2. msg \in Messages /\ msg.type = "Response"
    BY <2>1, MessageTypes DEF Response
  <2>3. PostNext(x) = Post(y, msg)
    BY <1>1, <1>2 DEF PostNext, PostResponse
  <2> HIDE DEF q, msg
  <2>4. /\ y \in Memory /\ Same(y, x) /\ y.session = x.session /\ y.exited = x.exited
        /\ y.posts = x.posts /\ y.outstanding = x.outstanding
    BY <1>1, <2>1 DEF Memory, Same
  <2> HIDE DEF y
  <2>5. Quiet(y)
    BY <2>4 DEF Quiet
  <2>6. QED
    BY <1>2, <2>2, <2>3, <2>4, <2>5, PostSays DEF Same
<1>3. CASE x.response_queue = <<>> /\ x.request_queue # <<>> /\ x.session.state = "ACTIVE"
  <2> DEFINE q == Tail(x.request_queue)
             msg == Head(x.request_queue)
             y == [x EXCEPT !.request_queue = q]
  <2>1. q \in Seq(Requests) /\ msg \in Requests
    BY <1>1, <1>3 DEF Memory
  <2>2. msg \in Messages /\ msg.type = "TransferComplete"
    BY <2>1, MessageTypes DEF Requests
  <2>3. PostNext(x) = Post(y, msg)
    BY <1>1, <1>3 DEF PostNext, PostRequest, RequestAllowed
  <2> HIDE DEF q, msg
  <2>4. /\ y \in Memory /\ Same(y, x) /\ y.session = x.session /\ y.exited = x.exited
        /\ y.posts = x.posts /\ y.outstanding = x.outstanding
    BY <1>1, <2>1 DEF Memory, Same
  <2> HIDE DEF y
  <2>5. Quiet(y)
    BY <2>4 DEF Quiet
  <2>6. QED
    BY <1>3, <2>2, <2>3, <2>4, <2>5, PostSays DEF Same
<1>4. CASE /\ x.response_queue = <<>>
           /\ ~(x.request_queue # <<>> /\ x.session.state = "ACTIVE")
  <2> DEFINE sn == [x.session EXCEPT !.state = "NOMORE"]
             y == [x EXCEPT !.session = sn]
  <2>1. StateUpdate(x.session.state, "cpe_to_acs_empty") = "NOMORE"
    BY DEF StateUpdate
  <2>2. /\ sn.state = "NOMORE"
        /\ sn \in [state : SessionStates \cup {"NONE"},
                   ping_received : BOOLEAN, has_url : BOOLEAN]
    BY <1>1 DEF Memory, SessionStates
  <2>3. PostEmpty(x) = Post(y, Empty)
    BY <1>1, <2>1 DEF PostEmpty, Memory
  <2>4. PostNext(x) = PostEmpty(x)
    BY <1>1, <1>4 DEF PostNext, RequestAllowed
  <2> HIDE DEF sn
  <2>5. /\ y \in Memory /\ Same(y, x) /\ y.session = sn /\ y.exited = x.exited
        /\ y.posts = x.posts /\ y.outstanding = x.outstanding
    BY <1>1, <2>2 DEF Memory, Same
  <2> HIDE DEF y
  <2>6. Quiet(y) /\ Empty \in Messages /\ Empty.type = "Empty"
    BY <2>5, MessageTypes DEF Quiet, Empty
  <2>7. QED
    BY <1>4, <2>2, <2>3, <2>4, <2>5, <2>6, PostSays DEF Same
<1>5. QED
  BY <1>2, <1>3, <1>4

\* Run on a new session: an Inform, or a retry if there is no URL.
LEMMA RunNewSession ==
  ASSUME NEW x, Good(x), Quiet(x), x.session.state = "CONNECT", ~x.exited
  PROVE  LET r == RunOpen(x) IN
         /\ ~r.exited
         /\ HasSession(r) => Informs(r)
         /\ r.event_queue = x.event_queue
         /\ r.changed \cup r.changed_sent = x.changed \cup x.changed_sent
<1>1. x \in Memory /\ HasSession(x) /\ x.outstanding = None
  BY DEF Good, Quiet, HasSession
<1>2. CASE ~x.session.has_url
  <2>1. RunOpen(x) = ScheduleRetrySession(x, FALSE)
    BY <1>1, <1>2 DEF RunOpen
  <2>2. QED
    BY <1>1, <2>1, ScheduleRetrySessionSays
<1>3. CASE x.session.has_url
  <2>1. RunOpen(x) = PostInform(x)
    BY <1>1, <1>3 DEF RunOpen, PostNext, InformRequired
  <2>2. QED
    BY <2>1, PostInformSays
<1>4. QED
  BY <1>2, <1>3

\* _NewSession queues its event before the session begins, and not in an open one.
LEMMA NewSessionGoes ==
  ASSUME NEW x, NEW ev \in Events, Settled(x), Speaks(x), acs_url \in BOOLEAN,
         ev.reason = Asked => ev = ConnectionRequest
  PROVE  LET r == NewSession(x, ev) IN
         /\ Goes(r, x)
         /\ r.exited \/ x.event_queue \subseteq r.event_queue
         /\ acs_disabled => r.session = x.session
         /\ ~acs_disabled /\ ~HasSession(x) => r.exited \/ ev \in r.event_queue
<1> DEFINE c == CancelSessionRetries(x)
           d == AddEvent(c, ev)
           sn == NewCwmpSession(acs_url)
           y == [d EXCEPT !.session = sn]
<1>1. x \in Memory /\ Good(x)
  BY DEF Settled, Good
<1>2. /\ Good(c) /\ c \in Memory
      /\ c.session = x.session /\ c.posts = x.posts /\ c.outstanding = x.outstanding
      /\ c.exited = x.exited
      /\ Same(c, x)
  BY <1>1, CancelSessionRetriesSettled, CancelSessionRetriesSays DEF Good
<1>3. CASE acs_disabled
  <2>1. NewSession(x, ev) = c
    BY <1>3 DEF NewSession
  <2>2. Goes(c, x)
    BY <1>2, StaysGoes
  <2>3. QED
    BY <1>2, <1>3, <2>1, <2>2 DEF Same
<1>4. CASE ~acs_disabled /\ HasSession(x)
  <2>1. NewSession(x, ev) = x
    BY <1>4 DEF NewSession
  <2>2. Goes(x, x)
    BY StaysGoes DEF Same
  <2>3. QED
    BY <1>4, <2>1, <2>2
<1>5. CASE ~acs_disabled /\ ~HasSession(x)
  <2>1. /\ c.exited => d.exited
        /\ d.posts = c.posts /\ d.outstanding = c.outstanding
        /\ d.event_queue = c.event_queue \cup {ev}
        /\ d.changed = c.changed /\ d.changed_sent = c.changed_sent
    BY <1>2, WithEventsSays DEF AddEvent
  <2>2. Good(d)
    BY <1>2, AddEventAlike, AlikeKeeps
  <2>3. /\ sn.state = "CONNECT"
        /\ sn \in [state : SessionStates \cup {"NONE"},
                   ping_received : BOOLEAN, has_url : BOOLEAN]
    BY DEF NewCwmpSession, SessionStates
  <2>4. ~c.start_session_timeout /\ ~HasSession(c) /\ ~d.start_session_timeout
    <3>1. ~c.start_session_timeout /\ ~HasSession(c)
      BY <1>1, <1>2, <1>5, CancelSessionRetriesSettled DEF HasSession
    <3>2. d.start_session_timeout = c.start_session_timeout
      BY <1>2, AddEventAlike DEF Alike
    <3>3. QED
      BY <3>1, <3>2
  <2>5. NewSession(x, ev) = RunOpen(y)
    BY <1>5 DEF NewSession
  <2> HIDE DEF c, d, sn
  <2>6. /\ y \in Memory
        /\ y.session = sn /\ y.exited = d.exited
        /\ y.posts = d.posts /\ y.outstanding = d.outstanding
        /\ y.event_queue = d.event_queue
        /\ y.changed = d.changed /\ y.changed_sent = d.changed_sent
        /\ y.wait_timers = d.wait_timers
        /\ y.start_session_timeout = d.start_session_timeout
        /\ y.run_at_end = d.run_at_end
    BY <2>2, <2>3 DEF Good, Memory
  <2> HIDE DEF y
  <2>7. Good(y)
    BY <2>2, <2>3, <2>4, <2>6 DEF Good, HasSession
  <2>8. CASE y.exited
    <3>1. RunOpen(y) = y
      BY <2>8 DEF RunOpen
    <3>2. QED
      BY <1>5, <2>5, <2>8, <3>1 DEF Goes
  <2>9. CASE ~y.exited
    <3>1. ~x.exited /\ Quiet(x)
      BY <1>2, <1>5, <2>1, <2>6, <2>9 DEF Settled, Waits
    <3>2. Quiet(y)
      BY <1>2, <2>1, <2>6, <3>1 DEF Quiet
    <3> DEFINE r == RunOpen(y)
    <3>3. /\ ~r.exited
          /\ HasSession(r) => Informs(r)
          /\ r.event_queue = y.event_queue
          /\ r.changed \cup r.changed_sent = y.changed \cup y.changed_sent
      BY <2>3, <2>6, <2>7, <2>9, <3>2, RunNewSession
    <3> HIDE DEF r
    <3>4. /\ r.event_queue = x.event_queue \cup {ev}
          /\ r.changed \cup r.changed_sent = x.changed \cup x.changed_sent
      BY <1>2, <2>1, <2>6, <3>3 DEF Same
    <3>5. Keyed(r)
      BY <3>1, <3>4 DEF Keyed, Speaks
    <3>6. Remembers(r, x)
      BY <3>4 DEF Remembers
    <3>7. Goes(r, x)
      BY <1>5, <3>1, <3>3, <3>5, <3>6 DEF Goes
    <3>8. QED
      BY <1>5, <2>5, <3>4, <3>7 DEF r
  <2>10. QED
    BY <2>8, <2>9
<1>6. QED
  BY <1>3, <1>4, <1>5

LEMMA NewValueChangeSessionGoes ==
  ASSUME NEW x, Settled(x), Speaks(x), acs_url \in BOOLEAN
  PROVE  LET r == NewValueChangeSession(x) IN Goes(r, x)
<1>1. Goes(x, x)
  BY StaysGoes DEF Same
<1>2. Goes(NewSession(x, ValueChange), x)
  BY EventTypes, EventReasons, NewSessionGoes
<1>3. QED
  BY <1>1, <1>2 DEF NewValueChangeSession

\* The connection request that a ping removes is queued again by the session it
\* asks for, unless the ACS is disabled.
LEMMA NewPingSessionGoes ==
  ASSUME NEW x, Settled(x), Speaks(x), acs_url \in BOOLEAN
  PROVE  LET r == NewPingSession(x) IN Goes(r, x)
<1>1. x \in Memory /\ Good(x)
  BY DEF Settled, Good
<1>2. CASE HasSession(x)
  <2> DEFINE sn == [x.session EXCEPT !.ping_received = TRUE]
             r == [x EXCEPT !.session = sn]
  <2>1. sn.state = x.session.state
    BY <1>1 DEF Memory
  <2>2. NewPingSession(x) = r
    BY <1>1, <1>2 DEF NewPingSession, Memory
  <2> HIDE DEF sn
  <2>3. r.session = sn /\ r.posts = x.posts /\ r.exited = x.exited /\ Same(r, x)
    BY <1>1 DEF Memory, Same
  <2> HIDE DEF r
  <2>4. QED
    BY <2>1, <2>2, <2>3, StaysGoes
<1>3. CASE ~HasSession(x) /\ ~x.ping_recent
  <2> DEFINE y == [x EXCEPT !.ping_timeout_pending = FALSE, !.ping_recent = TRUE]
             reasons == {"6 CONNECTION REQUEST"}
             z == RemoveFromDequeue(y, reasons)
             r == NewSession(z, ConnectionRequest)
  <2>1. Alike(y, x)
    BY <1>1 DEF Alike, Memory
  <2>2. y.exited = x.exited /\ y.posts = x.posts /\ y.session = x.session /\ Same(y, x)
    BY <1>1 DEF Memory, Same
  <2>3. Good(y) /\ Settled(y)
    BY <1>1, <2>1, AlikeKeeps
  <2>4. NewPingSession(x) = r
    BY <1>3 DEF NewPingSession
  <2>4a. reasons = {Asked}
    BY DEF Asked
  <2> HIDE DEF y, reasons
  <2>5. Settled(z)
    BY <2>3, RemoveFromDequeueAlike, AlikeKeeps DEF Good
  <2>6. /\ z.exited = y.exited /\ z.session = y.session /\ z.posts = y.posts
        /\ z.event_queue = {ev \in y.event_queue : ev.reason # Asked}
        /\ z.changed = y.changed /\ z.changed_sent = y.changed_sent
    BY <2>3, <2>4a, RemoveFromDequeueSays DEF Good
  <2> HIDE DEF z
  <2>7. /\ z.exited = x.exited /\ z.session = x.session /\ z.posts = x.posts
        /\ z.event_queue = {ev \in x.event_queue : ev.reason # Asked}
        /\ z.changed = x.changed /\ z.changed_sent = x.changed_sent
    BY <2>2, <2>6 DEF Same
  <2>8. ~HasSession(z) /\ Speaks(z)
    BY <1>3, <2>7 DEF HasSession, Speaks, Keyed
  <2>9. /\ Goes(r, z)
        /\ r.exited \/ z.event_queue \subseteq r.event_queue
        /\ acs_disabled => r.session = z.session
        /\ ~acs_disabled => r.exited \/ ConnectionRequest \in r.event_queue
    BY <2>5, <2>8, EventTypes, NewSessionGoes
  <2> HIDE DEF r
  <2>10. Goes(r, x)
    <3>1. SUFFICES ASSUME ~r.exited PROVE Goes(r, x)
      BY <2>7, <2>9 DEF Goes
    <3>2. ~x.exited /\ Keyed(x) /\ Keyed(r) /\ (HasSession(r) => Informs(r))
      BY <2>7, <2>8, <2>9, <3>1 DEF Goes, Speaks
    <3>3. x.changed \cup x.changed_sent \subseteq r.changed \cup r.changed_sent
      BY <2>7, <2>9, <3>1 DEF Goes, Remembers
    <3>4. ASSUME NEW ev \in x.event_queue \ r.event_queue
          PROVE  ev = ConnectionRequest /\ acs_disabled /\ ~HasSession(r)
      <4>1. ev.reason = Asked
        BY <2>7, <2>9, <3>1, <3>4
      <4>2. ev = ConnectionRequest
        BY <3>2, <4>1 DEF Keyed
      <4>3. acs_disabled
        BY <2>9, <3>1, <3>4, <4>2
      <4>4. QED
        BY <2>8, <2>9, <4>2, <4>3 DEF HasSession
    <3>5. QED
      BY <1>3, <3>1, <3>2, <3>3, <3>4 DEF Goes, Remembers
  <2>11. QED
    BY <2>4, <2>10
<1>4. CASE ~HasSession(x) /\ x.ping_recent /\ ~x.ping_timeout_pending
  <2> DEFINE n == x.ping_timers + 1
             r == [x EXCEPT !.ping_timeout_pending = TRUE, !.ping_timers = n]
  <2>1. NewPingSession(x) = r
    BY <1>1, <1>4 DEF NewPingSession, Memory
  <2> HIDE DEF n
  <2>2. r.session = x.session /\ r.posts = x.posts /\ r.exited = x.exited /\ Same(r, x)
    BY <1>1 DEF Memory, Same
  <2> HIDE DEF r
  <2>3. QED
    BY <2>1, <2>2, StaysGoes
<1>5. CASE ~HasSession(x) /\ x.ping_recent /\ x.ping_timeout_pending
  <2>1. NewPingSession(x) = x
    BY <1>5 DEF NewPingSession
  <2>2. QED
    BY <2>1, StaysGoes DEF Same
<1>6. QED
  BY <1>2, <1>3, <1>4, <1>5

\* A session that ends normally, and the one that may follow it.
LEMMA FinishGoes ==
  ASSUME NEW x, Good(x), Quiet(x), HasSession(x), ~x.exited, Keyed(x), acs_url \in BOOLEAN
  PROVE  LET r == Finish(x) IN
         ~r.exited => /\ Remembers(r, x)
                      /\ Keyed(r)
                      /\ HasSession(r) => Informs(r)
<1> DEFINE d == CloseSession(x)
           c == [d EXCEPT !.outstanding = None, !.retry_count = 0]
           r == Finish(x)
<1>1. /\ d \in Memory
      /\ ~HasSession(d) /\ ~d.run_at_end
      /\ d.exited = x.exited /\ d.posts = <<>>
      /\ d.wait_timers = 0 /\ ~d.start_session_timeout
  BY CloseSessionGood DEF Good, Quiet
<1>2. /\ d.event_queue = x.event_queue
      /\ d.changed = x.changed /\ d.changed_sent = x.changed_sent
  BY CloseSessionSays DEF Good
<1>2b. r = IF c.changed # {} THEN NewValueChangeSession(c)
           ELSE IF x.session.ping_received THEN NewPingSession(c)
          ELSE c
  BY DEF Finish
<1> HIDE DEF d
<1>3. /\ c \in Memory
      /\ c.session = d.session /\ ~c.run_at_end
      /\ c.exited = d.exited /\ c.posts = <<>> /\ c.outstanding = None
      /\ c.wait_timers = 0 /\ ~c.start_session_timeout
      /\ c.event_queue = d.event_queue
      /\ c.changed = d.changed /\ c.changed_sent = d.changed_sent
  <2>1. d \in Memory
    BY <1>1
  <2>2. /\ c \in Memory
        /\ c.session = d.session /\ c.posts = d.posts /\ c.outstanding = None
    BY <2>1 DEF Memory
  <2>3. /\ c.wait_timers = d.wait_timers /\ c.run_at_end = d.run_at_end
        /\ c.start_session_timeout = d.start_session_timeout
        /\ c.exited = d.exited /\ c.event_queue = d.event_queue
        /\ c.changed = d.changed /\ c.changed_sent = d.changed_sent
    BY <2>1 DEF Memory
  <2>4. QED
    BY <1>1, <2>2, <2>3
<1> HIDE DEF c, r
<1>4. ~HasSession(c)
  BY <1>1, <1>3 DEF HasSession
<1>5. Settled(c) /\ Speaks(c)
  BY <1>1, <1>2, <1>3, <1>4 DEF Settled, Good, Waits, Quiet, Speaks, Keyed
<1>6. Goes(r, c)
  <2>1. Goes(c, c)
    BY <1>5, StaysGoes DEF Same
  <2>2. QED
    BY <1>2b, <1>5, <2>1, NewValueChangeSessionGoes, NewPingSessionGoes
<1>7. r.exited \/ (Remembers(r, c) /\ Keyed(r) /\ (HasSession(r) => Informs(r)))
  BY <1>4, <1>6 DEF Goes
<1>8. r.exited \/ Remembers(r, x)
  BY <1>2, <1>3, <1>7 DEF Remembers
<1>9. QED
  BY <1>7, <1>8 DEF r

\* Run, called in the middle of a session or without one, leaves it as it is.
LEMMA RunStays ==
  ASSUME NEW x, Settled(x)
  PROVE  Run(x) = x
<1>1. CASE x.exited \/ ~HasSession(x)
  BY <1>1 DEF Run, RunOpen
<1>2. CASE ~x.exited /\ HasSession(x)
  <2>1. Posted(x) /\ x \in Memory
    BY <1>2 DEF Settled, Waits, Good
  <2>2. x.outstanding # None
    <3>1. x.posts \in Seq(Messages) /\ x.posts # <<>>
      BY <2>1, EmptySeq DEF Posted, Memory
    <3>2. Head(x.posts) \in Messages
      BY <3>1
    <3>3. QED
      BY <2>1, <3>2, MessageTypes DEF Posted
  <2>3. QED
    BY <1>2, <2>1, <2>2 DEF Run, RunOpen, Posted, ShouldClose
<1>3. QED
  BY <1>1, <1>2

\* A finished download joins the events only outside of a session.
LEMMA QueueTransferCompleteGoes ==
  ASSUME NEW x, NEW key \in Keys, Settled(x), Speaks(x)
  PROVE  LET r == QueueTransferComplete(x, key) IN Goes(r, x)
<1> DEFINE once == IF Queued(x, TransferDone) THEN x ELSE AddEvent(x, TransferDone)
           announced == IF HasSession(x) THEN x ELSE AddEvent(once, MDownload(key))
           q == Append(announced.request_queue, TransferComplete(key))
           y == [announced EXCEPT !.request_queue = q]
<1>1. ASSUME NEW z, NEW ev \in Events, Settled(z), ~HasSession(z), ev.reason # Asked
      PROVE  LET a == AddEvent(z, ev) IN
             /\ Settled(a) /\ ~HasSession(a) /\ (z.exited => a.exited)
             /\ z.event_queue \subseteq a.event_queue
             /\ a.changed = z.changed /\ a.changed_sent = z.changed_sent
             /\ Keyed(z) => Keyed(a)
  <2> DEFINE a == AddEvent(z, ev)
  <2>1. z \in Memory /\ Good(z)
    BY <1>1 DEF Settled, Good
  <2>2. Alike(a, z)
    BY <2>1, AddEventAlike
  <2>3. Settled(a)
    BY <1>1, <2>1, <2>2, AlikeKeeps
  <2>4. /\ z.exited => a.exited
        /\ a.session = z.session /\ a.event_queue = z.event_queue \cup {ev}
        /\ a.changed = z.changed /\ a.changed_sent = z.changed_sent
    BY <2>1, WithEventsSays DEF AddEvent
  <2> HIDE DEF a
  <2>5. ~HasSession(a) /\ (Keyed(z) => Keyed(a))
    BY <1>1, <2>4 DEF HasSession, Keyed
  <2>6. QED
    BY <2>3, <2>4, <2>5 DEF a
<1>2. QueueTransferComplete(x, key) = Run(y)
  BY DEF QueueTransferComplete, Send
<1>3. CASE HasSession(x)
  <2>1. announced = x /\ x \in Memory /\ Good(x)
    BY <1>3 DEF Settled, Good
  <2> HIDE DEF announced
  <2>2. q \in Seq(Requests)
    BY <2>1 DEF Memory, Requests, TransferComplete
  <2> HIDE DEF q
  <2>3. Alike(y, x) /\ Same(y, x) /\ y.exited = x.exited
    BY <2>1, <2>2 DEF Alike, Same, Memory
  <2>4. Settled(y)
    BY <2>1, <2>3, AlikeKeeps
  <2> HIDE DEF y
  <2>5. Run(y) = y
    BY <2>4, RunStays
  <2>6. Goes(y, x)
    BY <2>3, StaysGoes DEF Alike
  <2>7. QED
    BY <1>2, <2>5, <2>6
<1>4. CASE ~HasSession(x)
  <2>1. /\ Settled(once) /\ ~HasSession(once) /\ (x.exited => once.exited)
        /\ x.event_queue \subseteq once.event_queue
        /\ once.changed = x.changed /\ once.changed_sent = x.changed_sent
        /\ Keyed(x) => Keyed(once)
    BY <1>1, <1>4, EventTypes, EventReasons
  <2> HIDE DEF once
  <2>2. /\ Settled(announced) /\ ~HasSession(announced) /\ (x.exited => announced.exited)
        /\ x.event_queue \subseteq announced.event_queue
        /\ announced.changed = x.changed /\ announced.changed_sent = x.changed_sent
        /\ Keyed(x) => Keyed(announced)
    <3> DEFINE a == AddEvent(once, MDownload(key))
    <3>1. /\ Settled(a) /\ ~HasSession(a) /\ (once.exited => a.exited)
          /\ once.event_queue \subseteq a.event_queue
          /\ a.changed = once.changed /\ a.changed_sent = once.changed_sent
          /\ Keyed(once) => Keyed(a)
      BY <1>1, <2>1, EventTypes, EventReasons
    <3>2. announced = a
      BY <1>4
    <3> HIDE DEF a, announced
    <3>3. QED
      BY <2>1, <3>1, <3>2
  <2> HIDE DEF announced
  <2>3. announced \in Memory /\ Good(announced)
    BY <2>2 DEF Settled, Good
  <2>4. q \in Seq(Requests)
    BY <2>3 DEF Memory, Requests, TransferComplete
  <2> HIDE DEF q
  <2>5. Alike(y, announced) /\ Same(y, announced) /\ y.exited = announced.exited
    <3>1. Alike(y, announced)
      BY <2>3, <2>4 DEF Alike, Memory
    <3>2. Same(y, announced) /\ y.exited = announced.exited
      BY <2>3 DEF Same, Memory
    <3>3. QED
      BY <3>1, <3>2
  <2>6. Settled(y)
    BY <2>2, <2>3, <2>5, AlikeKeeps
  <2> HIDE DEF y
  <2>7. Run(y) = y
    BY <2>6, RunStays
  <2>8. ~HasSession(y) /\ (x.exited => y.exited) /\ (Keyed(x) => Keyed(y)) /\ Remembers(y, x)
    <3>1. y.session = announced.session
      BY <2>5 DEF Alike
    <3>2. /\ y.event_queue = announced.event_queue
          /\ y.changed = announced.changed /\ y.changed_sent = announced.changed_sent
      BY <2>5 DEF Same
    <3>3. QED
      BY <2>2, <2>5, <3>1, <3>2 DEF HasSession, Keyed, Remembers
  <2>9. Goes(y, x)
    BY <1>4, <2>8 DEF Goes, Speaks
  <2>10. QED
    BY <1>2, <2>7, <2>9
<1>5. QED
  BY <1>3, <1>4

\* The first session announces the reboots that were restored, and a download that
\* was under way joins it.
LEMMA StartupWithSpeaks ==
  ASSUME NEW x, NEW reboots \in Restored, NEW transfers \in Restored,
         Settled(x), ~HasSession(x), acs_url \in BOOLEAN
  PROVE  LET r == StartupWith(x, reboots, transfers) IN
         Speaks(r) /\ (~r.exited /\ HasSession(r) => Informs(r))
<1> DEFINE q == {MReboot(key) : key \in reboots}
           queued == WithEvents(x, q)
           started == NewSession(queued, Bootstrap)
           r == StartupWith(x, reboots, transfers)
<1>1. q \in SUBSET Events /\ transfers \subseteq Keys /\ x \in Memory /\ Good(x)
  BY EventTypes DEF Restored, Settled, Good
<1>2. \A ev \in q : ev.reason # Asked
  BY EventReasons
<1>3. r = IF transfers = {} THEN started
          ELSE QueueTransferComplete(started, CHOOSE key \in transfers : TRUE)
  BY DEF StartupWith
<1> HIDE DEF q, r
<1>4. Settled(queued)
  BY <1>1, WithEventsAlike, AlikeKeeps
<1>5. queued.session = x.session /\ queued.event_queue = q
  BY <1>1, WithEventsSays
<1> HIDE DEF queued
<1>6. ~HasSession(queued) /\ Speaks(queued)
  BY <1>2, <1>5 DEF HasSession, Speaks, Keyed
<1>7. Settled(started) /\ Goes(started, queued)
  BY <1>4, <1>6, EventTypes, EventReasons, NewSessionSettled, NewSessionGoes
<1> HIDE DEF started
<1>8. Speaks(started) /\ (~started.exited /\ HasSession(started) => Informs(started))
  BY <1>6, <1>7, GoesSpeaks DEF Goes
<1>9. CASE transfers = {}
  BY <1>3, <1>8, <1>9 DEF r
<1>10. CASE transfers # {}
  <2>1. (CHOOSE key \in transfers : TRUE) \in Keys
    BY <1>1, <1>10
  <2>2. Goes(r, started)
    BY <1>3, <1>7, <1>8, <1>10, <2>1, QueueTransferCompleteGoes
  <2>3. Speaks(r)
    BY <1>8, <2>2, GoesSpeaks
  <2>4. ASSUME ~r.exited, HasSession(r) PROVE Informs(r)
    <3>1. ~started.exited
      BY <2>2, <2>4 DEF Goes
    <3>2. CASE HasSession(started)
      <4>1. Informs(started)
        BY <1>8, <3>1, <3>2
      <4>2. QED
        BY <2>2, <2>4, <3>2, <4>1 DEF Goes, Informs
    <3>3. CASE ~HasSession(started)
      BY <2>2, <2>4, <3>3 DEF Goes
    <3>4. QED
      BY <3>2, <3>3
  <2>5. QED
    BY <2>3, <2>4 DEF r
<1>11. QED
  BY <1>9, <1>10

LEMMA HandleSessionEndSays ==
  ASSUME NEW x \in Memory, NEW reply
  PROVE  LET r == HandleSessionEnd(x, reply) IN
         /\ Same(r, x) /\ (x.exited => r.exited)
         /\ r.session = x.session /\ r.posts = x.posts
<1> DEFINE n == x.num_599 + 1
           e == x.exited \/ n > LIMIT_599
           y == [x EXCEPT !.num_599 = n, !.exited = e]
           z == [x EXCEPT !.num_599 = 0]
<1>1. x.exited => e
  OBVIOUS
<1>2. HandleSessionEnd(x, reply) = IF reply = "599" THEN y ELSE z
  BY DEF HandleSessionEnd
<1> HIDE DEF n, e
<1>3. /\ Same(z, x) /\ z.exited = x.exited
      /\ z.session = x.session /\ z.posts = x.posts
  BY DEF Memory, Same
<1>4. /\ Same(y, x) /\ y.exited = e
      /\ y.session = x.session /\ y.posts = x.posts
  BY DEF Memory, Same
<1> HIDE DEF y, z
<1>5. QED
  BY <1>1, <1>2, <1>3, <1>4

\* Run in a session in which the CPE may make requests.
LEMMA RunActive ==
  ASSUME NEW x, Good(x), Quiet(x), x.session.state = "ACTIVE", x.session.has_url, ~x.exited
  PROVE  LET r == Run(x) IN
         /\ Same(r, x)
         /\ \/ r.session.state = "ACTIVE" /\ Head(r.posts).type \in {"TransferComplete", "Response"}
            \/ r.session.state = "NOMORE" /\ Head(r.posts).type = "Empty"
<1>1. Run(x) = PostNext(x)
  BY DEF Run, RunOpen, ShouldClose, HasSession, InformRequired, Quiet
<1>2. QED
  BY <1>1, PostNextSays

\* SendResponse posts its response at once.
LEMMA SendResponseSays ==
  ASSUME NEW x, Good(x), Quiet(x), x.session.state \in {"ACTIVE", "NOMORE"},
         x.session.has_url, ~x.exited, acs_url \in BOOLEAN
  PROVE  LET r == SendResponse(x) IN
         /\ Settled(r) /\ Same(r, x)
         /\ r.session.state = x.session.state /\ Head(r.posts).type = "Response"
<1> DEFINE q == Append(x.response_queue, Response)
           y == [x EXCEPT !.response_queue = q]
<1>1. x \in Memory /\ Ready(x)
  BY DEF Good, Ready
<1>2. q \in Seq({Response}) /\ q # <<>>
  <2>1. x.response_queue \in Seq({Response})
    BY <1>1 DEF Memory
  <2>2. q \in Seq({Response}) /\ Len(q) = Len(x.response_queue) + 1
    BY <2>1, AppendProperties
  <2>3. Len(x.response_queue) \in Nat
    BY <2>1, LenProperties
  <2>4. QED
    BY <2>2, <2>3, EmptySeq
<1>3. SendResponse(x) = Run(y)
  BY DEF SendResponse
<1> HIDE DEF q
<1>4. Alike(y, x) /\ Same(y, x) /\ y.exited = x.exited /\ y.response_queue = q
  BY <1>1, <1>2 DEF Alike, Same, Memory
<1> HIDE DEF y
<1>5. Good(y) /\ Quiet(y) /\ y.session = x.session
  BY <1>4, AlikeKeeps DEF Alike, Quiet
<1>6. Run(y) = PostNext(y)
  BY <1>4, <1>5 DEF Run, RunOpen, ShouldClose, HasSession, Quiet
<1>7. QED
  BY <1>1, <1>2, <1>3, <1>4, <1>5, <1>6, PostNextSays, SendResponseSettled DEF Same

\* An event goes with the answer to the POST that settles it.
Settles(x, r) ==
  /\ \A ev \in x.event_queue \ r.event_queue :
       \/ ev.reason \in InformReasons /\ Head(x.posts).type = "Inform"
       \/ ev.reason \in TransferReasons /\ Head(x.posts).type = "TransferComplete"
       \/ ev = ConnectionRequest /\ acs_disabled /\ ~HasSession(r)
  /\ \A p \in (x.changed \cup x.changed_sent) \ (r.changed \cup r.changed_sent) :
       p \notin x.changed /\ Head(x.posts).type = "Inform"

\* What the answer makes of the session.
Continues(x, r) ==
  \/ x.session.state = "NOMORE" /\ Informs(r)
  \/ /\ r.event_queue \subseteq r.informed
     /\ \/ /\ x.session.state = "ACTIVE" /\ r.session.state = "ACTIVE"
           /\ Head(r.posts).type \in {"TransferComplete", "Response"}
        \/ /\ x.session.state = "ACTIVE" /\ r.session.state = "NOMORE"
           /\ Head(r.posts).type = "Empty"
        \/ /\ x.session.state = "NOMORE" /\ r.session.state = "NOMORE"
           /\ Head(r.posts).type = "Response"

Answered(r, x) ==
  ~r.exited => Keyed(r) /\ Settles(x, r) /\ (HasSession(r) => Continues(x, r))

LEMMA ReplyFits ==
  ASSUME NEW msg, NEW reply \in Replies(msg)
  PROVE  /\ reply = "InformResponse" => msg.type = "Inform"
         /\ reply = "TransferCompleteResponse" => msg.type = "TransferComplete"
         /\ reply \in {"Rpc", "Fault", "Download", "Reboot", "Empty", "garbage",
                       "InformResponse", "TransferCompleteResponse"} \cup Failures
BY DEF Replies, Failures, Floor

LEMMA ReceiveSays ==
  ASSUME NEW x, Settled(x), ~x.exited, x.posts # <<>>
  PROVE  LET y == Receive(x) IN
         /\ Good(y) /\ Quiet(y) /\ Same(y, x)
         /\ y.session = x.session /\ y.exited = x.exited
         /\ x.session.state \in {"ACTIVE", "NOMORE"} /\ x.session.has_url /\ HasSession(x)
<1> DEFINE y == Receive(x)
<1>1. Good(x) /\ x \in Memory /\ HasSession(x) /\ Posted(x)
  BY DEF Settled, Good, Waits, Quiet
<1>2. Tail(x.posts) = <<>>
  <2>1. x.posts \in Seq(Messages) /\ Len(x.posts) = 1
    BY <1>1 DEF Posted, Memory
  <2>2. Tail(x.posts) \in Seq(Messages) /\ Len(Tail(x.posts)) = 0
    BY <2>1
  <2>3. QED
    BY <2>2, EmptySeq
<1> DEFINE none == <<>>
<1>3. y = [x EXCEPT !.outstanding = None, !.posts = none]
  BY <1>2 DEF Receive
<1>4. none \in Seq(Messages)
  OBVIOUS
<1>5. none = <<>>
  OBVIOUS
<1> HIDE DEF y, none
<1>6a. y \in Memory
  BY <1>1, <1>3, <1>4 DEF Memory
<1>6. /\ y.session = x.session
      /\ y.posts = none /\ y.outstanding = None
      /\ y.wait_timers = x.wait_timers
      /\ y.start_session_timeout = x.start_session_timeout
      /\ y.run_at_end = x.run_at_end
  BY <1>1, <1>3, <1>4 DEF Memory
<1>7. Same(y, x) /\ y.exited = x.exited
  BY <1>1, <1>3 DEF Memory, Same
<1>8. Good(y) /\ Quiet(y)
  BY <1>1, <1>5, <1>6a, <1>6 DEF Good, Quiet, HasSession
<1>9. QED
  BY <1>1, <1>6, <1>7, <1>8 DEF y, Posted

\* The end of GotResponse where the CPE may make requests.
LEMMA EndRunActive ==
  ASSUME NEW z, NEW reply, Good(z), Quiet(z), z.session.state = "ACTIVE", z.session.has_url
  PROVE  LET r == Run(HandleSessionEnd(z, reply)) IN
         \/ r.exited
         \/ /\ Same(r, z)
            /\ \/ /\ r.session.state = "ACTIVE"
                  /\ Head(r.posts).type \in {"TransferComplete", "Response"}
               \/ r.session.state = "NOMORE" /\ Head(r.posts).type = "Empty"
<1> DEFINE w == HandleSessionEnd(z, reply)
<1>1. z \in Memory
  BY DEF Good
<1>2. Same(w, z) /\ w.session = z.session
  BY <1>1, HandleSessionEndSays
<1>3. Good(w) /\ Quiet(w)
  BY <1>1, HandleSessionEndAlike, AlikeKeeps DEF Alike, Quiet
<1> HIDE DEF w
<1>4. CASE w.exited
  <2>1. Run(w) = w
    BY <1>4 DEF Run, RunOpen
  <2>2. QED
    BY <1>4, <2>1 DEF w
<1>5. CASE ~w.exited
  <2> DEFINE r == Run(w)
  <2>1. /\ Same(r, w)
        /\ \/ /\ r.session.state = "ACTIVE"
              /\ Head(r.posts).type \in {"TransferComplete", "Response"}
           \/ r.session.state = "NOMORE" /\ Head(r.posts).type = "Empty"
    BY <1>2, <1>3, <1>5, RunActive
  <2> HIDE DEF r
  <2>2. Same(r, z)
    BY <1>2, <2>1 DEF Same
  <2>3. QED
    BY <2>1, <2>2 DEF r, w
<1>6. QED
  BY <1>4, <1>5

\* The end of GotResponse where something was posted already, or nothing will be.
LEMMA EndRunStays ==
  ASSUME NEW z, NEW reply, Settled(z)
  PROVE  LET r == Run(HandleSessionEnd(z, reply)) IN
         /\ Same(r, z) /\ (z.exited => r.exited)
         /\ r.session = z.session /\ r.posts = z.posts
<1> DEFINE w == HandleSessionEnd(z, reply)
<1>1. z \in Memory /\ Good(z)
  BY DEF Settled, Good
<1>2. Settled(w)
  BY <1>1, HandleSessionEndAlike, AlikeKeeps
<1>3. Run(w) = w
  BY <1>2, RunStays
<1>4. QED
  BY <1>1, <1>3, HandleSessionEndSays

LEMMA GotResponseToAnswered ==
  ASSUME NEW x, NEW reply, Settled(x), Speaks(x), ~x.exited, x.posts # <<>>,
         reply \in Replies(Head(x.posts)), acs_url \in BOOLEAN
  PROVE  LET r == GotResponseTo(x, reply) IN Answered(r, x)
<1> DEFINE y == Receive(x)
           z == HandleReply(y, reply)
           r == Run(HandleSessionEnd(z, reply))
<1>1. /\ Good(y) /\ Quiet(y) /\ Same(y, x)
      /\ y.session = x.session /\ y.exited = x.exited
      /\ x.session.state \in {"ACTIVE", "NOMORE"} /\ x.session.has_url /\ HasSession(x)
  BY ReceiveSays
<1>2. GotResponseTo(x, reply) = r
  BY <1>1 DEF GotResponseTo
<1>3. y \in Memory /\ HasSession(y) /\ Keyed(x) /\ Announced(x)
  BY <1>1 DEF Good, HasSession, Speaks
<1>4. /\ reply = "InformResponse" => Head(x.posts).type = "Inform"
      /\ reply = "TransferCompleteResponse" => Head(x.posts).type = "TransferComplete"
      /\ reply \in {"Rpc", "Fault", "Download", "Reboot", "Empty", "garbage",
                    "InformResponse", "TransferCompleteResponse"} \cup Failures
  BY ReplyFits
<1> HIDE DEF y
\* What follows needs of r: it has what x had, and goes on with the session.
<1>5. ASSUME NEW p, Same(p, x), HasSession(p) => Continues(x, p)
      PROVE  Answered(p, x)
  <2>1. Keyed(p) /\ Settles(x, p)
    BY <1>3, <1>5 DEF Same, Keyed, Settles
  <2>2. QED
    BY <1>5, <2>1 DEF Answered
<1>6. CASE reply = "InformResponse"
  <2>1. Head(x.posts).type = "Inform" /\ x.session.state = "ACTIVE"
    BY <1>3, <1>4, <1>6 DEF Announced
  <2> DEFINE d == RemoveFromDequeue(y, InformReasons)
  <2>2. z = [d EXCEPT !.changed_sent = {}]
    BY <1>6 DEF HandleReply, Failures, InformResponseReceived
  <2>3. Good(z) /\ Quiet(z) /\ z.session = y.session
    <3>1. z = InformResponseReceived(y)
      BY <2>2 DEF InformResponseReceived
    <3> HIDE DEF z
    <3>2. Alike(z, y)
      BY <1>3, <3>1, InformResponseReceivedAlike
    <3>3. QED
      BY <1>1, <3>2, AlikeKeeps DEF Alike, Quiet
  <2> HIDE DEF z
  <2>4. /\ d \in Memory
        /\ d.event_queue = {ev \in y.event_queue : ev.reason \notin InformReasons}
        /\ d.informed = y.informed /\ d.changed = y.changed
    BY <1>3, RemoveFromDequeueSays, RemoveFromDequeueAlike DEF Alike
  <2> HIDE DEF d
  <2>5. /\ z.event_queue = d.event_queue /\ z.informed = d.informed
        /\ z.changed = d.changed /\ z.changed_sent = {}
    BY <2>2, <2>4 DEF Memory
  <2>6. \/ r.exited
        \/ /\ Same(r, z)
           /\ \/ /\ r.session.state = "ACTIVE"
                 /\ Head(r.posts).type \in {"TransferComplete", "Response"}
              \/ r.session.state = "NOMORE" /\ Head(r.posts).type = "Empty"
    BY <1>1, <2>1, <2>3, EndRunActive
  <2> HIDE DEF r
  <2>7. ASSUME ~r.exited
        PROVE  /\ r.event_queue = {ev \in x.event_queue : ev.reason \notin InformReasons}
               /\ r.informed = x.informed
               /\ r.changed = x.changed
    BY <1>1, <2>4, <2>5, <2>6, <2>7 DEF Same
  <2>8. ASSUME ~r.exited PROVE Keyed(r) /\ r.event_queue \subseteq r.informed
    BY <1>3, <2>7, <2>8 DEF Keyed, Announced
  <2>9. ASSUME ~r.exited PROVE Settles(x, r)
    <3>1. \A ev \in x.event_queue \ r.event_queue : ev.reason \in InformReasons
      BY <2>7, <2>9
    <3>2. QED
      BY <2>1, <2>7, <2>9, <3>1 DEF Settles
  <2>10. ASSUME ~r.exited PROVE Continues(x, r)
    BY <2>1, <2>6, <2>8, <2>10 DEF Continues
  <2>11. QED
    BY <1>2, <2>8, <2>9, <2>10 DEF Answered
<1>7. CASE reply = "TransferCompleteResponse"
  <2>1. Head(x.posts).type = "TransferComplete"
    BY <1>4, <1>7
  <2>2. x.session.state = "ACTIVE"
    BY <1>1, <1>3, <2>1 DEF Announced
  <2>3. z = RemoveFromDequeue(y, TransferReasons)
    BY <1>7 DEF HandleReply, Failures, TransferCompleteReceived
  <2> HIDE DEF z
  <2>4. Good(z) /\ Quiet(z) /\ z.session = y.session
    BY <1>1, <1>3, <2>3, RemoveFromDequeueAlike, AlikeKeeps DEF Alike, Quiet
  <2>5. /\ z.event_queue = {ev \in y.event_queue : ev.reason \notin TransferReasons}
        /\ z.informed = y.informed
        /\ z.changed = y.changed /\ z.changed_sent = y.changed_sent
    BY <1>3, <2>3, RemoveFromDequeueSays
  <2>6. \/ r.exited
        \/ /\ Same(r, z)
           /\ \/ /\ r.session.state = "ACTIVE"
                 /\ Head(r.posts).type \in {"TransferComplete", "Response"}
              \/ r.session.state = "NOMORE" /\ Head(r.posts).type = "Empty"
    BY <1>1, <2>2, <2>4, EndRunActive
  <2> HIDE DEF r
  <2>7. ASSUME ~r.exited
        PROVE  /\ r.event_queue = {ev \in x.event_queue : ev.reason \notin TransferReasons}
               /\ r.informed = x.informed
               /\ r.changed = x.changed /\ r.changed_sent = x.changed_sent
    BY <1>1, <2>5, <2>6, <2>7 DEF Same
  <2>8. ASSUME ~r.exited PROVE Keyed(r) /\ r.event_queue \subseteq r.informed
    BY <1>3, <2>7, <2>8 DEF Keyed, Announced
  <2>9. ASSUME ~r.exited PROVE Settles(x, r)
    <3>1. \A ev \in x.event_queue \ r.event_queue : ev.reason \in TransferReasons
      BY <2>7, <2>9
    <3>2. QED
      BY <2>1, <2>7, <2>9, <3>1 DEF Settles
  <2>10. ASSUME ~r.exited PROVE Continues(x, r)
    BY <2>2, <2>6, <2>8, <2>10 DEF Continues
  <2>11. QED
    BY <1>2, <2>8, <2>9, <2>10 DEF Answered
\* The answer to an RPC.
<1>8. ASSUME NEW a, Good(a), Quiet(a), Same(a, x), a.session = x.session, ~a.exited,
             z = SendResponse(a)
      PROVE  Answered(r, x)
  <2>1. /\ Settled(z) /\ Same(z, a)
        /\ z.session.state = x.session.state /\ Head(z.posts).type = "Response"
    BY <1>1, <1>8, SendResponseSays
  <2> HIDE DEF z
  <2>2. Same(r, z) /\ r.session = z.session /\ r.posts = z.posts
    BY <2>1, EndRunStays
  <2> HIDE DEF r
  <2>3. Same(r, x)
    BY <1>8, <2>1, <2>2 DEF Same
  <2>4. r.session.state = x.session.state /\ Head(r.posts).type = "Response"
    BY <2>1, <2>2
  <2>5. r.event_queue \subseteq r.informed
    BY <1>3, <2>3 DEF Same, Announced
  <2>6. Continues(x, r)
    BY <1>1, <2>4, <2>5 DEF Continues
  <2>7. QED
    BY <1>5, <2>3, <2>6
<1>9. CASE reply \in {"Rpc", "Fault"}
  <2>1. z = SendResponse(y)
    BY <1>9 DEF HandleReply, Failures
  <2>2. Answered(r, x)
    BY <1>1, <1>8, <2>1
  <2>3. QED
    BY <1>2, <2>2
<1>10. CASE reply = "Download"
  <2> DEFINE a == [y EXCEPT !.downloading = TRUE]
  <2>1. z = SendResponse(a)
    BY <1>10 DEF HandleReply, Failures
  <2>2. Alike(a, y)
    BY <1>3 DEF Alike, Memory
  <2>3. Same(a, y) /\ a.exited = y.exited
    BY <1>3 DEF Same, Memory
  <2> HIDE DEF a
  <2>4. Good(a) /\ Quiet(a) /\ a.session = y.session
    BY <1>1, <2>2, AlikeKeeps DEF Alike, Quiet
  <2>5. Same(a, x)
    BY <1>1, <2>3 DEF Same
  <2>6. Answered(r, x)
    BY <1>1, <1>8, <2>1, <2>3, <2>4, <2>5
  <2>7. QED
    BY <1>2, <2>6
<1>11. CASE reply = "Reboot"
  <2> DEFINE a == [y EXCEPT !.run_at_end = TRUE]
  <2>1. z = SendResponse(a)
    BY <1>11 DEF HandleReply, Failures, RebootAtEnd
  <2>2. /\ a.session = y.session
        /\ a.posts = y.posts /\ a.outstanding = y.outstanding
        /\ a.wait_timers = y.wait_timers
        /\ a.start_session_timeout = y.start_session_timeout
    BY <1>3 DEF Memory
  <2>3. Same(a, y) /\ a.exited = y.exited
    BY <1>3 DEF Same, Memory
  <2>4. a \in Memory
    BY <1>3 DEF Memory
  <2> HIDE DEF a
  <2>5. Good(a) /\ Quiet(a)
    BY <1>1, <1>3, <2>2, <2>4 DEF Good, Quiet, HasSession
  <2>6. Same(a, x)
    BY <1>1, <2>3 DEF Same
  <2>7. Answered(r, x)
    BY <1>1, <1>8, <2>1, <2>2, <2>3, <2>5, <2>6
  <2>8. QED
    BY <1>2, <2>7
<1>12. CASE reply = "Empty"
  <2> DEFINE next == StateUpdate(x.session.state, "acs_to_cpe_empty")
             sn == [y.session EXCEPT !.state = next]
  <2>1. next = IF x.session.state = "ACTIVE" THEN "ACTIVE" ELSE "DONE"
    BY <1>1 DEF StateUpdate
  <2>2. z = [y EXCEPT !.session = sn]
    BY <1>1, <1>3, <1>12 DEF HandleReply, Failures, Memory
  <2> HIDE DEF next
  <2>3. /\ sn.state = next /\ sn.has_url
        /\ sn \in [state : SessionStates \cup {"NONE"},
                   ping_received : BOOLEAN, has_url : BOOLEAN]
    BY <1>1, <1>3, <2>1 DEF Memory, SessionStates
  <2> HIDE DEF sn, z
  <2>4a. z \in Memory
    BY <1>3, <2>2, <2>3 DEF Memory
  <2>4b. /\ z.session = sn /\ z.posts = y.posts /\ z.outstanding = y.outstanding
         /\ z.wait_timers = y.wait_timers
         /\ z.start_session_timeout = y.start_session_timeout
         /\ z.run_at_end = y.run_at_end
    BY <1>3, <2>2 DEF Memory
  <2>4c. Same(z, y) /\ z.exited = y.exited
    BY <1>3, <2>2 DEF Memory, Same
  <2>4. Good(z) /\ Quiet(z) /\ HasSession(z)
    BY <1>1, <1>3, <2>1, <2>3, <2>4a, <2>4b DEF Good, Quiet, HasSession
  <2>5. Same(z, x) /\ ~z.exited
    BY <1>1, <2>4c DEF Same
  <2>6. CASE x.session.state = "ACTIVE"
    <3>1. \/ r.exited
          \/ /\ Same(r, z)
             /\ \/ /\ r.session.state = "ACTIVE"
                   /\ Head(r.posts).type \in {"TransferComplete", "Response"}
                \/ r.session.state = "NOMORE" /\ Head(r.posts).type = "Empty"
      BY <2>1, <2>3, <2>4, <2>4b, <2>6, EndRunActive
    <3> HIDE DEF r
    <3>2. ASSUME ~r.exited PROVE Same(r, x) /\ Continues(x, r)
      <4>1. Same(r, x)
        BY <2>5, <3>1, <3>2 DEF Same
      <4>2. r.event_queue \subseteq r.informed
        BY <1>3, <4>1 DEF Same, Announced
      <4>3. QED
        BY <2>6, <3>1, <3>2, <4>1, <4>2 DEF Continues
    <3>3. Answered(r, x)
      BY <1>5, <3>2 DEF Answered
    <3>4. QED
      BY <1>2, <3>3
  <2>7. CASE x.session.state = "NOMORE"
    <3> DEFINE w == HandleSessionEnd(z, reply)
    <3>1. Same(w, z) /\ w.session = z.session
      BY <2>4a, HandleSessionEndSays
    <3>2. Good(w) /\ Quiet(w)
      BY <2>4, <2>4a, HandleSessionEndAlike, AlikeKeeps DEF Alike, Quiet
    <3>3. r = Run(w)
      OBVIOUS
    <3> HIDE DEF w, r
    <3>4. CASE w.exited
      <4>1. r = w
        BY <3>3, <3>4 DEF Run, RunOpen
      <4>2. QED
        BY <1>2, <3>4, <4>1 DEF Answered
    <3>5. CASE ~w.exited
      <4>1. w.session.state = "DONE" /\ w.session.has_url /\ HasSession(w)
        BY <2>1, <2>3, <2>4b, <2>7, <3>1 DEF HasSession
      <4>2. r = Finish(w)
        BY <3>3, <3>5, <4>1 DEF Run, ShouldClose
      <4>3. Same(w, x)
        BY <2>5, <3>1 DEF Same
      <4>4. Keyed(w)
        BY <1>3, <4>3 DEF Same, Keyed
      <4>5. r.exited \/ (Remembers(r, w) /\ Keyed(r) /\ (HasSession(r) => Informs(r)))
        BY <3>2, <3>5, <4>1, <4>2, <4>4, FinishGoes
      <4>6. ASSUME ~r.exited PROVE Settles(x, r)
        BY <4>3, <4>5, <4>6 DEF Same, Remembers, Settles
      <4>7. QED
        BY <1>2, <2>7, <4>5, <4>6 DEF Answered, Continues
    <3>6. QED
      BY <3>4, <3>5
  <2>8. QED
    BY <1>1, <2>6, <2>7
<1>13. CASE reply \in Failures
  <2>1. z = ScheduleRetrySession(y, TRUE)
    BY <1>13 DEF HandleReply, Failures
  <2>2. Settled(z)
    BY <1>1, <1>3, <2>1, ScheduleRetrySessionSettled
  <2>3. /\ ~HasSession(z) /\ z.event_queue = y.event_queue
        /\ z.changed = y.changed /\ z.changed_sent = y.changed_sent
    BY <1>3, <2>1, ScheduleRetrySessionSays
  <2> HIDE DEF z
  <2>4. Same(r, z) /\ r.session = z.session
    BY <2>2, EndRunStays
  <2> HIDE DEF r
  <2>5. /\ ~HasSession(r) /\ r.event_queue = x.event_queue
        /\ r.changed = x.changed /\ r.changed_sent = x.changed_sent
    BY <1>1, <2>3, <2>4 DEF HasSession, Same
  <2>6. Keyed(r) /\ Settles(x, r)
    BY <1>3, <2>5 DEF Keyed, Settles
  <2>7. QED
    BY <1>2, <2>5, <2>6 DEF Answered
<1>14. CASE reply = "garbage"
  <2>1. z = [y EXCEPT !.exited = TRUE]
    BY <1>14 DEF HandleReply, Failures
  <2> HIDE DEF z
  <2>2. z \in Memory /\ z.exited
    BY <1>3, <2>1 DEF Memory
  <2> DEFINE w == HandleSessionEnd(z, reply)
  <2>3. w.exited
    BY <2>2, HandleSessionEndSays
  <2>4. r = Run(w)
    OBVIOUS
  <2> HIDE DEF w, r
  <2>5. r = w
    BY <2>3, <2>4 DEF Run, RunOpen
  <2>6. QED
    BY <1>2, <2>3, <2>5 DEF Answered
<1>15. QED
  BY <1>4, <1>6, <1>7, <1>9, <1>10, <1>11, <1>12, <1>13, <1>14

\* What a step makes of the memory of a running process, but for its answers.
LEMMA StepGoes ==
  ASSUME IInv, Speaks(m), Next, m' # m, Running(m)'
  PROVE  \/ /\ ~m.up
            /\ Speaks(m') /\ (HasSession(m') => Informs(m'))
         \/ Running(m) /\ Goes(m', m)
         \/ /\ Running(m) /\ HasSession(m)
            /\ \E reply \in AllReplies : GotResponse(reply)
            /\ Answered(m', m)
<1>0. /\ m \in Memory /\ Good(m) /\ Settled(m)
      /\ acs_url \in BOOLEAN /\ acs_disabled \in BOOLEAN
  BY DEF IInv, Settled, Good
<1>1. CASE Startup
  <2>1. PICK reboots \in Restored, transfers \in Restored, downloading \in BOOLEAN :
          m' = StartupWith([m EXCEPT !.up = TRUE, !.downloading = downloading],
                           reboots, transfers)
    BY <1>1, Zenon DEF Startup
  <2> DEFINE x == [m EXCEPT !.up = TRUE, !.downloading = downloading]
  <2>2. m = NewProcess /\ ~m.up
    BY <1>1 DEF Startup, IInv
  <2>3. Settled(x)
    <3> DEFINE st(b) == [NewProcess EXCEPT !.up = TRUE, !.downloading = b]
    <3>1. \A b \in BOOLEAN : Settled(st(b))
      BY NewProcessSettled, Zenon
    <3>2. x = st(downloading)
      BY <2>2
    <3> HIDE DEF st, x
    <3>3. QED
      BY <3>1, <3>2
  <2>3a. x.session = m.session /\ m.session = NoSession
    BY <1>0, <2>2 DEF Memory, NewProcess
  <2>4. m' = StartupWith(x, reboots, transfers)
    BY <2>1
  <2> HIDE DEF x
  <2>4a. ~HasSession(x)
    BY <2>3a DEF HasSession, NoSession
  <2>5. QED
    BY <1>0, <2>2, <2>3, <2>4, <2>4a, StartupWithSpeaks DEF Running
<1>2. ASSUME NEW reply \in AllReplies, GotResponse(reply)
      PROVE  Running(m) /\ HasSession(m) /\ Answered(m', m)
  <2>1. Running(m) /\ m.posts # <<>> /\ reply \in Replies(Head(m.posts))
        /\ m' = GotResponseTo(m, reply)
    BY <1>2 DEF GotResponse
  <2>2. ~m.exited
    BY <2>1 DEF Running
  <2>3. HasSession(m)
    BY <1>0, <2>1, <2>2, ReceiveSays
  <2>4. QED
    BY <1>0, <2>1, <2>2, <2>3, GotResponseToAnswered
<1>3. CASE SessionWaitTimer
  <2> DEFINE n == m.wait_timers - 1
             fired == [m EXCEPT !.wait_timers = n, !.start_session_timeout = FALSE]
             sn == NewCwmpSession(acs_url)
             y == [fired EXCEPT !.session = sn]
  <2>1. /\ m.start_session_timeout /\ n = 0 /\ ~HasSession(m) /\ Quiet(m)
        /\ Running(m) /\ ~m.exited
    BY <1>0, <1>3 DEF SessionWaitTimer, Settled, Good, Waits, Running
  <2>2. /\ sn.state = "CONNECT"
        /\ sn \in [state : SessionStates \cup {"NONE"},
                   ping_received : BOOLEAN, has_url : BOOLEAN]
    BY <1>0 DEF NewCwmpSession, SessionStates
  <2>3. fired.session = m.session
    BY <1>0 DEF Memory
  <2>4. m' = Run(y)
    BY <1>3, <2>1, <2>3 DEF SessionWaitTimer, HasSession
  <2> HIDE DEF n, sn
  <2>5a. y \in Memory
    <3>1. n \in Nat
      BY <2>1
    <3>2. QED
      BY <1>0, <2>2, <3>1 DEF Memory
  <2>5b. /\ y.session = sn /\ y.exited = m.exited
         /\ y.posts = m.posts /\ y.outstanding = m.outstanding
         /\ y.wait_timers = n /\ ~y.start_session_timeout
         /\ y.run_at_end = m.run_at_end
    BY <1>0 DEF Memory
  <2>5c. Same(y, m)
    BY <1>0 DEF Memory, Same
  <2> HIDE DEF fired, y
  <2>6. Good(y) /\ Quiet(y)
    BY <1>0, <2>1, <2>2, <2>5a, <2>5b DEF Good, Quiet, HasSession
  <2>7. m' = RunOpen(y)
    BY <2>2, <2>4, <2>5b DEF Run, ShouldClose
  <2>8. /\ ~m'.exited
        /\ HasSession(m') => Informs(m')
        /\ m'.event_queue = m.event_queue
        /\ m'.changed \cup m'.changed_sent = m.changed \cup m.changed_sent
    BY <2>1, <2>2, <2>5b, <2>5c, <2>6, <2>7, RunNewSession DEF Same
  <2>9. Keyed(m') /\ Remembers(m', m)
    BY <2>1, <2>8 DEF Speaks, Keyed, Remembers
  <2>10. Goes(m', m)
    BY <2>1, <2>8, <2>9 DEF Goes
  <2>11. QED
    BY <2>1, <2>10
<1>4. CASE PingReceived
  BY <1>0, <1>4, NewPingSessionGoes DEF PingReceived
\* A callback that writes what neither invariant looks at, then calls a method.
<1>5. ASSUME NEW y, Alike(y, m), Same(y, m), y.exited = m.exited
      PROVE  /\ Settled(y) /\ Speaks(y) /\ Goes(y, m)
             /\ \A r : Goes(r, y) => Goes(r, m)
  <2>1. Settled(y)
    BY <1>0, <1>5, AlikeKeeps
  <2>2. Goes(y, m)
    BY <1>5, StaysGoes DEF Alike
  <2>3. Speaks(y)
    BY <2>2, GoesSpeaks
  <2>4. ASSUME NEW r, Goes(r, y) PROVE Goes(r, m)
    <3>1. /\ y.session = m.session /\ y.posts = m.posts
          /\ HasSession(y) <=> HasSession(m)
      BY <1>5 DEF Alike, HasSession
    <3>2. Remembers(r, y) => Remembers(r, m)
      BY <1>5 DEF Same, Remembers
    <3>3. QED
      BY <1>5, <2>4, <3>1, <3>2 DEF Goes, Same
  <2>5. QED
    BY <2>1, <2>2, <2>3, <2>4
<1>6. CASE NewTimeoutPingSession
  <2> DEFINE n == m.ping_timers - 1
             fired == [m EXCEPT !.ping_timers = n, !.ping_timeout_pending = FALSE]
  <2>1. n \in Nat
    BY <1>0, <1>6 DEF NewTimeoutPingSession, Memory
  <2>2. m' = IF m.ping_timeout_pending THEN NewPingSession(fired) ELSE fired
    BY <1>6 DEF NewTimeoutPingSession
  <2> HIDE DEF n
  <2>3. Alike(fired, m)
    BY <1>0, <2>1 DEF Alike, Memory
  <2>3a. Same(fired, m) /\ fired.exited = m.exited
    BY <1>0 DEF Same, Memory
  <2> HIDE DEF fired
  <2>4. Settled(fired) /\ Speaks(fired) /\ Goes(fired, m)
        /\ \A r : Goes(r, fired) => Goes(r, m)
    BY <1>5, <2>3, <2>3a
  <2>5. Goes(m', m)
    BY <1>0, <2>2, <2>4, NewPingSessionGoes
  <2>6. QED
    BY <1>6, <2>5 DEF NewTimeoutPingSession
<1>7. CASE RateLimitExpires
  <2>1. m.up
    BY <1>7 DEF RateLimitExpires, NewProcess, IInv
  <2>2. Alike(m', m)
    BY <1>0, <1>7 DEF RateLimitExpires, Alike, Memory
  <2>3. Same(m', m) /\ m'.exited = m.exited
    BY <1>0, <1>7 DEF RateLimitExpires, Same, Memory
  <2>4. QED
    BY <1>5, <2>1, <2>2, <2>3 DEF Running
<1>8. CASE NewPeriodicSession
  <2>1. Running(m) /\ (m' = m \/ m' = NewSession(m, Periodic))
    BY <1>8 DEF NewPeriodicSession
  <2>2. QED
    BY <1>0, <2>1, EventTypes, EventReasons, NewSessionGoes
<1>9. CASE NewWakeupSession
  <2>1. Running(m) /\ (m' = m \/ m' = NewSession(m, ConnectionRequest))
    BY <1>9 DEF NewWakeupSession
  <2>2. QED
    BY <1>0, <2>1, EventTypes, NewSessionGoes
<1>10. ASSUME NEW p \in Params, NEW active \in BOOLEAN, ParameterChanged(p, active)
       PROVE  Running(m) /\ Goes(m', m)
  <2> DEFINE more == m.changed \cup {p}
             set == [m EXCEPT !.changed = more]
  <2>1. more \in SUBSET Params /\ m.changed \subseteq more
    BY <1>0 DEF Memory
  <2>2. m' = (IF active THEN NewValueChangeSession(set) ELSE set) /\ Running(m)
    BY <1>10 DEF ParameterChanged
  <2> HIDE DEF more
  <2>3. Alike(set, m)
    BY <1>0, <2>1 DEF Alike, Memory
  <2>4. /\ set.event_queue = m.event_queue /\ set.informed = m.informed
        /\ set.changed = more /\ set.changed_sent = m.changed_sent
        /\ set.exited = m.exited
    BY <1>0 DEF Memory
  <2> HIDE DEF set
  <2>5. Settled(set) /\ set.session = m.session /\ set.posts = m.posts
    BY <1>0, <2>3, AlikeKeeps DEF Alike
  <2>6. HasSession(set) <=> HasSession(m)
    BY <2>5 DEF HasSession
  <2>7. Speaks(set)
    <3>1. Keyed(m) => Keyed(set)
      BY <2>4 DEF Keyed
    <3>2. Announced(m) => Announced(set)
      BY <2>4, <2>5 DEF Announced
    <3>3. QED
      BY <2>4, <2>6, <3>1, <3>2 DEF Speaks
  <2>8. Goes(m', set)
    <3>1. Goes(set, set)
      BY <2>7, StaysGoes DEF Same
    <3>2. QED
      BY <1>0, <2>2, <2>5, <2>7, <3>1, NewValueChangeSessionGoes
  <2>9. Remembers(m', set) => Remembers(m', m)
    BY <2>1, <2>4 DEF Remembers
  <2>10. QED
    BY <2>2, <2>4, <2>5, <2>6, <2>8, <2>9 DEF Goes
<1>11. ASSUME NEW key \in Keys, SendTransferComplete(key)
       PROVE  Running(m) /\ Goes(m', m)
  <2> DEFINE sent == [m EXCEPT !.downloading = FALSE]
  <2>1. Alike(sent, m)
    BY <1>0 DEF Alike, Memory
  <2>2a. Same(sent, m)
    BY <1>0 DEF Same, Memory
  <2>2. Same(sent, m) /\ sent.exited = m.exited
    <3>1. sent.exited = m.exited
      BY <1>0 DEF Memory
    <3>2. QED
      BY <2>2a, <3>1
  <2>3. m' = QueueTransferComplete(sent, key) /\ Running(m)
    BY <1>11 DEF SendTransferComplete
  <2> HIDE DEF sent
  <2>4. Settled(sent) /\ Speaks(sent) /\ \A r : Goes(r, sent) => Goes(r, m)
    BY <1>5, <2>1, <2>2
  <2>5. Goes(m', sent)
    BY <2>3, <2>4, QueueTransferCompleteGoes
  <2>6. QED
    BY <2>3, <2>4, <2>5
<1>12. ~Respawn /\ ~Crash
  BY DEF Respawn, Crash, Running, NewProcess
<1>13. ~AcsDisabledChanges /\ ~FindUrl /\ ~LoseUrl
  BY DEF AcsDisabledChanges, FindUrl, LoseUrl
<1>14. QED
  BY <1>1, <1>2, <1>3, <1>4, <1>6, <1>7, <1>8, <1>9, <1>10, <1>11, <1>12, <1>13 DEF Next

SInv == IInv /\ Speaks(m)

\* Both relations lead from a memory that speaks to one that speaks.
LEMMA ContinuesAnnounces ==
  ASSUME NEW x, NEW r, Continues(x, r)
  PROVE  Announced(r)
<1>1. Informs(r) => Announced(r)
  BY DEF Informs, Announced
<1>2. QED
  BY <1>1 DEF Continues, Announced

LEMMA NextSInv == SInv /\ [Next]_vars => SInv'
<1> SUFFICES ASSUME SInv, [Next]_vars PROVE SInv'
  OBVIOUS
<1>1. IInv'
  BY NextIInv DEF SInv
<1>2. Speaks(m')
  <2>1. CASE m' = m
    BY <2>1 DEF SInv
  <2>2. CASE m'.exited
    BY <2>2 DEF Speaks
  <2>3. CASE ~m'.up
    <3>1. m' = NewProcess
      BY <1>1, <2>3 DEF IInv
    <3>2. Keyed(NewProcess) /\ ~HasSession(NewProcess)
      BY DEF Keyed, HasSession, NewProcess, NoSession
    <3>3. QED
      BY <3>1, <3>2 DEF Speaks
  <2>4. CASE m' # m /\ ~m'.exited /\ m'.up
    <3>1. Next /\ Running(m)'
      BY <2>4 DEF vars, Running
    <3>2. \/ Speaks(m')
          \/ Goes(m', m)
          \/ Answered(m', m)
      BY <2>4, <3>1, StepGoes DEF SInv
    <3>3. Goes(m', m) => Speaks(m')
      BY GoesSpeaks DEF SInv
    <3>4. Answered(m', m) => Speaks(m')
      BY <2>4, ContinuesAnnounces DEF Answered, Speaks
    <3>5. QED
      BY <3>2, <3>3, <3>4
  <2>5. QED
    BY <2>1, <2>2, <2>3, <2>4
<1>3. QED
  BY <1>1, <1>2 DEF SInv

LEMMA SInvariance == Spec => []SInv
<1>1. Init => SInv
  <2>1. Keyed(NewProcess) /\ ~HasSession(NewProcess)
    BY DEF Keyed, HasSession, NewProcess, NoSession
  <2>2. QED
    BY <2>1, InitIInv DEF Init, SInv, Speaks
<1>2. QED
  BY <1>1, NextSInv, PTL DEF Spec

-----------------------------------------------------------------------------
(* Theorems on what is said *)

\* No event joins the queue during a session, whatever callbacks run in it:
\* InformResponseReceived and TransferCompleteReceived, which remove by reason and
\* look at no message, remove only what this session's Inform carried.
THEOREM EventsAreAnnounced == Spec => []SessionEventsAnnounced
<1>1. SInv => SessionEventsAnnounced
  BY DEF SInv, Speaks, Announced, SessionEventsAnnounced, Running
<1>2. QED
  BY <1>1, SInvariance, PTL

\* Goes and Answered, read as the two action properties.
LEMMA StepAcknowledges ==
  SInv /\ [Next]_vars => [EventsAcknowledged /\ ChangesAcknowledged]_m
<1> SUFFICES ASSUME SInv, Next, m' # m PROVE EventsAcknowledged /\ ChangesAcknowledged
  BY DEF vars
<1>1. CASE ~Running(m)'
  BY <1>1 DEF EventsAcknowledged, EventSettled, ChangesAcknowledged
<1>2. CASE Running(m)' /\ ~m.up
  <2>1. m = NewProcess
    BY <1>2 DEF SInv, IInv
  <2>2. m.event_queue = {} /\ m.changed = {} /\ m.changed_sent = {}
    BY <2>1 DEF NewProcess
  <2>3. QED
    BY <2>2 DEF EventsAcknowledged, ChangesAcknowledged
<1>3. CASE Running(m)' /\ m.up
  <2>1. (Running(m) /\ Goes(m', m)) \/ (Running(m) /\ HasSession(m) /\ Answered(m', m))
    BY <1>3, StepGoes DEF SInv
  <2>2. ~m'.exited
    BY <1>3 DEF Running
  <2>3. CASE Goes(m', m)
    <3>1. Remembers(m', m)
      BY <2>2, <2>3 DEF Goes
    <3>2. EventsAcknowledged
      BY <3>1 DEF Remembers, EventsAcknowledged, EventSettled
    <3>3. ChangesAcknowledged
      BY <3>1 DEF Remembers, ChangesAcknowledged
    <3>4. QED
      BY <3>2, <3>3
  <2>4. CASE Running(m) /\ HasSession(m) /\ Answered(m', m)
    <3>1. Settles(m, m') /\ Announced(m) /\ m.posts # <<>>
      <4>1. Settles(m, m') /\ ~m.exited
        BY <2>2, <2>4 DEF Answered, Running
      <4>2. Announced(m) /\ Posted(m)
        BY <2>4, <4>1 DEF SInv, Speaks, IInv, Settled, Waits
      <4>3. m.posts # <<>>
        BY <4>2 DEF Posted
      <4>4. QED
        BY <4>1, <4>2, <4>3
    <3>2. EventsAcknowledged
      BY <3>1 DEF Settles, Announced, EventsAcknowledged, EventSettled, Waiting
    <3>3. ChangesAcknowledged
      BY <3>1 DEF Settles, Announced, ChangesAcknowledged, Waiting
    <3>4. QED
      BY <3>2, <3>3
  <2>5. QED
    BY <2>1, <2>3, <2>4
<1>4. QED
  BY <1>1, <1>2, <1>3

\* Nothing the ACS has to know is forgotten before it said that it knows.
THEOREM NothingForgotten == Spec => ForgottenOnlyWhenAcknowledged
BY SInvariance, StepAcknowledges, PTL DEF Spec, ForgottenOnlyWhenAcknowledged

-----------------------------------------------------------------------------
(* The exchange that the state machine implements *)

Phase(x) == IF ~Running(x) \/ ~HasSession(x) THEN "idle"
            ELSE IF x.session.state = "NOMORE" THEN "drained" ELSE "open"
Wire(x)  == IF ~Running(x) \/ x.posts = <<>> THEN "none" ELSE Head(x.posts).type

\* Where the exchange is while a session is open.
LEMMA PhaseAndWire ==
  ASSUME NEW x, Settled(x)
  PROVE  /\ Running(x) /\ HasSession(x) =>
              /\ Phase(x) = (IF x.session.state = "NOMORE" THEN "drained" ELSE "open")
              /\ Wire(x) = Head(x.posts).type
         /\ ~Running(x) \/ ~HasSession(x) => Phase(x) = "idle" /\ Wire(x) = "none"
<1>1. ASSUME Running(x), HasSession(x) PROVE x.posts # <<>>
  BY <1>1, EmptySeq DEF Settled, Running, Waits, Posted
<1>2. ASSUME Running(x), ~HasSession(x) PROVE x.posts = <<>>
  BY <1>2 DEF Settled, Running, Waits, Quiet
<1>3. QED
  BY <1>1, <1>2 DEF Phase, Wire

LEMMA StepOfExchange ==
  ASSUME SInv, SInv', [Next]_vars
  PROVE  \/ Phase(m') = Phase(m) /\ Wire(m') = Wire(m)
         \/ Phase(m') = "idle" /\ Wire(m') = "none"
         \/ Phase(m) \in {"idle", "drained"} /\ Phase(m') = "open" /\ Wire(m') = "Inform"
         \/ Phase(m) = "open" /\ Phase(m') = "open"
            /\ Wire(m') \in {"TransferComplete", "Response"}
         \/ Phase(m) = "open" /\ Phase(m') = "drained" /\ Wire(m') = "Empty"
         \/ Phase(m) = "drained" /\ Phase(m') = "drained" /\ Wire(m') = "Response"
<1>1. Settled(m) /\ Settled(m')
  BY DEF SInv, IInv
<1>2. CASE m' = m
  BY <1>2
<1>3. CASE ~Running(m') \/ ~HasSession(m')
  BY <1>1, <1>3, PhaseAndWire
<1>4. CASE m' # m /\ Running(m') /\ HasSession(m')
  <2>1. /\ Phase(m') = (IF m'.session.state = "NOMORE" THEN "drained" ELSE "open")
        /\ Wire(m') = Head(m'.posts).type
    BY <1>1, <1>4, PhaseAndWire
  <2>2. Informs(m') => Phase(m') = "open" /\ Wire(m') = "Inform"
    BY <2>1 DEF Informs
  <2>3. ~Running(m) \/ ~HasSession(m) => Phase(m) = "idle"
    BY <1>1, PhaseAndWire
  <2>4. Running(m) /\ HasSession(m) =>
          /\ Phase(m) = (IF m.session.state = "NOMORE" THEN "drained" ELSE "open")
          /\ Wire(m) = Head(m.posts).type
    BY <1>1, PhaseAndWire
  <2>5. Next /\ ~m'.exited
    BY <1>4 DEF vars, Running
  <2>6. \/ ~m.up /\ Informs(m')
        \/ Running(m) /\ Goes(m', m)
        \/ Running(m) /\ HasSession(m) /\ Answered(m', m)
    BY <1>4, <2>5, StepGoes DEF SInv
  <2>7. CASE ~m.up /\ Informs(m')
    BY <2>2, <2>3, <2>7 DEF Running
  <2>8. CASE Running(m) /\ Goes(m', m)
    <3>1. CASE HasSession(m)
      <4>1. m'.session.state = m.session.state /\ m'.posts = m.posts
        BY <2>5, <2>8, <3>1 DEF Goes
      <4>2. QED
        BY <2>1, <2>4, <2>8, <3>1, <4>1
    <3>2. CASE ~HasSession(m)
      <4>1. Informs(m')
        BY <1>4, <2>5, <2>8, <3>2 DEF Goes
      <4>2. QED
        BY <2>2, <2>3, <3>2, <4>1
    <3>3. QED
      BY <3>1, <3>2
  <2>9. CASE Running(m) /\ HasSession(m) /\ Answered(m', m)
    <3>1. Continues(m, m')
      BY <1>4, <2>5, <2>9 DEF Answered
    <3>2. QED
      BY <2>1, <2>2, <2>4, <2>9, <3>1 DEF Continues
  <2>10. QED
    BY <2>6, <2>7, <2>8, <2>9
<1>5. QED
  BY <1>2, <1>3, <1>4

\* CPEStateMachine implements the CWMP exchange: an Inform first and once, requests
\* only before the empty message, and no session left half way but by failure.
THEOREM Refinement == Spec => ExchangeSpec
<1>1. Init => Exchange!Init
  BY DEF Init, Exchange!Init, Running, NewProcess
<1>2. SInv /\ SInv' /\ [Next]_vars =>
        [Exchange!Next]_<<IF ~Running(m) \/ ~HasSession(m) THEN "idle"
                          ELSE IF m.session.state = "NOMORE" THEN "drained" ELSE "open",
                          IF ~Running(m) \/ m.posts = <<>> THEN "none" ELSE Head(m.posts).type>>
  BY StepOfExchange
     DEF Exchange!Next, Exchange!Begin, Exchange!Talk, Exchange!Drain, Exchange!Answer,
         Exchange!End, Phase, Wire
<1>3. QED
  BY <1>1, <1>2, SInvariance, PTL DEF Spec, ExchangeSpec, Exchange!Spec
-----------------------------------------------------------------------------
(* Periodic events                                                         *)
(*                                                                         *)
(* While a periodic event is queued, NewPeriodicSession starts no other    *)
(* session: one must be under way, or a timer that starts one.  A session  *)
(* that does not fail drops the event with the answer to its Inform, so    *)
(* the event can outlive it only if the ACS answered with a Fault; and a   *)
(* disabled ACS loses the timer.                                           *)

\* There is a session, or a timer that will start one.
Starts(x) == HasSession(x) \/ x.start_session_timeout

\* What x has of a periodic event is on its way.
Awaits(x) == x.exited \/ (Periodic \in x.event_queue => Starts(x))

\* An open session that still has the event waits for the answer to its Inform.
Tells(x) ==
  x.exited \/ (HasSession(x) /\ Periodic \in x.event_queue => Head(x.posts).type = "Inform")

\* r has a periodic event only if x has.
Lacks(r, x) == Periodic \in r.event_queue => Periodic \in x.event_queue

LEMMA OtherEvents ==
  /\ Periodic # Bootstrap /\ Periodic # ValueChange
  /\ Periodic # ConnectionRequest /\ Periodic # TransferDone
  /\ \A key : Periodic # MDownload(key) /\ Periodic # MReboot(key)
  /\ Periodic.reason \in InformReasons
<1>1. Periodic.reason = "2 PERIODIC"
  BY Zenon DEF Periodic, Event
<1>2. /\ Bootstrap.reason = "0 BOOTSTRAP" /\ ValueChange.reason = "4 VALUE CHANGE"
      /\ ConnectionRequest.reason = "6 CONNECTION REQUEST"
      /\ TransferDone.reason = "7 TRANSFER COMPLETE"
  BY Zenon DEF Bootstrap, ValueChange, ConnectionRequest, TransferDone, Event
<1>3. \A key : MDownload(key).reason = "M Download" /\ MReboot(key).reason = "M Reboot"
  BY Zenon DEF MDownload, MReboot, Event
<1>4. Periodic # Bootstrap
  BY <1>1, <1>2, Zenon
<1>5. Periodic # ValueChange
  BY <1>1, <1>2, Zenon
<1>6. Periodic # ConnectionRequest
  BY <1>1, <1>2, Zenon
<1>7. Periodic # TransferDone
  BY <1>1, <1>2, Zenon
<1>8. \A key : Periodic # MDownload(key)
  BY <1>1, <1>3, Zenon
<1>9. \A key : Periodic # MReboot(key)
  BY <1>1, <1>3, Zenon
<1>10. Periodic.reason \in InformReasons
  BY <1>1, Zenon DEF InformReasons
<1> QED BY <1>4, <1>5, <1>6, <1>7, <1>8, <1>9, <1>10, Zenon

LEMMA ScheduleRetrySessionStarts ==
  ASSUME NEW x \in Memory, NEW counted \in BOOLEAN
  PROVE  ScheduleRetrySession(x, counted).start_session_timeout
<1> DEFINE c == IF HasSession(x) THEN CloseSession(x) ELSE x
           n == IF counted THEN c.retry_count + 1 ELSE c.retry_count
           w == c.wait_timers + 1
           r == ScheduleRetrySession(x, counted)
<1>1. c \in Memory
  BY CloseSessionGood
<1>2. r = [c EXCEPT !.retry_count = n, !.start_session_timeout = TRUE, !.wait_timers = w]
  BY DEF ScheduleRetrySession
<1> HIDE DEF c, n, w, r
<1>3. r.start_session_timeout = TRUE
  BY <1>1, <1>2 DEF Memory
<1> QED BY <1>3 DEF r

\* The first Run of a session posts its Inform, or leaves the timer that its lack
\* of a URL calls for.
LEMMA RunNewSessionStarts ==
  ASSUME NEW y, Good(y), Quiet(y), ~y.exited, y.session.state = "CONNECT"
  PROVE  LET r == RunOpen(y) IN Starts(r) /\ r.event_queue = y.event_queue
<1>1. y \in Memory /\ HasSession(y)
  BY DEF Good, HasSession
<1>2. CASE ~y.session.has_url
  <2> DEFINE r == ScheduleRetrySession(y, FALSE)
  <2>1. RunOpen(y) = r
    BY <1>1, <1>2 DEF RunOpen
  <2>2. FALSE \in BOOLEAN
    OBVIOUS
  <2>3. r.start_session_timeout
    BY <1>1, <2>2, ScheduleRetrySessionStarts
  <2>4. r.event_queue = y.event_queue
    BY <1>1, <2>2, ScheduleRetrySessionSays
  <2> HIDE DEF r
  <2> QED BY <2>1, <2>3, <2>4 DEF Starts
<1>3. CASE y.session.has_url
  <2> DEFINE r == PostInform(y)
  <2>1. RunOpen(y) = r
    BY <1>1, <1>3 DEF RunOpen, PostNext, InformRequired, Quiet
  <2>2. Informs(r) /\ r.event_queue = y.event_queue
    BY <1>1, PostInformSays
  <2> HIDE DEF r
  <2> QED BY <2>1, <2>2 DEF Starts, Informs, HasSession
<1> QED BY <1>2, <1>3

\* _NewSession leaves a session, or the timer that its lack of a URL calls for.
LEMMA NewSessionStarts ==
  ASSUME NEW x, NEW ev \in Events, Settled(x), ~acs_disabled, acs_url \in BOOLEAN
  PROVE  LET r == NewSession(x, ev) IN
         /\ r.exited \/ Starts(r)
         /\ r.event_queue \subseteq x.event_queue \cup {ev}
<1> DEFINE c == CancelSessionRetries(x)
           d == AddEvent(c, ev)
           sn == NewCwmpSession(acs_url)
           y == [d EXCEPT !.session = sn]
<1>1. x \in Memory /\ Good(x)
  BY DEF Settled, Good
<1>2. /\ Good(c) /\ c \in Memory
      /\ c.session = x.session /\ c.posts = x.posts /\ c.outstanding = x.outstanding
      /\ c.exited = x.exited /\ c.event_queue = x.event_queue
      /\ ~c.start_session_timeout
  BY <1>1, CancelSessionRetriesSettled DEF Good
<1>3. CASE HasSession(x)
  <2>1. NewSession(x, ev) = x
    BY <1>3 DEF NewSession
  <2> QED BY <1>3, <2>1 DEF Starts
<1>4. CASE ~HasSession(x)
  <2>1. /\ c.exited => d.exited
        /\ d.session = c.session
        /\ d.posts = c.posts /\ d.outstanding = c.outstanding
        /\ d.event_queue = c.event_queue \cup {ev}
    BY <1>2, WithEventsSays DEF AddEvent
  <2>2. Good(d)
    BY <1>2, AddEventAlike, AlikeKeeps
  <2>3. /\ sn.state = "CONNECT"
        /\ sn \in [state : SessionStates \cup {"NONE"},
                   ping_received : BOOLEAN, has_url : BOOLEAN]
    BY DEF NewCwmpSession, SessionStates
  <2>4. ~d.start_session_timeout
    BY <1>2, AddEventAlike DEF Alike
  <2>5. NewSession(x, ev) = RunOpen(y)
    BY <1>4 DEF NewSession
  <2> HIDE DEF c, d, sn
  <2>6. /\ y \in Memory
        /\ y.session = sn /\ y.exited = d.exited
        /\ y.posts = d.posts /\ y.outstanding = d.outstanding
        /\ y.event_queue = d.event_queue
        /\ y.wait_timers = d.wait_timers
        /\ y.start_session_timeout = d.start_session_timeout
        /\ y.run_at_end = d.run_at_end
    BY <2>2, <2>3 DEF Good, Memory
  <2> HIDE DEF y
  <2>7. Good(y) /\ HasSession(y)
    BY <2>2, <2>3, <2>4, <2>6 DEF Good, HasSession
  <2>8. y.event_queue = x.event_queue \cup {ev}
    BY <1>2, <2>1, <2>6
  <2>9. CASE y.exited
    <3>1. RunOpen(y) = y
      BY <2>9 DEF RunOpen
    <3> QED BY <2>5, <2>8, <2>9, <3>1
  <2>10. CASE ~y.exited
    <3>1. Quiet(x)
      BY <1>2, <1>4, <2>1, <2>6, <2>10 DEF Settled, Waits
    <3>2. Quiet(y)
      BY <1>2, <2>1, <2>6, <3>1 DEF Quiet
    <3> QED BY <2>3, <2>5, <2>6, <2>7, <2>8, <2>10, <3>2, RunNewSessionStarts
  <2> QED BY <2>9, <2>10
<1> QED BY <1>3, <1>4

LEMMA NewValueChangeSessionAwaits ==
  ASSUME NEW x, Settled(x), ~acs_disabled, acs_url \in BOOLEAN
  PROVE  LET r == NewValueChangeSession(x) IN (Awaits(x) => Awaits(r)) /\ Lacks(r, x)
<1> DEFINE r == NewSession(x, ValueChange)
<1>1. (r.exited \/ Starts(r)) /\ r.event_queue \subseteq x.event_queue \cup {ValueChange}
  BY EventTypes, NewSessionStarts
<1> HIDE DEF r
<1>2. Awaits(r) /\ Lacks(r, x)
  BY <1>1, OtherEvents DEF Awaits, Lacks
<1>3. NewValueChangeSession(x) \in {x, r}
  BY DEF NewValueChangeSession, r
<1> QED BY <1>2, <1>3 DEF Lacks

LEMMA NewPingSessionAwaits ==
  ASSUME NEW x, Settled(x), ~acs_disabled, acs_url \in BOOLEAN
  PROVE  LET r == NewPingSession(x) IN (Awaits(x) => Awaits(r)) /\ Lacks(r, x)
<1>1. x \in Memory /\ Good(x)
  BY DEF Settled, Good
<1>2. CASE HasSession(x)
  <2> DEFINE sn == [x.session EXCEPT !.ping_received = TRUE]
             r == [x EXCEPT !.session = sn]
  <2>1. sn.state = x.session.state
    BY <1>1 DEF Memory
  <2>2. NewPingSession(x) = r
    BY <1>1, <1>2 DEF NewPingSession, Memory
  <2> HIDE DEF sn
  <2>3. r.session = sn /\ r.event_queue = x.event_queue
    BY <1>1 DEF Memory
  <2> HIDE DEF r
  <2>4. HasSession(r)
    BY <1>2, <2>1, <2>3 DEF HasSession
  <2> QED BY <2>2, <2>3, <2>4 DEF Awaits, Starts, Lacks
<1>3. CASE ~HasSession(x) /\ ~x.ping_recent
  <2> DEFINE y == [x EXCEPT !.ping_timeout_pending = FALSE, !.ping_recent = TRUE]
             reasons == {"6 CONNECTION REQUEST"}
             z == RemoveFromDequeue(y, reasons)
             r == NewSession(z, ConnectionRequest)
  <2>1. Alike(y, x) /\ y.event_queue = x.event_queue
    BY <1>1 DEF Alike, Memory
  <2>2. Settled(y) /\ Good(y)
    BY <1>1, <2>1, AlikeKeeps
  <2>3. NewPingSession(x) = r
    BY <1>3 DEF NewPingSession
  <2> HIDE DEF y, reasons
  <2>4. Settled(z)
    BY <2>2, RemoveFromDequeueAlike, AlikeKeeps DEF Good
  <2>5. z.event_queue \subseteq x.event_queue
    BY <2>1, <2>2, RemoveFromDequeueSays DEF Good
  <2> HIDE DEF z
  <2>6. (r.exited \/ Starts(r)) /\ r.event_queue \subseteq z.event_queue \cup {ConnectionRequest}
    BY <2>4, EventTypes, NewSessionStarts
  <2> HIDE DEF r
  <2> QED BY <2>3, <2>5, <2>6, OtherEvents DEF Awaits, Lacks
<1>4. CASE ~HasSession(x) /\ x.ping_recent /\ ~x.ping_timeout_pending
  <2> DEFINE n == x.ping_timers + 1
             r == [x EXCEPT !.ping_timeout_pending = TRUE, !.ping_timers = n]
  <2>1. NewPingSession(x) = r
    BY <1>1, <1>4 DEF NewPingSession, Memory
  <2> HIDE DEF n
  <2>2. /\ r.event_queue = x.event_queue /\ r.session = x.session /\ r.exited = x.exited
        /\ r.start_session_timeout = x.start_session_timeout
    BY <1>1 DEF Memory
  <2> HIDE DEF r
  <2> QED BY <2>1, <2>2 DEF Awaits, Starts, HasSession, Lacks
<1>5. CASE ~HasSession(x) /\ x.ping_recent /\ x.ping_timeout_pending
  BY <1>5 DEF NewPingSession, Lacks
<1> QED BY <1>2, <1>3, <1>4, <1>5

\* A session that ends queues no periodic event.
LEMMA FinishLacks ==
  ASSUME NEW x, Good(x), Quiet(x), HasSession(x), ~acs_disabled, acs_url \in BOOLEAN
  PROVE  Lacks(Finish(x), x)
<1> DEFINE d == CloseSession(x)
           c == [d EXCEPT !.outstanding = None, !.retry_count = 0]
           r == Finish(x)
<1>1. /\ d \in Memory
      /\ ~HasSession(d) /\ ~d.run_at_end
      /\ d.exited = x.exited /\ d.posts = <<>>
      /\ d.wait_timers = 0 /\ ~d.start_session_timeout
      /\ d.event_queue = x.event_queue
  BY CloseSessionGood, CloseSessionSays DEF Good, Quiet
<1>2. r = IF c.changed # {} THEN NewValueChangeSession(c)
          ELSE IF x.session.ping_received THEN NewPingSession(c)
          ELSE c
  BY DEF Finish
<1> HIDE DEF d
<1>3. /\ c \in Memory
      /\ c.session = d.session /\ ~c.run_at_end
      /\ c.posts = <<>> /\ c.outstanding = None
      /\ c.wait_timers = 0 /\ ~c.start_session_timeout
      /\ c.event_queue = d.event_queue
  BY <1>1 DEF Memory
<1> HIDE DEF c, r
<1>4. Settled(c)
  BY <1>1, <1>3 DEF Settled, Good, Waits, Quiet, HasSession
<1>5. Lacks(r, c)
  BY <1>2, <1>4, NewValueChangeSessionAwaits, NewPingSessionAwaits DEF Lacks
<1> QED BY <1>1, <1>3, <1>5 DEF Lacks, r

LEMMA RunLacks ==
  ASSUME NEW x, Ready(x), ~acs_disabled, acs_url \in BOOLEAN
  PROVE  Lacks(Run(x), x)
<1>1. Good(x) /\ x \in Memory
  BY DEF Ready, Good
<1>2. CASE x.exited \/ ~HasSession(x)
  BY <1>2 DEF Run, RunOpen, Lacks
<1>3. CASE ~x.exited /\ Posted(x)
  <2>1. Settled(x)
    BY <1>1, <1>3 DEF Posted, Settled, Waits, HasSession
  <2> QED BY <2>1, RunStays DEF Lacks
<1>4. CASE ~x.exited /\ HasSession(x) /\ Quiet(x) /\ x.session.state # "ONHOLD"
  <2>1. CASE ~x.session.has_url
    <3>1. Run(x) = ScheduleRetrySession(x, FALSE)
      BY <1>4, <2>1 DEF Run, RunOpen
    <3> QED BY <1>1, <3>1, ScheduleRetrySessionSays DEF Lacks
  <2>2. CASE x.session.has_url /\ x.session.state = "DONE"
    <3>1. Run(x) = Finish(x)
      BY <1>4, <2>2 DEF Run, ShouldClose
    <3> QED BY <1>1, <1>4, <3>1, FinishLacks
  <2>3. CASE x.session.has_url /\ x.session.state # "DONE"
    <3>1. Run(x) = PostNext(x)
      BY <1>4, <2>3 DEF Run, RunOpen, ShouldClose, Quiet
    <3>2. x.session.state \in {"CONNECT", "ACTIVE", "NOMORE"}
      BY <1>1, <1>4, <2>3 DEF Memory, SessionStates, HasSession
    <3>3. CASE x.session.state = "CONNECT"
      <4>1. PostNext(x) = PostInform(x)
        BY <3>3 DEF PostNext, InformRequired
      <4> QED BY <1>1, <1>4, <3>1, <3>3, <4>1, PostInformSays DEF Lacks
    <3>4. CASE x.session.state \in {"ACTIVE", "NOMORE"}
      BY <1>1, <1>4, <3>1, <3>4, PostNextSays DEF Lacks, Same
    <3> QED BY <3>2, <3>3, <3>4
  <2> QED BY <2>1, <2>2, <2>3
<1> QED BY <1>2, <1>3, <1>4 DEF Ready, Waits

\* What the answer to a POST leaves of the event before Run goes on: only the answer
\* to the Inform, a failure and a reply that ends the process come while the event is
\* queued.
LEMMA HandleReplyLacks ==
  ASSUME NEW y, NEW msg, NEW reply \in Replies(msg), ~AcsMayFault, acs_url \in BOOLEAN,
         Good(y), Quiet(y), ~y.exited, y.session.state \in {"ACTIVE", "NOMORE"},
         y.session.has_url, reply \notin Failures, reply # "garbage",
         Periodic \in y.event_queue => msg.type = "Inform"
  PROVE  Periodic \notin HandleReply(y, reply).event_queue
<1> DEFINE z == HandleReply(y, reply)
<1>1. y \in Memory
  BY DEF Good
<1>2. CASE reply = "InformResponse"
  <2> DEFINE d == RemoveFromDequeue(y, InformReasons)
             none == {}
  <2>1. z = [d EXCEPT !.changed_sent = none]
    BY <1>2 DEF HandleReply, Failures, InformResponseReceived
  <2>2. d \in Memory /\ d.event_queue = {ev \in y.event_queue : ev.reason \notin InformReasons}
    BY <1>1, RemoveFromDequeueSays, RemoveFromDequeueAlike DEF Alike
  <2> HIDE DEF d, none, z
  <2>3. z.event_queue = d.event_queue
    BY <2>1, <2>2 DEF Memory
  <2>4. Periodic \notin z.event_queue
    BY <2>2, <2>3, OtherEvents
  <2> QED BY <2>4 DEF z
<1>3. CASE reply # "InformResponse"
  <2>1. msg.type # "Inform" /\ reply # "Fault"
        /\ reply \in {"Rpc", "Download", "Reboot", "Empty", "TransferCompleteResponse"}
    BY <1>3 DEF Replies, Failures, Floor
  <2>2. Periodic \notin y.event_queue
    BY <2>1
  <2>3. ASSUME NEW a, Good(a), Quiet(a), a.session = y.session, a.exited = y.exited,
               a.event_queue = y.event_queue, z = SendResponse(a)
        PROVE  Periodic \notin z.event_queue
    BY <2>2, <2>3, SendResponseSays DEF Same
  <2>4. CASE reply = "Rpc"
    BY <2>3, <2>4 DEF HandleReply, Failures
  <2>5. CASE reply = "Download"
    <3> DEFINE a == [y EXCEPT !.downloading = TRUE]
    <3>1. z = SendResponse(a)
      BY <2>5 DEF HandleReply, Failures
    <3>2. Alike(a, y)
      BY <1>1 DEF Alike, Memory
    <3>3. a.event_queue = y.event_queue /\ a.exited = y.exited
      BY <1>1 DEF Memory
    <3> HIDE DEF a, z
    <3>4. Good(a) /\ Quiet(a) /\ a.session = y.session
      BY <3>2, AlikeKeeps DEF Alike, Quiet
    <3>5. Periodic \notin z.event_queue
      BY <2>3, <3>1, <3>3, <3>4
    <3> QED BY <3>5 DEF z
  <2>6. CASE reply = "Reboot"
    <3> DEFINE a == [y EXCEPT !.run_at_end = TRUE]
    <3>1. z = SendResponse(a)
      BY <2>6 DEF HandleReply, Failures, RebootAtEnd
    <3>2. /\ a.session = y.session
          /\ a.posts = y.posts /\ a.outstanding = y.outstanding
          /\ a.wait_timers = y.wait_timers
          /\ a.start_session_timeout = y.start_session_timeout
          /\ a.event_queue = y.event_queue /\ a.exited = y.exited
      BY <1>1 DEF Memory
    <3>3. a \in Memory
      BY <1>1 DEF Memory
    <3> HIDE DEF a, z
    <3>4. Good(a) /\ Quiet(a)
      BY <3>2, <3>3 DEF Good, Quiet, HasSession
    <3>5. Periodic \notin z.event_queue
      BY <2>3, <3>1, <3>2, <3>4
    <3> QED BY <3>5 DEF z
  <2>7. CASE reply = "Empty"
    <3> DEFINE next == StateUpdate(y.session.state, "acs_to_cpe_empty")
               sn == [y.session EXCEPT !.state = next]
    <3>1. z = [y EXCEPT !.session = sn]
      BY <1>1, <2>7 DEF HandleReply, Failures, Memory
    <3> HIDE DEF sn, z
    <3>2. z.event_queue = y.event_queue
      BY <1>1, <3>1 DEF Memory
    <3>3. Periodic \notin z.event_queue
      BY <2>2, <3>2
    <3> QED BY <3>3 DEF z
  <2>8. CASE reply = "TransferCompleteResponse"
    <3>1. z = RemoveFromDequeue(y, TransferReasons)
      BY <2>8 DEF HandleReply, Failures, TransferCompleteReceived
    <3> HIDE DEF z
    <3>2. z.event_queue = {ev \in y.event_queue : ev.reason \notin TransferReasons}
      BY <1>1, <3>1, RemoveFromDequeueSays
    <3>3. Periodic \notin z.event_queue
      BY <2>2, <3>2
    <3> QED BY <3>3 DEF z
  <2> QED BY <2>1, <2>4, <2>5, <2>6, <2>7, <2>8
<1> QED BY <1>2, <1>3

\* After an answer the event is gone, or the failed session will be tried again.
LEMMA GotResponseToAwaits ==
  ASSUME NEW x, NEW reply, Settled(x), Tells(x), ~x.exited, x.posts # <<>>,
         reply \in Replies(Head(x.posts)), ~AcsMayFault, ~acs_disabled, acs_url \in BOOLEAN
  PROVE  LET r == GotResponseTo(x, reply) IN
         r.exited \/ (r.start_session_timeout /\ ~HasSession(r)) \/ Periodic \notin r.event_queue
<1> DEFINE y == Receive(x)
           z == HandleReply(y, reply)
           w == HandleSessionEnd(z, reply)
           r == Run(w)
<1>1. /\ Good(y) /\ Quiet(y) /\ Same(y, x)
      /\ y.session = x.session /\ y.exited = x.exited
      /\ x.session.state \in {"ACTIVE", "NOMORE"} /\ x.session.has_url /\ HasSession(x)
  BY ReceiveSays
<1>2. GotResponseTo(x, reply) = r
  BY <1>1 DEF GotResponseTo
<1>3. y \in Memory /\ y.event_queue = x.event_queue
  BY <1>1 DEF Good, Same
<1> HIDE DEF y
<1>4. Ready(z)
  BY <1>1, HandleReplyReady
<1>5. z \in Memory /\ Good(z)
  BY <1>4 DEF Ready, Good
<1>6. CASE reply \in Failures
  <2>1. z = ScheduleRetrySession(y, TRUE)
    BY <1>6 DEF HandleReply, Failures
  <2>2. TRUE \in BOOLEAN
    OBVIOUS
  <2> HIDE DEF z
  <2>3a. Settled(z)
    BY <1>1, <1>3, <2>1, <2>2, ScheduleRetrySessionSettled DEF HasSession
  <2>3b. z.start_session_timeout
    BY <1>3, <2>1, <2>2, ScheduleRetrySessionStarts
  <2>3c. ~HasSession(z)
    BY <1>3, <2>1, <2>2, ScheduleRetrySessionSays
  <2>3. Settled(z) /\ z.start_session_timeout /\ ~HasSession(z)
    BY <2>3a, <2>3b, <2>3c
  <2>4. Alike(w, z)
    BY <1>5, HandleSessionEndAlike
  <2> HIDE DEF w
  <2>5. Settled(w) /\ w.start_session_timeout /\ ~HasSession(w)
    BY <1>5, <2>3, <2>4, AlikeKeeps DEF Alike, HasSession
  <2>6. r = w
    BY <2>5, RunStays
  <2> QED BY <1>2, <2>5, <2>6
<1>7. CASE reply = "garbage"
  <2>1. z = [y EXCEPT !.exited = TRUE]
    BY <1>7 DEF HandleReply, Failures
  <2> HIDE DEF z
  <2>2. z \in Memory /\ z.exited
    BY <1>3, <2>1 DEF Memory
  <2>3. w.exited
    BY <2>2, HandleSessionEndSays
  <2> HIDE DEF w
  <2>4. r = w
    BY <2>3 DEF Run, RunOpen
  <2> QED BY <1>2, <2>3, <2>4
<1>8. CASE reply \notin Failures /\ reply # "garbage"
  <2>1. Periodic \in y.event_queue => Head(x.posts).type = "Inform"
    BY <1>1, <1>3 DEF Tells
  <2>2. Periodic \notin z.event_queue
    BY <1>1, <1>8, <2>1, HandleReplyLacks
  <2> HIDE DEF z
  <2>3. Ready(w) /\ w.event_queue = z.event_queue
    BY <1>4, <1>5, HandleSessionEndAlike, HandleSessionEndSays, AlikeKeeps DEF Same
  <2> HIDE DEF w
  <2>4. Lacks(r, w)
    BY <2>3, RunLacks
  <2> HIDE DEF r
  <2> QED BY <1>2, <2>2, <2>3, <2>4 DEF Lacks
<1> QED BY <1>6, <1>7, <1>8

\* A finished download queues other events, and leaves session and timer as they are.
LEMMA QueueTransferCompleteAwaits ==
  ASSUME NEW x, NEW key \in Keys, Settled(x), Awaits(x)
  PROVE  Awaits(QueueTransferComplete(x, key))
<1> DEFINE once == IF Queued(x, TransferDone) THEN x ELSE AddEvent(x, TransferDone)
           announced == IF HasSession(x) THEN x ELSE AddEvent(once, MDownload(key))
           q == Append(announced.request_queue, TransferComplete(key))
           y == [announced EXCEPT !.request_queue = q]
<1>1. ASSUME NEW z, NEW ev \in Events, Settled(z), Awaits(z), Periodic # ev
      PROVE  LET a == AddEvent(z, ev) IN Settled(a) /\ Awaits(a)
  <2> DEFINE a == AddEvent(z, ev)
  <2>1. z \in Memory /\ Good(z)
    BY <1>1 DEF Settled, Good
  <2>2. Alike(a, z)
    BY <2>1, AddEventAlike
  <2>3. a.event_queue = z.event_queue \cup {ev}
    BY <2>1, WithEventsSays DEF AddEvent
  <2> HIDE DEF a
  <2>4. Settled(a)
    BY <1>1, <2>1, <2>2, AlikeKeeps
  <2>5. Awaits(a)
    BY <1>1, <2>2, <2>3 DEF Alike, Awaits, Starts, HasSession
  <2> QED BY <2>4, <2>5 DEF a
<1>2. QueueTransferComplete(x, key) = Run(y)
  BY DEF QueueTransferComplete, Send
<1>3. Settled(once) /\ Awaits(once)
  BY <1>1, EventTypes, OtherEvents
<1> HIDE DEF once
<1>4. Settled(announced) /\ Awaits(announced)
  BY <1>1, <1>3, EventTypes, OtherEvents
<1> HIDE DEF announced
<1>5. announced \in Memory /\ Good(announced)
  BY <1>4 DEF Settled, Good
<1>6. q \in Seq(Requests)
  BY <1>5 DEF Memory, Requests, TransferComplete
<1> HIDE DEF q
<1>7. Alike(y, announced)
  BY <1>5, <1>6 DEF Alike, Memory
<1>8. y.event_queue = announced.event_queue
  BY <1>5 DEF Memory
<1> HIDE DEF y
<1>9. Settled(y)
  BY <1>4, <1>5, <1>7, AlikeKeeps
<1>10. Run(y) = y
  BY <1>9, RunStays
<1>11. Awaits(y)
  BY <1>4, <1>7, <1>8 DEF Alike, Awaits, Starts, HasSession
<1> QED BY <1>2, <1>10, <1>11

LEMMA NewSessionAwaits ==
  ASSUME NEW x, NEW ev \in Events, Settled(x), ~acs_disabled, acs_url \in BOOLEAN
  PROVE  LET r == NewSession(x, ev) IN r.exited \/ Starts(r)
BY NewSessionStarts

LEMMA StartupWithAwaits ==
  ASSUME NEW x, NEW reboots \in Restored, NEW transfers \in Restored,
         Settled(x), ~acs_disabled, acs_url \in BOOLEAN
  PROVE  Awaits(StartupWith(x, reboots, transfers))
<1> DEFINE q == {MReboot(key) : key \in reboots}
           queued == WithEvents(x, q)
           started == NewSession(queued, Bootstrap)
<1>1. q \in SUBSET Events /\ transfers \subseteq Keys
  BY EventTypes DEF Restored
<1> HIDE DEF q
<1>2. Settled(queued)
  BY <1>1, WithEventsAlike, AlikeKeeps DEF Settled, Good
<1> HIDE DEF queued
<1>3. Settled(started) /\ Awaits(started)
  BY <1>2, EventTypes, NewSessionSettled, NewSessionAwaits DEF Awaits
<1> HIDE DEF started
<1>4. StartupWith(x, reboots, transfers) =
        IF transfers = {} THEN started
        ELSE QueueTransferComplete(started, CHOOSE key \in transfers : TRUE)
  BY DEF StartupWith, started, queued, q
<1>5. transfers # {} => (CHOOSE key \in transfers : TRUE) \in Keys
  BY <1>1
<1> QED BY <1>3, <1>4, <1>5, QueueTransferCompleteAwaits

PInv == SInv /\ ~acs_disabled /\ Awaits(m) /\ Tells(m)

LEMMA StepAwaits ==
  ASSUME PInv, Next, ~AcsMayFault, m' # m, Running(m)'
  PROVE  Awaits(m')
<1>0. /\ m \in Memory /\ Good(m) /\ Settled(m) /\ Awaits(m) /\ Tells(m)
      /\ acs_url \in BOOLEAN /\ ~acs_disabled
  BY DEF PInv, SInv, IInv, Settled, Good
<1>1. CASE Startup
  <2>1. PICK reboots \in Restored, transfers \in Restored, downloading \in BOOLEAN :
          m' = StartupWith([m EXCEPT !.up = TRUE, !.downloading = downloading],
                           reboots, transfers)
    BY <1>1, Zenon DEF Startup
  <2> DEFINE st(b) == [NewProcess EXCEPT !.up = TRUE, !.downloading = b]
             x == [m EXCEPT !.up = TRUE, !.downloading = downloading]
  <2>2. m = NewProcess
    BY <1>1 DEF Startup, PInv, SInv, IInv
  <2>3. \A b \in BOOLEAN : Settled(st(b))
    BY NewProcessSettled, Zenon
  <2>4. x = st(downloading) /\ m' = StartupWith(x, reboots, transfers)
    BY <2>1, <2>2
  <2> HIDE DEF st, x
  <2> QED BY <1>0, <2>3, <2>4, StartupWithAwaits
<1>2. ASSUME NEW reply \in AllReplies, GotResponse(reply) PROVE Awaits(m')
  <2>1. ~m.exited /\ m.posts # <<>> /\ reply \in Replies(Head(m.posts))
        /\ m' = GotResponseTo(m, reply)
    BY <1>2 DEF GotResponse, Running
  <2> QED BY <1>0, <2>1, GotResponseToAwaits DEF Awaits, Starts
<1>3. CASE SessionWaitTimer
  <2> DEFINE n == m.wait_timers - 1
             fired == [m EXCEPT !.wait_timers = n, !.start_session_timeout = FALSE]
             sn == NewCwmpSession(acs_url)
             y == [fired EXCEPT !.session = sn]
  <2>1. n = 0 /\ ~HasSession(m) /\ Quiet(m) /\ ~m.exited
    BY <1>0, <1>3 DEF SessionWaitTimer, Settled, Good, Waits, Running
  <2>2. /\ sn.state = "CONNECT"
        /\ sn \in [state : SessionStates \cup {"NONE"},
                   ping_received : BOOLEAN, has_url : BOOLEAN]
    BY <1>0 DEF NewCwmpSession, SessionStates
  <2>3. fired.session = m.session
    BY <1>0 DEF Memory
  <2>4. m' = Run(y)
    BY <1>3, <2>1, <2>3 DEF SessionWaitTimer, HasSession
  <2> HIDE DEF n, sn
  <2>5. y \in Memory
    <3>1. n \in Nat
      BY <2>1
    <3> QED BY <1>0, <2>2, <3>1 DEF Memory
  <2>6. /\ y.session = sn /\ y.exited = m.exited
        /\ y.posts = m.posts /\ y.outstanding = m.outstanding
        /\ y.wait_timers = n /\ ~y.start_session_timeout
        /\ y.run_at_end = m.run_at_end
    BY <1>0 DEF Memory
  <2> HIDE DEF fired, y
  <2>7. Good(y) /\ Quiet(y)
    BY <1>0, <2>1, <2>2, <2>5, <2>6 DEF Good, Quiet, HasSession
  <2>8. m' = RunOpen(y)
    BY <2>2, <2>4, <2>6 DEF Run, ShouldClose
  <2> QED BY <2>1, <2>2, <2>6, <2>7, <2>8, RunNewSessionStarts DEF Awaits
<1>4. CASE PingReceived
  BY <1>0, <1>4, NewPingSessionAwaits DEF PingReceived
\* A callback that writes what Awaits does not look at, then calls a method.
<1>5. ASSUME NEW y, Alike(y, m), y.exited = m.exited, y.event_queue = m.event_queue
      PROVE  Settled(y) /\ Awaits(y)
  BY <1>0, <1>5, AlikeKeeps DEF Alike, Awaits, Starts, HasSession
<1>6. CASE NewTimeoutPingSession
  <2> DEFINE n == m.ping_timers - 1
             fired == [m EXCEPT !.ping_timers = n, !.ping_timeout_pending = FALSE]
  <2>1. n \in Nat
    BY <1>0, <1>6 DEF NewTimeoutPingSession, Memory
  <2>2. m' = IF m.ping_timeout_pending THEN NewPingSession(fired) ELSE fired
    BY <1>6 DEF NewTimeoutPingSession
  <2> HIDE DEF n
  <2>3. Alike(fired, m)
    BY <1>0, <2>1 DEF Alike, Memory
  <2>4. fired.exited = m.exited /\ fired.event_queue = m.event_queue
    BY <1>0 DEF Memory
  <2> HIDE DEF fired
  <2>5. Settled(fired) /\ Awaits(fired)
    BY <1>5, <2>3, <2>4
  <2> QED BY <1>0, <2>2, <2>5, NewPingSessionAwaits
<1>7. CASE RateLimitExpires
  <2>1. Alike(m', m)
    BY <1>0, <1>7 DEF RateLimitExpires, Alike, Memory
  <2>2. m'.event_queue = m.event_queue /\ m'.exited = m.exited
    BY <1>0, <1>7 DEF RateLimitExpires, Memory
  <2> QED BY <1>5, <2>1, <2>2
<1>8. CASE NewPeriodicSession
  <2>1. m' = m \/ m' = NewSession(m, Periodic)
    BY <1>8 DEF NewPeriodicSession
  <2> QED BY <1>0, <2>1, EventTypes, NewSessionAwaits DEF Awaits
<1>9. CASE NewWakeupSession
  <2>1. m' = m \/ m' = NewSession(m, ConnectionRequest)
    BY <1>9 DEF NewWakeupSession
  <2> QED BY <1>0, <2>1, EventTypes, NewSessionAwaits DEF Awaits
<1>10. ASSUME NEW p \in Params, NEW active \in BOOLEAN, ParameterChanged(p, active)
       PROVE  Awaits(m')
  <2> DEFINE more == m.changed \cup {p}
             set == [m EXCEPT !.changed = more]
  <2>1. more \in SUBSET Params
    BY <1>0 DEF Memory
  <2>2. m' = (IF active THEN NewValueChangeSession(set) ELSE set)
    BY <1>10 DEF ParameterChanged
  <2> HIDE DEF more
  <2>3. Alike(set, m)
    BY <1>0, <2>1 DEF Alike, Memory
  <2>4. set.event_queue = m.event_queue /\ set.exited = m.exited
    BY <1>0 DEF Memory
  <2> HIDE DEF set
  <2>5. Settled(set) /\ Awaits(set)
    BY <1>5, <2>3, <2>4
  <2> QED BY <1>0, <2>2, <2>5, NewValueChangeSessionAwaits
<1>11. ASSUME NEW key \in Keys, SendTransferComplete(key) PROVE Awaits(m')
  <2> DEFINE sent == [m EXCEPT !.downloading = FALSE]
  <2>1. Alike(sent, m)
    BY <1>0 DEF Alike, Memory
  <2>2. sent.event_queue = m.event_queue /\ sent.exited = m.exited
    BY <1>0 DEF Memory
  <2>3. m' = QueueTransferComplete(sent, key)
    BY <1>11 DEF SendTransferComplete
  <2> HIDE DEF sent
  <2>4. Settled(sent) /\ Awaits(sent)
    BY <1>5, <2>1, <2>2
  <2> QED BY <2>3, <2>4, QueueTransferCompleteAwaits
<1>12. ~Respawn /\ ~Crash
  BY DEF Respawn, Crash, Running, NewProcess
<1>13. ~AcsDisabledChanges /\ ~FindUrl /\ ~LoseUrl
  BY DEF AcsDisabledChanges, FindUrl, LoseUrl
<1> QED BY <1>1, <1>2, <1>3, <1>4, <1>6, <1>7, <1>8, <1>9, <1>10, <1>11, <1>12, <1>13 DEF Next

LEMMA StepTells ==
  ASSUME PInv, Next, ~AcsMayFault, m' # m, Running(m)'
  PROVE  Tells(m')
<1>0. /\ Settled(m) /\ Tells(m) /\ IInv /\ Speaks(m)
      /\ acs_url \in BOOLEAN /\ ~acs_disabled
  BY DEF PInv, SInv, IInv
<1>1. CASE ~m.up /\ (HasSession(m') => Informs(m'))
  BY <1>1 DEF Tells, Informs
<1>2. CASE Running(m) /\ Goes(m', m)
  <2>1. CASE HasSession(m)
    BY <1>0, <1>2, <2>1 DEF Goes, Tells, HasSession, Running
  <2>2. CASE ~HasSession(m)
    BY <1>2, <2>2 DEF Goes, Tells, Informs
  <2> QED BY <2>1, <2>2
<1>3. CASE \E reply \in AllReplies : GotResponse(reply)
  <2>1. PICK reply \in AllReplies : GotResponse(reply)
    BY <1>3
  <2>2. ~m.exited /\ m.posts # <<>> /\ reply \in Replies(Head(m.posts))
        /\ m' = GotResponseTo(m, reply)
    BY <2>1 DEF GotResponse, Running
  <2> QED BY <1>0, <2>2, GotResponseToAwaits DEF Tells
<1> QED BY <1>0, <1>1, <1>2, <1>3, StepGoes

\* While the ACS is enabled and answers as the protocol says, a periodic event in the
\* queue has a session under way, or a timer that starts one: NewPeriodicSession, which
\* opens none while the event is queued, waits for something that comes.
THEOREM PeriodicIsRetried ==
  ASSUME ~AcsMayBeDisabled, ~AcsMayFault
  PROVE  Spec => []PeriodicHasRetry
<1>1. Awaits(NewProcess) /\ Tells(NewProcess)
  BY DEF Awaits, Tells, NewProcess
<1>2. Init => PInv
  <2>1. Init => SInv
    <3>1. Keyed(NewProcess) /\ ~HasSession(NewProcess)
      BY DEF Keyed, HasSession, NewProcess, NoSession
    <3> QED BY <3>1, InitIInv DEF Init, SInv, Speaks
  <2> QED BY <1>1, <2>1 DEF Init, PInv
<1>3. ASSUME PInv, [Next]_vars PROVE PInv'
  <2>1. SInv'
    BY <1>3, NextSInv DEF PInv
  <2>2. ~acs_disabled'
    <3>1. CASE UNCHANGED vars
      BY <1>3, <3>1 DEF PInv, vars
    <3>2. CASE Next
      BY <1>3, <3>2 DEF PInv, Next, env, Startup, GotResponse, SessionWaitTimer, PingReceived,
         NewTimeoutPingSession, RateLimitExpires, NewPeriodicSession, NewWakeupSession,
         ParameterChanged, SendTransferComplete, Respawn, Crash, AcsDisabledChanges,
         FindUrl, LoseUrl
    <3> QED BY <1>3, <3>1, <3>2
  <2>3. Awaits(m') /\ Tells(m')
    <3>1. CASE m' = m
      BY <1>3, <3>1 DEF PInv
    <3>2. CASE m'.exited
      BY <3>2 DEF Awaits, Tells
    <3>3. CASE ~m'.up
      <4>1. m' = NewProcess
        BY <2>1, <3>3 DEF SInv, IInv
      <4> QED BY <1>1, <4>1
    <3>4. CASE m' # m /\ ~m'.exited /\ m'.up
      <4>1. Next /\ Running(m)'
        BY <1>3, <3>4 DEF vars, Running
      <4> QED BY <1>3, <3>4, <4>1, StepAwaits, StepTells
    <3> QED BY <3>1, <3>2, <3>3, <3>4
  <2> QED BY <2>1, <2>2, <2>3 DEF PInv
<1>4. PInv => PeriodicHasRetry
  BY DEF PInv, Awaits, Starts, PeriodicHasRetry, Running, Queued
<1> QED BY <1>2, <1>3, <1>4, PTL DEF Spec
=============================================================================
