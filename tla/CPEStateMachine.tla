-------------------------- MODULE CPEStateMachine --------------------------
(***************************************************************************)
(* The CWMP engine of catawampus, tr/http.py class CPEStateMachine: when a *)
(* session with the ACS is opened, what is POSTed in it, what each reply   *)
(* changes, how failed sessions are retried and how connection requests    *)
(* ("pings") are rate limited.                                             *)
(*                                                                         *)
(* The program is single threaded: the tornado ioloop runs one callback at *)
(* a time, to its end.  Every callback is one action here.  Callbacks call *)
(* one another (GotResponse calls SendResponse, which calls Run, which may *)
(* open another session, which calls Run), so the program's memory is one  *)
(* record, m, and each method is an operator from a record to a record;    *)
(* an action is the composition the callback makes.                        *)
(*                                                                         *)
(* A definition marked "Mutation" is a plausible bug, used by no other     *)
(* definition: a property is worth its run if the mutation breaks it.      *)
(***************************************************************************)
EXTENDS Integers, Sequences, FiniteSets

CONSTANTS
  Params,               \* parameters the ACS put a Notification on
  Keys,                 \* command keys of Download and Reboot RPCs
  MAX_EVENT_QUEUE_SIZE, \* http.MAX_EVENT_QUEUE_SIZE: 64 in the program
  LIMIT_599,            \* replies 599 in a row that are survived: 10 in the program
  MaxRetries,           \* bound: failed sessions in a row
  MaxRequests,          \* bound: length of request_queue
  MaxEvents,            \* bound: size of event_queue after which no
                        \* TransferComplete arrives
  MaxPingTimers,        \* bound: ping timers in the ioloop at one time
  AcsMayFault,          \* may the ACS answer a request with a SOAP Fault?
  AcsMayBeDisabled,     \* may the disable_acs file appear?
  UrlMayBeUnknown,      \* may the ACS URL be missing at first?
  UrlMayBeLost,         \* may the ACS URL go away again?
  PeriodicInformEnable, \* ManagementServer.PeriodicInformEnable
  MayCrash              \* may the process die at any time?

ASSUME BoundsAssumption ==
  /\ MAX_EVENT_QUEUE_SIZE \in Nat \ {0}
  /\ LIMIT_599 \in Nat
  /\ MaxRetries \in Nat
  /\ MaxRequests \in Nat
  /\ MaxEvents \in Nat
  /\ MaxPingTimers \in Nat
  /\ {AcsMayFault, AcsMayBeDisabled, UrlMayBeUnknown, UrlMayBeLost,
      PeriodicInformEnable, MayCrash} \subseteq BOOLEAN

VARIABLES
  m,             \* the memory of the process
  acs_disabled,  \* CPEStateMachine._AcsDisabled(): the file exists and is young
  acs_url        \* is an ACS URL known (CpeManagementServer.URL is not None)?

vars == <<m, acs_disabled, acs_url>>
env  == <<acs_disabled, acs_url>>

-----------------------------------------------------------------------------
(* The lifecycle of one CWMP session, tr/session.py class CwmpSession: a   *)
(* five-state machine, the single flag update that every transaction       *)
(* makes, and the predicates the HTTP layer asks of it.                    *)
(*                                                                         *)
(* state_update() takes four keyword flags, and every call in the program  *)
(* passes exactly one of them; StateUpdate takes the name of that flag.    *)
(* "on_hold" is on_hold=True, "off_hold" is the explicit on_hold=False.    *)

SessionStates == {"CONNECT", "ACTIVE", "ONHOLD", "NOMORE", "DONE"}

StateFlags ==
  {"sent_inform", "on_hold", "off_hold", "cpe_to_acs_empty", "acs_to_cpe_empty"}

\* CwmpSession.state_update: a flag that the state does not wait for is ignored.
StateUpdate(s, flag) ==
  CASE s = "CONNECT" /\ flag = "sent_inform"      -> "ACTIVE"
    [] s = "ACTIVE"  /\ flag = "on_hold"          -> "ONHOLD"
    [] s = "ACTIVE"  /\ flag = "cpe_to_acs_empty" -> "NOMORE"
    [] s = "ONHOLD"  /\ flag = "off_hold"         -> "ACTIVE"
    [] s = "NOMORE"  /\ flag = "acs_to_cpe_empty" -> "DONE"
    [] OTHER                                      -> s

InformRequired(s)  == s = "CONNECT"
RequestAllowed(s)  == s = "ACTIVE"
ResponseAllowed(s) == s \in {"ACTIVE", "ONHOLD", "NOMORE"}
ShouldClose(s)     == s = "DONE"

-----------------------------------------------------------------------------
(* Data *)

NoKey == ""
None  == [type |-> "None"]

Event(reason, key) == [reason |-> reason, key |-> key]

Bootstrap         == Event("0 BOOTSTRAP", NoKey)
Periodic          == Event("2 PERIODIC", NoKey)
ValueChange       == Event("4 VALUE CHANGE", NoKey)
ConnectionRequest == Event("6 CONNECTION REQUEST", NoKey)
TransferDone      == Event("7 TRANSFER COMPLETE", NoKey)
MDownload(key)    == Event("M Download", key)
MReboot(key)      == Event("M Reboot", key)

\* The reasons that InformResponseReceived and TransferCompleteReceived remove.
InformReasonsLackPeriodic ==   \* Mutation
  {"0 BOOTSTRAP", "4 VALUE CHANGE", "6 CONNECTION REQUEST", "M Reboot"}
InformReasons ==
  {"0 BOOTSTRAP", "2 PERIODIC", "4 VALUE CHANGE", "6 CONNECTION REQUEST", "M Reboot"}
TransferReasons == {"7 TRANSFER COMPLETE", "M Download"}

Reasons == InformReasons \cup TransferReasons
Events  == [reason : Reasons, key : Keys \cup {NoKey}]

Inform(events, params) == [type |-> "Inform", events |-> events, params |-> params]
TransferComplete(key)  == [type |-> "TransferComplete", key |-> key]
Response               == [type |-> "Response"]
Empty                  == [type |-> "Empty"]

Requests == [type : {"TransferComplete"}, key : Keys]
Messages == [type : {"Inform"}, events : SUBSET Events, params : SUBSET Params]
              \cup Requests \cup {Response, Empty}

SeqRange(s) == {s[i] : i \in DOMAIN s}

-----------------------------------------------------------------------------
(* The memory of the process *)

\* CwmpSession: .state, .ping_received and whether .acs_url is not None.
NoSession == [state |-> "NONE", ping_received |-> FALSE, has_url |-> FALSE]

NewCwmpSession(has_url) ==
  [state |-> "CONNECT", ping_received |-> FALSE, has_url |-> has_url]

HasSession(x) == x.session.state # "NONE"

\* CPEStateMachine.__init__.  Besides the attributes of the object:
\*   up          the process has run Startup
\*   exited      a handler called sys.exit, or raised out of a callback
\*   posts       POSTs given to http.fetch whose callback has not run
\*   wait_timers, ping_timers   how many _SessionWaitTimer, respectively
\*               _NewTimeoutPingSession, callbacks are in the ioloop
\*   limited     event_queue is (still) a LimitDeque
\*   ping_recent the last ping session began ping_rate_limit_seconds ago or less
\*   run_at_end  session.RunAtEnd holds DownloadManager._DelayedReboot; once
\*               it has run the process may die at any time (Crash)
\*   downloading DownloadManager has a Download on its way (MAXDOWNLOADS is 1)
\*   informed    observation only: the events in this session's Inform
Memory ==
  [ up                    : BOOLEAN,
    exited                : BOOLEAN,
    session               : [state : SessionStates \cup {"NONE"},
                             ping_received : BOOLEAN, has_url : BOOLEAN],
    outstanding           : Messages \cup {None},
    response_queue        : Seq({Response}),
    request_queue         : Seq(Requests),
    event_queue           : SUBSET Events,
    limited               : BOOLEAN,
    posts                 : Seq(Messages),
    retry_count           : Nat,
    start_session_timeout : BOOLEAN,
    wait_timers           : Nat,
    ping_recent           : BOOLEAN,
    ping_timeout_pending  : BOOLEAN,
    ping_timers           : Nat,
    changed               : SUBSET Params,
    changed_sent          : SUBSET Params,
    num_599               : Nat,
    run_at_end            : BOOLEAN,
    downloading           : BOOLEAN,
    informed              : SUBSET Events ]

NewProcess ==
  [ up                    |-> FALSE,
    exited                |-> FALSE,
    session               |-> NoSession,
    outstanding           |-> None,
    response_queue        |-> <<>>,
    request_queue         |-> <<>>,
    event_queue           |-> {},
    limited               |-> TRUE,
    posts                 |-> <<>>,
    retry_count           |-> 0,
    start_session_timeout |-> FALSE,
    wait_timers           |-> 0,
    ping_recent           |-> FALSE,
    ping_timeout_pending  |-> FALSE,
    ping_timers           |-> 0,
    changed               |-> {},
    changed_sent          |-> {},
    num_599               |-> 0,
    run_at_end            |-> FALSE,
    downloading           |-> FALSE,
    informed              |-> {} ]

Running(x) == x.up /\ ~x.exited

-----------------------------------------------------------------------------
(* The event queue: the Inform lists all of it, so its order and repeated    *)
(* entries are left out.                                                   *)

\* LimitDeque.CheckSize, with CPEStateMachine.EventQueueHandler: exit.
WithEvents(x, q) ==
  [x EXCEPT !.event_queue = q,
            !.exited = @ \/ (x.limited /\ Cardinality(q) > MAX_EVENT_QUEUE_SIZE)]

AddEvent(x, ev) == WithEvents(x, x.event_queue \cup {ev})
Queued(x, ev)   == ev \in x.event_queue

\* _RemoveFromDequeue returns a plain collections.deque: from here on the
\* event queue has no size limit.
RemoveFromDequeue(x, reasons) ==
  [x EXCEPT !.event_queue = {ev \in @ : ev.reason \notin reasons},
            !.limited = FALSE]

-----------------------------------------------------------------------------
(* Sessions: open, run, close, retry *)

\* Mutation: the session ends, and the callbacks wait on.
CloseKeepsCallbacks(x) == [x EXCEPT !.session = NoSession, !.informed = {}]

\* CwmpSession.close, which runs the callbacks of RunAtEnd, and the
\* "session = None" that follows each call of it.
CloseSession(x) ==
  [x EXCEPT !.session = NoSession,
            !.run_at_end = FALSE,
            !.informed = {}]

\* Mutation: the timer handle is set, no timer is.
RetryWithoutTimer(x, counted) ==
  [(IF HasSession(x) THEN CloseSession(x) ELSE x)
     EXCEPT !.retry_count = IF counted THEN @ + 1 ELSE @]

\* _ScheduleRetrySession; counted is "wait is None".
ScheduleRetrySession(x, counted) ==
  LET c == IF HasSession(x) THEN CloseSession(x) ELSE x
  IN  [c EXCEPT !.retry_count = IF counted THEN @ + 1 ELSE @,
                !.start_session_timeout = TRUE,
                !.wait_timers = @ + 1]

\* Mutations: the timer runs on; a timer is removed that may not exist.
CancelCountOnly(x) == [x EXCEPT !.retry_count = 0]
CancelUnchecked(x) ==
  [x EXCEPT !.wait_timers = @ - 1, !.start_session_timeout = FALSE, !.retry_count = 0]

\* _CancelSessionRetries removes the timer that start_session_timeout names.
CancelSessionRetries(x) ==
  [x EXCEPT !.wait_timers = IF x.start_session_timeout THEN @ - 1 ELSE @,
            !.start_session_timeout = FALSE,
            !.retry_count = 0]

\* EncodeInform as it is posted: every queued event, and the parameters
\* changed since the last Inform or sent in an Inform not acknowledged yet.
InformFor(x) ==
  LET reported == x.changed_sent \cup x.changed
  IN  Inform(x.event_queue \cup (IF reported = {} THEN {} ELSE {ValueChange}),
             reported)

\* http.fetch of msg, the end of Run.
Post(x, msg) == [x EXCEPT !.outstanding = msg, !.posts = Append(@, msg)]

PostInform(x) ==
  LET msg == InformFor(x)
  IN  Post([x EXCEPT !.session.state = StateUpdate(@, "sent_inform"),
                     !.changed_sent = @ \cup x.changed,
                     !.changed = {},
                     !.informed = msg.events], msg)

PostResponse(x) ==
  Post([x EXCEPT !.response_queue = Tail(@)], Head(x.response_queue))

PostRequest(x) ==
  Post([x EXCEPT !.request_queue = Tail(@)], Head(x.request_queue))

\* Mutation: the session does not learn that the empty message was sent.
PostEmptyKeepsState(x) == Post(x, Empty)

PostEmpty(x) ==
  Post([x EXCEPT !.session.state = StateUpdate(@, "cpe_to_acs_empty")], Empty)

\* GetNext and the POST of what it returns.
PostNext(x) ==
  LET s == x.session.state IN
  IF InformRequired(s)                                  THEN PostInform(x)
  ELSE IF x.response_queue # <<>> /\ ResponseAllowed(s) THEN PostResponse(x)
  ELSE IF x.request_queue # <<>> /\ RequestAllowed(s)   THEN PostRequest(x)
  ELSE PostEmpty(x)

\* Run on a session that is not DONE.
RunOpen(x) ==
  IF x.exited \/ ~HasSession(x) THEN x
  ELSE IF ~x.session.has_url THEN ScheduleRetrySession(x, FALSE)
  ELSE IF x.outstanding # None THEN x
  ELSE PostNext(x)

\* Mutation: the event is queued before the session is looked at.
NewSessionQueuesFirst(x, ev) ==
  IF acs_disabled THEN CancelSessionRetries(x)
  ELSE IF HasSession(x) THEN AddEvent(x, ev)
  ELSE RunOpen([AddEvent(CancelSessionRetries(x), ev)
                  EXCEPT !.session = NewCwmpSession(acs_url)])

\* _NewSession; a new session is in CONNECT, so its Run is RunOpen.
NewSession(x, ev) ==
  IF acs_disabled THEN CancelSessionRetries(x)
  ELSE IF HasSession(x) THEN x
  ELSE RunOpen([AddEvent(CancelSessionRetries(x), ev)
                  EXCEPT !.session = NewCwmpSession(acs_url)])

\* _NewPingSession
NewPingSession(x) ==
  IF HasSession(x) THEN [x EXCEPT !.session.ping_received = TRUE]
  ELSE IF ~x.ping_recent
    THEN NewSession(RemoveFromDequeue([x EXCEPT !.ping_timeout_pending = FALSE,
                                                !.ping_recent = TRUE],
                                      {"6 CONNECTION REQUEST"}),
                    ConnectionRequest)
  ELSE IF ~x.ping_timeout_pending
    THEN [x EXCEPT !.ping_timeout_pending = TRUE, !.ping_timers = @ + 1]
  ELSE x

\* NewValueChangeSession
NewValueChangeSession(x) ==
  IF x.changed = {} \/ HasSession(x) \/ Queued(x, ValueChange) THEN x
  ELSE NewSession(x, ValueChange)

\* Mutation: the ping of the session that ends is forgotten.
FinishForgetsPing(x) ==
  NewValueChangeSession([CloseSession(x) EXCEPT !.outstanding = None, !.retry_count = 0])

\* Run on a DONE session: a successful close, and at most one session after it.
Finish(x) ==
  LET c == [CloseSession(x) EXCEPT !.outstanding = None, !.retry_count = 0]
  IN  IF c.changed # {} THEN NewValueChangeSession(c)
      ELSE IF x.session.ping_received THEN NewPingSession(c)
      ELSE c

\* Run
Run(x) ==
  IF HasSession(x) /\ x.session.has_url /\ ShouldClose(x.session.state) /\ ~x.exited
  THEN Finish(x)
  ELSE RunOpen(x)

\* Send(TransferComplete) and SendResponse
Send(x, req) == Run([x EXCEPT !.request_queue = Append(@, req)])
SendResponse(x) == Run([x EXCEPT !.response_queue = Append(@, Response)])

\* SendTransferComplete
QueueTransferComplete(x, key) ==
  LET announced ==
        IF HasSession(x) THEN x
        ELSE AddEvent(IF Queued(x, TransferDone) THEN x
                         ELSE AddEvent(x, TransferDone), MDownload(key))
  IN  Send(announced, TransferComplete(key))

-----------------------------------------------------------------------------
(* Replies of the ACS *)

\* What the ACS, or the network, may answer to a POST of msg: the reply the
\* protocol calls for, an RPC (a Download that is accepted, a Reboot, or one
\* that leaves this state alone) where the ACS holds the floor, a SOAP Fault, an
\* HTTP error (599 is tornado's own: timeout, no connection), or a body that
\* is no SOAP message.
Floor    == {"Empty", "Rpc", "Download", "Reboot"}
Failures == {"error", "599"}

Replies(msg) ==
  Failures \cup {"garbage"} \cup
  CASE msg.type = "Inform"           -> {"InformResponse"} \cup (IF AcsMayFault THEN {"Fault"} ELSE {})
    [] msg.type = "TransferComplete" -> {"TransferCompleteResponse"} \cup (IF AcsMayFault THEN {"Fault"} ELSE {})
    [] OTHER                         -> Floor

\* Mutations: the whole queue is dropped; changes not yet sent are dropped.
InformResponseDropsAll(x) ==
  [RemoveFromDequeue(x, InformReasons \cup TransferReasons)
     EXCEPT !.changed_sent = {}]
InformResponseDropsChanges(x) ==
  [RemoveFromDequeue(x, InformReasons)
     EXCEPT !.changed_sent = {}, !.changed = {}]

\* InformResponseReceived
InformResponseReceived(x) ==
  [RemoveFromDequeue(x, InformReasons) EXCEPT !.changed_sent = {}]

\* TransferCompleteReceived
TransferCompleteReceived(x) == RemoveFromDequeue(x, TransferReasons)

\* DownloadManager.Reboot registers its callback with session.RunAtEnd.
RebootAtEnd(x) == [x EXCEPT !.run_at_end = TRUE]

\* The body of GotResponse for a reply that is not an HTTP error: cpe_soap.Handle
\* and SendResponse.  The CPE has no responder for a Fault and answers it with
\* a "method not supported" fault of its own.
HandleReply(x, reply) ==
  CASE reply = "InformResponse"           -> InformResponseReceived(x)
    [] reply = "TransferCompleteResponse" -> TransferCompleteReceived(x)
    [] reply \in {"Rpc", "Fault"}         -> SendResponse(x)
    [] reply = "Download"                 -> SendResponse([x EXCEPT !.downloading = TRUE])
    [] reply = "Reboot"                   -> SendResponse(RebootAtEnd(x))
    [] reply = "Empty"                    ->
         [x EXCEPT !.session.state = StateUpdate(@, "acs_to_cpe_empty")]
    [] reply \in Failures                 -> ScheduleRetrySession(x, TRUE)
    [] OTHER                              -> [x EXCEPT !.exited = TRUE]

\* _HandleSessionEnd
HandleSessionEnd(x, reply) ==
  IF reply = "599"
  THEN [x EXCEPT !.num_599 = @ + 1, !.exited = @ \/ x.num_599 + 1 > LIMIT_599]
  ELSE [x EXCEPT !.num_599 = 0]

\* GotResponse: the POST is answered.
ReceiveKeepsOutstanding(x) == [x EXCEPT !.posts = Tail(@)]   \* Mutation
Receive(x) == [x EXCEPT !.outstanding = None, !.posts = Tail(@)]

GotResponseTo(x, reply) ==
  IF HasSession(x)
  THEN Run(HandleSessionEnd(HandleReply(Receive(x), reply), reply))
  ELSE Receive(x)

-----------------------------------------------------------------------------
(* Actions: one per callback of the ioloop, and the environment's *)

Init ==
  /\ m = NewProcess
  /\ acs_disabled = FALSE
  /\ acs_url \in (IF UrlMayBeUnknown THEN BOOLEAN ELSE {TRUE})

\* What RestoreReboots and RestoreDownloads may find on disk: nothing, or one key.
Restored == {{}} \cup {{key} : key \in Keys}

\* Startup: the reboots join the event queue, the first session is opened, a
\* download that was rebooting or exiting sends its TransferComplete, another
\* one begins again.
StartupWith(x, reboots, transfers) ==
  LET queued  == WithEvents(x, {MReboot(key) : key \in reboots})
      started == NewSession(queued, Bootstrap)
  IN  IF transfers = {} THEN started
      ELSE QueueTransferComplete(started, CHOOSE key \in transfers : TRUE)

Startup ==
  /\ ~m.up
  /\ \E reboots, transfers \in Restored, downloading \in BOOLEAN :
        m' = StartupWith([m EXCEPT !.up = TRUE, !.downloading = downloading],
                         reboots, transfers)
  /\ UNCHANGED env

GotResponse(reply) ==
  /\ Running(m)
  /\ m.posts # <<>>
  /\ reply \in Replies(Head(m.posts))
  /\ reply \in Failures => m.retry_count < MaxRetries
  /\ m' = GotResponseTo(m, reply)
  /\ UNCHANGED env

\* _SessionWaitTimer.  A session that were open would be dropped: its __del__
\* closes it.
SessionWaitTimer ==
  /\ Running(m)
  /\ m.wait_timers > 0
  /\ LET fired == [m EXCEPT !.wait_timers = @ - 1, !.start_session_timeout = FALSE]
         idle  == IF HasSession(fired) THEN CloseSession(fired) ELSE fired
     IN  m' = Run([idle EXCEPT !.session = NewCwmpSession(acs_url)])
  /\ UNCHANGED env

PingReceived ==
  /\ Running(m)
  /\ m.ping_timers < MaxPingTimers
  /\ m' = NewPingSession(m)
  /\ UNCHANGED env

\* _NewTimeoutPingSession
NewTimeoutPingSession ==
  /\ Running(m)
  /\ m.ping_timers > 0
  /\ LET fired == [m EXCEPT !.ping_timers = @ - 1, !.ping_timeout_pending = FALSE]
     IN  m' = IF m.ping_timeout_pending THEN NewPingSession(fired) ELSE fired
  /\ UNCHANGED env

\* ping_rate_limit_seconds have passed since the last ping session began.
RateLimitExpires ==
  /\ m.ping_recent
  /\ m' = [m EXCEPT !.ping_recent = FALSE]
  /\ UNCHANGED env

NewPeriodicSession ==
  /\ PeriodicInformEnable
  /\ Running(m)
  /\ m' = IF Queued(m, Periodic) THEN m ELSE NewSession(m, Periodic)
  /\ UNCHANGED env

NewWakeupSession ==
  /\ Running(m)
  /\ m' = IF Queued(m, ConnectionRequest) THEN m
          ELSE NewSession(m, ConnectionRequest)
  /\ UNCHANGED env

\* ParameterAttributes.CheckForTriggers finds a new value of p: passive
\* notifications wait for the next Inform, active ones ask for a session.
ParameterChanged(p, active) ==
  /\ Running(m)
  /\ LET set == [m EXCEPT !.changed = @ \cup {p}]
     IN  m' = IF active THEN NewValueChangeSession(set) ELSE set
  /\ UNCHANGED env

\* The Download on its way is done, or has failed.
SendTransferComplete(key) ==
  /\ Running(m)
  /\ m.downloading
  /\ Len(m.request_queue) < MaxRequests
  /\ Cardinality(m.event_queue) < MaxEvents
  /\ m' = QueueTransferComplete([m EXCEPT !.downloading = FALSE], key)
  /\ UNCHANGED env

\* The process is dead: the babysitter starts another one.
Respawn == m.exited /\ m' = NewProcess /\ UNCHANGED env

\* Power failure, reboot, or any other death of the process.
Crash == MayCrash /\ Running(m) /\ m' = NewProcess /\ UNCHANGED env

AcsDisabledChanges ==
  AcsMayBeDisabled /\ acs_disabled' = ~acs_disabled /\ UNCHANGED <<m, acs_url>>

FindUrl == ~acs_url /\ acs_url' = TRUE /\ UNCHANGED <<m, acs_disabled>>
LoseUrl ==
  UrlMayBeLost /\ acs_url /\ acs_url' = FALSE /\ UNCHANGED <<m, acs_disabled>>

AllReplies ==
  Failures \cup Floor
    \cup {"InformResponse", "TransferCompleteResponse", "Fault", "garbage"}

Next ==
  \/ Startup
  \/ \E reply \in AllReplies : GotResponse(reply)
  \/ SessionWaitTimer
  \/ PingReceived
  \/ NewTimeoutPingSession
  \/ RateLimitExpires
  \/ NewPeriodicSession
  \/ NewWakeupSession
  \/ \E p \in Params, active \in BOOLEAN : ParameterChanged(p, active)
  \/ \E key \in Keys : SendTransferComplete(key)
  \/ Respawn
  \/ Crash
  \/ AcsDisabledChanges
  \/ FindUrl
  \/ LoseUrl

Spec == Init /\ [][Next]_vars

-----------------------------------------------------------------------------
(* Types *)

\* The memory of the process has the type its attributes have in the code.
TypeOK == m \in Memory /\ acs_disabled \in BOOLEAN /\ acs_url \in BOOLEAN

-----------------------------------------------------------------------------
(* Invariants *)

\* A session that is open always waits for the answer to exactly one POST, and
\* a POST is in flight only while a session is open.  Run() returns without
\* posting when "outstanding" is not None: were it ever left set, or a session
\* left open with nothing posted, no callback would come and the session, with
\* all later ones (_NewSession refuses while one exists), would hang forever.
SessionAwaitsOnePost ==
  Running(m) =>
    /\ HasSession(m) <=> m.posts # <<>>
    /\ Len(m.posts) <= 1
    /\ m.outstanding = (IF m.posts = <<>> THEN None ELSE Head(m.posts))

\* At most one retry timer runs, start_session_timeout names it, and none runs
\* while a session is open.  _SessionWaitTimer overwrites self.session and
\* _ScheduleRetrySession overwrites start_session_timeout without looking.
OneRetryTimer ==
  Running(m) =>
    /\ m.wait_timers = (IF m.start_session_timeout THEN 1 ELSE 0)
    /\ HasSession(m) => m.wait_timers = 0

\* A callback registered with session.RunAtEnd (the reboot of a Reboot RPC)
\* is only ever waiting while there is a session whose end will run it.
EndCallbacksServed == Running(m) /\ m.run_at_end => HasSession(m)

\* No event joins the queue during a session: what InformResponseReceived and
\* TransferCompleteReceived remove was announced in this session's Inform.
SessionEventsAnnounced ==
  Running(m) /\ HasSession(m) => m.event_queue \subseteq m.informed

\* The comment in NewPeriodicSession: a periodic event still in the queue means
\* that a session runs or that a retry timer will start one.
PeriodicHasRetry ==
  Running(m) /\ Queued(m, Periodic) =>
    HasSession(m) \/ m.start_session_timeout

-----------------------------------------------------------------------------
(* Action properties *)

Waiting(type) == m.posts # <<>> /\ Head(m.posts).type = type

\* An event leaves the queue only when the ACS answers the POST that settles
\* it, after it was announced in that session's Inform.  A ping removes an older
\* connection request before it asks for a session, and forgets it for good when
\* the ACS is disabled; a dying process forgets all.
EventSettled(ev) ==
  \/ ~Running(m)'
  \/ /\ ev.reason \in InformReasons
     /\ Waiting("Inform")
     /\ ev \in Head(m.posts).events
  \/ /\ ev.reason \in TransferReasons
     /\ Waiting("TransferComplete")
     /\ ev \in m.informed
  \/ ev = ConnectionRequest /\ acs_disabled /\ ~HasSession(m)'

EventsAcknowledged == \A ev \in m.event_queue \ m'.event_queue : EventSettled(ev)

\* A changed parameter is forgotten only when the ACS acknowledges an Inform
\* that carried it; a change made after that Inform was posted is kept.
ChangesAcknowledged ==
  \A p \in (m.changed \cup m.changed_sent) \ (m'.changed \cup m'.changed_sent) :
    \/ ~Running(m)'
    \/ p \notin m.changed /\ Waiting("Inform") /\ p \in Head(m.posts).params

\* Nothing the ACS has to know is forgotten before it said that it knows: neither an
\* event nor a changed parameter.
ForgottenOnlyWhenAcknowledged == [][EventsAcknowledged /\ ChangesAcknowledged]_m

-----------------------------------------------------------------------------
(* The abstract exchange *)

Exchange ==
  INSTANCE CwmpExchange WITH
    phase <- IF ~Running(m) \/ ~HasSession(m) THEN "idle"
             ELSE IF m.session.state = "NOMORE" THEN "drained" ELSE "open",
    wire  <- IF ~Running(m) \/ m.posts = <<>> THEN "none" ELSE Head(m.posts).type

\* Every step of the state machine is a step of the CWMP exchange: one Inform,
\* first; no request after the empty message; no session left half way except
\* by failure.
ExchangeSpec == Exchange!Spec

-----------------------------------------------------------------------------
(* Liveness *)

\* The ioloop runs every timer and starts a periodic session every interval;
\* the babysitter restarts a dead process.  Every POST is answered (fetch has a
\* request_timeout), and an ACS that fails does not fail forever in the same
\* way: a message that is posted again and again is at last answered as the
\* protocol calls for.
Proper == {"InformResponse", "TransferCompleteResponse", "Empty"}

Fairness ==
  /\ WF_vars(Startup)
  /\ WF_vars(Respawn)
  /\ WF_vars(FindUrl)
  /\ WF_vars(SessionWaitTimer)
  /\ WF_vars(NewTimeoutPingSession)
  /\ WF_vars(RateLimitExpires)
  /\ WF_vars(NewPeriodicSession)
  /\ WF_vars(\E reply \in AllReplies : GotResponse(reply))
  /\ \A reply \in Proper : SF_vars(GotResponse(reply))

FairSpec == Spec /\ Fairness

InformPosted == Running(m) /\ Waiting("Inform")

\* "$SPEC3 3.2.2 initiate at most one new session after this one closes": a
\* ping that arrives during a session leads to another session, for a connection
\* request or for the changes that came in meanwhile; should the session fail
\* instead, the retry informs the ACS.
RetryPending == Running(m) /\ m.start_session_timeout

PingServed ==
  /\ (Running(m) /\ m.session.ping_received) ~>
       (\/ ~Running(m)
        \/ RetryPending
        \/ InformPosted /\ {ConnectionRequest, ValueChange} \cap Head(m.posts).events # {})
  /\ RetryPending ~> (~Running(m) \/ InformPosted)

\* A changed parameter is at last put in an Inform, unless the process dies.
\* (That it then leaves changed_sent only when acknowledged is
\* ForgottenOnlyWhenAcknowledged.)
ChangesReported ==
  \A p \in Params :
    (Running(m) /\ p \in m.changed) ~> (~Running(m) \/ p \in m.changed_sent)

\* A TransferComplete that waits in request_queue is POSTed, if need be in a
\* later session, unless the process dies.
TransferCompletePosted ==
  \A key \in Keys :
    (Running(m) /\ TransferComplete(key) \in SeqRange(m.request_queue)) ~>
      (~Running(m) \/ Waiting("TransferComplete"))
=============================================================================
