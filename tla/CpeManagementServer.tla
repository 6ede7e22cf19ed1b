------------------------ MODULE CpeManagementServer ------------------------
(***************************************************************************)
(* The clocks of the CWMP engine, tr/cpe_management_server.py: the periodic*)
(* inform that its parameters configure, and the time to wait before a     *)
(* session that failed is tried again.                                     *)
(*                                                                         *)
(* Assignments to parameters come from the ACS (SetParameterValues), the   *)
(* other actions from the ioloop and from CPEStateMachine.  The offset that*)
(* PeriodicInformTime gives to the first inform is left out: the start     *)
(* timer may fire at any time.                                             *)
(*                                                                         *)
(* A definition marked "Mutation" is a plausible bug, used by no other     *)
(* definition.                                                             *)
(***************************************************************************)
EXTENDS Integers

CONSTANTS
  Intervals,      \* values assigned to PeriodicInformInterval
  MinimumWaits,   \* values of CWMPRetryMinimumWaitInterval, seconds
  Multipliers,    \* values of CWMPRetryIntervalMultiplier / 1000, as <<p, q>>
  StartupSessions,  \* short intervals after start: 5 in the program
  ShortInterval,    \* 60 in the program
  LongInterval,     \* 15 * 60 in the program
  MaxRetryCount     \* bound: failed sessions in a row

\* What is assumed of the constants.
ServerAssumption ==
  /\ Intervals \subseteq Int
  /\ 5 \in MinimumWaits /\ MinimumWaits \subseteq Nat
  /\ <<2, 1>> \in Multipliers /\ Multipliers \subseteq Nat \X (Nat \ {0})
  /\ StartupSessions \in Nat
  /\ ShortInterval \in Nat \ {0} /\ LongInterval \in Nat \ {0}
  /\ MaxRetryCount \in Nat

VARIABLES
  enable,         \* PeriodicInformEnable
  interval,       \* _periodic_interval: 0 until it is assigned
  startup,        \* _periodic_intervals_startup
  period,         \* interval of the PERIODIC_CALLBACK object, 0 if there is none
  started,        \* that object has been started
  start_timeout,  \* StartPeriodicInform is in the ioloop
  minimum_wait,   \* CWMPRetryMinimumWaitInterval
  multiplier,     \* CWMPRetryIntervalMultiplier
  retry_count,    \* CPEStateMachine.retry_count
  wait,           \* the range that the last SessionRetryWait drew from
  exited          \* a callback raised an exception: the program exits

periodic == <<period, started, start_timeout>>
retry    == <<retry_count, wait, exited>>
vars == <<enable, interval, startup, periodic, minimum_wait, multiplier, retry>>

\* GetPeriodicInformInterval
PeriodicInformInterval ==
  IF interval # 0 THEN interval
  ELSE IF startup > 0 THEN ShortInterval ELSE LongInterval

-----------------------------------------------------------------------------
(* SessionRetryWait: floating point taken as exact *)

NoWait == [start |-> 0, stop |-> 0]

Smaller(a, b) == IF a <= b THEN a ELSE b

\* Mutation: ten failed sessions begin the count anew.
ExponentWraps(count) == ((count - 1) % 10) + 1
Exponent(count) == IF count >= 10 THEN 10 ELSE count

\* Mutation: only the start of the range is pinned.
PinnedNever(value, limit) == value
Pinned(value, limit) == Smaller(value, limit)

\* b to the power of n.
Power(b, n) ==
  LET power[i \in 0..n] == IF i = 0 THEN 1 ELSE b * power[i - 1] IN power[n]

\* With k = p/q the range is m * k^(c-1) .. m * k^c, in whole seconds, pinned to
\* the interval over k and to the interval.  It is the argument of random.randrange,
\* which raises ValueError when the range is empty; k = 0 raises in the division.
RetryRange(count, m, k, limit) ==
  LET c == Exponent(count)
      p == k[1]
      q == k[2]
  IN  IF p = 0 THEN NoWait
      ELSE [start |-> Smaller((m * Power(p, c - 1)) \div Power(q, c - 1), (limit * q) \div p),
            stop  |-> Pinned((m * Power(p, c)) \div Power(q, c), limit)]

\* An interval of 0 or less does not limit the wait; 30 seconds do.
SessionRetryWait(count) ==
  RetryRange(count, minimum_wait, multiplier,
             IF PeriodicInformInterval <= 0 THEN 30 ELSE PeriodicInformInterval)

-----------------------------------------------------------------------------
(* Periodic inform *)

\* Mutation: the start timer of the old callback is left in the ioloop.
ConfigureKeepsTimeout(enabled) ==
  /\ started' = FALSE
  /\ IF enabled /\ PeriodicInformInterval > 0
     THEN period' = PeriodicInformInterval /\ start_timeout' = TRUE
     ELSE period' = 0 /\ UNCHANGED start_timeout

\* ConfigurePeriodicInform: the old callback and its start timer are removed.
\* No assignment that ends here changes PeriodicInformInterval.
ConfigurePeriodicInform(enabled) ==
  /\ started' = FALSE
  /\ IF enabled /\ PeriodicInformInterval > 0
     THEN period' = PeriodicInformInterval /\ start_timeout' = TRUE
     ELSE period' = 0 /\ start_timeout' = FALSE

\* __init__ with the default values of the parameters.
Init ==
  /\ enable = TRUE
  /\ interval = 0
  /\ startup = StartupSessions
  /\ period = PeriodicInformInterval
  /\ started = FALSE
  /\ start_timeout = TRUE
  /\ minimum_wait = 5
  /\ multiplier = <<2, 1>>
  /\ retry_count = 0
  /\ wait = NoWait
  /\ exited = FALSE

\* A cwmptypes.Trigger parameter calls Triggered when its value changes.
SetPeriodicInformEnable ==
  /\ ~exited
  /\ enable' = ~enable
  /\ ConfigurePeriodicInform(~enable)
  /\ UNCHANGED <<interval, startup, minimum_wait, multiplier, retry>>

SetRetryMinimumWait(m) ==
  /\ ~exited
  /\ m # minimum_wait
  /\ minimum_wait' = m
  /\ ConfigurePeriodicInform(enable)
  /\ UNCHANGED <<enable, interval, startup, multiplier, retry>>

SetRetryMultiplier(k) ==
  /\ ~exited
  /\ k # multiplier
  /\ multiplier' = k
  /\ ConfigurePeriodicInform(enable)
  /\ UNCHANGED <<enable, interval, startup, minimum_wait, retry>>

\* SetPeriodicInformInterval is no Trigger: it assigns, and that is all.
SetPeriodicInformInterval(value) ==
  /\ ~exited
  /\ interval' = value
  /\ UNCHANGED <<enable, startup, periodic, minimum_wait, multiplier, retry>>

\* Mutation: the count goes on below zero.
SuccessfulSessionAlways ==
  /\ ~exited
  /\ startup' = startup - 1
  /\ UNCHANGED <<enable, interval, periodic, minimum_wait, multiplier, retry>>

\* SuccessfulSession: one POST was answered.
SuccessfulSession ==
  /\ ~exited
  /\ startup > 0
  /\ startup' = startup - 1
  /\ UNCHANGED <<enable, interval, periodic, minimum_wait, multiplier, retry>>

StartPeriodicInform ==
  /\ ~exited
  /\ start_timeout
  /\ start_timeout' = FALSE
  /\ started' = TRUE
  /\ UNCHANGED <<enable, interval, startup, period, minimum_wait, multiplier, retry>>

\* _ScheduleRetrySession after a failed session.
ScheduleRetry ==
  /\ ~exited
  /\ retry_count < MaxRetryCount
  /\ retry_count' = retry_count + 1
  /\ wait' = SessionRetryWait(retry_count')
  /\ exited' = (wait'.start >= wait'.stop)
  /\ UNCHANGED <<enable, interval, startup, periodic, minimum_wait, multiplier>>

\* A session that closes normally, or _CancelSessionRetries.
ResetRetry ==
  /\ ~exited
  /\ retry_count > 0
  /\ retry_count' = 0
  /\ wait' = NoWait
  /\ UNCHANGED <<enable, interval, startup, periodic, minimum_wait, multiplier, exited>>

\* IOLoopWrapper.handle_callback_exception, and the babysitter.  No parameter of
\* the object outlives the process.
Respawn ==
  /\ exited
  /\ enable' = TRUE
  /\ interval' = 0
  /\ startup' = StartupSessions
  /\ period' = PeriodicInformInterval'
  /\ started' = FALSE
  /\ start_timeout' = TRUE
  /\ minimum_wait' = 5
  /\ multiplier' = <<2, 1>>
  /\ retry_count' = 0
  /\ wait' = NoWait
  /\ exited' = FALSE

Next ==
  \/ SetPeriodicInformEnable
  \/ \E m \in MinimumWaits : SetRetryMinimumWait(m)
  \/ \E k \in Multipliers : SetRetryMultiplier(k)
  \/ \E value \in Intervals : SetPeriodicInformInterval(value)
  \/ SuccessfulSession
  \/ StartPeriodicInform
  \/ ScheduleRetry
  \/ ResetRetry
  \/ Respawn

Spec == Init /\ [][Next]_vars

-----------------------------------------------------------------------------
(* Properties *)

\* The parameters and timers have the values their types allow.
TypeOK ==
  /\ enable \in BOOLEAN
  /\ interval \in Intervals \cup {0}
  /\ startup \in 0..StartupSessions
  /\ period \in Int
  /\ started \in BOOLEAN
  /\ start_timeout \in BOOLEAN
  /\ minimum_wait \in MinimumWaits
  /\ multiplier \in Multipliers
  /\ retry_count \in 0..MaxRetryCount
  /\ wait \in [start : Nat, stop : Nat]
  /\ exited \in BOOLEAN

\* StartPeriodicInform calls start() on the callback without a look: whatever is
\* assigned in between, the callback it was scheduled for is there, it is
\* started once, and it is there only while informs are enabled.
TimerHasCallback ==
  /\ period > 0 <=> (started \/ start_timeout)
  /\ ~(started /\ start_timeout)
  /\ period > 0 => enable

\* "The retry has a maximum timer of periodic session" (http.py): no wait is
\* longer than the interval in force when it was drawn.
RetryWithinPeriod ==
  [][retry_count' > retry_count /\ PeriodicInformInterval > 0 =>
       wait'.stop <= PeriodicInformInterval]_vars

\* While nothing was reconfigured, a session that fails again waits at least as
\* long as it did before.  (With a multiplier below 1 the range of the first wait
\* is empty already, and the process exits.)
RetryBacksOff ==
  [][retry_count' > retry_count /\ wait # NoWait
       /\ wait = SessionRetryWait(retry_count) =>
         wait'.start >= wait.start /\ wait'.stop >= wait.stop]_vars
=============================================================================
