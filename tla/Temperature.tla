---------------------------- MODULE Temperature ----------------------------
(***************************************************************************)
(* dm/temperature.py: a temperature sensor.  It is polled at an interval,  *)
(* keeps the extremes and the times of the last alarms, and takes its      *)
(* configuration in transactions: SetParameterValues (tr/api.py) starts    *)
(* one, calls setters, and commits or abandons it within one callback.     *)
(*                                                                         *)
(* Time is the number of samples taken; 0 is the Unknown Time.  A sensor   *)
(* that cannot be read gives BadCelsius, a reading like any other to       *)
(* SampleTemperature.                                                      *)
(***************************************************************************)
EXTENDS Integers

CONSTANTS Readings,   \* temperatures the hardware may give
          Thresholds, \* alarm values the ACS may set
          Intervals,  \* polling intervals, DefaultPoll among them
          DefaultPoll,
          MaxTime     \* bound of the clock

BadCelsius == -274
Unset == -1000   \* None

\* What is assumed of the constants.
TemperatureAssumption ==
  /\ Readings \subseteq Int \ {Unset} /\ Thresholds \subseteq Int \ {Unset}
  /\ Intervals \subseteq Nat \ {0} /\ DefaultPoll \in Intervals /\ MaxTime \in Nat

VARIABLES
  config,     \* enable, interval, high, low
  scheduler,  \* the interval of the PeriodicCallback that runs, 0 without one
  value, minValue, maxValue,
  highTime, lowTime,   \* _high_alarm_time, _low_alarm_time
  resetHigh, resetLow, \* _do_reset_high_alarm_time, _do_reset_low_alarm_time
  now,
  highSeen, lowSeen \* history: the highest and lowest reading since the alarm value was set

tempVars == <<config, scheduler, value, minValue, maxValue, highTime, lowTime,
              resetHigh, resetLow, now, highSeen, lowSeen>>

Larger(a, b)  == IF a = Unset \/ b > a THEN b ELSE a
Smaller(a, b) == IF a = Unset \/ b < a THEN b ELSE a

\* SampleTemperature on a sensor s that reads t.
Sample(s, t) ==
  [s EXCEPT !.value = t, !.now = @ + 1,
            !.min = Smaller(@, t), !.max = Larger(@, t),
            !.highTime = IF s.config.high # Unset /\ t > s.config.high THEN s.now + 1 ELSE @,
            !.lowTime  = IF s.config.low # Unset /\ t < s.config.low THEN s.now + 1 ELSE @,
            !.highSeen = Larger(@, t), !.lowSeen = Smaller(@, t)]

\* Mutation: an alarm stays when its threshold changes.
AlarmsStay(s, t) ==
  Sample([s EXCEPT !.highSeen = IF s.resetHigh THEN Unset ELSE @,
                   !.lowSeen  = IF s.resetLow THEN Unset ELSE @,
                   !.resetHigh = FALSE, !.resetLow = FALSE,
                   !.scheduler = IF s.config.enable THEN s.config.interval ELSE 0], t)

\* _Configure: the alarms of thresholds that were set are cleared, the poller is
\* replaced, and the new thresholds are tried at once, enabled or not.
Configure(s, t) ==
  Sample([s EXCEPT !.highTime = IF s.resetHigh THEN 0 ELSE @,
                   !.lowTime  = IF s.resetLow THEN 0 ELSE @,
                   !.highSeen = IF s.resetHigh THEN Unset ELSE @,
                   !.lowSeen  = IF s.resetLow THEN Unset ELSE @,
                   !.resetHigh = FALSE, !.resetLow = FALSE,
                   !.scheduler = IF s.config.enable THEN s.config.interval ELSE 0], t)

\* _ResetReadings
ResetReadings(s) ==
  [s EXCEPT !.highTime = 0, !.lowTime = 0, !.resetHigh = FALSE, !.resetLow = FALSE,
            !.min = Unset, !.max = Unset, !.value = BadCelsius]

Sensor == [config |-> config, scheduler |-> scheduler, value |-> value, min |-> minValue,
           max |-> maxValue, highTime |-> highTime, lowTime |-> lowTime,
           resetHigh |-> resetHigh, resetLow |-> resetLow, now |-> now,
           highSeen |-> highSeen, lowSeen |-> lowSeen]
Become(s) ==
  /\ config' = s.config /\ scheduler' = s.scheduler /\ value' = s.value
  /\ minValue' = s.min /\ maxValue' = s.max /\ highTime' = s.highTime
  /\ lowTime' = s.lowTime /\ resetHigh' = s.resetHigh /\ resetLow' = s.resetLow
  /\ now' = s.now /\ highSeen' = s.highSeen /\ lowSeen' = s.lowSeen

\* TemperatureSensor.__init__, after which AddSensor samples again.
Init ==
  \E t \in Readings \cup {BadCelsius} :
    LET new == Sample(Configure(
                 [config |-> [enable |-> TRUE, interval |-> DefaultPoll, high |-> Unset, low |-> Unset],
                  scheduler |-> 0, value |-> BadCelsius, min |-> Unset, max |-> Unset,
                  highTime |-> 0, lowTime |-> 0, resetHigh |-> FALSE, resetLow |-> FALSE,
                  now |-> 0, highSeen |-> Unset, lowSeen |-> Unset], t), t)
    IN /\ config = new.config /\ scheduler = new.scheduler /\ value = new.value
       /\ minValue = new.min /\ maxValue = new.max /\ highTime = 0 /\ lowTime = 0
       /\ resetHigh = FALSE /\ resetLow = FALSE /\ now = new.now
       /\ highSeen = new.highSeen /\ lowSeen = new.lowSeen
---------------------------------------------------------------------------
\* The setters.  Only the configuration is copied by StartTransaction.
SetEnable(s, on) == [s EXCEPT !.config.enable = on]
SetPollingInterval(s, v) == [s EXCEPT !.config.interval = IF v = 0 THEN DefaultPoll ELSE v]
SetHighAlarmValue(s, v) == [s EXCEPT !.config.high = v, !.resetHigh = TRUE]
SetLowAlarmValue(s, v) == [s EXCEPT !.config.low = v, !.resetLow = TRUE]

\* What one parameter of a request may do.
Assignments(s) ==
  {SetEnable(s, on) : on \in BOOLEAN}
    \cup {SetPollingInterval(s, v) : v \in Intervals \cup {0}}
    \cup {SetHighAlarmValue(s, v) : v \in Thresholds}
    \cup {SetLowAlarmValue(s, v) : v \in Thresholds}
    \cup {ResetReadings(s)}

\* AbandonTransaction puts the configuration back, nothing else.
AbandonTransaction(s) == [s EXCEPT !.config = config]

Commit == /\ now < MaxTime
          /\ \E s \in Assignments(Sensor), t \in Readings \cup {BadCelsius} :
               Become(Configure(s, t))

Abandon == \E s \in Assignments(Sensor) : Become(AbandonTransaction(s))

\* The PeriodicCallback runs.
SampleTemperature ==
  /\ scheduler # 0 /\ now < MaxTime
  /\ \E t \in Readings \cup {BadCelsius} : Become(Sample(Sensor, t))

Next == Commit \/ Abandon \/ SampleTemperature
Spec == Init /\ [][Next]_tempVars
---------------------------------------------------------------------------
TypeOK ==
  /\ config \in [enable : BOOLEAN, interval : Intervals, high : Thresholds \cup {Unset},
                 low : Thresholds \cup {Unset}]
  /\ scheduler \in Intervals \cup {0} /\ value \in Int
  /\ minValue \in Int /\ maxValue \in Int /\ now \in 0..MaxTime + 2
  /\ highTime \in 0..now /\ lowTime \in 0..now
  /\ resetHigh \in BOOLEAN /\ resetLow \in BOOLEAN /\ highSeen \in Int /\ lowSeen \in Int

\* One poller runs, at the committed interval, exactly while the sensor is enabled,
\* whatever was committed and abandoned (TemperatureSensor._Configure).
PolledAsConfigured == scheduler = IF config.enable THEN config.interval ELSE 0

\* An alarm time stands for a reading beyond the alarm value in force, taken since that
\* value was set (HighAlarmTime and LowAlarmTime across transactions).
AlarmsMeanReadings ==
  /\ highTime # 0 => config.high # Unset /\ highSeen > config.high
  /\ lowTime # 0 => config.low # Unset /\ lowSeen < config.low
===========================================================================
