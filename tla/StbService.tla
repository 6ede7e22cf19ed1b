---------------------------- MODULE StbService ----------------------------
(***************************************************************************)
(* platform/gfmedia/stbservice.py: the multicast groups of the set-top     *)
(* box, numbered for the ACS; the statistics its player leaves in JSON     *)
(* files, read once per session; and the stall alarm, which the first read *)
(* of a stalled stream sets and a timer resets.                            *)
(*                                                                         *)
(* A file's content is the number of milliseconds its stream has been      *)
(* without data (StallTime), or Absent; the other getters of the same      *)
(* record take their fields from the same snapshot.  The session cache is  *)
(* flushed only when a session closes (tr/session.py).                     *)
(***************************************************************************)
EXTENDS Integers, FiniteSets, Functions

CONSTANTS Groups,      \* multicast addresses the kernel may be member of
          Streams,     \* MainStream instances
          StallTimes,  \* values of StallTime the player may write
          ResetTimes,  \* values of StallAlarmResetTime, in ticks
          MaxNow       \* bound of the clock

\* What is assumed of the constants.
StbAssumption == /\ StallTimes \subseteq Nat /\ ResetTimes \subseteq Nat \ {0}
                 /\ MaxNow \in Nat \ {0} /\ ResetTimes # {} /\ IsFiniteSet(Groups)

Absent == -1

VARIABLES
  igmp,        \* /proc/net/igmp: the groups the kernel is a member of
  clientGroups,\* IGMP._ClientGroups: instance number -> group
  numbered,    \* _UpdateClientGroups is in the session cache
  monitor,     \* the JSON file of each stream
  data,        \* Total.data of each stream: what was last read of it
  cached,      \* the streams whose _UpdateStats is in the session cache
  alarm,       \* stall_alarm_time; 0 is no alarm
  timers,      \* deadlines of the _StallAlarmReset timers that are pending
  resetTime,   \* X_CATAWAMPUS-ORG_StallAlarmResetTime
  threshold,   \* X_CATAWAMPUS-ORG_StallAlarmValue; 0 turns the alarm off
  shown,       \* history: the contents this session read of each stream
  now

stbVars == <<igmp, clientGroups, numbered, monitor, data, cached, alarm, timers,
             resetTime, threshold, shown, now>>
groupVars  == <<igmp, clientGroups, numbered>>
statsVars  == <<monitor, data, cached, shown>>
alarmVars  == <<alarm, timers, resetTime, threshold>>

Init == /\ igmp \in SUBSET Groups /\ clientGroups = <<>> /\ numbered = FALSE
        /\ monitor = [s \in Streams |-> Absent] /\ data = monitor
        /\ cached = {} /\ shown = [s \in Streams |-> {}]
        /\ alarm = 0 /\ timers = {} /\ threshold = 0 /\ now = 1
        /\ resetTime \in ResetTimes
---------------------------------------------------------------------------
\* Multicast groups.

\* Mutation: the groups are numbered anew.
NumberedAnew(old, groups) ==
  {l \in [1..Cardinality(groups) -> groups] : IsInjective(l)}

\* _UpdateClientGroups: groups known before keep their instance number, the
\* others take unused ones of 1..the number of groups, in any order (set.pop).
Renumbered(old, groups) ==
  LET kept  == {i \in DOMAIN old : old[i] \in groups}
      fresh == groups \ {old[i] : i \in kept}
      free  == (1..Cardinality(groups)) \ kept
  IN {[i \in kept \cup Range(number) |->
         IF i \in kept THEN old[i] ELSE CHOOSE g \in fresh : number[g] = i] :
        number \in {f \in [fresh -> free] : IsInjective(f)}}

\* IterClientGroups, GetClientGroupByIndex: once per session.
ListGroups ==
  /\ ~numbered
  /\ numbered' = TRUE
  /\ clientGroups' \in Renumbered(clientGroups, igmp)
  /\ UNCHANGED <<igmp, statsVars, alarmVars, now>>

\* The kernel joins or leaves a group.
Membership ==
  /\ \E g \in Groups : igmp' = IF g \in igmp THEN igmp \ {g} ELSE igmp \cup {g}
  /\ UNCHANGED <<clientGroups, numbered, statsVars, alarmVars, now>>
---------------------------------------------------------------------------
\* Statistics of the streams.

\* Mutation: the files are read at every call.
ReadAgain(ss) ==
  /\ data' = [s \in Streams |-> IF s \in ss THEN monitor[s] ELSE data[s]]
  /\ cached' = cached \cup ss
  /\ shown' = [s \in Streams |-> IF s \in ss THEN shown[s] \cup {data'[s]} ELSE shown[s]]

\* Total._UpdateStats for the streams of ss: read what the cache does not hold.
UpdateStats(ss) ==
  LET read == ss \ cached
  IN /\ data' = [s \in Streams |-> IF s \in read THEN monitor[s] ELSE data[s]]
     /\ cached' = cached \cup read
     /\ shown' = [s \in Streams |-> IF s \in ss THEN shown[s] \cup {data'[s]} ELSE shown[s]]

\* A getter of DejitteringStats, MPEG2TSStats, TCPStats, MulticastStats or DecoderStats.
ReadStats(s) ==
  /\ UpdateStats({s})
  /\ UNCHANGED <<groupVars, monitor, alarmVars, now>>

\* The player writes or removes the file of a stream.
Monitor(s, v) ==
  /\ monitor[s] # v
  /\ monitor' = [monitor EXCEPT ![s] = v]
  /\ UNCHANGED <<groupVars, data, cached, shown, alarmVars, now>>
---------------------------------------------------------------------------
\* The stall alarm.

\* _CheckForStall on the snapshot d.
CheckForStall(d) == threshold # 0 /\ \E s \in Streams : d[s] > threshold

\* GetAlarmTime: an unset alarm reads every stream, and is set if one is stalled.
\* The loop of _CheckForStall stops at the first stalled stream: the streams of
\* ss are those it reaches, all of them if none is stalled.
GetAlarmTime ==
  /\ \/ /\ alarm # 0
        /\ UNCHANGED <<data, cached, shown, alarm, timers>>
     \/ /\ alarm = 0
        /\ \E ss \in SUBSET Streams :
             /\ UpdateStats(ss)
             /\ IF CheckForStall([s \in Streams |-> IF s \in ss THEN data'[s] ELSE Absent])
                THEN /\ \E last \in ss : data'[last] > threshold
                          /\ \A s \in ss \ {last} : data'[s] <= threshold
                     /\ alarm' = now
                     /\ timers' = timers \cup {now + resetTime}
                ELSE /\ ss = Streams
                     /\ UNCHANGED <<alarm, timers>>
  /\ UNCHANGED <<groupVars, monitor, resetTime, threshold, now>>

\* SetAlarmTime: any write clears the alarm.  The timer stays.
SetAlarmTime ==
  /\ alarm' = 0
  /\ UNCHANGED <<groupVars, statsVars, timers, resetTime, threshold, now>>

\* _StallAlarmReset: the timer fires.
StallAlarmReset ==
  /\ \E t \in timers : t <= now /\ timers' = timers \ {t}
  /\ alarm' = 0
  /\ UNCHANGED <<groupVars, statsVars, resetTime, threshold, now>>

\* The ACS sets StallAlarmResetTime or StallAlarmValue.
Configure ==
  /\ \/ resetTime' \in ResetTimes /\ UNCHANGED threshold
     \/ threshold' \in {0, 1} /\ UNCHANGED resetTime
  /\ UNCHANGED <<groupVars, statsVars, alarm, timers, now>>
---------------------------------------------------------------------------
\* CwmpSession.close flushes the session cache.
CloseSession ==
  /\ numbered' = FALSE /\ cached' = {} /\ shown' = [s \in Streams |-> {}]
  /\ UNCHANGED <<igmp, clientGroups, monitor, data, alarmVars, now>>

\* Time passes; the loop runs a timer that is due before it.
Tick == /\ now < MaxNow /\ \A t \in timers : t > now
        /\ now' = now + 1
        /\ UNCHANGED <<groupVars, statsVars, alarmVars>>

Next == \/ ListGroups \/ Membership
        \/ \E s \in Streams : ReadStats(s) \/ \E v \in StallTimes \cup {Absent} : Monitor(s, v)
        \/ GetAlarmTime \/ SetAlarmTime \/ StallAlarmReset \/ Configure
        \/ CloseSession \/ Tick

Spec == Init /\ [][Next]_stbVars
---------------------------------------------------------------------------
TypeOK ==
  /\ igmp \subseteq Groups /\ numbered \in BOOLEAN
  /\ Range(clientGroups) \subseteq Groups
  /\ monitor \in [Streams -> StallTimes \cup {Absent}]
  /\ data \in [Streams -> StallTimes \cup {Absent}] /\ cached \subseteq Streams
  /\ alarm \in 0..MaxNow /\ now \in 1..MaxNow
  /\ timers \subseteq Nat /\ resetTime \in ResetTimes /\ threshold \in Nat

\* Instance numbers are stable and exact: a group the ACS has been told of keeps
\* its number while each list holds it, no number or group is listed twice, and no
\* number exceeds the groups there can be (IGMP._UpdateClientGroups).
NumbersStable ==
  [][/\ IsInjective(clientGroups')
     /\ DOMAIN clientGroups' \subseteq 1..Cardinality(Groups)
     /\ \A i \in DOMAIN clientGroups :
          clientGroups[i] \in Range(clientGroups')
            => i \in DOMAIN clientGroups' /\ clientGroups'[i] = clientGroups[i]]_stbVars

\* What one session reads of a stream is one snapshot, whatever the player writes
\* in between and whichever getters read it (Total._UpdateStats and the cache).
OneSnapshot == \A s \in Streams : Cardinality(shown[s]) <= 1

\* An alarm that is set has a timer that resets it, however often it was cleared
\* and set again (ServiceMonitoring.GetAlarmTime, SetAlarmTime).
AlarmHasTimer == alarm # 0 => \E t \in timers : t > alarm
===========================================================================
