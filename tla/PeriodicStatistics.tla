------------------------- MODULE PeriodicStatistics -------------------------
(***************************************************************************)
(* dm/periodic_statistics.py: sample sets that the ACS creates, configures *)
(* and deletes, each with a timer of its own, and the cache of             *)
(* tr/session.py, through which the samples are read.                      *)
(*                                                                         *)
(* An iteration of the ioloop is a Tick, which also runs the callbacks that*)
(* the last iteration left (add_callback), then the timers that are due,   *)
(* then the events: RPCs, reads of the data model.  Time stands still in   *)
(* between.  Times are whole seconds: the tenth of a second that           *)
(* SetSampleTrigger adds only makes a timer fire after the second began.   *)
(*                                                                         *)
(* A definition marked "Mutation" is a plausible bug, used by no other     *)
(* definition.                                                             *)
(***************************************************************************)
EXTENDS Integers, Sequences, FiniteSets, SequencesExt

CONSTANTS
  Sets,            \* instances of PeriodicStatistics.SampleSet; there may be others
  Slots,           \* instances of SampleSet.Parameter, in each set
  Resolving,       \* references that name a parameter of the data model
  Dangling,        \* references that do not
  Reports,         \* values the ACS assigns to ReportSamples,
  Fetches,         \* to FetchSamples,
  Intervals,       \* to SampleInterval,
  TimeReferences,  \* to TimeReference (in seconds; 0 is the default),
  Notifications,   \* and to the attribute Notification of the set's Status
  Delays,          \* how many seconds an iteration may take
  MaxTime          \* bound: when time stops

None == -1           \* no time
NoReference == ""    \* a Parameter whose Reference is None

ASSUME StatisticsAssumption ==
  /\ Resolving \cap Dangling = {}
  /\ NoReference \notin Resolving \cup Dangling
  /\ Reports \subseteq Nat \ {0} /\ Intervals \subseteq Nat \ {0}
  /\ Fetches \subseteq Nat /\ TimeReferences \subseteq Nat
  /\ Notifications \subseteq 0..2
  /\ Delays \subseteq Nat
  /\ MaxTime \in Nat

VARIABLES
  now,          \* TIMEFUNC()
  sets,         \* SampleSetList
  timers,       \* what add_timeout was given: <<set, when it is due>>
  cache,        \* session.cache: when the cached value of a reference was read
  needs_flush,  \* _needs_flush
  callbacks,    \* _EnableFlush was given to add_callback
  notified      \* observation only: the sets whose Status the last step reported

vars == <<now, sets, timers, cache, needs_flush, callbacks, notified>>

\* What the steps read, the view of the run: notified only tells what the last one did.
Program == <<now, sets, timers, cache, needs_flush, callbacks>>

References == Resolving \cup Dangling
Times == 0..MaxTime

NewParameter == [ref |-> NoReference, times |-> <<>>, values |-> <<>>, missed |-> FALSE]

\* missed and trimmed are observations: a sample of the parameter failed, or
\* ReportSamples was assigned, since the data was cleared.
NewSampleSet ==
  [ params |-> [p \in {} |-> NewParameter],
    enable |-> FALSE, report |-> 0, interval |-> 0, fetch |-> 0, reference |-> 0,
    start |-> None, times |-> <<>>, collected |-> 0, pending |-> None,
    notification |-> 0, trimmed |-> FALSE ]

\* s[-n:] of Python, which is all of s if n is 0
LastN(s, n) == IF n = 0 \/ n >= Len(s) THEN s ELSE SubSeq(s, Len(s) - n + 1, Len(s))

Trim(param, n) ==
  [param EXCEPT !.times = LastN(@, IF n <= 0 THEN 1 ELSE n),
                !.values = LastN(@, IF n <= 0 THEN 1 ELSE n)]

ClearParameter(param) ==
  [param EXCEPT !.times = <<>>, !.values = <<>>, !.missed = FALSE]

\* SampleSet.ClearSamplingData
Clear(x) ==
  [x EXCEPT !.times = <<>>, !.collected = 0, !.trimmed = FALSE,
            !.params = [p \in DOMAIN @ |-> ClearParameter(@[p])]]

\* CalcTimeToNextSample, in whole seconds
TimeToNextSample(x) ==
  LET interval == IF x.interval < 1 THEN 1 ELSE x.interval
  IN  interval - ((now - x.reference) % interval)

Sampling(x) == x.enable /\ x.report > 0 /\ x.interval > 0

-----------------------------------------------------------------------------
(* Timers.  Each operator is an action for the set s, whose record is to   *)
(* become x; ts are the timers that are left.                              *)

Removed(s, x, ts) == ts \ {<<s, x.pending>>}

\* Mutation: the timer that was pending is not removed.
TriggerTwice(s, x, ts) ==
  LET due == now + TimeToNextSample(x)
  IN  /\ sets' = [sets EXCEPT ![s] = [x EXCEPT !.start = now, !.pending = due]]
      /\ timers' = ts \cup {<<s, due>>}

\* Mutation: the sample begins an interval before it is due, not now.
TriggerFromPhase(s, x, ts) ==
  LET due == now + TimeToNextSample(x)
  IN  /\ sets' = [sets EXCEPT ![s] = [x EXCEPT !.start = due - x.interval, !.pending = due]]
      /\ timers' = Removed(s, x, ts) \cup {<<s, due>>}

SetSampleTrigger(s, x, ts) ==
  LET due == now + TimeToNextSample(x)
  IN  /\ sets' = [sets EXCEPT ![s] = [x EXCEPT !.start = now, !.pending = due]]
      /\ timers' = Removed(s, x, ts) \cup {<<s, due>>}

StopSampling(s, x, ts) ==
  /\ sets' = [sets EXCEPT ![s] = [x EXCEPT !.pending = None]]
  /\ timers' = Removed(s, x, ts)

UpdateSampling(s, x) ==
  IF Sampling(x) THEN SetSampleTrigger(s, x, timers) ELSE StopSampling(s, x, timers)

-----------------------------------------------------------------------------
(* RPCs, between the timers of one iteration and the next *)

Due == {t \in timers : t[2] <= now}

Event == Due = {} /\ notified' = {} /\ UNCHANGED <<now, cache, needs_flush, callbacks>>

With(f, k, v) == [i \in DOMAIN f \cup {k} |-> IF i = k THEN v ELSE f[i]]
Without(f, k) == [i \in DOMAIN f \ {k} |-> f[i]]

AddSampleSet(s) ==
  /\ Event
  /\ s \notin DOMAIN sets
  /\ sets' = With(sets, s, NewSampleSet)
  /\ UNCHANGED timers

DeleteSampleSet(s) ==
  /\ Event
  /\ s \in DOMAIN sets
  /\ sets' = Without(sets, s)
  /\ timers' = Removed(s, sets[s], timers)

AddParameter(s, p) ==
  /\ Event
  /\ s \in DOMAIN sets /\ p \notin DOMAIN sets[s].params
  /\ sets' = [sets EXCEPT ![s].params = With(@, p, NewParameter)]
  /\ UNCHANGED timers

DeleteParameter(s, p) ==
  /\ Event
  /\ s \in DOMAIN sets /\ p \in DOMAIN sets[s].params
  /\ sets' = [sets EXCEPT ![s].params = Without(@, p)]
  /\ UNCHANGED timers

SetReference(s, p, ref) ==
  /\ Event
  /\ s \in DOMAIN sets /\ p \in DOMAIN sets[s].params
  /\ sets' = [sets EXCEPT ![s].params[p].ref = ref]
  /\ UNCHANGED timers

SetEnable(s, value) ==
  /\ Event
  /\ s \in DOMAIN sets
  /\ UpdateSampling(s, [(IF value THEN Clear(sets[s]) ELSE sets[s]) EXCEPT !.enable = value])

\* Mutation: the samples of the parameters are not trimmed.
ReportSetOnly(x, v) ==
  [x EXCEPT !.report = v, !.trimmed = TRUE, !.times = LastN(@, v)]

Report(x, v) ==
  [x EXCEPT !.report = v, !.trimmed = TRUE, !.times = LastN(@, v),
            !.params = [p \in DOMAIN @ |-> Trim(@[p], v)]]

SetReportSamples(s, v) ==
  /\ Event
  /\ s \in DOMAIN sets
  /\ UpdateSampling(s, Report(sets[s], v))

\* Mutation: a timer that is pending keeps its old interval.
IntervalKeepsTimer(s, v) ==
  LET x == Clear([sets[s] EXCEPT !.interval = v])
  IN  /\ Event
      /\ s \in DOMAIN sets
      /\ IF x.pending = None THEN UpdateSampling(s, x)
         ELSE sets' = [sets EXCEPT ![s] = x] /\ UNCHANGED timers

SetSampleInterval(s, v) ==
  /\ Event
  /\ s \in DOMAIN sets
  /\ UpdateSampling(s, Clear([sets[s] EXCEPT !.interval = v]))

SetFetchSamples(s, v) ==
  /\ Event
  /\ s \in DOMAIN sets
  /\ sets' = [sets EXCEPT ![s].fetch = v]
  /\ UNCHANGED timers

\* The pending timer keeps the phase it was set with.
SetTimeReference(s, v) ==
  /\ Event
  /\ s \in DOMAIN sets
  /\ sets' = [sets EXCEPT ![s] = [Clear(@) EXCEPT !.reference = v]]
  /\ UNCHANGED timers

\* SetAttributes, of the attribute Notification: 0 off, 1 passive, 2 active
SetAttributes(s, v) ==
  /\ Event
  /\ s \in DOMAIN sets
  /\ sets' = [sets EXCEPT ![s].notification = v]
  /\ UNCHANGED timers

-----------------------------------------------------------------------------
(* Samples *)

\* _FlushIfNewStatsSession, and the cache it leaves
Flushed == IF needs_flush THEN [r \in Resolving |-> None] ELSE cache

\* What a getter with @session.cache returns: when its value was read.
Read(c, r) == IF c[r] = None THEN now ELSE c[r]

\* Mutation: a value is appended although the parameter was not found.
CollectUnresolved(param, report, start) ==
  Trim([param EXCEPT !.values = Append(@, IF param.ref \in Resolving
                                          THEN Read(Flushed, param.ref) ELSE None),
                     !.times  = Append(@, <<start, now>>)],
       report)

\* Parameter.CollectSample
CollectParameter(param, report, start) ==
  Trim(IF param.ref \in Resolving
       THEN [param EXCEPT !.values = Append(@, Read(Flushed, param.ref)),
                          !.times  = Append(@, <<start, now>>)]
       ELSE [param EXCEPT !.missed = TRUE],
       report)

\* Mutation: FetchSamples may be greater than ReportSamples.
FetchSamplesReached(x) == x.collected > 0 /\ 0 < x.fetch /\ x.collected % x.fetch = 0

FetchSamplesTriggered(x) ==
  /\ x.collected > 0
  /\ 0 < x.fetch /\ x.fetch <= x.report
  /\ x.collected % x.fetch = 0

\* A sample, from the last trigger to now.
Collected(x) ==
  LET start == IF x.start = None THEN now ELSE x.start
  IN  [x EXCEPT !.start = None,
                !.collected = @ + 1,
                !.times = LastN(Append(@, <<start, now>>), x.report),
                !.params = [p \in DOMAIN @ |-> CollectParameter(@[p], x.report, start)]]

\* The part of CollectSample that all sets share: flush, then read these.
ReadSamples(refs) ==
  /\ needs_flush' = FALSE
  /\ callbacks' = (callbacks \/ needs_flush)
  /\ cache' = [r \in Resolving |-> IF r \in refs THEN Read(Flushed, r) ELSE Flushed[r]]

\* SampleSet.CollectSample, the callback of a timer that is due
CollectSample(s) ==
  \E timer \in Due :
    LET x    == [Collected(sets[s]) EXCEPT !.pending = None]
        left == Removed(s, sets[s], timers \ {timer})
    IN  /\ timer[1] = s
        /\ ReadSamples({x.params[p].ref : p \in DOMAIN x.params})
        /\ notified' = IF FetchSamplesTriggered(x) /\ x.notification # 0 THEN {s} ELSE {}
        /\ IF x.enable THEN SetSampleTrigger(s, x, left)
           ELSE sets' = [sets EXCEPT ![s] = x] /\ timers' = left
        /\ UNCHANGED now

\* The timer of a set that is not in Sets, before or after theirs.
OtherCollectSample(refs) ==
  /\ ReadSamples(refs)
  /\ notified' = {}
  /\ UNCHANGED <<now, sets, timers>>

-----------------------------------------------------------------------------
(* The world around *)

\* Something else reads the data model: a session, a notification, the UI.
ReadExport(r) ==
  /\ Due = {}
  /\ cache' = [cache EXCEPT ![r] = Read(cache, r)]
  /\ notified' = {}
  /\ UNCHANGED <<now, sets, timers, needs_flush, callbacks>>

\* CwmpSession.close flushes the cache.
EndSession ==
  /\ Due = {}
  /\ cache' = [r \in Resolving |-> None]
  /\ notified' = {}
  /\ UNCHANGED <<now, sets, timers, needs_flush, callbacks>>

\* Mutation: only a sample that flushes lets the next one flush.
EnableFlushNever == needs_flush

\* _EnableFlush, if it was added
EnableFlush == needs_flush \/ callbacks

\* The next iteration of the ioloop: the callbacks that were added.
Tick(delay) ==
  /\ Due = {}
  /\ now + delay <= MaxTime
  /\ now' = now + delay
  /\ needs_flush' = EnableFlush
  /\ callbacks' = FALSE
  /\ notified' = {}
  /\ UNCHANGED <<sets, timers, cache>>

Init ==
  /\ now = 0
  /\ sets = [s \in {} |-> NewSampleSet]
  /\ timers = {}
  /\ cache = [r \in Resolving |-> None]
  /\ needs_flush = TRUE
  /\ callbacks = FALSE
  /\ notified = {}

Configure(s) ==
  \/ AddSampleSet(s)
  \/ DeleteSampleSet(s)
  \/ \E p \in Slots : AddParameter(s, p)
  \/ \E p \in Slots : DeleteParameter(s, p)
  \/ \E p \in Slots, ref \in References : SetReference(s, p, ref)
  \/ \E value \in BOOLEAN : SetEnable(s, value)
  \/ \E v \in Reports : SetReportSamples(s, v)
  \/ \E v \in Intervals : SetSampleInterval(s, v)
  \/ \E v \in Fetches : SetFetchSamples(s, v)
  \/ \E v \in TimeReferences : SetTimeReference(s, v)
  \/ \E v \in Notifications : SetAttributes(s, v)

Next ==
  \/ \E s \in Sets : Configure(s)
  \/ \E s \in DOMAIN sets : CollectSample(s)
  \/ \E refs \in SUBSET Resolving : OtherCollectSample(refs)
  \/ \E r \in Resolving : ReadExport(r)
  \/ EndSession
  \/ \E delay \in Delays : Tick(delay)

Spec == Init /\ [][Next]_vars

-----------------------------------------------------------------------------
(* Properties *)

SampleTime == {<<start, end>> : start \in Times, end \in Times}

\* The attributes of the sample sets and the timers have their types.
TypeOK ==
  /\ now \in Times
  /\ DOMAIN sets \subseteq Sets
  /\ \A s \in DOMAIN sets :
       /\ sets[s].times \in Seq(SampleTime)
       /\ sets[s].start \in Times \cup {None}
       /\ sets[s].collected \in Nat
       /\ DOMAIN sets[s].params \subseteq Slots
       /\ \A p \in DOMAIN sets[s].params :
            /\ sets[s].params[p].ref \in References \cup {NoReference}
            /\ sets[s].params[p].values \in Seq(Times)
            /\ sets[s].params[p].times \in Seq(SampleTime)
  /\ timers \subseteq Sets \X Nat
  /\ cache \in [Resolving -> Times \cup {None}]
  /\ notified \subseteq Sets

\* However the ACS configures, disables and deletes the sets, and wherever it
\* does so between two samples: a set that is to sample has exactly one timer in
\* the ioloop, the one it can remove, and never more than an interval away, also
\* after the interval was changed; another set, or a deleted one, has none.
OneTimerPerSampling ==
  /\ \A s \in DOMAIN sets :
       /\ sets[s].pending # None <=> Sampling(sets[s])
       /\ {t \in timers : t[1] = s} = {<<s, sets[s].pending>>} \ {<<s, None>>}
       /\ sets[s].pending # None => sets[s].pending <= now + sets[s].interval
  /\ \A t \in timers : t[1] \in DOMAIN sets

\* Samples do not overlap, whatever restarted the timer between them.
SamplesDisjoint ==
  \A s \in DOMAIN sets :
    /\ \A i \in DOMAIN sets[s].times : sets[s].times[i][1] <= sets[s].times[i][2]
    /\ \A i \in 1..(Len(sets[s].times) - 1) :
         sets[s].times[i][2] <= sets[s].times[i + 1][1]

\* The samples of a parameter line up with those of its set, from the last one
\* back, unless some failed: SampleSeconds of the set, which the ACS reads next
\* to Values, tells when each value was taken.
ParametersLineUp ==
  \A s \in DOMAIN sets : \A p \in DOMAIN sets[s].params :
    sets[s].params[p].missed \/ IsSuffix(sets[s].params[p].times, sets[s].times)

\* The times the ACS reads make sense of the values it reads.
SamplesLineUp == SamplesDisjoint /\ ParametersLineUp

\* "We don't want stale data from previous stats collections and/or actual ACS
\* sessions": each value was read when its sample ended, although what the
\* sessions and other sets read is cached, and the flush is shared between sets.
SamplesFresh ==
  \A s \in DOMAIN sets : \A p \in DOMAIN sets[s].params :
    \A i \in DOMAIN sets[s].params[p].values :
      sets[s].params[p].values[i] = sets[s].params[p].times[i][2]

\* When the ACS is told to fetch, the number of samples it asked for is there,
\* unless it changed ReportSamples since the data was cleared.
FetchFindsSamples ==
  [][\A s \in notified' :
       sets'[s].trimmed \/ sets'[s].fetch <= Len(sets'[s].times)]_vars
=============================================================================
