---------------------- MODULE PeriodicStatistics_proofs ----------------------
(***************************************************************************)
(* What PeriodicStatistics states, for any number of sample sets,        *)
(* parameters and references, and however long they run: the types, the    *)
(* timers, and that no sample is stale.                                    *)
(***************************************************************************)
EXTENDS PeriodicStatistics, TLAPS

-----------------------------------------------------------------------------
(* The inductive invariant *)

\* A parameter whose values were all read when their samples ended.
FreshParameters ==
  {q \in [ref : References \cup {NoReference}, times : Seq(SampleTime), values : Seq(Times),
          missed : BOOLEAN] :
     /\ Len(q.values) = Len(q.times)
     /\ \A i \in 1..Len(q.values) : q.values[i] = q.times[i][2]}

ParameterLists == UNION {[slots -> FreshParameters] : slots \in SUBSET Slots}

SampleSets ==
  [ params : ParameterLists, enable : BOOLEAN, report : Nat, interval : Nat, fetch : Nat,
    reference : Nat, start : Times \cup {None}, times : Seq(SampleTime), collected : Nat,
    pending : Nat \cup {None}, notification : 0..2, trimmed : BOOLEAN ]

SampleSetLists == UNION {[some -> SampleSets] : some \in SUBSET Sets}

\* In an iteration that has flushed, what is cached was read at the present time, and
\* _EnableFlush will be called before the next one.
FlushedOnce ==
  ~needs_flush => callbacks /\ \A r \in Resolving : cache[r] \in {None, now}

IInv ==
  /\ now \in Times
  /\ sets \in SampleSetLists
  /\ timers \subseteq Sets \X Nat
  /\ cache \in [Resolving -> Times \cup {None}]
  /\ needs_flush \in BOOLEAN /\ callbacks \in BOOLEAN
  /\ notified \subseteq Sets
  /\ OneTimerPerSampling
  /\ FlushedOnce

-----------------------------------------------------------------------------
(* Parameters and samples *)

LEMMA ListFacts ==
  /\ \A f \in ParameterLists :
       /\ DOMAIN f \subseteq Slots /\ f = [p \in DOMAIN f |-> f[p]]
       /\ \A p \in DOMAIN f : f[p] \in FreshParameters
  /\ \A f \in SampleSetLists :
       /\ DOMAIN f \subseteq Sets /\ f = [s \in DOMAIN f |-> f[s]]
       /\ \A s \in DOMAIN f : f[s] \in SampleSets
BY DEF ParameterLists, SampleSetLists

LEMMA LastNFacts ==
  ASSUME NEW T, NEW s \in Seq(T), NEW n \in Nat
  PROVE  /\ LastN(s, n) \in Seq(T)
         /\ Len(LastN(s, n)) = IF n = 0 \/ n >= Len(s) THEN Len(s) ELSE n
         /\ \A i \in 1..Len(LastN(s, n)) :
              LastN(s, n)[i] = s[i + Len(s) - Len(LastN(s, n))]
<1>1. Len(s) \in Nat
  OBVIOUS
<1>2. CASE n = 0 \/ n >= Len(s)
  <2>1. LastN(s, n) = s
    BY <1>2 DEF LastN
  <2>2. \A i \in 1..Len(s) : i + Len(s) - Len(s) = i
    BY <1>1
  <2> QED BY <1>2, <2>1, <2>2
<1>3. CASE ~(n = 0 \/ n >= Len(s))
  <2> DEFINE first == Len(s) - n + 1
             last == SubSeq(s, first, Len(s))
  <2>1. first \in 1..Len(s) /\ n \in 1..Len(s) /\ Len(s) - first + 1 = n
    BY <1>1, <1>3
  <2>2. /\ last \in Seq(T) /\ Len(last) = n
        /\ \A i \in 1..n : last[i] = s[i + first - 1]
    BY <1>1, <2>1
  <2>3. LastN(s, n) = last
    BY <1>3 DEF LastN
  <2> HIDE DEF last
  <2> QED BY <1>1, <1>3, <2>1, <2>2, <2>3
<1> QED BY <1>2, <1>3

\* Trimming keeps the times and the values in step.
LEMMA TrimFacts ==
  ASSUME NEW q \in FreshParameters, NEW n \in Nat
  PROVE  Trim(q, n) \in FreshParameters
<1> DEFINE m == IF n <= 0 THEN 1 ELSE n
<1>1. m \in Nat
  OBVIOUS
<1> HIDE DEF m
<1>2. /\ q \in [ref : References \cup {NoReference}, times : Seq(SampleTime), values : Seq(Times),
                missed : BOOLEAN]
      /\ Len(q.values) = Len(q.times)
      /\ \A i \in 1..Len(q.values) : q.values[i] = q.times[i][2]
  BY DEF FreshParameters
<1> DEFINE ts == LastN(q.times, m)
           vs == LastN(q.values, m)
<1>3. /\ ts \in Seq(SampleTime)
      /\ Len(ts) = IF m = 0 \/ m >= Len(q.times) THEN Len(q.times) ELSE m
      /\ \A i \in 1..Len(ts) : ts[i] = q.times[i + Len(q.times) - Len(ts)]
  BY <1>1, <1>2, LastNFacts
<1>4. /\ vs \in Seq(Times)
      /\ Len(vs) = IF m = 0 \/ m >= Len(q.values) THEN Len(q.values) ELSE m
      /\ \A i \in 1..Len(vs) : vs[i] = q.values[i + Len(q.values) - Len(vs)]
  BY <1>1, <1>2, LastNFacts
<1>5. Trim(q, n) = [q EXCEPT !.times = ts, !.values = vs]
  BY DEF Trim, m
<1> HIDE DEF ts, vs
<1>6. Len(vs) = Len(ts) /\ Len(ts) \in Nat /\ Len(q.times) \in Nat /\ Len(ts) <= Len(q.times)
  BY <1>1, <1>2, <1>3, <1>4
<1>7. \A i \in 1..Len(vs) : vs[i] = ts[i][2]
  <2> SUFFICES ASSUME NEW i \in 1..Len(vs) PROVE vs[i] = ts[i][2]
    OBVIOUS
  <2> DEFINE j == i + Len(q.times) - Len(ts)
  <2>1. j \in 1..Len(q.values)
    BY <1>2, <1>6
  <2>2. vs[i] = q.values[j] /\ ts[i] = q.times[j]
    BY <1>2, <1>3, <1>4, <1>6
  <2> HIDE DEF j
  <2> QED BY <1>2, <2>1, <2>2
<1> QED BY <1>2, <1>3, <1>4, <1>5, <1>6, <1>7 DEF FreshParameters

LEMMA ClearFacts ==
  ASSUME NEW x \in SampleSets
  PROVE  /\ Clear(x) \in SampleSets
         /\ Clear(x).pending = x.pending /\ Clear(x).enable = x.enable
         /\ Clear(x).report = x.report /\ Clear(x).interval = x.interval
<1>1. x.params \in ParameterLists
  BY DEF SampleSets
<1>2. \A q \in FreshParameters : ClearParameter(q) \in FreshParameters
  <2>1. /\ <<>> \in Seq(SampleTime) /\ <<>> \in Seq(Times)
        /\ Len(<<>>) = 0 /\ 1..0 = {}
    OBVIOUS
  <2> QED BY <2>1 DEF FreshParameters, ClearParameter
<1>3. [p \in DOMAIN x.params |-> ClearParameter(x.params[p])] \in ParameterLists
  BY <1>1, <1>2 DEF ParameterLists
<1>4. <<>> \in Seq(SampleTime)
  OBVIOUS
<1> QED BY <1>3, <1>4 DEF Clear, SampleSets

LEMMA ReportFacts ==
  ASSUME NEW x \in SampleSets, NEW v \in Nat
  PROVE  Report(x, v) \in SampleSets /\ Report(x, v).pending = x.pending
<1>1. x.params \in ParameterLists /\ x.times \in Seq(SampleTime)
  BY DEF SampleSets
<1>2. [p \in DOMAIN x.params |-> Trim(x.params[p], v)] \in ParameterLists
  BY <1>1, TrimFacts DEF ParameterLists
<1>3. LastN(x.times, v) \in Seq(SampleTime)
  BY <1>1, LastNFacts
<1> QED BY <1>2, <1>3 DEF Report, SampleSets

\* A getter that was not called in this iteration is called now.
LEMMA ReadsNow ==
  ASSUME IInv, NEW r \in Resolving
  PROVE  Read(Flushed, r) = now /\ Flushed[r] \in {None, now} /\ now # None /\ now \in Times
<1>1. now \in Times /\ now # None
  BY StatisticsAssumption DEF IInv, Times, None
<1> QED BY <1>1 DEF IInv, FlushedOnce, Read, Flushed

LEMMA CollectParameterFacts ==
  ASSUME IInv, NEW q \in FreshParameters, NEW report \in Nat, NEW start \in Times
  PROVE  CollectParameter(q, report, start) \in FreshParameters
<1>1. /\ q \in [ref : References \cup {NoReference}, times : Seq(SampleTime), values : Seq(Times),
                missed : BOOLEAN]
      /\ Len(q.values) = Len(q.times)
      /\ \A i \in 1..Len(q.values) : q.values[i] = q.times[i][2]
  BY DEF FreshParameters
<1>2. CASE q.ref \in Resolving
  <2> DEFINE vs == Append(q.values, now)
             ts == Append(q.times, <<start, now>>)
  <2>1. Read(Flushed, q.ref) = now /\ now \in Times
    BY <1>2, ReadsNow
  <2>2. <<start, now>> \in SampleTime
    BY <2>1 DEF SampleTime
  <2>3. /\ vs \in Seq(Times) /\ Len(vs) = Len(q.values) + 1 /\ Len(q.values) \in Nat
        /\ vs[Len(q.values) + 1] = now
        /\ \A i \in 1..Len(q.values) : vs[i] = q.values[i]
    BY <1>1, <2>1
  <2>4. /\ ts \in Seq(SampleTime) /\ Len(ts) = Len(q.times) + 1
        /\ ts[Len(q.times) + 1] = <<start, now>>
        /\ \A i \in 1..Len(q.times) : ts[i] = q.times[i]
    BY <1>1, <2>2
  <2>5. CollectParameter(q, report, start) = Trim([q EXCEPT !.values = vs, !.times = ts], report)
    BY <1>2, <2>1 DEF CollectParameter
  <2> HIDE DEF vs, ts
  <2>6. \A i \in 1..Len(vs) : vs[i] = ts[i][2]
    BY <1>1, <2>3, <2>4
  <2>7. [q EXCEPT !.values = vs, !.times = ts] \in FreshParameters
    BY <1>1, <2>3, <2>4, <2>6 DEF FreshParameters
  <2> QED BY <2>5, <2>7, TrimFacts
<1>3. CASE q.ref \notin Resolving
  <2>1. [q EXCEPT !.missed = TRUE] \in FreshParameters
    BY <1>1 DEF FreshParameters
  <2> QED BY <1>3, <2>1, TrimFacts DEF CollectParameter
<1> QED BY <1>2, <1>3

LEMMA CollectedFacts ==
  ASSUME IInv, NEW x \in SampleSets
  PROVE  /\ Collected(x) \in SampleSets
         /\ Collected(x).enable = x.enable /\ Collected(x).report = x.report
         /\ Collected(x).interval = x.interval
<1> DEFINE start == IF x.start = None THEN now ELSE x.start
<1>1. start \in Times /\ now \in Times /\ x.report \in Nat /\ x.collected \in Nat
  BY DEF SampleSets, IInv
<1>2. x.params \in ParameterLists /\ x.times \in Seq(SampleTime)
  BY DEF SampleSets
<1> HIDE DEF start
<1>3. [p \in DOMAIN x.params |-> CollectParameter(x.params[p], x.report, start)] \in ParameterLists
  BY <1>1, <1>2, CollectParameterFacts DEF ParameterLists
<1>4. LastN(Append(x.times, <<start, now>>), x.report) \in Seq(SampleTime)
  <2>1. <<start, now>> \in SampleTime
    BY <1>1 DEF SampleTime
  <2>2. Append(x.times, <<start, now>>) \in Seq(SampleTime)
    BY <1>2, <2>1
  <2> QED BY <1>1, <2>2, LastNFacts
<1>5. Collected(x) =
        [x EXCEPT !.start = None, !.collected = x.collected + 1,
                  !.times = LastN(Append(x.times, <<start, now>>), x.report),
                  !.params = [p \in DOMAIN x.params |-> CollectParameter(x.params[p], x.report, start)]]
  BY DEF Collected, start
<1>6. x.collected + 1 \in Nat
  BY <1>1
<1> QED BY <1>3, <1>4, <1>5, <1>6 DEF SampleSets

-----------------------------------------------------------------------------
(* Timers *)

LEMMA NextSampleFacts ==
  ASSUME now \in Times, NEW x \in SampleSets, x.interval > 0
  PROVE  /\ now + TimeToNextSample(x) \in Nat
         /\ now + TimeToNextSample(x) <= now + x.interval
<1>1. now \in Nat /\ x.interval \in Nat \ {0} /\ now - x.reference \in Int
  BY StatisticsAssumption DEF Times, SampleSets
<1>2. (now - x.reference) % x.interval \in 0..(x.interval - 1)
  BY <1>1
<1>3. TimeToNextSample(x) = x.interval - ((now - x.reference) % x.interval)
  BY <1>1 DEF TimeToNextSample
<1> QED BY <1>1, <1>2, <1>3

\* A step that changes one set and no timer of another.
LEMMA OneChanged ==
  ASSUME IInv, NEW s \in DOMAIN sets, NEW y \in SampleSets, now' = now,
         sets' = [sets EXCEPT ![s] = y], timers' \subseteq Sets \X Nat,
         {t \in timers' : t[1] # s} = {t \in timers : t[1] # s},
         {t \in timers' : t[1] = s} = {<<s, y.pending>>} \ {<<s, None>>},
         y.pending # None <=> Sampling(y),
         y.pending # None => y.pending <= now + y.interval
  PROVE  sets' \in SampleSetLists /\ OneTimerPerSampling'
<1>1. /\ sets' \in SampleSetLists /\ DOMAIN sets' = DOMAIN sets /\ sets'[s] = y
      /\ \A r \in DOMAIN sets \ {s} : sets'[r] = sets[r]
  BY DEF IInv, SampleSetLists
<1>2. ASSUME NEW r \in DOMAIN sets \ {s}
      PROVE  /\ sets'[r].pending # None <=> Sampling(sets'[r])
             /\ {t \in timers' : t[1] = r} = {<<r, sets'[r].pending>>} \ {<<r, None>>}
             /\ sets'[r].pending # None => sets'[r].pending <= now' + sets'[r].interval
  <2>1. sets'[r] = sets[r]
    BY <1>1
  <2>2. {t \in timers' : t[1] = r} = {t \in timers : t[1] = r}
    OBVIOUS
  <2>3. /\ sets[r].pending # None <=> Sampling(sets[r])
        /\ {t \in timers : t[1] = r} = {<<r, sets[r].pending>>} \ {<<r, None>>}
        /\ sets[r].pending # None => sets[r].pending <= now + sets[r].interval
    BY DEF IInv, OneTimerPerSampling
  <2> QED BY <2>1, <2>2, <2>3
<1>3. \A t \in timers' : t[1] \in DOMAIN sets'
  BY <1>1 DEF IInv, OneTimerPerSampling
<1> QED BY <1>1, <1>2, <1>3 DEF OneTimerPerSampling

LEMMA SetSampleTriggerFacts ==
  ASSUME IInv, NEW s \in DOMAIN sets, NEW x \in SampleSets, Sampling(x),
         NEW ts \in SUBSET timers, {t \in timers : t[1] # s} \subseteq ts,
         {t \in ts : t[1] = s} \subseteq {<<s, x.pending>>},
         now' = now, SetSampleTrigger(s, x, ts)
  PROVE  sets' \in SampleSetLists /\ timers' \subseteq Sets \X Nat /\ OneTimerPerSampling'
<1> DEFINE due == now + TimeToNextSample(x)
           y == [x EXCEPT !.start = now, !.pending = due]
<1>1. due \in Nat /\ due <= now + x.interval /\ due # None /\ now \in Times
  <2>1. now \in Times /\ x.interval > 0
    BY DEF IInv, Sampling
  <2>2. due \in Nat /\ due <= now + x.interval
    BY <2>1, NextSampleFacts
  <2> QED BY <2>1, <2>2 DEF None
<1>2. /\ sets' = [sets EXCEPT ![s] = y] /\ timers' = (ts \ {<<s, x.pending>>}) \cup {<<s, due>>}
  BY DEF SetSampleTrigger, Removed
<1> HIDE DEF due
<1>3. y \in SampleSets /\ y.pending = due /\ y.interval = x.interval /\ Sampling(y)
  BY <1>1 DEF SampleSets, Sampling
<1>4. timers' \subseteq Sets \X Nat
  BY <1>1, <1>2, ListFacts DEF IInv
<1>5. {t \in timers' : t[1] # s} = {t \in timers : t[1] # s}
  BY <1>2
<1>6. {t \in timers' : t[1] = s} = {<<s, due>>}
  BY <1>2
<1>7. {<<s, due>>} = {<<s, due>>} \ {<<s, None>>}
  BY <1>1
<1> HIDE DEF y
<1> QED BY <1>1, <1>2, <1>3, <1>4, <1>5, <1>6, <1>7, OneChanged

LEMMA UpdateSamplingFacts ==
  ASSUME IInv, NEW s \in DOMAIN sets, NEW x \in SampleSets, x.pending = sets[s].pending,
         now' = now, UpdateSampling(s, x)
  PROVE  sets' \in SampleSetLists /\ timers' \subseteq Sets \X Nat /\ OneTimerPerSampling'
<1>1. {t \in timers : t[1] = s} \subseteq {<<s, x.pending>>}
  BY DEF IInv, OneTimerPerSampling
<1>2. CASE Sampling(x)
  BY <1>1, <1>2, SetSampleTriggerFacts DEF UpdateSampling
<1>3. CASE ~Sampling(x)
  <2> DEFINE y == [x EXCEPT !.pending = None]
  <2>1. sets' = [sets EXCEPT ![s] = y] /\ timers' = timers \ {<<s, x.pending>>}
    BY <1>3 DEF UpdateSampling, StopSampling, Removed
  <2>2. y \in SampleSets /\ y.pending = None /\ ~Sampling(y)
    BY <1>3 DEF SampleSets, Sampling
  <2>3. timers' \subseteq Sets \X Nat
    BY <2>1 DEF IInv
  <2>4. {t \in timers' : t[1] # s} = {t \in timers : t[1] # s}
    BY <2>1
  <2>5. {t \in timers' : t[1] = s} = {}
    BY <1>1, <2>1
  <2> HIDE DEF y
  <2> QED BY <2>1, <2>2, <2>3, <2>4, <2>5, OneChanged
<1> QED BY <1>2, <1>3

\* An assignment that leaves the timer of its set alone.
LEMMA TimerKept ==
  ASSUME IInv, NEW s \in DOMAIN sets, NEW y \in SampleSets, now' = now, timers' = timers,
         sets' = [sets EXCEPT ![s] = y], y.pending = sets[s].pending,
         y.enable = sets[s].enable, y.report = sets[s].report, y.interval = sets[s].interval
  PROVE  sets' \in SampleSetLists /\ OneTimerPerSampling'
<1>1. Sampling(y) <=> Sampling(sets[s])
  BY DEF Sampling
<1>2. /\ timers' \subseteq Sets \X Nat
      /\ {t \in timers' : t[1] # s} = {t \in timers : t[1] # s}
      /\ {t \in timers' : t[1] = s} = {<<s, y.pending>>} \ {<<s, None>>}
      /\ y.pending # None <=> Sampling(y)
      /\ y.pending # None => y.pending <= now + y.interval
  BY <1>1 DEF IInv, OneTimerPerSampling
<1> QED BY <1>2, OneChanged

-----------------------------------------------------------------------------
(* Steps *)

\* What an RPC between the timers keeps by itself.
LEMMA EventFacts ==
  ASSUME IInv, Event, sets' \in SampleSetLists, timers' \subseteq Sets \X Nat,
         OneTimerPerSampling'
  PROVE  IInv'
BY DEF Event, IInv, FlushedOnce

LEMMA AddSampleSetKeepsIInv ==
  ASSUME IInv, NEW s \in Sets, AddSampleSet(s)
  PROVE  IInv'
<1> USE DEF AddSampleSet
<1>1. NewSampleSet \in SampleSets /\ NewSampleSet.pending = None /\ ~Sampling(NewSampleSet)
  <2>1. [p \in {} |-> NewParameter] \in ParameterLists
    BY DEF ParameterLists
  <2>2. <<>> \in Seq(SampleTime)
    OBVIOUS
  <2> QED BY <2>1, <2>2 DEF NewSampleSet, SampleSets, Sampling
<1>2. /\ s \notin DOMAIN sets /\ DOMAIN sets' = DOMAIN sets \cup {s} /\ sets'[s] = NewSampleSet
      /\ \A r \in DOMAIN sets : sets'[r] = sets[r]
      /\ sets' = [r \in DOMAIN sets \cup {s} |-> sets'[r]]
  BY DEF With
<1>3. sets' \in SampleSetLists
  <2>1. \A r \in DOMAIN sets \cup {s} : sets'[r] \in SampleSets
    BY <1>1, <1>2, ListFacts DEF IInv
  <2>2. DOMAIN sets \cup {s} \subseteq Sets
    BY ListFacts DEF IInv
  <2> QED BY <1>2, <2>1, <2>2 DEF SampleSetLists
<1>4. timers' = timers /\ now' = now
  BY DEF Event
<1>5. ASSUME NEW r \in DOMAIN sets'
      PROVE  /\ sets'[r].pending # None <=> Sampling(sets'[r])
             /\ {t \in timers' : t[1] = r} = {<<r, sets'[r].pending>>} \ {<<r, None>>}
             /\ sets'[r].pending # None => sets'[r].pending <= now' + sets'[r].interval
  <2>1. CASE r = s
    <3>1. {t \in timers : t[1] = s} = {}
      BY <1>2 DEF IInv, OneTimerPerSampling
    <3> QED BY <1>1, <1>2, <1>4, <2>1, <3>1
  <2>2. CASE r # s
    <3>1. r \in DOMAIN sets /\ sets'[r] = sets[r]
      BY <1>2, <2>2
    <3> QED BY <1>4, <3>1 DEF IInv, OneTimerPerSampling
  <2> QED BY <2>1, <2>2
<1>6. \A t \in timers' : t[1] \in DOMAIN sets'
  BY <1>2, <1>4 DEF IInv, OneTimerPerSampling
<1>7. OneTimerPerSampling'
  BY <1>5, <1>6 DEF OneTimerPerSampling
<1>8. timers' \subseteq Sets \X Nat
  BY <1>4 DEF IInv
<1> QED BY <1>3, <1>7, <1>8, EventFacts

LEMMA DeleteSampleSetKeepsIInv ==
  ASSUME IInv, NEW s \in Sets, DeleteSampleSet(s)
  PROVE  IInv'
<1> USE DEF DeleteSampleSet
<1>1. /\ s \in DOMAIN sets /\ DOMAIN sets' = DOMAIN sets \ {s}
      /\ \A r \in DOMAIN sets \ {s} : sets'[r] = sets[r]
      /\ sets' = [r \in DOMAIN sets \ {s} |-> sets'[r]]
  BY DEF Without
<1>2. sets' \in SampleSetLists
  <2>1. \A r \in DOMAIN sets \ {s} : sets'[r] \in SampleSets
    BY <1>1, ListFacts DEF IInv
  <2>2. DOMAIN sets \ {s} \subseteq Sets
    BY ListFacts DEF IInv
  <2> QED BY <1>1, <2>1, <2>2 DEF SampleSetLists
<1>3. timers' = {t \in timers : t[1] # s} /\ now' = now
  <2>1. {t \in timers : t[1] = s} \subseteq {<<s, sets[s].pending>>}
    BY <1>1 DEF IInv, OneTimerPerSampling
  <2>2. timers' = timers \ {<<s, sets[s].pending>>} /\ now' = now
    BY DEF Removed, Event
  <2> QED BY <2>1, <2>2
<1>4. ASSUME NEW r \in DOMAIN sets \ {s}
      PROVE  /\ sets'[r].pending # None <=> Sampling(sets'[r])
             /\ {t \in timers' : t[1] = r} = {<<r, sets'[r].pending>>} \ {<<r, None>>}
             /\ sets'[r].pending # None => sets'[r].pending <= now' + sets'[r].interval
  <2>1. {t \in timers' : t[1] = r} = {t \in timers : t[1] = r}
    BY <1>3
  <2> QED BY <1>1, <1>3, <2>1 DEF IInv, OneTimerPerSampling
<1>5. \A t \in timers' : t[1] \in DOMAIN sets'
  BY <1>1, <1>3 DEF IInv, OneTimerPerSampling
<1>6. OneTimerPerSampling'
  BY <1>1, <1>4, <1>5 DEF OneTimerPerSampling
<1>7. timers' \subseteq Sets \X Nat
  BY <1>3 DEF IInv
<1> QED BY <1>2, <1>6, <1>7, EventFacts

\* Assignments that leave the timer of their set alone.
LEMMA KeptKeepsIInv ==
  ASSUME IInv, NEW s \in DOMAIN sets, NEW y \in SampleSets, Event, timers' = timers,
         sets' = [sets EXCEPT ![s] = y], y.pending = sets[s].pending,
         y.enable = sets[s].enable, y.report = sets[s].report, y.interval = sets[s].interval
  PROVE  IInv'
<1>1. now' = now /\ timers' \subseteq Sets \X Nat
  BY DEF Event, IInv
<1> QED BY <1>1, TimerKept, EventFacts

LEMMA ParametersKeepIInv ==
  ASSUME IInv, NEW s \in DOMAIN sets, NEW f \in ParameterLists, Event, timers' = timers,
         sets' = [sets EXCEPT ![s] = [sets[s] EXCEPT !.params = f]]
  PROVE  IInv'
<1> DEFINE y == [sets[s] EXCEPT !.params = f]
<1>1. sets[s] \in SampleSets
  BY ListFacts DEF IInv
<1>2. y \in SampleSets
  BY <1>1 DEF SampleSets
<1>3. /\ y.pending = sets[s].pending /\ y.enable = sets[s].enable
      /\ y.report = sets[s].report /\ y.interval = sets[s].interval
  BY <1>1 DEF SampleSets
<1> HIDE DEF y
<1> QED BY <1>2, <1>3, KeptKeepsIInv DEF y

LEMMA ConfigureParameterKeepsIInv ==
  ASSUME IInv, NEW s \in Sets, NEW p \in Slots,
         \/ AddParameter(s, p) \/ DeleteParameter(s, p)
         \/ \E ref \in References : SetReference(s, p, ref)
  PROVE  IInv'
<1>1. s \in DOMAIN sets /\ Event /\ timers' = timers
  BY DEF AddParameter, DeleteParameter, SetReference
<1>2. sets[s] \in SampleSets /\ sets[s].params \in ParameterLists
  BY <1>1, ListFacts DEF IInv, SampleSets
<1> DEFINE f == sets[s].params
<1>3. /\ DOMAIN f \subseteq Slots /\ f = [q \in DOMAIN f |-> f[q]]
      /\ \A q \in DOMAIN f : f[q] \in FreshParameters
  BY <1>2, ListFacts
<1>4. CASE AddParameter(s, p)
  <2>1. NewParameter \in FreshParameters
    <3>1. /\ <<>> \in Seq(SampleTime) /\ <<>> \in Seq(Times)
          /\ Len(<<>>) = 0 /\ 1..0 = {}
      OBVIOUS
    <3> QED BY <3>1 DEF NewParameter, FreshParameters
  <2>2. With(f, p, NewParameter) \in ParameterLists
    <3>1. \A q \in DOMAIN f \cup {p} : With(f, p, NewParameter)[q] \in FreshParameters
      BY <1>3, <2>1 DEF With
    <3>2. With(f, p, NewParameter) \in [DOMAIN f \cup {p} -> FreshParameters]
      BY <3>1 DEF With
    <3>3. DOMAIN f \cup {p} \in SUBSET Slots
      BY <1>3
    <3> QED BY <3>2, <3>3 DEF ParameterLists
  <2>3. sets' = [sets EXCEPT ![s] = [sets[s] EXCEPT !.params = With(f, p, NewParameter)]]
    BY <1>1, <1>4 DEF AddParameter
  <2> QED BY <1>1, <2>2, <2>3, ParametersKeepIInv
<1>5. CASE DeleteParameter(s, p)
  <2>1. Without(f, p) \in ParameterLists
    <3>1. Without(f, p) \in [DOMAIN f \ {p} -> FreshParameters]
      BY <1>3 DEF Without
    <3>2. DOMAIN f \ {p} \in SUBSET Slots
      BY <1>3
    <3> QED BY <3>1, <3>2 DEF ParameterLists
  <2>2. sets' = [sets EXCEPT ![s] = [sets[s] EXCEPT !.params = Without(f, p)]]
    BY <1>1, <1>5 DEF DeleteParameter
  <2> QED BY <1>1, <2>1, <2>2, ParametersKeepIInv
<1>6. ASSUME NEW ref \in References, SetReference(s, p, ref)
      PROVE  IInv'
  <2> DEFINE g == [f EXCEPT ![p] = [f[p] EXCEPT !.ref = ref]]
  <2>1. p \in DOMAIN f
    BY <1>6 DEF SetReference
  <2>2. [f[p] EXCEPT !.ref = ref] \in FreshParameters
    BY <1>3, <2>1 DEF FreshParameters
  <2>3. g \in [DOMAIN f -> FreshParameters]
    BY <1>3, <2>2
  <2>4. g \in ParameterLists
    BY <1>3, <2>3 DEF ParameterLists
  <2>5. sets' = [sets EXCEPT ![s] = [sets[s] EXCEPT !.params = g]]
    BY <1>1, <1>6 DEF SetReference
  <2> HIDE DEF g
  <2> QED BY <1>1, <2>4, <2>5, ParametersKeepIInv
<1> QED BY <1>4, <1>5, <1>6

LEMMA AssignmentKeepsIInv ==
  ASSUME IInv, NEW s \in Sets, NEW v,
         \/ v \in BOOLEAN /\ SetEnable(s, v)
         \/ v \in Reports /\ SetReportSamples(s, v)
         \/ v \in Intervals /\ SetSampleInterval(s, v)
         \/ v \in Fetches /\ SetFetchSamples(s, v)
         \/ v \in TimeReferences /\ SetTimeReference(s, v)
         \/ v \in Notifications /\ SetAttributes(s, v)
  PROVE  IInv'
<1>1. s \in DOMAIN sets /\ Event /\ now' = now
  BY DEF SetEnable, SetReportSamples, SetSampleInterval, SetFetchSamples, SetTimeReference,
         SetAttributes, Event
<1> DEFINE x == sets[s]
<1>2. x \in SampleSets
  BY <1>1, ListFacts DEF IInv
<1>3. ASSUME NEW y \in SampleSets, y.pending = x.pending, UpdateSampling(s, y)
      PROVE  IInv'
  BY <1>1, <1>3, UpdateSamplingFacts, EventFacts
<1>4. ASSUME v \in BOOLEAN, SetEnable(s, v)
      PROVE  IInv'
  <2> DEFINE y == [(IF v THEN Clear(x) ELSE x) EXCEPT !.enable = v]
  <2>1. y \in SampleSets /\ y.pending = x.pending
    <3>1. Clear(x) \in SampleSets /\ Clear(x).pending = x.pending
      BY <1>2, ClearFacts
    <3> QED BY <1>2, <1>4, <3>1 DEF SampleSets
  <2>2. UpdateSampling(s, y)
    BY <1>4 DEF SetEnable
  <2> HIDE DEF y
  <2> QED BY <1>3, <2>1, <2>2
<1>5. ASSUME v \in Reports, SetReportSamples(s, v)
      PROVE  IInv'
  <2>1. Report(x, v) \in SampleSets /\ Report(x, v).pending = x.pending
    BY <1>2, <1>5, ReportFacts, StatisticsAssumption
  <2> QED BY <1>3, <1>5, <2>1 DEF SetReportSamples
<1>6. ASSUME v \in Intervals, SetSampleInterval(s, v)
      PROVE  IInv'
  <2>1. [x EXCEPT !.interval = v] \in SampleSets /\ [x EXCEPT !.interval = v].pending = x.pending
    BY <1>2, <1>6, StatisticsAssumption DEF SampleSets
  <2>2. /\ Clear([x EXCEPT !.interval = v]) \in SampleSets
        /\ Clear([x EXCEPT !.interval = v]).pending = x.pending
    BY <2>1, ClearFacts
  <2> QED BY <1>3, <1>6, <2>2 DEF SetSampleInterval
<1>7. ASSUME v \in Fetches, SetFetchSamples(s, v)
      PROVE  IInv'
  <2> DEFINE y == [x EXCEPT !.fetch = v]
  <2>1. /\ y \in SampleSets /\ y.pending = x.pending /\ y.enable = x.enable
        /\ y.report = x.report /\ y.interval = x.interval
    BY <1>2, <1>7, StatisticsAssumption DEF SampleSets
  <2>2. sets' = [sets EXCEPT ![s] = y] /\ timers' = timers
    BY <1>1, <1>7 DEF SetFetchSamples
  <2> HIDE DEF y
  <2> QED BY <1>1, <2>1, <2>2, KeptKeepsIInv
<1>8. ASSUME v \in TimeReferences, SetTimeReference(s, v)
      PROVE  IInv'
  <2> DEFINE y == [Clear(x) EXCEPT !.reference = v]
  <2>1. /\ y \in SampleSets /\ y.pending = x.pending /\ y.enable = x.enable
        /\ y.report = x.report /\ y.interval = x.interval
    <3>1. /\ Clear(x) \in SampleSets /\ Clear(x).pending = x.pending
          /\ Clear(x).enable = x.enable /\ Clear(x).report = x.report
          /\ Clear(x).interval = x.interval
      BY <1>2, ClearFacts
    <3> QED BY <1>8, <3>1, StatisticsAssumption DEF SampleSets
  <2>2. sets' = [sets EXCEPT ![s] = y] /\ timers' = timers
    BY <1>1, <1>8 DEF SetTimeReference
  <2> HIDE DEF y
  <2> QED BY <1>1, <2>1, <2>2, KeptKeepsIInv
<1>9. ASSUME v \in Notifications, SetAttributes(s, v)
      PROVE  IInv'
  <2> DEFINE y == [x EXCEPT !.notification = v]
  <2>1. /\ y \in SampleSets /\ y.pending = x.pending /\ y.enable = x.enable
        /\ y.report = x.report /\ y.interval = x.interval
    BY <1>2, <1>9, StatisticsAssumption DEF SampleSets
  <2>2. sets' = [sets EXCEPT ![s] = y] /\ timers' = timers
    BY <1>1, <1>9 DEF SetAttributes
  <2> HIDE DEF y
  <2> QED BY <1>1, <2>1, <2>2, KeptKeepsIInv
<1> QED BY <1>4, <1>5, <1>6, <1>7, <1>8, <1>9

LEMMA ReadSamplesFacts ==
  ASSUME IInv, NEW refs, ReadSamples(refs), now' = now
  PROVE  /\ cache' \in [Resolving -> Times \cup {None}]
         /\ needs_flush' \in BOOLEAN /\ callbacks' \in BOOLEAN /\ FlushedOnce'
<1>1. \A r \in Resolving : cache'[r] \in {None, now} /\ now \in Times
  BY ReadsNow DEF ReadSamples
<1>2. cache' \in [Resolving -> Times \cup {None}]
  BY <1>1 DEF ReadSamples
<1>3. needs_flush' = FALSE /\ callbacks' = (callbacks \/ needs_flush)
  BY DEF ReadSamples
<1>4. callbacks' = TRUE
  BY <1>3 DEF IInv, FlushedOnce
<1> QED BY <1>1, <1>2, <1>3, <1>4 DEF FlushedOnce

LEMMA CollectSampleKeepsIInv ==
  ASSUME IInv, NEW s \in DOMAIN sets, CollectSample(s)
  PROVE  IInv'
<1> DEFINE x == [Collected(sets[s]) EXCEPT !.pending = None]
<1>1. PICK timer \in Due :
        /\ timer[1] = s /\ UNCHANGED now
        /\ ReadSamples({x.params[p].ref : p \in DOMAIN x.params})
        /\ notified' \in {{}, {s}}
        /\ IF x.enable
           THEN SetSampleTrigger(s, x, (timers \ {timer}) \ {<<s, sets[s].pending>>})
           ELSE /\ sets' = [sets EXCEPT ![s] = x]
                /\ timers' = (timers \ {timer}) \ {<<s, sets[s].pending>>}
  BY DEF CollectSample, Removed
<1> DEFINE left == (timers \ {timer}) \ {<<s, sets[s].pending>>}
<1>2. sets[s] \in SampleSets /\ s \in Sets
  BY ListFacts DEF IInv
<1>3. /\ x \in SampleSets /\ x.pending = None /\ x.enable = sets[s].enable
      /\ x.report = sets[s].report /\ x.interval = sets[s].interval
  <2>1. /\ Collected(sets[s]) \in SampleSets
        /\ Collected(sets[s]).enable = sets[s].enable /\ Collected(sets[s]).report = sets[s].report
        /\ Collected(sets[s]).interval = sets[s].interval
    BY <1>2, CollectedFacts
  <2> QED BY <2>1 DEF SampleSets
<1>4. /\ timer \in timers /\ timer = <<s, sets[s].pending>> /\ sets[s].pending # None
      /\ Sampling(sets[s])
  BY <1>1 DEF Due, IInv, OneTimerPerSampling
<1>5. /\ left \in SUBSET timers /\ {t \in left : t[1] = s} = {}
      /\ {t \in timers : t[1] # s} \subseteq left
  BY <1>4 DEF IInv, OneTimerPerSampling
<1>6. Sampling(x) /\ x.enable
  BY <1>3, <1>4 DEF Sampling
<1>7. SetSampleTrigger(s, x, left)
  BY <1>1, <1>6
<1> HIDE DEF x, left
<1>8. sets' \in SampleSetLists /\ timers' \subseteq Sets \X Nat /\ OneTimerPerSampling'
  BY <1>1, <1>3, <1>5, <1>6, <1>7, SetSampleTriggerFacts
<1>9. /\ cache' \in [Resolving -> Times \cup {None}]
      /\ needs_flush' \in BOOLEAN /\ callbacks' \in BOOLEAN /\ FlushedOnce'
  BY <1>1, ReadSamplesFacts
<1> QED BY <1>1, <1>2, <1>8, <1>9 DEF IInv

\* The steps that touch neither a set nor a timer.
LEMMA ElsewhereKeepsIInv ==
  ASSUME IInv,
         \/ \E refs \in SUBSET Resolving : OtherCollectSample(refs)
         \/ \E r \in Resolving : ReadExport(r)
         \/ EndSession
         \/ \E delay \in Delays : Tick(delay)
         \/ UNCHANGED vars
  PROVE  IInv'
<1>1. sets' = sets /\ timers' = timers /\ notified' \subseteq Sets
  BY DEF OtherCollectSample, ReadExport, EndSession, Tick, vars, IInv
<1>2. ASSUME now' \in Times, now' >= now, cache' \in [Resolving -> Times \cup {None}],
             needs_flush' \in BOOLEAN, callbacks' \in BOOLEAN, FlushedOnce'
      PROVE  IInv'
  <2>1. OneTimerPerSampling'
    <3>1. ASSUME NEW s \in DOMAIN sets, sets[s].pending # None
          PROVE  sets[s].pending <= now' + sets[s].interval
      <4>1. sets[s].pending \in Nat /\ sets[s].interval \in Nat
        BY <3>1, ListFacts DEF IInv, SampleSets
      <4>2. sets[s].pending <= now + sets[s].interval /\ now \in Nat /\ now' \in Nat
        BY <1>2, <3>1, StatisticsAssumption DEF IInv, OneTimerPerSampling, Times
      <4> QED BY <1>2, <4>1, <4>2
    <3> QED BY <1>1, <3>1 DEF IInv, OneTimerPerSampling
  <2> QED BY <1>1, <1>2, <2>1 DEF IInv
<1>3. now \in Nat /\ now \in Times
  BY StatisticsAssumption DEF IInv, Times
<1>4. ASSUME NEW refs \in SUBSET Resolving, OtherCollectSample(refs)
      PROVE  IInv'
  <2>1. ReadSamples(refs) /\ now' = now
    BY <1>4 DEF OtherCollectSample
  <2> QED BY <1>2, <1>3, <2>1, ReadSamplesFacts
<1>5. ASSUME NEW r \in Resolving, ReadExport(r)
      PROVE  IInv'
  <2>1. /\ now' = now /\ needs_flush' = needs_flush /\ callbacks' = callbacks
        /\ cache' = [cache EXCEPT ![r] = Read(cache, r)]
    BY <1>5 DEF ReadExport
  <2>2. Read(cache, r) \in {now, cache[r]}
    BY DEF Read
  <2>3. FlushedOnce' /\ cache' \in [Resolving -> Times \cup {None}]
    BY <1>3, <2>1, <2>2 DEF IInv, FlushedOnce
  <2> QED BY <1>2, <1>3, <2>1, <2>3 DEF IInv
<1>6. CASE EndSession
  BY <1>2, <1>3, <1>6 DEF EndSession, IInv, FlushedOnce
<1>7. ASSUME NEW delay \in Delays, Tick(delay)
      PROVE  IInv'
  <2>1. /\ now' = now + delay /\ now + delay <= MaxTime /\ cache' = cache
        /\ needs_flush' = (needs_flush \/ callbacks) /\ callbacks' = FALSE
    BY <1>7 DEF Tick, EnableFlush
  <2>2. now' \in Times /\ now' >= now
    BY <1>3, <2>1, StatisticsAssumption DEF Times
  <2>3. needs_flush' = TRUE
    BY <2>1 DEF IInv, FlushedOnce
  <2> QED BY <1>2, <2>1, <2>2, <2>3 DEF IInv, FlushedOnce
<1>8. CASE UNCHANGED vars
  BY <1>2, <1>3, <1>8 DEF vars, IInv, FlushedOnce
<1> QED BY <1>4, <1>5, <1>6, <1>7, <1>8

LEMMA InitEstablishesIInv ==
  ASSUME Init
  PROVE  IInv
<1> USE DEF Init
<1>1. sets \in SampleSetLists /\ DOMAIN sets = {}
  <2> HIDE DEF Init
  <2>1. sets = [s \in {} |-> NewSampleSet]
    BY DEF Init
  <2>2. sets \in [{} -> SampleSets] /\ {} \in SUBSET Sets
    BY <2>1
  <2> QED BY <2>1, <2>2 DEF SampleSetLists
<1>2. now \in Times
  BY StatisticsAssumption DEF Times
<1>3. OneTimerPerSampling
  BY <1>1 DEF OneTimerPerSampling
<1> QED BY <1>1, <1>2, <1>3 DEF IInv, FlushedOnce

LEMMA Invariance == Spec => []IInv
<1>1. Init => IInv
  BY InitEstablishesIInv
<1>2. IInv /\ [Next]_vars => IInv'
  <2> SUFFICES ASSUME IInv, [Next]_vars PROVE IInv'
    OBVIOUS
  <2>1. ASSUME NEW s \in Sets, Configure(s)
        PROVE  IInv'
    <3>1. CASE AddSampleSet(s)
      BY <3>1, AddSampleSetKeepsIInv
    <3>2. CASE DeleteSampleSet(s)
      BY <3>2, DeleteSampleSetKeepsIInv
    <3>3. CASE \E p \in Slots : \/ AddParameter(s, p) \/ DeleteParameter(s, p)
                               \/ \E ref \in References : SetReference(s, p, ref)
      BY <3>3, ConfigureParameterKeepsIInv
    <3>4. CASE \E v : \/ v \in BOOLEAN /\ SetEnable(s, v)
                      \/ v \in Reports /\ SetReportSamples(s, v)
                      \/ v \in Intervals /\ SetSampleInterval(s, v)
                      \/ v \in Fetches /\ SetFetchSamples(s, v)
                      \/ v \in TimeReferences /\ SetTimeReference(s, v)
                      \/ v \in Notifications /\ SetAttributes(s, v)
      BY <3>4, AssignmentKeepsIInv
    <3> QED BY <2>1, <3>1, <3>2, <3>3, <3>4 DEF Configure
  <2>2. ASSUME NEW s \in DOMAIN sets, CollectSample(s)
        PROVE  IInv'
    BY <2>2, CollectSampleKeepsIInv
  <2> QED BY <2>1, <2>2, ElsewhereKeepsIInv DEF Next
<1> QED BY <1>1, <1>2, PTL DEF Spec

-----------------------------------------------------------------------------
(* The theorems *)

\* The attributes of the sample sets and the timers have their types
\* (dm/periodic_statistics.py).
THEOREM TypeCorrect == Spec => []TypeOK
<1>1. IInv => TypeOK
  BY ListFacts DEF IInv, TypeOK, SampleSets, FreshParameters
<1> QED BY <1>1, Invariance, PTL

\* However the ACS configures, disables and deletes the sets between two samples, a set
\* that is to sample has one timer, which it can remove, at most an interval away, and
\* no other set has any (UpdateSampling, SetSampleTrigger, StopSampling).
THEOREM TimersFollowSets == Spec => []OneTimerPerSampling
<1>1. IInv => OneTimerPerSampling
  BY DEF IInv
<1> QED BY <1>1, Invariance, PTL

\* Each value was read when its sample ended, whatever sessions, other sets and the UI
\* read through the cache (_FlushIfNewStatsSession, _EnableFlush).
THEOREM NoSampleIsStale == Spec => []SamplesFresh
<1>1. IInv => SamplesFresh
  <2> SUFFICES ASSUME IInv, NEW s \in DOMAIN sets, NEW p \in DOMAIN sets[s].params,
                      NEW i \in DOMAIN sets[s].params[p].values
               PROVE  sets[s].params[p].values[i] = sets[s].params[p].times[i][2]
    BY DEF SamplesFresh
  <2>1. sets[s].params[p] \in FreshParameters
    BY ListFacts DEF IInv, SampleSets
  <2> QED BY <2>1 DEF FreshParameters
<1> QED BY <1>1, Invariance, PTL

-----------------------------------------------------------------------------
(* Samples that line up *)

\* Samples in the order of time, the last one ended by the time t.
InOrder(ts, t) ==
  /\ \A i \in 1..Len(ts) : ts[i][1] <= ts[i][2] /\ ts[i][2] <= t
  /\ \A i \in 1..(Len(ts) - 1) : ts[i][2] <= ts[i + 1][1]

\* ts is the end of all, counted from behind.
Aligned(ts, all) ==
  /\ Len(ts) <= Len(all)
  /\ \A k \in 0..(Len(ts) - 1) : ts[Len(ts) - k] = all[Len(all) - k]

\* The next sample begins at start, once it is set.
LinedUp(x, t) ==
  /\ x.start # None => x.start <= t
  /\ InOrder(x.times, IF x.start = None THEN t ELSE x.start)
  /\ \A p \in DOMAIN x.params : x.params[p].missed \/ Aligned(x.params[p].times, x.times)

AllLinedUp == \A s \in DOMAIN sets : LinedUp(sets[s], now)

LEMMA AlignedLastN ==
  ASSUME NEW ts \in Seq(SampleTime), NEW all \in Seq(SampleTime), Aligned(ts, all), NEW n \in Nat \ {0}
  PROVE  Aligned(LastN(ts, n), LastN(all, n))
<1> DEFINE a == LastN(ts, n)
           b == LastN(all, n)
<1>1. /\ Len(ts) \in Nat /\ Len(all) \in Nat /\ Len(ts) <= Len(all)
      /\ \A k \in 0..(Len(ts) - 1) : ts[Len(ts) - k] = all[Len(all) - k]
  BY DEF Aligned
<1>2. /\ Len(a) = IF n >= Len(ts) THEN Len(ts) ELSE n
      /\ \A i \in 1..Len(a) : a[i] = ts[i + Len(ts) - Len(a)]
  BY LastNFacts
<1>3. /\ Len(b) = IF n >= Len(all) THEN Len(all) ELSE n
      /\ \A i \in 1..Len(b) : b[i] = all[i + Len(all) - Len(b)]
  BY LastNFacts
<1> HIDE DEF a, b
<1>4. /\ Len(a) \in Nat /\ Len(b) \in Nat /\ Len(a) <= Len(b) /\ Len(a) <= Len(ts)
      /\ Len(b) <= Len(all)
  BY <1>1, <1>2, <1>3
<1>5. ASSUME NEW k \in 0..(Len(a) - 1)
      PROVE  a[Len(a) - k] = b[Len(b) - k]
  <2>1. Len(a) - k \in 1..Len(a) /\ Len(b) - k \in 1..Len(b) /\ k \in 0..(Len(ts) - 1)
    BY <1>4
  <2>2. a[Len(a) - k] = ts[(Len(a) - k) + Len(ts) - Len(a)]
    BY <1>2, <2>1
  <2>3. b[Len(b) - k] = all[(Len(b) - k) + Len(all) - Len(b)]
    BY <1>3, <2>1
  <2>4. /\ (Len(a) - k) + Len(ts) - Len(a) = Len(ts) - k
        /\ (Len(b) - k) + Len(all) - Len(b) = Len(all) - k
    BY <1>1, <1>4
  <2> QED BY <1>1, <2>1, <2>2, <2>3, <2>4
<1> QED BY <1>4, <1>5 DEF Aligned, a, b

LEMMA AlignedAppend ==
  ASSUME NEW ts \in Seq(SampleTime), NEW all \in Seq(SampleTime), Aligned(ts, all), NEW e \in SampleTime
  PROVE  Aligned(Append(ts, e), Append(all, e))
<1> DEFINE a == Append(ts, e)
           b == Append(all, e)
<1>1. /\ Len(ts) \in Nat /\ Len(all) \in Nat /\ Len(ts) <= Len(all)
      /\ \A k \in 0..(Len(ts) - 1) : ts[Len(ts) - k] = all[Len(all) - k]
  BY DEF Aligned
<1>2. /\ Len(a) = Len(ts) + 1 /\ a[Len(ts) + 1] = e /\ \A i \in 1..Len(ts) : a[i] = ts[i]
      /\ Len(b) = Len(all) + 1 /\ b[Len(all) + 1] = e /\ \A i \in 1..Len(all) : b[i] = all[i]
  OBVIOUS
<1> HIDE DEF a, b
<1>3. ASSUME NEW k \in 0..(Len(a) - 1)
      PROVE  a[Len(a) - k] = b[Len(b) - k]
  <2>1. CASE k = 0
    BY <1>1, <1>2, <2>1
  <2>2. CASE k # 0
    <3>1. /\ k - 1 \in 0..(Len(ts) - 1) /\ Len(a) - k = Len(ts) - (k - 1)
          /\ Len(b) - k = Len(all) - (k - 1)
          /\ Len(ts) - (k - 1) \in 1..Len(ts) /\ Len(all) - (k - 1) \in 1..Len(all)
      BY <1>1, <1>2, <2>2
    <3> QED BY <1>1, <1>2, <3>1
  <2> QED BY <2>1, <2>2
<1>4. Len(a) <= Len(b)
  BY <1>1, <1>2
<1> QED BY <1>3, <1>4 DEF Aligned, a, b

LEMMA InOrderLastN ==
  ASSUME NEW ts \in Seq(SampleTime), NEW t, InOrder(ts, t), NEW n \in Nat
  PROVE  InOrder(LastN(ts, n), t)
<1> DEFINE a == LastN(ts, n)
           d == Len(ts) - Len(a)
<1>1. /\ Len(a) = IF n = 0 \/ n >= Len(ts) THEN Len(ts) ELSE n
      /\ \A i \in 1..Len(a) : a[i] = ts[i + Len(ts) - Len(a)]
      /\ Len(ts) \in Nat
  BY LastNFacts
<1> HIDE DEF a
<1>2. /\ Len(a) \in Nat /\ d \in Nat /\ d + Len(a) = Len(ts)
      /\ \A i \in 1..Len(a) : i + Len(ts) - Len(a) = i + d
  BY <1>1
<1> HIDE DEF d
<1>3. ASSUME NEW i \in 1..Len(a)
      PROVE  a[i] = ts[i + d] /\ i + d \in 1..Len(ts)
  <2>1. i + Len(ts) - Len(a) = i + d
    BY <1>2
  <2>2. a[i] = ts[i + Len(ts) - Len(a)]
    BY <1>1
  <2>3. i + d \in 1..Len(ts)
    BY <1>2
  <2> QED BY <2>1, <2>2, <2>3
<1>4. \A i \in 1..(Len(a) - 1) : i \in 1..Len(a) /\ i + 1 \in 1..Len(a)
                               /\ i + d \in 1..(Len(ts) - 1) /\ (i + 1) + d = (i + d) + 1
  BY <1>1, <1>2
<1> QED BY <1>3, <1>4 DEF InOrder, a

LEMMA InOrderAppend ==
  ASSUME NEW ts \in Seq(SampleTime), NEW start \in Nat, InOrder(ts, start), NEW t \in Nat, start <= t,
         <<start, t>> \in SampleTime
  PROVE  InOrder(Append(ts, <<start, t>>), t)
<1> DEFINE a == Append(ts, <<start, t>>)
<1>1. /\ Len(ts) \in Nat /\ Len(a) = Len(ts) + 1 /\ a[Len(ts) + 1] = <<start, t>>
      /\ \A i \in 1..Len(ts) : a[i] = ts[i]
  OBVIOUS
<1> HIDE DEF a
<1>2. \A i \in 1..Len(ts) : ts[i][1] \in Int /\ ts[i][2] \in Int
  BY StatisticsAssumption DEF SampleTime, Times
<1>3. ASSUME NEW i \in 1..Len(a)
      PROVE  a[i][1] <= a[i][2] /\ a[i][2] <= t
  <2>1. CASE i = Len(ts) + 1
    BY <1>1, <2>1
  <2>2. CASE i \in 1..Len(ts)
    <3>1. a[i] = ts[i] /\ ts[i][1] <= ts[i][2] /\ ts[i][2] <= start /\ ts[i][2] \in Int
      BY <1>1, <1>2, <2>2 DEF InOrder
    <3> QED BY <3>1
  <2> QED BY <1>1, <2>1, <2>2
<1>4. ASSUME NEW i \in 1..(Len(a) - 1)
      PROVE  a[i][2] <= a[i + 1][1]
  <2>1. CASE i = Len(ts)
    BY <1>1, <2>1 DEF InOrder
  <2>2. CASE i # Len(ts)
    <3>1. i \in 1..(Len(ts) - 1) /\ i + 1 \in 1..Len(ts) /\ i \in 1..Len(ts)
      BY <1>1, <2>2
    <3> QED BY <1>1, <3>1 DEF InOrder
  <2> QED BY <2>1, <2>2
<1> QED BY <1>3, <1>4 DEF InOrder, a

LEMMA InOrderLater ==
  ASSUME NEW ts \in Seq(SampleTime), NEW t \in Nat, NEW u \in Nat, t <= u, InOrder(ts, t)
  PROVE  InOrder(ts, u)
<1>1. \A i \in 1..Len(ts) : ts[i][1] \in Int /\ ts[i][2] \in Int
  BY StatisticsAssumption DEF SampleTime, Times
<1> QED BY <1>1 DEF InOrder

LEMMA ClearLinesUp ==
  ASSUME NEW x \in SampleSets, NEW t, x.start # None => x.start <= t
  PROVE  LinedUp(Clear(x), t)
<1>1. /\ Clear(x).start = x.start /\ Clear(x).times = <<>>
      /\ \A p \in DOMAIN Clear(x).params : Clear(x).params[p].times = <<>>
  BY ListFacts DEF Clear, ClearParameter, SampleSets, FreshParameters
<1>2. Len(<<>>) = 0 /\ 1..0 = {} /\ 1..(0 - 1) = {} /\ 0..(0 - 1) = {}
  OBVIOUS
<1> QED BY <1>1, <1>2 DEF LinedUp, InOrder, Aligned

LEMMA ReportLinesUp ==
  ASSUME NEW x \in SampleSets, NEW t, LinedUp(x, t), NEW v \in Nat \ {0}
  PROVE  LinedUp(Report(x, v), t)
<1> DEFINE y == Report(x, v)
<1>1. x.times \in Seq(SampleTime) /\ x.params \in ParameterLists
  BY DEF SampleSets
<1>2. /\ y.start = x.start /\ y.times = LastN(x.times, v) /\ DOMAIN y.params = DOMAIN x.params
      /\ \A p \in DOMAIN x.params : y.params[p] = Trim(x.params[p], v)
  BY DEF Report, SampleSets
<1>3. ASSUME NEW p \in DOMAIN x.params
      PROVE  y.params[p].missed \/ Aligned(y.params[p].times, y.times)
  <2>1. /\ x.params[p] \in FreshParameters /\ x.params[p].times \in Seq(SampleTime)
    BY <1>1, ListFacts DEF FreshParameters
  <2>2. /\ y.params[p].missed = x.params[p].missed
        /\ y.params[p].times = LastN(x.params[p].times, v)
    <3>1. Trim(x.params[p], v) =
            [x.params[p] EXCEPT !.times = LastN(x.params[p].times, v),
                                !.values = LastN(x.params[p].values, v)]
      <4> DEFINE m == IF v <= 0 THEN 1 ELSE v
      <4>1. m = v
        OBVIOUS
      <4>2. Trim(x.params[p], v) = [x.params[p] EXCEPT !.times = LastN(x.params[p].times, m),
                                                      !.values = LastN(x.params[p].values, m)]
        BY DEF Trim
      <4> HIDE DEF m
      <4> QED BY <4>1, <4>2
    <3> QED BY <1>2, <2>1, <3>1 DEF FreshParameters
  <2>3. x.params[p].missed \/ Aligned(x.params[p].times, x.times)
    BY DEF LinedUp
  <2> QED BY <1>1, <1>2, <2>1, <2>2, <2>3, AlignedLastN
<1>4. InOrder(y.times, IF y.start = None THEN t ELSE y.start)
  BY <1>1, <1>2, InOrderLastN DEF LinedUp
<1> HIDE DEF y
<1> QED BY <1>2, <1>3, <1>4 DEF LinedUp, y

LEMMA CollectedLinesUp ==
  ASSUME IInv, NEW x \in SampleSets, LinedUp(x, now), x.report > 0
  PROVE  LinedUp(Collected(x), now)
<1> DEFINE y == Collected(x)
           start == IF x.start = None THEN now ELSE x.start
           e == <<start, now>>
<1>1. /\ x.times \in Seq(SampleTime) /\ x.params \in ParameterLists /\ x.report \in Nat \ {0}
      /\ start \in Times /\ now \in Times /\ start \in Nat /\ now \in Nat /\ start <= now
      /\ e \in SampleTime /\ InOrder(x.times, start)
  BY StatisticsAssumption DEF SampleSets, IInv, LinedUp, Times, SampleTime
<1>2. /\ y.start = None /\ y.times = LastN(Append(x.times, e), x.report)
      /\ DOMAIN y.params = DOMAIN x.params
      /\ \A p \in DOMAIN x.params : y.params[p] = CollectParameter(x.params[p], x.report, start)
  BY DEF Collected, SampleSets
<1> HIDE DEF y, start
<1>3. InOrder(y.times, now)
  <2>1. InOrder(Append(x.times, e), now) /\ Append(x.times, e) \in Seq(SampleTime)
    BY <1>1, InOrderAppend
  <2> QED BY <1>1, <1>2, <2>1, InOrderLastN
<1>4. ASSUME NEW p \in DOMAIN x.params
      PROVE  y.params[p].missed \/ Aligned(y.params[p].times, y.times)
  <2> DEFINE q == x.params[p]
  <2>1. q \in FreshParameters /\ q.times \in Seq(SampleTime)
    BY <1>1, ListFacts DEF FreshParameters
  <2>2. q.missed \/ Aligned(q.times, x.times)
    BY DEF LinedUp
  <2>3. y.params[p] = CollectParameter(q, x.report, start)
    BY <1>2
  <2> HIDE DEF q
  <2>4. CASE q.ref \notin Resolving
    <3>1. y.params[p] = Trim([q EXCEPT !.missed = TRUE], x.report)
      BY <2>3, <2>4 DEF CollectParameter
    <3> QED BY <2>1, <3>1 DEF Trim, FreshParameters
  <2>5. CASE q.ref \in Resolving
    <3>1. y.params[p] = Trim([q EXCEPT !.values = Append(q.values, Read(Flushed, q.ref)),
                                      !.times = Append(q.times, e)], x.report)
      BY <2>3, <2>5 DEF CollectParameter
    <3>2. /\ y.params[p].missed = q.missed
          /\ y.params[p].times = LastN(Append(q.times, e), x.report)
      BY <1>1, <2>1, <3>1 DEF Trim, FreshParameters
    <3>3. CASE Aligned(q.times, x.times)
      <4>1. Aligned(Append(q.times, e), Append(x.times, e))
        BY <1>1, <2>1, <3>3, AlignedAppend
      <4>2. Append(q.times, e) \in Seq(SampleTime) /\ Append(x.times, e) \in Seq(SampleTime)
        BY <1>1, <2>1
      <4> QED BY <1>1, <1>2, <3>2, <4>1, <4>2, AlignedLastN
    <3> QED BY <2>2, <3>2, <3>3
  <2> QED BY <2>4, <2>5
<1> QED BY <1>2, <1>3, <1>4 DEF LinedUp, y

-----------------------------------------------------------------------------

\* An assignment to one set, at the same time.
LEMMA OneLinedUp ==
  ASSUME AllLinedUp, NEW s \in DOMAIN sets, NEW y, sets' = [sets EXCEPT ![s] = y], now' = now,
         LinedUp(y, now)
  PROVE  AllLinedUp'
BY DEF AllLinedUp

\* The timer does not change what was sampled, only when the next sample begins.
LEMMA StartLinesUp ==
  ASSUME IInv, NEW x \in SampleSets, LinedUp(x, now), NEW start \in {x.start, now}, NEW pending
  PROVE  LinedUp([x EXCEPT !.start = start, !.pending = pending], now)
<1> DEFINE y == [x EXCEPT !.start = start, !.pending = pending]
<1>1. /\ y.start = start /\ y.times = x.times /\ y.params = x.params
      /\ x.times \in Seq(SampleTime) /\ x.start \in Times \cup {None}
  BY DEF SampleSets
<1>2. now \in Nat /\ now # None /\ (x.start # None => x.start \in Nat /\ x.start <= now)
  BY <1>1, StatisticsAssumption DEF IInv, Times, None, LinedUp
<1>3. InOrder(x.times, now)
  BY <1>1, <1>2, InOrderLater DEF LinedUp
<1> HIDE DEF y
<1> QED BY <1>1, <1>2, <1>3 DEF LinedUp, y

LEMMA UpdateSamplingLinesUp ==
  ASSUME IInv, AllLinedUp, NEW s \in DOMAIN sets, NEW x \in SampleSets, LinedUp(x, now),
         now' = now, UpdateSampling(s, x)
  PROVE  AllLinedUp'
<1>1. CASE Sampling(x)
  <2>1. sets' = [sets EXCEPT ![s] = [x EXCEPT !.start = now, !.pending = now + TimeToNextSample(x)]]
    BY <1>1 DEF UpdateSampling, SetSampleTrigger
  <2> QED BY <2>1, StartLinesUp, OneLinedUp
<1>2. CASE ~Sampling(x)
  <2>1. sets' = [sets EXCEPT ![s] = [x EXCEPT !.pending = None]]
    BY <1>2 DEF UpdateSampling, StopSampling
  <2>2. LinedUp([x EXCEPT !.pending = None], now)
    BY DEF LinedUp, SampleSets
  <2> QED BY <2>1, <2>2, OneLinedUp
<1> QED BY <1>1, <1>2

LEMMA ConfigureLinesUp ==
  ASSUME IInv, AllLinedUp, NEW s \in Sets, Configure(s)
  PROVE  AllLinedUp'
<1> DEFINE x == sets[s]
<1>1. now' = now
  BY DEF Configure, Event, AddSampleSet, DeleteSampleSet, AddParameter, DeleteParameter,
         SetReference, SetEnable, SetReportSamples, SetSampleInterval, SetFetchSamples,
         SetTimeReference, SetAttributes
<1>2. ASSUME s \in DOMAIN sets
      PROVE  /\ x \in SampleSets /\ LinedUp(x, now)
             /\ x.start # None => x.start <= now
  BY <1>2, ListFacts DEF IInv, AllLinedUp, LinedUp
<1>3. CASE AddSampleSet(s)
  <2>1. /\ DOMAIN sets' = DOMAIN sets \cup {s} /\ sets'[s] = NewSampleSet
        /\ \A r \in DOMAIN sets : sets'[r] = sets[r]
    BY <1>3 DEF AddSampleSet, With
  <2>2. LinedUp(NewSampleSet, now)
    <3>1. /\ Len(<<>>) = 0 /\ 1..0 = {} /\ 1..(0 - 1) = {}
      OBVIOUS
    <3> QED BY <3>1 DEF LinedUp, NewSampleSet, InOrder
  <2> QED BY <1>1, <2>1, <2>2 DEF AllLinedUp
<1>4. CASE DeleteSampleSet(s)
  <2>1. /\ DOMAIN sets' = DOMAIN sets \ {s}
        /\ \A r \in DOMAIN sets \ {s} : sets'[r] = sets[r]
    BY <1>4 DEF DeleteSampleSet, Without
  <2> QED BY <1>1, <2>1 DEF AllLinedUp
<1>5. ASSUME NEW p \in Slots, AddParameter(s, p)
      PROVE  AllLinedUp'
  <2> DEFINE y == [x EXCEPT !.params = With(x.params, p, NewParameter)]
  <2>1. s \in DOMAIN sets /\ p \notin DOMAIN x.params /\ sets' = [sets EXCEPT ![s] = y]
    BY <1>5 DEF AddParameter
  <2>2. /\ y.start = x.start /\ y.times = x.times /\ DOMAIN y.params = DOMAIN x.params \cup {p}
        /\ y.params[p] = NewParameter
        /\ \A q \in DOMAIN x.params : y.params[q] = x.params[q]
    BY <1>2, <2>1 DEF With, SampleSets
  <2>3. Aligned(NewParameter.times, x.times)
    <3>1. /\ Len(<<>>) = 0 /\ 0..(0 - 1) = {} /\ 0 <= Len(x.times)
      BY <1>2, <2>1 DEF SampleSets
    <3> QED BY <3>1 DEF NewParameter, Aligned
  <2> HIDE DEF y
  <2>4. LinedUp(y, now)
    BY <1>2, <2>1, <2>2, <2>3 DEF LinedUp
  <2> QED BY <1>1, <2>1, <2>4, OneLinedUp
<1>6. ASSUME NEW p \in Slots, DeleteParameter(s, p)
      PROVE  AllLinedUp'
  <2> DEFINE y == [x EXCEPT !.params = Without(x.params, p)]
  <2>1. s \in DOMAIN sets /\ sets' = [sets EXCEPT ![s] = y]
    BY <1>6 DEF DeleteParameter
  <2>2. /\ y.start = x.start /\ y.times = x.times /\ DOMAIN y.params = DOMAIN x.params \ {p}
        /\ \A q \in DOMAIN x.params \ {p} : y.params[q] = x.params[q]
    BY <1>2, <2>1 DEF Without, SampleSets
  <2> HIDE DEF y
  <2>3. LinedUp(y, now)
    BY <1>2, <2>1, <2>2 DEF LinedUp
  <2> QED BY <1>1, <2>1, <2>3, OneLinedUp
<1>7. ASSUME NEW p \in Slots, NEW ref \in References, SetReference(s, p, ref)
      PROVE  AllLinedUp'
  <2> DEFINE y == [x EXCEPT !.params = [x.params EXCEPT ![p] = [x.params[p] EXCEPT !.ref = ref]]]
  <2>1. s \in DOMAIN sets /\ p \in DOMAIN x.params /\ sets' = [sets EXCEPT ![s] = y]
    BY <1>7 DEF SetReference
  <2>2. x.params[p] \in FreshParameters
    BY <1>2, <2>1, ListFacts DEF SampleSets
  <2>3. /\ y.start = x.start /\ y.times = x.times /\ DOMAIN y.params = DOMAIN x.params
        /\ \A q \in DOMAIN x.params : /\ y.params[q].times = x.params[q].times
                                     /\ y.params[q].missed = x.params[q].missed
    BY <1>2, <2>1, <2>2 DEF SampleSets, FreshParameters
  <2> HIDE DEF y
  <2>4. LinedUp(y, now)
    BY <1>2, <2>1, <2>3 DEF LinedUp
  <2> QED BY <1>1, <2>1, <2>4, OneLinedUp
<1>8. ASSUME NEW v \in BOOLEAN, SetEnable(s, v)
      PROVE  AllLinedUp'
  <2> DEFINE z == IF v THEN Clear(x) ELSE x
             y == [z EXCEPT !.enable = v]
  <2>1. s \in DOMAIN sets /\ UpdateSampling(s, y)
    BY <1>8 DEF SetEnable
  <2>2. z \in SampleSets /\ LinedUp(z, now)
    BY <1>2, <2>1, ClearFacts, ClearLinesUp
  <2> HIDE DEF z
  <2>3. y \in SampleSets /\ LinedUp(y, now)
    BY <2>2 DEF SampleSets, LinedUp
  <2> HIDE DEF y
  <2> QED BY <1>1, <2>1, <2>3, UpdateSamplingLinesUp
<1>9. ASSUME NEW v \in Reports, SetReportSamples(s, v)
      PROVE  AllLinedUp'
  <2>1. s \in DOMAIN sets /\ UpdateSampling(s, Report(x, v)) /\ v \in Nat \ {0}
    BY <1>9, StatisticsAssumption DEF SetReportSamples
  <2>2. Report(x, v) \in SampleSets /\ LinedUp(Report(x, v), now)
    BY <1>2, <2>1, ReportFacts, ReportLinesUp
  <2> QED BY <1>1, <2>1, <2>2, UpdateSamplingLinesUp
<1>10. ASSUME NEW v \in Intervals, SetSampleInterval(s, v)
       PROVE  AllLinedUp'
  <2> DEFINE z == [x EXCEPT !.interval = v]
  <2>1. s \in DOMAIN sets /\ UpdateSampling(s, Clear(z)) /\ v \in Nat
    BY <1>10, StatisticsAssumption DEF SetSampleInterval
  <2>2. z \in SampleSets /\ z.start = x.start
    BY <1>2, <2>1 DEF SampleSets
  <2> HIDE DEF z
  <2>3. Clear(z) \in SampleSets /\ LinedUp(Clear(z), now)
    BY <1>2, <2>1, <2>2, ClearFacts, ClearLinesUp
  <2> QED BY <1>1, <2>1, <2>3, UpdateSamplingLinesUp
<1>11. ASSUME NEW v, SetFetchSamples(s, v) \/ SetAttributes(s, v)
       PROVE  AllLinedUp'
  <2>1. /\ s \in DOMAIN sets
        /\ sets' \in {[sets EXCEPT ![s] = [x EXCEPT !.fetch = v]],
                     [sets EXCEPT ![s] = [x EXCEPT !.notification = v]]}
    BY <1>11 DEF SetFetchSamples, SetAttributes
  <2>2. LinedUp([x EXCEPT !.fetch = v], now) /\ LinedUp([x EXCEPT !.notification = v], now)
    BY <1>2, <2>1 DEF LinedUp, SampleSets
  <2> QED BY <1>1, <2>1, <2>2, OneLinedUp
<1>12. ASSUME NEW v \in TimeReferences, SetTimeReference(s, v)
       PROVE  AllLinedUp'
  <2> DEFINE y == [Clear(x) EXCEPT !.reference = v]
  <2>1. s \in DOMAIN sets /\ sets' = [sets EXCEPT ![s] = y]
    BY <1>12 DEF SetTimeReference
  <2>2. Clear(x) \in SampleSets /\ LinedUp(Clear(x), now)
    BY <1>2, <2>1, ClearFacts, ClearLinesUp
  <2>3. LinedUp(y, now)
    BY <2>2 DEF LinedUp, SampleSets
  <2> HIDE DEF y
  <2> QED BY <1>1, <2>1, <2>3, OneLinedUp
<1> QED BY <1>3, <1>4, <1>5, <1>6, <1>7, <1>8, <1>9, <1>10, <1>11, <1>12 DEF Configure

LEMMA CollectSampleLinesUp ==
  ASSUME IInv, AllLinedUp, NEW s \in DOMAIN sets, CollectSample(s)
  PROVE  AllLinedUp'
<1> DEFINE x == Collected(sets[s])
           y == [x EXCEPT !.pending = None]
<1>1. PICK timer \in Due :
        /\ timer[1] = s /\ UNCHANGED now
        /\ IF y.enable
           THEN SetSampleTrigger(s, y, (timers \ {timer}) \ {<<s, sets[s].pending>>})
           ELSE sets' = [sets EXCEPT ![s] = y]
  BY DEF CollectSample, Removed
<1>2. sets[s] \in SampleSets /\ LinedUp(sets[s], now)
  BY ListFacts DEF IInv, AllLinedUp
<1>3. sets[s].report > 0
  BY <1>1 DEF Due, IInv, OneTimerPerSampling, Sampling
<1>4. x \in SampleSets /\ LinedUp(x, now)
  BY <1>2, <1>3, CollectedFacts, CollectedLinesUp
<1> HIDE DEF x
<1>5. y \in SampleSets /\ LinedUp(y, now)
  BY <1>4 DEF SampleSets, LinedUp
<1> HIDE DEF y
<1>6. CASE ~y.enable
  BY <1>1, <1>5, <1>6, OneLinedUp
<1>7. CASE y.enable
  <2>1. sets' = [sets EXCEPT ![s] = [y EXCEPT !.start = now, !.pending = now + TimeToNextSample(y)]]
    BY <1>1, <1>7 DEF SetSampleTrigger
  <2> QED BY <1>1, <1>5, <2>1, StartLinesUp, OneLinedUp
<1> QED BY <1>6, <1>7

LEMMA ElsewhereLinesUp ==
  ASSUME IInv, IInv', AllLinedUp, sets' = sets, now' >= now
  PROVE  AllLinedUp'
<1>1. now \in Nat /\ now' \in Nat
  BY StatisticsAssumption DEF IInv, Times
<1>2. ASSUME NEW s \in DOMAIN sets
      PROVE  LinedUp(sets[s], now')
  <2> DEFINE x == sets[s]
  <2>1. LinedUp(x, now) /\ x.times \in Seq(SampleTime) /\ x.start \in Times \cup {None}
    BY ListFacts DEF IInv, AllLinedUp, SampleSets
  <2> HIDE DEF x
  <2>2. x.start # None => x.start \in Nat /\ x.start <= now
    BY <2>1, StatisticsAssumption DEF Times, LinedUp
  <2>3. x.start # None => x.start <= now'
    BY <1>1, <2>2
  <2>4. InOrder(x.times, IF x.start = None THEN now' ELSE x.start)
    BY <1>1, <2>1, InOrderLater DEF LinedUp
  <2> QED BY <2>1, <2>3, <2>4 DEF LinedUp, x
<1> QED BY <1>2 DEF AllLinedUp

LEMMA AlwaysLinedUp == Spec => []AllLinedUp
<1>1. Init => AllLinedUp
  BY DEF Init, AllLinedUp
<1>2. IInv /\ IInv' /\ AllLinedUp /\ [Next]_vars => AllLinedUp'
  <2> SUFFICES ASSUME IInv, IInv', AllLinedUp, [Next]_vars PROVE AllLinedUp'
    OBVIOUS
  <2>1. now \in Nat /\ now >= now
    BY StatisticsAssumption DEF IInv, Times
  <2>2. CASE \/ \E refs \in SUBSET Resolving : OtherCollectSample(refs)
             \/ \E r \in Resolving : ReadExport(r)
             \/ EndSession
             \/ UNCHANGED vars
    <3>1. sets' = sets /\ now' = now
      BY <2>2 DEF OtherCollectSample, ReadExport, EndSession, vars
    <3> QED BY <2>1, <3>1, ElsewhereLinesUp
  <2>3. ASSUME NEW delay \in Delays, Tick(delay)
        PROVE  AllLinedUp'
    <3>1. sets' = sets /\ now' >= now
      BY <2>1, <2>3, StatisticsAssumption DEF Tick
    <3> QED BY <3>1, ElsewhereLinesUp
  <2> QED BY <2>2, <2>3, ConfigureLinesUp, CollectSampleLinesUp DEF Next
<1> QED BY <1>1, <1>2, Invariance, PTL DEF Spec

LEMMA AlignedIsSuffix ==
  ASSUME NEW ts \in Seq(SampleTime), NEW all \in Seq(SampleTime), Aligned(ts, all)
  PROVE  IsSuffix(ts, all)
<1> DEFINE a == Reverse(ts)
           b == Reverse(all)
<1>1. Len(ts) \in Nat /\ Len(all) \in Nat /\ Len(ts) <= Len(all)
  BY DEF Aligned
<1>2. /\ a \in Seq(SampleTime) /\ Len(a) = Len(ts)
      /\ \A i \in 1..Len(ts) : a[i] = ts[(Len(ts) - i) + 1]
  BY <1>1 DEF Reverse
<1>3. /\ b \in Seq(SampleTime) /\ Len(b) = Len(all)
      /\ \A i \in 1..Len(all) : b[i] = all[(Len(all) - i) + 1]
  BY <1>1 DEF Reverse
<1>4. IsSuffix(ts, all) <=> Len(a) <= Len(b) /\ SubSeq(a, 1, Len(a)) = SubSeq(b, 1, Len(a))
  BY DEF IsSuffix, IsPrefix
<1> HIDE DEF a, b
<1>5. ASSUME NEW i \in 1..Len(ts)
      PROVE  a[i] = b[i]
  <2>1. /\ i - 1 \in 0..(Len(ts) - 1) /\ i \in 1..Len(all)
        /\ (Len(ts) - i) + 1 = Len(ts) - (i - 1) /\ (Len(all) - i) + 1 = Len(all) - (i - 1)
    BY <1>1
  <2>2. ts[Len(ts) - (i - 1)] = all[Len(all) - (i - 1)]
    BY <2>1 DEF Aligned
  <2> QED BY <1>2, <1>3, <2>1, <2>2
<1>6. /\ SubSeq(a, 1, Len(ts)) = [i \in 1..Len(ts) |-> a[i]]
      /\ SubSeq(b, 1, Len(ts)) = [i \in 1..Len(ts) |-> b[i]]
  BY <1>1, <1>2, <1>3
<1>7. [i \in 1..Len(ts) |-> a[i]] = [i \in 1..Len(ts) |-> b[i]]
  BY <1>5
<1> QED BY <1>1, <1>2, <1>3, <1>4, <1>6, <1>7

\* Samples do not overlap, whatever restarted the timer between them, and those of a
\* parameter are the last ones of its set, unless some failed: SampleSeconds tells when
\* each of the Values was taken (CollectSample, ReportSamples, ClearSamplingData).
THEOREM TimesFitValues == Spec => []SamplesLineUp
<1>1. IInv /\ AllLinedUp => SamplesLineUp
  <2> SUFFICES ASSUME IInv, AllLinedUp PROVE SamplesLineUp
    OBVIOUS
  <2>1. ASSUME NEW s \in DOMAIN sets
        PROVE  /\ LinedUp(sets[s], now) /\ sets[s].times \in Seq(SampleTime)
               /\ \A p \in DOMAIN sets[s].params : sets[s].params[p].times \in Seq(SampleTime)
    BY ListFacts DEF IInv, AllLinedUp, SampleSets, FreshParameters
  <2>2. SamplesDisjoint
    BY <2>1 DEF SamplesDisjoint, LinedUp, InOrder
  <2>3. ParametersLineUp
    BY <2>1, AlignedIsSuffix DEF ParametersLineUp, LinedUp
  <2> QED BY <2>2, <2>3 DEF SamplesLineUp
<1> QED BY <1>1, Invariance, AlwaysLinedUp, PTL

-----------------------------------------------------------------------------
(* Samples to fetch *)

\* As many samples as were collected, or as ReportSamples keeps of them.
Counted(x) ==
  x.trimmed \/ Len(x.times) = IF x.report = 0 \/ x.collected <= x.report THEN x.collected
                              ELSE x.report

AllCounted == \A s \in DOMAIN sets : Counted(sets[s])

LEMMA ClearCounts ==
  ASSUME NEW x \in SampleSets
  PROVE  Counted(Clear(x))
<1>1. x.report \in Nat /\ Len(<<>>) = 0
  BY DEF SampleSets
<1>2. /\ Clear(x).times = <<>> /\ Clear(x).collected = 0 /\ Clear(x).report = x.report
  BY DEF Clear, SampleSets
<1> QED BY <1>1, <1>2 DEF Counted

LEMMA CollectedCounts ==
  ASSUME now \in Times, NEW x \in SampleSets, Counted(x)
  PROVE  Counted(Collected(x))
<1> DEFINE start == IF x.start = None THEN now ELSE x.start
           all   == Append(x.times, <<start, now>>)
<1>1. start \in Times /\ x.report \in Nat /\ x.collected \in Nat /\ x.times \in Seq(SampleTime)
  BY DEF SampleSets
<1>2. <<start, now>> \in SampleTime
  BY <1>1 DEF SampleTime
<1>3. all \in Seq(SampleTime) /\ Len(all) = Len(x.times) + 1 /\ Len(x.times) \in Nat
  BY <1>1, <1>2
<1>4. /\ Collected(x).times = LastN(all, x.report) /\ Collected(x).collected = x.collected + 1
      /\ Collected(x).report = x.report /\ Collected(x).trimmed = x.trimmed
  BY DEF Collected, SampleSets
<1> HIDE DEF start, all
<1>5. Len(LastN(all, x.report)) =
        IF x.report = 0 \/ x.report >= Len(all) THEN Len(all) ELSE x.report
  BY <1>1, <1>3, LastNFacts
<1> QED BY <1>1, <1>3, <1>4, <1>5 DEF Counted

LEMMA OneCounted ==
  ASSUME AllCounted, NEW s \in DOMAIN sets, NEW y, sets' = [sets EXCEPT ![s] = y], Counted(y)
  PROVE  AllCounted'
BY DEF AllCounted

\* An assignment that leaves alone what is counted.
LEMMA SameCounts ==
  ASSUME NEW x, NEW y, Counted(x), y.trimmed = x.trimmed, y.times = x.times,
         y.report = x.report, y.collected = x.collected
  PROVE  Counted(y)
BY DEF Counted

LEMMA UpdateSamplingCounts ==
  ASSUME IInv, AllCounted, NEW s \in DOMAIN sets, NEW x \in SampleSets, Counted(x),
         UpdateSampling(s, x)
  PROVE  AllCounted'
<1>1. CASE Sampling(x)
  <2> DEFINE y == [x EXCEPT !.start = now, !.pending = now + TimeToNextSample(x)]
  <2>1. sets' = [sets EXCEPT ![s] = y]
    BY <1>1 DEF UpdateSampling, SetSampleTrigger
  <2>2. Counted(y)
    BY DEF Counted, SampleSets
  <2> QED BY <2>1, <2>2, OneCounted
<1>2. CASE ~Sampling(x)
  <2> DEFINE y == [x EXCEPT !.pending = None]
  <2>1. sets' = [sets EXCEPT ![s] = y]
    BY <1>2 DEF UpdateSampling, StopSampling
  <2>2. Counted(y)
    BY DEF Counted, SampleSets
  <2> QED BY <2>1, <2>2, OneCounted
<1> QED BY <1>1, <1>2

LEMMA ConfigureCounts ==
  ASSUME IInv, AllCounted, NEW s \in Sets, Configure(s)
  PROVE  AllCounted'
<1> DEFINE x == sets[s]
<1>1. s \in DOMAIN sets => x \in SampleSets /\ Counted(x)
  BY ListFacts DEF IInv, AllCounted
<1>2. CASE AddSampleSet(s)
  <2>1. /\ DOMAIN sets' = DOMAIN sets \cup {s} /\ sets'[s] = NewSampleSet
        /\ \A r \in DOMAIN sets : sets'[r] = sets[r]
    BY <1>2 DEF AddSampleSet, With
  <2>2. Len(<<>>) = 0
    OBVIOUS
  <2>3. Counted(NewSampleSet)
    BY <2>2 DEF Counted, NewSampleSet
  <2> QED BY <2>1, <2>3 DEF AllCounted
<1>3. CASE DeleteSampleSet(s)
  <2>1. /\ DOMAIN sets' = DOMAIN sets \ {s}
        /\ \A r \in DOMAIN sets \ {s} : sets'[r] = sets[r]
    BY <1>3 DEF DeleteSampleSet, Without
  <2> QED BY <2>1 DEF AllCounted
<1>4. CASE \/ \E p \in Slots : AddParameter(s, p)
           \/ \E p \in Slots : DeleteParameter(s, p)
           \/ \E p \in Slots, ref \in References : SetReference(s, p, ref)
  <2>1. s \in DOMAIN sets
    BY <1>4 DEF AddParameter, DeleteParameter, SetReference
  <2>2. PICK f : sets' = [sets EXCEPT ![s] = [x EXCEPT !.params = f]]
    BY <1>4 DEF AddParameter, DeleteParameter, SetReference
  <2>3. Counted([x EXCEPT !.params = f])
    BY <1>1, <2>1 DEF Counted, SampleSets
  <2> QED BY <2>1, <2>2, <2>3, OneCounted
<1>5. ASSUME NEW v \in BOOLEAN, SetEnable(s, v)
      PROVE  AllCounted'
  <2> DEFINE z == IF v THEN Clear(x) ELSE x
             y == [z EXCEPT !.enable = v]
  <2>1. s \in DOMAIN sets /\ UpdateSampling(s, y)
    BY <1>5 DEF SetEnable
  <2>2. z \in SampleSets /\ Counted(z)
    BY <1>1, <2>1, ClearFacts, ClearCounts
  <2> HIDE DEF z
  <2>3. y \in SampleSets /\ Counted(y)
    BY <2>2 DEF SampleSets, Counted
  <2> HIDE DEF y
  <2> QED BY <2>1, <2>3, UpdateSamplingCounts
<1>6. ASSUME NEW v \in Reports, SetReportSamples(s, v)
      PROVE  AllCounted'
  <2>1. s \in DOMAIN sets /\ UpdateSampling(s, Report(x, v)) /\ v \in Nat \ {0}
    BY <1>6, StatisticsAssumption DEF SetReportSamples
  <2>2. Report(x, v) \in SampleSets
    BY <1>1, <2>1, ReportFacts
  <2>3. Report(x, v).trimmed = TRUE
    BY <1>1, <2>1 DEF Report, SampleSets
  <2>4. Counted(Report(x, v))
    BY <2>3 DEF Counted
  <2> QED BY <2>1, <2>2, <2>4, UpdateSamplingCounts
<1>7. ASSUME NEW v \in Intervals, SetSampleInterval(s, v)
      PROVE  AllCounted'
  <2> DEFINE z == [x EXCEPT !.interval = v]
  <2>1. s \in DOMAIN sets /\ UpdateSampling(s, Clear(z)) /\ v \in Nat
    BY <1>7, StatisticsAssumption DEF SetSampleInterval
  <2>2. z \in SampleSets
    BY <1>1, <2>1 DEF SampleSets
  <2> HIDE DEF z
  <2> QED BY <2>1, <2>2, ClearFacts, ClearCounts, UpdateSamplingCounts
<1>8. ASSUME NEW v, SetFetchSamples(s, v) \/ SetAttributes(s, v)
      PROVE  AllCounted'
  <2>1. /\ s \in DOMAIN sets
        /\ sets' \in {[sets EXCEPT ![s] = [x EXCEPT !.fetch = v]],
                     [sets EXCEPT ![s] = [x EXCEPT !.notification = v]]}
    BY <1>8 DEF SetFetchSamples, SetAttributes
  <2>2. Counted([x EXCEPT !.fetch = v]) /\ Counted([x EXCEPT !.notification = v])
    BY <1>1, <2>1 DEF Counted, SampleSets
  <2> QED BY <2>1, <2>2, OneCounted
<1>9. ASSUME NEW v \in TimeReferences, SetTimeReference(s, v)
      PROVE  AllCounted'
  <2> DEFINE z == Clear(x)
  <2>1. s \in DOMAIN sets /\ sets' = [sets EXCEPT ![s] = [z EXCEPT !.reference = v]]
    BY <1>9 DEF SetTimeReference
  <2>2. z \in SampleSets /\ Counted(z)
    BY <1>1, <2>1, ClearFacts, ClearCounts
  <2> HIDE DEF z
  <2>3. Counted([z EXCEPT !.reference = v])
    BY <2>2 DEF Counted, SampleSets
  <2> QED BY <2>1, <2>3, OneCounted
<1> QED BY <1>2, <1>3, <1>4, <1>5, <1>6, <1>7, <1>8, <1>9 DEF Configure

\* What a sample leaves of its set, and when it tells the ACS to fetch.
LEMMA CollectSampleCounts ==
  ASSUME IInv, AllCounted, NEW s \in DOMAIN sets, CollectSample(s)
  PROVE  /\ AllCounted'
         /\ s \in notified' => sets'[s].trimmed \/ sets'[s].fetch <= Len(sets'[s].times)
         /\ notified' \in {{}, {s}}
<1> DEFINE x == Collected(sets[s])
           y == [x EXCEPT !.pending = None]
<1>1. PICK timer \in Due :
        /\ notified' = IF FetchSamplesTriggered(y) /\ y.notification # 0 THEN {s} ELSE {}
        /\ IF y.enable
           THEN SetSampleTrigger(s, y, (timers \ {timer}) \ {<<s, sets[s].pending>>})
           ELSE sets' = [sets EXCEPT ![s] = y]
  BY DEF CollectSample, Removed
<1>2. sets[s] \in SampleSets /\ Counted(sets[s]) /\ now \in Times
  BY ListFacts DEF IInv, AllCounted
<1>3. x \in SampleSets /\ Counted(x)
  BY <1>2, CollectedFacts, CollectedCounts
<1> HIDE DEF x
<1>4. y \in SampleSets /\ Counted(y)
  BY <1>3 DEF SampleSets, Counted
<1> HIDE DEF y
<1>5. PICK z : /\ sets' = [sets EXCEPT ![s] = z]
               /\ z.trimmed = y.trimmed /\ z.times = y.times /\ z.report = y.report
               /\ z.collected = y.collected /\ z.fetch = y.fetch
  <2>1. CASE y.enable
    <3> DEFINE z == [y EXCEPT !.start = now, !.pending = now + TimeToNextSample(y)]
    <3>1. sets' = [sets EXCEPT ![s] = z]
      BY <1>1, <2>1 DEF SetSampleTrigger
    <3>2. /\ z.trimmed = y.trimmed /\ z.times = y.times /\ z.report = y.report
          /\ z.collected = y.collected /\ z.fetch = y.fetch
      BY <1>4 DEF SampleSets
    <3> QED BY <3>1, <3>2
  <2>2. CASE ~y.enable
    BY <1>1, <2>2
  <2> QED BY <2>1, <2>2
<1>6. AllCounted'
  BY <1>4, <1>5, SameCounts, OneCounted
<1>7. ASSUME FetchSamplesTriggered(y)
      PROVE  y.trimmed \/ y.fetch <= Len(y.times)
  <2>1. /\ y.collected \in Nat /\ y.fetch \in Nat /\ y.report \in Nat
        /\ y.collected > 0 /\ 0 < y.fetch /\ y.fetch <= y.report
        /\ y.collected % y.fetch = 0
    BY <1>4, <1>7 DEF FetchSamplesTriggered, SampleSets
  <2>2. y.fetch <= y.collected
    <3>1. SUFFICES ASSUME y.collected < y.fetch PROVE FALSE
      BY <2>1
    <3>2. y.collected % y.fetch = y.collected
      BY <2>1, <3>1
    <3> QED BY <2>1, <3>2
  <2> QED BY <1>4, <2>1, <2>2 DEF Counted
<1>8. sets'[s] = z
  BY <1>5
<1> QED BY <1>1, <1>5, <1>6, <1>7, <1>8

\* When the ACS is told to fetch, the number of samples that it asked for is there,
\* unless it changed ReportSamples since the data was cleared (FetchSamplesTriggered,
\* CollectSample), although both numbers may change between two samples.
THEOREM FetchFindsThem == Spec => FetchFindsSamples
<1>1. Init => AllCounted
  BY DEF Init, AllCounted
<1> DEFINE Finds == \A s \in notified' :
                      sets'[s].trimmed \/ sets'[s].fetch <= Len(sets'[s].times)
<1>2. ASSUME IInv, AllCounted, Next
      PROVE  AllCounted' /\ Finds
  <2>1. CASE \/ \E refs \in SUBSET Resolving : OtherCollectSample(refs)
             \/ \E r \in Resolving : ReadExport(r)
             \/ EndSession
             \/ \E delay \in Delays : Tick(delay)
    <3>1. sets' = sets /\ notified' = {}
      BY <2>1 DEF OtherCollectSample, ReadExport, EndSession, Tick
    <3> QED BY <1>2, <3>1 DEF AllCounted
  <2>2. ASSUME NEW s \in Sets, Configure(s)
        PROVE  AllCounted' /\ Finds
    <3>1. notified' = {}
      BY <2>2 DEF Configure, Event, AddSampleSet, DeleteSampleSet, AddParameter, DeleteParameter,
                  SetReference, SetEnable, SetReportSamples, SetSampleInterval, SetFetchSamples,
                  SetTimeReference, SetAttributes
    <3> QED BY <1>2, <2>2, <3>1, ConfigureCounts
  <2>3. ASSUME NEW s \in DOMAIN sets, CollectSample(s)
        PROVE  AllCounted' /\ Finds
    BY <1>2, <2>3, CollectSampleCounts
  <2> QED BY <1>2, <2>1, <2>2, <2>3 DEF Next
<1>3. ASSUME AllCounted, UNCHANGED vars
      PROVE  AllCounted'
  BY <1>3 DEF AllCounted, vars
<1>4. IInv /\ AllCounted /\ [Next]_vars => AllCounted' /\ [Finds]_vars
  BY <1>2, <1>3
<1> HIDE DEF Finds
<1>5. FetchFindsSamples <=> [][Finds]_vars
  BY DEF FetchFindsSamples, Finds
<1>6. Spec => [][Finds]_vars
  BY <1>1, <1>4, Invariance, PTL DEF Spec
<1> QED BY <1>5, <1>6

=============================================================================
