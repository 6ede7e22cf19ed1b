------------------------- MODULE Experiments_proofs -------------------------
(***************************************************************************)
(* The properties of Experiments, for any parameters, experiments and      *)
(* requests.  The inductive invariant is Sound: what active experiments    *)
(* force has its own value saved, and every value that a parameter has is  *)
(* one its setter takes, so that a roll back can assign it again.          *)
(*                                                                         *)
(* The lemmas follow the calls: a flush, an experiment applied, the loop   *)
(* over those requested, one assignment, the loop over the list of an RPC, *)
(* its roll back, its conclusion.  Each says what the memory after has of  *)
(* the one before.  The loops are functions defined by recursion, about    *)
(* which Recursion and Along of Induction say what each step keeps.        *)
(***************************************************************************)
EXTENDS Experiments, Induction

\* Configured, of any memory.
ConfiguredIn(x, p) == IF p \in DOMAIN x.saved THEN x.saved[p] ELSE x.value[p]

\* What saved_values may be.
Saveds == UNION {[ps -> Values] : ps \in SUBSET Params}

\* What experiments force has its own value saved, and every value is one its setter
\* takes, so that it can be put back.
Sound(x) ==
  /\ x \in Memory
  /\ \A i \in DOMAIN x.active : DOMAIN Forces[x.active[i]] \subseteq DOMAIN x.saved
  /\ \A p \in Params : Accepts(p, x.value[p])

\* From x to y no parameter but those in names is configured to another value, and no
\* mark and no exception is lost.
Keeps(x, y, names) ==
  /\ \A p \in Params \ names : ConfiguredIn(y, p) = ConfiguredIn(x, p)
  /\ x.dirty \subseteq y.dirty
  /\ x.raised => y.raised

\* Saved values are of parameters.
LEMMA SavedType ==
  ASSUME NEW f \in Saveds
  PROVE  DOMAIN f \subseteq Params /\ \A p \in DOMAIN f : f[p] \in Values
BY DEF Saveds

\* Functions from parameters to values can be saved.
LEMMA SavedFunction ==
  ASSUME NEW ps \in SUBSET Params, NEW f \in [ps -> Values]
  PROVE  f \in Saveds
BY DEF Saveds

\* The first function of an overlay wins.
LEMMA OverlayType ==
  ASSUME NEW f \in Saveds, NEW g \in Saveds
  PROVE  /\ Overlay(f, g) \in Saveds
         /\ DOMAIN Overlay(f, g) = DOMAIN f \cup DOMAIN g
         /\ \A p \in DOMAIN f : Overlay(f, g)[p] = f[p]
         /\ \A p \in DOMAIN g \ DOMAIN f : Overlay(f, g)[p] = g[p]
<1>1. /\ DOMAIN f \subseteq Params /\ DOMAIN g \subseteq Params
      /\ \A p \in DOMAIN f : f[p] \in Values
      /\ \A p \in DOMAIN g : g[p] \in Values
  BY SavedType
<1>2. Overlay(f, g) \in [DOMAIN f \cup DOMAIN g -> Values]
  BY <1>1 DEF Overlay
<1>3. Overlay(f, g) \in Saveds
  BY <1>1, <1>2, SavedFunction
<1>4. QED
  BY <1>3 DEF Overlay

\* The fields of a memory.
LEMMA MemoryFields ==
  ASSUME NEW x \in Memory
  PROVE  /\ x.value \in [Params -> Values] /\ x.saved \in Saveds
         /\ x.requested \in Seq(Names) /\ x.active \in Seq(Names)
         /\ x.dirty \subseteq Objects \cup {ExperimentsObject} /\ x.raised \in BOOLEAN
         /\ x.value \in Saveds
         /\ \A p \in Params : ConfiguredIn(x, p) \in Values
<1>1. /\ x.value \in [Params -> Values] /\ x.saved \in Saveds
      /\ x.requested \in Seq(Names) /\ x.active \in Seq(Names)
      /\ x.dirty \subseteq Objects \cup {ExperimentsObject} /\ x.raised \in BOOLEAN
  BY DEF Memory, Saveds
<1>2. x.value \in Saveds
  BY <1>1, SavedFunction
<1>3. QED
  BY <1>1, <1>2, SavedType DEF ConfiguredIn

\* Each parameter has an object.
LEMMA OwnerType ==
  \A name \in Params \cup {Requested} : Owner(name) \in Objects \cup {ExperimentsObject}
BY ExperimentsAssumption DEF Owner

\* What experiments force are values that the setters take.
LEMMA ForcesType ==
  ASSUME NEW name \in Names
  PROVE  /\ DOMAIN Forces[name] \subseteq Params
         /\ \A p \in DOMAIN Forces[name] :
              Forces[name][p] \in Values /\ Accepts(p, Forces[name][p])
BY ExperimentsAssumption DEF Accepts

\* Touch changes only the marks.
LEMMA TouchFields ==
  ASSUME NEW x \in Memory, NEW names \in SUBSET (Params \cup {Requested})
  PROVE  /\ Touch(x, names) \in Memory
         /\ Touch(x, names) = [x EXCEPT !.dirty = @ \cup {Owner(name) : name \in names}]
         /\ Touch(x, names).value = x.value /\ Touch(x, names).saved = x.saved
         /\ Touch(x, names).active = x.active /\ Touch(x, names).raised = x.raised
         /\ Touch(x, names).requested = x.requested
         /\ Touch(x, names).dirty = x.dirty \cup {Owner(name) : name \in names}
<1> DEFINE d == x.dirty \cup {Owner(name) : name \in names}
<1>1. d \subseteq Objects \cup {ExperimentsObject}
  BY OwnerType, MemoryFields
<1>2. Touch(x, names) = [x EXCEPT !.dirty = d]
  BY DEF Touch
<1> HIDE DEF d
<1>3. Touch(x, names) \in Memory
  BY <1>1, <1>2 DEF Memory
<1>4. QED
  BY <1>2, <1>3 DEF Memory, d

-----------------------------------------------------------------------------
(* Experiments *)

\* A flush writes saved values, and all of them if no setter refuses one.
LEMMA FlushedSaved ==
  ASSUME NEW x \in Memory
  PROVE  /\ Flushed(x) \subseteq DOMAIN x.saved
         /\ AllAccepted(x) => Flushed(x) = DOMAIN x.saved
<1>1. Flushed(x) \subseteq DOMAIN x.saved
  BY DEF Flushed
<1>2. ASSUME AllAccepted(x), NEW p \in DOMAIN x.saved PROVE p \in Flushed(x)
  <2>1. KeyOrder \in Seq(Params) /\ {KeyOrder[i] : i \in DOMAIN KeyOrder} = Params
    BY ExperimentsAssumption
  <2>2. p \in Params
    BY MemoryFields, SavedType
  <2>3. PICK k \in DOMAIN KeyOrder : KeyOrder[k] = p
    BY <2>1, <2>2
  <2>4. \A j \in 1..(k - 1) : KeyOrder[j] \in Params
    BY <2>1
  <2>5. \A j \in 1..(k - 1) : ~Refused(x, KeyOrder[j])
    BY <1>2, <2>4 DEF AllAccepted
  <2>6. QED
    BY <2>3, <2>5 DEF Flushed
<1>3. QED
  BY <1>1, <1>2

\* The first half of a flush: the values are written, and still saved.
LEMMA RestoreSavedSays ==
  ASSUME NEW x, Sound(x)
  PROVE  /\ Sound(RestoreSaved(x)) /\ Keeps(x, RestoreSaved(x), {})
         /\ RestoreSaved(x).saved = x.saved
         /\ RestoreSaved(x).requested = x.requested
         /\ AllAccepted(x) => \A p \in DOMAIN x.saved : RestoreSaved(x).value[p] = x.saved[p]
<1> DEFINE ps == Flushed(x)
           v == [p \in Params |->
                  IF p \in ps /\ Accepts(p, x.saved[p]) THEN x.saved[p] ELSE x.value[p]]
           y == [x EXCEPT !.value = v]
<1>1. x \in Memory /\ ps \subseteq DOMAIN x.saved /\ DOMAIN x.saved \subseteq Params
  BY FlushedSaved, MemoryFields, SavedType DEF Sound
<1>2. v \in [Params -> Values]
  BY <1>1, MemoryFields, SavedType
<1>3. \A p \in Params : Accepts(p, v[p])
  BY DEF Sound
<1>4. AllAccepted(x) => \A p \in DOMAIN x.saved : v[p] = x.saved[p]
  BY <1>1, FlushedSaved DEF AllAccepted, Refused
<1>5. RestoreSaved(x) = Touch(y, ps)
  BY DEF RestoreSaved
<1> HIDE DEF v
<1>6. /\ y \in Memory /\ y.value = v /\ y.saved = x.saved /\ y.active = x.active
      /\ y.dirty = x.dirty /\ y.raised = x.raised /\ y.requested = x.requested
  BY <1>1, <1>2 DEF Memory
<1> HIDE DEF y, ps
<1>7. /\ Touch(y, ps) \in Memory /\ Touch(y, ps).value = v /\ Touch(y, ps).saved = x.saved
      /\ Touch(y, ps).active = x.active /\ Touch(y, ps).raised = x.raised
      /\ Touch(y, ps).requested = x.requested /\ x.dirty \subseteq Touch(y, ps).dirty
  BY <1>1, <1>6, TouchFields
<1>8. \A p \in Params \ DOMAIN x.saved : v[p] = x.value[p]
  BY <1>1 DEF v
<1>9. QED
  BY <1>3, <1>4, <1>5, <1>7, <1>8 DEF Sound, Keeps, ConfiguredIn

\* A flush puts back every value, after which nothing is forced.
LEMMA FlushSays ==
  ASSUME NEW x, Sound(x), AllAccepted(x)
  PROVE  Sound(Flush(x)) /\ Keeps(x, Flush(x), {}) /\ Flush(x).requested = x.requested
<1> DEFINE y == RestoreSaved(x)
<1>1. /\ Sound(y) /\ Keeps(x, y, {}) /\ y.saved = x.saved /\ y.requested = x.requested
      /\ \A p \in DOMAIN x.saved : y.value[p] = x.saved[p]
  BY RestoreSavedSays
<1>2. Flush(x) = [y EXCEPT !.saved = Nothing, !.active = <<>>]
  BY DEF Flush
<1> HIDE DEF y
<1>3. Nothing \in Saveds /\ DOMAIN Nothing = {}
  <2>1. Nothing \in [{} -> Values]
    BY DEF Nothing
  <2>2. QED
    BY <2>1, SavedFunction
<1>4. y \in Memory /\ <<>> \in Seq(Names)
  BY <1>1 DEF Sound
<1>5. /\ Flush(x) \in Memory /\ Flush(x).value = y.value /\ Flush(x).saved = Nothing
      /\ Flush(x).active = <<>> /\ Flush(x).dirty = y.dirty /\ Flush(x).raised = y.raised
      /\ Flush(x).requested = y.requested
  BY <1>2, <1>3, <1>4 DEF Memory, Saveds
<1>6. QED
  BY <1>1, <1>3, <1>5 DEF Sound, Keeps, ConfiguredIn

\* What an experiment saves, in order to force other values.
LEMMA SaveSays ==
  ASSUME NEW x \in Memory, NEW name \in Names
  PROVE  /\ Save(x, Forces[name]) \in Saveds
         /\ DOMAIN Save(x, Forces[name]) = DOMAIN x.saved \cup DOMAIN Forces[name]
         /\ \A p \in DOMAIN Save(x, Forces[name]) :
              Save(x, Forces[name])[p] = ConfiguredIn(x, p)
<1> DEFINE g == [p \in DOMAIN Forces[name] |-> x.value[p]]
<1>1. g \in [DOMAIN Forces[name] -> Values] /\ DOMAIN Forces[name] \subseteq Params
  BY ForcesType, MemoryFields
<1>2. g \in Saveds
  BY <1>1, SavedFunction
<1>3. Save(x, Forces[name]) = Overlay(x.saved, g)
  BY DEF Save
<1>4. \A p \in DOMAIN g : g[p] = x.value[p]
  OBVIOUS
<1>5. DOMAIN g = DOMAIN Forces[name]
  OBVIOUS
<1> HIDE DEF g
<1> DEFINE s == Save(x, Forces[name])
<1>6. /\ s \in Saveds /\ DOMAIN s = DOMAIN x.saved \cup DOMAIN g
      /\ \A p \in DOMAIN x.saved : s[p] = x.saved[p]
      /\ \A p \in DOMAIN g \ DOMAIN x.saved : s[p] = g[p]
  <2>1. x.saved \in Saveds
    BY MemoryFields
  <2>2. s = Overlay(x.saved, g)
    BY <1>3
  <2> HIDE DEF s
  <2>3. /\ Overlay(x.saved, g) \in Saveds
        /\ DOMAIN Overlay(x.saved, g) = DOMAIN x.saved \cup DOMAIN g
        /\ \A p \in DOMAIN x.saved : Overlay(x.saved, g)[p] = x.saved[p]
        /\ \A p \in DOMAIN g \ DOMAIN x.saved : Overlay(x.saved, g)[p] = g[p]
    BY <1>2, <2>1, OverlayType
  <2>4. QED
    BY <2>2, <2>3
<1> HIDE DEF s
<1>7. \A p \in DOMAIN s : s[p] = ConfiguredIn(x, p)
  BY <1>4, <1>6 DEF ConfiguredIn
<1>8. QED
  BY <1>5, <1>6, <1>7 DEF s

\* An experiment is applied.
LEMMA ApplySays ==
  ASSUME NEW x, Sound(x), NEW name \in Names
  PROVE  Sound(Apply(x, name)) /\ Keeps(x, Apply(x, name), {})
<1> DEFINE force == Forces[name]
           s == Save(x, force)
           v == Overlay(force, x.value)
           a == Append(x.active, name)
           y == [x EXCEPT !.saved = s, !.value = v, !.active = a]
<1>0. x \in Memory
  BY DEF Sound
<1>1. /\ s \in Saveds /\ DOMAIN s = DOMAIN x.saved \cup DOMAIN force
      /\ \A p \in DOMAIN s : s[p] = ConfiguredIn(x, p)
  BY <1>0, SaveSays
<1>2. DOMAIN force \subseteq Params
      /\ \A p \in DOMAIN force : force[p] \in Values /\ Accepts(p, force[p])
  BY ForcesType
<1>3. v \in [Params -> Values] /\ \A p \in Params \ DOMAIN force : v[p] = x.value[p]
  BY <1>0, <1>2, MemoryFields DEF Overlay
<1>4. \A p \in Params : Accepts(p, v[p])
  BY <1>0, <1>2, MemoryFields DEF Overlay, Sound
<1>5. /\ a \in Seq(Names)
      /\ \A i \in DOMAIN a : (i \in DOMAIN x.active /\ a[i] = x.active[i]) \/ a[i] = name
  BY <1>0, MemoryFields
<1>6. \A i \in DOMAIN a : DOMAIN Forces[a[i]] \subseteq DOMAIN s
  BY <1>1, <1>5 DEF Sound
<1>7. Apply(x, name) = Touch(y, DOMAIN force)
  BY DEF Apply
<1> HIDE DEF s, v, a, force
<1>8. /\ y \in Memory /\ y.value = v /\ y.saved = s /\ y.active = a
      /\ y.dirty = x.dirty /\ y.raised = x.raised
  BY <1>0, <1>1, <1>3, <1>5 DEF Memory, Saveds
<1> HIDE DEF y
<1> DEFINE z == Touch(y, DOMAIN force)
<1>9. /\ z \in Memory /\ z.value = v /\ z.saved = s /\ z.active = a
      /\ x.dirty \subseteq z.dirty /\ z.raised = x.raised
  BY <1>2, <1>8, TouchFields
<1> HIDE DEF z
<1>10. Sound(z)
  BY <1>4, <1>6, <1>9 DEF Sound
<1>11. \A p \in Params : ConfiguredIn(z, p) = ConfiguredIn(x, p)
  BY <1>1, <1>3, <1>9 DEF ConfiguredIn
<1>12. QED
  BY <1>7, <1>9, <1>10, <1>11 DEF Keeps, z

\* An experiment fails after it saved.
LEMMA ApplyBrokenSays ==
  ASSUME NEW x, Sound(x), NEW name \in Names
  PROVE  Sound(ApplyBroken(x, name)) /\ Keeps(x, ApplyBroken(x, name), {})
<1> DEFINE s == Save(x, Forces[name])
           y == ApplyBroken(x, name)
<1>1. x \in Memory
  BY DEF Sound
<1>2. /\ s \in Saveds /\ DOMAIN s = DOMAIN x.saved \cup DOMAIN Forces[name]
      /\ \A p \in DOMAIN s : s[p] = ConfiguredIn(x, p)
  BY <1>1, SaveSays
<1>3. y = [x EXCEPT !.saved = s, !.raised = TRUE]
  BY DEF ApplyBroken
<1> HIDE DEF s, y
<1>4. /\ y \in Memory /\ y.value = x.value /\ y.saved = s /\ y.active = x.active
      /\ y.dirty = x.dirty /\ y.raised
  BY <1>1, <1>2, <1>3 DEF Memory, Saveds
<1>5. Sound(y)
  BY <1>2, <1>4 DEF Sound
<1>6. \A p \in Params : ConfiguredIn(y, p) = ConfiguredIn(x, p)
  BY <1>2, <1>4 DEF ConfiguredIn
<1>7. QED
  BY <1>4, <1>5, <1>6 DEF Keeps, y

\* Steps that keep the same names follow one another.
LEMMA KeepsTransitive ==
  ASSUME NEW x, NEW y, NEW z, NEW names, Keeps(x, y, names), Keeps(y, z, names)
  PROVE  Keeps(x, z, names)
BY DEF Keeps

\* One step of the loop over the experiments requested.
LEMMA ApplyNthSays ==
  ASSUME NEW x, Sound(x), NEW names \in Seq(Names),
         NEW n \in 1..Len(names)
  PROVE  Sound(ApplyNth(x, names, n)) /\ Keeps(x, ApplyNth(x, names, n), {})
<1>1. names[n] \in Names
  OBVIOUS
<1>2. Keeps(x, x, {})
  BY DEF Keeps
<1>3. CASE \E k \in 1..(n - 1) : names[k] \in Broken
  BY <1>2, <1>3 DEF ApplyNth
<1>4. CASE ~(\E k \in 1..(n - 1) : names[k] \in Broken) /\ names[n] \in Broken
  BY <1>1, <1>4, ApplyBrokenSays, Zenon DEF ApplyNth
<1>5. CASE ~(\E k \in 1..(n - 1) : names[k] \in Broken) /\ names[n] \notin Broken
  BY <1>1, <1>5, ApplySays, Zenon DEF ApplyNth
<1>6. QED
  BY <1>3, <1>4, <1>5

\* The loop over the experiments that are requested.
LEMMA ApplyRequestedSays ==
  ASSUME NEW x, Sound(x)
  PROVE  Sound(ApplyRequested(x)) /\ Keeps(x, ApplyRequested(x), {})
<1> DEFINE names == x.requested
           N == Len(names)
           S == {y \in Memory : Sound(y) /\ Keeps(x, y, {})}
           A == [n \in 0..N |-> S]
           step == [n \in 1..N |-> [y \in S |-> ApplyNth(y, names, n)]]
           applied[n \in 0..N] ==
             IF n = 0 THEN x ELSE ApplyNth(applied[n - 1], names, n)
<1>1. names \in Seq(Names) /\ N \in Nat
  BY MemoryFields DEF Sound
<1>2. x \in S
  BY DEF Sound, Keeps
<1>3. ASSUME NEW n \in 1..N, NEW y \in S PROVE ApplyNth(y, names, n) \in S
  <2>1. Sound(ApplyNth(y, names, n)) /\ Keeps(y, ApplyNth(y, names, n), {})
    BY <1>1, ApplyNthSays
  <2>2. QED
    BY <2>1, KeepsTransitive DEF Sound
<1>4. \A n \in 1..N : \A y \in A[n - 1] :
        step[n][y] = ApplyNth(y, names, n) /\ step[n][y] \in A[n]
  <2>1. ASSUME NEW n \in 1..N, NEW y \in S
        PROVE  step[n][y] = ApplyNth(y, names, n) /\ step[n][y] \in S
    BY <1>3
  <2> HIDE DEF S, step, names, N
  <2>2. \A n \in 1..N : A[n - 1] = S /\ A[n] = S
    BY <1>1
  <2>3. QED
    BY <2>1, <2>2
<1>5. x \in A[0]
  BY <1>1, <1>2
<1>6. ApplyRequested(x) = applied[N]
  BY DEF ApplyRequested
<1> HIDE DEF S, A, step, names, N
<1>7. PICK f : Iterates(N, x, step, f) /\ \A n \in 0..N : f[n] \in A[n]
  BY <1>1, <1>4, <1>5, Recursion
<1>8. f = [n \in 0..N |-> IF n = 0 THEN x ELSE ApplyNth(f[n - 1], names, n)]
  <2>1. \A n \in 1..N : step[n][f[n - 1]] = ApplyNth(f[n - 1], names, n)
    BY <1>1, <1>4, <1>7
  <2>2. f = [n \in 0..N |-> IF n = 0 THEN x ELSE step[n][f[n - 1]]]
    BY <1>7 DEF Iterates
  <2>3. ASSUME NEW n \in 0..N
        PROVE  (IF n = 0 THEN x ELSE step[n][f[n - 1]])
                 = IF n = 0 THEN x ELSE ApplyNth(f[n - 1], names, n)
    <3>1. CASE n = 0
      BY <3>1
    <3>2. CASE n # 0
      BY <1>1, <2>1, <3>2
    <3>3. QED
      BY <3>1, <3>2
  <2>4. QED
    BY <2>2, <2>3, Zenon
<1>9. applied = [n \in 0..N |-> IF n = 0 THEN x ELSE ApplyNth(applied[n - 1], names, n)]
  BY <1>8
<1> HIDE DEF applied
<1>10. applied[0] = x /\ \A n \in 1..N : applied[n] = ApplyNth(applied[n - 1], names, n)
  BY <1>1, <1>9
<1>11. \A n \in 1..N : applied[n - 1] \in A[n - 1] => applied[n] \in A[n]
  BY <1>4, <1>10
<1>12. \A n \in 0..N : applied[n] \in A[n]
  BY <1>1, <1>5, <1>10, <1>11, Along
<1>13. applied[N] \in S
  BY <1>1, <1>12 DEF A
<1>14. QED
  BY <1>6, <1>13 DEF S

\* Whatever is requested, no parameter is configured to another value.
LEMMA SetRequestedSays ==
  ASSUME NEW x, Sound(x), NEW names \in Seq(Names)
  PROVE  Sound(SetRequested(x, names)) /\ Keeps(x, SetRequested(x, names), {})
<1> DEFINE y == [x EXCEPT !.requested = names]
<1>1. Keeps(x, x, {})
  BY DEF Keeps
<1>2. Sound(y) /\ Keeps(x, y, {})
  <2>1. /\ y \in Memory /\ y.value = x.value /\ y.saved = x.saved /\ y.active = x.active
        /\ y.dirty = x.dirty /\ y.raised = x.raised
    BY DEF Sound, Memory
  <2> HIDE DEF y
  <2>2. QED
    BY <2>1 DEF Sound, Keeps, ConfiguredIn
<1>3. SetRequested(x, names) = IF names = x.requested THEN x ELSE Triggered(y)
  BY DEF SetRequested
<1> HIDE DEF y
<1>4. CASE AllAccepted(y)
  <2>1. Sound(Flush(y)) /\ Keeps(y, Flush(y), {})
    BY <1>2, <1>4, FlushSays
  <2>2. /\ Sound(ApplyRequested(Flush(y)))
        /\ Keeps(Flush(y), ApplyRequested(Flush(y)), {})
    BY <2>1, ApplyRequestedSays
  <2>3. Triggered(y) = ApplyRequested(Flush(y))
    BY <1>4 DEF Triggered
  <2>4. Keeps(x, Triggered(y), {})
    BY <1>2, <2>1, <2>2, <2>3, KeepsTransitive
  <2>5. QED
    BY <1>1, <1>3, <2>2, <2>3, <2>4
<1>5. CASE ~AllAccepted(y)
  <2> DEFINE z == RestoreSaved(y)
             e == [z EXCEPT !.raised = TRUE]
  <2>1. Sound(z) /\ Keeps(y, z, {})
    BY <1>2, RestoreSavedSays
  <2>2. Triggered(y) = e
    BY <1>5 DEF Triggered
  <2> HIDE DEF z
  <2>3. /\ e \in Memory /\ e.value = z.value /\ e.saved = z.saved /\ e.active = z.active
        /\ e.dirty = z.dirty /\ e.raised
    BY <2>1 DEF Sound, Memory
  <2> HIDE DEF e
  <2>4. Sound(e) /\ Keeps(z, e, {})
    BY <2>1, <2>3 DEF Sound, Keeps, ConfiguredIn
  <2>5. Keeps(x, e, {})
    BY <1>2, <2>1, <2>4, KeepsTransitive
  <2>6. QED
    BY <1>1, <1>3, <2>2, <2>4, <2>5
<1>6. QED
  BY <1>4, <1>5

-----------------------------------------------------------------------------
(* Assignments *)

\* What a request may assign.
Assignment == [name : Params, value : Values] \cup [name : {Requested}, value : Seq(Names)]

\* setattr of a parameter that is not Requested does nothing else than assign or raise.
SetsOrRaises(x, y, p, v) ==
  /\ Sound(y) /\ Keeps(x, y, {p}) /\ y.saved = x.saved /\ y.dirty = x.dirty
  /\ \A q \in Params \ {p} : y.value[q] = x.value[q]
  /\ Accepts(p, v) => y.value[p] = v /\ y.raised = x.raised
  /\ ~Accepts(p, v) => y.value[p] = x.value[p] /\ y.raised

LEMMA SetAttrSays ==
  ASSUME NEW x, Sound(x), NEW p \in Params, NEW v \in Values
  PROVE  SetsOrRaises(x, SetAttr(x, p, v), p, v)
<1> DEFINE y == SetAttr(x, p, v)
<1>1. p # Requested /\ x \in Memory
  BY ExperimentsAssumption DEF Sound
<1>2. CASE Accepts(p, v)
  <2>1. y = [x EXCEPT !.value[p] = v]
    BY <1>1, <1>2 DEF SetAttr
  <2> HIDE DEF y
  <2> DEFINE w == [x.value EXCEPT ![p] = v]
  <2>0. w \in [Params -> Values] /\ y = [x EXCEPT !.value = w]
    BY <1>1, <2>1, MemoryFields
  <2> HIDE DEF w
  <2>2. /\ y \in Memory /\ y.saved = x.saved /\ y.active = x.active
        /\ y.value = w /\ y.dirty = x.dirty /\ y.raised = x.raised
    BY <1>1, <2>0 DEF Memory
  <2>3. y.value[p] = v /\ \A q \in Params \ {p} : y.value[q] = x.value[q]
    BY <1>1, <2>2, MemoryFields DEF w
  <2>4. Sound(y)
    BY <1>2, <2>2, <2>3 DEF Sound
  <2>5. QED
    BY <1>2, <2>2, <2>3, <2>4 DEF Keeps, ConfiguredIn, SetsOrRaises, y
<1>3. CASE ~Accepts(p, v)
  <2>1. y = [x EXCEPT !.raised = TRUE]
    BY <1>1, <1>3 DEF SetAttr
  <2> HIDE DEF y
  <2>2. /\ y \in Memory /\ y.saved = x.saved /\ y.active = x.active
        /\ y.value = x.value /\ y.dirty = x.dirty /\ y.raised
    BY <1>1, <2>1 DEF Memory
  <2>3. Sound(y)
    BY <2>2 DEF Sound
  <2>4. QED
    BY <1>3, <2>2, <2>3 DEF Keeps, ConfiguredIn, SetsOrRaises, y
<1>4. QED
  BY <1>2, <1>3

\* setattr of Requested.
LEMMA SetAttrRequested ==
  ASSUME NEW x, Sound(x), NEW names \in Seq(Names)
  PROVE  SetAttr(x, Requested, names) = SetRequested(x, names)
BY DEF SetAttr

\* The mark that an assignment leaves.
LEMMA OneTouched ==
  ASSUME NEW x, Sound(x), NEW name \in Params \cup {Requested}
  PROVE  LET y == Touch(x, {name}) IN
         /\ Sound(y) /\ Keeps(x, y, {}) /\ y.value = x.value /\ y.saved = x.saved
         /\ y.raised = x.raised /\ Owner(name) \in y.dirty
<1>1. x \in Memory /\ {name} \subseteq Params \cup {Requested}
  BY DEF Sound
<1> DEFINE y == Touch(x, {name})
<1>2. /\ y \in Memory /\ y.value = x.value /\ y.saved = x.saved
      /\ y.active = x.active /\ y.raised = x.raised
      /\ y.dirty = x.dirty \cup {Owner(n) : n \in {name}}
  BY <1>1, TouchFields
<1> HIDE DEF y
<1>3. Sound(y)
  BY <1>2 DEF Sound
<1>4. QED
  BY <1>2, <1>3 DEF Keeps, ConfiguredIn, y

\* One assignment of an RPC.
AssignsOne(x, y, a) ==
  /\ Sound(y) /\ Keeps(x, y, {a.name})
  /\ a.name \in Params \ Vendor /\ ~y.raised => ConfiguredIn(y, a.name) = a.value
  /\ a.name # Requested =>
       /\ DOMAIN y.saved = DOMAIN x.saved
       /\ \A p \in Params \ {a.name} : y.value[p] = x.value[p]
       /\ a.name \in DOMAIN x.saved \ Vendor => y.value[a.name] = x.value[a.name]
       /\ a.name \notin DOMAIN x.saved => y.value[a.name] \in {x.value[a.name], a.value}
  /\ a.name \notin DOMAIN x.saved => Owner(a.name) \in y.dirty

\* An assignment through the handle, captured or not.
LEMMA SetExportParamSays ==
  ASSUME NEW x, Sound(x), NEW a \in Assignment
  PROVE  AssignsOne(x, SetExportParam(x, a), a)
<1> DEFINE y == SetExportParam(x, a)
           t == Touch(x, {a.name})
<1>1. /\ x \in Memory /\ x.saved \in Saveds /\ DOMAIN x.saved \subseteq Params
      /\ Requested \notin Params
  BY MemoryFields, SavedType, ExperimentsAssumption DEF Sound
<1>2. a.name \in Params \cup {Requested}
  BY DEF Assignment
<1>3. /\ a.name \in Params => a.value \in Values
      /\ a.name = Requested => a.value \in Seq(Names)
  BY <1>1 DEF Assignment
<1>4. CASE Captured(x, a.name)
  <2> DEFINE s == [x.saved EXCEPT ![a.name] = a.value]
  <2>1. a.name \in DOMAIN x.saved /\ a.name \in Params /\ a.name \notin Vendor
    BY <1>1, <1>4 DEF Captured
  <2>2. y = [x EXCEPT !.saved = s]
    BY <1>4 DEF SetExportParam
  <2>3. s \in [DOMAIN x.saved -> Values] /\ s[a.name] = a.value
        /\ \A p \in DOMAIN x.saved \ {a.name} : s[p] = x.saved[p]
    BY <1>1, <1>3, <2>1, SavedType
  <2>4. s \in Saveds /\ DOMAIN s = DOMAIN x.saved
    BY <1>1, <2>3, SavedFunction
  <2> HIDE DEF y, s
  <2>5. /\ y \in Memory /\ y.value = x.value /\ y.saved = s /\ y.active = x.active
        /\ y.dirty = x.dirty /\ y.raised = x.raised
    BY <1>1, <2>2, <2>4 DEF Memory, Saveds
  <2>6. Sound(y)
    BY <2>4, <2>5 DEF Sound
  <2>7. Keeps(x, y, {a.name})
    BY <2>3, <2>4, <2>5 DEF Keeps, ConfiguredIn
  <2>8. ConfiguredIn(y, a.name) = a.value
    BY <2>1, <2>3, <2>4, <2>5 DEF ConfiguredIn
  <2>9. QED
    BY <2>1, <2>4, <2>5, <2>6, <2>7, <2>8 DEF AssignsOne, y
<1>5. CASE ~Captured(x, a.name) /\ a.name \in Params
  <2>1. y = SetAttr(t, a.name, a.value)
    BY <1>5 DEF SetExportParam
  <2>2. /\ Sound(t) /\ Keeps(x, t, {}) /\ t.value = x.value /\ t.saved = x.saved
        /\ t.raised = x.raised /\ Owner(a.name) \in t.dirty
    BY <1>2, OneTouched
  <2> HIDE DEF t
  <2>3. /\ Sound(y) /\ Keeps(t, y, {a.name}) /\ y.saved = t.saved /\ y.dirty = t.dirty
        /\ \A q \in Params \ {a.name} : y.value[q] = t.value[q]
        /\ Accepts(a.name, a.value) => y.value[a.name] = a.value /\ y.raised = t.raised
        /\ ~Accepts(a.name, a.value) => y.value[a.name] = t.value[a.name] /\ y.raised
    <3> HIDE DEF y
    <3>1. a.name \in Params /\ a.value \in Values
      BY <1>3, <1>5
    <3>2. SetsOrRaises(t, y, a.name, a.value)
      BY <2>1, <2>2, <3>1, SetAttrSays
    <3>3. QED
      BY <3>2 DEF SetsOrRaises
  <2> HIDE DEF y
  <2>4. Keeps(x, y, {a.name})
    BY <2>2, <2>3 DEF Keeps
  <2>5. a.name \notin Vendor => a.name \notin DOMAIN x.saved
    BY <1>5 DEF Captured
  <2>6. a.name \in Params \ Vendor /\ ~y.raised => ConfiguredIn(y, a.name) = a.value
    BY <2>2, <2>3, <2>5 DEF ConfiguredIn
  <2>7. QED
    BY <2>2, <2>3, <2>4, <2>5, <2>6 DEF AssignsOne, y
<1>6. CASE a.name = Requested
  <2>1. ~Captured(x, a.name)
    BY <1>1, <1>6 DEF Captured
  <2>2. y = SetAttr(t, Requested, a.value)
    BY <1>6, <2>1 DEF SetExportParam
  <2>3. Sound(t) /\ Keeps(x, t, {}) /\ Owner(a.name) \in t.dirty
    BY <1>2, OneTouched
  <2> HIDE DEF t
  <2>4. Sound(y) /\ Keeps(t, y, {})
    BY <1>3, <1>6, <2>2, <2>3, SetAttrRequested, SetRequestedSays
  <2> HIDE DEF y
  <2>5. Keeps(x, y, {a.name}) /\ Owner(a.name) \in y.dirty
    BY <2>3, <2>4 DEF Keeps
  <2>6. QED
    BY <1>1, <1>6, <2>4, <2>5 DEF AssignsOne, y
<1>7. QED
  BY <1>2, <1>4, <1>5, <1>6

\* One step of the roll back.
LEMMA UndoOneSays ==
  ASSUME NEW x, Sound(x), NEW y, Sound(y), NEW a \in Assignment,
         NEW z, z = UndoOne(x, y, a)
  PROVE  /\ Sound(z) /\ Keeps(y, z, {a.name})
         /\ a.name # Requested =>
              /\ z.saved = y.saved
              /\ \A p \in Params \ {a.name} : z.value[p] = y.value[p]
              /\ a.value # x.value[a.name] => z.value[a.name] = x.value[a.name]
              /\ a.value = x.value[a.name] => z.value[a.name] = y.value[a.name]
<1>1. x \in Memory /\ Requested \notin Params
  BY ExperimentsAssumption DEF Sound
<1>2. a.name \in Params \cup {Requested}
  BY DEF Assignment
<1>3. CASE OldValue(x, a.name) = a.value
  <2>1. z = y
    BY <1>3 DEF UndoOne
  <2>2. a.name # Requested => a.value = x.value[a.name]
    BY <1>3 DEF OldValue
  <2>3. Keeps(y, y, {a.name})
    BY DEF Keeps
  <2>4. QED
    BY <2>1, <2>2, <2>3
<1>4. CASE OldValue(x, a.name) # a.value /\ a.name \in Params
  <2>1. OldValue(x, a.name) = x.value[a.name] /\ a.name # Requested
    BY <1>1, <1>4 DEF OldValue
  <2>2. z = SetAttr(y, a.name, x.value[a.name])
    BY <1>4, <2>1 DEF UndoOne
  <2>3. x.value[a.name] \in Values /\ Accepts(a.name, x.value[a.name])
    BY <1>1, <1>4, MemoryFields DEF Sound
  <2>4. /\ Sound(z) /\ Keeps(y, z, {a.name}) /\ z.saved = y.saved
        /\ \A q \in Params \ {a.name} : z.value[q] = y.value[q]
        /\ z.value[a.name] = x.value[a.name]
    <3> DEFINE v == x.value[a.name]
    <3>1. a.name \in Params /\ v \in Values /\ Accepts(a.name, v) /\ z = SetAttr(y, a.name, v)
      BY <1>4, <2>2, <2>3
    <3> HIDE DEF v
    <3>2. SetsOrRaises(y, z, a.name, v)
      BY <3>1, SetAttrSays
    <3>3. QED
      BY <3>1, <3>2 DEF SetsOrRaises, v
  <2>5. QED
    BY <1>4, <2>1, <2>4
<1>5. CASE OldValue(x, a.name) # a.value /\ a.name = Requested
  <2>1. OldValue(x, a.name) = x.requested /\ x.requested \in Seq(Names)
    BY <1>1, <1>5, MemoryFields DEF OldValue
  <2>2. z = SetAttr(y, Requested, x.requested)
    BY <1>5, <2>1 DEF UndoOne
  <2>3. Sound(z) /\ Keeps(y, z, {})
    BY <2>1, <2>2, SetAttrRequested, SetRequestedSays
  <2>4. Keeps(y, z, {a.name})
    BY <2>3 DEF Keeps
  <2>5. QED
    BY <1>5, <2>3, <2>4
<1>6. QED
  BY <1>2, <1>3, <1>4, <1>5

-----------------------------------------------------------------------------
(* The loops of SetParameterValues *)

\* The names in the first n assignments.
NamesUpTo(list, n) == {list[i].name : i \in 1..n}

\* y is x after the first n assignments of the list.
Assigns(x, y, list, n) ==
  /\ Sound(y) /\ Keeps(x, y, NamesUpTo(list, n))
  /\ ~y.raised =>
       \A i \in 1..n : (list[i].name \in Params \ Vendor
                         /\ \A j \in (i + 1)..n : list[j].name # list[i].name) =>
         ConfiguredIn(y, list[i].name) = list[i].value
  /\ (\A i \in 1..n : list[i].name # Requested) =>
       /\ DOMAIN y.saved = DOMAIN x.saved
       /\ \A p \in DOMAIN x.saved \ Vendor : y.value[p] = x.value[p]
       /\ \A p \in Params \ DOMAIN x.saved :
            (\A i \in 1..n : list[i].name = p => list[i].value = x.value[p]) =>
              y.value[p] = x.value[p]
       /\ \A i \in 1..n : list[i].name \notin DOMAIN x.saved => Owner(list[i].name) \in y.dirty

\* Before the loop.
LEMMA AssignsNone ==
  ASSUME NEW x, Sound(x), NEW list
  PROVE  Assigns(x, x, list, 0)
<1>1. 1..0 = {} /\ NamesUpTo(list, 0) = {}
  BY DEF NamesUpTo
<1>2. Keeps(x, x, {})
  BY DEF Keeps
<1>3. QED
  BY <1>1, <1>2 DEF Assigns

\* One more name.
LEMMA NamesGrow ==
  ASSUME NEW list, NEW n \in Nat \ {0}
  PROVE  /\ NamesUpTo(list, n) = NamesUpTo(list, n - 1) \cup {list[n].name}
         /\ 1..n = 1..(n - 1) \cup {n}
<1>1. 1..n = 1..(n - 1) \cup {n}
  OBVIOUS
<1>2. QED
  BY <1>1 DEF NamesUpTo

\* One more assignment.
LEMMA AssignsNext ==
  ASSUME NEW x, NEW y, NEW z, NEW list \in Seq(Assignment), NEW n \in 1..Len(list),
         Sound(x),
         Assigns(x, y, list, n - 1), AssignsOne(y, z, list[n])
  PROVE  Assigns(x, z, list, n)
<1> DEFINE a == list[n]
<1>1. n \in Nat \ {0} /\ a \in Assignment
  OBVIOUS
<1>2. /\ NamesUpTo(list, n) = NamesUpTo(list, n - 1) \cup {a.name}
      /\ 1..n = 1..(n - 1) \cup {n}
  BY <1>1, NamesGrow
<1>3. \A i \in 1..(n - 1) : list[i] \in Assignment /\ i < n /\ i \in 1..n
  OBVIOUS
<1>4. Requested \notin Params /\ DOMAIN x.saved \subseteq Params
  BY MemoryFields, SavedType, ExperimentsAssumption DEF Sound
<1> HIDE DEF a
<1>5. Sound(z) /\ Keeps(x, z, NamesUpTo(list, n))
  BY <1>2 DEF Assigns, AssignsOne, Keeps, a
<1>6. ASSUME ~z.raised, NEW i \in 1..n, list[i].name \in Params \ Vendor,
             \A j \in (i + 1)..n : list[j].name # list[i].name
      PROVE  ConfiguredIn(z, list[i].name) = list[i].value
  <2>1. CASE i = n
    BY <1>6, <2>1 DEF AssignsOne, a
  <2>2. CASE i # n
    <3>1. i \in 1..(n - 1) /\ n \in (i + 1)..n
      BY <2>2
    <3>2. list[i].name # a.name /\ \A j \in (i + 1)..(n - 1) : list[j].name # list[i].name
      BY <1>6, <3>1 DEF a
    <3>3. ~y.raised /\ ConfiguredIn(z, list[i].name) = ConfiguredIn(y, list[i].name)
      BY <1>6, <3>2 DEF AssignsOne, Keeps, a
    <3>4. QED
      BY <1>6, <3>1, <3>2, <3>3 DEF Assigns
  <2>3. QED
    BY <2>1, <2>2
<1>7. ASSUME \A i \in 1..n : list[i].name # Requested
      PROVE  /\ DOMAIN z.saved = DOMAIN x.saved
             /\ \A p \in DOMAIN x.saved \ Vendor : z.value[p] = x.value[p]
             /\ \A p \in Params \ DOMAIN x.saved :
                  (\A i \in 1..n : list[i].name = p => list[i].value = x.value[p]) =>
                    z.value[p] = x.value[p]
             /\ \A i \in 1..n : list[i].name \notin DOMAIN x.saved =>
                  Owner(list[i].name) \in z.dirty
  <2>1. a.name # Requested /\ \A i \in 1..(n - 1) : list[i].name # Requested
    BY <1>2, <1>7 DEF a
  <2>2. /\ DOMAIN y.saved = DOMAIN x.saved
        /\ \A p \in DOMAIN x.saved \ Vendor : y.value[p] = x.value[p]
        /\ \A p \in Params \ DOMAIN x.saved :
             (\A i \in 1..(n - 1) : list[i].name = p => list[i].value = x.value[p]) =>
               y.value[p] = x.value[p]
        /\ \A i \in 1..(n - 1) : list[i].name \notin DOMAIN x.saved =>
             Owner(list[i].name) \in y.dirty
    BY <2>1 DEF Assigns
  <2>3. /\ DOMAIN z.saved = DOMAIN y.saved
        /\ \A p \in Params \ {a.name} : z.value[p] = y.value[p]
        /\ a.name \in DOMAIN y.saved \ Vendor => z.value[a.name] = y.value[a.name]
        /\ a.name \notin DOMAIN y.saved => z.value[a.name] \in {y.value[a.name], a.value}
        /\ a.name \notin DOMAIN y.saved => Owner(a.name) \in z.dirty
        /\ y.dirty \subseteq z.dirty
    BY <2>1 DEF AssignsOne, Keeps, a
  <2>4. \A p \in DOMAIN x.saved \ Vendor : z.value[p] = x.value[p]
    BY <1>4, <2>2, <2>3
  <2>5. ASSUME NEW p \in Params \ DOMAIN x.saved,
               \A i \in 1..n : list[i].name = p => list[i].value = x.value[p]
        PROVE  z.value[p] = x.value[p]
    <3>1. y.value[p] = x.value[p]
      BY <1>2, <2>2, <2>5
    <3>2. a.name = p => a.value = x.value[p]
      BY <2>5 DEF a
    <3>3. QED
      BY <2>2, <2>3, <3>1, <3>2
  <2>6. \A i \in 1..n : list[i].name \notin DOMAIN x.saved => Owner(list[i].name) \in z.dirty
    BY <1>2, <2>2, <2>3 DEF a
  <2>7. QED
    BY <2>2, <2>3, <2>4, <2>5, <2>6
<1>8. QED
  BY <1>5, <1>6, <1>7 DEF Assigns

\* The loop of phase 3.
LEMMA SetAllSays ==
  ASSUME NEW x, Sound(x), NEW list \in Seq(Assignment)
  PROVE  Assigns(x, SetAll(x, list), list, Len(list))
<1> DEFINE N == Len(list)
           S(n) == {y \in Memory : Assigns(x, y, list, n)}
           A == [n \in 0..N |-> S(n)]
           step == [n \in 1..N |-> [y \in S(n - 1) |-> SetExportParam(y, list[n])]]
           set[n \in 0..N] == IF n = 0 THEN x ELSE SetExportParam(set[n - 1], list[n])
<1>1. N \in Nat /\ \A n \in 1..N : list[n] \in Assignment
  OBVIOUS
<1>2. x \in S(0)
  BY AssignsNone DEF Sound
<1>3. ASSUME NEW n \in 1..N, NEW y \in S(n - 1) PROVE SetExportParam(y, list[n]) \in S(n)
  <2>1. Sound(y) /\ Assigns(x, y, list, n - 1)
    BY DEF Assigns
  <2>2. AssignsOne(y, SetExportParam(y, list[n]), list[n])
    BY <1>1, <2>1, SetExportParamSays
  <2>3. Assigns(x, SetExportParam(y, list[n]), list, n)
    BY <2>1, <2>2, AssignsNext
  <2>4. QED
    BY <2>3 DEF Assigns, Sound
<1>4. \A n \in 1..N : \A y \in A[n - 1] :
        step[n][y] = SetExportParam(y, list[n]) /\ step[n][y] \in A[n]
  <2>1. ASSUME NEW n \in 1..N, NEW y \in S(n - 1)
        PROVE  step[n][y] = SetExportParam(y, list[n]) /\ step[n][y] \in S(n)
    BY <1>3
  <2> HIDE DEF S, step, N
  <2>2. \A n \in 1..N : A[n - 1] = S(n - 1) /\ A[n] = S(n)
    BY <1>1
  <2>3. ASSUME NEW n \in 1..N, NEW y \in A[n - 1]
        PROVE  step[n][y] = SetExportParam(y, list[n]) /\ step[n][y] \in A[n]
    <3>1. y \in S(n - 1) /\ A[n] = S(n)
      BY <2>2
    <3>2. QED
      BY <2>1, <3>1
  <2>4. QED
    BY <2>3
<1>5. x \in A[0]
  <2> HIDE DEF S, N
  <2>1. 0 \in 0..N
    BY <1>1
  <2>2. QED
    BY <1>2, <2>1
<1>6. SetAll(x, list) = set[N]
  BY DEF SetAll
<1> HIDE DEF S, A, step, N
<1>7. PICK f : Iterates(N, x, step, f) /\ \A n \in 0..N : f[n] \in A[n]
  BY <1>1, <1>4, <1>5, Recursion
<1>8. f = [n \in 0..N |-> IF n = 0 THEN x ELSE SetExportParam(f[n - 1], list[n])]
  <2>1. ASSUME NEW n \in 1..N PROVE step[n][f[n - 1]] = SetExportParam(f[n - 1], list[n])
    <3>1. n - 1 \in 0..N
      BY <1>1
    <3>2. f[n - 1] \in A[n - 1]
      BY <1>7, <3>1
    <3>3. QED
      BY <1>4, <3>2
  <2>2. f = [n \in 0..N |-> IF n = 0 THEN x ELSE step[n][f[n - 1]]]
    BY <1>7 DEF Iterates
  <2>3. ASSUME NEW n \in 0..N
        PROVE  (IF n = 0 THEN x ELSE step[n][f[n - 1]])
                 = IF n = 0 THEN x ELSE SetExportParam(f[n - 1], list[n])
    <3>1. CASE n = 0
      BY <3>1
    <3>2. CASE n # 0
      BY <1>1, <2>1, <3>2
    <3>3. QED
      BY <3>1, <3>2
  <2>4. QED
    BY <2>2, <2>3, Zenon
<1>9. set = [n \in 0..N |-> IF n = 0 THEN x ELSE SetExportParam(set[n - 1], list[n])]
  BY <1>8
<1> HIDE DEF set
<1>10. set[0] = x /\ \A n \in 1..N : set[n] = SetExportParam(set[n - 1], list[n])
  BY <1>1, <1>9
<1>11. \A n \in 1..N : set[n - 1] \in A[n - 1] => set[n] \in A[n]
  BY <1>4, <1>10
<1>12. \A n \in 0..N : set[n] \in A[n]
  BY <1>1, <1>5, <1>10, <1>11, Along
<1>13. set[N] \in S(N)
  BY <1>1, <1>12 DEF A
<1>14. QED
  BY <1>6, <1>13 DEF S, N

\* y is done after the roll back of the first n assignments of the list.
Undoes(x, done, y, list, n) ==
  /\ Sound(y) /\ Keeps(done, y, NamesUpTo(list, n))
  /\ (\A i \in 1..n : list[i].name # Requested) =>
       /\ y.saved = done.saved
       /\ \A p \in Params :
            /\ (\E i \in 1..n : list[i].name = p /\ list[i].value # x.value[p]) =>
                 y.value[p] = x.value[p]
            /\ (\A i \in 1..n : list[i].name = p => list[i].value = x.value[p]) =>
                 y.value[p] = done.value[p]

\* Before the roll back.
LEMMA UndoesNone ==
  ASSUME NEW x, NEW done, Sound(done), NEW list
  PROVE  Undoes(x, done, done, list, 0)
<1>1. 1..0 = {} /\ NamesUpTo(list, 0) = {}
  BY DEF NamesUpTo
<1>2. Keeps(done, done, {})
  BY DEF Keeps
<1>3. QED
  BY <1>1, <1>2 DEF Undoes

\* One more value put back.
LEMMA UndoesNext ==
  ASSUME NEW x, NEW done, NEW y, NEW list \in Seq(Assignment), NEW n \in 1..Len(list),
         Sound(x), Undoes(x, done, y, list, n - 1)
  PROVE  Undoes(x, done, UndoOne(x, y, list[n]), list, n)
<1> DEFINE a == list[n]
           z == UndoOne(x, y, list[n])
<1>1. n \in Nat \ {0} /\ a \in Assignment /\ Sound(y)
  BY DEF Undoes
<1>2. /\ NamesUpTo(list, n) = NamesUpTo(list, n - 1) \cup {a.name}
      /\ 1..n = 1..(n - 1) \cup {n}
  BY <1>1, NamesGrow
<1>3. /\ Sound(z) /\ Keeps(y, z, {a.name})
      /\ a.name # Requested =>
           /\ z.saved = y.saved
           /\ \A p \in Params \ {a.name} : z.value[p] = y.value[p]
           /\ a.value # x.value[a.name] => z.value[a.name] = x.value[a.name]
           /\ a.value = x.value[a.name] => z.value[a.name] = y.value[a.name]
  <2>1. z = UndoOne(x, y, a)
    OBVIOUS
  <2> HIDE DEF z, a
  <2>2. QED
    BY <1>1, <2>1, UndoOneSays
<1> HIDE DEF z
<1>4. Sound(z) /\ Keeps(done, z, NamesUpTo(list, n))
  BY <1>2, <1>3 DEF Undoes, Keeps
<1>5. ASSUME \A i \in 1..n : list[i].name # Requested
      PROVE  /\ z.saved = done.saved
             /\ \A p \in Params :
                  /\ (\E i \in 1..n : list[i].name = p /\ list[i].value # x.value[p]) =>
                       z.value[p] = x.value[p]
                  /\ (\A i \in 1..n : list[i].name = p => list[i].value = x.value[p]) =>
                       z.value[p] = done.value[p]
  <2>1. a.name # Requested /\ \A i \in 1..(n - 1) : list[i].name # Requested
    BY <1>2, <1>5
  <2>2. /\ y.saved = done.saved
        /\ \A p \in Params :
             /\ (\E i \in 1..(n - 1) : list[i].name = p /\ list[i].value # x.value[p]) =>
                  y.value[p] = x.value[p]
             /\ (\A i \in 1..(n - 1) : list[i].name = p => list[i].value = x.value[p]) =>
                  y.value[p] = done.value[p]
    BY <2>1 DEF Undoes
  <2>3. ASSUME NEW p \in Params, NEW i \in 1..n, list[i].name = p, list[i].value # x.value[p]
        PROVE  z.value[p] = x.value[p]
    <3>1. CASE i = n
      BY <1>3, <2>1, <2>3, <3>1
    <3>2. CASE i # n
      <4>1. i \in 1..(n - 1)
        BY <1>2, <3>2
      <4>2. y.value[p] = x.value[p]
        BY <2>2, <2>3, <4>1
      <4>3. QED
        BY <1>3, <2>1, <4>2
    <3>3. QED
      BY <3>1, <3>2
  <2>4. ASSUME NEW p \in Params, \A i \in 1..n : list[i].name = p => list[i].value = x.value[p]
        PROVE  z.value[p] = done.value[p]
    <3>1. y.value[p] = done.value[p]
      BY <1>2, <2>2, <2>4
    <3>2. a.name = p => a.value = x.value[p]
      BY <1>2, <2>4
    <3>3. QED
      BY <1>3, <2>1, <3>1, <3>2
  <2>5. QED
    BY <1>3, <2>1, <2>2, <2>3, <2>4
<1>6. QED
  BY <1>4, <1>5 DEF Undoes, z

\* The loop of the roll back.
LEMMA UndoSays ==
  ASSUME NEW x, Sound(x), NEW done, Sound(done),
         NEW list \in Seq(Assignment)
  PROVE  Undoes(x, done, Undo(x, done, list), list, Len(list))
<1> DEFINE N == Len(list)
           S(n) == {y \in Memory : Undoes(x, done, y, list, n)}
           A == [n \in 0..N |-> S(n)]
           step == [n \in 1..N |-> [y \in S(n - 1) |-> UndoOne(x, y, list[n])]]
           undone[n \in 0..N] == IF n = 0 THEN done ELSE UndoOne(x, undone[n - 1], list[n])
<1>1. N \in Nat
  OBVIOUS
<1>2. done \in S(0)
  BY UndoesNone DEF Sound
<1>3. ASSUME NEW n \in 1..N, NEW y \in S(n - 1) PROVE UndoOne(x, y, list[n]) \in S(n)
  <2>1. Undoes(x, done, UndoOne(x, y, list[n]), list, n)
    BY UndoesNext
  <2>2. QED
    BY <2>1 DEF Undoes, Sound
<1>4. \A n \in 1..N : \A y \in A[n - 1] :
        step[n][y] = UndoOne(x, y, list[n]) /\ step[n][y] \in A[n]
  <2>1. ASSUME NEW n \in 1..N, NEW y \in S(n - 1)
        PROVE  step[n][y] = UndoOne(x, y, list[n]) /\ step[n][y] \in S(n)
    BY <1>3
  <2> HIDE DEF S, step, N
  <2>2. \A n \in 1..N : A[n - 1] = S(n - 1) /\ A[n] = S(n)
    BY <1>1
  <2>3. ASSUME NEW n \in 1..N, NEW y \in A[n - 1]
        PROVE  step[n][y] = UndoOne(x, y, list[n]) /\ step[n][y] \in A[n]
    <3>1. y \in S(n - 1) /\ A[n] = S(n)
      BY <2>2
    <3>2. QED
      BY <2>1, <3>1
  <2>4. QED
    BY <2>3
<1>5. done \in A[0]
  <2> HIDE DEF S, N
  <2>1. 0 \in 0..N
    BY <1>1
  <2>2. QED
    BY <1>2, <2>1
<1>6. Undo(x, done, list) = undone[N]
  BY DEF Undo
<1> HIDE DEF S, A, step, N
<1>7. PICK f : Iterates(N, done, step, f) /\ \A n \in 0..N : f[n] \in A[n]
  BY <1>1, <1>4, <1>5, Recursion
<1>8. f = [n \in 0..N |-> IF n = 0 THEN done ELSE UndoOne(x, f[n - 1], list[n])]
  <2>1. ASSUME NEW n \in 1..N PROVE step[n][f[n - 1]] = UndoOne(x, f[n - 1], list[n])
    <3>1. n - 1 \in 0..N
      BY <1>1
    <3>2. f[n - 1] \in A[n - 1]
      BY <1>7, <3>1
    <3>3. QED
      BY <1>4, <3>2
  <2>2. f = [n \in 0..N |-> IF n = 0 THEN done ELSE step[n][f[n - 1]]]
    BY <1>7 DEF Iterates
  <2>3. ASSUME NEW n \in 0..N
        PROVE  (IF n = 0 THEN done ELSE step[n][f[n - 1]])
                 = IF n = 0 THEN done ELSE UndoOne(x, f[n - 1], list[n])
    <3>1. CASE n = 0
      BY <3>1
    <3>2. CASE n # 0
      BY <1>1, <2>1, <3>2
    <3>3. QED
      BY <3>1, <3>2
  <2>4. QED
    BY <2>2, <2>3, Zenon
<1>9. undone = [n \in 0..N |-> IF n = 0 THEN done ELSE UndoOne(x, undone[n - 1], list[n])]
  BY <1>8
<1> HIDE DEF undone
<1>10. undone[0] = done /\ \A n \in 1..N : undone[n] = UndoOne(x, undone[n - 1], list[n])
  <2>1. undone[0] = done
    BY <1>1, <1>9
  <2>2. ASSUME NEW n \in 1..N PROVE undone[n] = UndoOne(x, undone[n - 1], list[n])
    <3>1. n \in 0..N /\ n # 0
      BY <1>1
    <3>2. QED
      BY <1>9, <3>1
  <2>3. QED
    BY <2>1, <2>2
<1>11. \A n \in 1..N : undone[n - 1] \in A[n - 1] => undone[n] \in A[n]
  BY <1>4, <1>10
<1>12. \A n \in 0..N : undone[n] \in A[n]
  BY <1>1, <1>5, <1>10, <1>11, Along
<1>13. undone[N] \in S(N)
  BY <1>1, <1>12 DEF A
<1>14. QED
  BY <1>6, <1>13 DEF S, N

-----------------------------------------------------------------------------
(* Steps *)

\* What a step of the data model does to its memory, and says of it.
Answers(list, answer) ==
  /\ Sound(m') /\ ~m'.raised
  /\ \A p \in Params \ NamesUpTo(list, Len(list)) : ConfiguredIn(m', p) = ConfiguredIn(m, p)
  /\ answer \in {"ok", "fault"}
  /\ answer = "ok" =>
       \A i \in 1..Len(list) :
         list[i].name \in Params \ Vendor
           /\ (\A j \in (i + 1)..Len(list) : list[j].name # list[i].name) =>
         /\ ConfiguredIn(m', list[i].name) = list[i].value
         /\ list[i].name \in DOMAIN m.saved
              /\ (\A j \in 1..Len(list) : list[j].name # Requested) =>
              m'.value[list[i].name] = m.value[list[i].name]
  /\ answer = "fault"
       /\ (\A i \in 1..Len(list) : list[i].name \notin DOMAIN m.saved \cup {Requested}) =>
       \A p \in Params : ConfiguredIn(m', p) = ConfiguredIn(m, p)

\* _ConcludeTransaction changes only marks, and raises only if one is missing.
LEMMA ConcludeSays ==
  ASSUME NEW x, Sound(x), NEW names, NEW y \in Conclude(x, names)
  PROVE  /\ Sound(y) /\ Sound([y EXCEPT !.raised = FALSE])
         /\ y.value = x.value /\ y.saved = x.saved
         /\ x.raised => y.raised
         /\ AllDirty(x, names) => y.raised = x.raised
         /\ [y EXCEPT !.raised = FALSE].value = x.value
         /\ [y EXCEPT !.raised = FALSE].saved = x.saved
         /\ [y EXCEPT !.raised = FALSE].raised = FALSE
<1>1. x \in Memory
  BY DEF Sound
<1>2. PICK d \in SUBSET x.dirty : \E e \in BOOLEAN :
        /\ y = [x EXCEPT !.dirty = d, !.raised = e]
        /\ AllDirty(x, names) => e = x.raised
        /\ ~AllDirty(x, names) => e = TRUE
  <2> DEFINE objects == {Owner(name) : name \in names}
  <2>1. CASE AllDirty(x, names)
    <3>1. y = [x EXCEPT !.dirty = @ \ objects]
      BY <2>1 DEF Conclude
    <3>2. y = [x EXCEPT !.dirty = x.dirty \ objects, !.raised = x.raised]
      BY <1>1, <3>1 DEF Memory
    <3>3. x.dirty \ objects \subseteq x.dirty /\ x.raised \in BOOLEAN
      BY <1>1, MemoryFields
    <3>4. QED
      BY <2>1, <3>2, <3>3
  <2>2. CASE ~AllDirty(x, names)
    <3>1. PICK concluded \in SUBSET (objects \cap x.dirty) :
            y = [x EXCEPT !.dirty = @ \ concluded, !.raised = TRUE]
      BY <2>2 DEF Conclude
    <3>2. x.dirty \ concluded \subseteq x.dirty
      OBVIOUS
    <3>3. QED
      BY <2>2, <3>1, <3>2
  <2>3. QED
    BY <2>1, <2>2
<1>3. PICK e \in BOOLEAN :
        /\ y = [x EXCEPT !.dirty = d, !.raised = e]
        /\ AllDirty(x, names) => e = x.raised
        /\ ~AllDirty(x, names) => e = TRUE
  BY <1>2
<1> DEFINE z == [y EXCEPT !.raised = FALSE]
<1>4. /\ y \in Memory /\ y.value = x.value /\ y.saved = x.saved /\ y.active = x.active
      /\ y.raised = e
  BY <1>1, <1>3 DEF Memory
<1>5. /\ z \in Memory /\ z.value = x.value /\ z.saved = x.saved /\ z.active = x.active
      /\ z.raised = FALSE
  BY <1>4 DEF Memory
<1> HIDE DEF z
<1>6. Sound(y) /\ Sound(z)
  BY <1>4, <1>5 DEF Sound
<1>7. QED
  BY <1>3, <1>4, <1>5, <1>6 DEF z

\* Without captures and experiments each assignment marked its object.
LEMMA AllAreDirty ==
  ASSUME NEW done, NEW list,
         Assigns(m, done, list, Len(list)), DOMAIN list = 1..Len(list),
         \A i \in 1..Len(list) : list[i].name \notin DOMAIN m.saved \cup {Requested}
  PROVE  AllDirty(done, NamesIn(list))
BY DEF Assigns, AllDirty, NamesIn

\* SetParameterValues leaves the data model as its answer says.
LEMMA RpcSays ==
  ASSUME Sound(m), ~m.raised, NEW rpc \in Rpcs, SetParameterValues(rpc)
  PROVE  Answers(rpc.list, reply')
<1> DEFINE list == rpc.list
           N == Len(list)
           done == SetAll(m, list)
           undo == Undo(m, done, list)
           undone == [undo EXCEPT !.raised = TRUE]
           after == IF done.raised THEN undone ELSE done
<1>1. /\ list \in Seq(Assignment) /\ N \in Nat /\ DOMAIN list = 1..N
      /\ NamesIn(list) = NamesUpTo(list, N)
  BY ExperimentsAssumption DEF Assignment, NamesIn, NamesUpTo
<1>2. PICK y \in Conclude(after, NamesIn(list)) :
        /\ m' = [y EXCEPT !.raised = FALSE]
        /\ reply' = IF y.raised THEN "fault" ELSE "ok"
  BY DEF SetParameterValues
<1> HIDE DEF list
<1>3. Assigns(m, done, list, N)
  BY <1>1, SetAllSays
<1>4. Sound(done)
  BY <1>3 DEF Assigns
<1>5. Undoes(m, done, undo, list, N)
  BY <1>1, <1>4, UndoSays
<1> HIDE DEF N, done, undo
<1>6. /\ Sound(undone) /\ undone.value = undo.value /\ undone.saved = undo.saved
      /\ undone.raised
  <2>1. Sound(undo)
    BY <1>5 DEF Undoes
  <2>2. /\ undone \in Memory /\ undone.value = undo.value /\ undone.saved = undo.saved
        /\ undone.active = undo.active /\ undone.raised
    BY <2>1 DEF Sound, Memory
  <2> HIDE DEF undone
  <2>3. QED
    BY <2>1, <2>2 DEF Sound
<1> HIDE DEF undone
<1>7. Sound(after)
  BY <1>4, <1>6
<1>8. /\ Sound(y) /\ Sound(m') /\ ~m'.raised
      /\ m'.value = after.value /\ m'.saved = after.saved
      /\ after.raised => y.raised
      /\ AllDirty(after, NamesIn(list)) => y.raised = after.raised
  <2> HIDE DEF after
  <2>1. QED
    BY <1>2, <1>7, ConcludeSays
<1>9. \A p \in Params : ConfiguredIn(m', p) = ConfiguredIn(after, p)
  BY <1>8 DEF ConfiguredIn
<1>10. \A p \in Params \ NamesUpTo(list, N) : ConfiguredIn(after, p) = ConfiguredIn(m, p)
  <2>1. \A p \in Params \ NamesUpTo(list, N) : ConfiguredIn(done, p) = ConfiguredIn(m, p)
    BY <1>3 DEF Assigns, Keeps
  <2>2. \A p \in Params \ NamesUpTo(list, N) : ConfiguredIn(undone, p) = ConfiguredIn(done, p)
    BY <1>5, <1>6 DEF Undoes, Keeps, ConfiguredIn
  <2>3. QED
    BY <2>1, <2>2
<1>11. ASSUME reply' = "ok", NEW i \in 1..N, list[i].name \in Params \ Vendor,
              \A j \in (i + 1)..N : list[j].name # list[i].name
       PROVE  /\ ConfiguredIn(m', list[i].name) = list[i].value
              /\ list[i].name \in DOMAIN m.saved
                   /\ (\A j \in 1..N : list[j].name # Requested) =>
                   m'.value[list[i].name] = m.value[list[i].name]
  <2>1. ~y.raised
    BY <1>2, <1>11
  <2>2. ~done.raised /\ after = done
    BY <1>6, <1>8, <2>1
  <2>3. ConfiguredIn(done, list[i].name) = list[i].value
    BY <1>3, <1>11, <2>2 DEF Assigns
  <2>4. list[i].name \in DOMAIN m.saved /\ (\A j \in 1..N : list[j].name # Requested) =>
          done.value[list[i].name] = m.value[list[i].name]
    BY <1>3, <1>11 DEF Assigns
  <2>5. QED
    BY <1>8, <1>9, <1>11, <2>2, <2>3, <2>4
<1>12. ASSUME reply' = "fault", NEW p \in Params,
              \A i \in 1..N : list[i].name \notin DOMAIN m.saved \cup {Requested}
       PROVE  ConfiguredIn(m', p) = ConfiguredIn(m, p)
  <2>1. y.raised
    BY <1>2, <1>12
  <2>2. AllDirty(done, NamesIn(list))
    BY <1>1, <1>3, <1>12, AllAreDirty DEF N
  <2>3. after = undone
    BY <1>8, <2>1, <2>2
  <2>4. CASE p \notin NamesUpTo(list, N)
    BY <1>9, <1>10, <2>4
  <2>5. CASE p \in NamesUpTo(list, N)
    <3>1. p \notin DOMAIN m.saved /\ \A i \in 1..N : list[i].name # Requested
      BY <1>12, <2>5 DEF NamesUpTo
    <3>2. DOMAIN undone.saved = DOMAIN m.saved
      BY <1>3, <1>5, <1>6, <3>1 DEF Assigns, Undoes
    <3>3. undone.value[p] = m.value[p]
      <4>1. CASE \E i \in 1..N : list[i].name = p /\ list[i].value # m.value[p]
        BY <1>5, <1>6, <3>1, <4>1 DEF Undoes
      <4>2. CASE \A i \in 1..N : list[i].name = p => list[i].value = m.value[p]
        <5>1. undone.value[p] = done.value[p]
          BY <1>5, <1>6, <3>1, <4>2 DEF Undoes
        <5>2. done.value[p] = m.value[p]
          BY <1>3, <3>1, <4>2 DEF Assigns
        <5>3. QED
          BY <5>1, <5>2
      <4>3. QED
        BY <4>1, <4>2
    <3>4. QED
      BY <1>9, <2>3, <3>1, <3>2, <3>3 DEF ConfiguredIn
  <2>6. QED
    BY <2>4, <2>5
<1>13. reply' \in {"ok", "fault"}
  BY <1>2
<1>14. Answers(list, reply')
  BY <1>8, <1>9, <1>10, <1>11, <1>12, <1>13 DEF Answers, N
<1>15. QED
  BY <1>14 DEF list

\* The last assignment to a name is the one that "written" has.
LEMMA AssignedSays ==
  ASSUME NEW list \in Seq(Assignment)
  PROVE  /\ DOMAIN Assigned(list) = NamesUpTo(list, Len(list))
         /\ \A p \in DOMAIN Assigned(list) :
              \E i \in 1..Len(list) :
                /\ list[i].name = p /\ Assigned(list)[p] = list[i].value
                /\ \A j \in (i + 1)..Len(list) : list[j].name # p
<1>1. DOMAIN list = 1..Len(list) /\ Len(list) \in Nat
  OBVIOUS
<1>2. DOMAIN Assigned(list) = NamesUpTo(list, Len(list))
  BY <1>1 DEF Assigned, NamesIn, NamesUpTo
<1>3. ASSUME NEW p \in DOMAIN Assigned(list)
      PROVE  \E i \in 1..Len(list) :
               /\ list[i].name = p /\ Assigned(list)[p] = list[i].value
               /\ \A j \in (i + 1)..Len(list) : list[j].name # p
  <2> DEFINE T == {i \in 1..Len(list) : list[i].name = p}
             Last(i) == list[i].name = p /\ \A j \in DOMAIN list : list[j].name = p => j <= i
             last == CHOOSE i \in DOMAIN list : Last(i)
  <2>1. T \in SUBSET (0..Len(list)) /\ T # {}
    BY <1>1, <1>2 DEF NamesUpTo
  <2>2. PICK k \in T : \A y \in T : y <= k
    BY <1>1, <2>1, Greatest
  <2>3. k \in DOMAIN list /\ Last(k)
    BY <1>1, <2>2
  <2>4. Assigned(list)[p] = list[last].value
    BY DEF Assigned
  <2> HIDE DEF Last
  <2>5. last \in DOMAIN list /\ Last(last)
    BY <2>3
  <2> HIDE DEF last
  <2>6. \A j \in (last + 1)..Len(list) : j \in DOMAIN list /\ ~(j <= last)
    BY <1>1, <2>5
  <2>7. QED
    BY <1>1, <2>4, <2>5, <2>6 DEF Last
<1>4. QED
  BY <1>2, <1>3

\* An object that writes to its parameter writes no other.
LEMMA WriteSays ==
  ASSUME Sound(m), ~m.raised, NEW p \in Params, NEW v \in Values, Write(p, v)
  PROVE  /\ Sound(m') /\ ~m'.raised
         /\ \A q \in Params \ {p} : ConfiguredIn(m', q) = ConfiguredIn(m, q)
<1> DEFINE w == [m.value EXCEPT ![p] = v]
<1>1. m \in Memory /\ m' = [m EXCEPT !.value = w] /\ Accepts(p, v)
  BY DEF Sound, Write
<1>2. w \in [Params -> Values] /\ w[p] = v /\ \A q \in Params \ {p} : w[q] = m.value[q]
  BY <1>1, MemoryFields
<1> HIDE DEF w
<1>3. /\ m' \in Memory /\ m'.value = w /\ m'.saved = m.saved /\ m'.active = m.active
      /\ m'.raised = m.raised
  BY <1>1, <1>2 DEF Memory
<1>4. QED
  BY <1>1, <1>2, <1>3 DEF Sound, ConfiguredIn

\* The inductive invariant.
IInv == TypeOK /\ Sound(m)

\* The invariant holds at first.
LEMMA InvInit == Init => IInv
<1> SUFFICES ASSUME Init PROVE IInv
  OBVIOUS
<1>1. Nothing \in Saveds /\ DOMAIN Nothing = {}
  <2>1. Nothing \in [{} -> Values]
    BY DEF Nothing
  <2>2. QED
    BY <2>1, SavedFunction DEF Nothing
<1>2. <<>> \in Seq(Names) /\ {} \subseteq Objects \cup {ExperimentsObject} /\ FALSE \in BOOLEAN
  OBVIOUS
<1>3. m \in [ value : [Params -> Values], saved : {Nothing}, requested : {<<>>},
              active : {<<>>}, dirty : {{}}, raised : {FALSE} ]
      /\ \A p \in Params : Accepts(p, m.value[p])
  BY DEF Init
<1>4. m \in Memory /\ m.active = <<>> /\ ~m.raised
  BY <1>1, <1>2, <1>3 DEF Memory, Saveds
<1>5. Sound(m)
  BY <1>3, <1>4 DEF Sound
<1>6. TypeOK
  BY <1>1, <1>4 DEF TypeOK, Init
<1>7. QED
  BY <1>5, <1>6 DEF IInv

\* The names of a request.
LEMMA RpcType ==
  ASSUME NEW rpc \in Rpcs
  PROVE  /\ rpc.list \in Seq(Assignment)
         /\ NamesUpTo(rpc.list, Len(rpc.list)) \subseteq Params \cup {Requested}
<1>1. rpc.list \in Seq(Assignment)
  BY ExperimentsAssumption DEF Assignment
<1>2. \A i \in 1..Len(rpc.list) : rpc.list[i] \in Assignment
  BY <1>1
<1>3. QED
  BY <1>1, <1>2 DEF NamesUpTo, Assignment

\* Each step keeps the invariant.
LEMMA InvNext == IInv /\ [Next]_vars => IInv'
<1> SUFFICES ASSUME IInv, [Next]_vars PROVE IInv'
  OBVIOUS
<1>0. Sound(m) /\ ~m.raised /\ TypeOK
  BY DEF IInv, TypeOK
<1>1. ASSUME NEW rpc \in Rpcs, SetParameterValues(rpc) PROVE IInv'
  <2>1. Sound(m') /\ ~m'.raised /\ reply' \in {"ok", "fault"}
    BY <1>0, <1>1, RpcSays DEF Answers
  <2>2. written' = Assigned(rpc.list) /\ key' \in {key, rpc.key}
    BY <1>1 DEF SetParameterValues
  <2>3. DOMAIN written' \subseteq Params \cup {Requested}
    BY <2>2, RpcType, AssignedSays
  <2>4. key' \in {""} \cup {r.key : r \in Rpcs}
    BY <1>0, <2>2 DEF TypeOK
  <2>5. m' \in Memory
    BY <2>1 DEF Sound
  <2>6. QED
    BY <2>1, <2>3, <2>4, <2>5 DEF IInv, TypeOK
<1>2. ASSUME NEW p \in Params, NEW v \in Values, Write(p, v) PROVE IInv'
  <2>1. Sound(m') /\ ~m'.raised
    BY <1>0, <1>2, WriteSays
  <2>2. m' \in Memory
    BY <2>1 DEF Sound
  <2>3. QED
    BY <1>0, <1>2, <2>1, <2>2 DEF IInv, TypeOK, Write
<1>3. CASE UNCHANGED vars
  BY <1>0, <1>3 DEF IInv, TypeOK, vars
<1>4. QED
  BY <1>1, <1>2, <1>3 DEF Next

\* The inductive invariant.
LEMMA Invariant == Spec => []IInv
BY InvInit, InvNext, PTL DEF Spec

\* The data model keeps the types of its attributes, and no exception outlives an RPC.
THEOREM TypeCorrect == Spec => []TypeOK
<1>1. IInv => TypeOK
  BY DEF IInv
<1>2. QED
  BY <1>1, Invariant, PTL

\* What an active experiment forces has its own value saved, whatever experiments
\* overlap, fail or are requested in the middle of an RPC that is rolled back.
THEOREM SavedWhileForced == Spec => []ForcedIsSaved
<1>1. IInv => ForcedIsSaved
  <2> SUFFICES ASSUME IInv, NEW i \in DOMAIN m.active
               PROVE  DOMAIN Forces[m.active[i]] \subseteq DOMAIN m.saved
    BY DEF ForcedIsSaved
  <2>1. QED
    BY DEF IInv, Sound
<1>2. QED
  BY <1>1, Invariant, PTL

\* No step configures what it does not assign.
LEMMA StepKeepsUntouched ==
  ASSUME IInv, [Next]_vars
  PROVE  [\A p \in Params : p \in DOMAIN written' \/ Configured(p)' = Configured(p)]_vars
<1>0. Sound(m) /\ ~m.raised
  BY DEF IInv, TypeOK
<1>1. ASSUME NEW rpc \in Rpcs, SetParameterValues(rpc), NEW p \in Params \ DOMAIN written'
      PROVE  ConfiguredIn(m', p) = ConfiguredIn(m, p)
  <2>1. Answers(rpc.list, reply')
    BY <1>0, <1>1, RpcSays
  <2>2. written' = Assigned(rpc.list)
    BY <1>1 DEF SetParameterValues
  <2>3. p \notin NamesUpTo(rpc.list, Len(rpc.list))
    BY <1>1, <2>2, AssignedSays, RpcType
  <2>4. QED
    BY <2>1, <2>3 DEF Answers
<1>2. ASSUME NEW q \in Params, NEW v \in Values, Write(q, v), NEW p \in Params \ DOMAIN written'
      PROVE  ConfiguredIn(m', p) = ConfiguredIn(m, p)
  <2>1. p # q
    BY <1>2 DEF Write
  <2>2. QED
    BY <1>0, <1>2, <2>1, WriteSays
<1>3. QED
  BY <1>1, <1>2 DEF Next, Configured, ConfiguredIn

\* Experiments leave no trace on the parameters that nobody assigns.
THEOREM NoTrace == Spec => UntouchedKept
<1>1. IInv /\ [Next]_vars =>
        [\A p \in Params : p \in DOMAIN written' \/ Configured(p)' = Configured(p)]_vars
  BY StepKeepsUntouched
<1>2. QED
  BY <1>1, Invariant, PTL DEF Spec, UntouchedKept

\* Each answer tells what the step did.
LEMMA StepAnswers ==
  ASSUME IInv, [Next]_vars
  PROVE  [SuccessConfigures /\ FaultKeeps]_vars
<1>0. Sound(m) /\ ~m.raised
  BY DEF IInv, TypeOK
<1>1. ASSUME NEW rpc \in Rpcs, SetParameterValues(rpc) PROVE SuccessConfigures /\ FaultKeeps
  <2> DEFINE list == rpc.list
             N == Len(list)
  <2>1. Answers(list, reply') /\ written' = Assigned(list)
    BY <1>0, <1>1, RpcSays DEF SetParameterValues
  <2>2. list \in Seq(Assignment) /\ N \in Nat
    BY RpcType
  <2> HIDE DEF list
  <2>3. /\ DOMAIN written' = NamesUpTo(list, N)
        /\ \A p \in DOMAIN written' :
             \E i \in 1..N :
               /\ list[i].name = p /\ written'[p] = list[i].value
               /\ \A j \in (i + 1)..N : list[j].name # p
    BY <2>1, <2>2, AssignedSays
  <2>4. \A name : name \notin DOMAIN written' => \A j \in 1..N : list[j].name # name
    BY <2>3 DEF NamesUpTo
  <2>5. ASSUME reply' = "ok", NEW p \in (DOMAIN written' \cap Params) \ Vendor
        PROVE  /\ Configured(p)' = written'[p]
               /\ p \in DOMAIN m.saved /\ Requested \notin DOMAIN written' =>
                    UNCHANGED m.value[p]
    <3>1. PICK i \in 1..N : /\ list[i].name = p /\ written'[p] = list[i].value
                            /\ \A j \in (i + 1)..N : list[j].name # p
      BY <2>3
    <3>2. /\ ConfiguredIn(m', p) = list[i].value
          /\ p \in DOMAIN m.saved /\ (\A j \in 1..N : list[j].name # Requested) =>
               m'.value[p] = m.value[p]
      BY <2>1, <2>5, <3>1 DEF Answers
    <3>3. QED
      BY <2>4, <3>1, <3>2 DEF Configured, ConfiguredIn
  <2>6. ASSUME reply' = "fault", DOMAIN written' \cap (DOMAIN m.saved \cup {Requested}) = {},
               NEW p \in Params
        PROVE  Configured(p)' = Configured(p)
    <3>1. \A i \in 1..N : list[i].name \notin DOMAIN m.saved \cup {Requested}
      BY <2>3, <2>6 DEF NamesUpTo
    <3>2. ConfiguredIn(m', p) = ConfiguredIn(m, p)
      BY <2>1, <2>6, <3>1 DEF Answers
    <3>3. QED
      BY <3>2 DEF Configured, ConfiguredIn
  <2>7. QED
    BY <2>5, <2>6 DEF SuccessConfigures, FaultKeeps
<1>2. ASSUME NEW p \in Params, NEW v \in Values, Write(p, v)
      PROVE  SuccessConfigures /\ FaultKeeps
  BY <1>2 DEF Write, SuccessConfigures, FaultKeeps
<1>3. QED
  BY <1>1, <1>2 DEF Next

\* The answer of SetParameterValues tells what it did: a success configured every
\* parameter it assigned, a fault changed none.
THEOREM AnswerTells == Spec => AnswerTellsEffect
<1>1. IInv /\ [Next]_vars => [SuccessConfigures /\ FaultKeeps]_vars
  BY StepAnswers
<1>2. QED
  BY <1>1, Invariant, PTL DEF Spec, AnswerTellsEffect
=============================================================================
