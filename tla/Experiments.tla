---------------------------- MODULE Experiments ----------------------------
(***************************************************************************)
(* SetParameterValues on a data model with experiments: the transaction of *)
(* tr/api.py, class CPE, the dirty marks of tr/handle.py, and the          *)
(* parameters that tr/experiment.py forces to a value for a while, putting *)
(* back the saved one when the experiment ends.                            *)
(*                                                                         *)
(* One RPC is one callback of the ioloop, so SetParameterValues is one     *)
(* action.  What it does on the way is an operator from a memory to a      *)
(* memory; "raised" says that one of the steps raised an exception.        *)
(*                                                                         *)
(* Objects are taken to have no transactions of their own (Start-, Commit- *)
(* and AbandonTransaction of core.AbstractExporter): those are in          *)
(* ParameterTransactions.  System experiments, which are files that other  *)
(* programs watch, are in SystemExperiments.                               *)
(*                                                                         *)
(* A definition marked "Mutation" is a plausible bug, used by no other     *)
(* definition.                                                             *)
(***************************************************************************)
EXTENDS Sequences, Integers

CONSTANTS
  Params,     \* parameters of the data model, but for Experiments.Requested
  Values,     \* their values
  Vendor,     \* those with a dash in their names (X_CATAWAMPUS-ORG_...)
  Rejected,   \* <<p, v>>: no validator of p forbids v, but its setter raises
  KeyOrder,   \* the order in which a dictionary lists its keys
  Objects,
  ObjectOf,   \* the object of each parameter
  Names,      \* names of experiments
  Forces,     \* what an experiment forces: a function from parameters to values
  Broken,     \* experiments that name, after those, a parameter that does not exist
  Rpcs        \* SetParameterValues requests: a list of assignments and a key

Requested == "Requested"          \* the parameter Experiments.Requested
ExperimentsObject == "Experiments"

ASSUME ExperimentsAssumption ==
  /\ Vendor \subseteq Params
  /\ Requested \notin Params
  /\ KeyOrder \in Seq(Params) /\ {KeyOrder[i] : i \in DOMAIN KeyOrder} = Params
  /\ ObjectOf \in [Params -> Objects]
  /\ ExperimentsObject \notin Objects
  /\ Broken \subseteq Names
  /\ \A name \in Names : DOMAIN Forces[name] \subseteq Params
  /\ \A name \in Names, p \in Params :
       p \in DOMAIN Forces[name] =>
         Forces[name][p] \in Values /\ <<p, Forces[name][p]>> \notin Rejected
  /\ \A rpc \in Rpcs :
       rpc.list \in Seq([name : Params, value : Values]
                         \cup [name : {Requested}, value : Seq(Names)])

VARIABLES
  m,        \* the data model, see below
  key,      \* CPE._last_parameter_key
  reply,    \* observation only: how the last RPC was answered
  written   \* observation only: what the last step assigned, by parameter

vars == <<m, key, reply, written>>

\* value      the values that the objects have
\* saved      Experiments.saved_values
\* requested  Experiments.Requested
\* active     the names in Experiments.active
\* dirty      the objects whose "dirty" is set
\* raised     an exception was raised on the way
Memory ==
  [ value     : [Params -> Values],
    saved     : UNION {[ps -> Values] : ps \in SUBSET Params},
    requested : Seq(Names),
    active    : Seq(Names),
    dirty     : SUBSET (Objects \cup {ExperimentsObject}),
    raised    : BOOLEAN ]

Owner(name) == IF name = Requested THEN ExperimentsObject ELSE ObjectOf[name]

\* over @@ f, for functions with any domains
Overlay(over, f) ==
  [p \in DOMAIN over \cup DOMAIN f |-> IF p \in DOMAIN over THEN over[p] ELSE f[p]]

Nothing == [p \in {} |-> p]

Accepts(p, v) == <<p, v>> \notin Rejected
OldValue(x, name) == IF name = Requested THEN x.requested ELSE x.value[name]

-----------------------------------------------------------------------------
(* Experiments *)

\* Mutation: the parameters are marked, not their objects.
TouchParameters(x, names) == [x EXCEPT !.dirty = @ \cup names]

\* Handle.SetExportParam marks the object it writes to.
Touch(x, names) == [x EXCEPT !.dirty = @ \cup {Owner(name) : name \in names}]

\* Mutation: an experiment that comes second saves what the first one forced.
SaveAlways(x, force) == Overlay([p \in DOMAIN force |-> x.value[p]], x.saved)

\* Only the value from before all experiments is saved.
Save(x, force) == Overlay(x.saved, [p \in DOMAIN force |-> x.value[p]])

Apply(x, name) ==
  LET force == Forces[name] IN
  Touch([x EXCEPT !.saved = Save(x, force),
                  !.value = Overlay(force, @),
                  !.active = Append(@, name)], DOMAIN force)

\* The setter of a key of saved_values does not take its value.
Refused(x, p) == p \in DOMAIN x.saved /\ ~Accepts(p, x.saved[p])

\* The keys of saved_values that come no later than the first that is refused: those
\* that a flush writes.
Flushed(x) ==
  {KeyOrder[i] : i \in {k \in DOMAIN KeyOrder :
     KeyOrder[k] \in DOMAIN x.saved /\ \A j \in 1..(k - 1) : ~Refused(x, KeyOrder[j])}}

AllAccepted(x) == \A p \in Params : ~Refused(x, p)

RestoreSaved(x) ==
  LET ps == Flushed(x)
  IN  Touch([x EXCEPT !.value = [p \in Params |->
                IF p \in ps /\ Accepts(p, x.saved[p]) THEN x.saved[p] ELSE x.value[p]]],
            ps)

\* Mutation: the list of active experiments is not emptied.
FlushKeepsActive(x) == [RestoreSaved(x) EXCEPT !.saved = Nothing]

Flush(x) == [RestoreSaved(x) EXCEPT !.saved = Nothing, !.active = <<>>]

\* An experiment with a parameter that does not exist fails after the values of
\* those before it were saved.
ApplyBroken(x, name) == [x EXCEPT !.saved = Save(x, Forces[name]), !.raised = TRUE]

\* One step of the loop over the names requested, which the first that fails ends.
ApplyNth(x, names, n) ==
  IF \E k \in 1..(n - 1) : names[k] \in Broken THEN x
  ELSE IF names[n] \in Broken THEN ApplyBroken(x, names[n])
  ELSE Apply(x, names[n])

ApplyRequested(x) ==
  LET applied[n \in 0..Len(x.requested)] ==
        IF n = 0 THEN x ELSE ApplyNth(applied[n - 1], x.requested, n)
  IN  applied[Len(x.requested)]

\* Triggered: flush the old experiments, apply the new ones.
Triggered(x) ==
  IF AllAccepted(x) THEN ApplyRequested(Flush(x))
  ELSE [RestoreSaved(x) EXCEPT !.raised = TRUE]

SetRequested(x, names) ==
  IF names = x.requested THEN x ELSE Triggered([x EXCEPT !.requested = names])

-----------------------------------------------------------------------------
(* Assignments *)

\* setattr on the object
SetAttr(x, name, v) ==
  IF name = Requested THEN SetRequested(x, v)
  ELSE IF Accepts(name, v) THEN [x EXCEPT !.value[name] = v]
  ELSE [x EXCEPT !.raised = TRUE]

\* ExperimentHandle.SetExportParam looks the name up in saved_values with the
\* dashes turned into underscores, where the key has its dashes.
Captured(x, name) == name \in DOMAIN x.saved \ Vendor

\* Mutation: the write goes through to the object.
SetExportParamUncaptured(x, a) == SetAttr(Touch(x, {a.name}), a.name, a.value)

SetExportParam(x, a) ==
  IF Captured(x, a.name)
  THEN [x EXCEPT !.saved[a.name] = a.value]
  ELSE SetAttr(Touch(x, {a.name}), a.name, a.value)

SetAll(x, list) ==
  LET set[n \in 0..Len(list)] == IF n = 0 THEN x ELSE SetExportParam(set[n - 1], list[n])
  IN  set[Len(list)]

\* Mutation: what was written is left.
UndoNothing(x, done, list) == done

\* The roll back of SetParameterValues: the values read before are assigned
\* again, in the same order; what that raises is dropped.
UndoOne(x, y, a) ==
  IF OldValue(x, a.name) = a.value THEN y ELSE SetAttr(y, a.name, OldValue(x, a.name))

Undo(x, done, list) ==
  LET undone[n \in 0..Len(list)] ==
        IF n = 0 THEN done ELSE UndoOne(x, undone[n - 1], list[n])
  IN  undone[Len(list)]

\* The assertion of _ConcludeTransaction holds for the objects of these names.
AllDirty(x, names) == {Owner(name) : name \in names} \subseteq x.dirty

\* _ConcludeTransaction: which objects it came to before its assertion failed,
\* if it did, depends on the order of a set.
Conclude(x, names) ==
  LET objects == {Owner(name) : name \in names} IN
  IF AllDirty(x, names) THEN {[x EXCEPT !.dirty = @ \ objects]}
  ELSE {[x EXCEPT !.dirty = @ \ concluded, !.raised = TRUE] :
          concluded \in SUBSET (objects \cap x.dirty)}

NamesIn(list) == {list[i].name : i \in DOMAIN list}

\* What a list assigns to the names in it: the last assignment counts.
Assigned(list) ==
  [p \in NamesIn(list) |->
     list[CHOOSE i \in DOMAIN list :
            /\ list[i].name = p
            /\ \A j \in DOMAIN list : list[j].name = p => j <= i].value]

-----------------------------------------------------------------------------
(* Actions *)

Init ==
  /\ m \in {x \in [ value : [Params -> Values], saved : {Nothing}, requested : {<<>>},
                    active : {<<>>}, dirty : {{}}, raised : {FALSE} ] :
              \A p \in Params : Accepts(p, x.value[p])}
  /\ key = ""
  /\ reply = "none"
  /\ written = Nothing

\* SetParameterValues, of names that exist and values that their validators take.
SetParameterValues(rpc) ==
  LET done   == SetAll(m, rpc.list)
      failed == done.raised
      undone == [Undo(m, done, rpc.list) EXCEPT !.raised = TRUE]
  IN  \E x \in Conclude(IF failed THEN undone ELSE done, NamesIn(rpc.list)) :
        /\ m' = [x EXCEPT !.raised = FALSE]
        /\ key' = IF failed THEN key ELSE rpc.key
        /\ reply' = IF x.raised THEN "fault" ELSE "ok"
        /\ written' = Assigned(rpc.list)

\* An object changes a parameter of its own.
Write(p, v) ==
  /\ Accepts(p, v)
  /\ m' = [m EXCEPT !.value[p] = v]
  /\ reply' = "none"
  /\ written' = [q \in {p} |-> v]
  /\ UNCHANGED key

Next ==
  \/ \E rpc \in Rpcs : SetParameterValues(rpc)
  \/ \E p \in Params, v \in Values : Write(p, v)

Spec == Init /\ [][Next]_vars

-----------------------------------------------------------------------------
(* Properties *)

TypeOK ==
  /\ m \in Memory
  /\ ~m.raised
  /\ key \in {""} \cup {rpc.key : rpc \in Rpcs}
  /\ reply \in {"none", "ok", "fault"}
  /\ DOMAIN written \subseteq Params \cup {Requested}

\* The value that a parameter has, or will have when the experiments end.
Configured(p) == IF p \in DOMAIN m.saved THEN m.saved[p] ELSE m.value[p]

\* Whatever an active experiment forces has its own value saved, after any
\* overlap, error or roll back: stopping the experiment can put it back.
ForcedIsSaved ==
  UNION {DOMAIN Forces[m.active[i]] : i \in DOMAIN m.active} \subseteq DOMAIN m.saved

\* Experiments leave no trace: whichever begin, end, overlap or fail, a
\* parameter that nobody assigned keeps the value it is configured to.
UntouchedKept ==
  [][\A p \in Params : p \in DOMAIN written' \/ Configured(p)' = Configured(p)]_vars

\* "the write will be captured and saved for later" (experiment.py): what an RPC
\* that succeeds assigns is what the parameter will have when the experiments
\* end, and the experiment's value stays in force unless the RPC requests others.
SuccessConfigures ==
  reply' = "ok" =>
    \A p \in (DOMAIN written' \cap Params) \ Vendor :
      /\ Configured(p)' = written'[p]
      /\ p \in DOMAIN m.saved /\ Requested \notin DOMAIN written' => UNCHANGED m.value[p]

\* "if there were *any* errors, need to undo *all* changes" (api.py): an RPC that
\* fails changes nothing, if it has nothing to do with experiments, that is neither
\* requests any nor assigns what one of them forces.
FaultKeeps ==
  reply' = "fault" /\ DOMAIN written' \cap (DOMAIN m.saved \cup {Requested}) = {} =>
    \A p \in Params : Configured(p)' = Configured(p)

\* The answer of an RPC tells what it did.
AnswerTellsEffect == [][SuccessConfigures /\ FaultKeeps]_vars

\* "If an experiment is active and you use SetExportParam() to write to one of
\* the affected variables, the write will be captured" (experiment.py): the
\* experiment's value stays in force, for the parameters with a dash as well.
WriteCaptured ==
  [][reply' = "ok" /\ Requested \notin DOMAIN written' =>
       \A p \in DOMAIN written' \cap DOMAIN m.saved : UNCHANGED m.value[p]]_vars

-----------------------------------------------------------------------------
(* The instance for TLC: two overlapping experiments and a broken one; a   *)
(* plain parameter, one whose setter may raise, one with a dash.           *)

Const_Params   == {"Enable", "Interval", "X-Vendor"}
Const_Rejected == {<<"Interval", "bad">>}
Const_KeyOrder == <<"Enable", "Interval", "X-Vendor">>
Const_ObjectOf ==
  [p \in Const_Params |-> IF p = "X-Vendor" THEN "Portal" ELSE "Server"]

\* "overlap" forces Enable too, to another value.
Const_Forces ==
  [name \in {"first", "overlap", "broken"} |->
     CASE name = "first"   -> [p \in {"Enable", "X-Vendor"} |-> "on"]
       [] name = "overlap" -> [p \in {"Enable", "Interval"} |-> "off"]
       [] name = "broken"  -> [p \in {"Interval"} |-> "on"]]

Requests == {<<>>, <<"first">>, <<"overlap">>, <<"first", "overlap">>, <<"first", "broken">>}

Assignments ==
  {[name |-> p, value |-> v] : p \in {"Enable", "X-Vendor"}, v \in {"on", "off"}}
    \cup {[name |-> "Interval", value |-> v] : v \in {"on", "bad"}}
    \cup {[name |-> Requested, value |-> names] : names \in Requests}

Const_Rpcs ==
  {[key |-> "k", list |-> list] : list \in UNION {[1..n -> Assignments] : n \in 1..2}}

\* reply and written only tell what the last step was: no step reads them.
View == <<m, key>>
=============================================================================
