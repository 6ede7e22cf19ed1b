-------------------------------- MODULE Types --------------------------------
(***************************************************************************)
(* The parameter types of tr/cwmptypes.py: what their validators make of a *)
(* value, the wrappers Trigger and ReadOnly with their callbacks, and what *)
(* SetParameterValues of tr/api.py does with them: it tries all values     *)
(* first, then sets them, and writes the old ones back if one raises.      *)
(*                                                                         *)
(* A Python value is a string here: the text 'x' of a request is "x", the  *)
(* others are None, True, False, a number n (as "#n") and a date.  The     *)
(* empty text is "empty".                                                  *)
(***************************************************************************)
EXTENDS Naturals, Sequences

CONSTANTS
  Attrs,     \* attributes of one object
  TypeOf,    \* the type of each
  InitOf,    \* the value that it is declared with
  ReadOnlys, \* those wrapped in ReadOnly; the others are wrapped in Trigger
  Texts      \* what a request holds

Others == {"None", "True", "False", "#0", "#1", "#-1", "date"}
Types  == {"Bool", "Int", "Unsigned", "Float", "String", "Enum", "Date", "MacAddr"}

-----------------------------------------------------------------------------
(* validate: the value, or "raises" *)

Bool(v) ==
  CASE v = "None" -> "None"
    [] v \in {"true", "True", "1", "#1", "-1", "#-1"} -> "True"
    [] v \in {"false", "False", "0", "#0", "empty"}   -> "False"
    [] OTHER -> "raises"

Number(v) ==
  CASE v \in {"1", "#1", "True"}   -> "#1"
    [] v \in {"0", "#0", "False"}  -> "#0"
    [] v \in {"-1", "#-1"}         -> "#-1"
    [] OTHER -> "raises"        \* None and a date too

Unsigned(v) == IF Number(v) = "#-1" THEN "raises" ELSE Number(v)

\* The attribute is declared with the values "1" and "x".
Enum(v) == IF v \in {"1", "x"} THEN v ELSE "raises"

\* cwmpdate.parse
ParsedDate(v) == IF v = "2013-01-01T00:00:00Z" THEN "date" ELSE "raises"

\* A number is the time in seconds.  A date raises too: float raises TypeError of it,
\* not ValueError.
Date(v) ==
  CASE v \in {"None", "empty"} -> "None"
    [] Number(v) # "raises"   -> "date"
    [] OTHER                  -> ParsedDate(v)

MacAddr(v) ==
  CASE v \in {"None", "empty", "False", "#0"} -> "None"
    [] v = "00:11:22:33:44:55" -> v
    [] OTHER -> "raises"

\* What unicode makes of it, told apart by what it was.
String(v) == v

Validated(type, v) ==
  CASE type = "Bool"            -> Bool(v)
    [] type \in {"Int", "Float"} -> Number(v)
    [] type = "Unsigned"        -> Unsigned(v)
    [] type = "Enum"            -> Enum(v)
    [] type = "Date"            -> Date(v)
    [] type = "MacAddr"         -> MacAddr(v)
    [] OTHER                    -> String(v)

\* Attr.__get__ of an attribute that was never set.  None is not validated.
Declared(a) == IF InitOf[a] = "None" THEN "None" ELSE Validated(TypeOf[a], InitOf[a])

\* What is assumed of the constants; no attribute is declared with a value it refuses.
TypesAssumption ==
  /\ TypeOf \in [Attrs -> Types] /\ ReadOnlys \subseteq Attrs
  /\ Texts \cap (Others \cup {"raises"}) = {}
  /\ \A a \in Attrs : Declared(a) # "raises"

-----------------------------------------------------------------------------

VARIABLES
  values,     \* what the attributes hold
  triggered,  \* observation only: the last values that Triggered of the object saw
  notified,   \* observation only: the last values that the notifiers were called with
  answer      \* observation only: of the last step: "none", "ok" or "fault"

vars == <<values, triggered, notified, answer>>

Init ==
  /\ values = [a \in Attrs |-> Declared(a)]
  /\ triggered = values /\ notified = values
  /\ answer = "none"

-----------------------------------------------------------------------------
(* Setting an attribute: x holds the three functions and whether one raised *)

\* tryattr.  ReadOnly raises for any value.
TryAttr(a, v) == IF a \in ReadOnlys THEN "raises" ELSE Validated(TypeOf[a], v)

\* Attr.__set__, which always calls the callbacks; of a Trigger, Triggered is called
\* if the value is another.
SetInner(x, a, v) ==
  [values |-> [x.values EXCEPT ![a] = v], triggered |-> x.triggered,
   notified |-> [x.notified EXCEPT ![a] = v], raised |-> x.raised]

\* Mutation: the object is told of a change before the value is stored.
SetEarly(x, a, v) ==
  LET new == Validated(TypeOf[a], v)
  IN IF new = "raises" THEN [x EXCEPT !.raised = TRUE]
     ELSE [SetInner(x, a, new) EXCEPT !.triggered = x.values]

\* Trigger.__set__
Set(x, a, v) ==
  LET new == Validated(TypeOf[a], v)
      set == SetInner(x, a, new)
  IN IF new = "raises" THEN [x EXCEPT !.raised = TRUE]
     ELSE IF new = x.values[a] THEN set
     ELSE [set EXCEPT !.triggered = set.values]

Now == [values |-> values, triggered |-> triggered, notified |-> notified, raised |-> FALSE]

Become(x, a) ==
  /\ values' = x.values /\ triggered' = x.triggered /\ notified' = x.notified
  /\ answer' = a

\* SetParameterValues of one attribute, and of a parameter of another object that has
\* no validator and whose setter raises, if withFailing.  Phase 1 reads the old values;
\* phase 2 tries the new ones; phase 3 sets them all, though one raises, and then writes
\* back those that differ from what was requested, whatever raises.
SetParameterValues(a, v, withFailing) ==
  LET old == values[a]
      set == Set(Now, a, v)
  IN IF TryAttr(a, v) = "raises" THEN Become(Now, "fault")
     ELSE IF ~set.raised /\ ~withFailing THEN Become(set, "ok")
     ELSE Become(IF old = v THEN set ELSE Set([set EXCEPT !.raised = FALSE], a, old), "fault")

\* ReadOnly.Set, by which the device changes a parameter.
SetReadOnly(a, v) ==
  LET new == Validated(TypeOf[a], v) IN
  /\ a \in ReadOnlys /\ new # "raises"
  /\ Become(SetInner(Now, a, new), "none")

Next ==
  \E a \in Attrs :
    \/ \E v \in Texts, withFailing \in BOOLEAN : SetParameterValues(a, v, withFailing)
    \/ \E v \in Others : SetReadOnly(a, v)

Spec == Init /\ [][Next]_vars

-----------------------------------------------------------------------------

\* What an attribute of a type can hold.
Held(a) ==
  {Declared(a)} \cup ({Validated(TypeOf[a], v) : v \in Texts \cup Others} \ {"raises"})

TypeOK ==
  /\ \A a \in Attrs : values[a] \in Held(a)
  /\ answer \in {"none", "ok", "fault"}

\* The notifiers of AddNotifier have seen every change, of a request that succeeded, of
\* one that was rolled back, and of the device; the object itself those of its triggers
\* (tr/cwmptypes.py:216-222, 676-690).
ChangesSeen ==
  /\ notified = values
  /\ \A a \in Attrs \ ReadOnlys : triggered[a] = values[a]

\* "if there were *any* errors, need to undo *all* changes" (tr/api.py:458): a request
\* that fails leaves every value that its own type would store again as it is.  None and
\* a date it would not: those stay as the failed request left them.
FaultUndoes ==
  [][answer' = "fault" =>
       \A a \in Attrs :
         Validated(TypeOf[a], values[a]) = values[a] => values'[a] = values[a]]_vars
=============================================================================
