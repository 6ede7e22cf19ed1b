---------------------------- MODULE ObjectLists ----------------------------
(***************************************************************************)
(* The lists of objects in the data model: AddObject, AddObjects and       *)
(* DeleteObject of the ACS (tr/api.py), "add" and "del" of the local       *)
(* command socket (tr/rcommand.py), through Handle (tr/handle.py), and the *)
(* attributes the ACS set on parameters below an object                    *)
(* (ParameterAttributes).                                                  *)
(*                                                                         *)
(* One parent object with the lists of Lists, which share its _lastindex;  *)
(* an object is a pair <<list, index>>.  Names stands for what a request   *)
(* may call a list: one of Lists, "unknown" (no such list: a KeyError) or  *)
(* "nodot" (the name does not end with a dot).                             *)
(***************************************************************************)
EXTENDS Integers, Sequences, FiniteSets

CONSTANTS Lists,     \* names of the addable lists
          Explicit,  \* indices the command socket may ask for
          MaxIndex,  \* bound of _lastindex
          MaxCount   \* objects one AddObjects asks for of one list

\* What is assumed of the constants.
ObjectListsAssumption ==
  /\ Explicit \subseteq Nat /\ MaxIndex \in Nat /\ MaxCount \in Nat
  /\ Lists \cap {"unknown", "nodot"} = {}

Names == Lists \cup {"unknown", "nodot"}

VARIABLES
  objects,    \* the objects there are
  lastindex,  \* _lastindex of the parent
  attributes, \* the objects with attributes set on a parameter below them
  answer,     \* history: how the last request was answered
  told,       \* history: the objects its answer named as added for the ACS
  given       \* history: the objects any answer before it named

listVars == <<objects, lastindex, attributes, answer, told, given>>

Init == /\ objects = {} /\ lastindex = 0 /\ attributes = {}
        /\ answer = "none" /\ told = {} /\ given = {}

Answer(a, new) == /\ answer' = a
                  /\ told' = IF a = "added" THEN new ELSE {}
                  /\ given' = given \cup told
---------------------------------------------------------------------------
\* Mutation: the next index is one more than there are objects.
NextByLength(n, k) == (Cardinality(objects) + 1)..(Cardinality(objects) + k)

\* Handle._AddExportObject without an index: the next of the parent.  The keys of
\* the list are integers and "in" is asked for a string: no index counts as taken.
Next1(n, k) == (n + 1)..(n + k)

AddObject(l) ==
  LET new == {l} \X Next1(lastindex, 1)
  IN /\ lastindex < MaxIndex
     /\ lastindex' = lastindex + 1
     /\ objects' = objects \cup new
     /\ Answer("added", new)
     /\ UNCHANGED attributes

\* X_CATAWAMPUS_ORG_AddObjects with one or two names, in order.  The undo after a fault
\* looks at the names that end with a dot, and raises at the end of its first round; with
\* no such name it does not raise at all.
AddObjects ==
  \E names \in UNION {[1..n -> Names] : n \in 1..2}, count \in 1..MaxCount :
    LET added(k) == IF names[k] \in Lists THEN count ELSE 0
        before(k) == lastindex + IF k = 1 THEN 0 ELSE added(1)
        new(k)   == {names[k]} \X Next1(before(k), added(k))
        all      == UNION {new(k) : k \in DOMAIN names}
        dotted   == {k \in DOMAIN names : names[k] # "nodot"}
        fault    == dotted # {} /\ \E k \in DOMAIN names : names[k] \notin Lists
        first    == IF 1 \in dotted THEN 1 ELSE 2
    IN /\ lastindex' = before(Len(names)) + added(Len(names)) /\ lastindex' <= MaxIndex
       /\ objects' = (objects \cup all) \ IF fault THEN new(first) ELSE {}
       /\ Answer(IF fault THEN "fault" ELSE "added", all)
       /\ UNCHANGED attributes

\* DeleteObject: the attributes go first, then the object, if it is there.
DeleteObject(l, i) ==
  /\ attributes' = attributes \ {<<l, i>>}
  /\ objects' = objects \ {<<l, i>>}
  /\ Answer(IF <<l, i>> \in objects THEN "deleted" ELSE "fault", {})
  /\ UNCHANGED lastindex

\* SetParameterAttributes on a parameter below an object.  For one that is not there
\* GetExport raises, after the attributes were stored.
SetAttributes(l, i) ==
  /\ attributes' = attributes \cup {<<l, i>>}
  /\ Answer(IF <<l, i>> \in objects THEN "set" ELSE "fault", {})
  /\ UNCHANGED <<objects, lastindex>>

\* RemoteCommandStreamer.CmdAdd with an index: stored whether it is taken or not.
CmdAdd(l, i) ==
  /\ objects' = objects \cup {<<l, i>>}
  /\ Answer("local", {})
  /\ UNCHANGED <<lastindex, attributes>>

\* RemoteCommandStreamer.CmdDel: the attributes stay.
CmdDel(l, i) ==
  /\ <<l, i>> \in objects
  /\ objects' = objects \ {<<l, i>>}
  /\ Answer("local", {})
  /\ UNCHANGED <<lastindex, attributes>>

Next == \/ AddObjects
        \/ \E l \in Lists :
             \/ AddObject(l)
             \/ \E i \in 1..MaxIndex : DeleteObject(l, i) \/ SetAttributes(l, i) \/ CmdDel(l, i)
             \/ \E i \in Explicit : CmdAdd(l, i)

Spec == Init /\ [][Next]_listVars
---------------------------------------------------------------------------
TypeOK == /\ objects \subseteq Lists \X (1..MaxIndex \cup Explicit)
          /\ lastindex \in 0..MaxIndex
          /\ attributes \subseteq Lists \X (1..MaxIndex)
          /\ told \subseteq Lists \X (1..MaxIndex) /\ given \subseteq Lists \X (1..MaxIndex)
          /\ answer \in {"none", "added", "fault", "deleted", "set", "local"}

\* What the ACS knows by a name stays one object: no answer names an index that an
\* earlier one named, whatever was deleted or undone in between, and what an answer
\* names as added is there (_lastindex in Handle._AddExportObject).
IndexGivenOnce == told \cap given = {} /\ told \subseteq objects
===========================================================================
