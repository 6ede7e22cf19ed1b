-------------------------------- MODULE SageTv --------------------------------
(***************************************************************************)
(* The properties of SageTV as CWMP parameters: _SageTvExporter and        *)
(* _SageProps of src/dm/gfibertv.py.  SageTV owns the properties; cwmpd    *)
(* asks it once a session, by XML-RPC, to save them to a file, reads the   *)
(* file, and answers every Get from what it has read.  A Set goes to       *)
(* SageTV and to that copy.                                                *)
(*                                                                         *)
(* A parameter has the name of a property with every other character than  *)
(* a letter, a digit or a slash replaced by an underscore.                 *)
(*                                                                         *)
(* A text is a sequence of characters.  Those that the file treats in ways *)
(* of their own are the "#", the backslash, the newline and the blank; the *)
(* keys have none of the first three and no "=".                           *)
(***************************************************************************)
EXTENDS Naturals, Sequences

CONSTANTS
  Sorted,     \* the keys of properties that SageTV may have, sorted
  Clean,      \* key -> the name of its parameter
  Values,     \* the values of a property: texts
  MaxChanges  \* bound on the steps that change a property

VARIABLES
  sage,     \* SageTV's properties: key -> value
  file,     \* Sage.properties: key -> value
  props,    \* the copy, key or name -> value; Unread: no tree is cached
  cleaned,  \* name -> the key that DeClean gives
  saved,    \* history: the file was saved when the tree was read, and no one
            \* but cwmpd has changed a property since
  written,  \* history: name -> what was written in this session
  changes   \* bound: changes so far

vars == <<sage, file, props, cleaned, saved, written, changes>>

Absent == << >>  \* what a property that does not exist reads as: an empty text
Characters == {"a", "b", "n", " ", "#", "backslash", "newline"}
PropertyKeys == {Sorted[i] : i \in DOMAIN Sorted}
Names == {Clean[k] : k \in PropertyKeys}
Unread == [k \in PropertyKeys \cup Names |-> <<"unread">>]

\* What is assumed of the constants.
SageAssumption == Sorted \in Seq(PropertyKeys) /\ Values \subseteq Seq(Characters) \ {Absent}

-----------------------------------------------------------------------------
(* The texts of the file *)

\* SageTV, which is external, writes a backslash before what is special, as Java's
\* properties do, and a newline as the letter n after one.
Escaped(value) ==
  [i \in DOMAIN value |->
     [escaped |-> value[i] \in {"#", "backslash", "newline"},
      char    |-> IF value[i] = "newline" THEN "n" ELSE value[i]]]

\* What comes before the first "#", escaped or not: the backslash of an escape is left.
Uncommented(line) ==
  LET hashes == {i \in DOMAIN line : line[i].char = "#"}
      first  == CHOOSE i \in hashes : \A j \in hashes : i <= j
      before == SubSeq(line, 1, first - 1)
      left   == IF line[first].escaped THEN <<[escaped |-> FALSE, char |-> "backslash"]>> ELSE << >>
  IN IF hashes = {} THEN line ELSE before \o left

\* Mutation: escapes are left as they are.
EscapesLeft(line) == [i \in DOMAIN line |-> IF line[i].escaped THEN "escape" ELSE line[i].char]

\* An escape stands for the character after the backslash, whatever that is.
Unescaped(line) == [i \in DOMAIN line |-> line[i].char]

Stripped(text) ==
  LET kept == {i \in DOMAIN text : text[i] # " "} IN
  IF kept = {} THEN << >>
  ELSE SubSeq(text, CHOOSE i \in kept : \A j \in kept : i <= j,
                    CHOOSE i \in kept : \A j \in kept : j <= i)

\* What _ParseProps reads of a value.
ParseProps(value) == Stripped(Unescaped(Uncommented(Escaped(value))))

\* The values that survive the file: a "#", a newline and a blank at an end do not.
Survives(value) ==
  /\ \A i \in DOMAIN value : value[i] \notin {"#", "newline"}
  /\ value # << >> => value[1] # " " /\ value[Len(value)] # " "

-----------------------------------------------------------------------------
\* The constructor of _SageProps: of two keys with the same name, the last.
Cleaned(data) ==
  [n \in Names |->
     LET same == {i \in DOMAIN Sorted : Clean[Sorted[i]] = n /\ data[Sorted[i]] # Absent}
     IN IF same = {} THEN n ELSE Sorted[CHOOSE i \in same : \A j \in same : j <= i]]

Parsed(data) ==
  [k \in PropertyKeys \cup Names |-> IF k \in PropertyKeys THEN ParseProps(data[k]) ELSE Absent]

\* __getattr__ looks the name up in the copy.
Get(n) == props[n]

\* Mutation: the copy keeps the value under the key that SageTV has it under.
SetKey(p, n, value) == [p EXCEPT ![cleaned[n]] = value]

SetProp(p, n, value) == [p EXCEPT ![n] = value]

\* Mutation: the file is read before SageTV saves it.
ReadThenSaved(ok) == file

\* What SaveProperties leaves in the file, which is read then: an error of
\* the call is not fatal.
Saved(ok) == IF ok THEN sage ELSE file

-----------------------------------------------------------------------------
Init ==
  /\ sage \in [PropertyKeys -> {Absent} \cup Values]
  /\ file = sage
  /\ props = Unread /\ cleaned = [n \in Names |-> n]
  /\ saved = FALSE /\ written = [n \in Names |-> Absent]
  /\ changes = 0

\* _SageTvTree, at the first use in a session.
GetTreeTop(ok) ==
  /\ props = Unread
  /\ file' = IF ok THEN sage ELSE file
  /\ props' = Parsed(Saved(ok)) /\ cleaned' = Cleaned(Saved(ok))
  /\ saved' = ok
  /\ UNCHANGED <<sage, written, changes>>

\* __setattr__ of a parameter.  The call may fail, and its answer may be
\* lost after SageTV has set the property: a ValueError, and no change here.
SetAttr(n, value, outcome) ==
  /\ props # Unread
  /\ changes < MaxChanges /\ changes' = changes + 1
  /\ sage' = IF outcome = "refused" THEN sage ELSE
       [k \in PropertyKeys |-> IF k = cleaned[n] THEN value ELSE sage[k]]
  /\ IF outcome = "done"
       THEN /\ props' = SetProp(props, n, value)
            /\ written' = [written EXCEPT ![n] = value]
            /\ UNCHANGED saved
       ELSE /\ saved' = (saved /\ outcome = "refused")
            /\ UNCHANGED <<props, written>>
  /\ UNCHANGED <<file, cleaned>>

\* SageTV changes a property by itself, or writes the file.
SageChanges(k, value) ==
  /\ changes < MaxChanges /\ changes' = changes + 1
  /\ value # sage[k] /\ sage' = [sage EXCEPT ![k] = value]
  /\ saved' = FALSE
  /\ UNCHANGED <<file, props, cleaned, written>>

SageSaves ==
  /\ file # sage /\ file' = sage
  /\ UNCHANGED <<sage, props, cleaned, saved, written, changes>>

\* The session ends, and with it the cached tree.
FlushCache ==
  /\ props # Unread /\ props' = Unread /\ saved' = FALSE
  /\ written' = [n \in Names |-> Absent]
  /\ UNCHANGED <<sage, file, cleaned, changes>>

Next ==
  \/ \E ok \in BOOLEAN : GetTreeTop(ok)
  \/ \E n \in Names, v \in Values, o \in {"done", "refused", "lost"} : SetAttr(n, v, o)
  \/ \E k \in PropertyKeys, v \in {Absent} \cup Values : SageChanges(k, v)
  \/ SageSaves \/ FlushCache

Spec == Init /\ [][Next]_vars

-----------------------------------------------------------------------------
\* A value is read from the file or was written by the ACS.
Readable == {Absent} \cup Values \cup {ParseProps(v) : v \in {Absent} \cup Values}

TypeOK ==
  /\ sage \in [PropertyKeys -> {Absent} \cup Values] /\ file \in [PropertyKeys -> {Absent} \cup Values]
  /\ props = Unread \/ props \in [PropertyKeys \cup Names -> Readable]
  /\ cleaned \in [Names -> PropertyKeys \cup Names]

\* What the ACS has written in this session it also reads, whatever names
\* collide.  About __setattr__ and __getattr__.
ReadsWhatWasWritten ==
  \A n \in Names : written[n] # Absent /\ props # Unread => Get(n) = written[n]

\* If SageTV saved its properties for this session and has not changed one
\* by itself, a parameter that is written like its property, and to which no
\* other property's name is cleaned, reads as that property, also after
\* writes and in later sessions, unless the file cannot hold the value: then
\* as what is read of it.  About _SageTvTree, _SageProps and _ParseProps.
ReadsAsSageHasIt ==
  saved => \A k \in PropertyKeys :
    (\A o \in PropertyKeys : Clean[o] = k <=> o = k) =>
      \/ Get(k) = sage[k]
      \/ ~Survives(sage[k]) /\ Get(k) = ParseProps(sage[k])
=============================================================================
