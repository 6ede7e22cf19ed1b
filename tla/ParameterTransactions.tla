----------------------- MODULE ParameterTransactions -----------------------
(***************************************************************************)
(* Writes of several parameters as one transaction: SetParameterValues of  *)
(* the ACS (tr/api.py) and "set" of the local command socket               *)
(* (tr/rcommand.py), both through Handle.SetExportParam (tr/handle.py),    *)
(* which starts a transaction on an object that is not dirty.              *)
(*                                                                         *)
(* An object has one parameter here.  The objects of Copying keep their    *)
(* values in a copy between StartTransaction and the end of it, as the     *)
(* wifi of dm/brcmwifi.py and the sensors of dm/temperature.py do; the     *)
(* others inherit the empty methods of tr/core.py, their setters act at    *)
(* once.  What a value stands for is how it is received:                   *)
(*   "bad"     is refused by the validator (tryattr)                       *)
(*   "late"    passes it, or has none, and is refused by the setter        *)
(*   "poison"  is stored, and makes CommitTransaction raise                *)
(*   another   is accepted                                                 *)
(***************************************************************************)
EXTENDS Integers, Sequences, FiniteSets

CONSTANTS Objects,    \* the data model objects
          Copying,    \* those that copy their configuration
          Accepted,   \* values every step accepts
          MaxWrites   \* the longest list of values in a request

\* What is assumed of the constants.
TransactionsAssumption ==
  /\ Copying \subseteq Objects /\ MaxWrites \in Nat
  /\ Accepted \cap {"bad", "late", "poison", "none"} = {} /\ Accepted # {}

Values == Accepted \cup {"bad", "late", "poison"}
Batches == UNION {[1..n -> Objects \X Values] : n \in 1..MaxWrites}

VARIABLES
  config,    \* the value each object holds; "none" where .config is None
  oldConfig, \* the copy a transaction keeps, "none" outside one
  dirty,     \* the objects with pending writes
  open,      \* history: the objects whose StartTransaction has not been concluded
  result     \* history: how the last request ended

transactionVars == <<config, oldConfig, dirty, open, result>>

Init == /\ config \in [Objects -> Accepted]
        /\ oldConfig = [o \in Objects |-> "none"]
        /\ dirty = {} /\ open = {} /\ result = "none"
---------------------------------------------------------------------------
\* The state a request works on.
Current == [config |-> config, old |-> oldConfig, dirty |-> dirty, open |-> open,
            failed |-> FALSE]
Become(s) == /\ config' = s.config /\ oldConfig' = s.old
             /\ dirty' = s.dirty /\ open' = s.open

StartTransaction(s, o) ==
  [config |-> s.config, old |-> IF o \in Copying THEN [s.old EXCEPT ![o] = s.config[o]] ELSE s.old,
   dirty |-> s.dirty \cup {o}, open |-> s.open \cup {o}, failed |-> s.failed]

\* The transaction of o ends with this configuration.
Ended(s, o, conf, failed) ==
  [config |-> conf, old |-> [s.old EXCEPT ![o] = "none"],
   dirty |-> s.dirty, open |-> s.open \ {o}, failed |-> failed]

AbandonTransaction(s, o) ==
  Ended(s, o, IF o \in Copying THEN [s.config EXCEPT ![o] = s.old[o]] ELSE s.config, s.failed)
CommitTransaction(s, o) == Ended(s, o, s.config, s.config[o] = "poison")

\* A setter: an object whose configuration is None has no attribute to set.
Assign(s, o, v) ==
  IF v = "late" \/ s.config[o] = "none" THEN [s EXCEPT !.failed = TRUE]
  ELSE [s EXCEPT !.config[o] = v]

\* Handle.SetExportParam
SetExportParam(s, write) ==
  LET o == write[1]
  IN Assign(IF o \in s.dirty THEN s ELSE StartTransaction(s, o), o, write[2])

\* The state after each of the writes, whether they fail or not.
Writes(batch) ==
  LET written[n \in 0..Len(batch)] ==
        IF n = 0 THEN Current ELSE SetExportParam(written[n - 1], batch[n])
  IN written

Written(batch) == {batch[i][1] : i \in DOMAIN batch}

\* The orders in which a set of objects may be walked, each of them once.
Orders(S) ==
  {q \in [1..Cardinality(S) -> S] :
     \A o \in S : \E i \in DOMAIN q : q[i] = o /\ \A j \in DOMAIN q \ {i} : q[j] # o}

End(s, o, do_commit) == IF do_commit THEN CommitTransaction(s, o) ELSE AbandonTransaction(s, o)

\* _ConcludeTransaction, in the order the set is walked.  A commit that raises ends
\* the walk: the objects after it stay dirty, their transaction open.  Without clean the
\* flags stay, as they do after CmdSet.
Conclude(s, objects, do_commit, clean) ==
  LET t[n \in 0..Len(objects)] ==
        IF n = 0 THEN [s EXCEPT !.failed = FALSE]
        ELSE IF t[n - 1].failed THEN t[n - 1]
        ELSE End([t[n - 1] EXCEPT !.dirty = IF clean THEN @ \ {objects[n]} ELSE @],
                 objects[n], do_commit)
  IN t[Len(objects)]
---------------------------------------------------------------------------
\* Mutation: the old value is not assigned.
LeaveIt(s, write) == s

\* The old value is assigned again if it is another, whatever the setter says.
RollBack(s, write) ==
  LET o == write[1]
  IN IF write[2] = config[o] THEN s
     ELSE [Assign(s, o, config[o]) EXCEPT !.failed = s.failed]

\* The old values are assigned again, one after the other.
RolledBack(s, batch) ==
  LET back[n \in 0..Len(batch)] ==
        IF n = 0 THEN s ELSE RollBack(back[n - 1], batch[n])
  IN back[Len(batch)]

\* SetParameterValues: read the old values, try the validators, write all; after an
\* error assign the old values again and abandon.
SetParameterValues ==
  \E batch \in Batches :
    LET written == Writes(batch)[Len(batch)]
    IN \/ /\ \/ \E o \in Written(batch) : config[o] = "none"
             \/ \E i \in DOMAIN batch : batch[i][2] = "bad"
          /\ result' = "rejected"
          /\ UNCHANGED <<config, oldConfig, dirty, open>>
       \/ /\ \A o \in Written(batch) : config[o] # "none"
          /\ \A i \in DOMAIN batch : batch[i][2] # "bad"
          /\ \E objects \in Orders(Written(batch)) :
               IF written.failed
               THEN /\ Become(Conclude(RolledBack(written, batch), objects, FALSE, TRUE))
                    /\ result' = "rejected"
               ELSE LET s == Conclude(written, objects, TRUE, TRUE)
                    IN Become(s) /\ result' = IF s.failed THEN "failed" ELSE "done"

\* RemoteCommandStreamer.CmdSet: no validation, no old values, and the dirty flags
\* stay.  The object whose setter raised is not among those it abandons.
CmdSet ==
  \E batch \in Batches :
    LET ends  == {n \in DOMAIN batch : Writes(batch)[n].failed}
        n     == IF ends = {} THEN Len(batch) ELSE CHOOSE i \in ends : \A j \in ends : i <= j
        added == {batch[i][1] : i \in IF ends = {} THEN 1..n ELSE 1..(n - 1)}
    IN \E objects \in Orders(added) :
         LET s == Conclude(Writes(batch)[n], objects, ends = {}, FALSE)
         IN /\ Become(s)
            /\ result' = IF ends # {} \/ s.failed THEN "failed" ELSE "done"

Next == SetParameterValues \/ CmdSet
Spec == Init /\ [][Next]_transactionVars
---------------------------------------------------------------------------
TypeOK == /\ config \in [Objects -> Values \cup {"none"}]
          /\ oldConfig \in [Objects -> Values \cup {"none"}]
          /\ dirty \subseteq Objects /\ open \subseteq Objects
          /\ result \in {"none", "done", "rejected", "failed"}

\* A SetParameterValues that is refused leaves every value as it was, whichever
\* value of the list was at fault, provided no object was left dirty before it
\* (TR069 CPE.SetParameterValues and its roll back).
RefusedChangesNothing ==
  [][dirty = {} /\ result' = "rejected" /\ SetParameterValues
       => config' = config /\ dirty' = {} /\ open' = {}]_transactionVars
===========================================================================
