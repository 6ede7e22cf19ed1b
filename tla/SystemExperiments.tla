-------------------------- MODULE SystemExperiments --------------------------
(***************************************************************************)
(* The experiments of the system, which tr/experiment.py requests from the *)
(* boot scripts by files in ACTIVEDIR: it writes NAME.requested and        *)
(* NAME.unrequested, and the scripts rename the first to NAME.active when  *)
(* they start the experiment, and remove the files of one that ended.      *)
(* The files outlive the process, which reads them when it starts.         *)
(***************************************************************************)
EXTENDS FiniteSets, Naturals, Sequences

CONSTANTS
  Names,       \* of experiments of the system
  Misnamed,    \* those with a name that is too long, or has a character that may not be
  MaxFiles     \* MAX_FILE_NUMBER

\* What is assumed of the constants.
SystemExperimentsAssumption ==
  /\ IsFiniteSet(Names) /\ Misnamed \subseteq Names
  /\ MaxFiles \in Nat

Suffixes == {"requested", "active", "unrequested"}

VARIABLES
  Requested,  \* Experiments.Requested: a list of names
  files,      \* of ACTIVEDIR: pairs <<name, suffix>>
  refused     \* observation only: the requested names that Triggered did not request

vars == <<Requested, files, refused>>

Suffixed(fs, suffix) == {name \in Names : <<name, suffix>> \in fs}

\* The names that the files ask for.
Wanted(fs) ==
  (Suffixed(fs, "active") \cup Suffixed(fs, "requested")) \ Suffixed(fs, "unrequested")

-----------------------------------------------------------------------------

\* Mutation: a request does not take back that the experiment was to end.
KeepUnrequested(fs, name) ==
  IF name \in Suffixed(fs, "active") THEN fs ELSE fs \cup {<<name, "requested">>}

\* Request one that is not at its limit: it is not to end any more, and is to start
\* unless it runs.
Request(fs, name) ==
  LET kept == fs \ {<<name, "unrequested">>}
  IN IF name \in Suffixed(fs, "active") THEN kept ELSE kept \cup {<<name, "requested">>}

Refused(fs, name) == name \in Misnamed \/ Cardinality(fs) >= MaxFiles

\* What was requested or runs, and is not requested: it need not start, or is to end.
Unrequest(fs, names) ==
  (fs \ (names \X {"requested"}))
    \cup ((names \cap Suffixed(fs, "active")) \X {"unrequested"})

Elements(list) == {list[n] : n \in DOMAIN list}
Lists == {list \in UNION {[1..n -> Names] : n \in 0..Cardinality(Names)} :
            Cardinality(Elements(list)) = Len(list)}

\* Triggered: the requested names in their order, then those that are not requested.
\* The files are listed before, so that what is requested now is not among the latter.
Triggered(list) ==
  LET applied[n \in 0..Len(list)] ==
        IF n = 0 THEN files
        ELSE IF Refused(applied[n - 1], list[n]) THEN applied[n - 1]
        ELSE Request(applied[n - 1], list[n])
      no == {n \in DOMAIN list : Refused(applied[n - 1], list[n])}
      dropped == (Suffixed(files, "active") \cup Suffixed(files, "requested")) \ Elements(list)
  IN /\ Requested' = list
     /\ files' = Unrequest(applied[Len(list)], dropped)
     /\ refused' = {list[n] : n \in no}

Init ==
  /\ files = {} /\ Requested = <<>> /\ refused = {}

\* The ACS writes Requested, which triggers if it differs.
SetRequested == \E list \in Lists \ {Requested} : Triggered(list)

\* The process starts again and requests what the files ask for, in the order of the
\* names; nothing is triggered when that is nothing.
Restart ==
  \E list \in Lists :
    /\ Elements(list) = Wanted(files)
    /\ IF list = <<>> THEN Requested' = <<>> /\ refused' = {} /\ UNCHANGED files
       ELSE Triggered(list)

\* The scripts start an experiment, or end one: its .active goes first.
Activate ==
  /\ \E name \in Suffixed(files, "requested") :
       files' = (files \ {<<name, "requested">>}) \cup {<<name, "active">>}
  /\ UNCHANGED <<Requested, refused>>

Deactivate ==
  /\ \E name \in Suffixed(files, "unrequested") :
       files' = files \ {<<name, IF name \in Suffixed(files, "active") THEN "active"
                                 ELSE "unrequested">>}
  /\ UNCHANGED <<Requested, refused>>

Next == SetRequested \/ Restart \/ Activate \/ Deactivate

Spec == Init /\ [][Next]_vars

-----------------------------------------------------------------------------

TypeOK ==
  /\ Requested \in Lists
  /\ files \subseteq Names \X Suffixes
  /\ refused \subseteq Elements(Requested)

\* The files ask for what the ACS requested last, but for what was refused then,
\* however requests and scripts interleave and the process restarts: a restart asks for
\* the same (tr/experiment.py:98-111, 165-213).
FilesAskForRequested ==
  Wanted(files) \ refused = Elements(Requested) \ refused
=============================================================================
