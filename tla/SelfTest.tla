------------------------------ MODULE SelfTest ------------------------------
(***************************************************************************)
(* The self-test of dm/selftest.py: an assignment of a parameter triggers  *)
(* Triggered when the ioloop is idle, which kills the test that runs and   *)
(* starts the one that Mode asks for.  The end of a test assigns Mode too. *)
(*                                                                         *)
(* The test and its output are external: stresstest ends some time unless  *)
(* it is told to go on, with AutoRestartEnable, and iperf as a client; as  *)
(* a server, which it is when there is no ServerIP, iperf runs until it is *)
(* killed.  Log and LastResultTime are left out.                           *)
(***************************************************************************)
EXTENDS Naturals

CONSTANTS
  MaxChanges   \* bound: assignments of the ACS

\* What is assumed of the constants.
SelfTestAssumption == MaxChanges \in Nat

VARIABLES
  Mode,
  ServerIP,           \* whether there is one
  AutoRestartEnable,
  scheduled,   \* Triggered waits for the idle ioloop
  proc,        \* the test that was started last and has not finished, or "None"
  endless,     \* the test was started without an end of its own
  output,      \* how many of its outputs, stdout and stderr, are not closed
  LastResult,  \* whether a test has finished, and how
  changes      \* assignments so far

settings == <<ServerIP, AutoRestartEnable>>
vars == <<Mode, settings, scheduled, proc, endless, output, LastResult, changes>>

Tests == {"StressTest", "Throughput"}
Modes == Tests \cup {"None", "Success", "Error"}

Init ==
  /\ Mode = "None" /\ scheduled = FALSE
  /\ ServerIP = FALSE /\ AutoRestartEnable = FALSE
  /\ proc = "None" /\ endless = FALSE /\ output = 0
  /\ LastResult = "none"
  /\ changes = 0

-----------------------------------------------------------------------------

\* Mode is a Trigger: only another value triggers.
SetMode(value) ==
  /\ Mode' = value
  /\ scheduled' = (scheduled \/ value # Mode)

AcsSetsMode(value) ==
  /\ SetMode(value)
  /\ UNCHANGED <<settings, proc, endless, output, LastResult>>

\* ServerIP, AutoRestartEnable and MaxBitRate trigger as well, and the test that runs
\* goes on as it was started until then.
AcsSetsParameter ==
  /\ scheduled' = TRUE
  /\ ServerIP' \in BOOLEAN /\ AutoRestartEnable' \in BOOLEAN
  /\ UNCHANGED <<Mode, proc, endless, output, LastResult>>

\* Mutation: the mode is left as it is.
FinishQuietly(result) ==
  /\ LastResult' = result
  /\ proc' = "None" /\ endless' = FALSE /\ output' = 0
  /\ UNCHANGED Mode

\* Mutation: the mode becomes the result, which is no mode.
FinishInResult(result) ==
  /\ LastResult' = result
  /\ proc' = "None" /\ endless' = FALSE /\ output' = 0
  /\ Mode' = result

\* _Finish: the test has ended, and so has the mode, whatever it is by now: a test
\* that the ACS asks for before the end of another is noticed is forgotten.
Finish(result) ==
  /\ LastResult' = result
  /\ proc' = "None" /\ endless' = FALSE /\ output' = 0
  /\ Mode' = "None"

\* A test that runs is killed; its end assigns the mode None, so that none starts,
\* and triggers once more.
TriggeredStops ==
  /\ scheduled /\ proc # "None"
  /\ Finish("killed")
  /\ scheduled' = (Mode' # Mode)
  /\ UNCHANGED <<settings, changes>>

\* DONT_ABORT, or IPERF_SERVER and no IPERF_TIME, is in the environment of the test.
Endless ==
  \/ Mode = "StressTest" /\ AutoRestartEnable
  \/ Mode = "Throughput" /\ ~ServerIP

TriggeredStarts ==
  /\ scheduled /\ proc = "None"
  /\ scheduled' = FALSE
  /\ proc' = IF Mode \in Tests THEN Mode ELSE "None"
  /\ endless' = Endless
  /\ output' = IF Mode \in Tests THEN 2 ELSE 0
  /\ UNCHANGED <<Mode, settings, LastResult, changes>>

\* _ReadData finds the end of one output, or of the second one.  An endless test may
\* still end, by an error of its own.
OutputEnds ==
  /\ proc # "None"
  /\ IF output = 2
     THEN output' = 1 /\ UNCHANGED <<Mode, scheduled, proc, endless, LastResult>>
     ELSE /\ \E result \in {"ok", "failed"} : Finish(result)
          /\ scheduled' = (scheduled \/ Mode' # Mode)
  /\ UNCHANGED <<settings, changes>>

Next ==
  \/ /\ changes < MaxChanges /\ changes' = changes + 1
     /\ AcsSetsParameter \/ \E value \in Modes : AcsSetsMode(value)
  \/ TriggeredStops
  \/ TriggeredStarts
  \/ OutputEnds

Spec == Init /\ [][Next]_vars

-----------------------------------------------------------------------------
(* Properties *)

TypeOK ==
  /\ Mode \in Modes /\ proc \in Tests \cup {"None"}
  /\ {scheduled, ServerIP, AutoRestartEnable, endless} \subseteq BOOLEAN
  /\ output \in 0..2 /\ LastResult \in {"none", "ok", "failed", "killed"}

\* When nothing is pending, the mode tells the test that runs, and tells of no test
\* when there is none: an end, a kill and an assignment cross in any order.
ModeTellsTest ==
  ~scheduled => (Mode \in Tests => proc = Mode) /\ (proc # "None" => Mode = proc)

\* After the last assignment the mode is no test any more, some time, unless the test
\* that runs has no end; and that one ends when the ACS assigns anything.
SelfTestEnds ==
  /\ <>[](IF proc = "None" THEN Mode \notin Tests ELSE endless)
  /\ (scheduled /\ endless) ~> ~endless
=============================================================================
