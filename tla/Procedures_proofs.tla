-------------------------- MODULE Procedures_proofs --------------------------
(***************************************************************************)
(* What the diagnostics, the self-test, the installers and the pages of the *)
(* diagnostics UI keep, proved for every value of their constants.  A      *)
(* section for each component ends in a theorem about its own              *)
(* specification; the last section carries them over to Procedures.        *)
(***************************************************************************)
EXTENDS Procedures, TLAPS

-----------------------------------------------------------------------------
(* Diagnostics                                                             *)
(*                                                                         *)
(* A run is paid for by an assignment of the ACS, and the subprocess that  *)
(* is kept is that of the last run.                                        *)

DiagnosticInv ==
  /\ Diagnostic!TypeOK
  /\ Diagnostic!OneSubprocess /\ Diagnostic!ResultOfLastRun
  /\ subproc \in {0, runs}
  /\ runs <= inputs /\ (scheduled => runs + 1 <= inputs)

\* The types of the bounded counters, apart from the rest.
LEMMA DiagnosticNumbers ==
  ASSUME Diagnostic!DiagnosticsAssumption, DiagnosticInv
  PROVE  /\ runs \in Nat /\ inputs \in Nat /\ MaxRuns \in Nat /\ runs <= MaxRuns
         /\ inputs <= MaxRuns /\ (scheduled => runs + 1 <= inputs) /\ runs <= inputs
BY DEF Diagnostic!DiagnosticsAssumption, DiagnosticInv, Diagnostic!TypeOK

\* _EndProc: the subprocess that is kept is gone, with its handler.
LEMMA EndProcEnds ==
  ASSUME DiagnosticInv, Diagnostic!EndedProc
  PROVE  /\ alive' \subseteq alive /\ handlers' \subseteq handlers
         /\ up => alive' = {} /\ handlers' = {}
BY DEF DiagnosticInv, Diagnostic!OneSubprocess, Diagnostic!EndedProc, Diagnostic!Killed

\* Which runs the results and the waiting output of a diagnostic k may be from.
ResultsOf(k, sub, rs, res, buf) ==
  /\ k \notin {"speedtest", "traceroute"} => res \subseteq {rs}
  /\ k = "speedtest" => res \subseteq IF sub = 0 THEN {rs} ELSE {rs - 1}
  /\ k # "traceroute" => buf \subseteq {rs}

\* What the sets of runs may be.
SetsOfRuns(rs) == UNION {handlers, alive, open, failed, result, buffer} \subseteq 1..rs

LEMMA EachSetOfRuns ==
  ASSUME NEW rs
  PROVE  /\ SetsOfRuns(rs) <=> /\ handlers \subseteq 1..rs /\ alive \subseteq 1..rs
                               /\ open \subseteq 1..rs /\ failed \subseteq 1..rs
                               /\ result \subseteq 1..rs /\ buffer \subseteq 1..rs
BY DEF SetsOfRuns

LEMMA DiagnosticNext ==
  ASSUME Diagnostic!DiagnosticsAssumption, DiagnosticInv,
         [Diagnostic!Next]_Diagnostic!vars
  PROVE  DiagnosticInv'
<1>0. /\ kind \in Kinds /\ {up, requested, scheduled, host, error} \subseteq BOOLEAN
      /\ runs \in Nat /\ inputs \in Nat /\ MaxRuns \in Nat /\ runs <= MaxRuns
      /\ inputs <= MaxRuns /\ (scheduled => runs + 1 <= inputs) /\ runs <= inputs
      /\ subproc \in {0, runs}
      /\ SetsOfRuns(runs)
  BY DiagnosticNumbers DEF DiagnosticInv, Diagnostic!TypeOK, SetsOfRuns
<1>1. /\ handlers \subseteq 1..runs /\ alive \subseteq 1..runs
      /\ open \subseteq 1..runs /\ failed \subseteq 1..runs
      /\ result \subseteq 1..runs /\ buffer \subseteq 1..runs
  BY <1>0, EachSetOfRuns
<1>2. /\ up => alive \subseteq {subproc} /\ handlers = {subproc} \ {0}
      /\ ResultsOf(kind, subproc, runs, result, buffer)
  BY DEF DiagnosticInv, Diagnostic!OneSubprocess, Diagnostic!ResultOfLastRun, ResultsOf
\* It is enough to find the sets of runs one by one.
<1>3. ASSUME kind' = kind, {up', requested', scheduled', host', error'} \subseteq BOOLEAN,
             runs' \in Nat, inputs' \in Nat, inputs' <= MaxRuns,
             runs' <= inputs', scheduled' => runs' + 1 <= inputs',
             subproc' \in {0, runs'},
             handlers' \subseteq 1..runs', alive' \subseteq 1..runs',
             open' \subseteq 1..runs', failed' \subseteq 1..runs',
             result' \subseteq 1..runs', buffer' \subseteq 1..runs',
             up' => alive' \subseteq {subproc'} /\ handlers' = {subproc'} \ {0},
             ResultsOf(kind, subproc', runs', result', buffer')
      PROVE  DiagnosticInv'
  <2>1. runs' <= MaxRuns
    BY <1>0, <1>3
  <2>2. runs' \in 0..MaxRuns /\ inputs' \in 0..MaxRuns /\ subproc' \in 0..runs'
    BY <1>0, <1>3, <2>1
  <2>3. UNION {handlers', alive', open', failed', result', buffer'} \subseteq 1..runs'
    BY <1>3
  <2>4. Diagnostic!TypeOK'
    BY <1>0, <1>3, <2>2, <2>3 DEF Diagnostic!TypeOK
  <2>5. QED
    BY <1>3, <2>4 DEF DiagnosticInv, Diagnostic!OneSubprocess, Diagnostic!ResultOfLastRun, ResultsOf
<1>4. ASSUME inputs < MaxRuns, inputs' = inputs + 1,
             Diagnostic!Request \/ Diagnostic!Stop \/ Diagnostic!SetHost
      PROVE  DiagnosticInv'
  <2>1. inputs' \in Nat /\ inputs' <= MaxRuns
    BY <1>0, <1>4
  <2>2. CASE Diagnostic!Request
    <3>1. runs <= inputs' /\ runs + 1 <= inputs'
      BY <1>0, <1>4
    <3>2. QED
      BY <1>0, <1>1, <1>2, <1>3, <2>1, <2>2, <3>1 DEF Diagnostic!Request, Diagnostic!procs
  <2>3. CASE Diagnostic!SetHost
    <3>1. runs <= inputs' /\ (scheduled => runs + 1 <= inputs')
      BY <1>0, <1>4
    <3>2. QED
      BY <1>0, <1>1, <1>2, <1>3, <2>1, <2>3, <3>1 DEF Diagnostic!SetHost, Diagnostic!procs
  <2>4. CASE Diagnostic!Stop
    <3>1. runs <= inputs' /\ (scheduled => runs + 1 <= inputs')
      BY <1>0, <1>4
    <3>2. /\ alive' = {} /\ handlers' = {} /\ error' \in BOOLEAN
          /\ result' = result /\ buffer' = buffer /\ subproc' = 0 /\ kind = "iperf3"
          /\ UNCHANGED <<kind, up, scheduled, host, runs, open, failed>> /\ requested' = FALSE
      BY <1>0, <1>2, <2>4
         DEF Diagnostic!Stop, Diagnostic!EndProc, Diagnostic!EndedProc, Diagnostic!Killed,
             Diagnostic!ErrorAtEnd
    <3>3. ResultsOf(kind, subproc', runs', result', buffer')
      BY <1>2, <3>2 DEF ResultsOf
    <3>4. QED
      BY <1>0, <1>1, <1>2, <1>3, <2>1, <3>1, <3>2, <3>3
  <2>5. QED
    BY <1>4, <2>2, <2>3, <2>4
<1>5. CASE Diagnostic!StartProc
  <2>0. /\ up /\ scheduled /\ scheduled' = FALSE /\ requested' = FALSE
        /\ UNCHANGED <<kind, host, inputs>>
    BY <1>5 DEF Diagnostic!StartProc
  <2>1. CASE Diagnostic!Started(runs + 1)
    <3>1. /\ subproc' = runs + 1 /\ runs' = runs + 1
          /\ handlers' = {runs + 1} /\ alive' = {runs + 1} /\ open' = open \cup {runs + 1}
          /\ result' = (CASE kind = "speedtest" -> buffer [] kind = "traceroute" -> {}
                        [] OTHER -> {runs + 1})
          /\ buffer' = (IF kind = "traceroute" THEN buffer ELSE {})
          /\ error' = FALSE /\ UNCHANGED <<up, failed>>
      <4>1. 0 \notin handlers
        BY <1>1
      <4>2. handlers \ {subproc} = {} /\ alive \ {subproc} = {}
        BY <1>2, <2>0
      <4>3. QED
        BY <2>1, <4>2 DEF Diagnostic!Started, Diagnostic!NewResult
    <3>2. /\ 1..runs \subseteq 1..(runs + 1) /\ runs + 1 \in 1..(runs + 1) /\ runs + 1 # 0
          /\ runs + 1 \in Nat /\ runs + 1 <= inputs
      BY <1>0, <2>0
    <3>3. /\ handlers' \subseteq 1..runs' /\ alive' \subseteq 1..runs'
          /\ open' \subseteq 1..runs' /\ failed' \subseteq 1..runs'
          /\ result' \subseteq 1..runs' /\ buffer' \subseteq 1..runs'
      BY <1>1, <3>1, <3>2
    <3>4. /\ handlers' = {subproc'} \ {0} /\ alive' \subseteq {subproc'}
          /\ ResultsOf(kind, subproc', runs', result', buffer')
      <4>1. handlers' = {subproc'} \ {0} /\ alive' \subseteq {subproc'}
        BY <3>1, <3>2
      <4>2. subproc' # 0 /\ runs' - 1 = runs
        BY <1>0, <3>1, <3>2
      <4>3. kind = "speedtest" => buffer \subseteq {runs}
        BY <1>2 DEF ResultsOf
      <4>4. QED
        BY <3>1, <4>1, <4>2, <4>3 DEF ResultsOf
    <3>5. /\ runs' \in Nat /\ runs' <= inputs' /\ inputs' = inputs /\ subproc' = runs'
          /\ {up', requested', scheduled', host', error'} \subseteq BOOLEAN
          /\ kind' = kind /\ scheduled' = FALSE
      BY <1>0, <2>0, <3>1, <3>2
    <3>6. QED
      BY <1>0, <1>3, <3>3, <3>4, <3>5
  <2>2. CASE Diagnostic!NotStarted
    <3>1. alive' = {} /\ handlers' = {}
      BY <2>0, <2>2, EndProcEnds DEF Diagnostic!NotStarted
    <3>2. /\ handlers' \subseteq 1..runs' /\ alive' \subseteq 1..runs'
          /\ open' \subseteq 1..runs' /\ failed' \subseteq 1..runs'
          /\ result' \subseteq 1..runs' /\ buffer' \subseteq 1..runs'
          /\ handlers' = {subproc'} \ {0} /\ alive' \subseteq {subproc'}
          /\ ResultsOf(kind, subproc', runs', result', buffer')
      BY <1>1, <1>2, <2>2, <3>1 DEF Diagnostic!NotStarted, ResultsOf
    <3>3. /\ runs' = runs /\ subproc' = 0 /\ inputs' = inputs /\ kind' = kind
          /\ {up', requested', scheduled', host', error'} \subseteq BOOLEAN
          /\ scheduled' = FALSE
      BY <1>0, <2>0, <2>2 DEF Diagnostic!NotStarted
    <3>4. QED
      BY <1>0, <1>3, <3>2, <3>3
  <2>3. CASE Diagnostic!Exits
    <3>1. alive' = {} /\ handlers' = {}
      BY <2>0, <2>3, EndProcEnds DEF Diagnostic!Exits
    <3>2. /\ handlers' \subseteq 1..runs' /\ alive' \subseteq 1..runs'
          /\ open' \subseteq 1..runs' /\ failed' \subseteq 1..runs'
          /\ result' \subseteq 1..runs' /\ buffer' \subseteq 1..runs'
          /\ handlers' = {subproc'} \ {0} /\ alive' \subseteq {subproc'}
          /\ ResultsOf(kind, subproc', runs', result', buffer')
      BY <1>1, <1>2, <2>3, <3>1 DEF Diagnostic!Exits, ResultsOf
    <3>3. /\ runs' = runs /\ subproc' = 0 /\ inputs' = inputs /\ kind' = kind
          /\ {up', requested', scheduled', host', error'} \subseteq BOOLEAN
          /\ scheduled' = FALSE
      BY <1>0, <2>0, <2>3 DEF Diagnostic!Exits
    <3>4. QED
      BY <1>0, <1>3, <3>2, <3>3
  <2>4. QED
    BY <1>5, <2>1, <2>2, <2>3 DEF Diagnostic!StartProc
<1>6. ASSUME NEW r \in handlers, Diagnostic!GotEnd(r) PROVE DiagnosticInv'
  <2>1. /\ alive' = {} /\ handlers' = {} /\ error' \in BOOLEAN /\ subproc' = 0
        /\ result' = (IF kind = "speedtest" THEN buffer ELSE result) /\ buffer' \in {buffer, {}}
        /\ UNCHANGED <<kind, up, requested, scheduled, host, runs, open, failed, inputs>>
    <3>1. Diagnostic!EndedProc /\ up
      BY <1>6 DEF Diagnostic!GotEnd, Diagnostic!EndProc
    <3>2. alive' = {} /\ handlers' = {}
      BY <3>1, EndProcEnds
    <3>3. Diagnostic!ErrorAtEnd \in BOOLEAN
      BY <1>0 DEF Diagnostic!ErrorAtEnd
    <3>4. QED
      BY <1>6, <3>2, <3>3 DEF Diagnostic!GotEnd, Diagnostic!EndProc
  <2>2. ResultsOf(kind, subproc', runs', result', buffer')
    BY <1>2, <2>1 DEF ResultsOf
  <2>3. QED
    BY <1>0, <1>1, <1>2, <1>3, <2>1, <2>2
<1>7. ASSUME NEW r \in handlers, NEW line \in BOOLEAN, Diagnostic!GotData(r, line)
      PROVE  DiagnosticInv'
  <2>1. r \in 1..runs /\ r = runs
    BY <1>0, <1>1, <1>2, <1>7 DEF Diagnostic!GotData
  <2>2. /\ result' \subseteq result \cup buffer \cup {r} /\ buffer' \subseteq buffer \cup {r}
        /\ error' \in BOOLEAN
        /\ UNCHANGED <<kind, up, requested, scheduled, host, subproc, handlers, runs, inputs>>
        /\ UNCHANGED <<alive, open, failed>>
    BY <1>0, <1>7 DEF Diagnostic!GotData, Diagnostic!procs
  <2>3. /\ kind = "speedtest" => result' = result
        /\ kind \notin {"speedtest", "traceroute"} => result' = result \cup {r}
    BY <1>7 DEF Diagnostic!GotData
  <2>4. ResultsOf(kind, subproc', runs', result', buffer')
    BY <1>2, <2>1, <2>2, <2>3 DEF ResultsOf
  <2>5. QED
    BY <1>0, <1>1, <1>2, <1>3, <2>1, <2>2, <2>4
<1>8. CASE Diagnostic!Subprocess
  <2>1. PICK r \in alive : Diagnostic!CloseOutput(r) \/ Diagnostic!Exit(r)
    BY <1>8 DEF Diagnostic!Subprocess
  <2>2. /\ alive' \subseteq alive /\ open' \subseteq open /\ failed' \subseteq failed \cup {r}
        /\ UNCHANGED <<kind, up, inputs>> /\ UNCHANGED Diagnostic!ours
    BY <2>1 DEF Diagnostic!CloseOutput, Diagnostic!Exit
  <2>3. QED
    BY <1>0, <1>1, <1>2, <1>3, <2>1, <2>2 DEF Diagnostic!ours
<1>9. CASE UNCHANGED Diagnostic!vars
  BY <1>0, <1>1, <1>2, <1>3, <1>9
     DEF Diagnostic!vars, Diagnostic!ours, Diagnostic!procs
<1>10. QED
  BY <1>4, <1>5, <1>6, <1>7, <1>8, <1>9 DEF Diagnostic!Next

\* For any diagnostics and any number of requests, stops, exits and ends of output, one
\* subprocess at most is alive while catawampus runs, the one that is kept, and what is
\* shown as the result is output of the last run alone, except that Speedtest shows what
\* the run before had printed until the new run ends.
THEOREM DiagnosticSafe ==
  ASSUME Diagnostic!DiagnosticsAssumption
  PROVE  Diagnostic!Spec =>
           [](Diagnostic!TypeOK /\ Diagnostic!OneSubprocess /\ Diagnostic!ResultOfLastRun)
<1>1. Diagnostic!Init => DiagnosticInv
  <2>1. 0 \in 0..MaxRuns /\ 0 \in 0..0 /\ 0 <= 0
    BY DEF Diagnostic!DiagnosticsAssumption
  <2>2. ASSUME Diagnostic!Init PROVE DiagnosticInv
    BY <2>1, <2>2
       DEF Diagnostic!Init, DiagnosticInv, Diagnostic!TypeOK, Diagnostic!OneSubprocess,
           Diagnostic!ResultOfLastRun
  <2>3. QED
    BY <2>2
<1>2. DiagnosticInv /\ [Diagnostic!Next]_Diagnostic!vars => DiagnosticInv'
  BY DiagnosticNext
<1>3. QED
  BY <1>1, <1>2, PTL DEF DiagnosticInv, Diagnostic!Spec

-----------------------------------------------------------------------------
(* SelfTest *)

TestInv == Test!TypeOK /\ Test!ModeTellsTest

LEMMA TestNext ==
  ASSUME TestInv, [Test!Next]_Test!vars
  PROVE  TestInv'
<1> USE DEF TestInv, Test!TypeOK, Test!ModeTellsTest, Test!Tests, Test!Modes
<1>0. 0 \in 0..2 /\ 1 \in 0..2 /\ 2 \in 0..2
  OBVIOUS
<1>1. CASE Test!AcsSetsParameter
  BY <1>1 DEF Test!AcsSetsParameter
<1>2. ASSUME NEW value \in Test!Modes, Test!AcsSetsMode(value) PROVE TestInv'
  BY <1>2 DEF Test!AcsSetsMode, Test!SetMode, Test!settings
<1>3. CASE Test!TriggeredStops
  <2>1. /\ output' = 0 /\ proc' = "None" /\ Mode' = "None" /\ LastResult' = "killed"
        /\ endless' = FALSE /\ triggered' = (Mode' # Mode)
        /\ UNCHANGED <<ServerIP, AutoRestartEnable>>
    BY <1>3 DEF Test!TriggeredStops, Test!Finish, Test!settings
  <2>2. triggered' \in BOOLEAN
    BY <2>1
  <2>3. QED
    BY <1>0, <2>1, <2>2
<1>4. CASE Test!TriggeredStarts
  <2>1. /\ UNCHANGED <<Mode, ServerIP, AutoRestartEnable, LastResult>> /\ triggered' = FALSE
        /\ proc' = (IF Mode \in Test!Tests THEN Mode ELSE "None")
    BY <1>4 DEF Test!TriggeredStarts, Test!settings
  <2>2. output' \in 0..2
    BY <1>0, <1>4 DEF Test!TriggeredStarts
  <2>3. endless' \in BOOLEAN
    BY <1>4 DEF Test!TriggeredStarts, Test!Endless
  <2>4. QED
    BY <2>1, <2>2, <2>3
<1>5. CASE Test!OutputEnds
  <2>1. CASE output = 2
    BY <1>0, <1>5, <2>1 DEF Test!OutputEnds, Test!settings
  <2>2. CASE output # 2
    <3>1. /\ output' = 0 /\ proc' = "None" /\ Mode' = "None"
          /\ LastResult' \in {"ok", "failed"}
          /\ triggered' = (triggered \/ Mode' # Mode) /\ endless' = FALSE
          /\ UNCHANGED <<ServerIP, AutoRestartEnable>>
      BY <1>5, <2>2 DEF Test!OutputEnds, Test!Finish, Test!settings
    <3>2. QED
      BY <1>0, <3>1
  <2>3. QED
    BY <2>1, <2>2
<1>6. CASE UNCHANGED Test!vars
  BY <1>6 DEF Test!vars, Test!settings
<1>7. QED
  BY <1>1, <1>2, <1>3, <1>4, <1>5, <1>6 DEF Test!Next

\* With nothing pending, Mode and the test that runs are the same, in whatever order the
\* ACS assigns modes, tests end and are killed.
THEOREM TestSafe == Test!Spec => [](Test!TypeOK /\ Test!ModeTellsTest)
<1>0. 0 \in 0..2
  OBVIOUS
<1>1. Test!Init => TestInv
  BY <1>0 DEF Test!Init, TestInv, Test!TypeOK, Test!ModeTellsTest, Test!Tests, Test!Modes
<1>2. TestInv /\ [Test!Next]_Test!vars => TestInv'
  BY TestNext
<1>3. QED
  BY <1>1, <1>2, PTL DEF TestInv, Test!Spec

-----------------------------------------------------------------------------
(* Installers *)

LEMMA SupportedIsBoolean == ASSUME NEW type PROVE Install!Supported(type) \in BOOLEAN
BY DEF Install!Supported

LEMMA InstallNext ==
  ASSUME Install!InstallersAssumption, Install!TypeOK, [Install!Next]_Install!vars
  PROVE  Install!TypeOK'
<1>0. downloads \in 0..MaxInstalls /\ MaxInstalls \in Nat
  BY DEF Install!InstallersAssumption, Install!TypeOK
<1>1. ASSUME downloads < MaxInstalls PROVE downloads + 1 \in 0..MaxInstalls
  BY <1>0, <1>1
<1> USE DEF Install!TypeOK, Install!Ends
<1>2. ASSUME NEW type \in FileTypes, Install!Install(type) PROVE Install!TypeOK'
  <2>1. downloads' \in 0..MaxInstalls
    BY <1>1, <1>2 DEF Install!Install
  <2>2. /\ phase' \in {"crashed", "installing"} /\ fault' = fault /\ fileType' = type
        /\ platform' = platform
    BY <1>2 DEF Install!Install
  <2>5. install_cb' \in BOOLEAN
    <3>1. Install!Supported(type) \in BOOLEAN
      BY SupportedIsBoolean
    <3>2. install_cb' \in {install_cb, Install!Supported(type)}
      BY <1>2 DEF Install!Install
    <3>3. QED
      BY <3>1, <3>2
  <2>3. ginstall' \in {ginstall, "running"} /\ {stdout', handler'} \subseteq BOOLEAN
    BY <1>2 DEF Install!Install, Install!Supported
  <2>4. QED
    BY <2>1, <2>2, <2>3, <2>5
<1>3. ASSUME NEW type \in FileTypes, Install!InstallNotStarted(type) PROVE Install!TypeOK'
  BY <1>1, <1>3 DEF Install!InstallNotStarted
<1>4. CASE Install!OnStdout
  BY <1>4 DEF Install!OnStdout, Install!CallCallback
<1>5. CASE Install!CloseOutput \/ Install!Exit
  BY <1>5 DEF Install!CloseOutput, Install!Exit
<1>6. CASE Install!NextDownload
  BY <1>6 DEF Install!NextDownload
<1>7. CASE UNCHANGED Install!vars
  BY <1>7 DEF Install!vars
<1>8. QED
  BY <1>2, <1>3, <1>4, <1>5, <1>6, <1>7 DEF Install!Next

LEMMA InstallTyped ==
  ASSUME Install!InstallersAssumption
  PROVE  Install!Spec => []Install!TypeOK
<1>1. Install!Init => Install!TypeOK
  <2>1. 0 \in 0..MaxInstalls
    BY DEF Install!InstallersAssumption
  <2>2. QED
    BY <2>1 DEF Install!Init, Install!TypeOK
<1>2. Install!TypeOK /\ [Install!Next]_Install!vars => Install!TypeOK'
  BY InstallNext
<1>3. QED
  BY <1>1, <1>2, PTL DEF Install!Spec

-----------------------------------------------------------------------------
(* DiagUi                                                                  *)
(*                                                                         *)
(* A page that waits gave the checksum of all notified parts as they are:  *)
(* an update that is not sent to it has changed none of them, or has made  *)
(* them what the page had.                                                 *)

Values == 0..(MaxBoxes + MaxUpdates)

\* The data of an interface, and what was sent of it.
UiData(face) == [Ui!Parts(face) -> Values]

UiInv ==
  /\ Ui!TypeOK
  /\ world \in [Ui!TechParts \cup {"diag"} -> Values] /\ world["hosts"] \in 0..MaxBoxes
  /\ DOMAIN data = Ui!Uis /\ data["tech"]["hosts"] \in 0..MaxBoxes
  /\ DOMAIN asked = Ui!Pages /\ DOMAIN shown = Ui!Pages
  /\ Ui!WaitingHasLatest

\* A page shows one of the two interfaces.
LEMMA UiOfPage ==
  ASSUME Ui!DiagUiAssumption, NEW p \in Ui!Pages
  PROVE  /\ p \in TechPages => Ui!Ui(p) = "tech"
         /\ p \in DiagPages => Ui!Ui(p) = "diag"
         /\ p \in TechPages \/ p \in DiagPages
BY DEF Ui!DiagUiAssumption, Ui!Pages, Ui!Ui

\* What is read again is data.
LEMMA RereadTyped ==
  ASSUME UiInv, NEW face \in Ui!Uis, NEW d \in UiData(face), NEW parts
  PROVE  /\ Ui!Reread(d, parts) \in UiData(face)
         /\ \A q \in Ui!Parts(face) : Ui!Reread(d, parts)[q] = IF q \in parts THEN world[q] ELSE d[q]
BY DEF UiInv, UiData, Ui!Reread, Ui!Parts, Ui!Uis, Ui!TechParts

LEMMA DataTyped ==
  ASSUME UiInv, NEW face \in Ui!Uis
  PROVE  data[face] \in UiData(face)
BY DEF UiInv, Ui!TypeOK, UiData, Values

\* A page to which one update was not sent: it changed nothing, or made the data what the
\* page had.
LEMMA NotSentOne ==
  ASSUME NEW p, NEW old, NEW new, Ui!Answering(p, <<old, new>>) = {}
  PROVE  new = old \/ new = asked[p]
<1>1. Len(<<old, new>>) = 2 /\ <<old, new>>[1] = old /\ <<old, new>>[2] = new /\ 2 - 1 = 1
  OBVIOUS
<1>2. ~Ui!Sends(p, old, new)
  <2>1. SUFFICES ASSUME Ui!Sends(p, old, new) PROVE 2 \in Ui!Answering(p, <<old, new>>)
    OBVIOUS
  <2>2. 2..(2 - 1) = {} /\ 2 \in 2..2
    OBVIOUS
  <2>3. QED
    BY <1>1, <2>1, <2>2 DEF Ui!Answering
<1>3. QED
  BY <1>2 DEF Ui!Sends

\* A page to which none of three updates was sent: they changed nothing, or made the data
\* what the page had.
LEMMA NotSentThree ==
  ASSUME NEW p, NEW v1, NEW v2, NEW v3, NEW v4,
         Ui!Answering(p, <<v1, v2, v3, v4>>) = {}
  PROVE  v4 = asked[p] \/ v4 = v1
<1> DEFINE v == <<v1, v2, v3, v4>>
<1>1. /\ Len(v) = 4 /\ v[1] = v1 /\ v[2] = v2 /\ v[3] = v3 /\ v[4] = v4
      /\ 2 - 1 = 1 /\ 3 - 1 = 2 /\ 4 - 1 = 3
  OBVIOUS
<1>2. ASSUME NEW i \in {2, 3, 4}, \A j \in 2..(i - 1) : ~Ui!Sends(p, v[j - 1], v[j])
      PROVE  ~Ui!Sends(p, v[i - 1], v[i])
  <2>1. SUFFICES ASSUME Ui!Sends(p, v[i - 1], v[i]) PROVE i \in Ui!Answering(p, v)
    OBVIOUS
  <2>2. i \in 2..Len(v)
    BY <1>1
  <2>3. QED
    BY <1>2, <2>1, <2>2 DEF Ui!Answering
<1> HIDE DEF v
<1>3. ~Ui!Sends(p, v1, v2)
  <2>1. 2..(2 - 1) = {}
    OBVIOUS
  <2>2. ~Ui!Sends(p, v[2 - 1], v[2])
    BY <1>2, <2>1
  <2>3. QED
    BY <1>1, <2>2
<1>4. ~Ui!Sends(p, v2, v3)
  <2>1. 2..(3 - 1) = {2}
    OBVIOUS
  <2>2. ~Ui!Sends(p, v[3 - 1], v[3])
    BY <1>1, <1>2, <1>3, <2>1
  <2>3. QED
    BY <1>1, <2>2
<1>5. ~Ui!Sends(p, v3, v4)
  <2>1. 2..(4 - 1) = {2, 3}
    OBVIOUS
  <2>2. ~Ui!Sends(p, v[4 - 1], v[4])
    BY <1>1, <1>2, <1>3, <1>4, <2>1
  <2>3. QED
    BY <1>1, <2>2
<1>6. QED
  BY <1>3, <1>4, <1>5 DEF Ui!Sends

LEMMA NothingHasNoChecksum ==
  ASSUME Ui!DiagUiAssumption, NEW face \in Ui!Uis, NEW d \in UiData(face)
  PROVE  d # Ui!NoChecksum(face)
<1>1. PICK q \in Ui!Parts(face) : TRUE
  BY DEF Ui!Parts, Ui!TechParts
<1>2. d[q] <= MaxBoxes + MaxUpdates
  BY DEF UiData, Values
<1>3. Ui!NoChecksum(face)[q] = MaxBoxes + MaxUpdates + 1
  BY DEF Ui!NoChecksum
<1>4. MaxBoxes + MaxUpdates \in Nat /\ d[q] \in Nat
  BY DEF Ui!DiagUiAssumption, UiData, Values
<1>5. QED
  BY <1>2, <1>3, <1>4

\* The parts of an interface that are all notified when they change.
Notified(face) == Ui!Parts(face) \ {"hosts", "onu"}

\* An update makes the data of an interface new: the pages of the other one are as they
\* were, and those of this one that still wait have what is new.
UiUpdates(face, new) ==
  /\ UNCHANGED <<world, gather, outstanding, updates>>
  /\ new \in UiData(face) /\ (face = "tech" => new["hosts"] \in 0..MaxBoxes)
  /\ data' = [data EXCEPT ![face] = new]
  /\ callbacklist' \subseteq Ui!Pages
  /\ DOMAIN asked' = Ui!Pages /\ DOMAIN shown' = Ui!Pages
  /\ \A p \in callbacklist' :
       /\ Ui!Ui(p) # face => p \in callbacklist /\ asked'[p] = asked[p]
       /\ Ui!Ui(p) = face /\ Ui!Told(p) => \A q \in Notified(face) : asked'[p][q] = new[q]

LEMMA UiStep ==
  ASSUME UiInv, Ui!DiagUiAssumption, NEW face \in Ui!Uis, NEW new, UiUpdates(face, new)
  PROVE  UiInv'
<1> USE DEF UiUpdates
<1>1. data' \in [Ui!Uis -> {data[u] : u \in Ui!Uis} \cup {new}]
  BY DEF UiInv
<1>2. \A u \in Ui!Uis : data'[u] = IF u = face THEN new ELSE data[u]
  BY DEF UiInv
<1>3. \A u \in Ui!Uis : data'[u] \in [Ui!Parts(u) -> 0..(MaxBoxes + MaxUpdates)]
  BY <1>2, DataTyped DEF UiData, Values
<1>4. Ui!TypeOK'
  BY <1>3 DEF UiInv, Ui!TypeOK
<1>5. data'["tech"]["hosts"] \in 0..MaxBoxes
  BY <1>2 DEF UiInv, Ui!Uis
<1>6. ASSUME NEW p \in callbacklist', Ui!Told(p), NEW q \in Notified(Ui!Ui(p))
      PROVE  asked'[p][q] = data'[Ui!Ui(p)][q]
  <2>1. Ui!Ui(p) \in Ui!Uis
    BY DEF Ui!Ui, Ui!Uis
  <2>2. CASE Ui!Ui(p) = face
    BY <1>2, <1>6, <2>1, <2>2
  <2>3. CASE Ui!Ui(p) # face
    <3>1. p \in callbacklist /\ asked'[p] = asked[p] /\ data'[Ui!Ui(p)] = data[Ui!Ui(p)]
      BY <1>2, <1>6, <2>1, <2>3
    <3>2. QED
      BY <1>6, <3>1 DEF UiInv, Ui!WaitingHasLatest, Notified
  <2>4. QED
    BY <2>2, <2>3
<1>7. Ui!WaitingHasLatest'
  BY <1>6 DEF Ui!WaitingHasLatest, Notified
<1>8. QED
  BY <1>1, <1>4, <1>5, <1>7 DEF UiInv

LEMMA UiNext ==
  ASSUME Ui!DiagUiAssumption, UiInv, [Ui!Next]_Ui!vars
  PROVE  UiInv'
<1>0. MaxBoxes \in Nat /\ MaxUpdates \in Nat
  BY DEF Ui!DiagUiAssumption
<1>1. ASSUME NEW q \in DOMAIN world, NEW v \in 0..(IF q = "hosts" THEN MaxBoxes ELSE MaxUpdates),
             Ui!WorldChanges(q, v)
      PROVE  UiInv'
  <2>1. v \in Values /\ (q = "hosts" => v \in 0..MaxBoxes)
    BY <1>0 DEF Values
  <2>2. world' \in [Ui!TechParts \cup {"diag"} -> Values] /\ world'["hosts"] \in 0..MaxBoxes
    BY <1>1, <2>1 DEF UiInv, Ui!WorldChanges, Ui!TechParts
  <2>3. UNCHANGED <<data, callbacklist, asked, shown, gather, outstanding>>
    BY <1>1 DEF Ui!WorldChanges
  <2>4. QED
    BY <2>2, <2>3 DEF UiInv, Ui!TypeOK, Ui!WaitingHasLatest
<1>2. ASSUME NEW q \in Ui!TechParts, Ui!UpdatePart(q) PROVE UiInv'
  <2> DEFINE old == data["tech"]
             new == Ui!Reread(old, {q})
  <2>1. /\ q \in {"moca", "wifi", "aps"}
        /\ data' = [data EXCEPT !["tech"] = new] /\ Ui!Notify("tech", <<old, new>>)
        /\ UNCHANGED <<world, asked, gather, outstanding, updates>>
    BY <1>2 DEF Ui!UpdatePart
  <2>2. "tech" \in Ui!Uis /\ Ui!Parts("tech") = Ui!TechParts /\ "hosts" \in Ui!TechParts
    BY DEF Ui!Uis, Ui!Parts, Ui!TechParts
  <2>3. old \in UiData("tech")
    BY <2>2, DataTyped
  <2>4. new \in UiData("tech") /\ new["hosts"] = old["hosts"]
    BY <2>1, <2>2, <2>3, RereadTyped
  <2>5. /\ callbacklist' = callbacklist \ {p \in callbacklist : Ui!Ui(p) = "tech"
                                             /\ Ui!Answering(p, <<old, new>>) # {}}
        /\ DOMAIN shown' = Ui!Pages
    BY <2>1 DEF Ui!Notify
  <2>6. ASSUME NEW p \in callbacklist', Ui!Ui(p) = "tech"
        PROVE  Ui!Told(p) => \A x \in Notified("tech") : asked'[p][x] = new[x]
    <3>1. p \in callbacklist /\ Ui!Answering(p, <<old, new>>) = {}
      BY <2>5, <2>6
    <3>2. new = old \/ new = asked[p]
      BY <3>1, NotSentOne
    <3>3. QED
      BY <2>1, <2>6, <3>1, <3>2 DEF UiInv, Ui!WaitingHasLatest, Notified
  <2>7. callbacklist' \subseteq Ui!Pages
    BY <2>5 DEF UiInv, Ui!TypeOK
  <2>8. \A p \in callbacklist' : Ui!Ui(p) # "tech" => p \in callbacklist /\ asked'[p] = asked[p]
    BY <2>1, <2>5
  <2>9. new["hosts"] \in 0..MaxBoxes /\ DOMAIN asked' = Ui!Pages
    BY <2>1, <2>4 DEF UiInv
  <2> HIDE DEF new, old
  <2>10. UiUpdates("tech", new)
    BY <2>1, <2>2, <2>4, <2>5, <2>6, <2>7, <2>8, <2>9 DEF UiUpdates
  <2> QED
    BY <2>10, <2>2, UiStep
<1>3. CASE Ui!AlertNotifiers
  <2> DEFINE new == Ui!Reread(data["diag"], {"diag"})
             none == Ui!NoChecksum("diag")
  <2>1. /\ data' = [data EXCEPT !["diag"] = new] /\ Ui!Notify("diag", <<none, new>>)
        /\ UNCHANGED <<world, asked, gather, outstanding, updates>>
    BY <1>3 DEF Ui!AlertNotifiers
  <2>2. "diag" \in Ui!Uis /\ "diag" # "tech"
    BY DEF Ui!Uis
  <2>3. new \in UiData("diag")
    BY <2>2, DataTyped, RereadTyped
  <2>4. new # none
    BY <2>2, <2>3, NothingHasNoChecksum
  <2>5. /\ callbacklist' = callbacklist \ {p \in callbacklist : Ui!Ui(p) = "diag"
                                             /\ Ui!Answering(p, <<none, new>>) # {}}
        /\ DOMAIN shown' = Ui!Pages
    BY <2>1 DEF Ui!Notify
  <2>6. ASSUME NEW p \in callbacklist', Ui!Ui(p) = "diag"
        PROVE  \A x \in Notified("diag") : asked'[p][x] = new[x]
    <3>1. p \in callbacklist /\ Ui!Answering(p, <<none, new>>) = {}
      BY <2>5, <2>6
    <3>2. new = asked[p]
      BY <2>4, <3>1, NotSentOne
    <3>3. QED
      BY <2>1, <3>2
  <2>7. callbacklist' \subseteq Ui!Pages
    BY <2>5 DEF UiInv, Ui!TypeOK
  <2>8. \A p \in callbacklist' : Ui!Ui(p) # "diag" => p \in callbacklist /\ asked'[p] = asked[p]
    BY <2>1, <2>5
  <2>9. DOMAIN asked' = Ui!Pages
    BY <2>1 DEF UiInv
  <2> HIDE DEF new, none
  <2>10. UiUpdates("diag", new)
    BY <2>1, <2>2, <2>3, <2>5, <2>6, <2>7, <2>8, <2>9 DEF UiUpdates
  <2> QED
    BY <2>10, <2>2, UiStep
<1>4. ASSUME NEW p \in Ui!Pages, Ui!GetDiagUI(p) PROVE UiInv'
  <2> DEFINE new == Ui!Reread(data["diag"], {"diag"})
  <2>1. /\ p \in DiagPages \ callbacklist
        /\ data' = [data EXCEPT !["diag"] = new] /\ Ui!Answer(p, new)
        /\ UNCHANGED <<world, gather, outstanding, updates>>
    BY <1>4 DEF Ui!GetDiagUI
  <2>2. "diag" \in Ui!Uis /\ "diag" # "tech" /\ Ui!Ui(p) = "diag"
    BY <2>1, UiOfPage DEF Ui!Uis
  <2>3. new \in UiData("diag")
    BY <2>2, DataTyped, RereadTyped
  <2>4. /\ asked' = [asked EXCEPT ![p] = shown[p]]
        /\ callbacklist' = (IF new = shown[p] THEN callbacklist \cup {p} ELSE callbacklist)
        /\ DOMAIN shown' = DOMAIN shown
    BY <2>1 DEF Ui!Answer
  <2>5. /\ DOMAIN asked' = Ui!Pages /\ DOMAIN shown' = Ui!Pages
        /\ asked'[p] = shown[p] /\ \A o \in Ui!Pages \ {p} : asked'[o] = asked[o]
    BY <2>4 DEF UiInv
  <2>6. callbacklist' \subseteq Ui!Pages /\ callbacklist \subseteq Ui!Pages
    BY <2>4 DEF UiInv, Ui!TypeOK
  <2>7. ASSUME NEW o \in callbacklist', Ui!Ui(o) = "diag", Ui!Told(o)
        PROVE  \A x \in Notified("diag") : asked'[o][x] = new[x]
    <3>1. CASE o = p
      BY <2>1, <2>4, <2>5, <2>7, <3>1
    <3>2. CASE o # p
      <4>1. o \in Ui!Pages /\ o \notin TechPages
        BY <2>2, <2>6, <2>7, UiOfPage
      <4>2. QED
        BY <2>1, <2>7, <3>2, <4>1 DEF Ui!Told
    <3>3. QED
      BY <3>1, <3>2
  <2>8. \A o \in callbacklist' : Ui!Ui(o) # "diag" => o \in callbacklist /\ asked'[o] = asked[o]
    BY <2>2, <2>4, <2>5, <2>6
  <2> HIDE DEF new
  <2>9. UiUpdates("diag", new)
    BY <2>1, <2>2, <2>3, <2>5, <2>6, <2>7, <2>8 DEF UiUpdates
  <2> QED
    BY <2>9, <2>2, UiStep
<1>5. ASSUME NEW p \in Ui!Pages, Ui!GetTechUI(p) PROVE UiInv'
  <2> DEFINE v1 == Ui!Reread(data["tech"], {"hosts"})
             v2 == Ui!Reread(v1, {"moca"})
             v3 == Ui!Reread(v2, {"wifi"})
             v4 == Ui!Reread(v3, {"aps"})
             new == Ui!UpdateOnuStats(v4)
             sent == {o \in callbacklist \cap TechPages :
                        Ui!Answering(o, <<v1, v2, v3, v4>>) # {}}
  <2>1. /\ p \in TechPages \ callbacklist
        /\ data' = [data EXCEPT !["tech"] = new]
        /\ asked' = [asked EXCEPT ![p] = shown[p]]
        /\ DOMAIN shown' = Ui!Pages
        /\ callbacklist' = (callbacklist \ sent) \cup IF v4 = shown[p] THEN {p} ELSE {}
        /\ UNCHANGED <<world, gather, outstanding, updates>>
    BY <1>5 DEF Ui!GetTechUI
  <2>2. /\ "tech" \in Ui!Uis /\ Ui!Ui(p) = "tech"
        /\ Ui!Parts("tech") = {"hosts", "moca", "wifi", "aps", "onu"}
    BY <2>1, UiOfPage DEF Ui!Uis, Ui!Parts, Ui!TechParts
  <2>3. data["tech"] \in UiData("tech")
    BY <2>2, DataTyped
  <2>4. v1 \in UiData("tech") /\ v2 \in UiData("tech") /\ v3 \in UiData("tech")
        /\ v4 \in UiData("tech") /\ new \in UiData("tech")
    BY <2>2, <2>3, RereadTyped DEF Ui!UpdateOnuStats
  <2>5. new["hosts"] \in 0..MaxBoxes /\ \A q \in Notified("tech") : new[q] = v4[q]
    <3>1. /\ v1["hosts"] = world["hosts"] /\ v2["hosts"] = v1["hosts"]
          /\ v3["hosts"] = v2["hosts"] /\ v4["hosts"] = v3["hosts"]
          /\ new["hosts"] = v4["hosts"]
      BY <2>2, <2>3, <2>4, RereadTyped DEF Ui!UpdateOnuStats
    <3>2. \A q \in Ui!Parts("tech") \ {"onu"} : new[q] = v4[q]
      BY <2>2, <2>4, RereadTyped DEF Ui!UpdateOnuStats
    <3>3. QED
      BY <3>1, <3>2 DEF UiInv, Notified
  <2>6. \A q \in Notified("tech") : v1[q] = data["tech"][q]
    BY <2>2, <2>3, RereadTyped DEF Notified
  <2> HIDE DEF v1, v2, v3, v4, new
  <2>7. /\ DOMAIN asked' = Ui!Pages
        /\ asked'[p] = shown[p] /\ \A o \in Ui!Pages \ {p} : asked'[o] = asked[o]
    BY <2>1 DEF UiInv
  <2>8. callbacklist' \subseteq Ui!Pages /\ callbacklist \subseteq Ui!Pages
    BY <2>1 DEF UiInv, Ui!TypeOK
  <2>9. ASSUME NEW o \in callbacklist', Ui!Ui(o) = "tech"
        PROVE  \A q \in Notified("tech") : asked'[o][q] = new[q]
    <3>1. CASE o = p
      <4>1. v4 = shown[p]
        BY <2>1, <3>1
      <4>2. QED
        BY <2>5, <2>7, <3>1, <4>1
    <3>2. CASE o # p
      <4>1. o \in callbacklist /\ o \notin sent /\ o \in Ui!Pages
        BY <2>1, <2>8, <3>2
      <4>2. o \in TechPages /\ asked'[o] = asked[o] /\ Ui!Told(o)
        <5>1. o \in TechPages
          BY <2>9, <4>1, UiOfPage
        <5>2. QED
          BY <2>7, <3>2, <4>1, <5>1 DEF Ui!Told
      <4>3. v4 = asked[o] \/ v4 = v1
        <5>1. Ui!Answering(o, <<v1, v2, v3, v4>>) = {}
          BY <4>1, <4>2
        <5>2. QED
          BY <5>1, NotSentThree
      <4>4. \A q \in Notified("tech") : asked[o][q] = data["tech"][q]
        BY <2>9, <4>1, <4>2 DEF UiInv, Ui!WaitingHasLatest, Notified
      <4>5. QED
        BY <2>5, <2>6, <4>2, <4>3, <4>4
    <3>3. QED
      BY <3>1, <3>2
  <2>10. \A o \in callbacklist' : Ui!Ui(o) # "tech" => o \in callbacklist /\ asked'[o] = asked[o]
    BY <2>1, <2>2, <2>7, <2>8
  <2> HIDE DEF sent
  <2>11. UiUpdates("tech", new)
    BY <2>1, <2>2, <2>4, <2>5, <2>7, <2>8, <2>9, <2>10 DEF UiUpdates
  <2> QED
    BY <2>11, <2>2, UiStep
<1>6. ASSUME NEW p \in Ui!Pages, Ui!Deadline(p) \/ Ui!ConnectionClose(p) PROVE UiInv'
  <2>1. /\ callbacklist' = callbacklist \ {p} /\ DOMAIN shown' = DOMAIN shown
        /\ UNCHANGED <<world, data, asked, gather, outstanding, updates>>
    BY <1>6 DEF Ui!Deadline, Ui!ConnectionClose
  <2>2. QED
    BY <2>1 DEF UiInv, Ui!TypeOK, Ui!WaitingHasLatest
<1>7. ASSUME Ui!AskBoxes \/ Ui!BoxAnswers \/ Ui!GatherClosed PROVE UiInv'
  <2>1. UNCHANGED <<world, data, callbacklist, asked, shown>>
    BY <1>7 DEF Ui!AskBoxes, Ui!BoxAnswers, Ui!GatherClosed
  <2>2. outstanding \in 0..MaxBoxes /\ data["tech"]["hosts"] \in 0..MaxBoxes
        /\ gather \in {"idle", "open", "closed"}
    BY DEF UiInv, Ui!TypeOK
  <2>3. outstanding' \in 0..MaxBoxes
    BY <1>0, <1>7, <2>2 DEF Ui!AskBoxes, Ui!BoxAnswers, Ui!GatherClosed, Ui!FindTVBoxes
  <2>4. gather' \in {"idle", "open", "closed"}
    BY <1>7, <2>2 DEF Ui!AskBoxes, Ui!BoxAnswers, Ui!GatherClosed
  <2>5. QED
    BY <2>1, <2>3, <2>4 DEF UiInv, Ui!TypeOK, Ui!WaitingHasLatest
<1>8. CASE UNCHANGED Ui!vars
  BY <1>8 DEF Ui!vars, UiInv, Ui!TypeOK, Ui!WaitingHasLatest
<1>9. QED
  BY <1>1, <1>2, <1>3, <1>4, <1>5, <1>6, <1>7, <1>8 DEF Ui!Next

\* For any pages, parts that change and TV boxes, a page that waits for a change has been
\* sent every notified one, whatever the requests of other pages update in between.
THEOREM UiSafe ==
  ASSUME Ui!DiagUiAssumption
  PROVE  Ui!Spec => [](Ui!TypeOK /\ Ui!WaitingHasLatest)
<1>1. Ui!Init => UiInv
  <2> SUFFICES ASSUME Ui!Init PROVE UiInv
    OBVIOUS
  <2>1. 0 \in Values /\ 0 \in 0..MaxBoxes
    BY DEF Ui!DiagUiAssumption, Values
  <2>2. world \in [Ui!TechParts \cup {"diag"} -> Values] /\ world["hosts"] = 0
    BY <2>1 DEF Ui!Init, Ui!TechParts
  <2>3. /\ DOMAIN data = Ui!Uis /\ \A face \in Ui!Uis : data[face] = [q \in Ui!Parts(face) |-> 0]
    BY DEF Ui!Init, Ui!NothingRead
  <2>4. data["tech"]["hosts"] = 0
    BY <2>3 DEF Ui!Uis, Ui!Parts, Ui!TechParts
  <2>5. \A face \in Ui!Uis : data[face] \in [Ui!Parts(face) -> 0..(MaxBoxes + MaxUpdates)]
    BY <2>1, <2>3 DEF Values
  <2>6. DOMAIN asked = Ui!Pages /\ DOMAIN shown = Ui!Pages /\ callbacklist = {}
        /\ gather = "idle" /\ outstanding = 0
    BY DEF Ui!Init
  <2>7. QED
    BY <2>1, <2>2, <2>3, <2>4, <2>5, <2>6 DEF UiInv, Ui!TypeOK, Ui!WaitingHasLatest
<1>2. UiInv /\ [Ui!Next]_Ui!vars => UiInv'
  BY UiNext
<1>3. QED
  BY <1>1, <1>2, PTL DEF UiInv, Ui!Spec

-----------------------------------------------------------------------------
(* Procedures *)

\* Every behaviour of the composition is, for the variables of a component, one of that
\* component.
LEMMA DiagnosticRuns == Spec => Diagnostic!Spec
<1>1. Init => Diagnostic!Init
  BY Zenon DEF Init
<1>2. [Next]_vars => [Diagnostic!Next]_Diagnostic!vars
  <2>1. [Next]_vars => [Diagnostic!Next]_diagnostic
    BY Zenon DEF Next, vars
  <2>2. UNCHANGED diagnostic => UNCHANGED Diagnostic!vars
    BY DEF diagnostic, Diagnostic!vars, Diagnostic!ours, Diagnostic!procs
  <2>3. QED
    BY <2>1, <2>2
<1>3. QED
  BY <1>1, <1>2, PTL DEF Spec, Diagnostic!Spec

LEMMA TestRuns == Spec => Test!Spec
<1>1. Init => Test!Init
  BY Zenon DEF Init
<1>2. [Next]_vars => [Test!Next]_Test!vars
  <2>1. [Next]_vars => [Test!Next]_test
    BY Zenon DEF Next, vars
  <2>2. UNCHANGED test => UNCHANGED Test!vars
    BY DEF test, Test!vars, Test!settings
  <2>3. QED
    BY <2>1, <2>2
<1>3. QED
  BY <1>1, <1>2, PTL DEF Spec, Test!Spec

LEMMA InstallRuns == Spec => Install!Spec
<1>1. Init => Install!Init
  BY Zenon DEF Init
<1>2. [Next]_vars => [Install!Next]_Install!vars
  <2>1. [Next]_vars => [Install!Next]_install
    BY Zenon DEF Next, vars
  <2>2. UNCHANGED install => UNCHANGED Install!vars
    BY DEF install, Install!vars
  <2>3. QED
    BY <2>1, <2>2
<1>3. QED
  BY <1>1, <1>2, PTL DEF Spec, Install!Spec

LEMMA UiRuns == Spec => Ui!Spec
<1>1. Init => Ui!Init
  BY Zenon DEF Init
<1>2. [Next]_vars => [Ui!Next]_Ui!vars
  <2>1. [Next]_vars => [Ui!Next]_ui
    BY Zenon DEF Next, vars
  <2>2. UNCHANGED ui => UNCHANGED Ui!vars
    BY DEF ui, Ui!vars
  <2>3. QED
    BY <2>1, <2>2
<1>3. QED
  BY <1>1, <1>2, PTL DEF Spec, Ui!Spec

\* Every component keeps the types of its variables, for any kinds of diagnostics, file
\* types, pages and bounds.
THEOREM TypeCorrect == Spec => []TypeOK
<1>1. Spec => []Diagnostic!TypeOK /\ []Test!TypeOK
  BY ProceduresAssumption, DiagnosticRuns, DiagnosticSafe, TestRuns, TestSafe, PTL
<1>2. Spec => []Install!TypeOK /\ []Ui!TypeOK
  BY ProceduresAssumption, InstallRuns, InstallTyped, UiRuns, UiSafe, PTL
<1>3. QED
  BY <1>1, <1>2, PTL DEF TypeOK

\* The results of a diagnostic are those of its last run, or of the one before as long as a
\* speedtest is under way; at most one subprocess is alive; the mode of the self-test tells
\* the test that runs; a page that waits has been sent what changed before: for any number
\* of requests, exits and changes.
THEOREM LatestIsTold == Spec => []LatestRunIsTold
<1>1. Spec => /\ [](Diagnostic!OneSubprocess /\ Diagnostic!ResultOfLastRun)
              /\ []Test!ModeTellsTest
  BY ProceduresAssumption, DiagnosticRuns, DiagnosticSafe, TestRuns, TestSafe, PTL
<1>2. Spec => []Ui!WaitingHasLatest
  BY ProceduresAssumption, UiRuns, UiSafe, PTL
<1>3. QED
  BY <1>1, <1>2, PTL DEF LatestRunIsTold

=============================================================================
