---------------------------- MODULE Procedures ----------------------------
(*****************************************************************************)
(* What the ACS, or a page, starts and waits for: the diagnostics that run   *)
(* a subprocess, the self-test, downloads and their installers, and the      *)
(* pages of the diagnostics UI.  They share no state: one of them is chosen  *)
(* at the start, and the others stay as they begin.  The constants are those *)
(* of the components' modules.                                               *)
(*****************************************************************************)
EXTENDS Naturals, FiniteSets, Sequences

CONSTANTS
  \* Diagnostics, SelfTest, Installers
  Kinds, MaxRuns, MaxChanges, FileTypes, MaxInstalls,
  \* DownloadManager, whose installers always call back
  Ids, Keys, MAXDOWNLOADS, MaxCrashes,
  \* DiagUi
  TechPages, DiagPages, MaxBoxes, MaxUpdates

VARIABLES
  component,
  \* Diagnostics
  kind, up, requested, scheduled, host, subproc, handlers, alive, open, failed, result,
  buffer, error, runs, inputs,
  \* SelfTest
  Mode, ServerIP, AutoRestartEnable, triggered, proc, endless, output, LastResult, changes,
  \* Installers
  platform, phase, fileType, ginstall, stdout, handler, install_cb, fault, downloads,
  \* DownloadManager
  disk, alive_cwmpd, downloading, pending_complete, timers, installers, rebooting,
  requests, outcome, crashes,
  \* DiagUi
  world, data, checksum, callbacklist, asked, shown, gather, outstanding, updates

Diagnostic == INSTANCE Diagnostics
Test == INSTANCE SelfTest WITH scheduled <- triggered
Install == INSTANCE Installers WITH MaxDownloads <- MaxInstalls, output <- stdout
Download == INSTANCE DownloadManager WITH
  InstallerMayBeSilent <- FALSE, up <- alive_cwmpd, downloads <- downloading
Ui == INSTANCE DiagUi WITH MaxChanges <- MaxUpdates, changes <- updates

ASSUME ProceduresAssumption ==
  /\ Diagnostic!DiagnosticsAssumption
  /\ Test!SelfTestAssumption
  /\ Install!InstallersAssumption
  /\ IsFiniteSet(Ids) /\ MAXDOWNLOADS \in Nat \ {0} /\ MaxCrashes \in Nat
  /\ Ui!DiagUiAssumption

diagnostic == <<kind, up, requested, scheduled, host, subproc, handlers, alive, open,
                failed, result, buffer, error, runs, inputs>>
test == <<Mode, ServerIP, AutoRestartEnable, triggered, proc, endless, output, LastResult,
          changes>>
install == <<platform, phase, fileType, ginstall, stdout, handler, install_cb, fault,
             downloads>>
downloadVars == <<disk, alive_cwmpd, downloading, pending_complete, timers, installers,
                  rebooting, requests, outcome, crashes>>
ui == <<world, data, checksum, callbacklist, asked, shown, gather, outstanding, updates>>
vars == <<component, diagnostic, test, install, downloadVars, ui>>

Init ==
  /\ component \in {"diagnostic", "self-test", "installer", "download", "ui"}
  /\ Diagnostic!Init /\ Test!Init /\ Install!Init /\ Download!Init
  /\ Ui!Init
  /\ component # "diagnostic" => kind = CHOOSE k \in Kinds : TRUE
  /\ component # "installer" => platform = "none"

Next ==
  \/ /\ component = "diagnostic" /\ Diagnostic!Next
     /\ UNCHANGED <<component, test, install, downloadVars, ui>>
  \/ /\ component = "self-test" /\ Test!Next
     /\ UNCHANGED <<component, diagnostic, install, downloadVars, ui>>
  \/ /\ component = "installer" /\ Install!Next
     /\ UNCHANGED <<component, diagnostic, test, downloadVars, ui>>
  \/ /\ component = "download" /\ Download!Next
     /\ UNCHANGED <<component, diagnostic, test, install, ui>>
  \/ /\ component = "ui" /\ Ui!Next
     /\ UNCHANGED <<component, diagnostic, test, install, downloadVars>>

\* The ioloop runs what is ready, the timers of transfers, deadlines and pages among it.
\* A subprocess exits some time, except an iperf3, which may have been started as a
\* server; so does a self-test that was not started without an end, and ginstall and an
\* installer; the HTTP client ends every request; the system reboots when it is asked to,
\* and the babysitter restarts the process.
Fairness ==
  /\ WF_diagnostic(component = "diagnostic" /\ Diagnostic!StartProc)
  /\ WF_diagnostic(component = "diagnostic" /\ \E r \in handlers : Diagnostic!GotEnd(r))
  /\ \A r \in 1..MaxRuns :
       WF_diagnostic(component = "diagnostic" /\ kind # "iperf3" /\ Diagnostic!Exit(r))
  /\ WF_test(component = "self-test" /\ (Test!TriggeredStops \/ Test!TriggeredStarts))
  /\ WF_test(component = "self-test" /\ ~endless /\ Test!OutputEnds)
  /\ WF_install(component = "installer" /\ Install!OnStdout)
  /\ WF_install(component = "installer" /\ Install!Exit)
  /\ WF_downloadVars(component = "download" /\ Download!RestoreDownloads)
  /\ WF_downloadVars(component = "download" /\ Download!Reboot)
  /\ \A id \in Ids :
       WF_downloadVars(component = "download" /\ Download!TimerCallback(id))
  /\ \A id \in Ids :
       WF_downloadVars(component = "download" /\
         \E ok, must_reboot \in BOOLEAN : Download!InstallerCallback(id, ok, must_reboot))
  /\ WF_ui(component = "ui" /\ Ui!BoxAnswers)
  /\ \A p \in TechPages \cup DiagPages : WF_ui(component = "ui" /\ Ui!Deadline(p))

Spec == Init /\ [][Next]_vars /\ Fairness

-----------------------------------------------------------------------------
(* Properties *)

TypeOK ==
  /\ Diagnostic!TypeOK /\ Test!TypeOK /\ Install!TypeOK /\ Ui!TypeOK

\* Whoever asks gets the last answer.  The results of a diagnostic are those of its last
\* run, or, while a speedtest is under way, of the one before; at most one subprocess of
\* it is alive; the mode of the self-test tells the test that runs; a page that waits for
\* a change has been sent all before.
LatestRunIsTold ==
  /\ Diagnostic!OneSubprocess /\ Diagnostic!ResultOfLastRun
  /\ Test!ModeTellsTest
  /\ Ui!WaitingHasLatest

\* Whoever asks gets an answer: a diagnostic ends, and a self-test that is not endless; an
\* endless one ends at the next assignment; an accepted download is reported, an installer
\* whose ginstall exits calls back, a page is answered within its deadline.
EveryRequestEnds ==
  /\ Diagnostic!DiagnosticEnds
  /\ Test!SelfTestEnds
  /\ Install!ExitConcludes
  /\ Download!TransferReported
  /\ Ui!RequestAnswered /\ Ui!GatherAnswered
=============================================================================
