------------------------------ MODULE Installers ------------------------------
(***************************************************************************)
(* The installers of the platforms, which tr/download.py makes and starts  *)
(* when a download is due, and which are to call it back when they are     *)
(* done.  Those of gfmedia and gfonu run ginstall and watch its output;    *)
(* the others cannot be made with the argument that the download gives.    *)
(*                                                                         *)
(* Downloads follow one another; what Download does with the callback is   *)
(* in DownloadManager.tla.                                                 *)
(***************************************************************************)
EXTENDS Naturals

CONSTANTS
  FileTypes,    \* first words of the file type of a Download RPC; "" if it has none
  MaxDownloads  \* bound

\* What is assumed of the constants.
InstallersAssumption == MaxDownloads \in Nat

Platforms == {"gfmedia", "gfonu", "tomato", "fakecpe", "none"}

\* Their __init__ takes a url, as Download passes it.
TakesUrl == {"gfmedia", "gfonu"}

\* What ginstall ends with: 0, another exit code, or a signal.
Ends == {"success", "failure", "signal"}

VARIABLES
  platform,    \* whose installer is INSTALLER
  phase,       \* of the download: "idle", "installing", "done" or "crashed"
  fileType,    \* of the download
  ginstall,    \* its process: "none", "running", or one of Ends
  output,      \* its standard output is open
  handler,     \* on_stdout is called when there is something to read, or the end
  install_cb,  \* the installer has a callback
  fault,       \* what the callback was called with: "none", "ok" or "fault"
  downloads

vars == <<platform, phase, fileType, ginstall, output, handler, install_cb, fault,
          downloads>>

Init ==
  /\ platform \in Platforms
  /\ phase = "idle" /\ fileType = ""
  /\ ginstall = "none" /\ output = FALSE /\ handler = FALSE /\ install_cb = FALSE
  /\ fault = "none"
  /\ downloads = 0

-----------------------------------------------------------------------------

\* _call_callback: nothing without a callback.  The download concludes.
CallCallback(f) ==
  IF install_cb THEN fault' = f /\ phase' = "done" ELSE UNCHANGED <<fault, phase>>

\* Install remembers the callback once it knows the file type.
Supported(type) == type \in {"1", ""}

\* Download.StateMachine, EV_TIMER while WAITING: make the installer and start it.
Install(type) ==
  /\ phase = "idle" /\ downloads < MaxDownloads
  /\ downloads' = downloads + 1
  /\ fileType' = type
  /\ UNCHANGED fault
  /\ \/ /\ platform \notin TakesUrl             \* TypeError in a timer: the process exits
        /\ phase' = "crashed"
        /\ UNCHANGED <<ginstall, output, handler, install_cb>>
     \/ /\ platform \in TakesUrl
        /\ install_cb' = Supported(type)
        /\ \/ /\ Supported(type)
              /\ phase' = "installing"
              /\ ginstall' = "running" /\ output' = TRUE /\ handler' = TRUE
           \/ /\ ~Supported(type)
              /\ phase' = "installing"         \* its fault is reported to nobody
              /\ UNCHANGED <<ginstall, output, handler>>
  /\ UNCHANGED platform

\* ginstall cannot be started.
InstallNotStarted(type) ==
  /\ phase = "idle" /\ downloads < MaxDownloads
  /\ platform \in TakesUrl /\ Supported(type)
  /\ downloads' = downloads + 1
  /\ fileType' = type
  /\ install_cb' = TRUE
  /\ phase' = "done"
  /\ fault' = "fault"
  /\ UNCHANGED <<platform, ginstall, output, handler>>

\* Mutation: an exit code other than 0 does not count as an end.
EndedWell(end) == end = "success"

\* poll() >= 0
Ended(end) == end \in {"success", "failure"}

\* on_stdout: poll() >= 0 is false while ginstall runs, and for a signal, which is a
\* negative number: the handler stays and is called again and again.
OnStdout ==
  /\ handler
  /\ IF Ended(ginstall)
     THEN handler' = FALSE /\ CallCallback(IF ginstall = "success" THEN "ok" ELSE "fault")
     ELSE UNCHANGED <<handler, fault, phase>>
  /\ UNCHANGED <<platform, fileType, ginstall, output, install_cb, downloads>>

\* The process: its output may end before it does, but not after.
CloseOutput ==
  /\ output /\ output' = FALSE
  /\ UNCHANGED <<platform, phase, fileType, ginstall, handler, install_cb, fault,
                 downloads>>

Exit ==
  /\ ginstall = "running"
  /\ ginstall' \in Ends /\ output' = FALSE
  /\ UNCHANGED <<platform, phase, fileType, handler, install_cb, fault, downloads>>

\* The download is over, by its report or with a restart of the process; the next one
\* has an installer of its own.
NextDownload ==
  /\ phase \in {"done", "crashed"}
  /\ phase' = "idle" /\ fileType' = ""
  /\ ginstall' = "none" /\ output' = FALSE /\ handler' = FALSE /\ install_cb' = FALSE
  /\ fault' = "none"
  /\ UNCHANGED <<platform, downloads>>

Next ==
  \/ \E type \in FileTypes : Install(type) \/ InstallNotStarted(type)
  \/ OnStdout \/ CloseOutput \/ Exit \/ NextDownload

Spec == Init /\ [][Next]_vars

-----------------------------------------------------------------------------

TypeOK ==
  /\ platform \in Platforms /\ fileType \in FileTypes \cup {""}
  /\ phase \in {"idle", "installing", "done", "crashed"}
  /\ ginstall \in Ends \cup {"none", "running"}
  /\ {output, handler, install_cb} \subseteq BOOLEAN
  /\ fault \in {"none", "ok", "fault"}
  /\ downloads \in 0..MaxDownloads

\* A ginstall that ends with an exit code ends the download, whatever it is and however
\* long its output was (platform/gfmedia/device.py:251-272).
ExitConcludes ==
  (phase = "installing" /\ ginstall \in {"success", "failure"}) ~> phase = "done"
=============================================================================
