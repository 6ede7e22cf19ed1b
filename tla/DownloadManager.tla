-------------------------- MODULE DownloadManager --------------------------
(***************************************************************************)
(* The Download RPC, tr/download.py (Download, DownloadManager) on top of  *)
(* tr/persistobj.py: every Download has a file that says how far it got, so*)
(* that the transfer is carried on, and its TransferComplete sent, after a *)
(* reboot or a power failure.                                              *)
(*                                                                         *)
(* The callbacks of the ioloop are the actions; the process may die between*)
(* two of them, and between two writes of the callbacks that write more    *)
(* than once.                                                              *)
(*                                                                         *)
(* A definition marked "Mutation" is a plausible bug, used by no other     *)
(* definition: a property is worth its run if the mutation breaks it.      *)
(***************************************************************************)
EXTENDS Integers, Sequences, FiniteSets, TLC

CONSTANTS
  Ids,                \* names that tempfile may give to a Download's file
  Keys,               \* command keys
  MAXDOWNLOADS,       \* DownloadManager.MAXDOWNLOADS: 1 in the program
  MaxCrashes,         \* bound: unplanned deaths of the process
  InstallerMayBeSilent \* may Installer.Install return and never call back?

ASSUME DownloadAssumption ==
  /\ IsFiniteSet(Ids)
  /\ MAXDOWNLOADS \in Nat \ {0}
  /\ MaxCrashes \in Nat
  /\ InstallerMayBeSilent \in BOOLEAN

VARIABLES
  disk,             \* the file of each Download, as the last write left it
  up,               \* the process runs
  downloads,        \* DownloadManager._downloads
  pending_complete, \* DownloadManager._pending_complete
  timers,           \* Downloads whose TimerCallback is in the ioloop
  installers,       \* Downloads whose installer will call back
  rebooting,        \* Installer.Reboot has been called
  requests,         \* TransferCompletes given to CPEStateMachine, not answered
  outcome,          \* observation only: what the installer said
  crashes           \* counts against MaxCrashes

memory == <<up, downloads, pending_complete, timers, installers, rebooting, requests>>
vars   == <<disk, memory, outcome, crashes>>

-----------------------------------------------------------------------------
(* Files *)

\* ABSENT: there is no file.  EMPTY: tempfile made it and nothing is written.
\* NOSTATE: the RPC's arguments are in it, dlstate is not.
Unfinished == {"NOSTATE", "START", "WAITING", "INSTALLING"}
Finished   == {"REBOOTING", "EXITING"}
Dlstates   == {"ABSENT", "EMPTY"} \cup Unfinished \cup Finished

NoKey == ""
File(dlstate, key) == [dlstate |-> dlstate, key |-> key]
Files  == [dlstate : Dlstates, key : Keys \cup {NoKey}]
NoFile == File("ABSENT", NoKey)

Stored(id) == disk[id].dlstate \notin {"ABSENT", "EMPTY"}
Update(d, id, dlstate) == [d EXCEPT ![id].dlstate = dlstate]
Delete(d, ids) == [id \in Ids |-> IF id \in ids THEN NoFile ELSE d[id]]

\* Mutation: a Download that was rebooting begins again.
RestoreForgetsReboot(dlstate) == "START"

\* _RestoreDlstate
RestoreDlstate(dlstate) == IF dlstate \in Finished THEN "REBOOTING" ELSE "START"

\* Mutation: only EV_START leaves START.
RebootCompleteIgnoresStart(dlstate) == IF dlstate = "REBOOTING" THEN "EXITING" ELSE dlstate

\* StateMachine(EV_REBOOT_COMPLETE) and StateMachine(EV_START)
RebootComplete(dlstate) ==
  CASE dlstate = "START"     -> "WAITING"
    [] dlstate = "REBOOTING" -> "EXITING"
    [] OTHER                 -> dlstate

-----------------------------------------------------------------------------
(* Sequences *)

SeqSet(s)   == {s[i] : i \in DOMAIN s}
Front(s)    == SubSeq(s, 1, Len(s) - 1)
Distinct(s) == \A i, j \in DOMAIN s : s[i] = s[j] => i = j

\* The orders in which glob may list a set of files.
Orders(ids) == {s \in [1..Cardinality(ids) -> ids] : Distinct(s)}

\* s without these, in its order: _downloads.remove for each of them.
Remove(s, ids) ==
  {r \in Orders(SeqSet(s) \ ids) :
     \A i, j \in DOMAIN r : i < j =>
       \E k, l \in DOMAIN s : k < l /\ s[k] = r[i] /\ s[l] = r[j]}

-----------------------------------------------------------------------------
(* Operations *)

Init ==
  /\ disk = [id \in Ids |-> NoFile]
  /\ up = FALSE
  /\ downloads = <<>>
  /\ pending_complete = <<>>
  /\ timers = {}
  /\ installers = {}
  /\ rebooting = FALSE
  /\ requests = <<>>
  /\ outcome = [id \in Ids |-> "none"]
  /\ crashes = 0

\* The process is gone, with all that it remembered.
Down ==
  /\ up' = FALSE
  /\ downloads' = <<>>
  /\ pending_complete' = <<>>
  /\ timers' = {}
  /\ installers' = {}
  /\ rebooting' = FALSE
  /\ requests' = <<>>

Crashed ==
  /\ crashes < MaxCrashes
  /\ crashes' = crashes + 1
  /\ Down

\* Mutations: the Download stays in _downloads; it is not kept as pending.
SendTransferCompleteKeeps(id, ok) ==
  /\ pending_complete' = Append(pending_complete, id)
  /\ requests' = Append(requests, [id |-> id, ok |-> ok])
  /\ UNCHANGED downloads
SendTransferCompleteForgets(id, ok) ==
  /\ downloads' \in Remove(downloads, {id})
  /\ requests' = Append(requests, [id |-> id, ok |-> ok])
  /\ UNCHANGED pending_complete

\* _SendTransferComplete and TransferCompleteCallback
SendTransferComplete(id, ok) ==
  /\ downloads' \in Remove(downloads, {id})
  /\ pending_complete' = Append(pending_complete, id)
  /\ requests' = Append(requests, [id |-> id, ok |-> ok])

\* Mutation: there is no limit while the other Downloads only wait.
MayDownloadUnlessInstalling == \A id \in SeqSet(downloads) : disk[id].dlstate = "WAITING"

\* NewDownload refuses what exceeds MAXDOWNLOADS.
MayDownload == Len(downloads) < MAXDOWNLOADS

\* _ScheduleTimer.  However long the delay, the callback comes some time later.
ScheduleTimer(ids) == timers' = timers \cup ids

\* NewDownload, and the Download it makes.
NewDownload(id, key) ==
  /\ up
  /\ MayDownload
  /\ disk[id].dlstate = "ABSENT"
  /\ disk' = [disk EXCEPT ![id] = File("WAITING", key)]
  /\ downloads' = Append(downloads, id)
  /\ ScheduleTimer({id})
  /\ outcome' = [outcome EXCEPT ![id] = "none"]
  /\ UNCHANGED <<up, pending_complete, installers, rebooting, requests, crashes>>

\* The process dies between two writes of NewDownload.
CrashInNewDownload(id, key) ==
  /\ up
  /\ MayDownload
  /\ disk[id].dlstate = "ABSENT"
  /\ disk' \in {[disk EXCEPT ![id] = file] :
                  file \in {File("EMPTY", NoKey), File("NOSTATE", key), File("START", key)}}
  /\ outcome' = [outcome EXCEPT ![id] = "none"]
  /\ Crashed

\* StateMachine(EV_INSTALL_COMPLETE), with the state INSTALLING.
InstallComplete(id, ok, must_reboot) ==
  /\ outcome' = [outcome EXCEPT ![id] = IF ok THEN "installed" ELSE "failed"]
  /\ IF ok /\ must_reboot
     THEN /\ disk' = Update(disk, id, "REBOOTING")
          /\ rebooting' = TRUE
          /\ UNCHANGED <<downloads, pending_complete, requests>>
     ELSE /\ disk' = Update(disk, id, "EXITING")
          /\ SendTransferComplete(id, ok)
          /\ UNCHANGED rebooting

\* TimerCallback: the installer begins its work, refuses it at once, or
\* returns having done neither.
TimerCallback(id) ==
  /\ id \in timers
  /\ timers' = timers \ {id}
  /\ \/ /\ disk' = Update(disk, id, "INSTALLING")
        /\ \/ installers' = installers \cup {id}
           \/ InstallerMayBeSilent /\ UNCHANGED installers
        /\ UNCHANGED <<downloads, pending_complete, rebooting, requests, outcome>>
     \/ /\ InstallComplete(id, FALSE, TRUE)
        /\ UNCHANGED installers
  /\ UNCHANGED <<up, crashes>>

\* InstallerCallback
InstallerCallback(id, ok, must_reboot) ==
  /\ id \in installers
  /\ installers' = installers \ {id}
  /\ InstallComplete(id, ok, must_reboot)
  /\ UNCHANGED <<up, timers, crashes>>

\* Mutation: the list becomes what was popped from it.
PopAssigns == pending_complete' = pending_complete[Len(pending_complete)]
Pop == pending_complete' = Front(pending_complete)

\* TransferCompleteResponseReceived: _pending_complete.pop() takes the newest.
TransferCompleteResponseReceived ==
  /\ requests # <<>>
  /\ requests' = Tail(requests)
  /\ IF pending_complete = <<>>
     THEN UNCHANGED <<disk, pending_complete>>
     ELSE /\ Pop
          /\ disk' = Delete(disk, {pending_complete[Len(pending_complete)]})
  /\ UNCHANGED <<up, downloads, timers, installers, rebooting, outcome, crashes>>

\* The POST of a TransferComplete fails: CPEStateMachine does not repeat it.
LoseRequest ==
  /\ requests # <<>>
  /\ requests' = Tail(requests)
  /\ UNCHANGED <<disk, up, downloads, pending_complete, timers, installers,
                 rebooting, outcome, crashes>>

\* Mutation: Cleanup stops whatever the Download does.
CancellableAlways(id) == TRUE

\* Cleanup refuses while the Download is installing or waits for the reboot.
Cancellable(id) == disk[id].dlstate \notin {"INSTALLING", "REBOOTING"}

\* CancelTransfer walks _downloads and removes from it on the way, which makes
\* the walk skip the element after a removed one; it stops at the first
\* Download that cannot be cancelled.
Matches(i, key) == disk[downloads[i]].key = key

Visited(key) ==
  LET visited[i \in 1..Len(downloads)] ==
        i = 1 \/ ~(visited[i - 1] /\ Matches(i - 1, key))
  IN  visited

Met(key) == {i \in 1..Len(downloads) : Visited(key)[i] /\ Matches(i, key)}

Cancelled(key) ==
  {downloads[i] : i \in {j \in Met(key) :
                          \A k \in Met(key) : k <= j => Cancellable(downloads[k])}}

CancelTransfer(key) ==
  /\ Cancelled(key) # {}
  /\ disk' = Delete(disk, Cancelled(key))
  /\ downloads' \in Remove(downloads, Cancelled(key))
  /\ timers' = timers \ Cancelled(key)
  /\ UNCHANGED <<up, pending_complete, installers, rebooting, requests, outcome, crashes>>

\* RestoreDownloads: GetPersistentObjects removes the files it cannot parse.
RestoredFile(id) ==
  IF Stored(id)
  THEN File(RebootComplete(RestoreDlstate(disk[id].dlstate)), disk[id].key)
  ELSE NoFile

RestoreDownloads ==
  /\ ~up
  /\ up' = TRUE
  /\ disk' = [id \in Ids |-> RestoredFile(id)]
  /\ downloads' \in Orders({id \in Ids : RestoredFile(id).dlstate = "WAITING"})
  /\ pending_complete' \in Orders({id \in Ids : RestoredFile(id).dlstate = "EXITING"})
  /\ requests' = [i \in DOMAIN pending_complete' |-> [id |-> pending_complete'[i], ok |-> TRUE]]
  /\ ScheduleTimer({id \in Ids : RestoredFile(id).dlstate = "WAITING"})
  /\ UNCHANGED <<installers, rebooting, outcome, crashes>>

\* The process dies in RestoreDownloads, some files behind it, one of them
\* perhaps between its two writes.
CrashInRestore ==
  /\ ~up
  /\ \E done \in SUBSET {id \in Ids : disk[id].dlstate # "ABSENT"},
        halfway \in {{}} \cup {{id} : id \in Ids} :
       /\ halfway \subseteq {id \in done : Stored(id)}
       /\ (\E id \in done : Stored(id)) =>
            \A id \in Ids : disk[id].dlstate = "EMPTY" => id \in done
       /\ disk' = [id \in Ids |->
                     IF id \in halfway
                     THEN File(RestoreDlstate(disk[id].dlstate), disk[id].key)
                     ELSE IF id \in done THEN RestoredFile(id) ELSE disk[id]]
  /\ UNCHANGED outcome
  /\ Crashed

\* Power failure, kill, or any other death of the process.
Crash == up /\ Crashed /\ UNCHANGED <<disk, outcome>>

\* The reboot that Installer.Reboot asked for.
Reboot == rebooting /\ Down /\ UNCHANGED <<disk, outcome, crashes>>

Next ==
  \/ \E id \in Ids, key \in Keys :
       NewDownload(id, key) \/ CrashInNewDownload(id, key)
  \/ \E id \in Ids : TimerCallback(id)
  \/ \E id \in Ids, ok, must_reboot \in BOOLEAN : InstallerCallback(id, ok, must_reboot)
  \/ TransferCompleteResponseReceived
  \/ LoseRequest
  \/ \E key \in Keys : CancelTransfer(key)
  \/ RestoreDownloads
  \/ CrashInRestore
  \/ Crash
  \/ Reboot

Spec == Init /\ [][Next]_vars

-----------------------------------------------------------------------------
(* Properties *)

\* The lists hold Downloads and the files what the program writes to them.
TypeOK ==
  /\ disk \in [Ids -> Files]
  /\ up \in BOOLEAN
  /\ downloads \in Seq(Ids)
  /\ pending_complete \in Seq(Ids)
  /\ timers \subseteq Ids
  /\ installers \subseteq Ids
  /\ rebooting \in BOOLEAN
  /\ requests \in Seq([id : Ids, ok : BOOLEAN])
  /\ outcome \in [Ids -> {"none", "installed", "failed"}]
  /\ crashes \in 0..MaxCrashes

\* While the process runs, the lists and the files agree: every file belongs
\* to one Download in one list, to the one that its dlstate calls for, and a
\* Download waits in the ioloop exactly when its file says so.
Accounted ==
  up =>
    /\ \A id \in Ids :
         /\ id \in SeqSet(downloads) <=>
              disk[id].dlstate \in {"WAITING", "INSTALLING", "REBOOTING"}
         /\ id \in SeqSet(pending_complete) <=> disk[id].dlstate = "EXITING"
         /\ disk[id].dlstate \in {"ABSENT", "WAITING", "INSTALLING", "REBOOTING", "EXITING"}
         /\ id \in timers <=> disk[id].dlstate = "WAITING"
         /\ id \in installers => disk[id].dlstate = "INSTALLING"
    /\ Distinct(downloads) /\ Distinct(pending_complete)

\* MAXDOWNLOADS bounds the Downloads on their way, those left by earlier lives
\* of the process included: RestoreDownloads appends without looking.
DownloadsBounded ==
  /\ Len(downloads) <= MAXDOWNLOADS
  /\ Cardinality({id \in Ids : disk[id].dlstate \in Unfinished}) <= MAXDOWNLOADS

\* An answer to a TransferComplete always finds a Download to clean up:
\* _pending_complete.pop() never meets an empty list.
ResponseFindsDownload == Len(requests) <= Len(pending_complete)

\* The file tells, through any number of restarts, whether the installer has
\* given its result: a finished install is not begun again, and an unfinished
\* one is not reported.
InstalledOnce ==
  \A id \in Ids :
    /\ disk[id].dlstate \in Finished   => outcome[id] # "none"
    /\ disk[id].dlstate \in Unfinished => outcome[id] = "none"

\* download.py's diagram: "EXITING -> DONE [receive TransferCompleteResponse]".
\* A Download whose TransferComplete is not answered yet keeps its file.
UnansweredKeepsFile ==
  \A i \in DOMAIN requests : disk[requests[i].id].dlstate = "EXITING"

\* A TransferComplete with FaultCode 0 is sent only for what was installed.
FailureReported ==
  \A i \in DOMAIN requests : requests[i].ok => outcome[requests[i].id] = "installed"

-----------------------------------------------------------------------------
(* Refinement *)

StatusOf(dlstate) ==
  CASE dlstate \in {"ABSENT", "EMPTY"}               -> "none"
    [] dlstate \in {"NOSTATE", "START", "WAITING"}   -> "accepted"
    [] dlstate = "INSTALLING"                        -> "installing"
    [] dlstate = "REBOOTING"                         -> "installed"
    [] dlstate = "EXITING"                           -> "reported"

Durable ==
  INSTANCE Transfers WITH
    transfers <- [id \in Ids |-> [status |-> StatusOf(disk[id].dlstate), key |-> disk[id].key]]

\* Every step of the download manager, crashes and restarts included, moves
\* each transfer as Transfers allows or leaves it alone.
TransfersSpec == Durable!Spec

-----------------------------------------------------------------------------
(* Liveness *)

\* An accepted transfer is at last reported with a TransferComplete, or it is
\* cancelled; and the slot it holds in MAXDOWNLOADS is free again.
TransferReported ==
  \A id \in Ids :
    (disk[id].dlstate \in Unfinished \cup {"REBOOTING"}) ~>
      (disk[id].dlstate \in {"EXITING", "ABSENT"})

\* The names of the files, and the command keys, are interchangeable.
Symmetry == Permutations(Ids) \cup Permutations(Keys)
=============================================================================
