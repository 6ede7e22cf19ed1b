------------------------------ MODULE Isostream ------------------------------
(***************************************************************************)
(* The streaming tests of dm/isostream.py: a server and a client process,  *)
(* each with a time limit, and a daily schedule for the client.  An        *)
(* assignment, a timer or a new consensus key triggers Triggered, which    *)
(* compares what runs with what should and starts, stops or restarts it    *)
(* when the ioloop is idle.                                                *)
(*                                                                         *)
(* Time is abstract: a timer may fire when it is pending.  One number      *)
(* stands for the settings that a process is started with.                 *)
(***************************************************************************)
EXTENDS Naturals

CONSTANTS
  MaxChanges  \* bound: assignments of the ACS, and times that a schedule fires

\* What is assumed of the constants.
IsostreamAssumption == MaxChanges \in Nat

VARIABLES
  ServerEnable, ClientEnable, ClientEnableByScheduler, ClientRunOnSchedule,
  ServerTimeLimit,   \* whether it is not zero; ClientTimeLimit never is
  settings,          \* numbers of their other settings: [server, client]
  seen,              \* serversettings and clientsettings: those of the last change
  procs,             \* serverproc and clientproc: whether they are there
  timers,            \* servertimer and clienttimer: "none", "pending" or "fired"
  schedule,          \* clientscheduletimer is pending
  scheduled,         \* Triggered waits for the idle ioloop
  changes

vars == <<ServerEnable, ClientEnable, ClientEnableByScheduler, ClientRunOnSchedule,
          ServerTimeLimit, settings, seen, procs, timers, schedule, scheduled,
          changes>>

enables == <<ServerEnable, ClientEnable, ClientEnableByScheduler, ClientRunOnSchedule>>
running == <<procs, timers, schedule>>

Init ==
  /\ ServerEnable = FALSE /\ ClientEnable = FALSE
  /\ ClientEnableByScheduler = FALSE /\ ClientRunOnSchedule = FALSE
  /\ ServerTimeLimit = TRUE
  /\ settings = [server |-> 1, client |-> 1]
  /\ seen = [server |-> <<0, FALSE>>, client |-> <<0, FALSE, FALSE>>]
  /\ procs = {}
  /\ timers = [server |-> "none", client |-> "none"]
  /\ schedule = FALSE
  /\ scheduled \in BOOLEAN    \* _Rekey triggers if there is a consensus key
  /\ changes = 0

-----------------------------------------------------------------------------
(* The ACS, and the consensus key, which is one of the client's settings *)

Trigger == scheduled' = TRUE

SetServerEnable ==
  /\ ServerEnable' = ~ServerEnable /\ Trigger
  /\ UNCHANGED <<ClientEnable, ClientEnableByScheduler, ClientRunOnSchedule, ServerTimeLimit,
                 settings>>

SetClientEnable ==
  /\ ClientEnable' = ~ClientEnable /\ Trigger
  /\ UNCHANGED <<ServerEnable, ClientEnableByScheduler, ClientRunOnSchedule, ServerTimeLimit,
                 settings>>

SetClientRunOnSchedule ==
  /\ ClientRunOnSchedule' = ~ClientRunOnSchedule /\ Trigger
  /\ UNCHANGED <<ServerEnable, ClientEnable, ClientEnableByScheduler, ServerTimeLimit,
                 settings>>

\* Most settings are no triggers: they are noticed with the next change.
SetSetting(side) ==
  /\ settings' = [settings EXCEPT ![side] = 3 - @]
  /\ scheduled' \in {scheduled, TRUE}
  /\ UNCHANGED <<enables, ServerTimeLimit>>

SetServerTimeLimit ==
  /\ ServerTimeLimit' = ~ServerTimeLimit
  /\ UNCHANGED <<enables, settings, scheduled>>

Change ==
  /\ \/ SetServerEnable \/ SetClientEnable \/ SetClientRunOnSchedule
     \/ SetServerTimeLimit
     \/ \E side \in {"server", "client"} : SetSetting(side)
  /\ UNCHANGED <<seen, running>>

-----------------------------------------------------------------------------

ClientShouldRun == ClientEnable \/ ClientEnableByScheduler

\* serversettings and clientsettings: a client that the schedule has started is restarted
\* when ClientEnable is set.
SettingsOf(side) ==
  IF side = "server" THEN <<settings.server, ServerTimeLimit>>
  ELSE <<settings.client, ClientRunOnSchedule, ClientEnable>>

\* Mutation: what the settings were is not remembered.
ChangedRunning(side) ==
  CASE side = "server" -> ServerEnable # ("server" \in procs)
    [] OTHER           -> ClientShouldRun # ("client" \in procs)

\* A change of one side: its settings, or whether it runs and should.
Changed(side) ==
  \/ SettingsOf(side) # seen[side]
  \/ CASE side = "server" -> ServerEnable # ("server" \in procs)
       [] OTHER           -> ClientShouldRun # ("client" \in procs)

Wanted ==
  {side \in {"server", "client"} : IF side = "server" THEN ServerEnable ELSE ClientShouldRun}

\* Triggered.  A side that changed is stopped, with its timer, and started again with
\* a new one; a client's change sets the daily timer anew too.  A client that cannot
\* be started, or a server, raises: the process exits, which is not modelled.
Triggered ==
  /\ scheduled
  /\ scheduled' = FALSE
  /\ LET new == {side \in {"server", "client"} : Changed(side)} IN
     /\ seen' = [side \in DOMAIN seen |-> IF side \in new THEN SettingsOf(side) ELSE seen[side]]
     /\ procs' = (procs \ new) \cup (Wanted \cap new)
     /\ timers' = [side \in DOMAIN timers |->
                     IF side \notin new THEN timers[side]
                     ELSE IF side \in Wanted /\ (side = "server" => ServerTimeLimit)
                     THEN "pending" ELSE "none"]
     /\ schedule' = IF "client" \in new THEN ClientRunOnSchedule ELSE schedule
  /\ UNCHANGED <<enables, ServerTimeLimit, settings, changes>>

\* _DisableServer
ServerTimeout ==
  /\ timers.server = "pending"
  /\ timers' = [timers EXCEPT !.server = "fired"]
  /\ ServerEnable' = FALSE
  /\ scheduled' = (scheduled \/ ServerEnable)
  /\ UNCHANGED <<ClientEnable, ClientEnableByScheduler, ClientRunOnSchedule, ServerTimeLimit,
                 settings, seen, procs, schedule, changes>>

\* _DisableClient takes back what the schedule enabled, and not ClientEnable.
ClientTimeout ==
  /\ timers.client = "pending"
  /\ timers' = [timers EXCEPT !.client = "fired"]
  /\ ClientEnableByScheduler' = FALSE
  /\ Trigger
  /\ UNCHANGED <<ServerEnable, ClientEnable, ClientRunOnSchedule, ServerTimeLimit, settings,
                 seen, procs, schedule, changes>>

\* _RunTest: the time of the day has come, and the timer of the next one is set.
RunTest ==
  /\ schedule /\ changes < MaxChanges
  /\ changes' = changes + 1
  /\ ClientEnableByScheduler' = TRUE
  /\ Trigger
  /\ UNCHANGED <<ServerEnable, ClientEnable, ClientRunOnSchedule, ServerTimeLimit, settings,
                 seen, procs, timers, schedule>>

Next ==
  \/ changes < MaxChanges /\ changes' = changes + 1 /\ Change
  \/ Triggered
  \/ ServerTimeout
  \/ ClientTimeout
  \/ RunTest

Spec == Init /\ [][Next]_vars

-----------------------------------------------------------------------------
(* Properties *)

TypeOK ==
  /\ {ServerEnable, ClientEnable, ClientEnableByScheduler, ClientRunOnSchedule,
      ServerTimeLimit, schedule, scheduled} \subseteq BOOLEAN
  /\ procs \subseteq {"server", "client"}
  /\ timers \in [{"server", "client"} -> {"none", "pending", "fired"}]
  /\ seen \in [{"server", "client"} ->
                 (0..2) \X BOOLEAN \cup (0..2) \X BOOLEAN \X BOOLEAN]

\* When nothing is pending, the processes are those that should run, each has a timer
\* if it has a limit, no timer of a process that was stopped is left to stop a later
\* one, and the daily timer is there if it should: whatever the order in which timers
\* fire and settings change.
ProcessesAsEnabled ==
  ~scheduled =>
    /\ procs = Wanted
    /\ \A side \in {"server", "client"} : timers[side] = "pending" => side \in procs
    /\ \A side \in procs :
         timers[side] = "none" => side = "server" /\ ~seen.server[2]
    /\ schedule => ClientRunOnSchedule
    /\ ClientRunOnSchedule /\ seen.client = SettingsOf("client") => schedule
=============================================================================
