# catawampus: specifications, model checking and proofs

catawampus is a TR-069 (CWMP) agent: it runs on a device (the CPE), opens
sessions with a management server (the ACS), reports events and changed
parameters in them, and carries out the RPCs the ACS sends back.  The RPCs read
and write a data model, whose objects stand for the files, drivers and programs
of the device.  This directory holds TLA+ modules translated from its source, TLC
configurations that check them on small instances, and proofs checked by TLAPS.

The program is single threaded.  A tornado ioloop runs one callback at a time,
to its end, and callbacks call one another freely.  So an *action* of these
modules is always one whole callback of the ioloop (or one event of the world
outside: a crash, a file that appears, a subprocess that exits), and what makes
the system hard is not shared memory but the order of the callbacks: which timer,
answer, ping, RPC, notification or installer result comes between which two
others, which of them finds the work that another put off until the ioloop is
idle, and where the process dies.

Paths below are relative to `src/`.

## 1. Inventory

| Component | State it keeps | Operations | Talks to |
|---|---|---|---|
| CWMP engine, `tr/http.py` `CPEStateMachine` | session, outstanding POST, request, response and event queues, retry and ping timers, changed parameters | Startup, GotResponse, SessionWaitTimer, pings, periodic, wakeup and value change sessions, SendTransferComplete, answers of the ACS | everything below, by calls and callbacks |
| CWMP session, `tr/session.py` | one of five states, ping flag, ACS URL; global list of callbacks to run at the end; global cache of what getters read | state_update, close, RunAtEnd, cache, flush | engine, Reboot RPC, data model |
| Management server, `tr/cpe_management_server.py` | periodic callback and its start timer, interval, retry parameters, ACS URL | assignments by the ACS, SuccessfulSession, SessionRetryWait, GetURL | engine, set-acs |
| ACS configuration, `extras/set-acs`, `tr/acs_config.py` | up to six files for each source of URLs | print, bless, timeout, set, clear | DHCP client scripts, a watchdog, users, management server |
| Download and Reboot, `tr/download.py` | lists of Downloads on their way and unanswered, one small state machine and one file each | Download, CancelTransfer, Reboot, timer, installer and TransferComplete callbacks, restore after a restart | engine, installer of the platform, persistent objects |
| Persistent objects, `tr/persistobj.py` | one JSON file each | create, update by rename, delete, read all | Download, Reboot |
| RPCs and transactions, `tr/api.py` | parameter key, attributes and last seen values, dirty objects | SetParameterValues, AddObjects, DeleteObject, SetParameterAttributes, CheckForTriggers | handles, engine |
| SOAP, `tr/api_soap.py`, `tr/soap.py` | none | dispatch of replies and RPCs, responses and faults | engine, RPCs |
| Handles, `tr/handle.py`, `tr/core.py` | the object tree, `_lastindex` | lookup, list, add, delete, set | RPCs, data model |
| Parameter types, `tr/cwmptypes.py` | values, triggers, values kept in files | get, set, callbacks, write when idle | data model |
| Experiments, `tr/experiment.py` | requested and active experiments, values to restore; files of the system's experiments | Requested assigned (Triggered), writes through ExperimentHandle | handles, RPCs, boot scripts |
| Main loop and event sources, `tr/mainloop.py`, `tr/filenotifier.py`, `tr/rcommand.py`, `tr/quotedblock.py` | timers, watches, connections of the local command socket | run, wait until idle, notify, execute a block of commands | all |
| Periodic statistics, `dm/periodic_statistics.py` | sample sets with their timers, samples and settings; the flag that limits flushes | assignments, add and delete, CollectSample | session cache, engine (notifications) |
| Port forwarding, `dm/nat.py` | mappings, DMZ mappings | add, delete, assign; WriteConfigs when idle | interfaces, the firewall script |
| DHCP server, `dm/dnsmasq.py` | pools, ACS URL, text configuration | add, delete, assign; write and restart when idle | dnsmasq |
| Wifi through `/bin/wifi`, `dm/binwifi.py` | what the ACS configured on a radio, what conman applied | transactions; ExportWifiPolicy when idle, watches of files | conman, waveguide |
| Broadcom wifi, `dm/brcmwifi.py` | configuration and its copy during a transaction | transactions; a sequence of wl commands | driver |
| TV, `dm/gfibertv.py` | nicknames, frobnicast keys, UI type, SageTV properties | assignments; files when idle; XML-RPC | frobnicast, hnvram, SageTV |
| Diagnostics, `dm/ip_diag*.py`, `dm/speedtest.py`, `dm/traceroute.py` | requested state, one subprocess or transfer, its output | request, cancel, output, end | subprocesses |
| Self-test and streaming test, `dm/selftest.py`, `dm/isostream.py` | modes, processes, time limits, a daily schedule | assignments, Triggered when idle, timers, ends | subprocesses |
| Hosts, `dm/host.py` | the table of one session | built from ten sources on the first read | leases, ARP, bridges, wifi |
| Interfaces, `dm/ipinterface.py` | addresses as read in the session, written ones waiting | assign, add, delete; apply when idle | kernel |
| Temperature, `dm/temperature.py` | readings, extremes, alarms, poller | transactions, samples | sensors |
| Small exporters: `dm/captive_portal.py`, `bluetooth.py`, `inadyn.py`, `hat.py`, `miniupnp.py`, `igd_time.py`, `wisp_netmanagement.py` | a few parameters each | assign; export when idle or at once | one file or program each |
| STB service, `platform/gfmedia/stbservice.py` | numbered multicast groups, statistics of a session, stall alarm | reads, alarm timers | the player's JSON files |
| Platforms, `platform/*/device.py` | installer and its subprocess | install, output, exit, reboot | Download, ginstall |
| Diagnostics UI, `diagui/main.py` | checksums, waiting requests | pages, notifications, deadlines | data model, browsers |
| Read-only data model objects, vendored code | none that a step could leave wrong | getters | - |

What makes each correct:

* engine: a session never hangs; timers are never doubled or orphaned; nothing
  that was to be reported (an event, a changed parameter, a transfer) is
  forgotten before the ACS acknowledged an Inform that carried it; everything
  reported reaches the ACS at last; the messages follow the order of the CWMP
  protocol.
* session: callbacks registered for its end are run at its end; what is read in
  one session is one snapshot.
* management server, set-acs: timers follow the parameters; retries back off,
  bounded; an URL that worked is not forgotten, and some URL is tried as long as
  any is known.
* downloads: memory and files agree, a transfer survives any restart, it is
  installed once and its true result is reported until it is acknowledged.
* parameters: a transaction sets all or nothing; a change is noticed; a number
  given to an object stays its own; every request is answered, once, with what
  became of it.
* experiments: they leave no trace when they end, and what was written meanwhile
  takes effect then.
* what hands values over to a file, a driver or a program: when nothing is
  pending, it has what was assigned last.
* what runs a procedure: it ends, whoever waits is told, and is told of the last
  request, not of an earlier one.

The hard behaviours are listed one by one, at their lines, under "hazards" in
`PROJECT.json`, each with the properties that would catch it going wrong.

## 2. Modules

```
CPEStateMachine ------- CPEStateMachine_proofs
   |     (runs safety, liveness, periodic_retry)
   +--> CwmpExchange
DownloadManager ------- DownloadManager_proofs
   |     (runs download, unanswered_keeps_file, failure_reported)
   +--> Transfers
Experiments ----------- Experiments_proofs --------------+
PeriodicStatistics ---- PeriodicStatistics_proofs        |
DataModel  = CpeManagementServer, SetAcs, CommandSocket, +--- Induction
   |         ParameterTransactions, ObjectLists, Types,  |
   |         IpInterface, Handles, SageTv, Hosts,        |
   |         SoapDispatch, StbService                    |
   +------------------- DataModel_proofs ----------------+
   +--- MCDataModel                                      |
Services   = FileBacked, WlanConfiguration, Nat,         |
   |         Dnsmasq, GFiberTv, IdleExports, Isostream,  |
   |         BrcmWifi, Temperature, WifiExperiments,     |
   |         SystemExperiments                           |
   +------------------- Services_proofs -----------------+
   +--- MCServices
Procedures = Diagnostics, SelfTest, Installers, DiagUi, and
   |         DownloadManager again for its liveness
   +------------------- Procedures_proofs
```

`DataModel`, `Services` and `Procedures` instantiate components that share no
state.  `component` is chosen in the initial state, and only that component
moves: the state graph is the disjoint union of those of the components, and a
property of the module is a conjunction of what the components promise under one
heading (`AllOrNothing`, `AppliedWhenIdle`, ...).  The promises themselves, with the
code they are about, are stated at the end of each component's module.  The three
leave the constants of their components open, with their assumptions, and the
theorems are about them; the MC modules give `DataModel` and `Services` values, and
only restrict the initial states: the components that do not move begin in one
state.

Every module's header says what it leaves out.  A definition marked "Mutation" is a
plausible bug that no other definition uses; `PROJECT.json` says in place of which
definition it makes which property fail.

### CPEStateMachine (tr/session.py, tr/http.py)

The module begins with the state machine of one session, as operators; the rest is
the engine.  Its callbacks call each other: `GotResponse`
calls `SendResponse`, which calls `Run`, which may close the session and open
another one, which calls `Run`.  So the memory of the process is one record `m`,
every method of the class is an operator of the same name from a record to a
record, and an action composes the operators as the callback does.

| Code | Model |
|---|---|
| attributes of `CPEStateMachine` | fields of `m` with the same names |
| timers in the ioloop | counts (`wait_timers`, `ping_timers`): a handle that is overwritten leaves a timer that nobody can cancel, and the counts would show it |
| POSTs given to `fetch` | the sequence `posts`; `outstanding` is a field of its own |
| `event_queue` | a set of (reason, command key): an Inform lists all of it; `limited` tells a LimitDeque from a plain deque |
| `_changed_parameters`, `_changed_parameters_sent` | `changed`, `changed_sent`, names without values |
| answer of the ACS | `Replies(msg)`: the proper response, a SOAP fault, an RPC, an empty body, an HTTP error, 599, or a body that does not parse |
| sys.exit, an exception out of a callback | `exited`; `Respawn` is the babysitter |
| the `disable_acs` file, the ACS URL | `acs_disabled`, `acs_url`, changed by the environment at any time |

Left out: the order and the repetition of entries in the event queue, cookies and
redirects, addresses, the text of messages.

`CwmpExchange` is the abstract specification: what the sequence of POSTs looks
like on the wire.  `CPEStateMachine!ExchangeSpec` says that the engine implements
it, with the session's state and the POST in flight as the mapping.

### DownloadManager, Transfers (tr/download.py, tr/persistobj.py)

`disk` holds the file of each Download (its `dlstate` and command key, or the
marks `ABSENT`, `EMPTY`, `NOSTATE` for the stages of its creation); the other
variables are the memory that a crash wipes out.  `Crash` may come between two
callbacks, `CrashInNewDownload` and `CrashInRestore` between two writes of the
callbacks that write more than once.  A callback that writes once, then changes
memory, needs no crash action of its own: dying after the write leaves the same
disk as dying after the callback.  The installer (`platform/*/device.py`) is
external: it refuses at once, or calls back later with any result, or, if
`InstallerMayBeSilent`, never.  What the installers themselves do is in
`Installers`, with their subprocess `ginstall`, its output and its exit.

`Transfers` is what the RPC promises, without files or restarts: for each
transfer a status and a key.  `DownloadManager!TransfersSpec` is the
refinement.  It is a step-by-step statement of durability: an accepted transfer
is forgotten only by a cancel before it is installed, or after its report.

### CpeManagementServer, SetAcs (tr/cpe_management_server.py, extras/set-acs, tr/acs_config.py)

`CpeManagementServer` is the periodic inform (the PERIODIC_CALLBACK object, the
timer that will start it, the parameters that configure it) and `SessionRetryWait`
with exact arithmetic instead of floating point.  The range given to
`random.randrange` is recorded in `wait`; an empty one raises, which is `exited`.
So does a multiplier of 0, which divides by zero.

`SetAcs` is the shell script and the code that calls it.  `files[source][kind]` is
the URL in the file of that source and suffix (`""`, `.redir`, `.blessed`, ...).
A run of the script is one action: nothing in it waits for cwmpd, and cwmpd waits
for it.  `GetAcsUrl` is one round of the loop in `_GetURL`, `InvalidateAcsUrl` the
time-out of an URL that `restrict_acs_hosts` does not permit, `SetAcsUrl` an
assignment of the ACS, `AcsAccessSuccess` the bless at the end of a session.  DHCP
scripts, the watchdog and users run the script between any two of those.

### Experiments, WifiExperiments, SystemExperiments (tr/experiment.py, tr/api.py, dm/binwifi.py)

`SetParameterValues` reads the old values, assigns the new ones through the
handles, and on any error assigns the old ones again.  An experiment forces
parameters: `ExperimentHandle` captures what is written to them meanwhile, and
`Requested`, a parameter itself, is the trigger that ends the old experiments and
begins the new ones, in the middle of the list of an RPC.  The data model is one
record `m`; assigning, capturing, triggering, rolling back are operators from a
record to a record, and an RPC, being one callback, is one action.

| Code | Model |
|---|---|
| the objects' attributes | `m.value`, by parameter |
| `saved_values`, `active`, `Requested` | `m.saved`, `m.active`, `m.requested` |
| `dirty` of each object | `m.dirty`; `Conclude` has the assertion of `_ConcludeTransaction` |
| an exception caught by `_Apply` | `m.raised`, the steps before it stay done |
| the loops over the experiments requested, over the list of an RPC and over its roll back | functions defined by recursion on the length of the list (`ApplyRequested`, `SetAll`, `Undo`) |
| names with dashes, fixed by `LookupAndFixupExports` | `Vendor`, the parameters `Captured` does not find |
| a setter that raises for a value no validator forbids | `Rejected` |
| a dictionary's order of keys | `KeyOrder`, fixed |

`reply` and `written` only tell the properties what the last step was.  The runs
use a VIEW without them: no action reads them, and TLC evaluates action
properties on every step, those to a known state included.

`WifiExperiments` has what the registered experiments force on the networks there
are; `SystemExperiments` the files by which cwmpd requests experiments of the boot
scripts, and which those rename and remove at any time.

### PeriodicStatistics (dm/periodic_statistics.py, the cache of tr/session.py)

Sample sets are created, configured and deleted by the ACS at any time, and each
has a timer in the ioloop.  `timers` is what the ioloop holds, `pending` the one
the set could remove: `OneTimerPerSampling` compares the two.  Time is in whole
seconds, and stands still within an iteration of the ioloop: the callbacks of
`add_callback`, then the timers, then RPCs and other events, an order that the
comment at `_FlushIfNewStatsSession` relies on.  A value is
represented by the time at which it was read, so that a stale one shows; the
cache has one entry for each reference.  Other sets are `OtherCollectSample`, which
does to the cache and its flag what theirs would, before or after a timer of the
set that is followed.  `missed`, `trimmed`, `notified` are
observations.

### Requests and parameters

| Module | Code | State and actions |
|---|---|---|
| `ParameterTransactions` | `SetParameterValues` and `_ConcludeTransaction` of `tr/api.py`, `SetExportParam` of `tr/handle.py`, `CmdSet` of `tr/rcommand.py` | `config`, `oldConfig`, `dirty`, `open`: the values of objects, their copies, and the transactions in progress.  A value is what becomes of it: refused by the validator, by the setter, by the commit, or accepted |
| `ObjectLists` | `AddObject(s)`, `DeleteObject`, `SetParameterAttributes`, `CmdAdd`, `CmdDel`, `_AddExportObject` | `objects` and `lastindex` of one parent; `told`, `given` remember what was named to the ACS |
| `Types` | `tr/cwmptypes.py`, `tr/cwmpbool.py`, `tr/cwmpdate.py` | one attribute of each type with its callback; an RPC on two of them |
| `FileBacked` | `FileBacked`, `WaitUntilIdle`, `tr/filenotifier.py`, `tr/helpers.py` | `file`, `tmp`, the pending rename `timeouts`, the watch and its undelivered event; restarts and other writers |
| `Handles` | lookups and lists of names in `tr/handle.py` | a tree of objects, some made anew at each access; `made` numbers the instances, `cache` has those one RPC has walked through |
| `SoapDispatch` | `Handle` and the methods of `tr/api_soap.py` | each request and the elements of its answer; `ParameterKey` |
| `CommandSocket` | `tr/rcommand.py`, `tr/quotedblock.py`, `LineReader` | connections, lines received and of the block so far, answers sent, the parameter and what the cache has of it |

### Data model objects

| Module | Code | State and actions |
|---|---|---|
| `Nat` | `dm/nat.py` | mappings as functions of their indices; `WriteConfigs` writes four files and runs the script, either may fail; `applied` is what the firewall has |
| `Dnsmasq` | `dm/dnsmasq.py` | pools, `conf` and its `tmp`, which the text parameter shares; `running` is what dnsmasq was started with |
| `WlanConfiguration` | `dm/binwifi.py`, one radio | `m` has the networks' objects; the files `commands`, `points` (conman's) and `guide` (waveguide's); `live` is what was applied and reads back; the RPCs as transactions |
| `BrcmWifi` | `dm/brcmwifi.py` | `config` per transaction; `todo` is the sequence of wl commands, one a step, and any of them fails or is the last; `manual` (an observation) tells that the driver was last set to a channel of its own |
| `GFiberTv`, `SageTv` | `dm/gfibertv.py` | files written when idle, and their notifications; the properties that SageTV, the file and cwmpd each hold |
| `IpInterface` | `dm/ipinterface.py` | the session's list, the kernel's addresses, the pending application |
| `Hosts` | `dm/host.py` | one step for each of the ten sources; the merged table |
| `StbService` | `platform/gfmedia/stbservice.py` | numbering of groups, a snapshot per session, the alarm with its timers |
| `Temperature` | `dm/temperature.py` | poller, extremes, alarm times, configuration in transactions |
| `IdleExports` | seven small objects | one state machine; `exporter` picks which, and its differences (which assignment schedules, what a restart keeps) |
| `Isostream`, `SelfTest` | `dm/isostream.py`, `dm/selftest.py` | processes, timers and `Triggered` |
| `Diagnostics` | five diagnostics | one life cycle; `kind` picks which; runs are numbered, so that output of an old run is told from that of a new one |
| `DiagUi` | `diagui/main.py` | pages that wait, the checksum each has, data that changes with or without notification |

## 3. Runs

| Run | Module, cfg | Question |
|---|---|---|
| `safety` | CPEStateMachine, MCSafety | The engine's invariants, action properties and refinement of `CwmpExchange`, with faults, errors, garbage, pings, downloads, reboots and crashes, while `disable_acs` and the URL come and go |
| `liveness` | CPEStateMachine, MCLiveness | Changes, pings and TransferCompletes lead to an Inform, and a queued periodic event always has a timer or a session to report it |
| `download` | DownloadManager, MCDownload | Files and lists agree; refinement of `Transfers`; two crashes, silent installers |
| `experiments` | Experiments, MCExperiments | Configured values survive experiments, overlaps, errors and roll backs; an answer tells what the RPC did |
| `statistics` | PeriodicStatistics, MCStatistics | A set samples in time, with one timer, fresh values that line up; a notification finds the samples it announces |
| `data_model` | MCDataModel | What the ACS, the command socket and the device assign, add, delete, roll back and read: what is accepted has its effect, what is refused has none, what is read fits together, each request is answered, numbers stay, and the CPE keeps a way back to its ACS |
| `services` | MCServices | Once the ioloop is idle, files, drivers and programs have what was assigned last, over every order of assignments, notifications, failing commands and restarts; an experiment's values and requests are in force; no network is on the air before its encryption |
| `procedures` | Procedures, MCProcedures | Diagnostics, self-tests, installers and waiting pages tell of the last request, and every request, and every transfer, comes to an end |
| `periodic_retry`, `unanswered_keeps_file`, `failure_reported`, `write_captured` | as above | Statements of comments and tests that the code does not keep; each gives the shortest counterexample |

### What the grouped properties consist of

| Property | Conjuncts |
|---|---|
| `AnswersTell` | `SoapDispatch!OneElement`, `KeyTellsCompleted`; `CommandSocket!BlocksAnswered`, `CacheFlushed` |
| `ReadsFitTogether` | `StbService!OneSnapshot`, `AlarmHasTimer`; `Handles!OneInstance`, `ListsWhatIsFound`; `Hosts!HostsConsistent`; `SageTv!ReadsWhatWasWritten`, `ReadsAsSageHasIt`; `Types!ChangesSeen`; `IpInterface!CIDRCorrect`, the conversion of netmasks against its definition |
| `AcsStaysReachable` | `CpeManagementServer!RetryWithinPeriod`, `RetryBacksOff`; `SetAcs!BlessedStays`, `AnswersWhileAnyKnown` |
| `AllOrNothing` | `ParameterTransactions!RefusedChangesNothing`; `Types!FaultUndoes`; `IpInterface!WritesApplied` |
| `NumbersStay` | `ObjectLists!IndexGivenOnce`; `StbService!NumbersStable` |
| `AppliedWhenIdle` | `FileBacked!WritesLand`, `ChangesNoticed`; `WlanConfiguration!PolicyExported`; `Nat!MappingsApplied`; `Dnsmasq!PoolsServed`; `GFiberTv!FrobnicastRestarted`; `IdleExports!ServiceAsAsked`; `Isostream!ProcessesAsEnabled`; `BrcmWifi!RadioConfigured`; `Temperature!PolledAsConfigured`, `AlarmsMeanReadings` |
| `ProtectedWhenNamed` | `BrcmWifi!ProtectedWhenNamed`: no network goes on the air under a new name before its encryption is set |
| `RequestedInForce` | `WifiExperiments!LastRequestedWins`; `SystemExperiments!FilesAskForRequested` |
| `LatestRunIsTold` | `Diagnostics!OneSubprocess`, `ResultOfLastRun`; `SelfTest!ModeTellsTest`; `DiagUi!WaitingHasLatest` |
| `EveryRequestEnds` | `Diagnostics!DiagnosticEnds`; `SelfTest!SelfTestEnds`; `Installers!ExitConcludes`; `Download!TransferReported`; `DiagUi!RequestAnswered`, `GatherAnswered` |

Each of these promises says in its comment under which condition the code keeps it.
Where the code does not, the condition is spelled out in the property, and the case
it excludes is in section 4.

### Bounds

They are in the `.cfg` files, and in the definitions of `MCDataModel` and
`MCServices`.

| Run or component | Bound | Why it is enough |
|---|---|---|
| `safety` | 1 parameter, 1 key, event queue of 4, one 599 survived, a failed session and its retry, 1 queued request | The engine has one session, one POST and one retry timer at a time: a hazard is the order of two or three callbacks.  One parameter and one key change between a POST and its answer, or are queued during a session; the queue is filled to its limit |
| `liveness` | the same without faults, never disabled; one rate limit timer, 2 events | A disabled ACS (`periodic_retry`), or a Fault to an Inform, leaves a periodic event without a timer (section 5) |
| `download` | 3 file names, 2 keys, MAXDOWNLOADS 2, 2 crashes | MAXDOWNLOADS is 1 in the program; with 2 `CancelTransfer` skips elements and answers meet two pending Downloads.  A third name leaves a file of an earlier life.  A second crash may fall into the recovery from the first.  Names are symmetric |
| `experiments` | 3 parameters on 2 objects, 3 values, 2 overlapping experiments and one that fails, lists of 2 | One parameter is forced by both, to different values, one may refuse a value, one has a dash; a list of two has an assignment before and after each request |
| `statistics` | one set among others, one parameter, 4 seconds, intervals and reports of 1 and 2 | Four samples are twice as many as are kept, and a timer can run late |
| management server | intervals -1, 0, 1, 30, 2 minimum waits, 4 multipliers, 0 and 1 among them, 12 failures in a row | Twelve pass the exponent's limit of ten |
| set-acs | manual, dhcp and find-acs, 2 URLs, one permitted, 2 attempts, 5 runs of the script | A redirect, its bless, a time-out and a new URL of the source fit in five |
| command socket | 2 clients, 3 lines each | a command, a broken one and the end of a block |
| transactions | 2 objects, one of which copies its configuration, lists of 2 | the second write fails after the first, and a commit after another |
| object lists | 2 lists that share the counter, 2 indices, one explicit | an explicit index is the next of the other list |
| types, handles, hosts, SageTV, SOAP, STB | 4 attributes; a tree of 4 objects; one host seen by wifi, MoCA and Ethernet; 3 properties, two of which clean to one name, with values that the file escapes, cuts or strips; 3 requests; 2 groups, 1 stream | each is the smallest instance in which two entries collide |
| FileBacked | 4 values, one that is stripped, one empty; 2 foreign writes | an assignment between a foreign write and its notification |
| Wlan, Broadcom | 10 RPCs (7), 3 of them in a row | configure, fail or roll back, configure again; any wl command may fail |
| Nat, Dnsmasq, GFiberTv, IdleExports, Isostream | 1 mapping (2 pools, 2 devices), 3 to 5 changes | add, change, delete and add again around one pending update |
| Temperature | 2 readings, one threshold, 5 samples | an alarm, its reset, an alarm |
| Diagnostics, SelfTest | 4 runs or changes | a run requested before the end of another, cancelled, and requested again |
| Installers, DiagUi | 2 downloads; 2 pages of each interface, 1 change of the data | the second begins where the first left the process; a page asks while another waits |

CHECK_DEADLOCK is FALSE in five runs, where the system stops because a bound is
reached: `download` (names for files run out, since a Download whose TransferComplete
was lost keeps its file until a restart, and restarts are bounded by `MaxCrashes`),
`statistics` (time ends at `MaxTime`), `data_model`, `services` and `procedures`
(inputs are bounded).

Each property of a passing run has mutants under "mutants": a plausible bug in one
definition with which TLC finds the property violated.  A grouped property has one
for each of its components.

### Fairness

`CPEStateMachine!FairSpec`: weak fairness of the timers (the ioloop runs every
timer that is due), of Startup and Respawn (the babysitter), of some answer to
each POST (`request_timeout=30.0` makes tornado answer 599), of NewPeriodicSession;
strong fairness of the proper answer: an ACS may fail any number of times, not for
ever in the same place.  Nothing is assumed of pings, changes, RPCs, faults and
crashes.

`Procedures!Fairness`: weak fairness of the callbacks that the ioloop has ready
(a pending `Triggered` or `_StartProc`, output that can be read, timers, a page's
deadline), of the end of a subprocess that was started for a bounded task (not of
iperf3, which may be a server that runs until it is killed, nor of a self-test that was
started without an end: iperf as a server, for want of a ServerIP, and a stresstest with
AutoRestartEnable), of `ginstall` and of the HTTP client, of the reboot the installer asked for and of the babysitter's restart.
Nothing is assumed of assignments, of data that changes, of pages that come and
connections that close.

## 4. What the runs found

Each is a "finding" in `PROJECT.json` with the line it contradicts.

1. A ping while the ACS is disabled cancels the retry timer and leaves
   `2 PERIODIC` queued; `NewPeriodicSession` then never opens a session again
   (tr/http.py:512, 563).
2. The answer to one TransferComplete may delete the file of another
   (tr/download.py:403).
3. A failed install is reported as a success after a restart (tr/download.py:400).
4. Writes to parameters with a dash in their names are not captured while an
   experiment forces them (tr/experiment.py:258).

Met on the way: no comment or test speaks of these, so no run is about them, but
the modules do what the code does, and where a property would fail its statement
excludes the case by name.

*Engine and session.*  The event queue loses its size limit at the first removal
(tr/http.py:608).  The retry timer opens a session although `disable_acs` appeared
meanwhile (tr/http.py:497).  SuccessfulSession is called for every answered POST, not
once per session (tr/cpe_management_server.py:89).  A Reboot RPC on the local `/cpe`
listener registers its callback with no session open (tr/session.py:213).  A session
begins with what was cached before it (tr/session.py:124); sampling timers flush the
cache in the middle of a session; a block of the command socket that fails does not
flush it.  `Wl.SetAutoRateFallBackEnabled`, a setter, is cached: TRUE, FALSE, TRUE in
one session skips the last.

*Management server, set-acs.*  A multiplier of 1000 or less, or products that truncate to
one second, give `randrange` an empty range, and the ValueError ends the process
(tr/cpe_management_server.py:278); so does a multiplier of 0, by its division.  An interval that is assigned does not reach the
periodic callback that runs (100).  A redirect in a session makes the bless of the URL
it began with fail, and the process exits (tr/http.py:398).  If two sources announce
one URL, time-outs reach the first only; a redirect to itself that times out leaves a
`.redir` file with nothing to redirect; an answer that changes between print and
timeout is an exit with code 100; of two URLs that are bad, one is always revived; a
`.blessed.redir` may survive a new manual URL (extras/set-acs:33).

*RPCs.*  SetParameterValues stores the parameter key before it commits, so a request
whose commit fails is reported as done (tr/api.py:478).  A failing SetParameterValues
that requests an experiment is not undone as a whole (462); a captured write is
answered with a fault although it is carried out (375); dates and None are not undone.
A date before 1900 is stored, but cannot be formatted: GetParameterValues answers with
a response and a fault.  A failed commit leaves the objects after it dirty, and CmdSet
leaves all.  AddObjects undoes the first name only (623).  DeleteObject and
SetParameterAttributes change attributes before they fail.  Indices are compared as
integers with strings, so AddObject overwrites an object with an explicit index.
GetRPCMethods lists methods that are answered with 9000; a TransferCompleteResponse
with none pending is answered with 9003.

*Experiments.*  A captured value that its setter refuses keeps every experiment from
ending (tr/experiment.py:160).  At the limit of files a request for an experiment that
is active but not requested is refused.

*Downloads.*  With MAXDOWNLOADS 2 or more (the program has 1), one transfer's reboots
can starve another.  RestoreReboots deletes the files of the reboots before the Inform
that reports them (tr/download.py:451).  `gfmedia` drops the error of an unsupported
file type, and the Download blocks all later ones (platform/gfmedia/device.py:233);
`ginstall` killed by a signal never concludes (204).  The installers of `tomato`,
`fakecpe` and the base class do not take the argument they are made with.

*Files and idle callbacks.*  A Get between a Set and the idle ioloop returns the old
value of a FileBacked parameter; a Trigger around one never sees its change.  A bad
value that raises in an idle callback ends the process (a newline in an SSID, a bad
hex option of DHCP, some file errors in `hat`, `igd_time`, `captive_portal`).  A
failed restart is not repeated in `nat` and `dnsmasq`; in `dnsmasq` the configuration
"has not changed" afterwards, deleting the last pool leaves it, and `TextConfig` shares
its `.tmp` file.  A change of an interface's address updates no port mapping.  Deleting
an `inadyn` service or a device with a nickname triggers nothing.

*Wifi.*  AutoChanType triggers no export; a change of band leaves the old band's files;
a recommendation of waveguide before the ACS configures a network removes its command
file; a roll back erases the write-only passphrase, in both kinds of radios.  A failed wl command leaves the
driver half configured.

*Procedures.*  A diagnostic's missing binary ends the process; iperf3 cannot be
cancelled before it is idle; traceroute keeps old output; a speedtest that takes the
place of another publishes what that one has printed, and shows it until its own end
(dm/speedtest.py:135); a self-test requested while another runs is forgotten.  A
Throughput test without a ServerIP is an iperf server that never ends
(dm/selftest.py:93), and a StressTest with AutoRestartEnable is told not to (76): only an
assignment ends them, although the schema has one scan the network for a server, and the
other start anew after its end (tr/schema/x-cata181.xml:925). Isostream's limits are not applied at once.  Two pages of
the UI never answer on a device without a TV box.  A request of one DiagUI page reads
the data again without a word to the pages that wait (diagui/main.py:268): they are
behind until the next notification, or their deadline.

*Others.*  TimeReference leaves the next sample in the old phase
(dm/periodic_statistics.py:170), `Parameter.Enable` is true whatever is assigned (451).
An alarm of the STB service can be reset by the timer of an earlier one.  A sensor that
cannot be read counts as a low alarm.  A SageTV property is read as '' by its cleaned
name, and a lost XML-RPC answer leaves it changed while a fault is reported.  A value is
cut at a "#", although SageTV escapes it, an escaped newline becomes an "n", and blanks at
its ends are lost (dm/gfibertv.py:367): the ACS reads what it wrote until its session
ends, and what is left of it in the next.

## 5. Proofs

Theorems hold for every value of the constants, under the assumption that each module
names (for the composed modules the runs check those assumptions in their ASSUME).

| Module | Theorems | Inductive invariant |
|---|---|---|
| `CPEStateMachine_proofs` | `TypeCorrect`, `OnePostPerSession`, `AtMostOneRetryTimer`, `EndCallbacksAreServed`, `EventsAreAnnounced`, `NothingForgotten`, `Refinement`: every property of the run `safety`; `PeriodicIsRetried`, the invariant of `liveness` | `SInv`, `PInv` |
| `DownloadManager_proofs` | `TypeCorrect`, `FilesAccounted`, `NeverTooMany`, `PopFindsDownload`, `InstallsOnce`, `ImplementsTransfers`: every property of `download` | `IInv` |
| `Experiments_proofs` | `TypeCorrect`, `SavedWhileForced`, `NoTrace`, `AnswerTells`: every property of `experiments` | `IInv` |
| `PeriodicStatistics_proofs` | `TypeCorrect`, `TimersFollowSets`, `NoSampleIsStale`, `TimesFitValues`, `FetchFindsThem`: every safety property of `statistics` | `IInv`, `AllLinedUp`, `AllCounted` |
| `Services_proofs` | `TypeCorrect`, `Applied`, `NamedWhenProtected`, `LastRequested`: every property of `services`; and of its components `FileSafe`, `WlanSafe`, `NatSafe`, `DhcpSafe`, `TvSafe`, `ExportsFollow`, `StreamSafe`, `RadioSafe`, `SensorSafe`, `ForcedSafe`, `SystemSafe` | one per component, below |
| `DataModel_proofs` | `TypesKept`, `CallbackIsThere`, `ReachesAcs`, `EveryoneIsTold`, `AllIsSetOrNothing`, `NumbersAreKept`, `EveryReadFits`: every property of `data_model`; and of its components `ServerSafe`, `BlessedIsKept`, `NoAnswerNoUrl`, `SocketSafe`, `TransactionsSafe`, `ListsSafe`, `TypesSafe`, `AddressesSafe`, `PrefixLength`, `LookupsSafe`, `SageSafe`, `HostsSafe`, `SoapSafe`, `StbSafe` | one per component, below |
| `Procedures_proofs` | `TypeCorrect`, `LatestIsTold`: every safety property of `procedures`; and of its components `DiagnosticSafe`, `TestSafe`, `UiSafe` | `DiagnosticInv`, `TestInv`, `UiInv` |
| `Induction` | `Recursion`, and the lemmas `Induct`, `InductUpto`, `LeastNatural`, `Greatest`, `Stepwise` and `Along` | |

**CPEStateMachine.**  None of the invariants is inductive.  `IInv` adds that a process
that is not up has the memory of a new one, and it ties session, POST and timer
together: in a *settled* memory (between two callbacks, unless the process exited)
there is either a session that has a URL, has a POST and no retry timer (`Waits`), or
no session, no POST and at most the one timer that `start_session_timeout` names
(`Quiet`).  Inside a callback the memory passes through other shapes: `Good`,
`Posted`, `Ready` name them.  The lemmas follow the calls of the code from the leaves
up, one for each method: what shape it expects and what shape it leaves (`PostNext`,
`RunOpen`, `NewSession`, `Finish`, `Run`, ...).  Run is proved to settle whatever a
callback leaves.  `SInv` adds `Speaks`: what the session's state says of the message in
flight.  The action properties and the refinement come from relations between the
memory before and after a method: `Goes` (no event or change leaves but as `Settles`
allows), `Answered` and `Continues` (the session, seen as the phase and the wire of
`CwmpExchange`, does one step of it or none).

`PeriodicIsRetried` is about `NewPeriodicSession`, which opens no session while its event
is queued.  `PInv` adds to `SInv` that such an event has a session or a timer (`Awaits`),
and that an open session still has it only while the answer to its Inform is awaited
(`Tells`): `InformResponse` takes the event away, and every failure sets the timer.  Its
two hypotheses are those of the run `liveness`, and neither can be dropped.  While the
ACS is disabled `_NewSession` cancels the timer, which is the finding of the run
`periodic_retry`.  And a Fault in answer to the Inform leaves the event queued in a session
that then ends well, without a timer; TLC shows this with `AcsMayFault` set in that
run's configuration, and `AcsMayBeDisabled` not.

**DownloadManager.**  The invariant is the conjunction of the run's own: each file
belongs to the Download in the list its state calls for (`Accounted`), the lists are
bounded, what was installed is not due again (`InstalledOnce`), with two parts for the
process that is down: names never used have no file (`Unnamed`) and memory is empty
(`DownIsEmpty`).  Lists lose elements by index while they are walked, so the lemmas on
`CancelTransfer` say which of them are met.  The refinement has one relation, `Moves`,
for what a step does to the status of each transfer.

**Experiments.**  An RPC is a walk over a list, each element of which may save a value,
set it, activate experiments, or fail and undo all before it.  `Sound` is what every
step of that walk keeps of the memory: its types, that each parameter which an active
experiment forces has a value saved, and that no parameter has a value its setter
refuses, so that a roll back never fails.  `ApplyRequested`, `SetAll` and `Undo`
are functions of the length walked, and each has lemmas on what it leaves of a
parameter that it does not name, and of one that it does.  `NoTrace` and `AnswerTells`
follow from these, not from the invariant alone.

**PeriodicStatistics.**  `FreshParameters` says when a cached value is as old as the
iteration, `FlushedOnce` what the flag means, `SampleSetLists` that the lists of times
and values have one length or a known difference.  `SamplesLineUp` is proved of each
parameter on its own (`AllLinedUp`), and `FetchFindsSamples` with the number of samples
collected since the last clear (`AllCounted`).

**Services.**  `Services` is the composition with its constants open; a theorem of it
is the conjunction of those of its components, and an INSTANCE of each carries its own
variables, so a component's proof never sees the others.

* `FileBacked` (`FileIInv`): while a rename is pending, the `.tmp` file holds what was
  assigned last (`FilePending`).
* `Nat` (`PortMappingIInv`): mappings are functions of their parameters, so an update that
  schedules nothing has changed nothing.
* `Dnsmasq` (`DhcpSInv`): dnsmasq runs with what its file says (`DhcpStarted`), unless
  an update is scheduled the file has the lines of the pools (`FileSaysPools`), and both
  except for a text that took the place of the pools (`TextIsText`).  `Indices` are finite, or
  `UnusedName` would not end.
* `GFiberTv` (`TvTold`), `IdleExports` (`ExportWaiting`): what differs from what was last
  exported has an update pending.  `Isostream` (`TimersFit`): a timer that is pending has
  a process to end.
* `BrcmWifi` (`RadioInv`): what is left of `todo` is the rest of the commands that `config`
  calls for, and the driver has what the commands already run say (`Underway`).  A
  channel belongs to its band (`InBand`) while the setters choose it: an assignment of the
  band turns an automatic channel on if the channel does not fit.  If the ACS then turns
  the automatic channel off itself, the old channel is back, in the other band.  The first
  attempt to prove `RadioConfigured` failed there, with RPCs longer than those of the run;
  `manual` remembers that the ACS did so, and the property excludes the band then.
* `WlanConfiguration`, `Temperature`: the types, with what is waiting for an export, or
  for the next poll, and what a reading may have set.
* `WifiExperiments`, `SystemExperiments`: the values after a walk over any list of
  requests, as in `Experiments`.

**DataModel.**  As in `Services`, each component has its invariant and its theorem about
its own specification; a lemma then says that a behavior of `DataModel` is one of the
component, since the steps of the others leave its variables alone.

* `CpeManagementServer` (`ServerInv`): a wait that is not over is the range that was drawn
  from.  That waits do not get shorter compares powers of the multiplier, whose laws are
  proved by induction; the multiplication and the minimum with the interval keep the order.
* `SetAcs` (`SInv`): a file of a source is a function from suffixes to URLs; for each
  command a lemma says what it leaves of the blessed one (`UpdateKeeps`, `TimedOutKeeps`,
  `BlessSays`, `ListedSays`).  That print has an answer follows from two facts on the
  choice of the first URL (`OfferedSays`, `OfferingSays`): if none is offered after
  all that timed out were revived, none was known.
* `CommandSocket` (`SocketInv`): a word is open exactly after an odd number of quotes
  (`QuotesMatch`), so that the lines at which a block ends are those that the lines read
  so far determine, and their number is that of the answers (`Answered`).
* `ParameterTransactions` (`TransactionsInv`): only dirty objects have a transaction open.
  A request is three walks, the writes, the roll back and the conclusion; `RollsBack`
  and `Concludes` say of each length walked what is back as it was.
* `ObjectLists` (`ListsInv`): what an answer ever named has an index up to `_lastindex`.
* `Types` (`TypesInv`): what the notifiers saw last is what the attributes hold, and their
  text converts again without raising.
* `IPInterface` (`IpInv`): a write that is pending has a list of addresses.
  `PrefixLength` is a theorem on masks of any width: the leading ones of a mask are
  counted by induction.
* `Handles` (`LookupInv`): the tree has with a path all its prefixes, what is cached is in
  the tree, and what was found in an RPC is what is cached.  That a listing has exactly
  the descendants is an induction over the depth of the walk.
* `SageTv` (`SageInv`): the key a name stands for is the name or a key that is cleaned to
  it, and nothing is written before the copy is read.  A value without a "#", a newline and
blanks at its ends is what the file gives back (`SurvivorsParse`).
* `Hosts` (`HostsInv`): a walk over the sources in the order in which they are read: what
  the first four make of a host has no associated device yet.
* `SoapDispatch` (`SoapInv`): the properties themselves.
* `StbService` (`StbInv`): a session has shown at most what it has cached.  The numbers of
  multicast groups are injective because the free numbers are as many as the new groups.

**Procedures.**  `DiagnosticInv` says that the subprocess kept is that of the last run, that
a run was paid for by an assignment, and from which runs the results and the output that
waits are.  `TestInv` is the type and the property.
`UiInv` adds the ranges of the data: a page that waits gave the checksum of all notified
parts as they are, so an update that it is not sent has changed none of them.  Of
`Installers` and of `DownloadManager` in it only the types are properties of the run; the
latter has its own module.

**Induction.**  A loop of the code over a list is a function defined by recursion on the
length walked.  That such a function exists and what it keeps are inductions.  The
library's induction theorems take an operator as a parameter, which the provers cannot
instantiate; `Induct` and `Along` take a set instead (the numbers at which the claim
holds, the family of sets of allowed values), and `Recursion` gives the function
itself; `Greatest` and `LeastNatural` pick the last or first number with a property.  So
the theorems hold for lists of any length.

**Assumptions.**  They are on constants only, and TLC evaluates them on every run.
`ExperimentsAssumption`: an RPC assigns values to parameters that exist and requests
experiments by name, and what an experiment forces is taken by its setter (one that
fails names a parameter that does not exist).  `WlanConfigurationAssumption`,
`BrcmWifiAssumption`, `NatAssumption`, `DnsmasqAssumption`: what the ACS assigns are values
of the attributes' types, as the setters of `tr/cwmptypes.py` demand; the indices of
pools are finitely many, as those of a dictionary are; and an RPC on a Broadcom radio
does not assign WEP keys alone, since those are objects of their own, without a commit.
`SageAssumption`: a value is a text that is not empty.  `HandlesAssumption`: objects are
paths of bounded depth, and with a path its prefixes.  `ServerAssumption`,
`TransactionsAssumption`, `StbAssumption`: the defaults of the attributes are among
their values, counts are natural numbers, periods are positive and groups are finitely
many.  The others only say that bounds are numbers and that names differ from the value
that stands for none.

**Only model-checked.**  Liveness, which the prover does not reach: `PingServed`,
`ChangesReported` and `TransferCompletePosted` of `liveness`, and `EveryRequestEnds` of
`procedures`.  Every other property of a passing run is a theorem.

## 6. What is left

1. Composition of the engine with DownloadManager: several restored TransferCompletes,
   requests lost with their POST, the files of Reboots.
2. The session cache in composition with sessions, for the objects of `dm/` that share
   it.
3. Failing writes to the disk, other than where a module has them (`Nat`, `Dnsmasq`,
   `IdleExports`).
4. The promises of the components of `Services` and `DataModel` as abstract specifications
   that they implement, as `CwmpExchange` and `Transfers` are for the engine and the
   downloads.

## 7. Not modelled

* Read-only objects of the data model (`dm/storage.py`, `dm/netdev.py`, `dm/ethernet.py`,
  `dm/brcmmoca*.py`, ...): pure functions of system files and command output, with no state
  that a step could leave wrong.
* Vendored and library code (`tr/vendor`, `tr/override/subprocess.py`, tornado): modelled
  by how the code uses it.
* Text on the wire (XML, dates other than where formatting raises, encodings), digest
  authentication of pings, logging, garbage collection, `parse-schema.py`, which
  generates code, and `ValidateExports`, a check at startup.
* Components marked `partly` in `PROJECT.json` name there what they leave out: mostly
  the parsing of what other programs print, and statistics that are only read.

Three hazards are listed without a property: the reboot files that are gone if the process
dies before the Inform (tr/download.py:451), since the engine and the downloads are not
composed; the Startup while the ACS is disabled that never queues `0 BOOTSTRAP`
(tr/http.py:652), and the answer to one TransferComplete that removes the `M Download`
events of the others (tr/http.py:637), since nothing in the repository says what must
happen then.
