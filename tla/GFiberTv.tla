------------------------------- MODULE GFiberTv -------------------------------
(***************************************************************************)
(* The television parameters of dm/gfibertv.py: the nicknames of devices,  *)
(* the parameters that frobnicast is restarted for, and the type of the    *)
(* user interface.  hnvram, frobnicast and the boot scripts are external.  *)
(*                                                                         *)
(* FrobnicastKey, FrobnicastAddress and TvBufferKey are Trigger()s of      *)
(* FileBacked attributes: the Trigger compares the file before and after   *)
(* an assignment, and the file is written later, so that only the          *)
(* notification of the written file calls Triggered.                       *)
(***************************************************************************)
EXTENDS Integers, Functions

CONSTANTS
  Indices,        \* of DevicePropertiesList
  Serials, Nicks, \* values of SerialNumber and NickName
  my_serial,      \* of this device
  Keys,           \* values of the three parameters above, without ""
  UiTypes,
  MaxChanges      \* bound: changes by the ACS

None == "(none)"
Params == {"FrobnicastKey", "FrobnicastAddress", "TvBufferKey"}

VARIABLES
  DevicePropertiesList,  \* a function of the indices in use
  scheduled,             \* Triggered waits for the idle ioloop
  nickfile, mynickfile,  \* files with nicknames
  file, tmp,             \* the files of Params, and what is to be renamed to them
  writing, events,       \* Params with a rename, or a notification, still to come
  frobstatus,            \* _frobstatus
  nvram, uitype,         \* UITYPE of hnvram; UITYPEFILE
  creating,              \* contents that _CreateIfNotExist was scheduled with
  changed,               \* observation only: this process has written Params
  unseen,                \* observation only: devices were deleted since the last write
  changes                \* changes so far

nicknames == <<DevicePropertiesList, nickfile, mynickfile, unseen>>
frobnicast == <<file, tmp, writing, events, frobstatus, changed>>
ui == <<nvram, uitype, creating>>
vars == <<DevicePropertiesList, scheduled, nickfile, mynickfile, file, tmp, writing, events,
          frobstatus, nvram, uitype, creating, changed, unseen, changes>>

Nobody == [NickName |-> None, SerialNumber |-> None]

Init ==
  /\ DevicePropertiesList = << >> /\ scheduled = FALSE
  /\ nickfile = {} /\ mynickfile = None
  /\ file \in [Params -> {None}] \cup [Params -> Keys]
  /\ tmp = [p \in Params |-> None]
  /\ writing = {} /\ events = {}
  /\ frobstatus = <<FALSE, None>>
  /\ nvram = None /\ uitype = None /\ creating = {}
  /\ changed = FALSE /\ unseen = FALSE
  /\ changes = 0

-----------------------------------------------------------------------------

\* Devices with both a serial number and a nickname.
Named == {d \in Range(DevicePropertiesList) : None \notin {d.NickName, d.SerialNumber}}

Status == <<file.FrobnicastKey # None /\ file.TvBufferKey # None, file.FrobnicastAddress>>

\* The timeout of WaitUntilIdle.  Of two devices with this serial number one
\* remains in mynickfile.  Reading a parameter whose notification is still to
\* come triggers again.
Triggered ==
  /\ scheduled
  /\ nickfile' = Named
  /\ LET mine == {d.NickName : d \in {n \in Named : n.SerialNumber = my_serial}}
     IN  mynickfile' \in IF mine = {} THEN {mynickfile} ELSE mine
  /\ frobstatus' = Status
  /\ scheduled' \in {FALSE, events # {}}
  /\ unseen' = FALSE
  /\ UNCHANGED <<DevicePropertiesList, file, tmp, writing, events, changed, ui, changes>>

\* TriggerStrings
SetDevice(i, p, v) ==
  /\ i \in DOMAIN DevicePropertiesList
  /\ v \in IF p = "NickName" THEN Nicks ELSE Serials
  /\ DevicePropertiesList' = [DevicePropertiesList EXCEPT ![i][p] = v]
  /\ scheduled' = (scheduled \/ DevicePropertiesList' # DevicePropertiesList)
  /\ UNCHANGED <<nickfile, mynickfile, unseen, frobnicast, ui>>

\* The list is a plain dict: nothing is triggered.
AddDevice(i) ==
  /\ i \notin DOMAIN DevicePropertiesList
  /\ DevicePropertiesList' = [j \in DOMAIN DevicePropertiesList \cup {i} |->
       IF j = i THEN Nobody ELSE DevicePropertiesList[j]]
  /\ UNCHANGED <<scheduled, nickfile, mynickfile, unseen, frobnicast, ui>>

DeleteDevice(i) ==
  /\ i \in DOMAIN DevicePropertiesList
  /\ DevicePropertiesList' =
       Restrict(DevicePropertiesList, DOMAIN DevicePropertiesList \ {i})
  /\ unseen' = TRUE
  /\ UNCHANGED <<scheduled, nickfile, mynickfile, frobnicast, ui>>

\* The assignment of "" removes the file.
SetParam(p, v) ==
  /\ tmp' = [tmp EXCEPT ![p] = v]
  /\ writing' = writing \cup {p}
  /\ UNCHANGED <<nicknames, scheduled, file, events, frobstatus, changed, ui>>

\* inotify tells of a removal only if there was a file.
ReallyWriteFile(p) ==
  /\ p \in writing
  /\ writing' = writing \ {p}
  /\ file' = [file EXCEPT ![p] = tmp[p]]
  /\ tmp' = [tmp EXCEPT ![p] = None]
  /\ events' = IF file[p] = None /\ file'[p] = None THEN events ELSE events \cup {p}
  /\ changed' = (changed \/ p \in events')
  /\ UNCHANGED <<nicknames, scheduled, frobstatus, ui, changes>>

\* Mutation: the callback is the one of the assignment only.
NotTriggered == UNCHANGED scheduled

CallTrigger == scheduled' = TRUE

Notified(p) ==
  /\ p \in events
  /\ events' = events \ {p}
  /\ CallTrigger
  /\ UNCHANGED <<nicknames, file, tmp, writing, frobstatus, changed, ui, changes>>

\* hnvram may fail: then the RPC is answered with a fault.
SetUiType(v) ==
  /\ nvram' = v
  /\ creating' = creating \cup {v}
  /\ UNCHANGED <<nicknames, scheduled, frobnicast, uitype>>

CreateExclusively(v) == uitype' = IF uitype = None THEN v ELSE uitype

\* One timeout for each content, in any order.
CreateIfNotExist(v) ==
  /\ v \in creating
  /\ creating' = creating \ {v}
  /\ CreateExclusively(v)
  /\ UNCHANGED <<nicknames, scheduled, frobnicast, nvram, changes>>

\* The boot scripts choose a type when hnvram has one.
Boot ==
  /\ uitype = None /\ nvram # None
  /\ uitype' = nvram
  /\ UNCHANGED <<nicknames, scheduled, frobnicast, nvram, creating, changes>>

Restart ==
  /\ DevicePropertiesList' = << >> /\ scheduled' = FALSE
  /\ writing' = {} /\ events' = {}
  /\ frobstatus' = <<FALSE, None>>
  /\ creating' = {}
  /\ changed' = FALSE /\ unseen' = FALSE
  /\ UNCHANGED <<nickfile, mynickfile, file, tmp, nvram, uitype, changes>>

Change ==
  \/ \E i \in Indices : AddDevice(i) \/ DeleteDevice(i)
  \/ \E i \in Indices, p \in {"NickName", "SerialNumber"}, v \in Nicks \cup Serials :
       SetDevice(i, p, v)
  \/ \E p \in Params, v \in Keys \cup {None} : SetParam(p, v)
  \/ \E v \in UiTypes : SetUiType(v)

Next ==
  \/ Triggered
  \/ \E p \in Params : ReallyWriteFile(p) \/ Notified(p)
  \/ \E v \in UiTypes : CreateIfNotExist(v)
  \/ Boot
  \/ changes < MaxChanges /\ changes' = changes + 1 /\ Change
  \/ Restart

Spec == Init /\ [][Next]_vars

-----------------------------------------------------------------------------
(* Properties *)

TypeOK ==
  /\ DOMAIN DevicePropertiesList \subseteq Indices
  /\ file \in [Params -> Keys \cup {None}] /\ tmp \in [Params -> Keys \cup {None}]
  /\ writing \subseteq Params /\ events \subseteq Params
  /\ scheduled \in BOOLEAN
  /\ {nvram, uitype} \subseteq UiTypes \cup {None} /\ creating \subseteq UiTypes

\* Once what was assigned is written and notified of, frobnicast has been restarted
\* for the values in the files, though no assignment calls Triggered.
FrobnicastRestarted ==
  ~scheduled /\ writing = {} /\ events = {} /\ changed => frobstatus = Status
=============================================================================
