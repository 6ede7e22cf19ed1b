----------------------------- MODULE IdleExports -----------------------------
(***************************************************************************)
(* The small objects that hand their parameters to another program: the    *)
(* captive portal, the Bluetooth beacons, dynamic DNS, the advertising     *)
(* properties, UPnP, the time zone and the WISP management configuration.  *)
(* Most do it when the ioloop is idle, once for all the assignments that   *)
(* came before; UPnP and the WISP configuration at once.                   *)
(*                                                                         *)
(* One of them is picked; its parameters are an enable, the one its Status *)
(* requires, and the others as one value.  What it handed over outlives    *)
(* the process.                                                            *)
(***************************************************************************)
EXTENDS Naturals

CONSTANTS
  Values,     \* what a parameter that is not empty holds
  MaxChanges  \* bound: assignments and restarts

\* What is assumed of the constants.
IdleExportsAssumption == "" \notin Values /\ MaxChanges \in Nat

Beacons == {"ibeacon", "eddystone"}
Exporters == Beacons \cup {"captive_portal", "inadyn", "hat", "miniupnp", "igd_time", "wisp"}

\* Those whose Triggered or setter acts before it returns.
Immediate == {"miniupnp", "wisp"}

VARIABLES
  exporter,  \* which of the objects this is
  params,    \* its parameters
  pending,   \* its export waits for the idle ioloop
  service,   \* what the other program was given last and runs with
  asked,     \* observation only: what the last assignment asks for
  missed,    \* observation only: the last export was lost, or failed
  changes

vars == <<exporter, params, pending, service, asked, missed, changes>>

Default == [enable |-> FALSE, need |-> "", arg |-> ""]

Init ==
  /\ exporter \in Exporters
  /\ params = Default
  /\ pending = FALSE
  /\ service = Default
  /\ asked = Default /\ missed = TRUE
  /\ changes = 0

-----------------------------------------------------------------------------

\* CaptivePortal.Status, Service.Status and the conditions of the StartStops.
Status(p) == p.enable /\ p.need # ""

\* _WriteHatFile: a line for every property that is set.
HatFile(p) == p

\* WriteConfig: no file for a service that is not enabled or lacks something.
InadynConfig(p) == IF Status(p) THEN p ELSE Default

\* What the program is told for these parameters: its arguments, or to stop.
Args(p) ==
  CASE exporter = "hat"             -> HatFile(p)
    [] exporter = "wisp"            -> p
    [] exporter = "inadyn"          -> InadynConfig(p)
    [] exporter = "igd_time"        -> [Default EXCEPT !.need = p.need]
    [] exporter = "miniupnp"        -> [Default EXCEPT !.enable = Status(p)]
    [] OTHER                        -> IF Status(p) THEN p ELSE Default

\* The export of these parameters took place.
Exported(p) == service' = Args(p) /\ missed' = FALSE

\* Device.Triggered of UPnP rewrites its file and restarts the daemon only for a
\* change; the others are told again.  The outcome of a restart is ignored.
Export(p) ==
  \/ Exported(p)
  \/ /\ exporter # "miniupnp" \/ Args(p) # service    \* the program fails
     /\ missed' = TRUE /\ UNCHANGED service

-----------------------------------------------------------------------------
(* The ACS *)

\* Mutation: an assignment triggers an export only when the object is enabled.
TriggerEnabled(p) ==
  /\ asked' = Args(p)
  /\ IF exporter \in Immediate THEN Export(p) /\ UNCHANGED pending
     ELSE pending' = (pending \/ p.enable) /\ UNCHANGED <<service, missed>>

Trigger(p) ==
  /\ asked' = Args(p)
  /\ IF exporter \in Immediate THEN Export(p) /\ UNCHANGED pending
     ELSE pending' = TRUE /\ UNCHANGED <<service, missed>>

Settable == [enable : BOOLEAN, need : {""} \cup Values, arg : {""} \cup Values]

\* Set one parameter.  Only a value that differs triggers.
SetParam ==
  /\ exporter \notin {"igd_time", "wisp"}
  /\ \E p \in Settable, a \in {"enable", "need", "arg"} :
       /\ p = [params EXCEPT ![a] = p[a]] /\ p # params
       /\ params' = p
       /\ Trigger(p)

\* SetParameterValues faults after this parameter: it is set, and set back.
SetAndRollBack ==
  /\ exporter \notin {"igd_time", "wisp"}
  /\ Trigger(params)
  /\ UNCHANGED params

\* SetLocalTimeZoneName takes any string, and always triggers.
SetLocalTimeZoneName ==
  /\ exporter = "igd_time"
  /\ \E name \in {""} \cup Values :
       /\ params' = [params EXCEPT !.need = name]
       /\ Trigger([params EXCEPT !.need = name])

\* _SetConfiguration refuses what is no JSON before it changes anything; a file that
\* cannot be written is a fault after it did.
SetConfiguration ==
  /\ exporter = "wisp"
  /\ \E json \in Values :
       /\ params' = [params EXCEPT !.need = json]
       /\ Trigger([params EXCEPT !.need = json])

\* DeleteObject of a Service: its list is a plain dict, so that no trigger follows and
\* the daemon serves the domain until another service changes.
DeleteService ==
  /\ exporter = "inadyn" /\ params # Default
  /\ params' = Default
  /\ asked' = Default /\ missed' = TRUE
  /\ UNCHANGED <<pending, service>>

-----------------------------------------------------------------------------
(* The idle ioloop *)

\* WriteConfigs, StartStop and Triggered: they read the parameters now.
RunWhenIdle ==
  /\ pending /\ exporter # "igd_time"
  /\ pending' = FALSE
  /\ Export(params)
  /\ UNCHANGED <<exporter, params, asked, changes>>

\* WriteTimezone: a name with no offset raises ValueError and the files stay; either
\* way the name is forgotten.
WriteTimezone ==
  /\ pending /\ exporter = "igd_time"
  /\ pending' = FALSE
  /\ IF params.need = "" THEN missed' = TRUE /\ UNCHANGED service ELSE Exported(params)
  /\ params' = [params EXCEPT !.need = ""]
  /\ UNCHANGED <<exporter, asked, changes>>

\* The process is killed, or an export raises what nothing catches (a program that is
\* not installed, an offset that is too large, a file that cannot be written).  UPnP
\* removes its file when it starts, and the WISP configuration is read back.
Restart ==
  /\ params' = IF exporter = "wisp" THEN service ELSE Default
  /\ service' = IF exporter = "miniupnp" THEN Default ELSE service
  /\ pending' = FALSE
  /\ asked' = Args(params') /\ missed' = TRUE

-----------------------------------------------------------------------------

Next ==
  \/ /\ changes < MaxChanges /\ changes' = changes + 1
     /\ SetParam \/ SetAndRollBack \/ SetLocalTimeZoneName \/ SetConfiguration
          \/ DeleteService \/ Restart
     /\ UNCHANGED exporter
  \/ RunWhenIdle
  \/ WriteTimezone

Spec == Init /\ [][Next]_vars

-----------------------------------------------------------------------------

TypeOK ==
  /\ exporter \in Exporters
  /\ params \in Settable /\ service \in Settable /\ asked \in Settable
  /\ pending \in BOOLEAN /\ missed \in BOOLEAN
  /\ changes \in 0..MaxChanges

\* Once nothing waits for the idle ioloop, the program runs with what the last
\* assignment asks for, even if that was to stop or was rolled back, unless its export
\* failed or was lost (captive_portal.py:60-73, bluetooth.py:81-98, inadyn.py:49-66).
ServiceAsAsked == ~pending /\ ~missed => service = asked
=============================================================================
