--------------------------------- MODULE Nat ---------------------------------
(***************************************************************************)
(* Port forwarding: Device.NAT of dm/nat.py.  Every change of a mapping    *)
(* schedules WriteConfigs, which writes four files when the ioloop is idle *)
(* and runs update-acs-iptables, which is external and may fail.           *)
(*                                                                         *)
(* Description, LeaseDuration (0 is the only valid one) and the escaping   *)
(* of the fields are left out.  A file of rules is, for each precedence,   *)
(* the set of its rules: the order within one is that of a Python dict.    *)
(***************************************************************************)
EXTENDS Integers, Functions

CONSTANTS
  Indices,       \* of PortMappingList
  DmzIndices,    \* of X_CATAWAMPUS_ORG_DmzMappingList
  IPInterfaces,  \* names of Device.IP.Interface.{i} objects
  V4, V6, Names, \* values of InternalClient: addresses, and host names
  Ports,         \* without 0
  Updates,       \* SetParameterValues on one mapping: functions of parameters
  DmzPairs,      \* values of a DmzMapping, <<LanAddress, WanAddress>>
  MaxChanges     \* bound: changes of mappings and addresses

\* What is assumed of the constants.
NatAssumption ==
  /\ V4 \cap V6 = {} /\ Names \cap (V4 \cup V6) = {} /\ "" \notin V4 \cup V6 \cup Names
  /\ "" \notin IPInterfaces
  /\ Ports \subseteq Nat \ {0} /\ MaxChanges \in Nat
  /\ \A u \in Updates : \A p \in DOMAIN u :
       \/ p \in {"Enable", "AllInterfaces"} /\ u[p] \in BOOLEAN
       \/ p = "interface" /\ u[p] \in IPInterfaces \cup {""}
       \/ p = "InternalClient" /\ u[p] \in V4 \cup V6 \cup Names \cup {""}
       \/ p = "RemoteHost" /\ u[p] \in V4 \cup {""}
       \/ p = "Protocol" /\ u[p] \in {"", "TCP", "UDP"}
       \/ /\ p \in {"InternalPort", "ExternalPort", "ExternalPortEndRange", "PortRangeSize"}
          /\ u[p] \in Ports \cup {0}

VARIABLES
  PortMappingList, DmzMappingList,   \* functions of the indices in use
  ip,         \* the addresses of the interfaces in the data model, now
  scheduled,  \* WriteConfigs waits for the idle ioloop
  files,      \* the four files
  applied,    \* the files when update-acs-iptables last succeeded
  written,    \* observation only: the addresses that the last WriteConfigs found,
              \*   and whether it succeeded
  changes     \* changes so far

vars == <<PortMappingList, DmzMappingList, ip, scheduled, files, applied, written, changes>>

Clients == V4 \cup V6 \cup Names \cup {""}

Mapping ==
  [ Enable : BOOLEAN, AllInterfaces : BOOLEAN, interface : IPInterfaces \cup {""},
    InternalClient : Clients, RemoteHost : V4 \cup {""}, Protocol : {"", "TCP", "UDP"},
    InternalPort : Ports \cup {0}, ExternalPort : Ports \cup {0},
    ExternalPortEndRange : Ports \cup {0}, PortRangeSize : Ports \cup {0} ]

NewMapping ==
  [ Enable |-> FALSE, AllInterfaces |-> FALSE, interface |-> "", InternalClient |-> "",
    RemoteHost |-> "", Protocol |-> "", InternalPort |-> 0, ExternalPort |-> 0,
    ExternalPortEndRange |-> 0, PortRangeSize |-> 0 ]

\* An interface that was deleted; one can be there with no address.
Gone == [exists |-> FALSE, v4 |-> "", v6 |-> ""]
Addresses == {Gone} \cup [exists : {TRUE}, v4 : V4 \cup {""}, v6 : V6 \cup {""}]

NoFiles == [rules4 |-> [p \in 1..4 |-> {}], rules6 |-> [p \in 1..4 |-> {}],
            dmz4 |-> {}, dmz6 |-> ""]

Init ==
  /\ PortMappingList = << >> /\ DmzMappingList = << >>
  /\ ip \in [IPInterfaces -> Addresses]
  /\ scheduled = FALSE
  /\ files = NoFiles /\ applied = NoFiles
  /\ written = [ok |-> FALSE, ip |-> ip]
  /\ changes = 0

-----------------------------------------------------------------------------
(* What is written *)

\* The reference to a deleted interface reads as an empty string.
Interface(x, addresses) ==
  IF x.interface # "" /\ addresses[x.interface].exists THEN x.interface ELSE ""

IsDmzComplete(x) == x.InternalClient # "" /\ x.InternalPort = 0 /\ x.ExternalPort = 0

IsNatComplete(x, addresses) ==
  /\ x.InternalPort # 0 /\ x.InternalClient # "" /\ x.Protocol # ""
  /\ x.AllInterfaces \/ Interface(x, addresses) # ""

Precedence(x) ==
  CASE x.RemoteHost # "" /\ x.ExternalPort # 0 -> 1
    [] x.RemoteHost # "" /\ x.ExternalPort = 0 -> 2
    [] x.RemoteHost = "" /\ x.ExternalPort # 0 -> 3
    [] OTHER -> 4

\* The same number of ports on both sides, from each first port on.
LastPort(first, x) == IF x.PortRangeSize # 0 THEN first + x.PortRangeSize - 1 ELSE first

CommonConfigLines(i, x, source, gateway) ==
  [ idx |-> i, protocol |-> x.Protocol, client |-> x.InternalClient,
    sport |-> <<x.ExternalPort, IF x.PortRangeSize = 0 /\ x.ExternalPortEndRange # 0
                                THEN x.ExternalPortEndRange
                                ELSE LastPort(x.ExternalPort, x)>>,
    dport |-> <<x.InternalPort, LastPort(x.InternalPort, x)>>,
    source |-> source, gateway |-> gateway ]

\* The rules of a mapping: none or one.
ConfigLinesIP4(i, x, addresses) ==
  LET gateway == IF x.AllInterfaces THEN "0/0" ELSE addresses[x.interface].v4 IN
  IF /\ x.Enable /\ IsNatComplete(x, addresses)
     /\ x.InternalClient \notin V6
     /\ gateway # ""
  THEN {CommonConfigLines(i, x, IF x.RemoteHost = "" THEN "0/0" ELSE x.RemoteHost, gateway)}
  ELSE {}

\* A RemoteHost is always an IPv4 address: no IPv6 rule is for one.
ConfigLinesIP6(i, x, addresses) ==
  LET gateway == IF x.AllInterfaces THEN "::/0" ELSE addresses[x.interface].v6 IN
  IF /\ x.Enable /\ IsNatComplete(x, addresses)
     /\ x.InternalClient \notin V4
     /\ x.RemoteHost = ""
     /\ gateway # ""
  THEN {CommonConfigLines(i, x, "::/0", gateway)}
  ELSE {}

DmzClients(mappings, others) ==
  {mappings[i].InternalClient : i \in
     {j \in DOMAIN mappings : /\ mappings[j].Enable /\ IsDmzComplete(mappings[j])
                              /\ mappings[j].InternalClient \notin others}}

DmzIP4 == {<<c>> : c \in DmzClients(PortMappingList, V6)}
          \cup {p \in Range(DmzMappingList) : p[1] # "" /\ p[2] # ""}

\* One of the clients: which one depends on the order of a Python dict.
DmzIP6(d) == d \in DmzClients(PortMappingList, V4) \/
             (d = "" /\ DmzClients(PortMappingList, V4) = {})

\* In the order of their precedence, the lines of each mapping.
RulesWith(lines, mappings) ==
  [p \in 1..4 |-> UNION {lines[i] : i \in {j \in DOMAIN mappings : Precedence(mappings[j]) = p}}]

Configs(mappings, addresses, dmz4, dmz6) ==
  [ rules4 |-> RulesWith([i \in DOMAIN mappings |-> ConfigLinesIP4(i, mappings[i], addresses)], mappings),
    rules6 |-> RulesWith([i \in DOMAIN mappings |-> ConfigLinesIP6(i, mappings[i], addresses)], mappings),
    dmz4 |-> dmz4, dmz6 |-> dmz6 ]

\* The timeout of WaitUntilIdle: the files are written one after the other, and
\* an error at any of them, or of the command, ends the update.
WriteConfigs ==
  /\ scheduled
  /\ scheduled' = FALSE
  /\ \E dmz6 \in Clients, done \in SUBSET DOMAIN files :
       LET new == Configs(PortMappingList, ip, DmzIP4, dmz6) IN
       /\ DmzIP6(dmz6)
       /\ done \in {{}, {"rules4"}, {"rules4", "rules6"}, {"rules4", "rules6", "dmz4"},
                    DOMAIN files}
       /\ files' = [f \in DOMAIN files |-> IF f \in done THEN new[f] ELSE files[f]]
       /\ \E ok \in BOOLEAN :
            /\ ok => done = DOMAIN files
            /\ applied' = IF ok THEN files' ELSE applied
            /\ written' = [ok |-> ok, ip |-> ip]
  /\ UNCHANGED <<PortMappingList, DmzMappingList, ip, changes>>

-----------------------------------------------------------------------------
(* The ACS *)

\* Mutation: the dict triggers for new entries only.
DeletedUnseen == UNCHANGED scheduled

\* _TriggerDict
Triggered == scheduled' = TRUE

AddPortMapping(i) ==
  /\ i \notin DOMAIN PortMappingList
  /\ PortMappingList' = [j \in DOMAIN PortMappingList \cup {i} |->
                           IF j = i THEN NewMapping ELSE PortMappingList[j]]
  /\ Triggered
  /\ UNCHANGED <<DmzMappingList, ip, files, applied, written>>

DeletePortMapping(i) ==
  /\ i \in DOMAIN PortMappingList
  /\ PortMappingList' = Restrict(PortMappingList, DOMAIN PortMappingList \ {i})
  /\ Triggered
  /\ UNCHANGED <<DmzMappingList, ip, files, applied, written>>

\* Parameters are Trigger()s; the setter of Interface triggers always, and raises
\* for an interface that does not exist: then the other parameters are assigned
\* back, triggering too.
SetParameterValues(i, u) ==
  /\ i \in DOMAIN PortMappingList
  /\ LET old   == PortMappingList[i]
         new   == [p \in DOMAIN old |-> IF p \in DOMAIN u THEN u[p] ELSE old[p]]
         fault == "interface" \in DOMAIN u /\ (u.interface = "" \/ ~ip[u.interface].exists)
     IN  /\ PortMappingList' = IF fault THEN PortMappingList
                               ELSE [PortMappingList EXCEPT ![i] = new]
         /\ scheduled' = \/ scheduled
                         \/ \E p \in DOMAIN u \ {"interface"} : u[p] # old[p]
                         \/ ~fault /\ "interface" \in DOMAIN u
  /\ UNCHANGED <<DmzMappingList, ip, files, applied, written>>

\* A new DmzMapping has two empty addresses.
SetDmzMapping(i, pair) ==
  /\ DmzMappingList' = [j \in DOMAIN DmzMappingList \cup {i} |->
                          IF j = i THEN pair ELSE DmzMappingList[j]]
  /\ DmzMappingList' # DmzMappingList
  /\ Triggered
  /\ UNCHANGED <<PortMappingList, ip, files, applied, written>>

DeleteDmzMapping(i) ==
  /\ i \in DOMAIN DmzMappingList
  /\ DmzMappingList' = Restrict(DmzMappingList, DOMAIN DmzMappingList \ {i})
  /\ Triggered
  /\ UNCHANGED <<PortMappingList, ip, files, applied, written>>

\* The device gets and loses interfaces and addresses: nothing is scheduled.
AddressChanges(n) ==
  /\ \E a \in Addresses : ip' = [ip EXCEPT ![n] = a]
  /\ ip' # ip
  /\ UNCHANGED <<PortMappingList, DmzMappingList, scheduled, files, applied, written>>

Change ==
  \/ \E i \in Indices : AddPortMapping(i) \/ DeletePortMapping(i)
  \/ \E i \in Indices, u \in Updates : SetParameterValues(i, u)
  \/ \E i \in DmzIndices, pair \in DmzPairs : SetDmzMapping(i, pair)
  \/ \E i \in DmzIndices : DeleteDmzMapping(i)
  \/ \E n \in IPInterfaces : AddressChanges(n)

Next ==
  \/ WriteConfigs
  \/ changes < MaxChanges /\ changes' = changes + 1 /\ Change

Spec == Init /\ [][Next]_vars

-----------------------------------------------------------------------------
(* Properties *)

TypeOK ==
  /\ \A i \in DOMAIN PortMappingList : i \in Indices /\ PortMappingList[i] \in Mapping
  /\ \A i \in DOMAIN DmzMappingList : i \in DmzIndices /\ DmzMappingList[i] \in DmzPairs
  /\ ip \in [IPInterfaces -> Addresses]
  /\ scheduled \in BOOLEAN

\* After an update that succeeded, and with none waiting, the firewall forwards
\* what the mappings of the ACS say, in the order of their precedence, through
\* the addresses that the interfaces had: no change of a mapping, deletions and
\* faults included, goes without an update.
MappingsApplied ==
  ~scheduled /\ written.ok =>
    /\ applied = files
    /\ \E dmz6 \in Clients :
         DmzIP6(dmz6) /\ files = Configs(PortMappingList, written.ip, DmzIP4, dmz6)
=============================================================================
