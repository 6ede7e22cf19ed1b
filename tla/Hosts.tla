-------------------------------- MODULE Hosts --------------------------------
(***************************************************************************)
(* Device.Hosts of dm/host.py: the table of the hosts on the home network, *)
(* put together from ten sources, one read after the other, when a session *)
(* first asks for it.  The sources are external and change at any time,    *)
(* between two reads too: each read finds any entries.                     *)
(*                                                                         *)
(* A host is a record of the keywords of Host(); those that are only       *)
(* copied (identifiers of DHCP options, taxonomies) are left out.          *)
(***************************************************************************)
EXTENDS Naturals, Sequences, FiniteSets, Functions

CONSTANTS
  Macs,        \* addresses of hosts, in lower case
  Wifi, Moca, Ethernet,  \* parameter paths of layer 1 interfaces
  NetDevs,     \* names of network devices
  LinkPath,    \* the interface of a device; NoPath for a bridge
  Ip4, Ip6,    \* addresses of hosts
  HostNames    \* NoName is one of them

NoPath == "none"  \* empty texts
NoName == "none"

\* What is assumed of the constants.
HostsAssumption ==
  /\ LinkPath \in [NetDevs -> Wifi \cup Moca \cup Ethernet \cup {NoPath}]
  /\ Wifi \cap Moca = {} /\ Ethernet \cap (Wifi \cup Moca) = {}
  /\ NoPath \notin Wifi \cup Moca \cup Ethernet

VARIABLES
  step,     \* the sources read so far
  hosts,    \* a function of the addresses found so far
  HostList, \* the cached result: a function of indices, or empty before it is there
  cached,   \* the session's cache has it
  awake     \* observation only: the addresses that a source reported as active

vars == <<step, hosts, HostList, cached, awake>>

ReadOrder == <<"arp", "neigh", "bridges", "ethernets", "wifi", "moca", "dhcp", "names">>

Nothing == [Active |-> FALSE, Layer1Interface |-> NoPath, AssociatedDevice |-> NoPath, ip4 |-> {},
            ip6 |-> {}, DHCPClient |-> FALSE, HostName |-> NoName]

Init ==
  /\ step = 0
  /\ hosts = << >> /\ HostList = << >>
  /\ cached = FALSE
  /\ awake = {}

-----------------------------------------------------------------------------
(* One entry of a source about the host with address mac *)

Host(mac) == IF mac \in DOMAIN hosts THEN hosts[mac] ELSE Nothing

\* A device that is no layer 1 interface says nothing new.
AddLayer1Interface(h, dev) ==
  IF LinkPath[dev] = NoPath THEN h ELSE [h EXCEPT !.Layer1Interface = LinkPath[dev]]

Arp(h, dev, ip) == [AddLayer1Interface(h, dev) EXCEPT !.Active = TRUE, !.ip4 = @ \cup {ip}]

\* Mutation: the last source to speak of a host decides.
NeighborDecides(h, dev, ip, active) ==
  [AddLayer1Interface(h, dev) EXCEPT !.Active = active, !.ip6 = @ \cup {ip}]

\* Only a reachable neighbor is active; the others keep what is known.
Neighbor(h, dev, ip, active) ==
  [AddLayer1Interface(h, dev) EXCEPT !.Active = @ \/ active, !.ip6 = @ \cup {ip}]

Bridged(h, dev) == [AddLayer1Interface(h, dev) EXCEPT !.Active = TRUE]

OnEthernet(h, path) == [h EXCEPT !.Layer1Interface = path, !.Active = TRUE]

\* A station of a Wifi network, or a node of a MoCA network
Associated(h, path) ==
  [h EXCEPT !.AssociatedDevice = path, !.Layer1Interface = path, !.Active = TRUE]

\* A lease does not make a host active.
Leased(h, ips, name) ==
  [h EXCEPT !.DHCPClient = TRUE, !.ip4 = @ \cup ips, !.HostName = name]

\* The name of the DHCP request is preferred.
HostNameOf(h, dnssd, netbios) ==
  IF h.HostName # NoName THEN h.HostName ELSE IF dnssd # NoName THEN dnssd ELSE netbios

\* The names are looked up by address.
Named(h, dnssd, netbios) ==
  IF h.ip4 \cup h.ip6 = {} THEN h ELSE [h EXCEPT !.HostName = HostNameOf(h, dnssd, netbios)]

-----------------------------------------------------------------------------

\* The order of the calls in _GetHostList.
Reading(source) == ~cached /\ step < Len(ReadOrder) /\ ReadOrder[step + 1] = source

\* The source has entries for the addresses of new, and makes them the hosts new.
Entries(new) ==
  /\ hosts' = [mac \in DOMAIN hosts \cup DOMAIN new |->
                 IF mac \in DOMAIN new THEN new[mac] ELSE hosts[mac]]
  /\ step' = step + 1
  /\ awake' = awake \cup {mac \in DOMAIN new : new[mac].Active}
  /\ UNCHANGED <<HostList, cached>>

GetHostsFromArpTable ==
  /\ Reading("arp")
  /\ \E found \in SUBSET Macs : \E dev \in [found -> NetDevs], ip \in [found -> Ip4] :
       Entries([mac \in found |-> Arp(Host(mac), dev[mac], ip[mac])])

GetHostsFromIp6Neigh ==
  /\ Reading("neigh")
  /\ \E found \in SUBSET Macs :
       \E dev \in [found -> NetDevs], ip \in [found -> Ip6], active \in [found -> BOOLEAN] :
         Entries([mac \in found |-> Neighbor(Host(mac), dev[mac], ip[mac], active[mac])])

\* A bridge that cannot be read is skipped: some of its entries may be missing.
GetHostsFromBridges ==
  /\ Reading("bridges")
  /\ \E found \in SUBSET Macs : \E dev \in [found -> NetDevs] :
       Entries([mac \in found |-> Bridged(Host(mac), dev[mac])])

GetHostsFromEthernets ==
  /\ Reading("ethernets")
  /\ \E found \in SUBSET Macs : \E path \in [found -> Ethernet] :
       Entries([mac \in found |-> OnEthernet(Host(mac), path[mac])])

GetHostsFromWifiAssociatedDevices ==
  /\ Reading("wifi")
  /\ \E found \in SUBSET Macs : \E path \in [found -> Wifi] :
       Entries([mac \in found |-> Associated(Host(mac), path[mac])])

GetHostsFromMocaAssociatedDevices ==
  /\ Reading("moca")
  /\ \E found \in SUBSET Macs : \E path \in [found -> Moca] :
       Entries([mac \in found |-> Associated(Host(mac), path[mac])])

GetHostsFromDhcpServers ==
  /\ Reading("dhcp")
  /\ \E found \in SUBSET Macs :
       \E ips \in [found -> SUBSET Ip4], name \in [found -> HostNames] :
         Entries([mac \in found |-> Leased(Host(mac), ips[mac], name[mac])])

\* Only hosts that were found get names; one that gets none keeps what it has.
PopulateDiscoveredHostnames ==
  /\ Reading("names")
  /\ \E dnssd, netbios \in [DOMAIN hosts -> HostNames] :
       Entries([mac \in DOMAIN hosts |-> Named(hosts[mac], dnssd[mac], netbios[mac])])

\* The indices are in the order of a Python dict.
GetHostList ==
  /\ ~cached /\ step = Len(ReadOrder)
  /\ \E mac \in Bijection(1..Cardinality(DOMAIN hosts), DOMAIN hosts) :
       HostList' = [i \in DOMAIN mac |->
                      [PhysAddress |-> mac[i], host |-> hosts[mac[i]]]]
  /\ cached' = TRUE
  /\ UNCHANGED <<step, hosts, awake>>

\* The cache is flushed at the end of the session.
EndSession ==
  /\ cached
  /\ cached' = FALSE
  /\ step' = 0 /\ hosts' = << >> /\ HostList' = << >> /\ awake' = {}

Next ==
  \/ GetHostsFromArpTable
  \/ GetHostsFromIp6Neigh
  \/ GetHostsFromBridges
  \/ GetHostsFromEthernets
  \/ GetHostsFromWifiAssociatedDevices
  \/ GetHostsFromMocaAssociatedDevices
  \/ GetHostsFromDhcpServers
  \/ PopulateDiscoveredHostnames
  \/ GetHostList
  \/ EndSession

Spec == Init /\ [][Next]_vars

-----------------------------------------------------------------------------
(* Properties *)

TypeOK ==
  /\ step \in 0..Len(ReadOrder) /\ cached \in BOOLEAN
  /\ DOMAIN hosts \subseteq Macs
  /\ awake \subseteq Macs

\* However the sources change while they are read: a host has one entry, which is
\* active if and only if some source saw it, and which is associated with an access
\* point only if that is its layer 1 interface.
HostsConsistent ==
  /\ \A i, j \in DOMAIN HostList :
       HostList[i].PhysAddress = HostList[j].PhysAddress => i = j
  /\ \A i \in DOMAIN HostList :
       LET h == HostList[i].host IN
       /\ h.Active <=> HostList[i].PhysAddress \in awake
       /\ h.AssociatedDevice # NoPath => h.Layer1Interface = h.AssociatedDevice
=============================================================================
