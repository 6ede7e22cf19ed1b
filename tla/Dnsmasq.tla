------------------------------- MODULE Dnsmasq -------------------------------
(***************************************************************************)
(* The DHCPv4 server: dm/dnsmasq.py turns the pools of the ACS into        *)
(* cwmp.conf when the ioloop is idle, and restarts dnsmasq, which is       *)
(* external.  X_CATAWAMPUS_ORG_TextConfig is FileBacked by the same file:  *)
(* its assignments go through the same cwmp.conf.tmp.                      *)
(*                                                                         *)
(* A file is the set of its active lines, one record for each pool and one *)
(* for the URL of the ACS; pools of one Order are written in any order.    *)
(***************************************************************************)
EXTENDS Integers, FiniteSets, Functions

CONSTANTS
  Indices,      \* of Device.DHCPv4.Server.PoolList
  Updates,      \* SetParameterValues on one pool: functions of parameters
  Urls,         \* of the ACS; "" is one of them
  Texts,        \* values of TextConfig; "" is one of them
  MaxChanges    \* bound: changes by the ACS

VARIABLES
  PoolList,       \* a function of the indices in use
  DhcpAcsUrl,
  scheduled,      \* UpdateDnsmasqConfig waits for the idle ioloop
  text_scheduled, \* so does _ReallyWriteFile of TextConfig
  conf, tmp,      \* cwmp.conf and cwmp.conf.tmp
  running,        \* what dnsmasq was last started with
  up,             \* the process runs
  behind,         \* observation only: the last write or restart failed
  text,           \* observation only: TextConfig was ever assigned
  changes         \* changes so far

daemon == <<conf, tmp, running>>
vars == <<PoolList, DhcpAcsUrl, scheduled, text_scheduled, conf, tmp, running, up, behind,
          text, changes>>

\* Enable is None until the ACS assigns it.  "chaddr" stands for the parameters
\* that restrict a pool to some clients, "options" for the others that become
\* lines; an option with a value that is not hexadecimal cannot be written.
Pool ==
  [ Enable : {"None", "True", "False"}, Order : Nat, MinAddress : BOOLEAN,
    MaxAddress : BOOLEAN, chaddr : BOOLEAN, options : {"none", "good", "bad"}, name : Nat ]

\* What is assumed of the constants.
DnsmasqAssumption ==
  /\ IsFiniteSet(Indices) /\ "" \in Urls
  /\ \A u \in Updates : \A p \in DOMAIN u :
       \/ p = "Enable" /\ u[p] \in {"True", "False"}
       \/ p = "Order" /\ u[p] \in Nat
       \/ p \in {"MinAddress", "MaxAddress", "chaddr"} /\ u[p] \in BOOLEAN
       \/ p = "options" /\ u[p] \in {"none", "good", "bad"}

\* A file that is not there has no lines.
Absent == [exists |-> FALSE, lines |-> {}]
File(lines) == [exists |-> TRUE, lines |-> lines]

Init ==
  /\ PoolList = << >> /\ DhcpAcsUrl = ""
  /\ scheduled = FALSE /\ text_scheduled = FALSE
  /\ conf = Absent /\ tmp = Absent /\ running = {}
  /\ up = TRUE
  /\ behind = FALSE /\ text = FALSE
  /\ changes = 0

-----------------------------------------------------------------------------
(* What is written *)

Least(S) == CHOOSE n \in S : \A k \in S : n <= k

\* Mutation: the number of the pools is taken for a name that none has.
NumberOfPools == Cardinality(DOMAIN PoolList)

\* _GetUnusedName: DhcpPoolTags has the names of the pools that exist.
UnusedName ==
  Least({n \in 0..Cardinality(DOMAIN PoolList) :
           \A i \in DOMAIN PoolList : PoolList[i].name # n})

NewPool == [ Enable |-> "None", Order |-> 1, MinAddress |-> FALSE, MaxAddress |-> FALSE,
             chaddr |-> FALSE, options |-> "none", name |-> UnusedName ]

LineIf(wanted, kind, tag) == IF wanted THEN {<<kind, tag>>} ELSE {}

\* The lines that are only for some clients have the pool's tag.
DnsmasqConfig(pool) ==
  LET tag == IF pool.chaddr THEN pool.name ELSE -1 IN
  IF pool.Enable # "True" THEN {}
  ELSE LineIf(pool.MinAddress /\ pool.MaxAddress, "dhcp-range", tag)
       \cup LineIf(pool.chaddr, "dhcp-host", pool.name)
       \cup LineIf(pool.options = "good", "dhcp-option", tag)

\* The place of a pool in the file: sorted by Order
Rank(i) ==
  Cardinality({j \in DOMAIN PoolList :
    DnsmasqConfig(PoolList[j]) # {} /\ PoolList[j].Order < PoolList[i].Order})

Active == \E i \in DOMAIN PoolList : PoolList[i].Enable # "None"

UrlLines == LineIf(DhcpAcsUrl # "", DhcpAcsUrl, -1) \X {-1}

Lines == UrlLines \cup UNION {DnsmasqConfig(PoolList[i]) \X {Rank(i)} : i \in DOMAIN PoolList}

\* unhexlify raises for these, and no one catches it.
Raises == \E i \in DOMAIN PoolList :
            PoolList[i].Enable = "True" /\ PoolList[i].options = "bad"

HasChanged == Lines # conf.lines

\* AtomicFile
WriteFileAtomic(lines) == conf' = File(lines) /\ tmp' = Absent

\* The timeout of WaitUntilIdle.  The open of the .tmp file, its rename or the
\* restart may fail.
UpdateDnsmasqConfig ==
  /\ up /\ scheduled
  /\ scheduled' = FALSE
  /\ IF Active /\ ~Raises /\ HasChanged
     THEN \/ /\ WriteFileAtomic(Lines)
             /\ \/ running' = Lines /\ behind' = FALSE
                \/ UNCHANGED running /\ behind' = TRUE
          \/ /\ tmp' \in {tmp, File(Lines)}
             /\ behind' = TRUE
             /\ UNCHANGED <<conf, running>>
     ELSE UNCHANGED <<daemon, behind>>
  /\ up' = ~(Active /\ Raises)
  /\ text_scheduled' = (up' /\ text_scheduled)
  /\ UNCHANGED <<PoolList, DhcpAcsUrl, text, changes>>

-----------------------------------------------------------------------------
(* TextConfig: FileBacked, with delete_if_empty = FALSE *)

TextLines(v) == LineIf(v # "", v, -1) \X {-2}

SetTextConfig(v) ==
  /\ tmp' = File(TextLines(v))
  /\ text_scheduled' = TRUE
  /\ text' = TRUE
  /\ UNCHANGED <<PoolList, DhcpAcsUrl, scheduled, conf, running, up, behind>>

\* os.rename; when it fails with ENOENT, Unlink.
RenameOrUnlink == conf' = tmp

ReallyWriteFile ==
  /\ up /\ text_scheduled
  /\ text_scheduled' = FALSE
  /\ RenameOrUnlink
  /\ tmp' = Absent
  /\ UNCHANGED <<PoolList, DhcpAcsUrl, scheduled, running, up, behind, text, changes>>

-----------------------------------------------------------------------------
(* The ACS and the process *)

Triggered == scheduled' = TRUE

AddPool(i) ==
  /\ i \notin DOMAIN PoolList
  /\ PoolList' = [j \in DOMAIN PoolList \cup {i} |-> IF j = i THEN NewPool ELSE PoolList[j]]
  /\ Triggered
  /\ UNCHANGED <<DhcpAcsUrl, text_scheduled, daemon, up, behind, text>>

\* __del__ gives the name back.
DeletePool(i) ==
  /\ i \in DOMAIN PoolList
  /\ PoolList' = Restrict(PoolList, DOMAIN PoolList \ {i})
  /\ Triggered
  /\ UNCHANGED <<DhcpAcsUrl, text_scheduled, daemon, up, behind, text>>

\* Mutation: Enable is a parameter like the others, with a value from the start.
SetIfDifferent(i, u) == \E p \in DOMAIN u \ {"Enable"} : u[p] # PoolList[i][p]

\* Enable triggers always, the others when they change.
Triggers(i, u) == "Enable" \in DOMAIN u \/ \E p \in DOMAIN u : u[p] # PoolList[i][p]

SetParameterValues(i, u) ==
  /\ i \in DOMAIN PoolList
  /\ PoolList' = [PoolList EXCEPT ![i] =
       [p \in DOMAIN @ |-> IF p \in DOMAIN u THEN u[p] ELSE @[p]]]
  /\ scheduled' = (scheduled \/ Triggers(i, u))
  /\ UNCHANGED <<DhcpAcsUrl, text_scheduled, daemon, up, behind, text>>

\* A callback of ManagementServer.URL
UrlChanged(url) ==
  /\ url # DhcpAcsUrl
  /\ DhcpAcsUrl' = url
  /\ Triggered
  /\ UNCHANGED <<PoolList, text_scheduled, daemon, up, behind, text>>

\* Pools are not kept.
Restart ==
  /\ up' = TRUE
  /\ PoolList' = << >> /\ DhcpAcsUrl' = ""
  /\ scheduled' = FALSE /\ text_scheduled' = FALSE
  /\ UNCHANGED <<daemon, behind, text, changes>>

Change ==
  \/ \E i \in Indices : AddPool(i) \/ DeletePool(i)
  \/ \E i \in Indices, u \in Updates : SetParameterValues(i, u)
  \/ \E url \in Urls : UrlChanged(url)
  \/ \E v \in Texts : SetTextConfig(v)

Next ==
  \/ UpdateDnsmasqConfig
  \/ ReallyWriteFile
  \/ up /\ changes < MaxChanges /\ changes' = changes + 1 /\ Change
  \/ Restart

Spec == Init /\ [][Next]_vars

-----------------------------------------------------------------------------
(* Properties *)

TypeOK ==
  /\ \A i \in DOMAIN PoolList : i \in Indices /\ PoolList[i] \in Pool
  /\ \A i, j \in DOMAIN PoolList : PoolList[i].name = PoolList[j].name => i = j
  /\ DhcpAcsUrl \in Urls
  /\ scheduled \in BOOLEAN /\ text_scheduled \in BOOLEAN /\ up \in BOOLEAN

\* Once the ACS has configured a pool, and unless it writes the file itself, the
\* idle ioloop leaves in the file, and in a dnsmasq that could be restarted, what
\* the pools say; after a restart of the process it is the new pools that count.
PoolsServed ==
  up /\ ~scheduled /\ ~text /\ ~behind /\ Active =>
    Lines = conf.lines /\ running = conf.lines
=============================================================================
