---------------------------- MODULE IpInterface ----------------------------
(***************************************************************************)
(* dm/ipinterface.py: the IPv4 addresses of an interface.  The list of the *)
(* address objects is read from the kernel once per session (the session   *)
(* cache); a write marks the interface, and when the main loop is idle the *)
(* complete addresses of the list are handed to tr69_ipconfig.             *)
(*                                                                         *)
(* An address is <<ip, mask>>; NoIp and NoMask stand for the empty strings *)
(* a new object has.  A list is a function from indices to addresses;      *)
(* NoList stands for a list that is not in the cache.                      *)
(***************************************************************************)
EXTENDS Integers, FiniteSets, Functions

CONSTANTS Ips, Masks,   \* addresses; lengths of masks, -1 for a mask with holes
          MaxIndex      \* bound of the indices

\* What is assumed of the constants.
IpAssumption == Masks \subseteq -1..32 /\ MaxIndex \in Nat \ {0}

NoIp == "none"
NoMask == 0
NoList == [i \in {0} |-> <<NoIp, NoMask>>]

VARIABLES
  socket,    \* the command socket is used to write, too
  kernel,    \* the addresses the interface has
  list,      \* IPv4AddressList, NoList when the session cache has none
  lastindex, \* _lastindex of the interface object
  pending,   \* UpdateConfig waits for the loop to be idle
  intended   \* history: the complete addresses after the last write

ipVars == <<socket, kernel, list, lastindex, pending, intended>>

\* A mask is the function of its W bits, 0 the lowest.
Masked(W) == [0..(W - 1) -> {0, 1}]

\* Mutation: the ones are counted.
CountOnes(m, W) == Cardinality({i \in 0..(W - 1) : m[i] = 1})

\* _ConvertMaskToCIDR walks the bits from the lowest: a zero above a one makes it -1.
ConvertMaskToCIDR(m, W) ==
  IF \E i, j \in 0..(W - 1) : i < j /\ m[i] = 1 /\ m[j] = 0 THEN -1
  ELSE W - Cardinality({i \in 0..(W - 1) : \A j \in 0..i : m[j] = 0})

Complete(l) == {a \in Range(l) : a[1] # NoIp /\ a[2] # NoMask}

\* The kernel's addresses in some order (sorted by their contents), from 1.
Enumerations(s) == {l \in [1..Cardinality(s) -> s] : IsInjective(l)}
Lists == IF list # NoList THEN {list} ELSE Enumerations(kernel)

Init == /\ socket \in BOOLEAN
        /\ kernel \in {{<<ip, m>>} : ip \in Ips, m \in Masks \ {-1}}
        /\ list = NoList /\ lastindex = 0 /\ pending = FALSE /\ intended = {}
---------------------------------------------------------------------------
\* A getter, or the lookup of a path, needs the list.
Read == /\ list = NoList
        /\ list' \in Lists
        /\ UNCHANGED <<socket, kernel, lastindex, pending, intended>>

\* AddObject: the keys are strings, so the next free index is found.  The new object
\* is empty and triggers nothing.
AddObject ==
  /\ \E l \in Lists :
       LET free == {i \in (lastindex + 1)..MaxIndex : i \notin DOMAIN l}
           new  == CHOOSE i \in free : \A j \in free : i <= j
       IN /\ free # {}
          /\ lastindex' = new
          /\ list' = [i \in DOMAIN l \cup {new} |-> IF i = new THEN <<NoIp, NoMask>> ELSE l[i]]
  /\ UNCHANGED <<socket, kernel, pending, intended>>

\* DeleteObject triggers nothing either.
DeleteObject ==
  /\ \E l \in Lists, i \in 1..MaxIndex :
       /\ i \in DOMAIN l
       /\ list' = Restrict(l, DOMAIN l \ {i})
  /\ UNCHANGED <<socket, kernel, lastindex, pending, intended>>

\* A write of IPAddress or SubnetMask.  Triggered is called if the value changes.
Written(l, i, a) ==
  /\ i \in DOMAIN l /\ a # l[i] /\ (a[1] = l[i][1] \/ a[2] = l[i][2])
  /\ pending' = TRUE
  /\ intended' = Complete([l EXCEPT ![i] = a])

SetParameterValues ==
  /\ \E l \in Lists, i \in 1..MaxIndex, a \in (Ips \cup {NoIp}) \X (Masks \cup {NoMask}) :
       /\ Written(l, i, a)
       /\ list' = [l EXCEPT ![i] = a]
  /\ UNCHANGED <<socket, kernel, lastindex>>

\* "set" of the command socket: ProcessBlock flushes the session cache before the
\* loop is idle.
CmdSet ==
  /\ socket
  /\ \E l \in Lists, i \in 1..MaxIndex, a \in (Ips \cup {NoIp}) \X (Masks \cup {NoMask}) :
       Written(l, i, a)
  /\ list' = NoList
  /\ UNCHANGED <<socket, kernel, lastindex>>

\* Mutation: the list is read again in any case.
UpdateFromKernel ==
  /\ pending
  /\ pending' = FALSE
  /\ list' \in Enumerations(kernel)
  /\ kernel' = IF \E a \in Complete(list') : a[2] = -1 THEN kernel ELSE Complete(list')
  /\ UNCHANGED <<socket, lastindex, intended>>

\* UpdateConfig: the list is read again if the cache lost it.  A mask with holes is
\* handed over like any other; the command fails.
UpdateConfig ==
  /\ pending
  /\ pending' = FALSE
  /\ list' \in Lists
  /\ kernel' = IF \E a \in Complete(list') : a[2] = -1 THEN kernel ELSE Complete(list')
  /\ UNCHANGED <<socket, lastindex, intended>>

\* The end of a session flushes the cache; the idle callback of a write has run by the
\* time the ACS can answer it.
CloseSession ==
  /\ ~pending
  /\ list' = NoList
  /\ UNCHANGED <<socket, kernel, lastindex, pending, intended>>

\* The address the interface got from elsewhere changes (a DHCP lease).
Lease == /\ \E ip \in Ips, m \in Masks \ {-1} : kernel' = {<<ip, m>>}
         /\ kernel' # kernel
         /\ UNCHANGED <<socket, list, lastindex, pending, intended>>

Next == \/ Read \/ AddObject \/ DeleteObject \/ SetParameterValues \/ CmdSet
        \/ UpdateConfig \/ CloseSession \/ Lease
Spec == Init /\ [][Next]_ipVars
---------------------------------------------------------------------------
TypeOK == /\ kernel \subseteq Ips \X Masks /\ DOMAIN list \subseteq 0..MaxIndex
          /\ Range(list) \subseteq (Ips \cup {NoIp}) \X (Masks \cup {NoMask})
          /\ lastindex \in 0..MaxIndex /\ pending \in BOOLEAN
          /\ intended \subseteq Ips \X Masks

\* As long as only the ACS writes, what is applied is what the last write asked for,
\* whatever sessions and leases come in between, unless the command refuses a mask or an
\* object was deleted (IPInterfaceLinux26.UpdateConfig).  A write through the command
\* socket is lost: its flush comes before the loop is idle.
WritesApplied ==
  [][UpdateConfig /\ ~socket =>
       \/ kernel' = intended
       \/ \E a \in intended : a[2] = -1
       \/ Complete(list) # intended /\ list # NoList]_ipVars

\* The length found for every mask of W bits is that of the ones it starts with, and
\* -1 exactly if others follow (_ConvertMaskToCIDR).
CIDRCorrect(W) ==
  \A m \in Masked(W) :
    LET ones(n) == \A i \in 0..(W - 1) : m[i] = 1 <=> i >= W - n
        found == ConvertMaskToCIDR(m, W)
    IN IF \E n \in 0..W : ones(n) THEN ones(found) /\ found \in 0..W ELSE found = -1
===========================================================================
