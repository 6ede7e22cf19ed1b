-------------------------------- MODULE DiagUi --------------------------------
(***************************************************************************)
(* The pages of src/diagui/main.py that show live data.  A page asks for   *)
(* the data with the checksum of what it has.  If that is still the        *)
(* checksum of the data, the request waits for a change, one second at     *)
(* most.  Changes come from notifiers of the data model and from inotify;  *)
(* some of the data changes unnoticed and is only read when a page asks.   *)
(*                                                                         *)
(* The checksum is modelled by the data it was computed from.              *)
(***************************************************************************)
EXTENDS Naturals, FiniteSets, Sequences

CONSTANTS
  TechPages,   \* the pages that show the TechUI
  DiagPages,   \* the pages that show the DiagUI
  MaxBoxes,    \* bound: the TV boxes among the hosts
  MaxChanges   \* bound: the changes of what is shown

\* What is assumed of the constants.
DiagUiAssumption ==
  /\ TechPages \cap DiagPages = {}
  /\ MaxBoxes \in Nat /\ MaxChanges \in Nat

VARIABLES
  world,        \* what the data model and the files say now, part by part
  data,         \* ui.data, for each user interface
  checksum,     \* ui.data['checksum'], for each
  callbacklist, \* the pages that wait for an answer
  asked,        \* the checksum that a page gave with its last request
  shown,        \* the checksum of the last answer to a page
  gather,       \* the request that asks all TV boxes: idle, open or closed
  outstanding,  \* its outstanding_requests
  changes       \* bound: changes so far

vars == <<world, data, checksum, callbacklist, asked, shown, gather, outstanding, changes>>

Uis == {"tech", "diag"}
Pages == TechPages \cup DiagPages
Ui(p) == IF p \in TechPages THEN "tech" ELSE "diag"

TechParts == {"hosts", "moca", "wifi", "aps", "onu"}
Parts(ui) == IF ui = "tech" THEN TechParts ELSE {"diag"}

\* A checksum that no data has: what a page gives at first.
NoChecksum(ui) == [q \in Parts(ui) |-> MaxBoxes + MaxChanges + 1]

\* SetTechUIDict, for some parts: they are read again.
Reread(d, parts) == [q \in DOMAIN d |-> IF q \in parts THEN world[q] ELSE d[q]]

\* UpdateOnuStats
UpdateOnuStats(d) == Reread(d, {"onu"})

\* The TV boxes among the hosts that were read last.
FindTVBoxes == data["tech"]["hosts"]

-----------------------------------------------------------------------------
\* Send(False) answers if the checksum is not the one that the page gave; it
\* is called when an update has changed old into new.

\* Mutation: the checksum is not updated before the callbacks are called.
SendsOld(p, old, new) == new # old /\ old # asked[p]

Sends(p, old, new) == new # old /\ new # asked[p]

\* What a waiting page is sent during a sequence of updates, if anything:
\* the position of the first update that answers it.
Answering(p, versions) ==
  {i \in 2..Len(versions) :
     /\ Sends(p, versions[i - 1], versions[i])
     /\ \A j \in 2..(i - 1) : ~Sends(p, versions[j - 1], versions[j])}

\* NotifyUpdatedDict after each of a sequence of updates of ui.
Notify(ui, versions) ==
  LET waiting == {p \in callbacklist : Ui(p) = ui}
      sent == {p \in waiting : Answering(p, versions) # {}}
  IN /\ callbacklist' = callbacklist \ sent
     /\ shown' = [p \in Pages |->
                    IF p \in sent THEN versions[CHOOSE i \in Answering(p, versions) : TRUE]
                    ELSE shown[p]]

Changed(old, new, sum) == IF new # old THEN new ELSE sum

-----------------------------------------------------------------------------
\* A user interface that has read nothing yet.
NothingRead(ui) == [q \in Parts(ui) |-> 0]

Init ==
  /\ world = [q \in TechParts \cup {"diag"} |-> 0]
  /\ data = [ui \in Uis |-> NothingRead(ui)]
  /\ checksum = [ui \in Uis |-> NoChecksum(ui)]
  /\ callbacklist = {}
  /\ asked = [p \in Pages |-> NoChecksum(Ui(p))]
  /\ shown = [p \in Pages |-> NoChecksum(Ui(p))]
  /\ gather = "idle" /\ outstanding = 0 /\ changes = 0

\* Something that is shown changes.  The value of hosts is the number of TV
\* boxes among them.
WorldChanges(q, v) ==
  /\ changes < MaxChanges /\ changes' = changes + 1
  /\ v # world[q] /\ (q # "hosts" => v <= changes')
  /\ world' = [world EXCEPT ![q] = v]
  /\ UNCHANGED <<data, checksum, callbacklist, asked, shown, gather, outstanding>>

\* UpdateMocaDict, UpdateWifiDict or UpdateAPDict, called by a notifier.
UpdatePart(q) ==
  /\ q \in {"moca", "wifi", "aps"}
  /\ LET old == data["tech"] new == Reread(old, {q}) IN
     /\ data' = [data EXCEPT !["tech"] = new]
     /\ checksum' = [checksum EXCEPT !["tech"] = Changed(old, new, @)]
     /\ Notify("tech", <<old, new>>)
  /\ UNCHANGED <<world, asked, gather, outstanding, changes>>

\* DiagUI.AlertNotifiers calls the callbacks whether or not anything changed.
AlertNotifiers ==
  /\ LET new == Reread(data["diag"], {"diag"}) IN
     /\ data' = [data EXCEPT !["diag"] = new]
     /\ checksum' = [checksum EXCEPT !["diag"] = new]
     /\ Notify("diag", <<NoChecksum("diag"), new>>)
  /\ UNCHANGED <<world, asked, gather, outstanding, changes>>

\* JsonGet: the page gives the checksum of its last answer.  Either the data
\* is another, and is sent at once, or the page waits.
Answer(p, sum) ==
  /\ asked' = [asked EXCEPT ![p] = shown[p]]
  /\ IF sum # shown[p]
       THEN shown' = [shown EXCEPT ![p] = sum] /\ UNCHANGED callbacklist
       ELSE callbacklist' = callbacklist \cup {p} /\ UNCHANGED shown

GetDiagUI(p) ==
  /\ p \in DiagPages \ callbacklist
  /\ LET new == Reread(data["diag"], {"diag"}) IN
     /\ data' = [data EXCEPT !["diag"] = new]
     /\ checksum' = [checksum EXCEPT !["diag"] = new]
     /\ Answer(p, new)
  /\ UNCHANGED <<world, gather, outstanding, changes>>

\* UpdateTechUIDict reads everything, notifying the other pages part by part,
\* and reads the ONU's statistics after it has computed the checksum.
GetTechUI(p) ==
  /\ p \in TechPages \ callbacklist
  /\ LET v1 == Reread(data["tech"], {"hosts"})
         v2 == Reread(v1, {"moca"})
         v3 == Reread(v2, {"wifi"})
         v4 == Reread(v3, {"aps"})
         versions == <<v1, v2, v3, v4>>
         sent == {o \in callbacklist \cap TechPages : Answering(o, versions) # {}}
     IN /\ data' = [data EXCEPT !["tech"] = UpdateOnuStats(v4)]
        /\ checksum' = [checksum EXCEPT !["tech"] = v4]
        /\ asked' = [asked EXCEPT ![p] = shown[p]]
        /\ shown' = [o \in Pages |->
                       IF o = p THEN v4
                       ELSE IF o \in sent THEN versions[CHOOSE i \in Answering(o, versions) : TRUE]
                       ELSE shown[o]]
        /\ callbacklist' = (callbacklist \ sent) \cup IF v4 = shown[p] THEN {p} ELSE {}
  /\ UNCHANGED <<world, gather, outstanding, changes>>

\* Mutation: at the deadline, too, an unchanged checksum is not sent.
SendsChanged(p) == checksum[Ui(p)] # asked[p]

AtDeadline(p) == TRUE

\* Send(True), a second after the request.
Deadline(p) ==
  /\ p \in callbacklist /\ AtDeadline(p)
  /\ callbacklist' = callbacklist \ {p}
  /\ shown' = [shown EXCEPT ![p] = checksum[Ui(p)]]
  /\ UNCHANGED <<world, data, checksum, asked, gather, outstanding, changes>>

\* on_connection_close.
ConnectionClose(p) ==
  /\ p \in callbacklist /\ callbacklist' = callbacklist \ {p}
  /\ UNCHANGED <<world, data, checksum, asked, shown, gather, outstanding, changes>>

-----------------------------------------------------------------------------
\* StartIsostreamHandler and IsostreamCombinedHandler ask every TV box that
\* the TechUI has read, and answer when the last one has.  With no TV box the
\* request stays open.
AskBoxes ==
  /\ gather = "idle" /\ outstanding = 0
  /\ gather' = "open" /\ outstanding' = FindTVBoxes
  /\ UNCHANGED <<world, data, checksum, callbacklist, asked, shown, changes>>

\* Mutation: the answers are not counted: the last one is not noticed.
BoxForgotten ==
  /\ outstanding > 0 /\ outstanding' = outstanding - 1
  /\ UNCHANGED <<world, data, checksum, callbacklist, asked, shown, gather, changes>>

\* A box answers, or the HTTP client reports its error or timeout.
BoxAnswers ==
  /\ outstanding > 0 /\ outstanding' = outstanding - 1
  /\ gather' = IF outstanding' = 0 THEN "idle" ELSE gather
  /\ UNCHANGED <<world, data, checksum, callbacklist, asked, shown, changes>>

\* The browser closes the connection of a request that is open.
GatherClosed ==
  /\ gather = "open" /\ gather' = IF outstanding = 0 THEN "idle" ELSE "closed"
  /\ UNCHANGED <<world, data, checksum, callbacklist, asked, shown, outstanding, changes>>

Next ==
  \/ \E q \in DOMAIN world : \E v \in 0..(IF q = "hosts" THEN MaxBoxes ELSE MaxChanges) : WorldChanges(q, v)
  \/ \E q \in TechParts : UpdatePart(q)
  \/ AlertNotifiers \/ AskBoxes \/ BoxAnswers \/ GatherClosed
  \/ \E p \in Pages : GetTechUI(p) \/ GetDiagUI(p) \/ Deadline(p) \/ ConnectionClose(p)

Spec == Init /\ [][Next]_vars

-----------------------------------------------------------------------------
TypeOK ==
  /\ callbacklist \subseteq Pages
  /\ gather \in {"idle", "open", "closed"} /\ outstanding \in 0..MaxBoxes
  /\ \A ui \in Uis : data[ui] \in [Parts(ui) -> 0..(MaxBoxes + MaxChanges)]

\* What a waiting page is told of: the requests of other pages of the DiagUI read
\* the data again, and call no callback.
Told(p) == p \in TechPages \/ DiagPages = {p}

\* A page that waits has been sent every part whose changes are notified: no
\* update is lost between the request, the updates that requests of other
\* pages make and the callbacks.  About JsonGet, Send, NotifyUpdatedDict and
\* AlertNotifiers.  Of the DiagUI it holds for a page that is the only one: when
\* another asks, it is behind until the next notification or its deadline.
WaitingHasLatest ==
  \A p \in callbacklist : Told(p) =>
    \A q \in Parts(Ui(p)) \ {"hosts", "onu"} : asked[p][q] = data[Ui(p)][q]

\* A request for data is answered, whether or not the data changes, or its
\* connection is closed.  About page.deadline.
RequestAnswered == \A p \in Pages : p \in callbacklist ~> p \notin callbacklist

\* The request that asks the TV boxes is answered once they all have
\* answered or failed, if there is one.  About outstanding_requests.
GatherAnswered == gather = "open" /\ outstanding > 0 ~> gather # "open"
=============================================================================
