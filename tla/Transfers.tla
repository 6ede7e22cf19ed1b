----------------------------- MODULE Transfers -----------------------------
(***************************************************************************)
(* What the Download RPC promises of its transfers, whatever happens to the*)
(* process: an accepted transfer stays accepted under its command key until*)
(* it has been carried out; an install that is cut short begins again, one *)
(* that was completed never does; its result is reported, at least once,   *)
(* until the ACS acknowledges it; and it can be cancelled only while the   *)
(* installer has not begun.                                                *)
(*                                                                         *)
(* It knows nothing of files, timers or restarts.  A restart moves several *)
(* transfers at once, hence the conjunction in Next.  DownloadManager      *)
(* (tr/download.py) implements it.                                         *)
(***************************************************************************)
CONSTANTS Ids, Keys, NoKey

VARIABLE transfers  \* for each transfer its status and command key

Statuses == {"none", "accepted", "installing", "installed", "reported"}

NoTransfer == [status |-> "none", key |-> NoKey]

Accept(t, u)      == t = NoTransfer /\ u.status = "accepted" /\ u.key \in Keys
Forget(t, u)      == t.status \in {"accepted", "reported"} /\ u = NoTransfer

\* The steps of a transfer that is going on, from status to status.
Progress ==
  {<<"accepted", "installing">>, <<"installing", "installed">>,
   <<"accepted", "reported">>, <<"installing", "reported">>,
   <<"installed", "reported">>,
   <<"installing", "accepted">>,  \* the install was cut short
   <<"reported", "installed">>}   \* the report may be lost: it is made again

Continue(t, u) == u.key = t.key /\ <<t.status, u.status>> \in Progress

Init == transfers = [id \in Ids |-> NoTransfer]

Step(t, u) == t = u \/ Accept(t, u) \/ Forget(t, u) \/ Continue(t, u)

Next ==
  /\ transfers' \in [Ids -> [status : Statuses, key : Keys \cup {NoKey}]]
  /\ \A id \in Ids : Step(transfers[id], transfers'[id])

Spec == Init /\ [][Next]_transfers
=============================================================================
