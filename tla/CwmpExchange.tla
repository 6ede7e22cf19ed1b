---------------------------- MODULE CwmpExchange ----------------------------
(***************************************************************************)
(* What a CWMP session is, seen from the wire: the order of the messages   *)
(* that the CPE POSTs, one at a time.  A session begins with an Inform and *)
(* has no second one; the CPE may then make requests and answer RPCs; once *)
(* it has POSTed its empty message it makes no request any more, it only   *)
(* answers; and only then can the session end normally.  A session may     *)
(* fail at any point.                                                      *)
(*                                                                         *)
(* It is the abstract specification of CPEStateMachine (tr/http.py), whose *)
(* queues, timers and notifications it knows nothing of.                   *)
(***************************************************************************)
VARIABLES
  phase,  \* "idle": no session; "open": before, "drained": after the empty message
  wire    \* the POST whose answer is awaited, "none" outside of a session

Phases == {"idle", "open", "drained"}
Posts  == {"none", "Inform", "TransferComplete", "Response", "Empty"}

Init == phase = "idle" /\ wire = "none"

\* A session begins, at once after another one that was drained if need be.
Begin ==
  /\ phase \in {"idle", "drained"}
  /\ phase' = "open"
  /\ wire' = "Inform"

\* A request of the CPE, or its answer to an RPC.
Talk ==
  /\ phase = "open"
  /\ wire' \in {"TransferComplete", "Response"}
  /\ UNCHANGED phase

Drain ==
  /\ phase = "open"
  /\ phase' = "drained"
  /\ wire' = "Empty"

Answer ==
  /\ phase = "drained"
  /\ wire' = "Response"
  /\ UNCHANGED phase

\* The end of a session, normal or not.
End ==
  /\ phase' = "idle"
  /\ wire' = "none"

Next == Begin \/ Talk \/ Drain \/ Answer \/ End

Spec == Init /\ [][Next]_<<phase, wire>>
=============================================================================
