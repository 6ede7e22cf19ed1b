---------------------------- MODULE SoapDispatch ----------------------------
(***************************************************************************)
(* The requests of the ACS: SoapHandler.Handle and the methods of the CPE  *)
(* in tr/api_soap.py, over those of tr/api.py.  A request is answered by   *)
(* the element of its response, or by the fault of what was raised.  The   *)
(* builder of the response only appends: an element that was opened when   *)
(* something raises is closed and stays, before the fault.                 *)
(*                                                                         *)
(* What the methods do to the data model and to the transfers is modelled  *)
(* in ParameterTransactions, ObjectLists and DownloadManager; here a       *)
(* parameter is modelled by whether the response can hold its value: a     *)
(* date before 1900, as the Unknown Time of CWMP, is stored, but strftime  *)
(* raises of it.                                                           *)
(***************************************************************************)
EXTENDS Naturals, Sequences, SequencesExt

CONSTANTS
  Params,      \* parameters
  Keys,        \* values of ParameterKey
  MaxObjects,  \* bound: objects of the one list
  MaxRequests  \* bound: requests

NoKey == "none"  \* the empty one, of a CPE that was told none

\* What is assumed of the constants.
SoapAssumption == NoKey \in Keys /\ MaxObjects \in Nat /\ MaxRequests \in Nat

VARIABLES
  values,       \* what the parameters hold: "plain", or "odd"
  count,        \* the objects of the list
  parameterKey, \* _last_parameter_key, which each Inform reports
  answer,       \* the elements of the Body of the last response
  completed,    \* history: the key of the last request with one whose response told success
  committed,    \* history: every CommitTransaction since then returned
  requests

vars == <<values, count, parameterKey, answer, completed, committed, requests>>

Init ==
  /\ values = [p \in Params |-> "plain"]
  /\ count = 0
  /\ parameterKey = NoKey /\ completed = NoKey /\ committed = TRUE
  /\ answer = << >>
  /\ requests = 0

-----------------------------------------------------------------------------
(* Faults *)

\* The except clauses of Handle, and those of Download and CancelTransfer.
CpeFault(exception) ==
  CASE exception \in {"SetParameterErrors", "AddObjectsErrors", "IndexError",
                      "InvalidArguments"} -> 9003
    [] exception \in {"ParameterNameError", "KeyError"} -> 9005
    [] exception = "NotImplementedError"       -> 9000
    [] exception = "ResourcesExceededError"    -> 9004
    [] exception = "FileTransferProtocolError" -> 9013
    [] exception = "CancelNotPermitted"        -> 9021
    [] OTHER                                   -> 9002

\* _ExceptionListToFaultList, of one parameter.
ParameterFault(exception) ==
  CASE exception = "ParameterTypeError"        -> 9006
    [] exception = "ParameterValueError"       -> 9007
    [] exception = "ParameterNameError"        -> 9005
    [] exception = "ParameterNotWritableError" -> 9008
    [] OTHER                                   -> 9002

ParameterErrors == {"ParameterTypeError", "ParameterValueError", "ParameterNameError",
                    "ParameterNotWritableError", "ParameterInternalError"}

Element(name) == [element |-> name, code |-> 0, parameters |-> << >>]
Fault(exception) == [element |-> "Fault", code |-> CpeFault(exception), parameters |-> << >>]
FaultList(exception, errors) ==
  [Fault(exception) EXCEPT !.parameters =
     [i \in DOMAIN errors |-> ParameterFault(errors[i])]]

Respond(method) == answer' = <<Element(method)>>
Raise(exception) == answer' = <<Fault(exception)>>

-----------------------------------------------------------------------------
(* The key *)

SetParameterKey(key) == parameterKey' = key

Completed(key) == completed' = key /\ committed' = TRUE

\* Nothing was done but to answer.
Unchanged == UNCHANGED <<values, count, parameterKey, completed, committed>>

\* What a request may lack, or have that is no number, is found before its method of
\* tr/api.py is called.
Malformed == Raise("AttributeError") /\ Unchanged

-----------------------------------------------------------------------------
(* Requests with a key *)

\* A write is read, validated and set, and undone if any of it raised; the key is set
\* before the objects commit.
SetParameterValues(p, value, key) ==
  \/ /\ \E errors \in SeqOf(ParameterErrors, 2) \ {<< >>} :
          answer' = <<FaultList("SetParameterErrors", errors)>>
     /\ Unchanged
  \/ /\ values' = [values EXCEPT ![p] = value]
     /\ SetParameterKey(key)
     /\ \/ Respond("SetParameterValues") /\ Completed(key)
        \/ /\ \E exception \in {"KeyError", "IndexError", "CalledProcessError"} :
                Raise(exception)
           /\ committed' = FALSE /\ UNCHANGED completed
     /\ UNCHANGED count

\* The name has no period, or is not that of a list; or the new object raises.
AddObject(key) ==
  \/ /\ count < MaxObjects
     /\ count' = count + 1
     /\ SetParameterKey(key)
     /\ Respond("AddObject") /\ Completed(key)
     /\ UNCHANGED values
  \/ (Raise("KeyError") \/ Raise("AttributeError")) /\ Unchanged

\* Mutation: the key is set before the errors are looked at.
AddObjectsKeyFirst(key) ==
  \/ /\ \E n \in 0..(MaxObjects - count) : count' = count + n
     /\ SetParameterKey(key)
     /\ Respond("AddObjects") /\ Completed(key)
     /\ UNCHANGED values
  \/ /\ answer' = <<FaultList("AddObjectsErrors", <<"ParameterNameError">>)>>
     /\ SetParameterKey(key)
     /\ UNCHANGED <<values, count, completed, committed>>

\* After an error, the objects of the first name are deleted again; the others stay.
AddObjects(key) ==
  \/ /\ \E n \in 0..(MaxObjects - count) : count' = count + n
     /\ SetParameterKey(key)
     /\ Respond("AddObjects") /\ Completed(key)
     /\ UNCHANGED values
  \/ /\ \E errors \in SeqOf({"ParameterNameError", "ParameterValueError",
                             "ParameterNotWritableError"}, 2) \ {<< >>} :
          answer' = <<FaultList("AddObjectsErrors", errors)>>
     /\ \E n \in 0..(MaxObjects - count) : count' = count + n
     /\ UNCHANGED <<values, parameterKey, completed, committed>>
  \/ Raise("KeyError") /\ Unchanged

\* Mutation: the element is opened before the object is deleted.
DeleteObjectInElement(key) ==
  \/ /\ count > 0
     /\ count' = count - 1
     /\ SetParameterKey(key)
     /\ Respond("DeleteObject") /\ Completed(key)
     /\ UNCHANGED values
  \/ answer' = <<Element("DeleteObject"), Fault("KeyError")>> /\ Unchanged

DeleteObject(key) ==
  \/ /\ count > 0
     /\ count' = count - 1
     /\ SetParameterKey(key)
     /\ Respond("DeleteObject") /\ Completed(key)
     /\ UNCHANGED values
  \/ (Raise("KeyError") \/ Raise("ValueError")) /\ Unchanged

-----------------------------------------------------------------------------
(* The other requests *)

\* The values are read before the element is opened, and made into text inside it.
GetParameterValues(names) ==
  /\ \/ answer' = IF \E p \in names : values[p] = "odd"
                  THEN <<Element("GetParameterValues"), Fault("ValueError")>>
                  ELSE <<Element("GetParameterValues")>>
     \/ Raise("ParameterNameError")
  /\ Unchanged

\* tr/api.py finds the path, and lists what is under it.
NamesListed == Respond("GetParameterNames") \/ Raise("ParameterNameError")

\* With NextLevel the path of a parameter is an invalid argument.
GetParameterNames(next_level, is_path) ==
  /\ IF next_level /\ ~is_path THEN Raise("InvalidArguments")
     ELSE NamesListed
  /\ Unchanged

\* tr/api.py: there is no such parameter, or an attribute is no number.
AttributesRefused == Raise("KeyError") \/ Raise("ValueError")

\* One entry after the other: those before the one that raises stay.
SetParameterAttributes ==
  /\ Respond("SetParameterAttributes") \/ AttributesRefused
  /\ Unchanged

Download ==
  /\ \/ Respond("Download")
     \/ Raise("ResourcesExceededError") \/ Raise("FileTransferProtocolError")
  /\ Unchanged

\* The transfers, and what the system does, are those of DownloadManager.
Transfers ==
  /\ \/ \E method \in {"GetQueuedTransfers", "GetAllQueuedTransfers", "CancelTransfer",
                       "Reboot"} : Respond(method)
     \/ Raise("CancelNotPermitted")
  /\ Unchanged

GetRPCMethods == Respond("GetRPCMethods") /\ Unchanged

\* Methods of tr/api.py that have none in tr/api_soap.py, though GetRPCMethods lists them.
Unimplemented == Raise("NotImplementedError") /\ Unchanged

\* InformResponse and TransferCompleteResponse are not answered, unless no transfer
\* waits for one.
Responses == (answer' = << >> \/ Raise("IndexError")) /\ Unchanged

Handle ==
  /\ requests < MaxRequests /\ requests' = requests + 1
  /\ \/ \E key \in Keys :
          \/ \E p \in Params, v \in {"plain", "odd"} : SetParameterValues(p, v, key)
          \/ AddObject(key)
          \/ AddObjects(key)
          \/ DeleteObject(key)
     \/ \E names \in SUBSET Params : GetParameterValues(names)
     \/ \E next_level, is_path \in BOOLEAN : GetParameterNames(next_level, is_path)
     \/ SetParameterAttributes
     \/ Download
     \/ Transfers
     \/ GetRPCMethods
     \/ Unimplemented
     \/ Responses
     \/ Malformed

\* The process starts anew: the key is forgotten, and so are the objects.
Restart ==
  /\ requests > 0
  /\ values' = [p \in Params |-> "plain"] /\ count' = 0
  /\ parameterKey' = NoKey /\ completed' = NoKey /\ committed' = TRUE
  /\ answer' = << >>
  /\ UNCHANGED requests

Next == Handle \/ Restart

Spec == Init /\ [][Next]_vars

-----------------------------------------------------------------------------
(* Properties *)

TypeOK ==
  /\ values \in [Params -> {"plain", "odd"}] /\ count \in 0..MaxObjects
  /\ parameterKey \in Keys /\ completed \in Keys /\ committed \in BOOLEAN
  /\ Len(answer) \in 0..2

\* "the tr-069 cookie used to check which commands completed" (tr/api.py:588): the key
\* that the next Inform reports is that of the last request the ACS was told to be
\* done, whatever failed since then.  A CommitTransaction that raises is the exception:
\* its request is answered with a fault, and its key is reported.
KeyTellsCompleted == committed => parameterKey = completed

\* A request is answered by one element, a response or a fault, never by both, unless
\* a value could not be made into text (SoapHandler.Handle).
OneElement ==
  Len(answer) > 1 => answer[1].element = "GetParameterValues" /\ \E p \in Params : values[p] = "odd"
=============================================================================
