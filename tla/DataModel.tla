------------------------------ MODULE DataModel ------------------------------
(*****************************************************************************)
(* What the ACS and the command socket do with the data model, and how the   *)
(* CPE finds the ACS.  The components share no state but values of the data  *)
(* model, which are modelled by what they are for each: one component is     *)
(* chosen at the start, and the others stay as they begin.  The constants    *)
(* are those of the components' modules.                                     *)
(*****************************************************************************)
EXTENDS Integers, FiniteSets, Sequences

CONSTANTS
  \* CpeManagementServer
  Intervals, MinimumWaits, Multipliers, StartupSessions, ShortInterval, LongInterval,
  MaxRetryCount,
  \* SetAcs
  Sources, Urls, Permitted, Default, Legacy, MaxAttempts, MaxCommands,
  \* CommandSocket
  Clients, MaxLines,
  \* ParameterTransactions
  Objects, Copying, Accepted, MaxWrites,
  \* ObjectLists
  AddableLists, Explicit, MaxListIndex, MaxCount,
  \* Types
  Attrs, TypeOf, InitOf, ReadOnlys, Texts,
  \* IpInterface
  Ips, Masks, MaxIpIndex,
  \* Handles
  AllObjects, ObjectParams, Virtual, MaxDepth, MaxNames,
  \* SageTv
  Sorted, Clean, PropertyValues, MaxPropertyChanges,
  \* Hosts
  Macs, Wifi, Moca, Ethernet, NetDevs, LinkPath, Ip4, Ip6, HostNames,
  \* SoapDispatch
  SoapParams, Keys, MaxObjects, MaxRequests,
  \* StbService
  Groups, Streams, StallTimes, ResetTimes, MaxNow

VARIABLES
  component,
  \* CpeManagementServer
  enable, interval, startup, period, started, start_timeout, minimum_wait, multiplier,
  retry_count, wait, exited,
  \* SetAcs
  files, holdOff, legacy, using, attempts, died, answer, commands,
  \* CommandSocket
  connected, received, partial, lines, sent, value, socket_cached, seen, failed,
  \* ParameterTransactions
  config, oldConfig, dirty, open, result,
  \* ObjectLists
  objects, lastindex, attributes, list_answer, told, given,
  \* Types
  attr_values, triggered, notified, attr_answer,
  \* IpInterface
  socket, kernel, list, ip_lastindex, pending, intended,
  \* Handles
  tree, params, cache, made, results, lookup_failed,
  \* SageTv
  sage, file, props, cleaned, saved, written, changes,
  \* Hosts
  step, hosts, HostList, host_cached, awake,
  \* SoapDispatch
  soap_values, count, parameterKey, soap_answer, completed, committed, requests,
  \* StbService
  igmp, clientGroups, numbered, monitor, data, stb_cached, alarm, timers, resetTime,
  threshold, shown, now

Server == INSTANCE CpeManagementServer
Acs == INSTANCE SetAcs
Socket == INSTANCE CommandSocket WITH
  cached <- socket_cached
Transactions == INSTANCE ParameterTransactions
Lists == INSTANCE ObjectLists WITH
  Lists <- AddableLists, MaxIndex <- MaxListIndex, answer <- list_answer
Attributes == INSTANCE Types WITH
  values <- attr_values, answer <- attr_answer
Addresses == INSTANCE IpInterface WITH
  MaxIndex <- MaxIpIndex, lastindex <- ip_lastindex
Lookups == INSTANCE Handles WITH
  Params <- ObjectParams, failed <- lookup_failed
Sage == INSTANCE SageTv WITH
  Values <- PropertyValues, MaxChanges <- MaxPropertyChanges
Table == INSTANCE Hosts WITH
  cached <- host_cached
Soap == INSTANCE SoapDispatch WITH
  Params <- SoapParams, values <- soap_values, answer <- soap_answer
Stb == INSTANCE StbService WITH
  cached <- stb_cached

ASSUME DataModelAssumption ==
  /\ Server!ServerAssumption
  /\ Acs!SetAcsAssumption
  /\ Socket!CommandSocketAssumption
  /\ Transactions!TransactionsAssumption
  /\ Lists!ObjectListsAssumption
  /\ Attributes!TypesAssumption
  /\ Addresses!IpAssumption
  /\ Lookups!HandlesAssumption
  /\ Sage!SageAssumption
  /\ Table!HostsAssumption
  /\ Soap!SoapAssumption
  /\ Stb!StbAssumption

serverVars == <<enable, interval, startup, period, started, start_timeout,
                minimum_wait, multiplier, retry_count, wait, exited>>
acsVars == <<files, holdOff, legacy, using, attempts, died, answer, commands>>
socketVars == <<connected, received, partial, lines, sent, value, socket_cached, seen,
                failed>>
transactionVars == <<config, oldConfig, dirty, open, result>>
listVars == <<objects, lastindex, attributes, list_answer, told, given>>
typeVars == <<attr_values, triggered, notified, attr_answer>>
ipVars == <<socket, kernel, list, ip_lastindex, pending, intended>>
lookupVars == <<tree, params, cache, made, results, lookup_failed>>
sageVars == <<sage, file, props, cleaned, saved, written, changes>>
hostVars == <<step, hosts, HostList, host_cached, awake>>
soapVars == <<soap_values, count, parameterKey, soap_answer, completed, committed,
              requests>>
stbVars == <<igmp, clientGroups, numbered, monitor, data, stb_cached, alarm, timers,
             resetTime, threshold, shown, now>>
vars == <<component, serverVars, acsVars, socketVars, transactionVars, listVars, typeVars, ipVars, lookupVars, sageVars, hostVars, soapVars, stbVars>>

Init ==
  /\ component \in {"server", "set-acs", "socket", "transactions", "lists", "types", "addresses", "handles", "sage", "hosts", "soap", "stb"}
  /\ Server!Init /\ Acs!Init /\ Socket!Init /\ Transactions!Init
  /\ Lists!Init /\ Attributes!Init /\ Addresses!Init /\ Lookups!Init
  /\ Sage!Init /\ Table!Init /\ Soap!Init /\ Stb!Init

Next ==
  \/ /\ component = "server" /\ Server!Next
     /\ UNCHANGED <<component, acsVars, socketVars, transactionVars, listVars,
                     typeVars, ipVars, lookupVars, sageVars, hostVars, soapVars,
                     stbVars>>
  \/ /\ component = "set-acs" /\ Acs!Next
     /\ UNCHANGED <<component, serverVars, socketVars, transactionVars, listVars,
                     typeVars, ipVars, lookupVars, sageVars, hostVars, soapVars,
                     stbVars>>
  \/ /\ component = "socket" /\ Socket!Next
     /\ UNCHANGED <<component, serverVars, acsVars, transactionVars, listVars,
                     typeVars, ipVars, lookupVars, sageVars, hostVars, soapVars,
                     stbVars>>
  \/ /\ component = "transactions" /\ Transactions!Next
     /\ UNCHANGED <<component, serverVars, acsVars, socketVars, listVars, typeVars,
                     ipVars, lookupVars, sageVars, hostVars, soapVars, stbVars>>
  \/ /\ component = "lists" /\ Lists!Next
     /\ UNCHANGED <<component, serverVars, acsVars, socketVars, transactionVars,
                     typeVars, ipVars, lookupVars, sageVars, hostVars, soapVars,
                     stbVars>>
  \/ /\ component = "types" /\ Attributes!Next
     /\ UNCHANGED <<component, serverVars, acsVars, socketVars, transactionVars,
                     listVars, ipVars, lookupVars, sageVars, hostVars, soapVars,
                     stbVars>>
  \/ /\ component = "addresses" /\ Addresses!Next
     /\ UNCHANGED <<component, serverVars, acsVars, socketVars, transactionVars,
                     listVars, typeVars, lookupVars, sageVars, hostVars, soapVars,
                     stbVars>>
  \/ /\ component = "handles" /\ Lookups!Next
     /\ UNCHANGED <<component, serverVars, acsVars, socketVars, transactionVars,
                     listVars, typeVars, ipVars, sageVars, hostVars, soapVars, stbVars>>
  \/ /\ component = "sage" /\ Sage!Next
     /\ UNCHANGED <<component, serverVars, acsVars, socketVars, transactionVars,
                     listVars, typeVars, ipVars, lookupVars, hostVars, soapVars,
                     stbVars>>
  \/ /\ component = "hosts" /\ Table!Next
     /\ UNCHANGED <<component, serverVars, acsVars, socketVars, transactionVars,
                     listVars, typeVars, ipVars, lookupVars, sageVars, soapVars,
                     stbVars>>
  \/ /\ component = "soap" /\ Soap!Next
     /\ UNCHANGED <<component, serverVars, acsVars, socketVars, transactionVars,
                     listVars, typeVars, ipVars, lookupVars, sageVars, hostVars,
                     stbVars>>
  \/ /\ component = "stb" /\ Stb!Next
     /\ UNCHANGED <<component, serverVars, acsVars, socketVars, transactionVars,
                     listVars, typeVars, ipVars, lookupVars, sageVars, hostVars,
                     soapVars>>

Spec == Init /\ [][Next]_vars

-----------------------------------------------------------------------------
(* Properties *)

TypeOK ==
  /\ Server!TypeOK /\ Acs!TypeOK /\ Socket!TypeOK /\ Transactions!TypeOK /\ Lists!TypeOK
  /\ Attributes!TypeOK /\ Addresses!TypeOK /\ Lookups!TypeOK /\ Sage!TypeOK /\ Table!TypeOK
  /\ Stb!TypeOK /\ Soap!TypeOK

\* StartPeriodicInform calls start() on the callback without a look: whatever is
\* assigned in between, the callback it was scheduled for is there.
TimerHasCallback == Server!TimerHasCallback

\* The CPE finds its way back to the ACS: it retries within the periodic interval and
\* backs off, and set-acs neither forgets a blessed URL nor has no answer while any
\* source knows an URL.
AcsStaysReachable ==
  /\ Server!RetryWithinPeriod /\ Server!RetryBacksOff
  /\ Acs!BlessedStays /\ Acs!AnswersWhileAnyKnown

\* Whoever asks is told what became of it.  A request of the ACS is answered by one
\* element, and ParameterKey tells which was the last to succeed; every block of a
\* connection to the command socket is answered once and in order, and leaves no value
\* in the session cache, unless it failed.
AnswersTell ==
  /\ Soap!OneElement /\ Soap!KeyTellsCompleted
  /\ Socket!BlocksAnswered /\ Socket!CacheFlushed

\* SetParameterValues is all or nothing and has its effect: a refused one leaves the
\* objects as they were, and what is accepted is applied to the interface.
AllOrNothing ==
  /\ Transactions!RefusedChangesNothing /\ Attributes!FaultUndoes
  /\ Addresses!WritesApplied

\* The number of an object stays its own: no AddObject gives one twice, and a multicast
\* group keeps the one the ACS was told.
NumbersStay == []Lists!IndexGivenOnce /\ Stb!NumbersStable

\* What the ACS reads fits together: one snapshot per session, one instance per object,
\* a listing of what is there, a host of one mind about itself, an alarm that will be
\* reset, a property as it was written, changes that were notified, a prefix length
\* for every mask.
ReadsFitTogether ==
  /\ Stb!OneSnapshot /\ Stb!AlarmHasTimer
  /\ component = "handles" => Lookups!OneInstance /\ Lookups!ListsWhatIsFound
  /\ Table!HostsConsistent
  /\ Sage!ReadsWhatWasWritten /\ Sage!ReadsAsSageHasIt
  /\ Attributes!ChangesSeen
  /\ component = "addresses" => Addresses!CIDRCorrect(4)
=============================================================================
