--------------------------- MODULE WifiExperiments ---------------------------
(***************************************************************************)
(* The experiments that dm/binwifi.py and dm/isostream.py register, on the *)
(* data model of one device: what each of them forces, which depends on    *)
(* the wireless networks that are there, and what Experiments.Triggered of *)
(* tr/experiment.py does with a list of them.  Experiments.tla has the     *)
(* transactions around it.                                                 *)
(*                                                                         *)
(* A parameter is a pair <<object, name>>, and a value a string.            *)
(***************************************************************************)
EXTENDS Sequences, Naturals

CONSTANTS
  Wlans,       \* the networks
  Info,        \* what they are, see WlanAssumption
  TvBox,       \* ModelName starts with GFHD
  StorageBox,  \* is-storage-box
  Requests,    \* lists of experiments that the ACS requests
  Writable,    \* parameters that the ACS writes
  Written      \* the values it writes

\* lan is the index of its LANDevice, index its own; has, the parameters that only some
\* implementations have; band, its _fixed_band or "".
\* What is assumed of the constants.
WlanAssumption ==
  /\ \A w \in Wlans : DOMAIN Info[w] = {"lan", "index", "has", "band"}
  /\ TvBox \in BOOLEAN /\ StorageBox \in BOOLEAN
  /\ Requests \subseteq Seq(STRING)

-----------------------------------------------------------------------------
(* What an experiment forces: functions from parameters to values *)

\* f, and what g has besides.
Over(f, g) == [p \in DOMAIN f \cup DOMAIN g |-> IF p \in DOMAIN f THEN f[p] ELSE g[p]]

Portal    == "Device.CaptivePortal"
Isostream == "Device.X_CATAWAMPUS-ORG.Isostream"

Nothing == [p \in {} |-> "-"]

\* The settings f, names to values, on each of these networks or objects.
On(objects, f) == [p \in objects \X DOMAIN f |-> f[p[2]]]

Has(name) == {w \in Wlans : name \in Info[w].has}
Guest     == {w \in Wlans : Info[w].lan = 2}

\* The setting if the network has such a parameter.
IfHas(name, value) == On(Has(name), [n \in {name} |-> value])

SetupNetwork(advertise, ssid) ==
  On(Guest, [Enable |-> "true", SSIDAdvertisementEnabled |-> advertise,
             ClientIsolation |-> "true", OverrideSSID |-> ssid])

\* The first network in the order of the dictionaries, so that only one associates.
FirstClient ==
  LET Before(v, w) == \/ Info[v].lan < Info[w].lan
                      \/ Info[v].lan = Info[w].lan /\ Info[v].index < Info[w].index
  IN {w \in Has("ClientEnable") : \A v \in Has("ClientEnable") \ {w} : Before(w, v)}

OnIsostream(f) == On({Isostream}, f)

Schedule(start, end, limit) ==
  OnIsostream([ClientRunOnSchedule |-> "true", ClientStartAtOrAfter |-> start,
               ClientEndBefore |-> end, ClientTimeLimit |-> limit])

Serving(connections) ==
  IF ~StorageBox THEN Nothing
  ELSE OnIsostream([ServerEnable |-> "true", ServerTimeLimit |-> "0",
                    ServerConcurrentConnections |-> connections])

Mbps == [Isostream5 |-> "5", Isostream10 |-> "10", Isostream14 |-> "14", Isostream20 |-> "20"]
Congestion == [IsostreamCongACUBIC    |-> "acubic",
               IsostreamCongTransonic |-> "transonic",
               IsostreamCongTurbulent |-> "turbulent"]
Rekeying == [WifiRekeyNever |-> "0", WifiRekeyPTK |-> "1", WifiRekeyOften |-> "10"]

Sufficient == OnIsostream([ClientTimeSufficient |-> "5m"])

WhatIfTV ==
  [ WhatIfTV               |-> Over(Schedule("1:00", "6:00", "1h"), Sufficient),
    WhatIfTVPrimetime      |-> Over(Schedule("19:00", "22:00", "1h"), Sufficient),
    WhatIfTVSwarm          |-> Schedule("1:00", "1:01", "5m"),
    WhatIfTVPrimetimeSwarm |-> Schedule("20:00", "20:01", "5m") ]

Forces(name) ==
  CASE name = "AutoDisableWifi"          -> IfHas("AllowAutoDisable", "true")
    [] name = "AlwaysEnableSetupNetwork" -> SetupNetwork("false", "GFiberSetupAutomation")
    [] name = "AlwaysEnableFiberManagedWifi" ->
         Over(SetupNetwork("true", "Google Fiber Wi-Fi"),
              On({Portal}, [URL |-> "tos", AuthorizerURL |-> "tos-accepted",
                            ExtraTLSHosts |-> "fonts", Enable |-> "true"]))
    [] name = "WaveguideInitialChannel"  ->
         Over(On(Wlans, [AutoChannelEnable |-> "true"]),
              IfHas("AutoChannelAlgorithm", "INITIAL"))
    [] name = "WaveguideDynamicChannel"  ->
         Over(On(Wlans, [AutoChannelEnable |-> "true"]),
              IfHas("AutoChannelAlgorithm", "DYNAMIC"))
    [] name = "Wifi24GForce40M"        -> IfHas("Width24G", "40")
    [] name = "Wifi5GForce20M"         -> IfHas("Width5G", "20")
    [] name = "Wifi5GForce40M"         -> IfHas("Width5G", "40")
    [] name = "Wifi5GDisable"          -> On({w \in Wlans : Info[w].band = "5"}, [Enable |-> "false"])
    [] name = "WifiShortGuardInterval" -> IfHas("GuardInterval", "400nsec")
    [] name = "WifiDisableWMM"         -> IfHas("WMMEnable", "false")
    [] name \in DOMAIN Rekeying        -> IfHas("RekeyingInterval", Rekeying[name])
    [] name = "Wifi80211g" ->
         Over(IfHas("Width24G", "20"),
              Over(IfHas("Width5G", "20"), On(Wlans, [Standard |-> "g"])))
    [] name = "Wifi24G80211g" ->
         Over(IfHas("Width24G", "20"),
              On({w \in Wlans : Info[w].band = "2.4"}, [Standard |-> "g"]))
    [] name \in {"ForceTvBoxWifi", "ForceNoTvBoxWifi"} ->
         LET value == IF name = "ForceTvBoxWifi" THEN "true" ELSE "false" IN
         IF ~TvBox THEN Nothing
         ELSE On(Wlans, [Enable |-> value, RadioEnabled |-> value])
    [] name = "ForceTvBoxWifiClient" ->
         IF ~TvBox \/ FirstClient = {} THEN Nothing
         ELSE Over(On(FirstClient, [RadioEnabled |-> "true", Enable |-> "false",
                                    ClientEnable |-> "true"]),
                   OnIsostream([ClientInterface |-> "wcli0",
                                ClientDisableIfPortActive |-> "0"]))
    [] name = "Wifi24GLegacySuffix"    -> IfHas("Suffix24G", " (Legacy)")
    [] name = "IsostreamSerial"        -> Serving("1")
    [] name = "IsostreamParallel"      -> Serving("8")
    [] name \in DOMAIN Mbps            -> OnIsostream([ClientMbps |-> Mbps[name]])
    [] name \in DOMAIN Congestion      ->
         OnIsostream([ServerCongestionControl |-> Congestion[name]])
    [] name \in DOMAIN WhatIfTV        -> WhatIfTV[name]
    [] OTHER                           -> Nothing     \* not registered

-----------------------------------------------------------------------------

VARIABLES
  values,     \* of the parameters that are not at the value they started with
  saved,      \* Experiments.saved_values; the same for what it saves
  requested,  \* Experiments.Requested
  wanted      \* observation only: what the ACS wrote

vars == <<values, saved, requested, wanted>>

\* What a parameter holds, when nobody changed it.
Initial == "initial"
ValueOf(f, p) == IF p \in DOMAIN f THEN f[p] ELSE Initial

Init == values = Nothing /\ saved = Nothing /\ requested = <<>> /\ wanted = Nothing

Write(f, p, v) == Over([q \in {p} |-> v], f)

\* SetParameterValues: a parameter of an experiment keeps its value, and the new one is
\* saved for later.
SetExportParam ==
  \E p \in Writable, v \in Written :
    /\ wanted' = Write(wanted, p, v)
    /\ IF p \in DOMAIN saved THEN saved' = Write(saved, p, v) /\ UNCHANGED values
       ELSE values' = Write(values, p, v) /\ UNCHANGED saved
    /\ UNCHANGED requested

\* Mutation: what an earlier experiment of the list forced is saved as well.
SaveForced(x, f) ==
  [x EXCEPT !.saved = Over([p \in DOMAIN f |-> ValueOf(x.values, p)], @),
            !.values = Over(f, @)]

\* Apply one experiment: save the values that no other has saved, and write its own.
Apply(x, f) ==
  [x EXCEPT !.saved = Over(@, [p \in DOMAIN f |-> ValueOf(x.values, p)]),
            !.values = Over(f, @)]

\* Triggered: put back what was saved, and apply the experiments of the new list, in
\* its order.
Triggered ==
  /\ \E list \in Requests \ {requested} :
       LET flushed == [values |-> Over(saved, values), saved |-> Nothing]
           applied[n \in 0..Len(list)] ==
             IF n = 0 THEN flushed ELSE Apply(applied[n - 1], Forces(list[n]))
       IN /\ requested' = list
          /\ values' = applied[Len(list)].values
          /\ saved' = applied[Len(list)].saved
  /\ UNCHANGED wanted

Next == SetExportParam \/ Triggered

Spec == Init /\ [][Next]_vars

-----------------------------------------------------------------------------

Forcing(p) == {n \in DOMAIN requested : p \in DOMAIN Forces(requested[n])}
Known == DOMAIN values \cup DOMAIN saved \cup DOMAIN wanted

TypeOK ==
  /\ requested \in Requests \cup {<<>>}
  /\ DOMAIN wanted \subseteq Writable
  /\ DOMAIN saved = UNION {DOMAIN Forces(requested[n]) : n \in DOMAIN requested}

\* A parameter has the value of the last requested experiment that forces it, whatever
\* the experiments before it, and the ones that were requested earlier, force; when
\* none does, the value that the ACS wrote last, even while one did
\* (tr/experiment.py:152-193, 245-249).
LastRequestedWins ==
  \A p \in Known :
    ValueOf(values, p) =
      IF Forcing(p) = {} THEN ValueOf(wanted, p)
      ELSE LET last == CHOOSE n \in Forcing(p) : \A k \in Forcing(p) : k <= n
           IN Forces(requested[last])[p]
=============================================================================
