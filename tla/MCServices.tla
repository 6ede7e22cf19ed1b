----------------------------- MODULE MCServices -----------------------------
(*****************************************************************************)
(* Services for TLC.                                                         *)
(*****************************************************************************)
EXTENDS Services

MCStrip == [v \in {"", "a", "b", "a "} |-> IF v = "a " THEN "a" ELSE v]

\* RPCs that configure, fail at the validator of a later parameter, share the radio's
\* channel, or have a value that conman cannot be given.
MCWlanRpcs == {
  <<<<"main", "SSID", "home">>, <<"main", "Enable", TRUE>>, <<"main", "KeyPassphrase", "k">>>>,
  <<<<"main", "AutoChannelAlgorithm", "DYNAMIC">>, <<"main", "AllowAutoDisable", TRUE>>>>,
  <<<<"main", "AutoChannelEnable", TRUE>>>>,
  <<<<"portal", "SSID", "guest">>, <<"portal", "Channel", 6>>, <<"portal", "Enable", TRUE>>>>,
  <<<<"main", "AutoChanType", "HIGH">>>>,
  <<<<"main", "OperatingFrequencyBand", "2.4">>, <<"main", "BeaconType", "Basic">>>>,
  <<<<"main", "KeyPassphrase", "b\nad">>>>,
  <<<<"main", "KeyPassphrase", "k2">>, <<"main", "SSID", "">>>>,
  <<<<"main", "Enable", FALSE>>, <<"main", "Channel", 99>>>>,
  <<<<"main", "Enable", FALSE>>, <<"main", "BeaconType", "junk">>>> }

\* A mapping for each of the four precedences, an IPv6 client, one that is taken back.
MCMappingUpdates == {
  [Enable |-> TRUE, Protocol |-> "TCP", InternalClient |-> "c4", InternalPort |-> 80,
   AllInterfaces |-> TRUE],
  [interface |-> "ip1", AllInterfaces |-> FALSE, ExternalPort |-> 81],
  [Enable |-> TRUE, InternalClient |-> "c6", PortRangeSize |-> 2, RemoteHost |-> "r4"],
  [InternalClient |-> "c6", RemoteHost |-> ""],
  [InternalPort |-> 0, ExternalPort |-> 0] }

MCPoolUpdates == {
  [Enable |-> "True", MinAddress |-> TRUE, MaxAddress |-> TRUE],
  [Enable |-> "False"], [chaddr |-> TRUE], [Order |-> 2, chaddr |-> FALSE],
  [Enable |-> "True", options |-> "bad"], [options |-> "good"] }

MCRadioRpcs == {
  <<<<"Enable", TRUE>>, <<"SSID", "home">>, <<"KeyPassphrase", "secret">>,
    <<"IEEE11iEncryptionModes", "AESEncryption">>>>,
  <<<<"SSID", "guest">>, <<"BeaconType", "Basic">>, <<"BasicEncryptionModes", "None">>>>,
  <<<<"Channel", 44>>, <<"RegulatoryDomain", "US">>>>,
  <<<<"OperatingFrequencyBand", "2.4GHz">>>>,
  <<<<"Enable", FALSE>>>>,
  <<<<"AutoRateFallBackEnabled", "on">>, <<"WEPKey", "k">>>>,
  <<<<"AutoRateFallBackEnabled", "off">>>>, <<<<"AutoChannelEnable", FALSE>>>>,
  <<<<"KeyPassphrase", "">>>> }

MCWlanInfo == [
  w1 |-> [lan |-> 1, index |-> 1, band |-> "2.4",
          has |-> {"Width24G", "GuardInterval", "RekeyingInterval", "AllowAutoDisable"}],
  w2 |-> [lan |-> 1, index |-> 2, band |-> "5",
          has |-> {"Width5G", "AutoChannelAlgorithm", "ClientEnable"}],
  w3 |-> [lan |-> 2, index |-> 1, band |-> "", has |-> {"Width24G", "ClientEnable"}] ]

\* Lists of experiments that force the same parameters, in both orders.
MCExperimentLists == {
  <<>>, <<"Wifi80211g", "Wifi24GForce40M">>, <<"Wifi24GForce40M", "Wifi80211g">>,
  <<"AlwaysEnableSetupNetwork", "ForceNoTvBoxWifi", "ForceTvBoxWifiClient">>,
  <<"WhatIfTV", "WhatIfTVSwarm", "Isostream5">> }

MCMultiline == {"b\nad"}
MCDmzPairs == {<<"", "">>, <<"c4", "r4">>}
MCWritable == {<<"w1", "Width24G">>, <<"w2", "Enable">>, <<"w3", "Enable">>}

\* Only the component that was chosen begins with each of its initial states.
MCInit ==
  /\ Init
  /\ component # "nat" => ip = [i \in IPInterfaces |-> PortMapping!Gone]
  /\ component # "tv" => tv_file["TvBufferKey"] = Tv!None
  /\ component # "export" => exporter = "ibeacon"
  /\ component # "isostream" => stream_scheduled = FALSE
  /\ component # "radio" => marker = FALSE
  /\ component # "sensor" => value = 10

MCSpec == MCInit /\ [][Next]_vars
=============================================================================
