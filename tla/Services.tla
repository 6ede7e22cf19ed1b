------------------------------ MODULE Services ------------------------------
(*****************************************************************************)
(* What the data model passes on to files, drivers and programs, most of     *)
(* it when the ioloop is idle.  The components share no state but the        *)
(* experiments' parameters, which are modelled by what they are for each:    *)
(* one component is chosen at the start, and the others stay as they begin.  *)
(* The constants are those of the components' modules.                       *)
(*****************************************************************************)
EXTENDS Integers, FiniteSets, Sequences

CONSTANTS
  \* FileBacked
  FileValues, Strip, Garbage, DeleteIfEmpty, MaxForeign,
  \* WlanConfiguration
  WlanInterfaces, Bands, InitialBand, BandFixed, Guided, Multiline, WlanChannels,
  WlanRpcs, MaxInputs,
  \* Nat
  MappingIndices, DmzIndices, IPInterfaces, V4, V6, HostNames, Ports, MappingUpdates,
  DmzPairs, MaxMappingChanges,
  \* Dnsmasq
  PoolIndices, PoolUpdates, Urls, PoolTexts, MaxPoolChanges,
  \* GFiberTv
  DeviceIndices, Serials, Nicks, my_serial, Keys, UiTypes, MaxTvChanges,
  \* IdleExports
  ExportValues, MaxExportChanges,
  \* Isostream
  MaxStreamChanges,
  \* BrcmWifi
  Domains, Ssids, Phrases, RadioChannels, RadioRpcs, WepKeys, MaxRpcs,
  \* Temperature
  Readings, Thresholds, Intervals, DefaultPoll, MaxTime,
  \* WifiExperiments
  Wlans, WlanInfo, TvBox, StorageBox, ExperimentLists, Writable, WrittenValues,
  \* SystemExperiments
  SystemNames, Misnamed, MaxFiles

VARIABLES
  component,
  \* FileBacked
  file, tmp, dir, cached, watch, timeouts, event, assigned, seen, foreign,
  \* WlanConfiguration
  up, m, channel, live, guide, commands, points, scheduled, events, inputs, exported,
  \* Nat
  PortMappingList, DmzMappingList, ip, nat_scheduled, nat_files, applied, written,
  nat_changes,
  \* Dnsmasq
  PoolList, DhcpAcsUrl, dhcp_scheduled, text_scheduled, conf, conf_tmp, running,
  dhcp_up, behind, text, dhcp_changes,
  \* GFiberTv
  DevicePropertiesList, tv_scheduled, nickfile, mynickfile, tv_file, tv_tmp, writing,
  tv_events, frobstatus, nvram, uitype, creating, changed, unseen, tv_changes,
  \* IdleExports
  exporter, params, pending, service, asked, missed, export_changes,
  \* Isostream
  ServerEnable, ClientEnable, ClientEnableByScheduler, ClientRunOnSchedule,
  ServerTimeLimit, settings, stream_seen, procs, timers, schedule, stream_scheduled,
  stream_changes,
  \* BrcmWifi
  config, psk, wepkey, wl, marker, todo, fallback, done, manual, rpcs,
  \* Temperature
  sensor_config, scheduler, value, minValue, maxValue, highTime, lowTime, resetHigh,
  resetLow, now, highSeen, lowSeen,
  \* WifiExperiments
  values, saved, requested, wanted,
  \* SystemExperiments
  Requested, system_files, refused

File == INSTANCE FileBacked WITH
  Values <- FileValues
Wlan == INSTANCE WlanConfiguration WITH
  Interfaces <- WlanInterfaces, Channels <- WlanChannels, Rpcs <- WlanRpcs
PortMapping == INSTANCE Nat WITH
  Indices <- MappingIndices, Names <- HostNames, Updates <- MappingUpdates,
  MaxChanges <- MaxMappingChanges, scheduled <- nat_scheduled, files <- nat_files,
  changes <- nat_changes
Dhcp == INSTANCE Dnsmasq WITH
  Indices <- PoolIndices, Updates <- PoolUpdates, Texts <- PoolTexts,
  MaxChanges <- MaxPoolChanges, scheduled <- dhcp_scheduled, tmp <- conf_tmp,
  up <- dhcp_up, changes <- dhcp_changes
Tv == INSTANCE GFiberTv WITH
  Indices <- DeviceIndices, MaxChanges <- MaxTvChanges, scheduled <- tv_scheduled,
  file <- tv_file, tmp <- tv_tmp, events <- tv_events, changes <- tv_changes
Export == INSTANCE IdleExports WITH
  Values <- ExportValues, MaxChanges <- MaxExportChanges, changes <- export_changes
Stream == INSTANCE Isostream WITH
  MaxChanges <- MaxStreamChanges, seen <- stream_seen, scheduled <- stream_scheduled,
  changes <- stream_changes
Radio == INSTANCE BrcmWifi WITH
  Channels <- RadioChannels, Rpcs <- RadioRpcs
Sensor == INSTANCE Temperature WITH
  config <- sensor_config
Forced == INSTANCE WifiExperiments WITH
  Info <- WlanInfo, Requests <- ExperimentLists, Written <- WrittenValues
System == INSTANCE SystemExperiments WITH
  Names <- SystemNames, files <- system_files

ASSUME ServicesAssumption ==
  /\ File!FileBackedAssumption
  /\ Wlan!WlanConfigurationAssumption
  /\ PortMapping!NatAssumption
  /\ Dhcp!DnsmasqAssumption
  /\ Export!IdleExportsAssumption
  /\ Stream!IsostreamAssumption
  /\ Radio!BrcmWifiAssumption
  /\ Sensor!TemperatureAssumption
  /\ Forced!WlanAssumption
  /\ System!SystemExperimentsAssumption

fileVars == <<file, tmp, dir, cached, watch, timeouts, event, assigned, seen, foreign>>
wlanVars == <<up, m, channel, live, guide, commands, points, scheduled, events, inputs,
              exported>>
natVars == <<PortMappingList, DmzMappingList, ip, nat_scheduled, nat_files, applied,
             written, nat_changes>>
dhcpVars == <<PoolList, DhcpAcsUrl, dhcp_scheduled, text_scheduled, conf, conf_tmp,
              running, dhcp_up, behind, text, dhcp_changes>>
tvVars == <<DevicePropertiesList, tv_scheduled, nickfile, mynickfile, tv_file, tv_tmp,
            writing, tv_events, frobstatus, nvram, uitype, creating, changed, unseen,
            tv_changes>>
exportVars == <<exporter, params, pending, service, asked, missed, export_changes>>
streamVars == <<ServerEnable, ClientEnable, ClientEnableByScheduler,
                ClientRunOnSchedule, ServerTimeLimit, settings, stream_seen, procs,
                timers, schedule, stream_scheduled, stream_changes>>
radioVars == <<config, psk, wepkey, wl, marker, todo, fallback, done, manual, rpcs>>
sensorVars == <<sensor_config, scheduler, value, minValue, maxValue, highTime, lowTime,
                resetHigh, resetLow, now, highSeen, lowSeen>>
forcedVars == <<values, saved, requested, wanted>>
systemVars == <<Requested, system_files, refused>>
vars == <<component, fileVars, wlanVars, natVars, dhcpVars, tvVars, exportVars,
          streamVars, radioVars, sensorVars, forcedVars, systemVars>>

Init ==
  /\ component \in {"file", "wlan", "nat", "dhcp", "tv", "export", "isostream", "radio",
                   "sensor", "wifi experiments", "system experiments"}
  /\ File!Init /\ Wlan!Init /\ PortMapping!Init /\ Dhcp!Init
  /\ Tv!Init /\ Export!Init /\ Stream!Init /\ Radio!Init
  /\ Sensor!Init /\ Forced!Init /\ System!Init

Next ==
  \/ /\ component = "file" /\ File!Next
     /\ UNCHANGED <<component, wlanVars, natVars, dhcpVars, tvVars, exportVars,
                     streamVars, radioVars, sensorVars, forcedVars, systemVars>>
  \/ /\ component = "wlan" /\ Wlan!Next
     /\ UNCHANGED <<component, fileVars, natVars, dhcpVars, tvVars, exportVars,
                     streamVars, radioVars, sensorVars, forcedVars, systemVars>>
  \/ /\ component = "nat" /\ PortMapping!Next
     /\ UNCHANGED <<component, fileVars, wlanVars, dhcpVars, tvVars, exportVars,
                     streamVars, radioVars, sensorVars, forcedVars, systemVars>>
  \/ /\ component = "dhcp" /\ Dhcp!Next
     /\ UNCHANGED <<component, fileVars, wlanVars, natVars, tvVars, exportVars,
                     streamVars, radioVars, sensorVars, forcedVars, systemVars>>
  \/ /\ component = "tv" /\ Tv!Next
     /\ UNCHANGED <<component, fileVars, wlanVars, natVars, dhcpVars, exportVars,
                     streamVars, radioVars, sensorVars, forcedVars, systemVars>>
  \/ /\ component = "export" /\ Export!Next
     /\ UNCHANGED <<component, fileVars, wlanVars, natVars, dhcpVars, tvVars,
                     streamVars, radioVars, sensorVars, forcedVars, systemVars>>
  \/ /\ component = "isostream" /\ Stream!Next
     /\ UNCHANGED <<component, fileVars, wlanVars, natVars, dhcpVars, tvVars,
                     exportVars, radioVars, sensorVars, forcedVars, systemVars>>
  \/ /\ component = "radio" /\ Radio!Next
     /\ UNCHANGED <<component, fileVars, wlanVars, natVars, dhcpVars, tvVars,
                     exportVars, streamVars, sensorVars, forcedVars, systemVars>>
  \/ /\ component = "sensor" /\ Sensor!Next
     /\ UNCHANGED <<component, fileVars, wlanVars, natVars, dhcpVars, tvVars,
                     exportVars, streamVars, radioVars, forcedVars, systemVars>>
  \/ /\ component = "wifi experiments" /\ Forced!Next
     /\ UNCHANGED <<component, fileVars, wlanVars, natVars, dhcpVars, tvVars,
                     exportVars, streamVars, radioVars, sensorVars, systemVars>>
  \/ /\ component = "system experiments" /\ System!Next
     /\ UNCHANGED <<component, fileVars, wlanVars, natVars, dhcpVars, tvVars,
                     exportVars, streamVars, radioVars, sensorVars, forcedVars>>

Spec == Init /\ [][Next]_vars

-----------------------------------------------------------------------------
(* Properties *)

TypeOK ==
  /\ File!TypeOK /\ Wlan!TypeOK /\ PortMapping!TypeOK /\ Dhcp!TypeOK /\ Tv!TypeOK
  /\ Export!TypeOK /\ Stream!TypeOK /\ Radio!TypeOK /\ Sensor!TypeOK
  /\ Forced!TypeOK /\ System!TypeOK

\* When nothing waits for the idle ioloop or for a notification, the files, the drivers
\* and the programs have what was assigned last, whatever assignments, roll backs,
\* deletions, failures and restarts came in between: the file of a parameter, conman's
\* and dnsmasq's files, the firewall, frobnicast, the small exporters, the isostream
\* processes, the Broadcom radio and the poller of a sensor.
AppliedWhenIdle ==
  /\ File!WritesLand /\ File!ChangesNoticed
  /\ Wlan!PolicyExported
  /\ PortMapping!MappingsApplied
  /\ Dhcp!PoolsServed
  /\ Tv!FrobnicastRestarted
  /\ Export!ServiceAsAsked
  /\ Stream!ProcessesAsEnabled
  /\ Radio!RadioConfigured
  /\ Sensor!PolledAsConfigured /\ Sensor!AlarmsMeanReadings

\* No Broadcom network is on the air under a new name before its encryption is set:
\* commands fail, and the process dies, between them.
ProtectedWhenNamed == Radio!ProtectedWhenNamed

\* The parameters that experiments force have the value of the last one requested, and
\* the files of the system's experiments ask for those requested, whatever was
\* requested, written or restarted before.
RequestedInForce == Forced!LastRequestedWins /\ System!FilesAskForRequested
=============================================================================
