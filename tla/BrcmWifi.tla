------------------------------ MODULE BrcmWifi ------------------------------
(***************************************************************************)
(* The Broadcom Wifi of dm/brcmwifi.py: assignments of the ACS gather in   *)
(* config; CommitTransaction then drives the radio with one wl command     *)
(* after the other.  wl and the driver are external: any command can fail, *)
(* which ends the commit, and the process can die between two commands.    *)
(*                                                                         *)
(* RegulatoryDomain stands for the four settings that are commanded only   *)
(* if they were ever assigned.  The settings that read the same for every  *)
(* network (spect, mpc), a PreSharedKey and counters are left out.         *)
(***************************************************************************)
EXTENDS Integers, Sequences

CONSTANTS
  Domains, Ssids, Phrases,   \* "" is not among the SSIDs
  Channels,
  Rpcs,          \* SetParameterValues: sequences of <<parameter, value>>
  WepKeys,       \* number of WEP keys
  MaxRpcs        \* bound: RPCs

VARIABLES
  config,     \* the settings of the object
  psk,        \* PreSharedKeyList[1]: passphrase, and the key computed from it
  wepkey,     \* the WEP keys
  wl,         \* the settings of the driver
  marker,     \* WL_RADIO_STATE_MARKER_FILE exists
  todo,       \* the commands of CommitTransaction that are still to be run
  fallback,   \* calls of SetAutoRateFallBackEnabled in the session's cache
  done,       \* observation only: the last commit ran all its commands
  manual,     \* observation only: the ACS turned the automatic channel off itself
  rpcs        \* RPCs so far

vars == <<config, psk, wepkey, wl, marker, todo, fallback, done, manual, rpcs>>

None == "(none)"
NoChannel == 0    \* None: less than every number, in Python 2

DefaultSettings ==
  [ Enable |-> FALSE, RadioEnabled |-> TRUE, AutoChannelEnable |-> TRUE,
    OperatingFrequencyBand |-> "2.4GHz", Channel |-> NoChannel, SSID |-> None,
    AutoRateFallBackEnabled |-> None, RegulatoryDomain |-> None,
    BeaconType |-> "WPAand11i", BasicEncryptionModes |-> "WEPEncryption",
    WPAEncryptionModes |-> "None", IEEE11iEncryptionModes |-> "None" ]

NoKey == <<None, None>>

\* What is assumed of the constants: the RPCs assign values that the setters take, one of
\* them at least to the object itself (the WEP keys are objects of their own, and an RPC
\* that assigns nothing else commits nothing here).
BrcmWifiAssumption ==
  /\ Channels \subseteq Nat /\ WepKeys \in Nat
  /\ \A rpc \in Rpcs :
       /\ Len(rpc) \in Nat /\ DOMAIN rpc = 1..Len(rpc)
       /\ \E n \in DOMAIN rpc : rpc[n][1] # "WEPKey"
       /\ \A n \in DOMAIN rpc :
            LET p == rpc[n][1]  v == rpc[n][2] IN
            \/ p \in {"Enable", "RadioEnabled", "AutoChannelEnable"} /\ v \in BOOLEAN
            \/ p = "OperatingFrequencyBand" /\ v \in {"2.4GHz", "5GHz"}
            \/ p = "Channel" /\ v \in Channels
            \/ p = "SSID" /\ v \in Ssids \ {None, ""}
            \/ p = "AutoRateFallBackEnabled" /\ v \in {"on", "off"}
            \/ p = "RegulatoryDomain" /\ v \in Domains
            \/ p = "KeyPassphrase" /\ v \in Phrases \cup {""}
            \/ /\ p \in {"BeaconType", "BasicEncryptionModes", "WPAEncryptionModes",
                          "IEEE11iEncryptionModes", "WEPKey"}
               /\ v \in STRING

Init ==
  /\ config = DefaultSettings
  /\ psk = [passphrase |-> None, key |-> NoKey]
  /\ wepkey = [i \in 1..WepKeys |-> ""]
  /\ wl = [ radio |-> TRUE, up |-> FALSE, ap |-> FALSE, bss |-> TRUE, band |-> "2.4GHz",
            ssid |-> "", channel |-> NoChannel, country |-> None, interference |-> None,
            wsec |-> {}, sup_wpa |-> FALSE, wpa_auth |-> 0, pmk |-> NoKey,
            wep |-> wepkey ]
  /\ marker \in BOOLEAN
  /\ todo = << >> /\ fallback = {}
  /\ done = FALSE /\ manual = FALSE
  /\ rpcs = 0

-----------------------------------------------------------------------------
(* The setters *)

BandOf(channel) == IF channel < 20 THEN "2.4GHz" ELSE "5GHz"

SetChannel(c, value) ==
  [c EXCEPT !.OperatingFrequencyBand = BandOf(value), !.Channel = value,
            !.AutoChannelEnable = FALSE]

\* A channel of the other band, or none and 5 GHz, gives way to an automatic one.
SetOperatingFrequencyBand(c, value) ==
  [c EXCEPT !.OperatingFrequencyBand = value,
            !.AutoChannelEnable = \/ @
                                  \/ value = "2.4GHz" /\ c.Channel >= 20
                                  \/ value = "5GHz" /\ c.Channel < 20]

\* A setting without a rule of its own (AutoRateFallBackEnabled is "on" or "off").
AsIs(c, p, value) == [c EXCEPT ![p] = value]

\* Keys are not in config.
Set(c, p, value) ==
  CASE p = "Channel"                -> SetChannel(c, value)
    [] p = "OperatingFrequencyBand" -> SetOperatingFrequencyBand(c, value)
    [] p \in DOMAIN c \ {"Channel", "OperatingFrequencyBand"} -> AsIs(c, p, value)
    [] OTHER                        -> c

Assigned(c, rpc) ==
  LET assigned[n \in 0..Len(rpc)] ==
        IF n = 0 THEN c ELSE Set(assigned[n - 1], rpc[n][1], rpc[n][2])
  IN assigned[Len(rpc)]

\* A new passphrase forgets the key of the old one.
SetKeyPassphrase(value) == [passphrase |-> value, key |-> NoKey]

-----------------------------------------------------------------------------
(* The commands *)

\* Mutation: the key is kept when the SSID changes.
GetKeyOnce(k, salt) ==
  IF k.key = NoKey /\ k.passphrase # None THEN <<k.passphrase, salt>> ELSE k.key

\* The SSID is the salt of the key, which is computed again when it changes.
GetKey(k, salt) ==
  IF (k.key = NoKey \/ k.key[2] # salt) /\ k.passphrase # None
  THEN <<k.passphrase, salt>> ELSE k.key

\* The bits of the ciphers; a mode that is not known, like None, has none.
Ciphers(mode) ==
  CASE mode = "WEPEncryption"              -> {"WEP"}
    [] mode = "TKIPEncryption"             -> {"TKIP"}
    [] mode = "WEPandTKIPEncryption"       -> {"WEP", "TKIP"}
    [] mode = "AESEncryption"              -> {"AES"}
    [] mode = "WEPandAESEncryption"        -> {"WEP", "AES"}
    [] mode = "TKIPandAESEncryption"       -> {"TKIP", "AES"}
    [] mode = "WEPandTKIPandAESEncryption" -> {"WEP", "TKIP", "AES"}
    [] OTHER                               -> {}

\* The best that the beacon announces decides.
Encryption(c) ==
  CASE c.BeaconType \in {"11i", "Basicand11i", "WPAand11i", "BasicandWPAand11i"} ->
         LET crypto == Ciphers(c.IEEE11iEncryptionModes)
         IN [wsec |-> crypto, sup_wpa |-> TRUE, wpa_auth |-> IF crypto = {} THEN 0 ELSE 128]
    [] c.BeaconType \in {"WPA", "BasicandWPA"} ->
         LET crypto == Ciphers(c.WPAEncryptionModes)
         IN [wsec |-> crypto, sup_wpa |-> TRUE, wpa_auth |-> IF crypto = {} THEN 0 ELSE 4]
    [] c.BeaconType = "Basic" ->
         [wsec |-> Ciphers(c.BasicEncryptionModes), sup_wpa |-> FALSE, wpa_auth |-> 0]
    [] OTHER -> [wsec |-> {}, sup_wpa |-> FALSE, wpa_auth |-> 0]

\* The scan needs an interface that is up, but no access point and no SSID.
DoAutoChannelSelect ==
  << [up |-> FALSE], [ssid |-> ""], [ap |-> FALSE], [up |-> TRUE], [up |-> FALSE] >>

If(given, command) == IF given THEN <<command>> ELSE << >>

\* A call with an argument that the session has seen is answered from its cache.
SetAutoRateFallBackEnabled(value) ==
  If(value \notin {None} \cup fallback, [interference |-> value])

\* _ConfigureBrcmWifi.  A command is a record of the settings it changes.  The calls
\* of SetAutoRateFallBackEnabled go through the session's cache.
Commands(c, key, wep, chan) ==
  LET crypto == Encryption(c) IN
  IF ~c.Enable \/ ~c.RadioEnabled THEN << [radio |-> FALSE] >>
  ELSE << [radio |-> TRUE], [up |-> FALSE], [band |-> c.OperatingFrequencyBand] >>
       \o (IF c.AutoChannelEnable THEN DoAutoChannelSelect ELSE << >>)
       \o << [ap |-> TRUE], [bss |-> FALSE] >>
       \o SetAutoRateFallBackEnabled(c.AutoRateFallBackEnabled)
       \o << [channel |-> chan] >>
       \o If(c.RegulatoryDomain # None, [country |-> c.RegulatoryDomain])
       \o << [wsec |-> crypto.wsec], [sup_wpa |-> crypto.sup_wpa],
             [wpa_auth |-> crypto.wpa_auth] >>
       \o If(key # NoKey, [pmk |-> key])
       \o (IF c.SSID = None THEN << >> ELSE << [up |-> TRUE], [ssid |-> c.SSID] >>)
       \o << [wep |-> wep] >>

\* Mutation: the SSID is set before the encryption.
SsidFirst(c, key, wep, chan) ==
  LET all == Commands(c, key, wep, chan) IN
  SelectSeq(all, LAMBDA x : DOMAIN x # {"wsec"}) \o SelectSeq(all, LAMBDA x : DOMAIN x = {"wsec"})

CommitTransaction(c, key, wep, chan) == Commands(c, key, wep, chan)

-----------------------------------------------------------------------------

Assigns(rpc, p) == {n \in DOMAIN rpc : rpc[n][1] = p}
LastValue(rpc, p) ==
  rpc[CHOOSE n \in Assigns(rpc, p) : \A k \in Assigns(rpc, p) : k <= n][2]

\* SetParameterValues of tr/api.py on this object.  A fault that the assignments meet
\* is rolled back: every parameter that had another value is assigned it again, and
\* AbandonTransaction gives config back.  Keys are not in config; and a passphrase reads
\* as an empty string, so that its roll back, or the assignment of an empty one, which is
\* not rolled back, leaves an empty one.  A fault before them changes nothing.
SetParameterValues(rpc, fault) ==
  LET keys == Assigns(rpc, "KeyPassphrase")
      weps == Assigns(rpc, "WEPKey")
      new  == Assigned(config, rpc)
      set  == IF keys = {} THEN psk ELSE SetKeyPassphrase(LastValue(rpc, "KeyPassphrase"))
      key  == GetKey(set, new.SSID)
  IN
  /\ todo = << >>
  /\ IF fault
     THEN /\ psk' \in {psk} \cup {SetKeyPassphrase("") : n \in keys}
          /\ UNCHANGED <<config, wepkey, todo, done, manual>>
     ELSE /\ config' = new
          /\ wepkey' = [i \in DOMAIN wepkey |-> IF weps = {} THEN wepkey[i]
                                                ELSE LastValue(rpc, "WEPKey")]
          /\ psk' = IF ~new.Enable \/ ~new.RadioEnabled THEN set
                    ELSE [set EXCEPT !.key = key]
          /\ \E chan \in IF new.AutoChannelEnable
                         THEN {c \in Channels : BandOf(c) = new.OperatingFrequencyBand}
                         ELSE {new.Channel} :
               todo' = CommitTransaction(new, key, wepkey', chan)
          /\ done' = FALSE
          /\ manual' = (manual \/ \E n \in Assigns(rpc, "AutoChannelEnable") : ~rpc[n][2])
  /\ UNCHANGED <<wl, marker, fallback>>

\* One wl command.  The marker file follows the radio.
RunCommand ==
  /\ todo # << >>
  /\ wl' = [s \in DOMAIN wl |-> IF s \in DOMAIN Head(todo) THEN Head(todo)[s] ELSE wl[s]]
  /\ todo' = Tail(todo)
  /\ done' = (todo' = << >>)
  /\ marker' = IF "radio" \in DOMAIN Head(todo) THEN Head(todo).radio ELSE marker
  /\ fallback' = IF "interference" \in DOMAIN Head(todo)
                 THEN fallback \cup {Head(todo).interference} ELSE fallback
  /\ UNCHANGED <<config, psk, wepkey, manual, rpcs>>

\* check_call raises CalledProcessError, through CommitTransaction.
CommandFails ==
  /\ todo # << >>
  /\ todo' = << >>
  /\ UNCHANGED <<config, psk, wepkey, wl, marker, fallback, done, manual, rpcs>>

EndSession ==
  /\ todo = << >> /\ fallback # {}
  /\ fallback' = {}
  /\ UNCHANGED <<config, psk, wepkey, wl, marker, todo, done, manual, rpcs>>

\* The process starts anew; the driver and the file keep their state.
Restart ==
  /\ config # DefaultSettings
  /\ config' = DefaultSettings
  /\ psk' = [passphrase |-> None, key |-> NoKey]
  /\ wepkey' = [i \in 1..WepKeys |-> ""]
  /\ todo' = << >> /\ fallback' = {} /\ done' = FALSE /\ manual' = FALSE
  /\ UNCHANGED <<wl, marker, rpcs>>

Next ==
  \/ /\ rpcs < MaxRpcs /\ rpcs' = rpcs + 1
     /\ \E rpc \in Rpcs, fault \in BOOLEAN : SetParameterValues(rpc, fault)
  \/ RunCommand
  \/ CommandFails
  \/ EndSession
  \/ Restart

Spec == Init /\ [][Next]_vars

-----------------------------------------------------------------------------
(* Properties *)

TypeOK ==
  /\ DOMAIN config = DOMAIN DefaultSettings
  /\ psk.passphrase \in Phrases \cup {None, ""}
  /\ wl.ssid \in Ssids \cup {""} /\ wl.channel \in Channels \cup {NoChannel}
  /\ marker \in BOOLEAN /\ fallback \subseteq {"on", "off"}

Protection == [wsec |-> wl.wsec, sup_wpa |-> wl.sup_wpa, wpa_auth |-> wl.wpa_auth]

\* When a commit has run all its commands, the radio is what the ACS asked for,
\* whatever failed or died before; it is off unless both switches are on.  The key
\* is the one of the passphrase and of this SSID (after a fault no passphrase is
\* left to compare with), and the channel is in the band, unless the ACS itself turned
\* the choice of a fitting one off.
RadioConfigured ==
  done =>
    /\ marker <=> wl.radio
    /\ wl.radio <=> config.Enable /\ config.RadioEnabled
    /\ wl.radio =>
         /\ ~config.AutoChannelEnable => wl.channel = config.Channel
         /\ wl.channel # NoChannel /\ ~manual => BandOf(wl.channel) = wl.band
         /\ wl.ap /\ Protection = Encryption(config)
         /\ config.SSID # None => wl.up /\ wl.ssid = config.SSID
         /\ psk.passphrase \notin {None, ""} => wl.pmk = <<psk.passphrase, config.SSID>>

\* A network never goes on the air under a new name before its encryption and
\* authentication are set: commands fail, and the process dies, between them.
ProtectedWhenNamed ==
  [][ wl'.ssid \notin {wl.ssid, ""} => Protection = Encryption(config) ]_vars
=============================================================================
