---------------------------- MODULE MCDataModel ----------------------------
(***************************************************************************)
(* DataModel for TLC.                                                      *)
(***************************************************************************)
EXTENDS DataModel

MCIntervals == {-1, 0, 1, 30}
MCMultipliers == {<<0, 1>>, <<1, 1>>, <<2, 1>>, <<5, 2>>}

MCTypeOf == [b |-> "Bool", u |-> "Unsigned", d |-> "Date", n |-> "Unsigned"]
MCInitOf == [b |-> "False", u |-> "#0", d |-> "#0", n |-> "None"]
MCTexts == {"empty", "true", "1", "0", "-1", "x", "2013-01-01T00:00:00Z"}

MCMasks == {24, -1}

MCAllObjects == {<<"A">>, <<"A", "B">>, <<"A", "B", "C">>, <<"L">>}
MCVirtual == {<<"A">>}

\* Two keys of properties have the same parameter.
MCSorted == <<"a-b", "a.b", "c">>
MCClean == [k \in {"a-b", "a.b", "c"} |-> IF k = "c" THEN "c" ELSE "a_b"]

\* A value that the file can hold, and one that it cannot.
MCValue == <<"a", "backslash">>
MCPropertyValues == {MCValue, <<" ", "newline", "#", "a">>}

MCLinkPath == [br0 |-> "none", eth0 |-> "Eth", wlan0 |-> "Wlan"]

\* Only the component that was chosen begins with each of its initial states.
MCInit ==
  /\ component \in {"server", "set-acs", "socket", "transactions", "lists", "types",
                    "addresses", "handles", "sage", "hosts", "soap", "stb"}
  /\ IF component = "set-acs" THEN TRUE ELSE legacy = Acs!None
  /\ IF component = "transactions" THEN TRUE ELSE config = [o \in Objects |-> "a"]
  /\ IF component = "addresses" THEN TRUE ELSE socket = FALSE /\ kernel = {<<"a", 24>>}
  /\ IF component = "handles" THEN TRUE ELSE tree = {Lookups!Root} /\ params = {}
  /\ IF component = "sage" THEN TRUE ELSE sage = [k \in DOMAIN MCClean |-> MCValue]
  /\ IF component = "stb" THEN TRUE ELSE igmp = {}
  /\ Init

MCSpec == MCInit /\ [][Next]_vars
=============================================================================
