---------------------------- MODULE MCDevicePoll ----------------------------
(***************************************************************************)
(* A Cisco switch, an Arista switch and a device of an unknown vendor with *)
(* two ports.  The first port of the last may disappear at any time, the   *)
(* second lacks some 64-bit counters; counters of the two widths differ in *)
(* value so that they can be told apart.  A further Arista switch reuses   *)
(* the index of a sensor for a power supply while it is polled, and a      *)
(* further device numbers its interface from 0.                            *)
(***************************************************************************)
EXTENDS DevicePoll

\* Cells that may be missing, and cells that are always there.
Maybe(S)  == {{}} \cup {{v} : v \in S}
Always(v) == {{v}}

Rule(action, index, text, type, admin) ==
  [action |-> action, index |-> index, text |-> text, type |-> type,
   admin |-> admin]

NoFilter == [include |-> <<>>, rules |-> <<>>, exclude |-> <<>>]

\* A loopback is wanted unless it is down; names come before and after.
Mixed ==
  [include |-> <<Rule("include", {}, {}, {"softwareloopback"}, {})>>,
   rules   |-> <<Rule("exclude", {}, {"lo", "loop0"}, {}, {}),
                 Rule("include", {1}, {}, {}, {"up"})>>,
   exclude |-> <<Rule("exclude", {}, {}, {}, {"down"})>>]

Switch(id, name, filter, mode, table) ==
  [objectID |-> id, sysName |-> name, sysDescr |-> "system",
   filter |-> filter, mode |-> mode, table |-> table]

CiscoSwitch ==
  Switch(<<9, 1, 1745>>, "core-01", NoFilter, "v2",
    [cpu              |-> <<Maybe({50, 120}), Always(40)>>,
     memoryUsed       |-> <<Maybe({0, 3}), Always(2)>>,
     memoryFree       |-> <<Maybe({0, 5}), Always(1)>>,
     temperatureDescr |-> <<Maybe({"inlet"})>>,
     temperatureValue |-> <<Maybe({30, -1}), Maybe({45})>>,
     temperatureState |-> <<Maybe({1, 4})>>,
     supplyDescr      |-> <<Maybe({"psu"})>>,
     supplyState      |-> <<Maybe({3, 5})>>])

\* A RAM area that may grow between two columns, next to one of another kind.
AristaHost ==
  Switch(<<30065, 1, 3011, 7050, 3282, 52>>, "leaf-01", NoFilter, "v2",
    [cpu               |-> <<Maybe({60})>>,
     storageType       |-> <<Maybe({"ram"}), Always("flash")>>,
     storageAllocUnits |-> <<Maybe({4, 0}), Always(1)>>,
     storageSize       |-> <<Maybe({5, 8}), Always(9)>>,
     storageUsed       |-> <<Maybe({4, 7}), Always(2)>>])

\* Entity 1 is a sensor, or a power supply that takes its place while the
\* columns are walked; entity 2 is a power supply.
AristaSensor ==
  Switch(<<30065, 1, 3011, 7050, 9>>, "leaf-02", NoFilter, "v2",
    [physicalDescr   |-> <<Maybe({"sensor"}), Maybe({"psu"})>>,
     physicalClass   |-> <<{{8}, {6}}, Maybe({6})>>,
     entityState     |-> 2 :> Maybe({2, 3}),
     sensorType      |-> <<Maybe({8, 4, 10})>>,
     sensorScale     |-> <<Maybe({9})>>,
     sensorPrecision |-> <<Maybe({0})>>,
     sensorValue     |-> <<Maybe({-5, 40})>>,
     sensorStatus    |-> <<Maybe({1, 2, 3})>>])

\* It numbers its only interface from 0.
ZeroBased ==
  Switch(<<2021, 8>>, "edge-01", NoFilter, "v2",
    [ifIndex       |-> 0 :> Maybe({0}),
     ifName        |-> 0 :> Maybe({"eth0"}),
     ifHCInOctets  |-> 0 :> Maybe({641}),
     ifHCOutOctets |-> 0 :> Maybe({642})])

OtherSwitch(filter, mode) ==
  Switch(<<2021, 7>>, "", filter, mode,
    [ifIndex       |-> <<Maybe({1}), Maybe({2})>>,
     ifDescr       |-> <<Maybe({"loop0"}), Always("port2")>>,
     ifName        |-> <<Maybe({" ", "lo"}), Always("")>>,
     ifType        |-> <<Maybe({24}), Always(6)>>,
     ifAdminStatus |-> <<Maybe({1}), Maybe({2})>>,
     ifHCInOctets  |-> <<Maybe({641}), Maybe({643})>>,
     ifHCOutOctets |-> <<Maybe({642}), Maybe({644})>>,
     ifInErrors    |-> <<Maybe({7}), Always(0)>>,
     ifOutErrors   |-> <<Always(0), Always(0)>>,
     ifInOctets    |-> <<Maybe({321}), Always(323)>>,
     ifOutOctets   |-> <<Maybe({322}), Maybe({324})>>])

MCAgents == {CiscoSwitch, AristaHost, AristaSensor, ZeroBased,
              OtherSwitch(NoFilter, "both"), OtherSwitch(Mixed, "v2")}
=============================================================================
