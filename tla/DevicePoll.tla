----------------------------- MODULE DevicePoll -----------------------------
(***************************************************************************)
(* One device, polled again and again (internal/poller doPoll): identity,  *)
(* the interface tables, the vendor profile's tables, the interface        *)
(* filter, and the telemetry that goes to the publisher.                   *)
(*                                                                         *)
(* Every table column is a request of its own, and the device lives on     *)
(* between two requests: a row may be missing from any of them, values     *)
(* may have moved, and a walk may end early.  A step walks one column.     *)
(* Columns that only fill fields nothing here depends on (alias, speed,    *)
(* operational status, last change) are left out, and so is the scaling of *)
(* sensor values; averages and percentages are whole numbers.              *)
(*                                                                         *)
(* As in MessageValidation an optional value is a set with at most one     *)
(* element.  An index no column has read and a missing map entry are alike.*)
(***************************************************************************)
EXTENDS MessageValidation, Sequences, SequencesExt, FiniteSetsExt

CONSTANTS
  Agents    \* configured devices: what the agent answers (its identity, and
            \* for every column what the rows may hold), the interface filter,
            \* and the publish mode of the collector (telemetry_version)

\* Columns that hold numbers the poll calculates with.
NumberColumns ==
  {"cpu", "memoryUsed", "memoryFree", "storageAllocUnits", "storageSize",
   "storageUsed", "temperatureValue", "sensorValue"}

\* What the SNMP library hands over: a table has finitely many rows, their
\* indices are sub-identifiers, and a cell holds one value, if any.
ASSUME AgentAssumption ==
  \A a \in Agents :
    /\ \A rules \in {a.filter.include, a.filter.rules, a.filter.exclude} :
         rules \in Seq(Range(rules))
    /\ \A c \in DOMAIN a.table :
         /\ IsFiniteSet(DOMAIN a.table[c]) /\ DOMAIN a.table[c] \subseteq Nat
         /\ \A i \in DOMAIN a.table[c] : \A cell \in a.table[c][i] :
              \A v, w \in cell : v = w /\ (c \in NumberColumns => v \in Int)

VARIABLES
  device,   \* the device
  stage,    \* what the poll does next
  walks,    \* columns left to walk in this stage
  cols,     \* columns read in this stage: column -> row -> optional value
  identity, \* result.Identity
  ifaces,   \* result.Interfaces
  vendor,   \* result.Vendor
  telemetry, \* events of the poll the publisher accepted
  outcome   \* health.PollOutcome of the finished poll

pollVars == <<device, stage, walks, cols, identity, ifaces, vendor, telemetry,
              outcome>>

-----------------------------------------------------------------------------
(***************************************************************************)
(* Profiles (internal/snmp/profile, internal/snmp/vendors).  An object id  *)
(* is the sequence of its numbers below enterprises.                       *)
(***************************************************************************)

Profiles == <<"cisco", "arista">>

ExactObjectIDs == [cisco  |-> {<<9, 1, 1745>>},
                   arista |-> {<<30065, 1, 3011, 7050, 3282, 52>>}]

ObjectIDPrefixes == [cisco |-> {}, arista |-> {<<30065, 1, 3011, 7050>>}]

GenericVendorPrefix == [cisco |-> {<<9>>}, arista |-> {<<30065>>}]

\* The profile with the longest prefix of oid among those of a tier, if any.
Longest(tier, oid) ==
  LET hits == {p \in Range(Profiles) : \E id \in tier[p] : IsPrefix(id, oid)}
      length(p) == Max({Len(id) : id \in {x \in tier[p] : IsPrefix(x, oid)}})
  IN  {p \in hits : \A q \in hits : length(q) <= length(p)}

\* Registry.Match.
Match(oid) ==
  LET exact   == {p \in Range(Profiles) : oid \in ExactObjectIDs[p]}
      prefix  == Longest(ObjectIDPrefixes, oid)
      generic == Longest(GenericVendorPrefix, oid)
  IN  CASE exact # {}  -> exact
        [] exact = {} /\ prefix # {} -> prefix
        [] OTHER -> generic

-----------------------------------------------------------------------------
(***************************************************************************)
(* Columns, in the order they are walked.                                  *)
(***************************************************************************)

InterfaceColumns ==
  <<"ifIndex", "ifDescr", "ifName", "ifType", "ifAdminStatus",
    "ifHCInOctets", "ifHCOutOctets", "ifInErrors", "ifOutErrors">>

FallbackColumns == <<"ifInOctets", "ifOutOctets">>

ProfileColumns ==
  [cisco  |-> <<"cpu", "memoryUsed", "memoryFree", "temperatureDescr",
                "temperatureValue", "temperatureState", "supplyDescr",
                "supplyState">>,
   arista |-> <<"cpu", "storageType", "storageAllocUnits", "storageSize",
                "storageUsed", "physicalDescr", "physicalClass",
                "entityState", "sensorType", "sensorScale",
                "sensorPrecision", "sensorValue", "sensorStatus">>]

\* Rows of a column; a device without the column has none.
Rows(c) == IF c \in DOMAIN device.table THEN DOMAIN device.table[c] ELSE {}

\* What a request for the column may find: a choice for every row.
Reads(c) ==
  {f \in [Rows(c) -> UNION {device.table[c][i] : i \in Rows(c)}] :
     \A i \in Rows(c) : f[i] \in device.table[c][i]}

\* The checks the walk functions make: percentValue, positiveValue and
\* nonNegativeValue (arista reads sensors without one).
Acceptable(c, v) ==
  CASE c = "cpu" -> v \in 0 .. 100
    [] c = "storageAllocUnits" -> v > 0
    [] c \in {"memoryUsed", "memoryFree", "temperatureValue", "storageSize",
              "storageUsed"} -> v >= 0
    [] OTHER -> TRUE

\* Rows come in order of their index; the walk ends at the first row that is
\* not acceptable, or before a row cut off by an error, and keeps the rows
\* before it.
Refused(c, f) == {i \in DOMAIN f : \E v \in f[i] : ~Acceptable(c, v)}

Kept(c, f, cut) ==
  [i \in DOMAIN f |->
     IF \E j \in Refused(c, f) \cup cut : j <= i THEN {} ELSE f[i]]

\* The columns once c has been read as well.
With(c, f) == [d \in DOMAIN cols \cup {c} |-> IF d = c THEN f ELSE cols[d]]

\* The value read for row i of a column, if the column was walked at all.
Cell(c, i) ==
  IF c \in DOMAIN cols /\ i \in Rows(c) THEN cols[c][i] ELSE {}

Filled(c) == {i \in Rows(c) : Cell(c, i) # {}}

The(opt, default) == IF opt = {} THEN default ELSE CHOOSE v \in opt : TRUE

-----------------------------------------------------------------------------
(***************************************************************************)
(* What the columns say of the interfaces (core/if_mib.go).                *)
(***************************************************************************)

\* Codes that no default and no rule singles out share a name.
InterfaceTypeName(code) ==
  CASE code = 6 -> "ethernetcsmacd"
    [] code = 24 -> "softwareloopback"
    [] code = 53 -> "propvirtual"
    [] code = 131 -> "tunnel"
    [] code = 135 -> "l2vlan"
    [] code = 209 -> "bridge"
    [] OTHER -> "other"

InterfaceStatusName(code) ==
  CASE code = 1 -> "up" [] code = 2 -> "down" [] code = 3 -> "testing"
    [] OTHER -> "unknown"

\* Some interface lacks a 64-bit octet counter: the 32-bit columns are walked.
NeedFallback ==
  \E i \in Filled("ifIndex") :
    Cell("ifHCInOctets", i) = {} \/ Cell("ifHCOutOctets", i) = {}

\* Mutant: the fallback is taken for each direction by itself.
InterfaceReadingPerDirection(i) ==
  LET Octets(wide, narrow) ==
        IF Cell(wide, i) # {} THEN Cell(wide, i) ELSE Cell(narrow, i)
      in  == Octets("ifHCInOctets", "ifInOctets")
      out == Octets("ifHCOutOctets", "ifOutOctets")
  IN  [index       |-> i,
       descr       |-> The(Cell("ifDescr", i), ""),
       name        |-> The(Cell("ifName", i), ""),
       type        |-> InterfaceTypeName(The(Cell("ifType", i), 0)),
       admin       |-> InterfaceStatusName(The(Cell("ifAdminStatus", i), 0)),
       inOctets    |-> in,
       outOctets   |-> out,
       inErrors    |-> {The(Cell("ifInErrors", i), 0)},
       outErrors   |-> {The(Cell("ifOutErrors", i), 0)},
       hasCounters |-> in # {} /\ out # {}]

\* Both octet counters come from the 64-bit columns, or both from the others.
InterfaceReading(i) ==
  LET wide == Cell("ifHCInOctets", i) # {} /\ Cell("ifHCOutOctets", i) # {}
      in   == IF wide THEN Cell("ifHCInOctets", i) ELSE Cell("ifInOctets", i)
      out  == IF wide THEN Cell("ifHCOutOctets", i)
                      ELSE Cell("ifOutOctets", i)
  IN  [index       |-> i,
       descr       |-> The(Cell("ifDescr", i), ""),
       name        |-> The(Cell("ifName", i), ""),
       type        |-> InterfaceTypeName(The(Cell("ifType", i), 0)),
       admin       |-> InterfaceStatusName(The(Cell("ifAdminStatus", i), 0)),
       inOctets    |-> in,
       outOctets   |-> out,
       inErrors    |-> {The(Cell("ifInErrors", i), 0)},
       outErrors   |-> {The(Cell("ifOutErrors", i), 0)},
       hasCounters |-> in # {} /\ out # {}]

PollInterfaces == {InterfaceReading(i) : i \in Filled("ifIndex")}

-----------------------------------------------------------------------------
(***************************************************************************)
(* What the columns say of the vendor readings (vendors/cisco, arista).    *)
(***************************************************************************)

Sum(f) == MapThenSumSet(LAMBDA i : f[i], DOMAIN f)

\* A percentage, unless the whole is nothing.
Percent(part, whole) == IF whole <= 0 THEN {} ELSE {(part * 100) \div whole}

Average(c) ==
  LET value == [i \in Filled(c) |-> The(Cell(c, i), 0)]
  IN  IF Filled(c) = {} THEN {} ELSE {Sum(value) \div Cardinality(Filled(c))}

\* Pools of which both columns were read.
CiscoMemory ==
  LET complete == Filled("memoryUsed") \cap Filled("memoryFree")
      used == [i \in complete |-> The(Cell("memoryUsed", i), 0)]
      free == [i \in complete |-> The(Cell("memoryFree", i), 0)]
  IN  Percent(Sum(used), Sum(used) + Sum(free))

\* Mutant: an area that grew between the columns is counted.
AristaMemoryAnySize ==
  LET complete == {i \in Filled("storageAllocUnits")
                          \cap Filled("storageSize")
                          \cap Filled("storageUsed") :
                     Cell("storageType", i) = {"ram"}}
      bytes(c) == [i \in complete |->
                     The(Cell(c, i), 0) * The(Cell("storageAllocUnits", i), 0)]
  IN  Percent(Sum(bytes("storageUsed")), Sum(bytes("storageSize")))

\* RAM areas of which every column was read.  The size may have been read
\* before the area grew.
AristaMemory ==
  LET size(i) == The(Cell("storageSize", i), 0)
      used(i) == The(Cell("storageUsed", i), 0)
      unit(i) == The(Cell("storageAllocUnits", i), 0)
      complete == {i \in Filled("storageAllocUnits")
                          \cap Filled("storageSize")
                          \cap Filled("storageUsed") :
                     Cell("storageType", i) = {"ram"} /\ used(i) <= size(i)}
  IN  Percent(Sum([i \in complete |-> used(i) * unit(i)]),
              Sum([i \in complete |-> size(i) * unit(i)]))

CiscoEnvironmentStatus(code) ==
  CASE code = 1 -> "ok" [] code = 2 -> "warning" [] code = 3 -> "critical"
    [] code = 5 -> "not_present" [] OTHER -> "unknown"

SensorOperStatus(code) ==
  CASE code = 1 -> "ok" [] code = 3 -> "critical" [] OTHER -> "unknown"

EntityOperStatus(code) ==
  CASE code = 2 -> "ok" [] code = 3 -> "not_present" [] OTHER -> "unknown"

\* The empty status stands for a column that was not read.
StatusFrom(cell, name(_)) ==
  IF cell = {} THEN "" ELSE name(CHOOSE v \in cell : TRUE)

\* sortedComponents: an index any of the columns mentions; its unit is known
\* with its value.
CiscoComponents(descr, value, state, unit) ==
  {[index  |-> i,
    source |-> "environment",
    name   |-> The(Cell(descr, i), ""),
    value  |-> Cell(value, i),
    unit   |-> IF Cell(value, i) = {} THEN "" ELSE unit,
    status |-> StatusFrom(Cell(state, i), CiscoEnvironmentStatus)] :
   i \in {j \in Rows(descr) \cup Rows(value) \cup Rows(state) :
            \/ Cell(descr, j) \notin {{}, {""}}
            \/ Cell(value, j) # {}
            \/ Cell(state, j) # {}}}

\* sensorDestination.
SensorUnits == (8 :> "celsius") @@ (6 :> "watts") @@ (3 :> "volts_ac")
               @@ (4 :> "volts_dc") @@ (5 :> "amperes")

\* Sensors of the given units; a value needs its scale and its precision.
AristaSensors(units) ==
  {LET value == IF Cell("sensorScale", i) = {} \/ Cell("sensorPrecision", i) = {}
                THEN {} ELSE Cell("sensorValue", i)
   IN  [index  |-> i,
        source |-> "sensor",
        name   |-> The(Cell("physicalDescr", i), ""),
        value  |-> value,
        unit   |-> IF value = {} THEN ""
                   ELSE SensorUnits[The(Cell("sensorType", i), 0)],
        status |-> StatusFrom(Cell("sensorStatus", i), SensorOperStatus)] :
   i \in {j \in Filled("sensorType") :
            \E t \in DOMAIN SensorUnits :
              Cell("sensorType", j) = {t} /\ SensorUnits[t] \in units}}

\* Power supplies, by their entity class.
AristaSupplies ==
  {[index  |-> i,
    source |-> "entity",
    name   |-> The(Cell("physicalDescr", i), ""),
    value  |-> {},
    unit   |-> "",
    status |-> StatusFrom(Cell("entityState", i), EntityOperStatus)] :
   i \in {j \in Filled("physicalClass") : Cell("physicalClass", j) = {6}}}

Capabilities == {"cpu", "memory", "temperature", "power"}

CoreOnly == [profile |-> "", capabilities |-> {}, cpu |-> {}, memory |-> {},
             temperatures |-> {}, power |-> {}]

\* Profile.Collect, when the walks are over.
CollectCisco ==
  [profile      |-> "cisco",
   capabilities |-> Capabilities,
   cpu          |-> Average("cpu"),
   memory       |-> CiscoMemory,
   temperatures |-> CiscoComponents("temperatureDescr", "temperatureValue",
                                    "temperatureState", "celsius"),
   power        |-> CiscoComponents("supplyDescr", "supplyValue",
                                    "supplyState", "")]

CollectArista ==
  [profile      |-> "arista",
   capabilities |-> Capabilities,
   cpu          |-> Average("cpu"),
   memory       |-> AristaMemory,
   temperatures |-> AristaSensors({"celsius"}),
   power        |-> AristaSensors({"watts", "volts_ac", "volts_dc",
                                   "amperes"}) \cup AristaSupplies]

-----------------------------------------------------------------------------
(***************************************************************************)
(* The interface filter (internal/snmp/filter).  A rule restricts some of  *)
(* index, text, type and admin status; an unrestricted field is the empty  *)
(* set.  A pattern is the set of texts it matches.                         *)
(***************************************************************************)

DefaultExcludedTypes ==
  {"softwareloopback", "l2vlan", "propvirtual", "tunnel", "bridge"}

\* The rules of one action, in their order.
Listed(rules, action) ==
  LET add(list, r) == IF r.action = action THEN Append(list, r) ELSE list
  IN  FoldLeft(add, <<>>, rules)

\* New: shorthand includes come before the listed rules, shorthand excludes
\* after them.
Compiled(cfg) ==
  [includes |-> cfg.include \o Listed(cfg.rules, "include"),
   excludes |-> Listed(cfg.rules, "exclude") \o cfg.exclude]

RuleMatches(r, i) ==
  /\ r.index = {} \/ i.index \in r.index
  /\ r.text = {} \/ {i.name, i.descr} \cap r.text # {}
  /\ r.type = {} \/ i.type \in r.type
  /\ r.admin = {} \/ i.admin \in r.admin

\* Mutant: includes are applied after the excludes.
SelectionIncludeLast(cfg, i) ==
  LET start == IF i.type \in DefaultExcludedTypes THEN "excluded_default"
                                                  ELSE "selected"
      include(sel, r) == IF RuleMatches(r, i) THEN "selected" ELSE sel
      exclude(sel, r) == IF RuleMatches(r, i) THEN "excluded_rule" ELSE sel
      f == Compiled(cfg)
  IN  FoldLeft(include, FoldLeft(exclude, start, f.excludes), f.includes)

\* Apply, for one interface: a later match overrides an earlier one.
Selection(cfg, i) ==
  LET start == IF i.type \in DefaultExcludedTypes THEN "excluded_default"
                                                  ELSE "selected"
      include(sel, r) == IF RuleMatches(r, i) THEN "selected" ELSE sel
      exclude(sel, r) == IF RuleMatches(r, i) THEN "excluded_rule" ELSE sel
      f == Compiled(cfg)
  IN  FoldLeft(exclude, FoldLeft(include, start, f.includes), f.excludes)

-----------------------------------------------------------------------------
(***************************************************************************)
(* Telemetry (internal/telemetry, internal/normalize).                     *)
(***************************************************************************)

\* PrimaryTemperature: the highest reading that is not negative.
PrimaryTemperature(components) ==
  LET valid == {v \in UNION {c.value : c \in components} : v >= 0}
  IN  IF valid = {} THEN {} ELSE {Max(valid)}

KnownStatus(s) == IF s = "" THEN "unknown" ELSE s

\* A temperature without a value is not reported.
TemperatureComponents(components) ==
  {[index |-> c.index, source |-> c.source, name |-> c.name,
    value |-> c.value, unit |-> IF c.unit = "" THEN "celsius" ELSE c.unit,
    status |-> KnownStatus(c.status)] :
   c \in {d \in components : d.value # {}}}

NormalizePowerUnit(unit) ==
  CASE unit = "" -> "state"
    [] unit \in {"volts_ac", "volts_dc"} -> "volts"
    [] unit = "amperes" -> "amps"
    [] OTHER -> unit

PowerComponents(components) ==
  {[index |-> c.index, source |-> c.source, name |-> c.name,
    value |-> c.value, unit |-> NormalizePowerUnit(c.unit),
    status |-> KnownStatus(c.status)] : c \in components}

\* The device's id stands in for an empty sysName, as host name only.
DeviceTelemetry ==
  [version |-> 2, kind |-> "device", type |-> "device_telemetry",
   payload |->
     [hostname     |-> IF identity.sysName = "" THEN "id"
                                                ELSE identity.sysName,
      sysName      |-> identity.sysName,
      sysDescr     |-> identity.sysDescr,
      profile      |-> IF vendor.profile = "" THEN "core" ELSE vendor.profile,
      capabilities |-> vendor.capabilities,
      cpu          |-> vendor.cpu,
      memory       |-> vendor.memory,
      temperatures |-> TemperatureComponents(vendor.temperatures),
      powers       |-> PowerComponents(vendor.power)]]

Reported ==
  {i \in ifaces : Selection(device.filter, i) = "selected" /\ i.hasCounters}

InterfaceTelemetry ==
  {[version |-> 2, kind |-> "interface", type |-> "interface_telemetry",
    payload |->
      [index     |-> i.index,
       name      |-> CASE i.name # "" -> i.name
                       [] i.name = "" /\ i.descr # "" -> i.descr
                       [] OTHER -> "ifIndex",
       admin     |-> i.admin,
       inOctets  |-> i.inOctets,
       outOctets |-> i.outOctets,
       inErrors  |-> i.inErrors,
       outErrors |-> i.outErrors]] : i \in Reported}

\* normalize.ToEvents: the unchanged version 1 events.
ToEvents ==
  {[version |-> 1, kind |-> "device", type |-> "",
    payload |-> [metric |-> "uptime_seconds"]]} \cup
  {[version |-> 1, kind |-> "interface", type |-> "",
    payload |-> [index     |-> i.index,
                 inOctets  |-> i.inOctets,
                 outOctets |-> i.outOctets,
                 inErrors  |-> i.inErrors,
                 outErrors |-> i.outErrors]] : i \in Reported}

DeviceEvents ==
  (IF device.mode \in {"v1", "both"} THEN ToEvents ELSE {}) \cup
  (IF device.mode \in {"v2", "both"}
   THEN {DeviceTelemetry} \cup InterfaceTelemetry ELSE {})

-----------------------------------------------------------------------------
(***************************************************************************)
(* The poll.                                                               *)
(***************************************************************************)

NoIdentity == [sysName |-> "", sysDescr |-> ""]

NoOutcome == [success |-> FALSE, temperature |-> {}]

Nothing == [c \in {} |-> {}]

\* Everything a poll keeps in local variables is gone when it returns.
PollReturns(result, events) ==
  /\ stage' = "idle" /\ outcome' = result /\ telemetry' = events
  /\ walks' = <<>> /\ cols' = Nothing
  /\ identity' = NoIdentity /\ ifaces' = {} /\ vendor' = CoreOnly
  /\ UNCHANGED device

PollInit ==
  /\ device \in Agents
  /\ stage = "idle" /\ walks = <<>> /\ cols = Nothing
  /\ identity = NoIdentity /\ ifaces = {} /\ vendor = CoreOnly
  /\ telemetry = {} /\ outcome = NoOutcome

\* The client connects and core.PollDevice reads the identity.
PollDevice ==
  /\ stage = "idle"
  /\ stage' = "interfaces" /\ walks' = InterfaceColumns
  /\ identity' = [sysName |-> device.sysName, sysDescr |-> device.sysDescr]
  /\ telemetry' = {} /\ outcome' = NoOutcome
  /\ UNCHANGED <<device, cols, ifaces, vendor>>

\* A connection, request or walk that fails before the profile's ends the poll.
CoreFails ==
  /\ stage \in {"idle", "interfaces"}
  /\ PollReturns(NoOutcome, {})

\* What is left to walk once column c has been read: nothing for a device
\* without interfaces, the 32-bit counters after the others if needed.
Remaining(c) ==
  CASE c = "ifIndex" /\ Filled("ifIndex")' = {} -> <<>>
    [] c = "ifOutErrors" /\ NeedFallback' -> FallbackColumns
    [] OTHER -> Tail(walks)

WalkInterfaces ==
  /\ stage = "interfaces" /\ walks # <<>>
  /\ UNCHANGED <<device, stage, identity, ifaces, vendor, telemetry, outcome>>
  /\ \E f \in Reads(Head(walks)) : cols' = With(Head(walks), f)
  /\ walks' = Remaining(Head(walks))

\* The readings are made of the columns, and the profile is chosen.
MatchProfile ==
  /\ stage = "interfaces" /\ walks = <<>>
  /\ ifaces' = PollInterfaces
  /\ \/ /\ Match(device.objectID) = {}
        /\ stage' = "publish" /\ UNCHANGED walks
     \/ \E p \in Match(device.objectID) :
          stage' = p /\ walks' = ProfileColumns[p]
  /\ cols' = Nothing
  /\ UNCHANGED <<device, identity, vendor, telemetry, outcome>>

\* One walk of Collect, which may be cut off.  After an error the next column
\* is walked, unless the time for the profile has run out.
WalkProfile ==
  /\ stage \in DOMAIN ProfileColumns /\ walks # <<>>
  /\ LET c == Head(walks)
     IN  \E f \in Reads(c), cut \in {{i} : i \in Rows(c)} \cup {{}} :
           cols' = With(c, Kept(c, f, cut))
  /\ walks' \in {Tail(walks), <<>>}
  /\ UNCHANGED <<device, stage, identity, ifaces, vendor, telemetry, outcome>>

\* Collect returns what it has; enrichProfile keeps it whatever the errors.
EnrichProfile ==
  /\ stage \in DOMAIN ProfileColumns /\ walks = <<>>
  /\ vendor' = IF stage = "cisco" THEN CollectCisco ELSE CollectArista
  /\ stage' = "publish" /\ cols' = Nothing
  /\ UNCHANGED <<device, walks, identity, ifaces, telemetry, outcome>>

\* The events are published together, or the poll has failed.
Publish ==
  /\ stage = "publish"
  /\ \/ PollReturns([success |-> TRUE,
                 temperature |-> PrimaryTemperature(vendor.temperatures)],
                DeviceEvents)
     \/ PollReturns(NoOutcome, {})

PollNext ==
  \/ PollDevice
  \/ CoreFails
  \/ WalkInterfaces
  \/ MatchProfile
  \/ WalkProfile
  \/ EnrichProfile
  \/ Publish

PollSpec == PollInit /\ [][PollNext]_pollVars

-----------------------------------------------------------------------------
(***************************************************************************)
(* Properties.                                                             *)
(***************************************************************************)

\* The stages and the columns each has read (doPoll): readings exist only once
\* their stage is over.
PollTypeOK ==
  /\ device \in Agents
  /\ stage \in {"idle", "interfaces", "publish"} \cup DOMAIN ProfileColumns
  /\ \A c \in DOMAIN cols :
       cols[c] \in
         [Rows(c) -> {{}} \cup UNION {device.table[c][i] : i \in Rows(c)}]
  /\ ifaces # {} => stage \in {"publish"} \cup DOMAIN ProfileColumns
  /\ vendor # CoreOnly => stage = "publish"
  /\ telemetry # {} => stage = "idle" /\ outcome.success
  /\ outcome.temperature # {} => outcome.success
  /\ \A e \in telemetry : e.version \in {1, 2} /\ e.kind \in {"device", "interface"}

Named(text) == IF Blank(text) THEN "named" ELSE text

\* The event with its texts and indices repaired: a text in every place,
\* interfaces numbered from 1, and no entity that is a sensor and a power
\* supply.
Repaired(e) ==
  LET p == e.payload
      named(cs) == {[c EXCEPT !.name = Named(c.name)] : c \in cs}
      sensor(c) == c.source = "sensor"
      once(cs)  == {c \in cs : sensor(c) \/ ~\E d \in cs : sensor(d) /\ d.index = c.index}
  IN  [e EXCEPT !.payload =
         IF e.kind = "interface"
           THEN [p EXCEPT !.name = Named(p.name),
                          !.index = IF p.index = 0 THEN 1 ELSE p.index]
           ELSE [p EXCEPT !.hostname = Named(p.hostname),
                          !.sysName = Named(p.sysName),
                          !.sysDescr = Named(p.sysDescr),
                          !.temperatures = named(p.temperatures),
                          !.powers = named(once(p.powers))]]

\* validate/v2.go against telemetry.go: whatever rows a poll missed, whatever
\* moved between two columns and wherever a walk broke off, ingestion refuses
\* an event only for a text or an index: a blank name or description of the
\* system, of a component or of an interface, an interface with the index 0,
\* one index for a sensor and a power supply.  A percentage, a unit, a status
\* or a missing value is never the reason.  A component's name is blank not
\* only when the device left it so: a description walk that missed the row or
\* broke off (cisco/profile.go:94-101) leaves it blank as well, and the whole
\* device event is refused, the core result included.
RefusedOnlyForTextOrIndex ==
  \A e \in telemetry :
    Validate(IF e.version = 2 THEN Repaired(e) ELSE e)

\* if_mib.go:149-182: the two octet counters of a reported interface were both
\* read, and from tables of the same width; a rate over one of each would be
\* nonsense, and so would a zero for a counter nobody read.
CountersOfOneTable ==
  \A e \in {x \in telemetry : x.kind = "interface"} :
    \E t \in {<<"ifHCInOctets", "ifHCOutOctets">>,
              <<"ifInOctets", "ifOutOctets">>} :
      /\ e.payload.inOctets # {} /\ e.payload.outOctets # {}
      /\ e.payload.inOctets \subseteq UNION device.table[t[1]][e.payload.index]
      /\ e.payload.outOctets \subseteq UNION device.table[t[2]][e.payload.index]

\* filter.go:118-149: an exclude of either form wins over every include, an
\* include of either form over the default exclusion of virtual types, in
\* whatever order the configuration lists them.
SelectionByPrecedence ==
  \A i \in ifaces :
    LET matched(action, list) ==
          \E r \in Range(list) \cup
                  {x \in Range(device.filter.rules) : x.action = action} :
            RuleMatches(r, i)
    IN  Selection(device.filter, i) =
          CASE matched("exclude", device.filter.exclude) -> "excluded_rule"
            [] ~matched("exclude", device.filter.exclude)
               /\ ~matched("include", device.filter.include)
               /\ i.type \in DefaultExcludedTypes -> "excluded_default"
            [] OTHER -> "selected"

\* poller.go:429 against telemetry.go:90: the temperature the health tracker
\* judges by is the highest of those the device event of the same poll
\* reports, so a warning can be traced to a component.
TemperatureIsReported ==
  \A e \in {x \in telemetry : x.version = 2 /\ x.kind = "device"} :
    LET values == UNION {c.value : c \in e.payload.temperatures}
    IN  /\ outcome.temperature \subseteq values
        /\ \A v \in values : v >= 0 => \E t \in outcome.temperature : v <= t

\* What one report says fits together although its columns were read at
\* different times and some not at all.
ReportIsConsistent == PollTypeOK /\ CountersOfOneTable /\ TemperatureIsReported
=============================================================================
