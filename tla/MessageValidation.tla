------------------------- MODULE MessageValidation -------------------------
(***************************************************************************)
(* The ingestion service's checks on device and interface messages         *)
(* (internal/validate), as predicates on decoded events.  A message that   *)
(* fails them is acknowledged and lost for good (handler.go).              *)
(*                                                                         *)
(* An optional value is a set with at most one element.  Of the text the   *)
(* device supplies only this matters: it is empty, it is white space, or   *)
(* it is neither.  Identifiers, timestamps and the revision, which the     *)
(* collector's configuration and clock supply, are left out, and so is     *)
(* the decoding of JSON.                                                   *)
(***************************************************************************)
EXTENDS Integers, FiniteSets

\* strings.TrimSpace(s) == ""
Blank(s) == s \in {"", " "}

-----------------------------------------------------------------------------
\* The event type a route of version 2 announces, by the last part of the
\* topic.
ParseTopicV2 ==
  [device |-> "device_telemetry", interface |-> "interface_telemetry"]

ValidateEnvelope(e) == e.type = ParseTopicV2[e.kind]

-----------------------------------------------------------------------------
(***************************************************************************)
(* Version 2 payloads.                                                     *)
(***************************************************************************)

CheckOptionalPct(v) == v \subseteq 0 .. 100

CheckStatusEnum(s) == s \in {"up", "down", "testing", "unknown"}

CheckComponentCommon(c) ==
  /\ ~Blank(c.name)
  /\ c.status \in {"ok", "warning", "critical", "not_present", "unknown"}

\* Component ids, which end in the index, occur once.
Distinct(cs) == \A c, d \in cs : c.index = d.index => c = d

ValidateTempComponents(cs) ==
  /\ \A c \in cs :
       CheckComponentCommon(c) /\ c.unit = "celsius" /\ c.value # {}
  /\ Distinct(cs)

ValidatePowerComponents(cs) ==
  /\ \A c \in cs :
       /\ CheckComponentCommon(c)
       /\ c.unit \in {"state", "watts", "volts", "amps", "percent"}
  /\ Distinct(cs)

ValidateDeviceV2(p) ==
  /\ ~Blank(p.hostname) /\ ~Blank(p.sysName) /\ p.sysDescr # ""
  /\ p.profile \in {"core", "cisco", "arista", "unknown"}
  /\ p.capabilities \subseteq {"cpu", "memory", "temperature", "power"}
  /\ CheckOptionalPct(p.cpu) /\ CheckOptionalPct(p.memory)
  /\ ValidateTempComponents(p.temperatures)
  /\ ValidatePowerComponents(p.powers)

ValidateInterfaceV2(p) ==
  /\ p.index >= 1
  /\ ~Blank(p.name)
  /\ CheckStatusEnum(p.admin)
  /\ p.inOctets # {} /\ p.outOctets # {}
  /\ p.inErrors # {} /\ p.outErrors # {}

-----------------------------------------------------------------------------
(***************************************************************************)
(* Version 1 messages.                                                     *)
(***************************************************************************)

ValidateDevice(p) == p.metric = "uptime_seconds"

ValidateInterface(p) ==
  /\ p.inOctets # {} /\ p.outOctets # {}
  /\ p.inErrors # {} /\ p.outErrors # {}

\* Both versions, by the topic; the store refuses a device metric of another
\* name.
Validate(e) ==
  CASE e.version = 2 /\ e.kind = "device" ->
         ValidateEnvelope(e) /\ ValidateDeviceV2(e.payload)
    [] e.version = 2 /\ e.kind = "interface" ->
         ValidateEnvelope(e) /\ ValidateInterfaceV2(e.payload)
    [] e.version = 1 /\ e.kind = "device" -> ValidateDevice(e.payload)
    [] e.version = 1 /\ e.kind = "interface" -> ValidateInterface(e.payload)
=============================================================================
