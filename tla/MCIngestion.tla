---------------------------- MODULE MCIngestion -----------------------------
(***************************************************************************)
(* Ingestion on small instances: one device, one collector, and events of  *)
(* two observation times.                                                  *)
(***************************************************************************)
EXTENDS Ingestion

Ev(id, kind, subject, at) ==
  [id |-> id, kind |-> kind, subject |-> subject, at |-> at]

\* Health against device telemetry of the same device.
DeviceEvents ==
  {Ev(1, "health_state", "dist-01", 0),
   Ev(2, "health_state", "dist-01", 1),
   Ev(3, "device_telemetry", "dist-01", 1)}

\* Every kind, and two observation times wherever order matters.
AllEvents ==
  DeviceEvents \cup
  {Ev(4, "device_telemetry", "dist-01", 0),
   Ev(5, "interface_telemetry", "dist-01", 0),
   Ev(6, "interface_telemetry", "dist-01", 1),
   Ev(7, "v1_device", "dist-01", 1),
   Ev(8, "v1_interface", "dist-01", 0),
   Ev(9, "invalid", "dist-01", 0),
   Ev(10, "collector_heartbeat", "collector-01", 0),
   Ev(11, "collector_heartbeat", "collector-01", 1)}

\* One health event that can be older than the cutoff, and one invalid message.
RetriedEvents ==
  {Ev(1, "health_state", "dist-01", 0),
   Ev(2, "invalid", "dist-01", 0)}
=============================================================================
