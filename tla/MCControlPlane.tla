--------------------------- MODULE MCControlPlane ---------------------------
(***************************************************************************)
(* Three static devices, "acc" below "core", and two that a discovery may  *)
(* add, one of them at the host of a static device.                        *)
(***************************************************************************)
EXTENDS ControlPlane, TLC

Symmetry == Permutations(Conns)

MCStaticDevices == {"core", "dist", "acc"}
MCDeviceIds == MCStaticDevices \cup {"new1", "new2"}
MCHosts == {"h-core", "h-dist", "h-acc", "h-new"}
\* "core" does not alert and "dist" has a threshold of its own.
MCStaticInventory ==
  [d \in MCStaticDevices |->
     CASE d = "core" -> [host |-> "h-core", up |-> {}, temp |-> Nil, alerts |-> FALSE]
       [] d = "dist" -> [host |-> "h-dist", up |-> {}, temp |-> "warm", alerts |-> Nil]
       [] d = "acc"  -> [host |-> "h-acc", up |-> {"core"}, temp |-> Nil, alerts |-> Nil]]

Threshold(d, temp) == [method |-> "thresholds", id |-> d, temp |-> temp]
Dependency(d, up) == [method |-> "dependencies", id |-> d, up |-> up]
Alerting(d, on) == [method |-> "device.alerting", id |-> d, enabled |-> on]
Policy(cidrs, limits) ==
  [method |-> "discovery.policy", cidrs |-> cidrs, limits |-> limits]
Accept(id, host, sound) ==
  [method |-> "discovery.accept",
   reviews |-> {[id |-> id, host |-> host, sound |-> sound]}]

\* Every method with parameters that are accepted and with parameters that one of
\* the checks refuses: an absurd temperature and limits of zero by the write, a
\* CIDR that does not parse by Load alone, a host that is taken by the review.
MCMutations ==
  {Threshold("acc", "warm"), Threshold(Nil, "absurd"),
   Dependency("core", {"dist"}), Dependency("dist", {"core"}),
   Alerting("new1", FALSE),
   Policy("typo", Nil), Policy("lan", "none"),
   Accept("new1", "h-new", TRUE), Accept("new2", "h-new", TRUE),
   Accept("new2", "h-core", TRUE)}
=============================================================================
