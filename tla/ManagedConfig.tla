---------------------------- MODULE ManagedConfig ----------------------------
(***************************************************************************)
(* The configuration of a collector as internal/config builds it: a static *)
(* file that only a deployment changes, the managed inventory document     *)
(* that the control plane writes, and the runtime configuration that Load  *)
(* makes of the two.                                                       *)
(*                                                                         *)
(* The fields are those that a control method writes or a check reads.     *)
(* Interface filters, SNMP and MQTT settings come from the static file     *)
(* alone here and are left out, and so are roles, which only an inference  *)
(* of the topology sets.  A pointer or slice that may be nil has the value *)
(* Nil.  A host stands for its canonical form (canonicalHost)*)
(* and the discovery limits (rates, burst, max_targets, community_env) for *)
(* the checks they pass.                                                   *)
(***************************************************************************)
EXTENDS FiniteSets

CONSTANTS
  Nil,                \* an absent pointer, slice, host or policy field
  StaticDevices,      \* the device IDs of the static file
  DeviceIds,          \* every ID an operator may name
  StaticInventory,    \* [StaticDevices -> Device]
  StaticTemp,         \* health.temperature_warning_c of the static file
  Hosts,
  Temps, TempsInRange,          \* temperatures, and those between min and max
  Cidrs, ParsableCidrs,         \* CIDR lists, and those net.ParseCIDR takes
  Limits,                       \* discovery limits
  WritableLimits,               \* those WriteManagedDocument takes
  LoadableLimits                \* those Load takes

----------------------------------------------------------------------------
(***************************************************************************)
(* Documents and configurations                                            *)
(***************************************************************************)
Entry == [host : Hosts \cup {Nil}, up : (SUBSET DeviceIds) \cup {Nil},
          temp : Temps \cup {Nil}, alerts : BOOLEAN \cup {Nil}]

BlankEntry == [host |-> Nil, up |-> Nil, temp |-> Nil, alerts |-> Nil]

IsInventory(devices, E) == \E D \in SUBSET DeviceIds : devices \in [D -> E]

\* A managed device list holds an ID once: the writers replace the entry of an
\* ID or append one that is not there, so the list is a partial function.
IsDocument(doc) ==
  \E D \in SUBSET DeviceIds :
    doc \in [temp : Temps \cup {Nil}, cidrs : Cidrs \cup {Nil},
            limits : Limits \cup {Nil}, devices : [D -> Entry]]

NoDocument == [temp |-> Nil, cidrs |-> Nil, limits |-> Nil,
               devices |-> [d \in {} |-> BlankEntry]]

Device == [host : Hosts, up : SUBSET DeviceIds, temp : Temps \cup {Nil},
           alerts : BOOLEAN \cup {Nil}]

IsConfig(cfg) ==
  \E D \in SUBSET DeviceIds :
    cfg \in [temp : Temps, cidrs : Cidrs \cup {Nil}, limits : Limits \cup {Nil},
            devices : [D -> Device]]

Or(value, default) == IF value = Nil THEN default ELSE value

\* A static device keeps its host; temperature, upstreams and alerting are
\* replaced by what the overlay sets.
applyDeviceOverlay(base, overlay) ==
  [host   |-> base.host,
   up     |-> Or(overlay.up, base.up),
   temp   |-> Or(overlay.temp, base.temp),
   alerts |-> Or(overlay.alerts, base.alerts)]

EntryOf(doc, d) ==
  IF d \in DOMAIN doc.devices THEN doc.devices[d] ELSE BlankEntry

\* Static devices with their overlays, then the managed devices of other IDs.
mergeInventories(doc) ==
  [d \in StaticDevices \cup DOMAIN doc.devices |->
     IF d \in StaticDevices
     THEN applyDeviceOverlay(StaticInventory[d], EntryOf(doc, d))
     ELSE [doc.devices[d] EXCEPT !.up = Or(@, {})]]

\* The configuration that a document makes of the static file.
Merge(doc) ==
  [temp    |-> Or(doc.temp, StaticTemp),
   cidrs   |-> doc.cidrs,
   limits  |-> doc.limits,
   devices |-> mergeInventories(doc)]

----------------------------------------------------------------------------
(***************************************************************************)
(* Validation                                                              *)
(***************************************************************************)
\* A device without a host is none that this check is for: Load refuses it
\* before, the writer leaves it out.
UniqueHosts(devices) ==
  \A d, e \in {x \in DOMAIN devices : devices[x].host # Nil} :
    devices[d].host = devices[e].host => d = e

\* The depth-first search fails exactly if some devices each have an upstream
\* among themselves.
Acyclic(devices) ==
  \A S \in SUBSET DOMAIN devices :
    S # {} => \E d \in S : devices[d].up \cap S = {}

validateDependencies(devices) ==
  /\ \A d \in DOMAIN devices : devices[d].up \subseteq DOMAIN devices \ {d}
  /\ Acyclic(devices)

TempOK(temp) == temp \in TempsInRange \cup {Nil}

TempsOK(doc) ==
  /\ TempOK(doc.temp)
  /\ \A d \in DOMAIN doc.devices : TempOK(doc.devices[d].temp)

\* What Load requires of a managed document and of the configuration that it
\* makes.  A device that is not static needs a host.
Loadable(doc) ==
  /\ TempsOK(doc)
  /\ doc.cidrs \in ParsableCidrs \cup {Nil}
  /\ doc.limits \in LoadableLimits \cup {Nil}
  /\ \A d \in DOMAIN doc.devices \ StaticDevices : doc.devices[d].host # Nil
  /\ UniqueHosts(mergeInventories(doc))
  /\ validateDependencies(mergeInventories(doc))

\* What WriteManagedDocument requires: it does not know the static devices, so
\* it checks the entries with a host as devices, and neither dependencies nor
\* CIDRs.
Writable(doc) ==
  /\ TempsOK(doc)
  /\ doc.limits \in WritableLimits \cup {Nil}
  /\ UniqueHosts(doc.devices)

\* What a later read finds of a written document: the YAML encoder writes a nil
\* slice as [], which the decoder reads as an empty slice, while nil pointers
\* stay nil.
Encoded(doc) ==
  [doc EXCEPT !.devices =
     [d \in DOMAIN doc.devices |-> [doc.devices[d] EXCEPT !.up = Or(@, {})]]]

\* The fingerprint of a configuration leaves the discovery policy out.
ConfigRevision(cfg) == [temp |-> cfg.temp, devices |-> cfg.devices]

----------------------------------------------------------------------------
(***************************************************************************)
(* Mutations of a document                                                 *)
(***************************************************************************)
\* f with x mapped to v, whether it was in the domain or not.
With(f, x, v) == [y \in DOMAIN f \cup {x} |-> IF y = x THEN v ELSE f[y]]

WithEntry(doc, d, entry) == [doc EXCEPT !.devices = With(@, d, entry)]

SetThreshold(doc, d, temp) ==
  IF d = Nil
  THEN [doc EXCEPT !.temp = temp]
  ELSE WithEntry(doc, d, [EntryOf(doc, d) EXCEPT !.temp = temp])

SetUpstreams(doc, d, up) ==
  WithEntry(doc, d, [EntryOf(doc, d) EXCEPT !.up = up])

SetAlerting(doc, d, enabled) ==
  WithEntry(doc, d, [EntryOf(doc, d) EXCEPT !.alerts = enabled])

\* Limits the request does not name keep their value.
SetPolicy(doc, cidrs, limits) ==
  [doc EXCEPT !.cidrs = cidrs, !.limits = Or(limits, @)]

----------------------------------------------------------------------------
(***************************************************************************)
(* Accepting reviewed discovery candidates                                 *)
(***************************************************************************)
\* A review names an ID and a host; "sound" says that the probe succeeded, that
\* the host is the candidate's address and that the entry is complete.
Review == [id : DeviceIds, host : Hosts, sound : BOOLEAN]

Distinct(reviews) ==
  \A r, s \in reviews : r # s => r.id # s.id /\ r.host # s.host

approvedDevices(reviews) ==
  /\ reviews # {}
  /\ \A r \in reviews : r.sound
  /\ Distinct(reviews)

ClashesWith(review, devices) ==
  \E d \in DOMAIN devices : d = review.id \/ devices[d].host = review.host

\* Mutant: only IDs are compared with the active inventory.
rejectActiveDuplicates_IdsOnly(active, reviews) ==
  \A r \in reviews : r.id \notin DOMAIN active

rejectActiveDuplicates(active, reviews) ==
  \A r \in reviews : ~ClashesWith(r, active)

filterNewManagedAppends(doc, reviews) ==
  {r \in reviews : ~ClashesWith(r, doc.devices)}

AcceptReviewed(doc, reviews) ==
  LET new == filterNewManagedAppends(doc, reviews)
      ids == {r.id : r \in new}
      accepted(d) ==
        [BlankEntry EXCEPT !.host = (CHOOSE r \in new : r.id = d).host]
  IN  [doc EXCEPT !.devices =
         [d \in DOMAIN @ \cup ids |-> IF d \in ids THEN accepted(d) ELSE @[d]]]

----------------------------------------------------------------------------
(***************************************************************************)
(* Inferring the topology                                                  *)
(***************************************************************************)
\* The parents that a search over the neighbours of the devices, and a guess
\* from the names of those it did not reach, may give: trees of these devices.
Parents(devices) ==
  {parent \in [DOMAIN devices -> DOMAIN devices \cup {Nil}] :
     \A S \in SUBSET DOMAIN devices :
       S # {} => \E d \in S : parent[d] \notin S}

\* topology.Enrich: every device has its parent as its only upstream, whatever
\* upstreams it had, or an unset list.
Enrich(doc, parent) ==
  [doc EXCEPT !.devices =
     [d \in DOMAIN doc.devices |->
        [doc.devices[d] EXCEPT
           !.up = IF parent[d] = Nil THEN Nil ELSE {parent[d]}]]]
=============================================================================
