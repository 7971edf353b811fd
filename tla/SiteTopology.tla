----------------------------- MODULE SiteTopology -----------------------------
(***************************************************************************)
(* The graph of sites: what the wizard accepts and suggests, and what the  *)
(* dashboard API makes of it.  A topology is a function from the names of  *)
(* sites to nodes [up, hub]: the upstream sites, and whether the site has  *)
(* its hub device listed (the wizard lists the device named like the site, *)
(* for core sites only).  The devices of a site are a function from        *)
(* {"hub", "other"} to rows of the database.                               *)
(*                                                                         *)
(* What a name says is a constant: Role is the case of the name switch     *)
(* (core, idf, mdf, other) and MdfOf the name with "-mdf" for "-idf...".   *)
(***************************************************************************)
EXTENDS Integers, FiniteSets

CONSTANTS Sites, Role, MdfOf, NoSite

ASSUME SiteAssumption ==
    /\ IsFiniteSet(Sites) /\ Sites # {} /\ NoSite \notin Sites
    /\ Role \in [Sites -> {"core", "idf", "mdf", "other"}]
    /\ MdfOf \in [Sites -> Sites \cup {NoSite}]
    /\ \A s \in Sites : MdfOf[s] # NoSite => Role[MdfOf[s]] = "mdf"

NoUpstream == [up |-> {}, hub |-> FALSE]

(* Names only: BuildSiteSpecs gives neither upstreams nor hubs.            *)
BuildSiteSpecs(names) == [s \in names |-> NoUpstream]

-----------------------------------------------------------------------------
(* The setup wizard.                                                       *)

(* Sites each of which has an upstream among them: what the depth-first    *)
(* search finds.                                                           *)
HasCycle(index) ==
    \E ring \in SUBSET DOMAIN index :
       ring # {} /\ \A s \in ring : index[s].up \cap ring # {}

ValidateSiteTopology(specs) ==
    /\ \A s \in DOMAIN specs :
          s \notin specs[s].up /\ specs[s].up \subseteq DOMAIN specs
    /\ ~HasCycle(specs)

(* The core site of the heuristic: the first of the slice in the wizard,   *)
(* any in the API, which ranges over a map.                                *)
CoreIDs(index) == LET cores == {s \in DOMAIN index : Role[s] = "core"}
                  IN  IF cores = {} THEN {NoSite} ELSE cores

MatchingMDFSiteID(s, names) == IF MdfOf[s] \in names THEN MdfOf[s] ELSE NoSite

SiteOrNone(s) == IF s = NoSite THEN {} ELSE {s}

(* Mutant: the core is not left out.                                       *)
NamesCoreToo(s, names, core) ==
    IF Role[s] = "idf" /\ MatchingMDFSiteID(s, names) # NoSite
      THEN {MatchingMDFSiteID(s, names)} ELSE SiteOrNone(core)

(* The upstreams the naming heuristic gives a site, {} when it has none to *)
(* give.                                                                   *)
NamedUpstream(s, names, core) ==
    CASE Role[s] = "idf" -> IF MatchingMDFSiteID(s, names) # NoSite
                              THEN {MatchingMDFSiteID(s, names)} ELSE SiteOrNone(core)
      [] Role[s] = "mdf" -> SiteOrNone(core)
      [] OTHER -> {}

SuggestSiteTopology(specs, core) ==
    [s \in DOMAIN specs |->
        IF Role[s] = "core" THEN [up |-> {}, hub |-> TRUE]
        ELSE IF NamedUpstream(s, DOMAIN specs, core) = {} THEN specs[s]
        ELSE [specs[s] EXCEPT !.up = NamedUpstream(s, DOMAIN specs, core)]]

(* What the operator typed replaces the upstreams; a core site gets its    *)
(* hub.                                                                    *)
ApplyUpstreamSiteIDs(specs, typed) ==
    [s \in DOMAIN specs |-> [up |-> typed[s], hub |-> specs[s].hub \/ Role[s] = "core"]]

RemoveSiteFromManifest(specs, site) ==
    [s \in DOMAIN specs \ {site} |-> [specs[s] EXCEPT !.up = @ \ {site}]]

-----------------------------------------------------------------------------
(* The dashboard API: devices.                                             *)

(* A row of the joined tables: state is "none" when there is no health     *)
(* row; online, whether it was seen within the threshold; blocked, whether *)
(* the collector named unavailable upstream devices; alerts, FALSE for a   *)
(* device that is administratively ignored; key, its address or else its   *)
(* host name (DeviceMapKey), by the device that first had it: nothing      *)
(* keeps two devices of a site from having one.                            *)
DeviceRow ==
    [state : {"none", "healthy", "warning", "critical", "unknown"},
     reason : {"", "reachable", "temperature_threshold", "poll_failed",
               "direct_unreachable", "upstream_unreachable"},
     online : BOOLEAN, blocked : BOOLEAN, alerts : BOOLEAN, key : {"hub", "other"}]

DeviceStatusCode(online) == IF online THEN "healthy" ELSE "critical"

HealthStatusCode(state, online) ==
    IF online \/ state \in {"critical", "unknown"} THEN state ELSE DeviceStatusCode(FALSE)

ProjectDevice(row) ==
    IF row.state = "none"
      THEN [status |-> DeviceStatusCode(row.online), reason |-> "", blocked |-> FALSE,
            alerts |-> row.alerts]
      ELSE [status |-> HealthStatusCode(row.state, row.online), reason |-> row.reason,
            blocked |-> row.blocked, alerts |-> row.alerts]

IsDirectCritical(proj) ==
    proj.status = "critical" /\ proj.reason \in {"direct_unreachable", "poll_failed", ""}

Projected(devices) == [d \in DOMAIN devices |-> ProjectDevice(devices[d])]

(* Accumulate: administratively ignored devices count nowhere.             *)
CountOf(projs, status) ==
    Cardinality({d \in DOMAIN projs : projs[d].alerts /\ projs[d].status = status})

-----------------------------------------------------------------------------
(* The dashboard API: sites.                                               *)

CompleteMissingSiteUpstreams(index, core) ==
    [s \in DOMAIN index |->
        IF index[s].up # {} THEN index[s]
        ELSE [index[s] EXCEPT !.up = NamedUpstream(s, DOMAIN index, core)]]

SiteUnavailable(node, projs) ==
    IF node.hub THEN "hub" \in DOMAIN projs /\ IsDirectCritical(projs["hub"])
    ELSE CountOf(projs, "critical") > 0

SiteShowsCascadeSignature(projs) ==
    2 * Cardinality({d \in DOMAIN projs :
                       IsDirectCritical(projs[d]) \/ projs[d].status = "unknown"})
      > Cardinality(DOMAIN projs)

UnavailableSites(index, raw) ==
    {s \in DOMAIN index : SiteUnavailable(index[s], Projected(raw[s]))}

(* The walk has no guard against a cycle: so must its caller.              *)
CollectRootCauseSites(from, index, unavailable) ==
    LET Further(s) == index[s].up \cap unavailable
        walk[set \in SUBSET Sites] ==
            UNION {IF Further(s) = {} THEN {s} ELSE walk[Further(s)] : s \in set}
    IN  walk[from \cap unavailable]

(* Mutant: all of no upstreams are unavailable.                            *)
EvaluateNoUpstreams(index, raw) ==
    LET unavailable == UnavailableSites(index, raw)
        Impacted(s) == /\ index[s].up \subseteq unavailable
                       /\ SiteShowsCascadeSignature(Projected(raw[s]))
    IN  [s \in DOMAIN index |->
           [unavailable |-> index[s].up \cap unavailable,
            impacted    |-> Impacted(s),
            roots       |-> IF Impacted(s)
                              THEN CollectRootCauseSites(index[s].up, index, unavailable)
                              ELSE {}]]

EvaluateSiteTopology(index, raw) ==
    LET unavailable == UnavailableSites(index, raw)
        Impacted(s) == /\ index[s].up # {} /\ index[s].up \subseteq unavailable
                       /\ SiteShowsCascadeSignature(Projected(raw[s]))
    IN  [s \in DOMAIN index |->
           [unavailable |-> index[s].up \cap unavailable,
            impacted    |-> Impacted(s),
            roots       |-> IF Impacted(s)
                              THEN CollectRootCauseSites(index[s].up, index, unavailable)
                              ELSE {}]]

ApplySiteDependencyOverlay(state, proj) ==
    IF state.impacted /\ IsDirectCritical(proj)
      THEN [proj EXCEPT !.status = "unknown", !.reason = "upstream_site_unreachable"]
      ELSE proj

(* GET /devices/{id}: the device projected, the state of its site over it. *)
GetDevice(state, row) == ApplySiteDependencyOverlay(state, ProjectDevice(row))

BySite(proj) == proj.reason = "upstream_site_unreachable"

ProjectedSiteHealth(projs) ==
    LET counted == {d \in DOMAIN projs : projs[d].alerts}
        Count(status) == Cardinality({d \in counted : projs[d].status = status
                                                        /\ ~BySite(projs[d])})
        overlaid == {d \in counted : BySite(projs[d])}
    IN  [healthy  |-> Count("healthy"), warning |-> Count("warning"),
         critical |-> Count("critical"),
         unknown  |-> Count("unknown") + Cardinality(overlaid),
         impacted |-> Cardinality(overlaid \cup
                         {d \in counted : projs[d].status = "unknown" /\ projs[d].blocked})]

SiteStatusFromHealth(counts) ==
    IF counts.critical > 0 THEN "alert"
    ELSE IF counts.warning + counts.unknown > 0 THEN "caution" ELSE "ok"

DeviceKeys(devices) == {devices[d].key : d \in DOMAIN devices}

(* The device a map keyed by address keeps of those with one key: the last *)
(* of the list, which is in the order of their host names.                 *)
KeptFor(k, devices, last) ==
    LET same == {d \in DOMAIN devices : devices[d].key = k}
    IN  IF last \in same THEN last ELSE CHOOSE d \in same : TRUE

(* A device on a page: which one it is and how it shows.                   *)
ProjectedDevice(d, state, row) == [device |-> d, proj |-> GetDevice(state, row)]

(* What every request but a search computes from one read of the sites and *)
(* a later one of all devices: per site its state, its devices by key with *)
(* that state over them, and the counts of all of them.                    *)
BuildSiteProjections(index, raw, last) ==
    LET eval == EvaluateSiteTopology(index, raw)
    IN  [s \in DOMAIN index |->
           LET state   == eval[s]
               shown   == [d \in DOMAIN raw[s] |-> GetDevice(state, raw[s][d])]
               Kept(k) == KeptFor(k, raw[s], last)
           IN  [state   |-> state,
                devices |-> [k \in DeviceKeys(raw[s]) |->
                               ProjectedDevice(Kept(k), state, raw[s][Kept(k)])],
                counts  |-> ProjectedSiteHealth(shown)]]

(* A site the read of all sites did not find yet has no state.             *)
Unevaluated ==
    [state   |-> [unavailable |-> {}, impacted |-> FALSE, roots |-> {}],
     devices |-> [k \in {} |-> ProjectedDevice(k, {}, k)],
     counts  |-> [healthy |-> 0, warning |-> 0, critical |-> 0, unknown |-> 0, impacted |-> 0]]

BundleForSite(bundles, s) == IF s \in DOMAIN bundles THEN bundles[s] ELSE Unevaluated

(* GET /sites: the overview.                                               *)
ListSites(bundles) ==
    [s \in DOMAIN bundles |->
        [state |-> bundles[s].state, counts |-> bundles[s].counts,
         status |-> SiteStatusFromHealth(bundles[s].counts)]]

(* GET /sites/{id}/devices: the devices of the site are read before all    *)
(* devices are; each shows as the later row with its key does, if there is *)
(* one.                                                                    *)
ListSiteDevices(bundle, devices) ==
    [d \in DOMAIN devices |->
        IF devices[d].key \in DOMAIN bundle.devices
          THEN bundle.devices[devices[d].key]
          ELSE ProjectedDevice(d, bundle.state, devices[d])]

(* GET /sites/{id}: the counts, and the devices of such a list by key.     *)
GetSite(bundle, devices, last) ==
    LET list == ListSiteDevices(bundle, devices)
    IN  [counts  |-> bundle.counts,
         devices |-> [k \in DeviceKeys(devices) |-> list[KeptFor(k, devices, last)]]]

(* GET /search: the device as its own row has it, no state of a site over  *)
(* it.                                                                     *)
SearchHit(row) == ProjectDevice(row)
=============================================================================
