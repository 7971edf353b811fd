----------------------------- MODULE SiteRegistry -----------------------------
(***************************************************************************)
(* The life of the sites of an appliance: the manifest, the generated      *)
(* compose file, the collectors that run, and the rows of the sites in     *)
(* PostgreSQL.  Two commands change them, `equate sites delete` ("cli")    *)
(* and the setup wizard with its deployment ("wiz"); neither locks the     *)
(* other out.  Both end in sync-site-topology.sh.  Meanwhile the ingestion *)
(* service stores what the collectors send, and what they had sent.        *)
(*                                                                         *)
(* psql commits every statement of a script on its own, so each is a step; *)
(* a command may fail or be interrupted before any step.  What a request   *)
(* of the dashboard API would show is judged in every state of the rows.   *)
(***************************************************************************)
EXTENDS SiteTopology, Sequences

CONSTANTS Kinds,        \* the kinds of messages collectors send
          SiteLists,    \* sets of sites an operator may enter
          Typed,        \* upstreams an operator may type, per site
          DeviceChoices,\* the devices a site may have, for the API
          MaxCommands,  \* bound on runs of the two commands
          MaxLate       \* bound on messages stored after their collector stopped

ASSUME KindAssumption ==
    /\ Kinds \subseteq {"telemetry", "interface", "health", "heartbeat"}
    /\ \A devices \in DeviceChoices :
          /\ DOMAIN devices \subseteq {"hub", "other"}
          /\ \A d \in DOMAIN devices : devices[d] \in DeviceRow
    /\ \A names \in SiteLists : names \subseteq Sites /\ names # {}

VARIABLES manifest,  \* sites/manifest.yaml: a topology
          compose,   \* the sites of docker-compose.sites.generated.yml
          running,   \* the sites whose collector runs
          rows,      \* the table sites: a topology
          tables,    \* per site, the other tables that hold rows of it
          job,       \* per command, where it stands
          layered,   \* history: every saved edge went from a role to a higher one
          torn,      \* history: one file was written without the other
          count      \* bounds: [commands, late]

files == <<manifest, compose, torn>>
vars == <<manifest, compose, torn, running, rows, tables, job, layered, count>>

Commands == {"cli", "wiz"}

(* The tables a message of a kind writes to, besides sites.                *)
Fills(kind) ==
    CASE kind = "telemetry" -> {"devices", "metric_samples",
           "device_temperature_components", "device_temperature_readings",
           "device_power_components", "device_power_readings"}
      [] kind = "interface" -> {"devices", "interfaces", "interface_samples"}
      [] kind = "health" -> {"devices", "device_health_history", "device_health_current"}
      [] kind = "heartbeat" -> {"collectors", "collector_heartbeat_history",
           "collector_status_current"}

Filled == UNION {Fills(k) : k \in Kinds}

(* The DELETE statements of a script, in their order.                      *)
Script == <<"device_health_history", "device_health_current",
    "device_temperature_readings", "device_temperature_components",
    "device_power_readings", "device_power_components", "interface_samples",
    "metric_samples", "alerts", "interfaces", "collector_status_current",
    "collector_heartbeat_history", "collectors", "devices", "sites">>

(* One that empties a table no message of Kinds fills finds nothing, and   *)
(* is passed over: the statement that follows number i, if there is one.   *)
Statements == {i \in DOMAIN Script : Script[i] \in Filled \cup {"sites"}}

Following(i) == {j \in Statements : j > i /\ \A k \in Statements : k > i => j <= k}

(* The tables a foreign key of a table points to.                          *)
References(t) ==
    CASE t \in {"device_health_history", "device_health_current"} -> {"devices", "sites"}
      [] t \in {"device_temperature_readings", "device_temperature_components",
                "device_power_readings", "device_power_components",
                "metric_samples", "interfaces"} -> {"devices"}
      [] t = "interface_samples" -> {"interfaces"}
      [] t = "alerts" -> {"devices", "interfaces"}
      [] t \in {"collector_status_current", "collector_heartbeat_history"} ->
           {"collectors", "sites"}
      [] t \in {"collectors", "devices"} -> {"sites"}

(* site and listed are those of a deletion; specs is what the command read *)
(* or built; step, the last statement done, and left are those of the SQL  *)
(* script; alone, that the other command did nothing since; late, the      *)
(* scripts since whose start a message of a site they delete was stored.   *)
Idle == [pc |-> "idle", site |-> NoSite, listed |-> FALSE, specs |-> BuildSiteSpecs({}),
         step |-> 0, left |-> {}, alone |-> TRUE, late |-> {}]

Active(p) == job[p].pc \notin {"idle", "done", "failed"}

(* p moves on as `next` says; the other command is no longer alone.        *)
Advance(p, next) ==
    job' = [q \in Commands |-> IF q = p THEN next ELSE [job[q] EXCEPT !.alone = FALSE]]

Init ==
    \E core \in CoreIDs(BuildSiteSpecs(Sites)) :
      /\ manifest = SuggestSiteTopology(BuildSiteSpecs(Sites), core)
      /\ compose = Sites /\ running = Sites
      /\ rows = manifest
      /\ tables = [s \in Sites |-> Filled]
      /\ job = [p \in Commands |-> Idle]
      /\ layered = TRUE /\ torn = FALSE
      /\ count = [commands |-> 0, late |-> 0]

-----------------------------------------------------------------------------
(* The ingestion service.                                                  *)

Deletes(p) == job[p].pc = "sql"
Prunes(p)  == job[p].pc \in {"upsert", "prune"}

(* The sites whose rows the script of p deletes.                           *)
Targets(p) == IF Deletes(p) THEN {job[p].site} \cap DOMAIN rows
              ELSE DOMAIN rows \ DOMAIN job[p].specs

(* One transaction: the site by name alone, what hangs below it, the data. *)
Persist(s, kind) ==
    /\ ~(s \in DOMAIN rows /\ Fills(kind) \subseteq tables[s])
    /\ s \notin running => count.late < MaxLate
    /\ rows' = [x \in DOMAIN rows \cup {s} |-> IF x \in DOMAIN rows THEN rows[x] ELSE NoUpstream]
    /\ tables' = [tables EXCEPT ![s] = @ \cup Fills(kind)]
    /\ count' = [count EXCEPT !.late = IF s \in running THEN @ ELSE @ + 1]
    /\ job' = [p \in Commands |->
                 [job[p] EXCEPT !.late =
                    @ \cup (IF s = job[p].site THEN {"delete"} ELSE {})
                      \cup (IF s \notin DOMAIN job[p].specs THEN {"prune"} ELSE {})]]
    /\ UNCHANGED <<files, running, layered>>

-----------------------------------------------------------------------------
(* equate sites delete.                                                    *)

(* Reads the manifest, works out the new one, and asks for confirmation.   *)
StartDelete(s) ==
    /\ ~Active("cli") /\ count.commands < MaxCommands
    /\ s \in DOMAIN manifest => Cardinality(DOMAIN manifest) > 1
    /\ Advance("cli", [Idle EXCEPT !.pc = "confirm", !.site = s,
                         !.listed = s \in DOMAIN manifest, !.alone = ~Active("wiz"),
                         !.specs = IF s \in DOMAIN manifest
                                     THEN RemoveSiteFromManifest(manifest, s) ELSE manifest])
    /\ count' = [count EXCEPT !.commands = @ + 1]
    /\ UNCHANGED <<files, running, rows, tables, layered>>

(* Mutant: the manifest is written before the rows are deleted.            *)
StopAndUnlist ==
    /\ job["cli"].pc = "confirm" /\ job["cli"].listed
    /\ job["cli"].site \in compose /\ running' = running \ {job["cli"].site}
    /\ manifest' = job["cli"].specs
    /\ Advance("cli", [job["cli"] EXCEPT !.pc = "sql", !.step = 0, !.late = @ \ {"delete"}])
    /\ UNCHANGED <<compose, torn, rows, tables, layered, count>>

(* docker compose rm of the service; for an orphan a failure is passed     *)
(* over.                                                                   *)
StopCollector ==
    /\ job["cli"].pc = "confirm"
    /\ \/ job["cli"].site \in compose /\ running' = running \ {job["cli"].site}
       \/ ~job["cli"].listed /\ UNCHANGED running
    /\ Advance("cli", [job["cli"] EXCEPT !.pc = "sql", !.step = 0, !.late = @ \ {"delete"}])
    /\ UNCHANGED <<files, rows, tables, layered, count>>

-----------------------------------------------------------------------------
(* The setup wizard.                                                       *)

(* The site screen: names are checked and the topology screen is filled    *)
(* with the suggestion.                                                    *)
EnterSites(names) ==
    /\ ~Active("wiz") /\ count.commands < MaxCommands
    /\ \E core \in CoreIDs(BuildSiteSpecs(names)) :
         Advance("wiz", [Idle EXCEPT !.pc = "topology", !.alone = ~Active("cli"),
                           !.specs = SuggestSiteTopology(BuildSiteSpecs(names), core)])
    /\ count' = [count EXCEPT !.commands = @ + 1]
    /\ UNCHANGED <<files, running, rows, tables, layered>>

(* The topology screen: the operator's upstreams, if they pass.            *)
EnterTopology(typed) ==
    /\ job["wiz"].pc = "topology"
    /\ ValidateSiteTopology(ApplyUpstreamSiteIDs(job["wiz"].specs, typed))
    /\ Advance("wiz", [job["wiz"] EXCEPT !.pc = "write",
                         !.specs = ApplyUpstreamSiteIDs(@, typed)])
    /\ UNCHANGED <<files, running, rows, tables, layered, count>>

-----------------------------------------------------------------------------
(* What both commands do.                                                  *)

RoleRank(s) == CASE Role[s] = "core" -> 0 [] Role[s] = "mdf" -> 1
                 [] Role[s] = "idf" -> 2 [] OTHER -> 3

Layered(specs) == \A s \in DOMAIN specs : \A u \in specs[s].up : RoleRank(u) < RoleRank(s)

(* The first of two files; whoever writes it while the other command is at *)
(* work may leave them apart.                                              *)
WriteManifest(p) ==
    /\ job[p].pc = "write"
    /\ manifest' = job[p].specs
    /\ torn' = (torn \/ \E q \in Commands \ {p} : Active(q))
    /\ layered' = (layered /\ Layered(job[p].specs))
    /\ Advance(p, [job[p] EXCEPT !.pc = "generate"])
    /\ UNCHANGED <<compose, running, rows, tables, count>>

GenerateCompose(p) ==
    /\ job[p].pc = "generate"
    /\ compose' = DOMAIN job[p].specs
    /\ Advance(p, [job[p] EXCEPT !.pc = "up"])
    /\ UNCHANGED <<manifest, torn, running, rows, tables, layered, count>>

(* docker compose up --remove-orphans.                                     *)
ComposeUp(p) ==
    /\ job[p].pc = "up"
    /\ running' = compose
    /\ Advance(p, [job[p] EXCEPT !.pc = "sync"])
    /\ UNCHANGED <<files, rows, tables, layered, count>>

(* post-configure.sh reconciles once more after the sync.                  *)
ComposeUpAgain ==
    /\ job["wiz"].pc = "again"
    /\ running' = compose
    /\ Advance("wiz", [job["wiz"] EXCEPT !.pc = "done"])
    /\ UNCHANGED <<files, rows, tables, layered, count>>

(* sync-site-topology.sh reads the manifest again.                         *)
LoadManifest(p) ==
    /\ job[p].pc = "sync"
    /\ Advance(p, [job[p] EXCEPT !.pc = "upsert", !.specs = manifest,
                     !.left = DOMAIN manifest, !.step = 0, !.late = @ \ {"prune"}])
    /\ UNCHANGED <<files, running, rows, tables, layered, count>>

(* Mutant: ON CONFLICT DO NOTHING.                                         *)
InsertSite(p, s) ==
    /\ job[p].pc = "upsert" /\ s \in job[p].left
    /\ rows' = [x \in DOMAIN rows \cup {s} |-> IF x \in DOMAIN rows THEN rows[x] ELSE job[p].specs[s]]
    /\ Advance(p, [job[p] EXCEPT !.left = @ \ {s}, !.pc = IF job[p].left = {s} THEN "prune" ELSE @])
    /\ UNCHANGED <<files, running, tables, layered, count>>

UpsertSite(p, s) ==
    /\ job[p].pc = "upsert" /\ s \in job[p].left
    /\ rows' = [x \in DOMAIN rows \cup {s} |-> IF x = s THEN job[p].specs[s] ELSE rows[x]]
    /\ Advance(p, [job[p] EXCEPT !.left = @ \ {s}, !.pc = IF job[p].left = {s} THEN "prune" ELSE @])
    /\ UNCHANGED <<files, running, tables, layered, count>>

Holds(s, t) == t = "sites" \/ t \in tables[s]

(* A foreign key of a row that is still there.                             *)
Blocked(p) == \E i \in Following(job[p].step), s \in Targets(p) :
                 Holds(s, Script[i]) /\ \E t \in tables[s] : Script[i] \in References(t)

AfterScript(p) == CASE Prunes(p) -> IF p = "wiz" THEN "again" ELSE "done"
                    [] OTHER -> IF job[p].listed THEN "write" ELSE "up"

(* DELETE FROM t, for the sites of the script.                             *)
DeleteRows(p, t) ==
    IF t = "sites"
      THEN /\ rows' = [s \in DOMAIN rows \ Targets(p) |-> rows[s]]
           /\ UNCHANGED tables
      ELSE /\ tables' = [s \in Sites |-> IF s \in Targets(p) THEN tables[s] \ {t}
                                         ELSE tables[s]]
           /\ UNCHANGED rows

RunStatement(p) ==
    /\ job[p].pc \in {"sql", "prune"} /\ ~Blocked(p)
    /\ \E i \in Following(job[p].step) :
          /\ DeleteRows(p, Script[i])
          /\ Advance(p, IF i < Len(Script)
                          THEN [job[p] EXCEPT !.step = i]
                          ELSE [job[p] EXCEPT !.step = 0, !.pc = AfterScript(p)])
    /\ UNCHANGED <<files, running, layered, count>>

(* A blocked statement ends the script, and the command with it.           *)
StatementFails(p) ==
    /\ job[p].pc \in {"sql", "prune"} /\ Blocked(p)
    /\ Advance(p, [job[p] EXCEPT !.pc = "failed"])
    /\ UNCHANGED <<files, running, rows, tables, layered, count>>

(* Any other failure, an answer other than the confirmation, a quit, a     *)
(* power cut; between the two files it leaves them apart.                  *)
Interrupt(p) ==
    /\ Active(p)
    /\ torn' = (torn \/ job[p].pc = "generate")
    /\ Advance(p, [job[p] EXCEPT !.pc = "failed"])
    /\ UNCHANGED <<manifest, compose, running, rows, tables, layered, count>>

-----------------------------------------------------------------------------
Next ==
    \/ \E s \in Sites, kind \in Kinds : Persist(s, kind)
    \/ \E s \in Sites : StartDelete(s)
    \/ StopCollector
    \/ \E names \in SiteLists : EnterSites(names)
    \/ \E typed \in Typed : EnterTopology(typed)
    \/ ComposeUpAgain
    \/ \E p \in Commands :
         \/ WriteManifest(p)
         \/ GenerateCompose(p)
         \/ ComposeUp(p)
         \/ LoadManifest(p)
         \/ \E s \in Sites : UpsertSite(p, s)
         \/ RunStatement(p)
         \/ StatementFails(p)
         \/ Interrupt(p)

Spec == Init /\ [][Next]_vars
-----------------------------------------------------------------------------
(* Every variable has its type, and no row outlives the rows its foreign   *)
(* keys point to (the migrations' REFERENCES, Persist, the DELETEs).       *)
TypeOK ==
    /\ \A index \in {manifest, rows} :
          /\ DOMAIN index \subseteq Sites
          /\ \A s \in DOMAIN index : index[s] \in [up : SUBSET Sites, hub : BOOLEAN]
    /\ manifest # BuildSiteSpecs({})
    /\ compose \subseteq Sites /\ running \subseteq Sites /\ torn \in BOOLEAN
    /\ tables \in [Sites -> SUBSET Filled]
    /\ \A s \in Sites : \A t \in tables[s] :
          References(t) \subseteq tables[s] \cup {x \in {"sites"} : s \in DOMAIN rows}

(* Whatever is written to the manifest, a deletion included, is a graph    *)
(* the validation accepts: no upstream is missing, none is the site        *)
(* itself, and the sites can be ranked (ValidateSiteTopology,              *)
(* RemoveSiteFromManifest).                                                *)
Ranked(index) ==
    \E rank \in [Sites -> 1..Cardinality(Sites)] :
       \A s \in DOMAIN index : \A u \in index[s].up \cap DOMAIN index : rank[u] < rank[s]

ManifestIsSound ==
    /\ \A s \in DOMAIN manifest : manifest[s].up \subseteq DOMAIN manifest
    /\ Ranked(manifest)

(* What the topology screen is filled with is accepted as it stands        *)
(* (SuggestSiteTopology, ValidateSiteTopology).                            *)
SuggestionIsAccepted ==
    job["wiz"].pc = "topology" => ValidateSiteTopology(job["wiz"].specs)

(* A deletion alone on the appliance never leaves a site with rows that is *)
(* no longer listed, wherever it stops and however often it is tried: only *)
(* a message of the site stored since its script began does that (the      *)
(* order of runSitesDelete, "so a DB failure leaves the site listed and    *)
(* operators can retry").                                                  *)
FailureLeavesItListed ==
    LET cli == job["cli"]
    IN  /\ cli.listed /\ cli.alone /\ "delete" \notin cli.late
        /\ cli.site \in DOMAIN rows
        => cli.site \in DOMAIN manifest

(* Only such a message makes a statement of a script fail on a foreign key:*)
(* the statements are in an order that needs no cascade, whatever an       *)
(* earlier run left and whatever the other command does (SiteDeleteSQL,    *)
(* the prune of sync-site-topology.sh).                                    *)
BlockedByMessagesOnly ==
    \A p \in Commands :
       job[p].pc \in {"sql", "prune"} /\ Blocked(p) =>
          (IF job[p].pc = "sql" THEN "delete" ELSE "prune") \in job[p].late

(* A deletion that reports success, alone on the appliance, leaves its     *)
(* site out of the manifest.  It is also out of the compose file and its   *)
(* collector is stopped, unless the site was not listed any more and the   *)
(* two files had been left apart: the way of an orphan writes neither, so  *)
(* that a retry after a failure between them starts the collector of the   *)
(* deleted site again (runSitesDelete).                                    *)
DeletedIsGone ==
    LET cli == job["cli"]
    IN  cli.pc = "done" /\ cli.alone =>
           /\ cli.site \notin DOMAIN manifest
           /\ cli.site \in compose \cup running => ~cli.listed /\ torn

(* runSitesDelete, failing or interrupted anywhere and tried again: as     *)
(* long as rows are left it can be repeated, only a late message stands in *)
(* its way, and what success promises depends on the two files.            *)
DeletionIsSound == FailureLeavesItListed /\ BlockedByMessagesOnly /\ DeletedIsGone

(* After a command that ran alone and through, the table of sites is the   *)
(* manifest, edge for edge, but for orphans stored since the topology was  *)
(* read (sync-site-topology.sh).                                           *)
RowsFollowManifest ==
    \A p \in Commands :
       job[p].pc = "done" /\ job[p].alone /\ "prune" \notin job[p].late => rows = manifest

(* As long as every manifest kept to core, MDF, IDF, no mixture of old and *)
(* new rows and no inferred edge sends the root-cause walk in circles      *)
(* (CompleteMissingSiteUpstreams, collectRootCauseSites).                  *)
NoCycleInRows ==
    layered => \A core \in CoreIDs(rows) : Ranked(CompleteMissingSiteUpstreams(rows, core))

(* Neither a deletion, nor an edit, nor rows brought up to date one by one *)
(* make a graph of sites that a walk towards the upstreams does not leave. *)
GraphsAreSound == TypeOK /\ ManifestIsSound /\ SuggestionIsAccepted /\ NoCycleInRows

-----------------------------------------------------------------------------
(* What the API shows is judged once for every topology without a cycle    *)
(* and all devices its sites may have, and then for the rows as they are.  *)

Topologies ==
    {index \in UNION {[names -> [up : SUBSET Sites, hub : BOOLEAN]] : names \in SUBSET Sites} :
        /\ \A s \in DOMAIN index : index[s].hub => Role[s] = "core"
        /\ Ranked(index)}

Judged(Good(_, _)) ==
    {top : top \in {index \in Topologies :
                       \A raw \in [Sites -> DeviceChoices] : Good(index, raw)}}

Shown(good) == \A core \in CoreIDs(rows) :
                 LET index == CompleteMissingSiteUpstreams(rows, core)
                 IN  Ranked(index) => index \in good

Alarmed(index, raw) ==
    LET list == ListSites(BuildSiteProjections(index, raw, "hub"))
        Alarms(r) == LET site == list[r]
                     IN  /\ ~site.state.impacted
                         /\ site.status = "alert" \/ (index[r].hub /\ ~raw[r]["hub"].alerts)
    IN  \A s \in DOMAIN index :
           LET state == list[s].state
           IN  state.impacted => state.roots # {} /\ \A r \in state.roots : Alarms(r)

Explained(index, raw) ==
    LET eval     == EvaluateSiteTopology(index, raw)
        down     == UnavailableSites(index, raw)
        sources  == {r \in down : index[r].up \cap down = {}}
        Closed(set) == \A s \in set : index[s].up \cap down \subseteq set
        Behind(s) == {r \in down : \A set \in SUBSET DOMAIN index :
                                     s \in set /\ Closed(set) => r \in set}
    IN  \A s \in DOMAIN index : eval[s].impacted => eval[s].roots = sources \cap Behind(s)

(* Two reads of the devices of a site agree on their keys, and each key    *)
(* names one device.                                                       *)
KeysAgree(early, late) ==
    \A d \in DOMAIN early, e \in DOMAIN late : early[d].key = late[e].key <=> d = e

(* The counts, of the devices as the later read has them.                  *)
CountsAll(counts, shown) ==
    /\ counts.critical = CountOf(shown, "critical")
    /\ counts.healthy + counts.warning + counts.critical + counts.unknown
         = Cardinality({d \in DOMAIN shown : shown[d].alerts})
    /\ counts.impacted <= counts.unknown

(* The pages of a site whose devices were read early by the one query and  *)
(* late by the other.                                                      *)
PagesMatch(bundle, early, late, last) ==
    LET list == ListSiteDevices(bundle, early)
        page == GetSite(bundle, early, last).devices
    IN  /\ bundle.state.impacted =>
             \A d \in DOMAIN list : ~IsDirectCritical(list[d].proj)
        /\ KeysAgree(early, late) =>
             \A d \in DOMAIN early \cap DOMAIN late :
                list[d] = ProjectedDevice(d, bundle.state, late[d])
        /\ KeysAgree(early, late) /\ DOMAIN early = DOMAIN late =>
             /\ \A d \in DOMAIN early : page[early[d].key] = list[d]
             /\ CountsAll(bundle.counts, [d \in DOMAIN list |-> list[d].proj])

(* A search shows a device worse than its page only where that lays it to  *)
(* the upstream, and never better.                                         *)
SearchMatches(state, row) ==
    \/ SearchHit(row) = GetDevice(state, row)
    \/ state.impacted /\ IsDirectCritical(SearchHit(row)) /\ BySite(GetDevice(state, row))

Tallied(index, raw) ==
    \A last \in {"hub", "other"} :
       LET bundles == BuildSiteProjections(index, raw, last)
       IN  \A s \in DOMAIN index :
              LET bundle == BundleForSite(bundles, s)
              IN  /\ CountsAll(bundle.counts, [d \in DOMAIN raw[s] |->
                                                 GetDevice(bundle.state, raw[s][d])])
                  /\ bundle.counts = ListSites(bundles)[s].counts
                  /\ \A early \in DeviceChoices : PagesMatch(bundle, early, raw[s], last)
                  /\ \A d \in DOMAIN raw[s] : SearchMatches(bundle.state, raw[s][d])

AlarmedTopologies   == Judged(Alarmed)
ExplainedTopologies == Judged(Explained)
TalliedTopologies   == Judged(Tallied)

(* A site whose alarms are laid to others names at least one of them, and  *)
(* each of those raises its own, unless its hub is administratively        *)
(* ignored: the overlay never silences a whole outage                      *)
(* (EvaluateSiteTopology, ApplySiteDependencyOverlay, handleListSites).    *)
AlarmSurvives == Shown(AlarmedTopologies)

(* The root causes of a site are the unavailable sites with no unavailable *)
(* upstream that it depends on through unavailable sites alone             *)
(* (collectRootCauseSites).                                                *)
RootsAreSources == Shown(ExplainedTopologies)

(* The counts of the overview are of all devices of the later read: every  *)
(* one that may alert counts once.  No page of a site laid to others shows *)
(* a direct failure, whatever was stored between its two reads of the      *)
(* devices.  As long as these agree on the keys and each key is one        *)
(* device's, a page shows each device as the later read has it, and the    *)
(* counts are of what it shows; devices with one address, or one that gets *)
(* another's, are promised nothing.  A search differs where the overlay    *)
(* does, and only there (buildSiteProjections, handleGetSite,              *)
(* handleListSiteDevices, handleSearch).                                   *)
CountsMatchPages == Shown(TalliedTopologies)

(* The dependency overlay as a whole, for every topology in the rows.      *)
OverlayIsSound == AlarmSurvives /\ RootsAreSources /\ CountsMatchPages
=============================================================================
