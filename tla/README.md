# TLA+ specification of the Equate monitoring appliance

This directory specifies the part of the repository that carries its own
distributed and stateful logic: how an observation of a network device becomes
a row of the database, and what may happen to it on the way. The modules are
checked by TLC on small instances; the central safety properties are also
proved with TLAPS for every value of the constants.

Paths below are relative to the repository root. `SC` stands for
`services/snmp-collector/internal`, `IS` for
`services/ingestion-service/internal` and `BA` for
`services/backend-api/internal`.

## The system

```
 SNMP devices --> poller --> health tracker        collector process
                     |            |
                     +--> durable outbox (SQLite) --MQTT/TLS QoS 1--> broker
                                                                        |
   dashboard <-- backend API <-- PostgreSQL <-- ingestion service <-----+
                                     ^------- retention job
   operator --> TUI / equate CLI --> Unix control socket --> config files,
                                                             reload
```

| Component | State | Operations | Hard about it | What makes it correct |
|---|---|---|---|---|
| Durable outbox: `SC/buffer`, `SC/publisher` | SQLite rows, depth counter, wake channel, MQTT link | enqueue a batch, peek, publish, delete, flush loop, shutdown drain | flusher and drain overlap; crash between PUBACK and DELETE; the link comes and goes; a full table | nothing committed is lost; first delivery in commit order; the depth is the row count plus the deletes that were not answered; a drain that returned nil is complete; every row is sent in the end; shutdown ends |
| Ingestion: `IS/mqtt`, `IS/handler`, `IS/store` | persistent session, ledger `ingested_events`, histories, samples, current-state tables | receive, validate, one transaction per message, acknowledge | lost COMMIT answers and PUBACKs, reconnects, redelivery out of order | nothing acknowledged is lost; rows hold a newest observation; no event is applied twice |
| Retention: `IS/retention`, `IS/store/retention.go` | the table being pruned, cutoff | batched DELETEs, table by table | concurrent with the store; the ledger it prunes is what deduplication relies on | a history row does not outlive its ledger row |
| Poller: `SC/poller` | schedule, worker pool, outcomes of a batch | cycle, dispatch, poll, discard or commit a batch, publish | workers against cancellation; a snapshot taken at the start of a cycle; failing publication | only complete batches count; every change is published |
| Health tracker: `SC/health` | failure ledger, state, evidence per device | prune, apply a batch: topological evaluation, root causes, transitions | devices polled in different batches; dependencies; reloads between batches | unknown only with true evidence; verdict independent of history when nobody is pending |
| Configuration: `SC/config` | active snapshot, managed document | load, merge, validate, write, reload | read while it is replaced; several writers; a round trip through YAML | a cycle sees one snapshot; no commit of a connection is lost to another, and to the wizard, which writes without the lock, only one made while it probes; the snapshot never goes back |
| Heartbeat, status, readiness: `SC/heartbeat`, `SC/status`, `SC/readiness` | last polls, last reload | periodic publication, recording | written by several goroutines | the summary belongs to one revision |
| Control plane: `SC/control` | pending confirmations, discovery scan, audit log, connections | prepare, commit, reload, scan, cancel, review | a token prepared against an older revision; scan end against cancel; close against open connections | a commit applies what was confirmed; one scan at a time; close returns |
| Discovery, topology: `SC/discovery`, `SC/topology`, scans in `SC/control` | the scan under way, its worker pool and token bucket, progress, stored candidates | start a scan, expand, probe, report, save, expire; merge review; infer edges | workers share a bucket and report out of order; contexts end anywhere; a scan is over before it is saved | a stored result is whole or says it is not; the workers together keep the probe rate; progress is its own; a scan ends |
| Appliance sessions: `BA/auth` | sessions, CSRF secrets, login failures | login, validate, rotate, revoke, rate limit, prune | concurrent requests; expiry against use; capacity; restarts | a session that is over is not served; a rotated secret is refused; the limiter bounds failures |
| Status derivation: `BA/derive` and the projections of `BA/handlers` | none: functions of rows that others change | device and site status, upstream heuristic, evaluation, root causes, overlay, counts | rows are a mixture of two topologies while they are brought up to date; graphs that are not promised to be acyclic | an outage laid to other sites has a root that shows it; the counts are of all devices of a site |
| Dashboard API, frontend | none | projections of rows | rows change between two reads; device maps are keyed by address; the search has no overlay | where keys are distinct and the reads agree, the pages of a site show the devices it counts |
| CLI: `cmd/equate`, `scripts/sync-site-topology.sh` | manifest, compose file, collectors, rows of the sites | delete a site; bring the rows up to the manifest | one step of several fails; the wizard changes the same files; messages of a removed collector | a failed deletion can be repeated; a deleted site is out of the manifest, and out of the compose file unless the two were torn apart; rows follow the manifest |
| Setup wizard, TUI: `SC/tui` | the model of the event loop, commands in flight, deployment directory | keys, asynchronous commands, deployment, review, marker | results arrive in any order and step; any command fails; reconfiguration of a live appliance | the keyboard comes back; only configured sites start; no enrolled device is lost but one accepted while its site is probed; the marker is honest |
| SNMP access, vendor profiles, filter: `SC/snmp`; validation: `IS/validate` | none between polls | walk a column, build the event, filter, validate | a walk breaks off or misses rows; the device changes between two columns | what the report says is consistent; ingestion refuses it only for blank texts (blank at the device, or lost by a walk that broke off) and for indices |
| Upgrade: `SC/update` | staged release | select, download, verify, apply | one step of several fails | nothing unverified is applied |
| Deployment, Terraform, scripts | hosts | provisioning | - | - |

The outbox hands an event to the broker at least once and in order; the broker
keeps it for the ingestion session; ingestion acknowledges it after its
transaction. The poller and the tracker are the producers of the outbox, and
both act on the configuration snapshot that the control plane replaces.

## Modules

| Module | Models | Role |
|---|---|---|
| `AtLeastOnceQueue` | - | abstract specification of the outbox |
| `Outbox` | `SC/buffer/store.go`, `SC/publisher/buffered.go`, `SC/publisher/mqtt_client.go`, shutdown in `cmd/collector/main.go` | component |
| `OutboxProofs` | | theorems about `Outbox` |
| `Ingestion` | `IS/mqtt`, `IS/handler`, `IS/store`, `IS/retention` | component |
| `IngestionProofs` | | theorems about `Ingestion` |
| `HealthTracker` | `SC/poller/poller.go`, `SC/health`, `SC/config/snapshot.go` | component |
| `PollerProofs` | | theorems about `HealthTracker` and `DevicePoll`, the two halves of the poller |
| `ManagedConfig` | `SC/config/config.go`, `SC/discovery/review.go` | operators: documents, their merge, checks and mutations |
| `ControlPlane` | `SC/control`, `SC/config/snapshot.go`, the reload signal of `cmd/collector/main.go` | component, on top of `ManagedConfig` |
| `ControlPlaneProofs` | | theorems about `ControlPlane` and the mutations of `ManagedConfig` |
| `DiscoveryScan` | `SC/control/discovery_*.go`, `SC/discovery/discovery.go`, `limiter.go` | component |
| `DiscoveryScanProofs` | | theorems about `DiscoveryScan` |
| `SetupWizard` | `SC/tui/setup` | component |
| `SetupWizardProofs` | | theorems about `SetupWizard` |
| `ApplianceSessions` | `BA/auth`: handlers, middleware, sessions, limiter, broker | component |
| `ApplianceSessionsProofs` | | theorems about `ApplianceSessions` |
| `SiteTopology` | `SC/tui/setup/site_topology.go`, `sites.go`; `BA/derive`, `BA/handlers` | operators: graphs of sites, status, overlay |
| `SiteRegistry` | `cmd/equate/sites.go`, `SC/tui/setup` (manifest, compose, deletion), `scripts/sync-site-topology.sh`, the rows `IS/store` writes | component, on top of `SiteTopology` |
| `SiteRegistryProofs` | | theorems about `SiteRegistry` and the operators of `SiteTopology` |
| `MessageValidation` | `IS/validate` | operators: predicates on events |
| `DevicePoll` | `SC/poller/poller.go` (`doPoll`), `SC/snmp`, `SC/telemetry/telemetry.go` | component, on top of `MessageValidation` |
| `MC...` | | instances for TLC, one per component |

Definitions whose comment begins with "Mutant:" are changed versions of the
definition after them. Nothing uses them in the specifications; putting one in
place of the original must make TLC report the property it is aimed at.

### Outbox

`rows` is the SQLite table (id to event), `depth` the counter `Store` keeps
beside it, `wake` the one-slot channel. Producers commit and return in two
steps, because `EnqueueBatch` commits before it updates the counter and signals.
Flushes run by two goroutines, `"flusher"` (`RunFlusher`) and `"drain"`
(`Drain` at shutdown), each with its own program counter and its own batch read
by `PeekOldest`; each row is published, confirmed and deleted in separate
steps, any of which can fail. A DELETE that returns an error
(`DeleteFails`) has left the row, or it has removed it and its answer is lost
because the context ended while the statement ran; the counter is left alone
either way (`store.go:246-249`), and `unanswered` has the actor. `Crash` loses everything in memory, `Open`
restarts on the rows that are left. Ids restart from what `AUTOINCREMENT`
promises (`FirstNewId`). An event is the number of its commit; payloads,
topics and TLS are left out, timers are enabled at any time.

### Ingestion

`log` is everything the broker queued for the session, `unacked` what it still
holds, `cursor` how far the present connection got. `pc` is the handler, one
message at a time under `Subscriber.mu`. `Persist` is one transaction: which
tables it writes depends on the kind of the message, and each upsert has its
own guard (`CASE`, `WHERE`, `NULL` comparison) modelled as the SQL evaluates it.
`PersistFails` either rolls back or commits with the answer lost. A row of a
current-state table is the event its columns come from. The retention job
deletes at most `PruneSize` rows a step and moves to the next table after a
short batch, between any two steps of the handler. The auxiliary variables
`stored`, `twice` and `late` only record history.

The broker and the MQTT client library are modelled from how
`subscriber.go` configures them: a persistent session, QoS 1, PUBACKs in the
order of the messages, redelivery only on a new connection. An outage longer
than the 24 h session expiry would discard the session; the model assumes
shorter ones.

### HealthTracker

A cycle of `Poller.Run` is `StartCycle`, `Dispatch` and poll results in any
interleaving of the workers, then `DiscardBatch` or `CommitBatch`, one
`Evaluate` per device in the order of `topologicalOrder`, and the publication
of the transitions. `Reload` replaces the active snapshot at any moment, the
cycle keeps the one it took (`cfg`). `Cancel` ends the poll context; `main` does
not wait for the poller, so the process may end anywhere after it (`Halt`).
Time is left out: after the first cycle any due set is possible that holds
every device without a schedule. `collectRootCauses` is modelled by the set its
walk visits and by whether it ends: on a cycle of unknown devices it recurses
until the process dies (`Overflow`). Failure counts stop at `MaxFailures`, which
no threshold exceeds, so nothing that is compared is lost.

### ManagedConfig and ControlPlane

`ManagedConfig` has the pure functions of `config.go` and `review.go` under their
names: the merge of the static inventory with the managed document
(`mergeInventories`, `applyDeviceOverlay`), what `Load` and what
`WriteManagedDocument` demand of a document (`Loadable`, `Writable`: the second is
weaker), the round trip through YAML (`Encoded`), the five mutations and the
acceptance of reviews. A document maps the IDs it names to entries with the
fields that a control method writes; a field that is not set is `Nil`.

`ControlPlane` has one goroutine per connection. A commit is the check of the
revision (`Commit`), `take` of the token, the checks before the lock
(`Validate`), read under `mutationMu` (`LockMutations`), and the replacement of
the file (`WriteManagedDocument` or `WriteFails`); a reload reads under the
manager's lock (`BeginReload`) and activates (`EndReload`). `Crash` forgets
tokens, requests and locks, `Restart` loads the document again. The signal
handler is one more connection. The history variables `serial`, `version`,
`loaded`, `seen`, `writes` and `unchecked` record what was written, in which
order, and on what it was checked.

The setup wizard is a second writer of the managed document, in a process of its
own (`enrichManagedTopology`, `SC/tui/setup/deploy.go:430-447`): after an
acceptance it reads the document (`BeginEnrich`), asks the devices for up to two
minutes, and writes back what it read with the inferred upstreams put in
(`EndEnrich`), without `mutationMu`; it may fail (`EnrichFails`). `overtaken` has
the writers whose read is older than the last write, and `SerialCommits` says
exactly which commits that loses. What a probe infers is any choice of parents
without a cycle.

Steps that are taken together: a prepare (a reload between its two reads looks
like a reload after it) and the reads before the lock (the device is looked up in one
snapshot, and the dependencies are judged with the document on disk and static
devices only; a reload in between makes a difference only for a device that it
drops because the wizard threw it away). A request
that is refused before it changes anything is no step. The rename of the
document is atomic: the temporary file is in the same directory, and the
fallback for a rename across devices is not modelled.

### DiscoveryScan

A connection starts a scan and waits for it (`StartSync`) or leaves it to a
goroutine (`StartAsync`); `Refuse` is the answer while one runs. Each target goes
through the pool: a worker takes it and a reservation of the bucket, waits for as
long as the bucket is in debt, probes, reports. The result goes into the channel before the progress counter is
updated, so reports arrive out of order, as in `Scan`. Finishing the scan,
saving the candidates and answering are three steps in the order of
`runScan`; `Expire` ends a context at any moment, `Shutdown` those of the
requests that wait, `Crash` forgets everything but the stored candidates. Time
passes freely up to `MaxTime` and beyond it while a worker waits for the bucket,
so every reservation is served. What a
probe finds is left out: a candidate is the address it is about.

### SetupWizard

A Bubble Tea program: `Update` handles one message at a time, and a handler may
return a command that runs concurrently and answers with a message. `m` is the
model record of the program under its own field names, `cmds` and `msgs` are the
bags of what is under way, `disk` is what commands change. A message is
dispatched on the step the wizard is in when it arrives, not the one that asked
for it, as `Update` does. Every command may fail, and those of several files may
fail after any of them. The screens that only edit a text or move the focus are
left out. Values that an operator edits are chosen when they are used; the texts
themselves, addresses and passwords are not modelled.

Accepting reviews is two steps of one command. The commit enrolls devices at the
site under the lock of its collector; then the command reads the site's managed
document, probes (`Probing`) and writes it back as it was read, with inferred
upstreams, without that lock. `disk.enrolled` has the devices of each document and
`disk.raced` those accepted while the site was being probed by another acceptance:
they are what the write can lose, and `KeepsEnrolledDevices` says that nothing
else is ever lost.

### ApplianceSessions

A request slot runs one handler (login, who-am-I, logout, a protected read or
write) as the sequence of its locked calls of the limiter, its SQL statements,
and its questions to the broker; `rows` is `appliance_sessions`, `failures` the
limiter's map. `ChangeAccount` and time act between any two steps, `Restart`
loses the limiter and the requests. Tokens and CSRF secrets are numbers in the
order they are drawn, so none repeats. The variables `over`, `fresh` and the
like of a request are history: whether its session was over when it came, and
whether its secret was the current one.

### SiteTopology and SiteRegistry

`SiteTopology` has the pure functions: what the wizard suggests and accepts,
completion of missing upstreams, availability, evaluation with root causes, the
overlay and the counts. The depth-first search for cycles and the recursive
collection of root causes are written as the sets they find; a collection that
would not end is said to, and `NoCycleInRows` is about it.

Device rows carry the key that `DeviceMapKey` makes of address and host name, and
two devices may share one. `BuildSiteProjections` takes one read of the sites and
one of all devices; the pages of a site take the devices of an earlier read of
their own and look them up by key (`ListSiteDevices`, `GetSite`), a site that read
did not find has no state (`Unevaluated`), and a search puts no state over its
hits (`SearchHit`).

`SiteRegistry` is the life of the rows these functions read. Two commands, the
deletion (`"cli"`) and the wizard with its deployment (`"wiz"`), advance
independently: nothing in the code locks one out. A step is one statement of a
script (psql commits each), one file, or one compose call; it may fail or be
interrupted before any. `Script` has the statements in their order; one that
empties a table no message of the instance fills finds nothing and is passed
over. `Persist` is a message reaching the ingestion service, from a running
collector or late from a removed one. The history variable `torn` says that a
manifest was once written while the other command was at work, or that a command
stopped between the manifest and the compose file. In every reachable state of
the rows, the API is judged with every choice of devices of `DeviceChoices`, for each of
the reads.

### MessageValidation and DevicePoll

`DevicePoll` is one device polled again and again: each column of each table is
a walk of its own that may end early, miss rows, or find other values than the
column before it, since the device lives on. Then come the vendor profile, the
filter, the building of the events in both versions, publication and the poll
outcome. `MessageValidation` has the checks of the ingestion service on device
and interface events as predicates, and `RefusedOnlyForTextOrIndex` puts the two
together: `Repaired` is the event with a text in every place, interfaces numbered
from 1, and no entity that is both a sensor and a power supply, and the checks pass
on it, whatever the walks missed. So a value, a unit, a status or a percentage is
never the reason for a refusal. A blank component name is one, and it is not the
device's alone: a description walk that breaks off leaves it blank too, and the
core result is refused with it (see differences). The property does not judge that
refusal.
An optional value is a set with at most one element. A text is empty, white space
or neither. `CONSTANTS Agents` is the set of devices with all they may answer;
`AgentAssumption` is what the SNMP library guarantees of an answer: finitely many
rows, indices that are natural numbers, and one value to a cell, a number in the
columns the poll calculates with.

## Runs

| Run | Instance | What it shows |
|---|---|---|
| `outbox` | 2 entries, batches of 2, 3 events, 1 stop | `NoLoss`, `FirstDeliveryInOrder`, `DepthIsRowCount`, `DrainSound`; `ImplementsQueue`: refinement of `AtLeastOnceQueue`; `EventuallyConfirmed`, `ShutdownTerminates` |
| `ingestion_safety` | one device, one collector, all 7 kinds, 2 observation times, 2 messages, clock to 2, window of 1 | `NoLoss`, `CurrentIsLatest`, `IdentityNeverRegresses`, `AppliedOnceInWindow`, `HistoryKeepsLedger` |
| `ingestion_redelivery` | one event, fair handlers and reconnects, connections that need not drop | violated: `FailureIsRedelivered`, see differences |
| `health_safety` | 3 devices: chain, diamond, two uplinks; reloads | `VerdictsAreSound` (`UnknownIsJustified`, `DecisiveBatch`), `SentMatchesLedger` |
| `health_stop` | 2 devices, a stop, failing publications | `SentMatchesLedger`, `EventuallyAlarmed` |
| `control_safety` | 2 connections, 1 wizard, 3 static devices, 2 tokens, every method with accepted and refused parameters, 1 stop | `SingleUse`, `SerialCommits`, `DocumentIsValid` (`DependenciesSound`, `UniqueInventory`), `RevisionBound`, `ReloadNeverRegresses` |
| `control_overlay` | the same | violated: see differences |
| `scan` | one connection, 2 scans over 1 to 3 addresses, 2 workers, a burst of 1, 1 crash | `ResultsAreOwn` (`StoredIsComplete`, `ProgressIsOwn`), `RateBound`, `ScanEnds` |
| `setup` | dev profile with 2 sites and 1 device, appliance with 1 site, 2 devices and two commands in flight, appliance with 2 sites and 1 device | `LoadingHasWork`, `DeploymentIsSound` (`MarkerMeansThresholds`, `StartedSitesAreConfigured`), `KeepsEnrolledDevices` |
| `auth` | 2 users, 2 requests, limit 1, one limiter entry, 1 session, 2 secrets, clock to 3, 1 account change, 1 restart | `EndedStaysEnded`, `OldSecretIsRefused`, `FailuresBounded`, `LiveSessionsStay` |
| `sites` | core, MDF and IDF, 2 command runs, 1 late message, 8 shapes of a site's devices, one with a shared key | `GraphsAreSound` (`ManifestIsSound`, `SuggestionIsAccepted`, `NoCycleInRows`), `DeletionIsSound` (`FailureLeavesItListed`, `BlockedByMessagesOnly`, `DeletedIsGone`), `RowsFollowManifest`, `OverlayIsSound` (`AlarmSurvives`, `RootsAreSources`, `CountsMatchPages`) |
| `report` | a Cisco and two Arista devices, one of which reuses a sensor's index for a power supply, one of an unknown vendor with two ports, with and without filter rules, one that numbers its interface from 0 | `RefusedOnlyForTextOrIndex`, `ReportIsConsistent` (`CountersOfOneTable`, `TemperatureIsReported`), `SelectionByPrecedence` |

Names in parentheses are the parts of the property before them, each defined and
commented on its own; the type invariant of the module is one more part. Where
`TypeOK` is proved as a theorem of its own (`Outbox`, `Ingestion`,
`ApplianceSessions`), no run repeats it.

Why the bounds are enough. The outbox needs a table that can be full (2), more
events than fit (3), a flush of several rows (2), and a stop of the process;
its safety properties and the refinement are proved for every bound, so the run
is there for the liveness properties and to keep the model and the proofs in
step. Every ingestion property is about two
events of one subject and their redelivery; two messages, each delivered any
number of times, with both observation times and a cutoff that passes the older
one, contain every order. A third message of the health kind adds no new pair. The
tracker looks at a device and its direct upstreams, and root causes need one
unknown device in between: three devices give the chain, two paths to one
device, and an evaluation order that differs from the order of the ids. A
threshold of two gives a pending failure; two reloads remove a device and bring
it back. Every property of the control plane is about two mutations that
overlap, or one and a reload: two tokens and two connections give each pair of
methods in every order. Deadlock is not checked there, because a collector whose
document does not load really stays down. One wizard overlapping two commits
gives both directions of the lost update: the wizard over a commit and a commit
over the wizard.

A scan needs two workers on one bucket, two overlapping address blocks, more
targets than the limit, and a second scan that starts while the first one is not
saved. The wizard's hazards are one command too many in flight and one site
after another in review; two of each suffice, and the three deployments keep
them apart because together they only multiply. The session properties are about
two requests on one session or one limiter entry; a lifetime of two and a clock
to three let a session expire, and be pruned, under a request. `auth` is one
instance of what `ApplianceSessionsProofs` proves for all. Three sites in a chain
are the smallest graph with an inner site, which a failing deletion, a mixture
of two topologies and a walk to the root need; a deletion and a configuration
are the two commands there are. In `report` every cell of a table may be missing
and has the values that take each branch; counters of the two widths differ so
that a mixture shows. Deadlock is not checked for `setup`, `auth`, `scan` and
`sites`: a wizard quits, a server stops, and the bounds on commands and time end
a behaviour.

### Fairness

- Outbox, shutdown: the process's own steps (the drain loop, the deadline timer,
  closing the store) are weakly fair; nothing is assumed of the network.
- Outbox, delivery: in addition the link settles while the process runs, and a
  publication, read or delete that is tried again and again succeeds at some
  point (strong fairness; the flusher's idle timer retries for ever). A
  supervisor restarts a stopped process.
- Ingestion: autopaho reconnects, a handler returns (its database calls have
  timeouts), a transaction tried again and again succeeds at some point, and
  retention runs complete now and then. Nothing is assumed of how often
  connections drop, because nothing in the code ends one: with this fairness
  `ingestion_redelivery` shows that a message whose transaction failed may stay
  unacknowledged for ever.
- Health: the poller's goroutines run, and every device is due again and again
  (strong fairness of a cycle that includes it: its interval passes).
- Scan: workers, the collecting loop and the saving goroutine run, a probe returns
  (it has a timeout), and the clock ticks; nothing is assumed of contexts.
- The other modules state safety only: what they promise in the end depends on an
  operator who tries again.

## Proofs

`OutboxProofs` proves `TypeOK`, `NoLoss`, `FirstDeliveryInOrder`,
`DepthIsRowCount`, `DrainSound` and the refinement of `AtLeastOnceQueue`;
`IngestionProofs` proves `TypeOK`, `NoLoss`, the three parts of `CurrentIsLatest`,
`AppliedOnceInWindow`, `HistoryKeepsLedger` and the action
property `IdentityNeverRegresses`. They hold for every capacity, batch size,
event set and retention setting that satisfies `OutboxAssumption` or
`IngestionAssumption`, and for every bound. `ApplianceSessionsProofs` proves all
that the run `auth` checks, `TypeOK`, `EndedStaysEnded`, `OldSecretIsRefused`,
`FailuresBounded`, and the action property `LiveSessionsStay`, for any number of users and requests, any limits and any
clock, under `SessionAssumption`. `ControlPlaneProofs` proves all that the run
`control` checks: `DocumentIsValid` (with `TypeOK`), `SingleUse`,
`SerialCommits`, `RevisionBound` and the action property `ReloadNeverRegresses`,
for any devices, hosts, policies, connections and mutations, under
`ControlAssumption` and `StaticFileLoads` (the collector was started with the
static file alone, so that file passes the checks of `Load`).
`PollerProofs` proves `VerdictsAreSound` and `SentMatchesLedger` for any
inventories, dependencies without cycles, thresholds, batches and reloads, under
`HealthAssumption`, which states what `Load` accepts. Of the poll of one device it
proves all that the run `report` checks, `ReportIsConsistent` (with
`PollTypeOK`), `RefusedOnlyForTextOrIndex` and `SelectionByPrecedence`, for any
devices, tables of any size and lists of rules of any length, under
`AgentAssumption`; and `PollFitsTracker`, which joins the two: every outcome a
poll returns is an input of the tracker's model, and a failed poll brings no
temperature. `DiscoveryScanProofs` proves `ResultsAreOwn` and `RateBound` for any rate, burst,
pool of workers and policies with finitely many addresses, under
`ScanAssumption`. `SetupWizardProofs` proves all that the run `setup` checks:
`DeploymentIsSound` (with `TypeOK`), `LoadingHasWork` and the action property
`KeepsEnrolledDevices`, for any number of sites and of commands in flight, under
`SetupAssumption` (finitely many deployments, so that there is a largest number of
sites). `SiteRegistryProofs` proves all that the run `sites` checks:
`GraphsAreSound` (with `TypeOK` and the foreign keys), `DeletionIsSound`,
`RowsFollowManifest` and `OverlayIsSound`, for any finite set of sites with any
roles, any topology and any number of commands and messages, under
`SiteAssumption` and `KindAssumption`; and two theorems about the operators:
`CyclesAreFound` (the search for a ring rejects exactly the graphs that cannot be
ranked) and `WalkFindsRoots` (what the recursion of `collectRootCauseSites`
returns).

Each rests on one inductive invariant `IInv`, whose parts are named conjuncts
and whose proof has one step per action.

- Outbox: `Numbering` (ids are unique, grow with commit order, and are below
  what the next insert gets, which is why an id is never used again after a
  crash), `BatchInv` (what a flush has read are rows in order, or rows that were
  deleted meanwhile and are confirmed: without it two overlapping flushes could
  not be told from a loss), `Accounting` (depth against rows and unanswered deletes
  while a commit or a delete is half done), `UnansweredInv` (an actor whose delete
  was not answered has returned with an error and deletes no more, so the counter is
  at most one too high for each) and `DrainInv` (what the drain may conclude from an empty
  read).
- Ingestion: `AckInv` (what is about to be acknowledged is settled), `LedgerInv`
  (what was stored is in the ledger as long as it is inside the window),
  `PrunedInv` (the tables a retention run has passed hold no expired row but
  late ones: this is what makes the order of `Targets` matter), `DeviceInv` and
  `InterfaceInv` (the row and its `last_observed_at` agree, which the `CASE`
  guards need).
- Health tracker: `FrameInv` and `OrderInv` (what is evaluated depends on nothing
  that is still to be evaluated), `SentInv` (the event that waits to be published,
  or the last one published, says what the ledger holds), `EvidenceInv` and
  `DecisiveInv`. `UnknownIsJustified` is not inductive because in the middle of a
  batch an unknown device that is still to be evaluated may rest on an upstream that
  has just responded; `Evidence` keeps the two kinds of devices apart. That a root
  cause is always found (`RootsFound`) rests on the acyclicity of the dependencies
  alone: a walk that met only unknown devices would be a set each of whose members
  has an upstream inside it. `RootsAreCulprits` shows that the walk over stored
  evidence and the definition over outcomes follow the same edges.
- Device poll: `ColumnsInv` (a cell read is one the device has, and acceptable where
  the profile's walks check it) and `ReadingsInv`, which has what the poll knows
  between reading and publishing: `InterfaceOK` (both octet counters from the
  tables of one width), `TemperaturesOK` (one component for each index, finitely
  many values, so that there is a highest one) and `PowerOK` (one sensor and one
  other component for each index, which is why `Repaired` needs to drop no more
  than the second). The percentages are the deep part. A mean is at most 100 because
  every reading is (`PollMean`), Cisco's use is at most the sum of use and free
  (`PollCiscoMemory`), and Arista's is at most the size because an area that grew
  past it is not counted (`PollAristaMemory`, where the mutant without that check
  fails). Each needs an inequality between two sums over the same rows
  (`PollSumOrdered`). What a fold computes is a function on the subsets of
  the rows (`PollFoldExists`), and removing a row takes its value from the sum
  (`PollSumRecursion`). `PollCounting` and `PollRemoving` are the inductions behind
  them; their hypothesis is a set, where the library's theorems want an operator,
  which the provers cannot instantiate. In the same way
  `PollAnyMatch` says that the fold over the filter's rules ends in the last match,
  and `PollPrecedence` puts the two folds of `Apply` together.
- Control plane: `Shape` (types, the two locks, and the versions that connections
  may have read), `TokensInv` (whoever took a token is alone with it and nobody has
  written it), `VersionsInv` (a reload that has seen the newest version has its
  document, and one that has seen the loaded version would activate what is
  active: without it a commit could not rely on the revision it compared),
  `SerialInv` (the holder of `mutationMu` works on the document on disk unless it was
  overtaken by the wizard, and a wizard that was not overtaken holds the document on
  disk) and `ContentInv` (static devices keep their hosts, so a check made before the
  lock still means something after it, and a document that a commit or the wizard
  may write back is as sound as the one on disk). They rest on
  lemmas about the pure functions: no mutation can tell a document from what the
  YAML encoder leaves of it (`EncodedApply`), only a change of dependencies can make
  dependencies invalid (`ApplyDependencies`), and an accepted review clashes with
  no device of the configuration or of the document (`ApplyHosts`).
- Discovery scans: `ScanOK` says of each scan that its targets are accounted for
  (`Whole`), that its workers count their results once (`Counted`), and how the
  bucket's debt relates to those that wait (`Rate`). `RateBound` is not inductive
  because a probe is paid for when the worker reserves and sent when its wait is
  over; `Rate` therefore bounds, for every later time, the probes sent and those
  that are due by then. `ScansInv` (only the scan that `scanState` is about can
  be scanning), `ProgressInv` and `StoredInv` (what is stored is about a scan that
  is over) do the rest.
- Appliance sessions: `RequestInv` (a session that was over when a request came
  is over in the table for as long as the request has not read it; a secret that
  was not the row's when the request was sent never becomes it, because secrets
  are never drawn twice; token numbers are never reused) and `LimiterInv` (the
  failures recorded for a key and the logins admitted but not yet judged are
  together at most the limit plus the other requests: this is what makes
  `FailuresBounded` inductive). Two frame lemmas, `RowsKeep` and `LiveRowsKeep`,
  say what every action leaves of the table, so that each action needs only one
  lemma about its own request.
- Setup wizard: `ModelInv` (types, and the sites the model names exist), `DiskInv`
  (a site that may be started, or was, has its configuration and its managed file),
  `FlightInv` (every command and message under way carries sites that exist) and
  `OrderInv`. The last is why `MarkerMeansThresholds` holds: without the user step,
  nothing is under way before the deployment starts but one persist or its answer,
  with the keyboard off, and afterwards no command under way writes the manifest.
  So no persist can be late and replace the sites whose thresholds the marker is
  about. `KeysKeepOrder`, `HandlersKeepOrder` and `RunsKeepOrder` say what the
  three kinds of steps do to it. `LoadingHasWork` needs no strengthening but the
  types: whoever turns the keyboard off starts a command, and whoever consumes an
  answer turns it on again or starts the next one. `KeepsEnrolledDevices` rests on
  `ProbeInv`: what a probe has read is what is enrolled at its site (`Faithful`), but
  for devices accepted since, which are in `raced`.
- Site registry: `World` (the manifest is a graph the validation accepts, every
  foreign key finds its row) and, for each command, `JobTyped` (what it carries to
  the next step was validated), `SweptOf` (what the statements done so far have
  deleted, if no message came in between), `LayersOf`, `SyncOf` (a command that
  ran alone: the rows already visited are those of the manifest) and `DeletionOf`
  (how far a deletion has got: rows first, then the name, then the service and the
  collector). `FilesInv` is about the two files: a command that is alone has the
  manifest it started from (`AloneOf`), the compose file has the sites of the manifest
  unless they were torn (`FilesOf`), and a deletion past its writes is rid of the site
  (`GoneOf`); `FilesAgree` is its theorem, and `DeletionSound` rests on both. That the order of the statements leaves no reference to a row that
  goes is `ReferencesLast`.
- Site topology: `AcyclicIsRanked` takes the largest part of a graph that can be
  ranked; what is left over would be a ring. Everything about the overlay goes down
  the ranks: a set of sites has one of least rank (`LeastRank`), so every
  unavailable site reaches a source (`RootsExist`), and the function the recursion
  defines is the union of the sources of its arguments (`WalkFindsRoots`: a site
  of least rank where the two differ would have further sites at which they agree).
  `CountsAreRight` and `SourceAlarms` carry it to the counts and the alarms.

Only model-checked:

- Liveness (`EventuallyConfirmed`, `ShutdownTerminates`, `EventuallyAlarmed`,
  `ScanEnds`): outside what the prover does.

Every safety property that a passing run checks is a theorem.

## Differences between the documents and the code

Shown by a run:

- `ingestion_redelivery`: after a database failure `OnPublishReceived` returns
  without an acknowledgement and nothing else happens (`IS/mqtt/subscriber.go:115`).
  A broker sends an unacknowledged message again only on a new connection, as
  `subscriber.go:35` says itself, and nothing in the service ends the connection;
  `docs/architecture/contracts.md:252-253` says "Database failures are not acknowledged
  so QoS 1 redelivery occurs". The event may stay unstored for as long as the
  connection holds.
- `control_overlay`: a threshold or alerting commit on a static device erases the
  upstreams of the static file, because an unset `upstream_device_ids` comes back
  from YAML as an empty list (`SC/config/config.go:545`, against
  `.ai/decisions/collector-6.md:90`).

Seen while modelling, without a run of their own:

- An outage longer than the 24 h session expiry (`IS/mqtt/subscriber.go:67`) loses
  the queue of unacknowledged events.
- A DELETE that took effect but was answered with an error, because the context
  ended at shutdown, leaves the depth counter one too high (`SC/buffer/store.go:246-249`),
  although the comment at line 76 serialises writers "for depth consistency". `Drain`
  then reads a depth above zero on an empty table, waits for its deadline and
  returns an error. The next start counts anew. `DepthIsRowCount` states the
  counter up to these deletes, and that it is exact while the collector runs.
- The wizard rewrites the managed document without `mutationMu` after up to two
  minutes of probing (`SC/tui/setup/deploy.go:430-447`). Commits written meanwhile are
  lost: a threshold, a dependency, or a device accepted at that site, which
  `SerialCommits` and `KeepsEnrolledDevices` state exactly. What it infers is lost in
  turn to a commit that had read the document before. `topology.Enrich` replaces the
  upstreams of every device in the document, those an operator has set and those of
  overlaid static devices included. If the lost device got a threshold or an alerting
  entry from a commit that had read it, an entry without a host is left with which the
  collector does not load; the proofs cover it, the run needs a third token for it.
- A device row created by a health event keeps empty identity columns after its
  first telemetry, because its `last_observed_at` is NULL (`IS/store/v2.go:337`).
- Stored evidence of an older snapshot can form a cycle that `collectRootCauses`
  (`SC/health/tracker.go:307`) never leaves; `.ai/decisions/collector-4.md:18`
  relies on acyclic dependencies. `Overflow` models it.
- A device that answered becomes critical with `direct_unreachable` when its
  telemetry cannot be published (`SC/poller/poller.go:424`, against
  `contracts.md:176`).
- Two dependency commits that overlap can write a cycle that neither reload nor
  restart accepts: `ValidatePendingDependencyMutation` runs before `mutationMu` is
  taken (`SC/control/handlers.go:519`). `config.go:941` speaks of sequential writes
  only; `DependenciesSound` is that guarantee.
- A discovery policy with a CIDR that does not parse is written and then refused
  by every load (`SC/control/discovery_handlers.go:300`).
- A commit whose check of the revision came before a reload and its `take` after
  it writes a mutation of a superseded revision; `collector-6.md:66` says
  `REVISION_MISMATCH`. `RevisionBound` allows exactly this overlap.
- Failed commits of `discovery.policy` and `discovery.accept` leave no audit entry
  (`discovery_handlers.go:270`); `collector-6.md:67` says every attempt does.
- A scan is marked finished before its candidates are saved
  (`discovery_handlers.go:176`): the list may still be the old one, and an older
  scan that saves late replaces the result of a newer one. The last count of a
  scan may be below its total, because counts arrive out of order.
- `upsertDevice` (`IS/store/store.go:164`) lets an older interface or health event
  move `last_seen` back; `contracts.md:62` says `observed_at` orders updates.
- An event stored late and redelivered after its ledger row expired is applied
  again; `contracts.md:252` says duplicates change nothing.
  `AppliedOnceInWindow` is the guarantee the code gives.
- A device that goes from critical to unknown is published as `recovered`
  (`SC/health/tracker.go:336`); `services/snmp-collector/README.md:73` says
  recovery returns it to Healthy or Warning.
- `reasserted` is emitted when `alerts_enabled` changes (`tracker.go:153`);
  `.ai/decisions/collector-4.md:23` says it never is.
- When the context ends after the last dispatch, interrupted polls count as
  failures (`SC/poller/poller.go:257`); `docs/architecture/snmp-collector.md:29`
  says cancelled batches leave the ledger unchanged.
- Health events whose publication failed are not sent again
  (`SC/poller/poller.go:281`).
- A vendor walk that loses the descriptions but keeps the values or the states gives
  components without a name (`SC/snmp/vendors/cisco/profile.go:94-101`), for which
  ingestion refuses the whole device event for good, host name and identity
  included; `SC/snmp/vendors/README.md:17-18` says "A profile collection failure
  preserves the successful core result." `RefusedOnlyForTextOrIndex` does not judge
  this refusal: it only says that a blank name is the sole way a broken walk
  leads to one. The same holds for an empty `sysName`, which
  `telemetry.go:64` replaces only as hostname, and for a white-space `ifName`.
- An Arista entity whose index a sensor and a power supply share, in the same poll or
  because it was replaced between two columns, gives two components
  `power-<index>` (`SC/telemetry/telemetry.go:377`), and ingestion refuses the
  whole device event (`IS/validate/v2.go:685`). An interface with the index 0 is
  accepted by `oidIndex` and refused at `v2.go:486`.
- An interface that disappears between the octet and the error columns is
  reported with error counters of 0, although nobody read them
  (`SC/snmp/core/if_mib.go:139`, against `contracts.md:83`); one without `ifType` escapes the default exclusion.
- The wizard dispatches an answer on the step it is in. A user list that is still
  under way can advance a later step, and on an appliance a persist may write
  after the marker; hence the restriction of `MarkerMeansThresholds`.
- The last deployment phase gives the keyboard back before its answer has come
  (`SC/tui/setup/model.go:377`): a key then deploys again, and the second chain can
  skip the review or index past its sites.
- On an appliance, `s` after a failed review skips every remaining site, and
  `r` starts the automatic review; the page says "skip site", and
  `.ai/decisions/collector-6.md:108` that appliance devices are enrolled manually.
- A deletion that fails between the manifest and the compose file, tried again,
  takes the path for unlisted sites, which does not regenerate the compose file:
  `up -d` starts the deleted site's collector, the command reports success, and the
  messages of that collector bring its rows back (`cmd/equate/sites.go:138`; the
  comment at line 130 wants no such "frontend ghost"). `DeletedIsGone` allows exactly
  this: an unlisted site and files that were torn apart.
- The deletion writes the manifest it computed before the confirmation, so sites
  the wizard added meanwhile are lost (`sites.go:81`).
- The rows are synchronised one statement at a time, so the table may hold edges
  of both topologies; if an operator's manifest does not keep to core, MDF and
  IDF they can form a cycle, and `collectRootCauseSites`
  (`BA/derive/site_topology.go:219`) has no guard against it. `NoCycleInRows` is
  what holds otherwise.
- Devices are kept in maps keyed by address, or host name without one
  (`BA/handlers/site_projections.go:83`). Of two devices of a site with one key the
  site page shows one and the list shows the last one twice (`handlers.go:285-287`),
  while the counts are of both. `CountsMatchPages` promises pages only where keys
  are distinct.
- The sites, the devices of one site and all devices are separate reads
  (`handlers.go:257-274`): a device stored between them shows on one page and not in
  the counts, and a site created between them shows without counts or overlay.
- The search projects devices without the overlay (`handlers.go:582-596`): it shows
  as critical what every page of the site shows as unknown because of its upstream
  site. `SearchMatches` says that they differ in nothing else.
- The login limiter's comment speaks of a "sliding window"
  (`BA/auth/ratelimit.go:8`); the window is fixed at the first failure
  (`RecordFailure`, line 75), so nearly twice the limit fits into one window's
  length around its end. No property judges it: `FailuresBounded` bounds what one
  stored entry counts, and an entry that was evicted, reset by a login or belongs to
  another address starts a new count.
- A site whose rows are stale but say healthy counts as critical without being a
  direct failure, so a silent site is never laid to its upstream.
- A site whose only failing device is ignored can make others impacted without
  showing an alarm itself; `AlarmSurvives` allows for it.
- A late message re-creates the row of a pruned site.
- Concurrent logins that have passed `Allow` may all fail, so the limit can be
  exceeded by the number of requests under way (`appliance_handlers.go:76`).
  `FailuresBounded` is that bound.

## Plan

Done: `Outbox` with its abstract queue and proofs, `Ingestion` with retention and
proofs, `HealthTracker` with proofs, `ControlPlane` over `ManagedConfig` with proofs,
`DiscoveryScan` with proofs, `SetupWizard` with proofs, `ApplianceSessions` with
proofs, `SiteRegistry` over `SiteTopology` with proofs, `DevicePoll` over
`MessageValidation` with proofs.

Next, in this order:

1. `Pipeline`: outbox and ingestion composed over the broker, against an abstract
   specification in which an accepted event is stored exactly once inside the
   window.
2. Abstract specifications of a deletion (a site is listed, going or gone) and of a
   scan (started, over, stored), with the components shown to implement them.
3. Upgrade as a sequence of steps that may fail; heartbeat, status and readiness.

## Not modelled

- Wire formats of SNMP, MQTT and JSON, TLS, metrics and logs: no state the
  properties could be about. Of a sensor reading the scaling is left out, of a
  message its identifiers and timestamps.
- The checks on health and heartbeat messages, which the collector builds from
  its own configuration, and the transformation to rows column by column.
- Heartbeat, status and readiness of the collector, and the upgrade: planned.
- OIDC authentication: calls of a library that keep nothing.
- The interface, history and configuration pages of the dashboard API and the
  frontend: projections of rows.
- The screens of the TUI other than the wizard: they call control methods that
  `ControlPlane` and `DiscoveryScan` model.
- The inference of topology from neighbour tables: a pure function over data
  whose shape no property here depends on.
- Shell scripts other than `sync-site-topology.sh`, compose files and Terraform:
  they provision hosts.
- Settings that only the static configuration file carries are fixed for a run of
  the collector.
