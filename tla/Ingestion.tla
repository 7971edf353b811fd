----------------------------- MODULE Ingestion ------------------------------
(***************************************************************************)
(* The ingestion service: the persistent MQTT session it reads from        *)
(* (internal/mqtt), the ACK decision of the handler (internal/handler),    *)
(* the transactions of the store (internal/store) and the retention job    *)
(* that prunes the same tables (internal/retention).                       *)
(*                                                                         *)
(* An event is a record [id, kind, subject, at]: subject is its device, or *)
(* its collector for a heartbeat, and at its observed_at.  A transaction   *)
(* is one step: writers are serialised by Subscriber.mu and every DELETE   *)
(* of the retention job commits by itself.  The commit and the PUBACK that *)
(* follows it are two steps.                                               *)
(***************************************************************************)
EXTENDS Integers, Sequences, FiniteSets

CONSTANTS
  Events,       \* what collectors may publish
  Days,         \* retention.days
  PruneSize,    \* retention.batch_size
  NoEvent,      \* an empty current-state row
  MaxMessages,  \* bound: PUBLISH packets accepted by the broker
  MaxTime       \* bound: the clock

Kinds == {"device_telemetry", "interface_telemetry", "health_state",
          "collector_heartbeat", "v1_device", "v1_interface", "invalid"}

ASSUME IngestionAssumption ==
  /\ \A e \in Events : e.kind \in Kinds /\ e.at \in Nat
  /\ NoEvent \notin Events
  /\ Days \in Nat \ {0}
  /\ PruneSize \in Nat \ {0}
  /\ MaxMessages \in Nat
  /\ MaxTime \in Nat

VARIABLES
  log,        \* broker: every message queued for the session, in order
  unacked,    \* broker: the positions in log it holds until the PUBACK
  cursor,     \* broker: the last position sent on this connection
  up,         \* Subscriber.connected
  pc,         \* the handler, under Subscriber.mu: "idle", "persist", "ack"
  cur,        \* the position it handles
  fresh,      \* cur came over the present connection
  ledger,     \* ingested_events
  healthLog,  \* device_health_history
  beatLog,    \* collector_heartbeat_history
  samples,    \* metric and interface samples: natural keys
  health,     \* device_health_current: the event each row holds
  status,     \* collector_status_current: the event each row holds
  device,     \* devices: see DeviceRow
  iface,      \* interfaces: see IfaceRow
  target,     \* retention: index in Targets, 0 between runs
  cutoff,     \* retention: cutoff of the latest run
  now,        \* the clock
  stored,     \* auxiliary: events whose transaction committed
  twice,      \* auxiliary: v2 events applied although stored before
  late        \* auxiliary: events applied when older than the cutoff

brokerVars == <<log, unacked, cursor, up>>
jobVars    == <<pc, cur, fresh>>
tableVars  == <<ledger, healthLog, beatLog, samples, health, status, device,
                iface, stored, twice, late>>
pruneVars  == <<target, cutoff>>
vars == <<brokerVars, jobVars, tableVars, pruneVars, now>>

Null == -1

Subjects == {e.subject : e \in Events}

\* last_seen, status and hostname come from the event seen, the identity
\* columns from the event identity; observed is last_observed_at.
DeviceRow == [seen : Events \cup {NoEvent}, identity : Events \cup {NoEvent},
              observed : Nat \cup {Null}]

IfaceRow == [meta : Events \cup {NoEvent}, observed : Nat \cup {Null},
             exists : BOOLEAN]

TableOf(e) ==
  IF e.kind \in {"interface_telemetry", "v1_interface"} THEN "interface"
  ELSE "metric"

Keys == {"metric", "interface"} \X Subjects \X {e.at : e \in Events}

TypeOK ==
  /\ log \in Seq(Events)
  /\ unacked \subseteq 1 .. Len(log)
  /\ cursor \in 0 .. Len(log)
  /\ up \in BOOLEAN
  /\ pc \in {"idle", "persist", "ack"}
  /\ cur \in 0 .. Len(log)
  /\ pc # "idle" => cur # 0
  /\ fresh \in BOOLEAN
  /\ ledger \subseteq Events
  /\ healthLog \subseteq Events
  /\ beatLog \subseteq Events
  /\ samples \subseteq Keys
  /\ health \in [Subjects -> Events \cup {NoEvent}]
  /\ status \in [Subjects -> Events \cup {NoEvent}]
  /\ device \in [Subjects -> DeviceRow]
  /\ iface \in [Subjects -> IfaceRow]
  /\ target \in 0 .. 4
  /\ cutoff \in Int
  /\ now \in Nat
  /\ cutoff <= now - Days
  /\ stored \subseteq Events
  /\ twice \subseteq Events
  /\ late \subseteq Events

Init ==
  /\ log = <<>>
  /\ unacked = {}
  /\ cursor = 0
  /\ up = FALSE
  /\ pc = "idle"
  /\ cur = 0
  /\ fresh = FALSE
  /\ ledger = {}
  /\ healthLog = {}
  /\ beatLog = {}
  /\ samples = {}
  /\ health = [s \in Subjects |-> NoEvent]
  /\ status = [s \in Subjects |-> NoEvent]
  /\ device = [s \in Subjects |->
                 [seen |-> NoEvent, identity |-> NoEvent, observed |-> Null]]
  /\ iface = [s \in Subjects |->
                [meta |-> NoEvent, observed |-> Null, exists |-> FALSE]]
  /\ target = 0
  /\ cutoff = 0 - Days
  /\ now = 0
  /\ stored = {}
  /\ twice = {}
  /\ late = {}

-----------------------------------------------------------------------------
(***************************************************************************)
(* Collectors, the clock and the broker's session.  The session outlives   *)
(* the connection; QoS 1 messages are sent again only when the client      *)
(* connects again.                                                         *)
(***************************************************************************)
Range(s) == {s[i] : i \in DOMAIN s}

\* The outbox sends events of a subject in order for the first time, and may
\* send an event it already sent once more.
Publish(e) ==
  /\ Len(log) < MaxMessages
  /\ e.at <= now
  /\ \/ e \in Range(log)
     \/ \A f \in Range(log) : f.subject = e.subject => f.at <= e.at
  /\ log' = Append(log, e)
  /\ unacked' = unacked \cup {Len(log) + 1}
  /\ UNCHANGED <<cursor, up, jobVars, tableVars, pruneVars, now>>

Tick ==
  /\ now < MaxTime
  /\ now' = now + 1
  /\ UNCHANGED <<brokerVars, jobVars, tableVars, pruneVars>>

\* OnConnectionUp.  CleanStart is false: everything unacknowledged comes again.
Connect ==
  /\ ~up
  /\ up' = TRUE
  /\ cursor' = 0
  /\ UNCHANGED <<log, unacked, jobVars, tableVars, pruneVars, now>>

\* OnConnectionDown.  A Handle that is under way goes on.
Disconnect ==
  /\ up
  /\ up' = FALSE
  /\ fresh' = FALSE
  /\ UNCHANGED <<log, unacked, cursor, pc, cur, tableVars, pruneVars, now>>

\* The process ends, with or without a signal, and is started again.
Restart ==
  /\ up' = FALSE
  /\ pc' = "idle"
  /\ cur' = 0
  /\ fresh' = FALSE
  /\ target' = 0
  /\ UNCHANGED <<log, unacked, cursor, tableVars, cutoff, now>>

\* The next message of the connection, once Subscriber.mu is free.
Waiting == {i \in unacked : i > cursor}

Receive(i) ==
  /\ up
  /\ pc = "idle"
  /\ i \in Waiting
  /\ \A j \in Waiting : i <= j
  /\ cursor' = i
  /\ pc' = "persist"
  /\ cur' = i
  /\ fresh' = TRUE
  /\ UNCHANGED <<log, unacked, up, tableVars, pruneVars, now>>

-----------------------------------------------------------------------------
(***************************************************************************)
(* The statements of one transaction.                                      *)
(***************************************************************************)

\* SQL's x < y is not true when x is NULL.
Newer(x, y) == x # Null /\ x < y

Greatest(x, y) == IF x = Null \/ x < y THEN y ELSE x

\* upsertDevice: last_seen, status and hostname unconditionally.
UpsertDevice(e) ==
  device' = [device EXCEPT ![e.subject].seen = e]

\* Mutant: upsertDeviceV2 without the CASE on last_observed_at.
UpsertDeviceV2Always(e) ==
  device' = [device EXCEPT ![e.subject] =
               [seen |-> e, identity |-> e,
                observed |-> Greatest(device[e.subject].observed, e.at)]]

\* upsertDeviceV2: insert, or update every column behind the same CASE.
UpsertDeviceV2(e) ==
  LET d == device[e.subject]
      take == d.seen = NoEvent \/ Newer(d.observed, e.at)
  IN device' = [device EXCEPT ![e.subject] =
                  [seen |-> IF take THEN e ELSE d.seen,
                   identity |-> IF take THEN e ELSE d.identity,
                   observed |-> Greatest(d.observed, e.at)]]

\* upsertInterface of v1: a row without last_observed_at.
UpsertInterface(e) ==
  iface' = [iface EXCEPT ![e.subject].exists = TRUE]

\* upsertInterfaceV2: insert, or update every column behind the same CASE.
UpsertInterfaceV2(e) ==
  LET r == iface[e.subject]
      take == ~r.exists \/ Newer(r.observed, e.at)
  IN iface' = [iface EXCEPT ![e.subject] =
                 [meta |-> IF take THEN e ELSE r.meta,
                  observed |-> Greatest(r.observed, e.at),
                  exists |-> TRUE]]

InsertSample(e) == samples' = samples \cup {<<TableOf(e), e.subject, e.at>>}

\* Mutant: the upsert of device_health_current without its WHERE.
UpsertHealthAlways(e) == health' = [health EXCEPT ![e.subject] = e]

\* ON CONFLICT DO UPDATE ... WHERE current.observed_at <= EXCLUDED.observed_at
UpsertHealth(e) ==
  health' = IF health[e.subject] = NoEvent \/ health[e.subject].at <= e.at
            THEN [health EXCEPT ![e.subject] = e] ELSE health

\* ON CONFLICT DO UPDATE ... WHERE current.observed_at < EXCLUDED.observed_at
UpsertStatus(e) ==
  status' = IF status[e.subject] = NoEvent \/ status[e.subject].at < e.at
            THEN [status EXCEPT ![e.subject] = e] ELSE status

\* Mutant: the ledger row is written without looking whether it was new.
NeverDuplicate(e) == FALSE

\* insertIngestedEvent: ON CONFLICT DO NOTHING affected no row.
Duplicate(e) == e \in ledger

\* The UNIQUE event_id of the history tables makes the INSERT fail.
Conflict(e) ==
  \/ e.kind = "health_state" /\ e \in healthLog
  \/ e.kind = "collector_heartbeat" /\ e \in beatLog

PersistDeviceTelemetry(e) ==
  /\ e.kind = "device_telemetry"
  /\ UpsertDeviceV2(e)
  /\ InsertSample(e)
  /\ UNCHANGED <<healthLog, beatLog, health, status, iface>>

PersistInterfaceTelemetry(e) ==
  /\ e.kind = "interface_telemetry"
  /\ UpsertDevice(e)
  /\ UpsertInterfaceV2(e)
  /\ InsertSample(e)
  /\ UNCHANGED <<healthLog, beatLog, health, status>>

PersistHealth(e) ==
  /\ e.kind = "health_state"
  /\ UpsertDevice(e)
  /\ healthLog' = healthLog \cup {e}
  /\ UpsertHealth(e)
  /\ UNCHANGED <<beatLog, samples, status, iface>>

PersistHeartbeat(e) ==
  /\ e.kind = "collector_heartbeat"
  /\ beatLog' = beatLog \cup {e}
  /\ UpsertStatus(e)
  /\ UNCHANGED <<healthLog, samples, health, device, iface>>

\* A v2 event that is not in the ledger: one transaction, one new ledger row.
Apply(e) ==
  /\ ~Duplicate(e)
  /\ ~Conflict(e)
  /\ \/ PersistDeviceTelemetry(e)
     \/ PersistInterfaceTelemetry(e)
     \/ PersistHealth(e)
     \/ PersistHeartbeat(e)
  /\ ledger' = ledger \cup {e}
  /\ twice' = IF e \in stored THEN twice \cup {e} ELSE twice
  /\ late' = IF e.at < cutoff THEN late \cup {e} ELSE late
  /\ stored' = stored \cup {e}

\* v1 has no event id: inventory is upserted even if the sample is there.
PersistV1(e) ==
  /\ \/ e.kind = "v1_device" /\ UNCHANGED iface
     \/ e.kind = "v1_interface" /\ UpsertInterface(e)
  /\ UpsertDevice(e)
  /\ InsertSample(e)
  /\ stored' = stored \cup {e}
  /\ UNCHANGED <<ledger, healthLog, beatLog, health, status, twice, late>>

-----------------------------------------------------------------------------
(***************************************************************************)
(* Handle, and the acknowledgement.                                        *)
(***************************************************************************)
Handling(e) == pc = "persist" /\ log[cur] = e

\* validate.Validate failed, or the metric type is unknown: ack = true.
Reject(e) ==
  /\ Handling(e)
  /\ e.kind = "invalid"
  /\ pc' = "ack"
  /\ UNCHANGED <<brokerVars, cur, fresh, tableVars, pruneVars, now>>

\* recordResult: inserted or duplicate, ack = true.
Persist(e) ==
  /\ Handling(e)
  /\ \/ Apply(e)
     \/ PersistV1(e)
     \/ Duplicate(e) /\ UNCHANGED tableVars
  /\ pc' = "ack"
  /\ UNCHANGED <<brokerVars, cur, fresh, pruneVars, now>>

\* Mutant: a database error is acknowledged.
PersistFailsAcked(e) ==
  /\ Handling(e)
  /\ e.kind # "invalid"
  /\ pc' = "ack"
  /\ UNCHANGED <<brokerVars, cur, fresh, tableVars, pruneVars, now>>

\* A database error: the transaction is rolled back, or its COMMIT went
\* through and only the answer was lost.  ack = false.
PersistFails(e) ==
  /\ Handling(e)
  /\ e.kind # "invalid"
  /\ \/ UNCHANGED tableVars
     \/ Apply(e)
     \/ PersistV1(e)
  /\ pc' = "idle"
  /\ UNCHANGED <<brokerVars, cur, fresh, pruneVars, now>>

\* PUBACK: the broker forgets the message.
Ack ==
  /\ pc = "ack"
  /\ fresh
  /\ unacked' = unacked \ {cur}
  /\ pc' = "idle"
  /\ UNCHANGED <<log, cursor, up, cur, fresh, tableVars, pruneVars, now>>

\* The connection the message came over is gone, or the PUBACK is held back:
\* MQTT wants PUBACKs in the order of the messages, and an earlier message of
\* this connection was left unacknowledged.
AckLost ==
  /\ pc = "ack"
  /\ ~fresh \/ \E j \in unacked : j < cur
  /\ pc' = "idle"
  /\ UNCHANGED <<brokerVars, cur, fresh, tableVars, pruneVars, now>>

-----------------------------------------------------------------------------
(***************************************************************************)
(* Retention.                                                              *)
(***************************************************************************)

\* Mutant: the ledger is pruned before the histories.
LedgerFirst ==
  <<"ingested_events", "samples", "device_health_history",
    "collector_heartbeat_history">>

\* The order of Targets; sample and component tables are taken together.
Targets ==
  <<"samples", "device_health_history", "collector_heartbeat_history",
    "ingested_events">>

\* RunOnce, at start and on every tick of its interval.
StartRun ==
  /\ target = 0
  /\ target' = 1
  /\ cutoff' = now - Days
  /\ UNCHANGED <<brokerVars, jobVars, tableVars, now>>

Expired(S) == {e \in S : e.at < cutoff}

ExpiredKeys == {k \in samples : k[3] < cutoff}

\* A full batch: pruneTable asks again.  A short one: the next table.
Prune(table, rows, S) ==
  /\ target # 0
  /\ Targets[target] = table
  /\ \/ Cardinality(S) = PruneSize /\ UNCHANGED target
     \/ /\ S = rows
        /\ Cardinality(S) < PruneSize
        /\ target' = (target + 1) % (Len(Targets) + 1)
  /\ UNCHANGED <<brokerVars, jobVars, health, status, device, iface, stored,
                 twice, late, cutoff, now>>

PruneSamples ==
  \E S \in SUBSET ExpiredKeys :
    /\ Prune("samples", ExpiredKeys, S)
    /\ samples' = samples \ S
    /\ UNCHANGED <<ledger, healthLog, beatLog>>

PruneHealth ==
  \E S \in SUBSET Expired(healthLog) :
    /\ Prune("device_health_history", Expired(healthLog), S)
    /\ healthLog' = healthLog \ S
    /\ UNCHANGED <<ledger, samples, beatLog>>

PruneBeats ==
  \E S \in SUBSET Expired(beatLog) :
    /\ Prune("collector_heartbeat_history", Expired(beatLog), S)
    /\ beatLog' = beatLog \ S
    /\ UNCHANGED <<ledger, samples, healthLog>>

PruneLedger ==
  \E S \in SUBSET Expired(ledger) :
    /\ Prune("ingested_events", Expired(ledger), S)
    /\ ledger' = ledger \ S
    /\ UNCHANGED <<healthLog, samples, beatLog>>

\* DeleteOlderThan failed: RunOnce gives up until the next tick.
PruneFails ==
  /\ target # 0
  /\ target' = 0
  /\ UNCHANGED <<brokerVars, jobVars, tableVars, cutoff, now>>

PruneStep == PruneSamples \/ PruneHealth \/ PruneBeats \/ PruneLedger

-----------------------------------------------------------------------------
Next ==
  \/ \E e \in Events :
       \/ Publish(e)
       \/ Reject(e)
       \/ Persist(e)
       \/ PersistFails(e)
  \/ \E i \in unacked : Receive(i)
  \/ Tick
  \/ Connect
  \/ Disconnect
  \/ Restart
  \/ Ack
  \/ AckLost
  \/ StartRun
  \/ PruneStep
  \/ PruneFails

Spec == Init /\ [][Next]_vars

-----------------------------------------------------------------------------
(***************************************************************************)
(* Properties.                                                             *)
(***************************************************************************)

Settled(e) == e.kind = "invalid" \/ e \in stored

\* handler.go: the broker may discard a message only when it was accepted, a
\* duplicate or rejected.  A position the broker no longer holds carries an
\* invalid message or an event whose transaction committed, with the COMMIT's
\* answer lost, the PUBACK lost and the connection replaced in between.
NoLoss ==
  \A i \in 1 .. Len(log) : i \in unacked \/ Settled(log[i])

StoredOf(kind, s) == {e \in stored : e.kind = kind /\ e.subject = s}

\* The row of a current-state table holds a newest event of what was stored.
IsLatest(row, S) ==
  /\ S = {} => row = NoEvent
  /\ S # {} => row \in S /\ \A e \in S : e.at <= row.at

\* contracts.md: "observed_at controls ordering and current-state updates".
\* device_health_current holds a newest health event ever stored, although
\* failed transactions make older events arrive after newer ones, and
\* although the history it summarises is pruned and replayed.
HealthIsLatest ==
  \A s \in Subjects : IsLatest(health[s], StoredOf("health_state", s))

\* contracts.md: "Delayed heartbeats remain historical telemetry but cannot
\* overwrite a newer" status: the same for collector_status_current.
StatusIsLatest ==
  \A s \in Subjects : IsLatest(status[s], StoredOf("collector_heartbeat", s))

\* The identity columns of a device (vendor, model, serial, ...) never go back
\* to an older observation: the CASE of upsertDeviceV2 holds against events
\* that arrive late or are applied again.
IdentityNeverRegresses ==
  [][\A s \in Subjects :
       device[s].identity # NoEvent =>
         /\ device'[s].identity # NoEvent
         /\ device[s].identity.at <= device'[s].identity.at]_vars

\* Interface metadata is that of a newest stored observation, unless the row
\* was created by a v1 sample, which leaves last_observed_at NULL.
InterfaceIsLatest ==
  \A s \in Subjects :
    StoredOf("v1_interface", s) = {} =>
      IsLatest(iface[s].meta, StoredOf("interface_telemetry", s))

\* The guards of the three upserts together: whatever is redelivered, and in
\* which order, a current-state row is a newest observation.
CurrentIsLatest == HealthIsLatest /\ StatusIsLatest /\ InterfaceIsLatest

\* The ledger makes QoS 1 redelivery harmless inside the retention window:
\* only an event older than the cutoff can be applied a second time.
AppliedOnceInWindow ==
  \A e \in twice : e.at < cutoff

\* Targets lists ingested_events after the histories so that a history row
\* never outlives its ledger row, which would make the redelivery of its event
\* fail on the UNIQUE event_id.  The exception is an event that was older than
\* the cutoff when it was stored, while a run was between the two tables.
HistoryKeepsLedger ==
  \A e \in healthLog \cup beatLog : e \in ledger \/ e \in late

(***************************************************************************)
(* The inductive invariant behind these properties.                        *)
(***************************************************************************)

\* Whatever is acknowledged, or about to be, is settled.
AckInv ==
  /\ NoLoss
  /\ pc = "ack" => Settled(log[cur])

\* What was stored is in the ledger as long as it is inside the window.
LedgerInv ==
  /\ ledger \cup healthLog \cup beatLog \subseteq stored
  /\ \A e \in stored :
       e.kind \in {"v1_device", "v1_interface"} \/ e \in ledger \/ e.at < cutoff
  /\ AppliedOnceInWindow

\* A table the current run has passed holds only late rows beyond the cutoff.
PrunedInv ==
  /\ HistoryKeepsLedger
  /\ target > 2 => \A e \in healthLog : e.at < cutoff => e \in late
  /\ target > 3 => \A e \in beatLog : e.at < cutoff => e \in late

\* The identity of a device is not newer than its last_observed_at.
DeviceInv ==
  \A s \in Subjects :
    device[s].identity # NoEvent =>
      /\ device[s].seen # NoEvent
      /\ device[s].observed # Null
      /\ device[s].identity.at <= device[s].observed

\* An interface row that is not there is empty; without v1, one that is there
\* carries the metadata of its last_observed_at.
InterfaceInv ==
  /\ InterfaceIsLatest
  /\ \A s \in Subjects :
       ~iface[s].exists => iface[s].meta = NoEvent /\ iface[s].observed = Null
  /\ \A s \in Subjects :
       (StoredOf("v1_interface", s) = {} /\ iface[s].exists) =>
         iface[s].meta # NoEvent /\ iface[s].observed = iface[s].meta.at

IInv ==
  /\ TypeOK
  /\ AckInv
  /\ LedgerInv
  /\ PrunedInv
  /\ HealthIsLatest
  /\ StatusIsLatest
  /\ DeviceInv
  /\ InterfaceInv

(***************************************************************************)
(* Liveness.                                                               *)
(***************************************************************************)

\* Handle and Ack return, with one result or the other.
HandleReturns ==
  \/ \E e \in Events : Reject(e) \/ Persist(e) \/ PersistFails(e)
  \/ Ack
  \/ AckLost

\* The client library connects again when the connection is down, handlers
\* return, an operation that is tried again and again succeeds at some point,
\* and retention runs complete.  Nothing is assumed to drop a connection.
FairnessOfService ==
  /\ WF_vars(Connect)
  /\ WF_vars(HandleReturns)
  /\ SF_vars(\E i \in unacked : Receive(i))
  /\ \A e \in Events : SF_vars(Reject(e) \/ Persist(e))
  /\ SF_vars(Ack)
  /\ []<><<PruneLedger /\ target' = 0>>_vars

LiveSpec == Spec /\ FairnessOfService

\* The handler is done with message i without having stored it: a database
\* failure left it unacknowledged, and the broker has sent it already.
FailedUnacknowledged(i) ==
  /\ i \in unacked
  /\ i <= cursor
  /\ pc = "idle"
  /\ log[i].kind # "invalid"
  /\ log[i] \notin stored

\* contracts.md: "Database failures are not acknowledged so QoS 1 redelivery
\* occurs".  The code refuses the PUBACK and leaves the rest to the broker,
\* which sends a message again only on a new connection (Subscriber's
\* CleanStart comment says so): as long as the connection of autopaho holds,
\* subscriber.go does nothing that brings the message back.
FailureIsRedelivered ==
  \A i \in 1 .. MaxMessages :
    FailedUnacknowledged(i) ~> (i \notin unacked \/ i > cursor)

=============================================================================
