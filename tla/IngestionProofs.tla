-------------------------- MODULE IngestionProofs ---------------------------
(***************************************************************************)
(* Proofs about Ingestion for every set of events, retention period, batch *)
(* size and bound: IInv is inductive, and implies what the runs check.     *)
(***************************************************************************)
EXTENDS Ingestion, TLAPS

\* What the store writes keeps its type.
TablesOK ==
  /\ ledger \subseteq Events
  /\ healthLog \subseteq Events
  /\ beatLog \subseteq Events
  /\ samples \subseteq Keys
  /\ health \in [Subjects -> Events \cup {NoEvent}]
  /\ status \in [Subjects -> Events \cup {NoEvent}]
  /\ device \in [Subjects -> DeviceRow]
  /\ iface \in [Subjects -> IfaceRow]
  /\ stored \subseteq Events
  /\ twice \subseteq Events
  /\ late \subseteq Events

\* The conjuncts of IInv that speak of tables only.
DataInv ==
  /\ TablesOK
  /\ LedgerInv
  /\ PrunedInv
  /\ HealthIsLatest
  /\ StatusIsLatest
  /\ DeviceInv
  /\ InterfaceInv

\* The conjuncts that speak of the session, the handler and the clock.
SessionInv ==
  /\ log \in Seq(Events)
  /\ unacked \subseteq 1 .. Len(log)
  /\ cursor \in 0 .. Len(log)
  /\ up \in BOOLEAN
  /\ pc \in {"idle", "persist", "ack"}
  /\ cur \in 0 .. Len(log)
  /\ pc # "idle" => cur # 0
  /\ fresh \in BOOLEAN
  /\ AckInv

RetentionOK ==
  /\ target \in 0 .. 4
  /\ cutoff \in Int
  /\ now \in Nat
  /\ cutoff <= now - Days

\* The three parts are the whole inductive invariant.
LEMMA Parts ==
  /\ IInv <=> SessionInv /\ DataInv /\ RetentionOK
  /\ IInv' <=> SessionInv' /\ DataInv' /\ RetentionOK'
BY DEF IInv, TypeOK, SessionInv, DataInv, RetentionOK, TablesOK

\* The empty database, a new session and no run satisfy the invariant.
LEMMA InitIInv == Init => IInv
<1> SUFFICES ASSUME Init PROVE IInv
  OBVIOUS
<1>1. SessionInv
  <2>1. log = <<>> /\ Len(log) = 0 /\ unacked = {} /\ cursor = 0 /\ cur = 0
    BY DEF Init
  <2>2. log \in Seq(Events)
    BY <2>1
  <2>3. up \in BOOLEAN /\ fresh \in BOOLEAN
    BY DEF Init
  <2>4. pc = "idle"
    BY DEF Init
  <2>5. AckInv
    BY <2>1, <2>4 DEF AckInv, NoLoss
  <2>6. QED
    BY <2>1, <2>2, <2>3, <2>4, <2>5 DEF SessionInv
<1>2. DataInv
  <2>1. TablesOK
    BY DEF Init, TablesOK, DeviceRow, IfaceRow
  <2>2. LedgerInv /\ PrunedInv
    BY DEF Init, LedgerInv, PrunedInv, AppliedOnceInWindow, HistoryKeepsLedger
  <2>3. \A kind, s : StoredOf(kind, s) = {}
    BY DEF Init, StoredOf
  <2>4. HealthIsLatest /\ StatusIsLatest
    BY <2>3 DEF Init, HealthIsLatest, StatusIsLatest, IsLatest
  <2>5. DeviceInv
    BY DEF Init, DeviceInv
  <2>6. InterfaceInv
    BY <2>3 DEF Init, InterfaceInv, InterfaceIsLatest, IsLatest
  <2>7. QED
    BY <2>1, <2>2, <2>4, <2>5, <2>6 DEF DataInv
<1>3. RetentionOK
  BY IngestionAssumption DEF Init, RetentionOK
<1>4. QED
  BY <1>1, <1>2, <1>3, Parts

-----------------------------------------------------------------------------
(***************************************************************************)
(* The tables under one transaction.                                       *)
(***************************************************************************)

\* A current-state row that takes a newer event, or keeps what is not older,
\* is a newest one of what is stored.
LEMMA LatestExtended ==
  ASSUME NEW S \in SUBSET Events, NEW row, IsLatest(row, S),
         NEW e \in Events, NEW new,
         \/ new = e /\ (row = NoEvent \/ row.at <= e.at)
         \/ new = row /\ row # NoEvent /\ e.at <= row.at
  PROVE  IsLatest(new, S \cup {e})
<1>1. \A f \in Events : f.at \in Nat /\ f # NoEvent
  BY IngestionAssumption
<1>2. CASE S = {}
  BY <1>1, <1>2 DEF IsLatest
<1>3. CASE S # {}
  <2>1. row \in S /\ row \in Events /\ \A f \in S : f.at <= row.at
    BY <1>3 DEF IsLatest
  <2>2. CASE new = e /\ row.at <= e.at
    <3>1. \A f \in S \cup {e} : f.at <= e.at
      BY <1>1, <2>1, <2>2
    <3>2. QED
      BY <2>2, <3>1 DEF IsLatest
  <2>3. CASE new = row /\ e.at <= row.at
    BY <1>1, <2>1, <2>3 DEF IsLatest
  <2>4. QED
    BY <1>1, <2>1, <2>2, <2>3
<1>4. QED
  BY <1>2, <1>3

\* Storing e adds it to the stored events of its kind and subject only.
LEMMA StoredOfStep ==
  ASSUME NEW e \in Events, stored' = stored \cup {e}, NEW kind, NEW s
  PROVE  /\ e.kind = kind /\ e.subject = s =>
              StoredOf(kind, s)' = StoredOf(kind, s) \cup {e}
         /\ ~(e.kind = kind /\ e.subject = s) =>
              StoredOf(kind, s)' = StoredOf(kind, s)
BY DEF StoredOf

\* The row a device event leaves: upsertDevice changes what was seen only.
LEMMA UpsertDeviceStep ==
  ASSUME TablesOK, DeviceInv, NEW e \in Events, UpsertDevice(e)
  PROVE  /\ device' \in [Subjects -> DeviceRow]
         /\ DeviceInv'
         /\ \A s \in Subjects : device'[s].identity = device[s].identity
<1>1. e.subject \in Subjects
  BY DEF Subjects
<1>2. \A s \in Subjects : device[s] \in DeviceRow
  BY DEF TablesOK
<1>3. \A s \in Subjects :
        /\ device'[s].identity = device[s].identity
        /\ device'[s].observed = device[s].observed
        /\ device'[s].seen = IF s = e.subject THEN e ELSE device[s].seen
  BY <1>1, <1>2 DEF UpsertDevice, DeviceRow, TablesOK
<1>4. device' \in [Subjects -> DeviceRow]
  BY <1>1, <1>2 DEF UpsertDevice, DeviceRow, TablesOK
<1>5. e # NoEvent
  BY IngestionAssumption
<1>6. QED
  BY <1>3, <1>4, <1>5 DEF DeviceInv

\* The row device telemetry leaves: identity moves forward only.
LEMMA UpsertDeviceV2Step ==
  ASSUME TablesOK, DeviceInv, NEW e \in Events, UpsertDeviceV2(e)
  PROVE  /\ device' \in [Subjects -> DeviceRow]
         /\ DeviceInv'
         /\ \A s \in Subjects :
              device[s].identity # NoEvent =>
                /\ device'[s].identity # NoEvent
                /\ device[s].identity.at <= device'[s].identity.at
<1> DEFINE d == device[e.subject]
           take == d.seen = NoEvent \/ Newer(d.observed, e.at)
           row == [seen |-> IF take THEN e ELSE d.seen,
                   identity |-> IF take THEN e ELSE d.identity,
                   observed |-> Greatest(d.observed, e.at)]
<1>1. e.subject \in Subjects
  BY DEF Subjects
<1>2. d \in DeviceRow
  BY <1>1 DEF TablesOK
<1>3. e.at \in Nat /\ e # NoEvent /\ \A f \in Events : f.at \in Nat
  BY IngestionAssumption
<1>4. Greatest(d.observed, e.at) \in Nat /\ e.at <= Greatest(d.observed, e.at)
  BY <1>2, <1>3 DEF Greatest, DeviceRow, Null
<1>5. row \in DeviceRow
  BY <1>2, <1>3, <1>4 DEF DeviceRow
<1>6. device' = [device EXCEPT ![e.subject] = row]
  BY DEF UpsertDeviceV2
<1>7. device' \in [Subjects -> DeviceRow]
  <2> HIDE DEF row
  <2> QED BY <1>5, <1>6 DEF TablesOK
<1>8. /\ device'[e.subject] = row
      /\ \A s \in Subjects \ {e.subject} : device'[s] = device[s]
  <2> HIDE DEF row
  <2> QED BY <1>1, <1>6 DEF TablesOK
<1>9. d.identity # NoEvent =>
        /\ d.seen # NoEvent
        /\ d.observed # Null
        /\ d.identity.at <= d.observed
  BY <1>1 DEF DeviceInv
<1>10. d.identity \in Events \cup {NoEvent} /\ d.observed \in Nat \cup {Null}
  BY <1>2 DEF DeviceRow
<1>11. row.identity # NoEvent =>
         /\ row.seen # NoEvent
         /\ row.observed # Null
         /\ row.identity.at <= row.observed
  <2>1. CASE take
    BY <1>3, <1>4, <2>1 DEF Null
  <2>2. CASE ~take
    BY <1>3, <1>4, <1>9, <1>10, <2>2 DEF Null, Greatest
  <2>3. QED
    BY <2>1, <2>2
<1>12. d.identity # NoEvent =>
         row.identity # NoEvent /\ d.identity.at <= row.identity.at
  <2>1. CASE take
    BY <1>3, <1>9, <1>10, <2>1 DEF Newer, Null
  <2>2. CASE ~take
    BY <1>3, <1>10, <2>2
  <2>3. QED
    BY <2>1, <2>2
<1>13. DeviceInv'
  <2> HIDE DEF row
  <2> QED BY <1>8, <1>11 DEF DeviceInv
<1>14. \A s \in Subjects :
         device[s].identity # NoEvent =>
           /\ device'[s].identity # NoEvent
           /\ device[s].identity.at <= device'[s].identity.at
  <2> SUFFICES ASSUME NEW s \in Subjects, device[s].identity # NoEvent
               PROVE  /\ device'[s].identity # NoEvent
                      /\ device[s].identity.at <= device'[s].identity.at
    OBVIOUS
  <2>1. CASE s = e.subject
    <3> HIDE DEF row
    <3> QED BY <1>8, <1>12, <2>1
  <2>2. CASE s # e.subject
    <3>1. device[s].identity \in Events
      BY DEF TablesOK, DeviceRow
    <3>2. QED
      BY <1>3, <1>8, <2>2, <3>1
  <2>3. QED
    BY <2>1, <2>2
<1>15. QED
  BY <1>7, <1>13, <1>14

\* The row interface telemetry leaves is that of a newest observation.
LEMMA UpsertInterfaceV2Step ==
  ASSUME TablesOK, InterfaceInv, NEW e \in Events,
         e.kind = "interface_telemetry", stored' = stored \cup {e},
         UpsertInterfaceV2(e)
  PROVE  /\ iface' \in [Subjects -> IfaceRow]
         /\ InterfaceInv'
<1> DEFINE r == iface[e.subject]
           take == ~r.exists \/ Newer(r.observed, e.at)
           row == [meta |-> IF take THEN e ELSE r.meta,
                   observed |-> Greatest(r.observed, e.at),
                   exists |-> TRUE]
<1>1. e.subject \in Subjects
  BY DEF Subjects
<1>2. r \in IfaceRow
  BY <1>1 DEF TablesOK
<1>3. e.at \in Nat /\ e # NoEvent /\ \A f \in Events : f.at \in Nat
  BY IngestionAssumption
<1>4. /\ r.meta \in Events \cup {NoEvent}
      /\ r.observed \in Nat \cup {Null}
      /\ r.exists \in BOOLEAN
  BY <1>2 DEF IfaceRow
<1>5. Greatest(r.observed, e.at) \in Nat
  BY <1>3, <1>4 DEF Greatest, Null
<1>6. row \in IfaceRow
  BY <1>3, <1>4, <1>5 DEF IfaceRow
<1>7. iface' = [iface EXCEPT ![e.subject] = row]
  BY DEF UpsertInterfaceV2
<1>8. /\ iface' \in [Subjects -> IfaceRow]
      /\ iface'[e.subject] = row
      /\ \A s \in Subjects \ {e.subject} : iface'[s] = iface[s]
  <2> HIDE DEF row
  <2> QED BY <1>1, <1>6, <1>7 DEF TablesOK
<1>9. ~r.exists => r.meta = NoEvent /\ r.observed = Null
  BY <1>1 DEF InterfaceInv
<1>10. ASSUME NEW s \in Subjects
       PROVE  /\ StoredOf("v1_interface", s)' = StoredOf("v1_interface", s)
              /\ s # e.subject => StoredOf("interface_telemetry", s)' =
                                    StoredOf("interface_telemetry", s)
              /\ s = e.subject => StoredOf("interface_telemetry", s)' =
                                    StoredOf("interface_telemetry", s) \cup {e}
  BY StoredOfStep
<1>11. ASSUME StoredOf("v1_interface", e.subject) = {}
       PROVE  /\ IsLatest(row.meta, StoredOf("interface_telemetry", e.subject) \cup {e})
              /\ row.meta # NoEvent
              /\ row.observed = row.meta.at
  <2> DEFINE S == StoredOf("interface_telemetry", e.subject)
  <2>1. IsLatest(r.meta, S)
    BY <1>1, <1>11 DEF InterfaceInv, InterfaceIsLatest
  <2>2. r.exists => r.meta # NoEvent /\ r.observed = r.meta.at
    BY <1>1, <1>11 DEF InterfaceInv
  <2>3. S \in SUBSET Events
    BY DEF StoredOf, TablesOK
  <2>4. CASE take
    <3>1. r.meta = NoEvent \/ r.meta.at <= e.at
      BY <1>3, <1>4, <1>9, <2>2, <2>4 DEF Newer
    <3>2. row.meta = e /\ row.observed = e.at
      BY <1>3, <1>4, <1>9, <2>2, <2>4 DEF Newer, Greatest, Null
    <3>3. IsLatest(e, S \cup {e})
      <4> HIDE DEF S, r
      <4> QED BY <2>1, <2>3, <3>1, LatestExtended
    <3>4. QED
      BY <1>3, <3>2, <3>3
  <2>5. CASE ~take
    <3>1. r.meta \in Events /\ r.observed = r.meta.at /\ e.at <= r.meta.at
      BY <1>3, <1>4, <2>2, <2>5 DEF Newer, Null
    <3>2. row.meta = r.meta /\ row.observed = r.meta.at
      BY <1>3, <1>4, <2>5, <3>1 DEF Greatest, Null
    <3>3. IsLatest(r.meta, S \cup {e})
      <4>1. r.meta # NoEvent
        BY <3>1, IngestionAssumption
      <4> HIDE DEF S, r
      <4> QED BY <2>1, <2>3, <3>1, <4>1, LatestExtended
    <3>4. QED
      BY <3>1, <3>2, <3>3, IngestionAssumption
  <2>6. QED
    BY <2>4, <2>5
<1>12. row.exists = TRUE
  OBVIOUS
<1>13. InterfaceIsLatest'
  <2> SUFFICES ASSUME NEW s \in Subjects, StoredOf("v1_interface", s)' = {}
               PROVE  IsLatest(iface'[s].meta, StoredOf("interface_telemetry", s)')
    BY DEF InterfaceIsLatest, IsLatest
  <2> HIDE DEF row, r
  <2>1. CASE s = e.subject
    BY <1>8, <1>10, <1>11, <2>1
  <2>2. CASE s # e.subject
    BY <1>8, <1>10, <2>2 DEF InterfaceInv, InterfaceIsLatest
  <2>3. QED
    BY <2>1, <2>2
<1>14. ASSUME NEW s \in Subjects
       PROVE  /\ ~iface'[s].exists =>
                   iface'[s].meta = NoEvent /\ iface'[s].observed = Null
              /\ (StoredOf("v1_interface", s)' = {} /\ iface'[s].exists) =>
                   iface'[s].meta # NoEvent /\ iface'[s].observed = iface'[s].meta.at
  <2> HIDE DEF row, r
  <2>1. CASE s = e.subject
    BY <1>8, <1>10, <1>11, <1>12, <2>1
  <2>2. CASE s # e.subject
    BY <1>8, <1>10, <2>2 DEF InterfaceInv
  <2>3. QED
    BY <2>1, <2>2
<1>15. QED
  BY <1>8, <1>13, <1>14 DEF InterfaceInv

\* What is not an interface event leaves the interface rows as they are.
LEMMA InterfaceFrame ==
  ASSUME InterfaceInv, NEW e \in Events, stored' = stored \cup {e},
         e.kind \notin {"interface_telemetry", "v1_interface"},
         UNCHANGED iface
  PROVE  InterfaceInv'
<1>1. \A s : /\ StoredOf("v1_interface", s)' = StoredOf("v1_interface", s)
             /\ StoredOf("interface_telemetry", s)' =
                  StoredOf("interface_telemetry", s)
  BY StoredOfStep
<1>2. QED
  BY <1>1 DEF InterfaceInv, InterfaceIsLatest, IsLatest

\* A v1 sample makes the row exist and takes the subject out of the claim.
LEMMA UpsertInterfaceStep ==
  ASSUME TablesOK, InterfaceInv, NEW e \in Events, e.kind = "v1_interface",
         stored' = stored \cup {e}, UpsertInterface(e)
  PROVE  /\ iface' \in [Subjects -> IfaceRow]
         /\ InterfaceInv'
<1>1. e.subject \in Subjects
  BY DEF Subjects
<1>2. \A s \in Subjects : iface[s] \in IfaceRow
  BY DEF TablesOK
<1>3. iface' \in [Subjects -> IfaceRow]
  BY <1>1, <1>2 DEF UpsertInterface, IfaceRow, TablesOK
<1>4. iface'[e.subject].exists = TRUE
  BY <1>1, <1>2 DEF UpsertInterface, IfaceRow, TablesOK
<1>5. \A s \in Subjects \ {e.subject} : iface'[s] = iface[s]
  BY <1>1 DEF UpsertInterface, TablesOK
<1>6. e \in StoredOf("v1_interface", e.subject)'
  BY DEF StoredOf
<1>7. ASSUME NEW s \in Subjects \ {e.subject}
      PROVE  /\ StoredOf("v1_interface", s)' = StoredOf("v1_interface", s)
             /\ StoredOf("interface_telemetry", s)' =
                  StoredOf("interface_telemetry", s)
  BY StoredOfStep
<1>8. InterfaceIsLatest'
  <2> SUFFICES ASSUME NEW s \in Subjects, StoredOf("v1_interface", s)' = {}
               PROVE  IsLatest(iface'[s].meta, StoredOf("interface_telemetry", s)')
    BY DEF InterfaceIsLatest, IsLatest
  <2>1. s # e.subject
    BY <1>6
  <2>2. QED
    BY <1>5, <1>7, <2>1 DEF InterfaceInv, InterfaceIsLatest
<1>9. QED
  BY <1>3, <1>4, <1>5, <1>6, <1>7, <1>8 DEF InterfaceInv

\* device_health_current after a health event.
LEMMA UpsertHealthStep ==
  ASSUME TablesOK, HealthIsLatest, NEW e \in Events, e.kind = "health_state",
         stored' = stored \cup {e}, UpsertHealth(e)
  PROVE  /\ health' \in [Subjects -> Events \cup {NoEvent}]
         /\ HealthIsLatest'
<1>1. e.subject \in Subjects
  BY DEF Subjects
<1>2. e.at \in Nat /\ e # NoEvent /\ \A f \in Events : f.at \in Nat
  BY IngestionAssumption
<1>3. /\ health' \in [Subjects -> Events \cup {NoEvent}]
      /\ \A s \in Subjects \ {e.subject} : health'[s] = health[s]
  BY <1>1 DEF UpsertHealth, TablesOK
<1>4. health[e.subject] \in Events \cup {NoEvent}
  BY <1>1 DEF TablesOK
<1>5. \/ /\ health'[e.subject] = e
         /\ health[e.subject] = NoEvent \/ health[e.subject].at <= e.at
      \/ /\ health'[e.subject] = health[e.subject]
         /\ health[e.subject] # NoEvent
         /\ e.at <= health[e.subject].at
  BY <1>1, <1>2, <1>4 DEF UpsertHealth, TablesOK
<1>6. StoredOf("health_state", e.subject) \in SUBSET Events
  BY DEF StoredOf, TablesOK
<1>7. IsLatest(health'[e.subject], StoredOf("health_state", e.subject) \cup {e})
  BY <1>1, <1>5, <1>6, LatestExtended DEF HealthIsLatest
<1>8. ASSUME NEW s \in Subjects
      PROVE  IsLatest(health'[s], StoredOf("health_state", s)')
  <2>1. CASE s = e.subject
    BY <1>7, <2>1, StoredOfStep
  <2>2. CASE s # e.subject
    <3>1. StoredOf("health_state", s)' = StoredOf("health_state", s)
      BY <2>2, StoredOfStep
    <3>2. QED
      BY <1>3, <2>2, <3>1 DEF HealthIsLatest
  <2>3. QED
    BY <2>1, <2>2
<1>9. QED
  BY <1>3, <1>8 DEF HealthIsLatest, IsLatest

\* collector_status_current after a heartbeat.
LEMMA UpsertStatusStep ==
  ASSUME TablesOK, StatusIsLatest, NEW e \in Events,
         e.kind = "collector_heartbeat",
         stored' = stored \cup {e}, UpsertStatus(e)
  PROVE  /\ status' \in [Subjects -> Events \cup {NoEvent}]
         /\ StatusIsLatest'
<1>1. e.subject \in Subjects
  BY DEF Subjects
<1>2. e.at \in Nat /\ e # NoEvent /\ \A f \in Events : f.at \in Nat
  BY IngestionAssumption
<1>3. /\ status' \in [Subjects -> Events \cup {NoEvent}]
      /\ \A s \in Subjects \ {e.subject} : status'[s] = status[s]
  BY <1>1 DEF UpsertStatus, TablesOK
<1>4. status[e.subject] \in Events \cup {NoEvent}
  BY <1>1 DEF TablesOK
<1>5. \/ /\ status'[e.subject] = e
         /\ status[e.subject] = NoEvent \/ status[e.subject].at <= e.at
      \/ /\ status'[e.subject] = status[e.subject]
         /\ status[e.subject] # NoEvent
         /\ e.at <= status[e.subject].at
  BY <1>1, <1>2, <1>4 DEF UpsertStatus, TablesOK
<1>6. StoredOf("collector_heartbeat", e.subject) \in SUBSET Events
  BY DEF StoredOf, TablesOK
<1>7. IsLatest(status'[e.subject],
               StoredOf("collector_heartbeat", e.subject) \cup {e})
  BY <1>1, <1>5, <1>6, LatestExtended DEF StatusIsLatest
<1>8. ASSUME NEW s \in Subjects
      PROVE  IsLatest(status'[s], StoredOf("collector_heartbeat", s)')
  <2>1. CASE s = e.subject
    BY <1>7, <2>1, StoredOfStep
  <2>2. CASE s # e.subject
    <3>1. StoredOf("collector_heartbeat", s)' = StoredOf("collector_heartbeat", s)
      BY <2>2, StoredOfStep
    <3>2. QED
      BY <1>3, <2>2, <3>1 DEF StatusIsLatest
  <2>3. QED
    BY <2>1, <2>2
<1>9. QED
  BY <1>3, <1>8 DEF StatusIsLatest, IsLatest

\* A current-state table that e does not write is still a newest one.
LEMMA LatestFrame ==
  ASSUME NEW e \in Events, stored' = stored \cup {e}
  PROVE  /\ HealthIsLatest /\ UNCHANGED health /\ e.kind # "health_state" =>
              HealthIsLatest'
         /\ StatusIsLatest /\ UNCHANGED status /\ e.kind # "collector_heartbeat" =>
              StatusIsLatest'
<1>1. e.kind # "health_state" =>
        \A s : StoredOf("health_state", s)' = StoredOf("health_state", s)
  BY StoredOfStep
<1>2. e.kind # "collector_heartbeat" =>
        \A s : StoredOf("collector_heartbeat", s)' = StoredOf("collector_heartbeat", s)
  BY StoredOfStep
<1>3. QED
  BY <1>1, <1>2 DEF HealthIsLatest, StatusIsLatest, IsLatest

\* A sample's natural key is a key.
LEMMA SampleStep ==
  ASSUME TablesOK, NEW e \in Events, InsertSample(e)
  PROVE  samples' \subseteq Keys
<1>1. TableOf(e) \in {"metric", "interface"}
  BY DEF TableOf
<1>2. e.subject \in Subjects /\ e.at \in {f.at : f \in Events}
  BY DEF Subjects
<1>3. <<TableOf(e), e.subject, e.at>> \in Keys
  BY <1>1, <1>2 DEF Keys
<1>4. QED
  BY <1>3 DEF InsertSample, TablesOK

\* The transaction of a v2 event keeps every table invariant, and never moves
\* the identity of a device back.
LEMMA ApplyStep ==
  ASSUME DataInv, NEW e \in Events, Apply(e), UNCHANGED cutoff, UNCHANGED target
  PROVE  /\ DataInv'
         /\ e \in stored' /\ stored \subseteq stored'
         /\ \A s \in Subjects :
              device[s].identity # NoEvent =>
                /\ device'[s].identity # NoEvent
                /\ device[s].identity.at <= device'[s].identity.at
<1> USE DEF DataInv
<1>1. stored' = stored \cup {e} /\ ledger' = ledger \cup {e}
  BY DEF Apply
<1>2. e \notin ledger
  BY DEF Apply, Duplicate
<1>3. /\ twice' \subseteq twice \cup {e} /\ (e \in twice' => e \in twice \/ e \in stored)
      /\ late \subseteq late' /\ late' \subseteq late \cup {e}
      /\ (e.at < cutoff => e \in late')
  BY DEF Apply
<1>4. /\ healthLog' \subseteq healthLog \cup {e}
      /\ beatLog' \subseteq beatLog \cup {e}
  BY DEF Apply, PersistDeviceTelemetry, PersistInterfaceTelemetry, PersistHealth,
         PersistHeartbeat
<1>5. e.kind \in {"device_telemetry", "interface_telemetry", "health_state",
                  "collector_heartbeat"}
  BY DEF Apply, PersistDeviceTelemetry, PersistInterfaceTelemetry, PersistHealth,
         PersistHeartbeat
<1>6. LedgerInv'
  <2>1. (ledger \cup healthLog \cup beatLog)' \subseteq stored'
    BY <1>1, <1>4 DEF LedgerInv
  <2>2. \A f \in stored' : \/ f.kind \in {"v1_device", "v1_interface"}
                           \/ f \in ledger' \/ f.at < cutoff'
    BY <1>1 DEF LedgerInv
  <2>3. e \in stored => e.at < cutoff
    BY <1>2, <1>5 DEF LedgerInv
  <2>4. AppliedOnceInWindow'
    BY <1>3, <2>3 DEF LedgerInv, AppliedOnceInWindow
  <2>5. QED
    BY <2>1, <2>2, <2>4 DEF LedgerInv
<1>7. PrunedInv'
  <2>1. HistoryKeepsLedger'
    BY <1>1, <1>3, <1>4 DEF PrunedInv, HistoryKeepsLedger
  <2>2. QED
    BY <2>1, <1>3, <1>4 DEF PrunedInv
<1>8. /\ ledger' \subseteq Events /\ healthLog' \subseteq Events
      /\ beatLog' \subseteq Events /\ stored' \subseteq Events
      /\ twice' \subseteq Events /\ late' \subseteq Events
  BY <1>1, <1>3, <1>4 DEF TablesOK
<1> DEFINE Forward ==
      \A s \in Subjects :
        device[s].identity # NoEvent =>
          /\ device'[s].identity # NoEvent
          /\ device[s].identity.at <= device'[s].identity.at
<1>9. \A s \in Subjects : device[s].identity # NoEvent =>
        device[s].identity \in Events /\ device[s].identity.at \in Nat
  BY IngestionAssumption DEF TablesOK, DeviceRow
<1>10. CASE PersistDeviceTelemetry(e)
  <2>1. samples' \subseteq Keys
    BY <1>10, SampleStep DEF PersistDeviceTelemetry
  <2>2. device' \in [Subjects -> DeviceRow] /\ DeviceInv' /\ Forward
    BY <1>10, UpsertDeviceV2Step DEF PersistDeviceTelemetry
  <2>3. InterfaceInv'
    BY <1>1, <1>10, InterfaceFrame DEF PersistDeviceTelemetry
  <2>4. HealthIsLatest' /\ StatusIsLatest'
    BY <1>1, <1>10, LatestFrame DEF PersistDeviceTelemetry
  <2>5. TablesOK'
    BY <1>8, <1>10, <2>1, <2>2 DEF PersistDeviceTelemetry, TablesOK
  <2>6. QED
    BY <1>1, <1>6, <1>7, <2>2, <2>3, <2>4, <2>5
<1>11. CASE PersistInterfaceTelemetry(e)
  <2>1. samples' \subseteq Keys
    BY <1>11, SampleStep DEF PersistInterfaceTelemetry
  <2>2. device' \in [Subjects -> DeviceRow] /\ DeviceInv'
    BY <1>11, UpsertDeviceStep DEF PersistInterfaceTelemetry
  <2>3. Forward
    BY <1>9, <1>11, UpsertDeviceStep DEF PersistInterfaceTelemetry
  <2>4. iface' \in [Subjects -> IfaceRow] /\ InterfaceInv'
    BY <1>1, <1>11, UpsertInterfaceV2Step DEF PersistInterfaceTelemetry
  <2>5. HealthIsLatest' /\ StatusIsLatest'
    BY <1>1, <1>11, LatestFrame DEF PersistInterfaceTelemetry
  <2>6. TablesOK'
    BY <1>8, <1>11, <2>1, <2>2, <2>4 DEF PersistInterfaceTelemetry, TablesOK
  <2>7. QED
    BY <1>1, <1>6, <1>7, <2>2, <2>3, <2>4, <2>5, <2>6
<1>12. CASE PersistHealth(e)
  <2>1. device' \in [Subjects -> DeviceRow] /\ DeviceInv'
    BY <1>12, UpsertDeviceStep DEF PersistHealth
  <2>2. Forward
    BY <1>9, <1>12, UpsertDeviceStep DEF PersistHealth
  <2>3. health' \in [Subjects -> Events \cup {NoEvent}] /\ HealthIsLatest'
    BY <1>1, <1>12, UpsertHealthStep DEF PersistHealth
  <2>4. InterfaceInv'
    BY <1>1, <1>12, InterfaceFrame DEF PersistHealth
  <2>5. StatusIsLatest'
    BY <1>1, <1>12, LatestFrame DEF PersistHealth
  <2>6. TablesOK'
    BY <1>8, <1>12, <2>1, <2>3 DEF PersistHealth, TablesOK
  <2>7. QED
    BY <1>1, <1>6, <1>7, <2>1, <2>2, <2>3, <2>4, <2>5, <2>6
<1>13. CASE PersistHeartbeat(e)
  <2>1. DeviceInv' /\ Forward
    BY <1>9, <1>13 DEF PersistHeartbeat, DeviceInv
  <2>2. status' \in [Subjects -> Events \cup {NoEvent}] /\ StatusIsLatest'
    BY <1>1, <1>13, UpsertStatusStep DEF PersistHeartbeat
  <2>3. InterfaceInv'
    BY <1>1, <1>13, InterfaceFrame DEF PersistHeartbeat
  <2>4. HealthIsLatest'
    BY <1>1, <1>13, LatestFrame DEF PersistHeartbeat
  <2>5. TablesOK'
    BY <1>8, <1>13, <2>2 DEF PersistHeartbeat, TablesOK
  <2>6. QED
    BY <1>1, <1>6, <1>7, <2>1, <2>2, <2>3, <2>4, <2>5
<1>14. QED
  BY <1>10, <1>11, <1>12, <1>13 DEF Apply

\* The transaction of a v1 sample does the same.
LEMMA PersistV1Step ==
  ASSUME DataInv, NEW e \in Events, PersistV1(e), UNCHANGED cutoff, UNCHANGED target
  PROVE  /\ DataInv'
         /\ e \in stored' /\ stored \subseteq stored'
         /\ \A s \in Subjects : device'[s].identity = device[s].identity
<1> USE DEF DataInv
<1>1. stored' = stored \cup {e} /\ e.kind \in {"v1_device", "v1_interface"}
  BY DEF PersistV1
<1>2. /\ device' \in [Subjects -> DeviceRow] /\ DeviceInv'
      /\ \A s \in Subjects : device'[s].identity = device[s].identity
  BY UpsertDeviceStep DEF PersistV1
<1>3. samples' \subseteq Keys
  BY SampleStep DEF PersistV1
<1>4. iface' \in [Subjects -> IfaceRow] /\ InterfaceInv'
  <2>1. CASE e.kind = "v1_device"
    <3>1. UNCHANGED iface
      BY <2>1 DEF PersistV1
    <3>2. InterfaceInv'
      BY <1>1, <2>1, <3>1, InterfaceFrame
    <3>3. QED
      BY <3>1, <3>2 DEF TablesOK
  <2>2. CASE e.kind = "v1_interface"
    <3>1. UpsertInterface(e)
      BY <2>2 DEF PersistV1
    <3>2. QED
      BY <1>1, <2>2, <3>1, UpsertInterfaceStep
  <2>3. QED
    BY <1>1, <2>1, <2>2
<1>5. HealthIsLatest' /\ StatusIsLatest'
  BY <1>1, LatestFrame DEF PersistV1
<1>6. UNCHANGED <<ledger, healthLog, beatLog, health, status, twice, late>>
  BY DEF PersistV1
<1>7. LedgerInv' /\ PrunedInv'
  BY <1>1, <1>6 DEF LedgerInv, PrunedInv, AppliedOnceInWindow, HistoryKeepsLedger
<1>8. TablesOK'
  BY <1>1, <1>2, <1>3, <1>4, <1>6 DEF TablesOK
<1>9. QED
  BY <1>1, <1>2, <1>4, <1>5, <1>7, <1>8

\* Nothing the tables' invariants speak of changes.
LEMMA DataFrame ==
  ASSUME DataInv, UNCHANGED tableVars,
         cutoff \in Int, cutoff' \in Int, cutoff <= cutoff',
         target' # 0 => UNCHANGED <<target, cutoff>> \/ target' = 1,
         target' \in 0 .. 4
  PROVE  DataInv'
<1> USE DEF DataInv, tableVars
<1>1. TablesOK'
  BY DEF TablesOK
<1>2. HealthIsLatest' /\ StatusIsLatest'
  BY DEF HealthIsLatest, StatusIsLatest, IsLatest, StoredOf
<1>3. DeviceInv'
  BY DEF DeviceInv
<1>4. InterfaceInv'
  BY DEF InterfaceInv, InterfaceIsLatest, IsLatest, StoredOf
<1>5. \A f \in Events : f.at \in Nat
  BY IngestionAssumption
<1>6. LedgerInv'
  BY <1>5 DEF LedgerInv, AppliedOnceInWindow, TablesOK
<1>7. PrunedInv'
  BY DEF PrunedInv, HistoryKeepsLedger
<1>8. QED
  BY <1>1, <1>2, <1>3, <1>4, <1>6, <1>7

-----------------------------------------------------------------------------
(***************************************************************************)
(* The session and the handler.                                            *)
(***************************************************************************)

\* The broker accepts a message: it holds it.
LEMMA PublishStep ==
  ASSUME IInv, NEW e \in Events, Publish(e)
  PROVE  IInv'
<1>1. SessionInv /\ DataInv /\ RetentionOK
  BY Parts
<1>2. /\ log' = Append(log, e) /\ unacked' = unacked \cup {Len(log) + 1}
      /\ UNCHANGED <<cursor, up, pc, cur, fresh>>
      /\ UNCHANGED <<tableVars, target, cutoff, now>>
  BY DEF Publish, jobVars, pruneVars
<1>3. /\ log \in Seq(Events) /\ Len(log) \in Nat
      /\ log' \in Seq(Events) /\ Len(log') = Len(log) + 1
      /\ \A i \in 1 .. Len(log) : log'[i] = log[i]
  BY <1>1, <1>2 DEF SessionInv
<1>4. stored' = stored
  BY <1>2 DEF tableVars
<1>5. AckInv'
  <2>1. NoLoss'
    BY <1>1, <1>2, <1>3, <1>4 DEF SessionInv, AckInv, NoLoss, Settled
  <2>2. pc' = "ack" => Settled(log[cur])'
    <3> SUFFICES ASSUME pc' = "ack" PROVE Settled(log[cur])'
      OBVIOUS
    <3>1. cur \in 1 .. Len(log) /\ Settled(log[cur])
      BY <1>1, <1>2, <1>3 DEF SessionInv, AckInv
    <3>2. QED
      BY <1>2, <1>3, <1>4, <3>1 DEF Settled
  <2>3. QED
    BY <2>1, <2>2 DEF AckInv
<1>6. SessionInv'
  <2>1. up' \in BOOLEAN /\ fresh' \in BOOLEAN
    BY <1>1, <1>2 DEF SessionInv
  <2>2. unacked' \subseteq 1 .. Len(log')
    <3>1. unacked \subseteq 1 .. Len(log)
      BY <1>1 DEF SessionInv
    <3>2. 1 .. Len(log) \subseteq 1 .. Len(log')
      BY <1>3
    <3>3. Len(log) + 1 \in 1 .. Len(log')
      BY <1>3
    <3>4. QED
      BY <1>2, <3>1, <3>2, <3>3
  <2>3. cursor' \in 0 .. Len(log') /\ cur' \in 0 .. Len(log')
    BY <1>1, <1>2, <1>3 DEF SessionInv
  <2>4. pc' \in {"idle", "persist", "ack"} /\ (pc' # "idle" => cur' # 0)
    BY <1>1, <1>2 DEF SessionInv
  <2>5. QED
    BY <1>3, <1>5, <2>1, <2>2, <2>3, <2>4 DEF SessionInv
<1>7. RetentionOK'
  BY <1>1, <1>2 DEF RetentionOK
<1>8. DataInv'
  BY <1>1, <1>2, DataFrame DEF RetentionOK
<1>9. QED
  BY <1>6, <1>7, <1>8, Parts

\* The steps of the connection and of the handler that leave log and tables
\* alone, and free no message that is not settled.
LEMMA SessionStep ==
  ASSUME IInv, UNCHANGED <<log, tableVars, cutoff, now>>,
         target' = target \/ target' = 0,
         unacked' \subseteq unacked,
         \A i \in unacked : i \notin unacked' => Settled(log[i]),
         cursor' \in 0 .. Len(log), up' \in BOOLEAN, fresh' \in BOOLEAN,
         pc' \in {"idle", "persist", "ack"}, cur' \in 0 .. Len(log),
         pc' # "idle" => cur' # 0,
         pc' = "ack" => Settled(log[cur'])
  PROVE  IInv'
<1>1. SessionInv /\ DataInv /\ RetentionOK
  BY Parts
<1>2. stored' = stored /\ log' = log
  BY DEF tableVars
<1>3. AckInv'
  BY <1>1, <1>2 DEF SessionInv, AckInv, NoLoss, Settled
<1>4. SessionInv'
  <2>1. log' \in Seq(Events) /\ unacked' \subseteq 1 .. Len(log')
    BY <1>1 DEF SessionInv
  <2>2. cursor' \in 0 .. Len(log') /\ cur' \in 0 .. Len(log')
    BY <1>2
  <2>3. QED
    BY <1>3, <2>1, <2>2 DEF SessionInv
<1>5. RetentionOK'
  BY <1>1 DEF RetentionOK
<1>6. DataInv'
  BY <1>1, <1>5, DataFrame DEF RetentionOK
<1>7. QED
  BY <1>4, <1>5, <1>6, Parts

\* Handle's transaction, committed: what it decides to acknowledge is stored.
LEMMA CommitStep ==
  ASSUME IInv, NEW e \in Events, Handling(e), DataInv',
         e \in stored', stored \subseteq stored', pc' \in {"idle", "ack"},
         UNCHANGED <<brokerVars, cur, fresh, pruneVars, now>>
  PROVE  IInv'
<1>1. SessionInv /\ DataInv /\ RetentionOK
  BY Parts
<1>2. log' = log /\ unacked' = unacked /\ cursor' = cursor /\ up' = up
      /\ cur' = cur /\ fresh' = fresh
  BY DEF brokerVars
<1>3. cur \in 1 .. Len(log) /\ log[cur] = e
  BY <1>1 DEF SessionInv, Handling
<1>4. NoLoss'
  BY <1>1, <1>2 DEF SessionInv, AckInv, NoLoss, Settled
<1>5. AckInv'
  BY <1>2, <1>3, <1>4 DEF AckInv, Settled
<1>6. SessionInv'
  <2>1. up' \in BOOLEAN /\ fresh' \in BOOLEAN
    BY <1>1, <1>2 DEF SessionInv
  <2>2. pc' # "idle" => cur' # 0
    BY <1>2, <1>3
  <2>3. QED
    BY <1>1, <1>2, <1>5, <2>1, <2>2 DEF SessionInv
<1>7. RetentionOK'
  BY <1>1 DEF RetentionOK, pruneVars
<1>8. QED
  BY <1>6, <1>7, Parts

\* Persist: applied, stored as v1, or known from the ledger.
LEMMA PersistStep ==
  ASSUME IInv, NEW e \in Events, Persist(e)
  PROVE  IInv'
<1>1. DataInv /\ UNCHANGED cutoff /\ UNCHANGED target
  BY Parts DEF Persist, pruneVars
<1>2. Handling(e) /\ pc' \in {"idle", "ack"}
      /\ UNCHANGED <<brokerVars, cur, fresh, pruneVars, now>>
  BY DEF Persist
<1>3. CASE Apply(e)
  BY <1>1, <1>2, <1>3, ApplyStep, CommitStep
<1>4. CASE PersistV1(e)
  BY <1>1, <1>2, <1>4, PersistV1Step, CommitStep
<1>5. CASE Duplicate(e) /\ UNCHANGED tableVars
  <2>1. e \in stored' /\ stored \subseteq stored'
    BY <1>1, <1>5 DEF Duplicate, DataInv, LedgerInv, tableVars
  <2>2. DataInv'
    BY <1>1, <1>5, Parts, DataFrame DEF RetentionOK
  <2>3. QED
    BY <1>2, <2>1, <2>2, CommitStep
<1>6. QED
  BY <1>3, <1>4, <1>5 DEF Persist

\* PersistFails: rolled back, or committed without an answer.
LEMMA PersistFailsStep ==
  ASSUME IInv, NEW e \in Events, PersistFails(e)
  PROVE  IInv'
<1>1. SessionInv /\ DataInv /\ UNCHANGED cutoff /\ UNCHANGED target
  BY Parts DEF PersistFails, pruneVars
<1>2. Handling(e) /\ pc' = "idle"
      /\ UNCHANGED <<brokerVars, cur, fresh, pruneVars, now>>
  BY DEF PersistFails
<1>3. CASE Apply(e)
  BY <1>1, <1>2, <1>3, ApplyStep, CommitStep
<1>4. CASE PersistV1(e)
  BY <1>1, <1>2, <1>4, PersistV1Step, CommitStep
<1>5. CASE UNCHANGED tableVars
  <2>1. up' \in BOOLEAN /\ fresh' \in BOOLEAN
    BY <1>1, <1>2 DEF SessionInv, brokerVars
  <2>2. /\ UNCHANGED <<log, tableVars, cutoff, now>> /\ target' = target
        /\ unacked' = unacked /\ cursor' \in 0 .. Len(log)
        /\ cur' \in 0 .. Len(log)
    BY <1>1, <1>2, <1>5 DEF SessionInv, brokerVars
  <2>3. QED
    BY <1>2, <2>1, <2>2, SessionStep
<1>6. QED
  BY <1>3, <1>4, <1>5 DEF PersistFails

-----------------------------------------------------------------------------
(***************************************************************************)
(* Retention.                                                              *)
(***************************************************************************)

\* Which table a run is at.
LEMMA TargetFacts ==
  ASSUME target \in 0 .. 4, target # 0
  PROVE  /\ Len(Targets) = 4
         /\ target' = (target + 1) % (Len(Targets) + 1) =>
              target' = IF target = 4 THEN 0 ELSE target + 1
         /\ Targets[target] = "samples" => target = 1
         /\ Targets[target] = "device_health_history" => target = 2
         /\ Targets[target] = "collector_heartbeat_history" => target = 3
         /\ Targets[target] = "ingested_events" => target = 4
<1>1. Len(Targets) = 4
  BY DEF Targets
<1>2. target = 1 \/ target = 2 \/ target = 3 \/ target = 4
  OBVIOUS
<1>3. /\ Targets[1] = "samples"
      /\ Targets[2] = "device_health_history"
      /\ Targets[3] = "collector_heartbeat_history"
      /\ Targets[4] = "ingested_events"
  BY DEF Targets
<1>4. target' = (target + 1) % (Len(Targets) + 1) =>
        target' = IF target = 4 THEN 0 ELSE target + 1
  BY <1>1, <1>2
<1>5. QED
  BY <1>1, <1>2, <1>3, <1>4

\* A prune step changes its table, and where the run is, and nothing else.
LEMMA PruneStepKeeps ==
  ASSUME IInv,
         target # 0,
         UNCHANGED <<brokerVars, jobVars, health, status, device, iface, stored,
                     twice, late, cutoff, now>>,
         target' \in 0 .. 4,
         samples' \subseteq samples,
         healthLog' \subseteq healthLog,
         beatLog' \subseteq beatLog,
         ledger' \subseteq ledger,
         \A e \in ledger \ ledger' : e.at < cutoff,
         PrunedInv'
  PROVE  IInv'
<1>1. SessionInv /\ DataInv /\ RetentionOK
  BY Parts
<1>2. SessionInv'
  BY <1>1 DEF SessionInv, AckInv, NoLoss, Settled, brokerVars, jobVars
<1>3. RetentionOK'
  BY <1>1 DEF RetentionOK
<1>4. TablesOK'
  BY <1>1 DEF DataInv, TablesOK
<1>5. LedgerInv'
  BY <1>1 DEF DataInv, LedgerInv, AppliedOnceInWindow
<1>6. HealthIsLatest' /\ StatusIsLatest'
  BY <1>1 DEF DataInv, HealthIsLatest, StatusIsLatest, IsLatest, StoredOf
<1>7. DeviceInv' /\ InterfaceInv'
  BY <1>1 DEF DataInv, DeviceInv, InterfaceInv, InterfaceIsLatest, IsLatest, StoredOf
<1>8. QED
  BY <1>2, <1>3, <1>4, <1>5, <1>6, <1>7, Parts DEF DataInv

\* One DELETE: the order of Targets is what keeps PrunedInv.
LEMMA PruneInvStep ==
  ASSUME IInv, PruneStep
  PROVE  IInv'
<1>1. SessionInv /\ DataInv /\ RetentionOK
  BY Parts
<1>2. target \in 0 .. 4 /\ PrunedInv
  BY <1>1 DEF RetentionOK, DataInv
<1>3. CASE PruneSamples
  <2>1. PICK S \in SUBSET ExpiredKeys :
          /\ Prune("samples", ExpiredKeys, S)
          /\ samples' = samples \ S
          /\ UNCHANGED <<ledger, healthLog, beatLog>>
    BY <1>3 DEF PruneSamples
  <2>2. /\ target = 1 /\ target' \in {1, 2}
        /\ UNCHANGED <<brokerVars, jobVars, health, status, device, iface, stored,
                       twice, late, cutoff, now>>
    BY <1>2, <2>1, TargetFacts DEF Prune
  <2>3. PrunedInv'
    BY <1>2, <2>1, <2>2 DEF PrunedInv, HistoryKeepsLedger
  <2>4. QED
    BY <2>1, <2>2, <2>3, PruneStepKeeps
<1>4. CASE PruneHealth
  <2>1. PICK S \in SUBSET Expired(healthLog) :
          /\ Prune("device_health_history", Expired(healthLog), S)
          /\ healthLog' = healthLog \ S
          /\ UNCHANGED <<ledger, samples, beatLog>>
    BY <1>4 DEF PruneHealth
  <2>2. /\ target = 2 /\ target' \in {2, 3}
        /\ target' = 3 => S = Expired(healthLog)
        /\ UNCHANGED <<brokerVars, jobVars, health, status, device, iface, stored,
                       twice, late, cutoff, now>>
    BY <1>2, <2>1, TargetFacts DEF Prune
  <2>3. PrunedInv'
    BY <1>2, <2>1, <2>2 DEF PrunedInv, HistoryKeepsLedger, Expired
  <2>4. QED
    BY <2>1, <2>2, <2>3, PruneStepKeeps
<1>5. CASE PruneBeats
  <2>1. PICK S \in SUBSET Expired(beatLog) :
          /\ Prune("collector_heartbeat_history", Expired(beatLog), S)
          /\ beatLog' = beatLog \ S
          /\ UNCHANGED <<ledger, samples, healthLog>>
    BY <1>5 DEF PruneBeats
  <2>2. /\ target = 3 /\ target' \in {3, 4}
        /\ target' = 4 => S = Expired(beatLog)
        /\ UNCHANGED <<brokerVars, jobVars, health, status, device, iface, stored,
                       twice, late, cutoff, now>>
    BY <1>2, <2>1, TargetFacts DEF Prune
  <2>3. PrunedInv'
    BY <1>2, <2>1, <2>2 DEF PrunedInv, HistoryKeepsLedger, Expired
  <2>4. QED
    BY <2>1, <2>2, <2>3, PruneStepKeeps
<1>6. CASE PruneLedger
  <2>1. PICK S \in SUBSET Expired(ledger) :
          /\ Prune("ingested_events", Expired(ledger), S)
          /\ ledger' = ledger \ S
          /\ UNCHANGED <<healthLog, samples, beatLog>>
    BY <1>6 DEF PruneLedger
  <2>2. /\ target = 4 /\ target' \in {4, 0}
        /\ UNCHANGED <<brokerVars, jobVars, health, status, device, iface, stored,
                       twice, late, cutoff, now>>
    BY <1>2, <2>1, TargetFacts DEF Prune
  <2>3. \A e \in ledger \ ledger' : e.at < cutoff
    BY <2>1 DEF Expired
  <2>4. HistoryKeepsLedger'
    BY <1>2, <2>1, <2>2, <2>3 DEF PrunedInv, HistoryKeepsLedger
  <2>5. PrunedInv'
    BY <1>2, <2>1, <2>2, <2>4 DEF PrunedInv
  <2>6. QED
    BY <2>1, <2>2, <2>3, <2>5, PruneStepKeeps
<1>7. QED
  BY <1>3, <1>4, <1>5, <1>6 DEF PruneStep

\* A run starts, and the clock moves.
LEMMA ClockStep ==
  ASSUME IInv, StartRun \/ Tick
  PROVE  IInv'
<1>1. SessionInv /\ DataInv /\ RetentionOK
  BY Parts
<1>2. UNCHANGED <<brokerVars, jobVars, tableVars>>
  BY DEF StartRun, Tick
<1>3. SessionInv'
  BY <1>1, <1>2 DEF SessionInv, AckInv, NoLoss, Settled, brokerVars, jobVars, tableVars
<1>4. /\ RetentionOK' /\ cutoff <= cutoff'
      /\ target' = 1 \/ UNCHANGED <<target, cutoff>>
  BY <1>1, IngestionAssumption DEF StartRun, Tick, RetentionOK, pruneVars
<1>5. DataInv'
  BY <1>1, <1>2, <1>4, DataFrame DEF RetentionOK
<1>6. QED
  BY <1>3, <1>4, <1>5, Parts

-----------------------------------------------------------------------------
(***************************************************************************)
(* Every step, and the theorems.                                           *)
(***************************************************************************)

\* Steps that change neither log nor tables.
LEMMA QuietStep ==
  ASSUME IInv,
         \/ Connect
         \/ Disconnect
         \/ Restart
         \/ \E i \in unacked : Receive(i)
         \/ \E e \in Events : Reject(e)
         \/ Ack
         \/ AckLost
         \/ PruneFails
  PROVE  IInv'
<1> USE DEF brokerVars, jobVars, pruneVars
<1>1. SessionInv
  BY Parts
<1>2. /\ up \in BOOLEAN /\ fresh \in BOOLEAN
      /\ pc \in {"idle", "persist", "ack"}
      /\ pc = "ack" => Settled(log[cur])
  BY <1>1 DEF SessionInv, AckInv
<1>3. /\ Len(log) \in Nat /\ cursor \in 0 .. Len(log) /\ cur \in 0 .. Len(log)
      /\ unacked \subseteq 1 .. Len(log)
      /\ pc # "idle" => cur # 0
  BY <1>1 DEF SessionInv
<1>4. CASE Connect
  <2>1. UNCHANGED <<log, unacked, pc, cur, fresh, tableVars, target, cutoff, now>>
    BY <1>4 DEF Connect
  <2>2. up' \in BOOLEAN /\ cursor' \in 0 .. Len(log)
    BY <1>3, <1>4 DEF Connect
  <2>3. QED
    BY <1>2, <1>3, <2>1, <2>2, SessionStep
<1>5. CASE Disconnect
  <2>1. UNCHANGED <<log, unacked, cursor, pc, cur, tableVars, target, cutoff, now>>
    BY <1>5 DEF Disconnect
  <2>2. up' \in BOOLEAN /\ fresh' \in BOOLEAN
    BY <1>5 DEF Disconnect
  <2>3. QED
    BY <1>2, <1>3, <2>1, <2>2, SessionStep
<1>6. CASE Restart
  <2>1. /\ UNCHANGED <<log, unacked, cursor, tableVars, cutoff, now>>
        /\ target' = 0 /\ pc' = "idle" /\ cur' = 0
    BY <1>6 DEF Restart
  <2>2. up' \in BOOLEAN /\ fresh' \in BOOLEAN
    BY <1>6 DEF Restart
  <2>3. QED
    BY <1>2, <1>3, <2>1, <2>2, SessionStep
<1>7. CASE \E i \in unacked : Receive(i)
  <2>1. PICK i \in unacked : Receive(i)
    BY <1>7
  <2>2. /\ UNCHANGED <<log, unacked, tableVars, target, cutoff, now>>
        /\ cursor' = i /\ pc' = "persist" /\ cur' = i
    BY <2>1 DEF Receive
  <2>3. up' \in BOOLEAN /\ fresh' \in BOOLEAN
    BY <1>2, <2>1 DEF Receive
  <2>4. i \in 1 .. Len(log)
    BY <1>3
  <2>5. cursor' \in 0 .. Len(log) /\ cur' \in 0 .. Len(log) /\ cur' # 0
    BY <1>3, <2>2, <2>4
  <2>6. QED
    BY <2>2, <2>3, <2>5, SessionStep
<1>8. CASE \E e \in Events : Reject(e)
  <2>1. PICK e \in Events : Reject(e)
    BY <1>8
  <2>2. /\ UNCHANGED <<log, unacked, cursor, up, cur, fresh, tableVars, target,
                       cutoff, now>>
        /\ pc = "persist" /\ pc' = "ack" /\ log[cur] = e /\ e.kind = "invalid"
    BY <2>1 DEF Reject, Handling
  <2>3. Settled(log[cur])
    BY <2>2 DEF Settled
  <2>4. QED
    BY <1>2, <1>3, <2>2, <2>3, SessionStep
<1>9. CASE Ack
  <2>1. /\ UNCHANGED <<log, cursor, up, cur, fresh, tableVars, target, cutoff, now>>
        /\ pc = "ack" /\ pc' = "idle" /\ unacked' = unacked \ {cur}
    BY <1>9 DEF Ack
  <2>2. \A i \in unacked : i \notin unacked' => Settled(log[i])
    BY <1>2, <2>1
  <2>3. QED
    BY <1>2, <1>3, <2>1, <2>2, SessionStep
<1>10. CASE AckLost
  <2>1. /\ UNCHANGED <<log, unacked, cursor, up, cur, fresh, tableVars, target,
                       cutoff, now>>
        /\ pc' = "idle"
    BY <1>10 DEF AckLost
  <2>2. QED
    BY <1>2, <1>3, <2>1, SessionStep
<1>11. CASE PruneFails
  <2>1. /\ UNCHANGED <<log, unacked, cursor, up, pc, cur, fresh, tableVars, cutoff,
                       now>>
        /\ target' = 0
    BY <1>11 DEF PruneFails
  <2>2. QED
    BY <1>2, <1>3, <2>1, SessionStep
<1>12. QED
  BY <1>4, <1>5, <1>6, <1>7, <1>8, <1>9, <1>10, <1>11

\* IInv is inductive.
LEMMA NextIInv == IInv /\ [Next]_vars => IInv'
<1> SUFFICES ASSUME IInv, [Next]_vars PROVE IInv'
  OBVIOUS
<1>1. CASE \E e \in Events : Publish(e)
  BY <1>1, PublishStep
<1>2. CASE \E e \in Events : Persist(e)
  BY <1>2, PersistStep
<1>3. CASE \E e \in Events : PersistFails(e)
  BY <1>3, PersistFailsStep
<1>4. CASE \/ Connect
           \/ Disconnect
           \/ Restart
           \/ \E i \in unacked : Receive(i)
           \/ \E e \in Events : Reject(e)
           \/ Ack
           \/ AckLost
           \/ PruneFails
  BY <1>4, QuietStep
<1>5. CASE StartRun \/ Tick
  BY <1>5, ClockStep
<1>6. CASE PruneStep
  BY <1>6, PruneInvStep
<1>7. CASE UNCHANGED vars
  <2>1. UNCHANGED <<brokerVars, jobVars, tableVars, pruneVars, now>>
    BY <1>7 DEF vars
  <2>2. SessionInv /\ RetentionOK /\ DataInv
    BY Parts
  <2>3. SessionInv'
    BY <2>1, <2>2 DEF SessionInv, AckInv, NoLoss, Settled, brokerVars, jobVars, tableVars
  <2>4. RetentionOK'
    BY <2>1, <2>2 DEF RetentionOK, pruneVars
  <2>5. DataInv'
    BY <2>1, <2>2, <2>4, DataFrame DEF RetentionOK, pruneVars
  <2>6. QED
    BY <2>3, <2>4, <2>5, Parts
<1>8. QED
  BY <1>1, <1>2, <1>3, <1>4, <1>5, <1>6, <1>7 DEF Next

\* Every reachable state satisfies the inductive invariant.
THEOREM Invariance == Spec => []IInv
BY InitIInv, NextIInv, PTL DEF Spec

\* The session, the tables and the retention run keep their types; the cutoff
\* of a run is never inside the retention window.
THEOREM TypeCorrect == Spec => []TypeOK
<1>1. IInv => TypeOK
  BY DEF IInv
<1>2. QED
  BY <1>1, Invariance, PTL

\* Handle's contract: the broker discards only what is settled.
THEOREM NothingLost == Spec => []NoLoss
<1>1. IInv => NoLoss
  BY DEF IInv, AckInv
<1>2. QED
  BY <1>1, Invariance, PTL

\* device_health_current holds a newest stored health event.
THEOREM HealthLatest == Spec => []HealthIsLatest
<1>1. IInv => HealthIsLatest
  BY DEF IInv
<1>2. QED
  BY <1>1, Invariance, PTL

\* collector_status_current holds a newest stored heartbeat.
THEOREM StatusLatest == Spec => []StatusIsLatest
<1>1. IInv => StatusIsLatest
  BY DEF IInv
<1>2. QED
  BY <1>1, Invariance, PTL

\* An interface row without v1 history holds a newest stored observation.
THEOREM InterfaceLatest == Spec => []InterfaceIsLatest
<1>1. IInv => InterfaceIsLatest
  BY DEF IInv, InterfaceInv
<1>2. QED
  BY <1>1, Invariance, PTL

\* Every current-state table holds newest observations only.
THEOREM CurrentLatest == Spec => []CurrentIsLatest
BY HealthLatest, StatusLatest, InterfaceLatest, PTL DEF CurrentIsLatest

\* insertIngestedEvent makes redelivery harmless inside the window.
THEOREM AppliedOnce == Spec => []AppliedOnceInWindow
<1>1. IInv => AppliedOnceInWindow
  BY DEF IInv, LedgerInv
<1>2. QED
  BY <1>1, Invariance, PTL

\* The order of Targets: a history row is in the ledger unless it was late.
THEOREM LedgerOutlivesHistory == Spec => []HistoryKeepsLedger
<1>1. IInv => HistoryKeepsLedger
  BY DEF IInv, PrunedInv
<1>2. QED
  BY <1>1, Invariance, PTL

\* What a step may never do: move the identity of a device back.
THEOREM IdentityForward == Spec => IdentityNeverRegresses
<1> DEFINE Forward ==
      \A s \in Subjects :
        device[s].identity # NoEvent =>
          /\ device'[s].identity # NoEvent
          /\ device[s].identity.at <= device'[s].identity.at
<1>1. IInv /\ [Next]_vars => [Forward]_vars
  <2> SUFFICES ASSUME IInv, Next PROVE Forward
    BY DEF Next
  <2>1. DataInv
    BY Parts
  <2>2. \A s \in Subjects : device[s].identity # NoEvent =>
          device[s].identity \in Events /\ device[s].identity.at \in Nat
    BY <2>1, IngestionAssumption DEF DataInv, TablesOK, DeviceRow
  <2>3. ASSUME \A s \in Subjects : device'[s].identity = device[s].identity
        PROVE  Forward
    BY <2>2, <2>3
  <2>4. ASSUME NEW e \in Events, Persist(e) \/ PersistFails(e)
        PROVE  Forward
    <3>1. UNCHANGED cutoff /\ UNCHANGED target
      BY <2>4 DEF Persist, PersistFails, pruneVars
    <3>2. CASE Apply(e)
      BY <2>1, <3>1, <3>2, ApplyStep
    <3>3. CASE PersistV1(e)
      BY <2>1, <2>3, <3>1, <3>3, PersistV1Step
    <3>4. CASE UNCHANGED tableVars
      BY <2>3, <3>4 DEF tableVars
    <3>5. QED
      BY <2>4, <3>2, <3>3, <3>4 DEF Persist, PersistFails
  <2>5. ASSUME UNCHANGED device PROVE Forward
    BY <2>3, <2>5
  <2>6. \/ \E e \in Events : Persist(e) \/ PersistFails(e)
        \/ UNCHANGED device
    BY DEF Next, Publish, Reject, Receive, Tick, Connect, Disconnect, Restart, Ack,
           AckLost, StartRun, PruneStep, PruneSamples, PruneHealth, PruneBeats,
           PruneLedger, Prune, PruneFails, tableVars
  <2>7. QED
    BY <2>4, <2>5, <2>6
<1>2. QED
  BY <1>1, Invariance, PTL DEF Spec, IdentityNeverRegresses
=============================================================================
