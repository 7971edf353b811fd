---------------------------- MODULE PollerProofs ----------------------------
(***************************************************************************)
(* Proofs about the two halves of internal/poller.                         *)
(*                                                                         *)
(* HealthTracker, for any inventories, dependencies, batches, reloads and  *)
(* thresholds: unknown rests on evidence that is true, a batch with nobody *)
(* pending gives what its outcomes imply, and no change of state goes      *)
(* unreported.                                                             *)
(*                                                                         *)
(* DevicePoll, for any devices, tables and filters: a report fits together *)
(* whatever its walks missed, ingestion refuses it only for what the device*)
(* itself says, and the filter's rules apply by precedence.  The last      *)
(* theorem joins the two: an outcome of a poll is one the tracker handles. *)
(***************************************************************************)
EXTENDS HealthTracker, DevicePoll, FiniteSetTheorems, WellFoundedInduction, TLAPS

-----------------------------------------------------------------------------
(***************************************************************************)
(* The inductive invariant.                                                *)
(***************************************************************************)

\* Outside an evaluation nothing is left of it, and the tracker holds no state
\* for devices that are not in the inventory.
FrameInv ==
  /\ left \subseteq Inventory(cfg)
  /\ pc \notin {"evaluating", "stopped"} => left = {}
  /\ pc # "stopped" =>
       \A d \in Devices : d \notin Inventory(cfg) => ledger[d].state = "none"

\* What is evaluated depends on nothing that is still to be evaluated.
OrderInv ==
  pc # "stopped" =>
    \A d \in Inventory(cfg) : d \notin left => cfg.upstream[d] \cap left = {}

\* The latest event published of a device, or the one that waits to be
\* published, says what the ledger holds.
Says(e, x) ==
  /\ e.state = x.state
  /\ e.alerts = x.alerts
  /\ e.reason = x.reason \/ e.reason = "recovered"

SentInv ==
  /\ pc \in {"idle", "polling"} =>
       \A d \in Devices : d \notin dropped /\ ledger[d].state # "none" =>
         Says(sent[d], ledger[d])
  /\ pc \in {"evaluating", "publishing"} =>
       /\ \A d \in Devices :
            d \notin dropped /\ d \notin DOMAIN events /\ ledger[d].state # "none" =>
              Says(sent[d], ledger[d])
       /\ \A d \in DOMAIN events : d \notin left /\ Says(events[d], ledger[d])

\* The ledger as far as other devices depend on it, for any ledger and snapshot.
DownIn(L, c, u) == L[u].outcome = "fail" /\ L[u].failures >= c.threshold

ImpairedIn(L, u) == L[u].state \in {"critical", "unknown"}

\* An unknown device that is evaluated rests on upstreams and roots that are.
Justified(L, c, d) ==
  L[d].state = "unknown" =>
    /\ c.upstream[d] # {}
    /\ \A u \in c.upstream[d] : DownIn(L, c, u) /\ ImpairedIn(L, u)
    /\ L[d].unavailable = c.upstream[d]
    /\ L[d].roots # {}
    /\ \A r \in L[d].roots : DownIn(L, c, r) /\ L[r].state = "critical"

\* One that is not rests on upstreams that are as they were or respond.
Outdated(L, c, d) ==
  L[d].state = "unknown" =>
    /\ c.upstream[d] # {}
    /\ \A u \in c.upstream[d] :
         L[u].outcome = "ok" \/ (DownIn(L, c, u) /\ ImpairedIn(L, u))

Evidence(L, c, R) ==
  /\ \A d \in Devices :
       ImpairedIn(L, d) => DownIn(L, c, d) \/ (d \in R /\ L[d].outcome = "ok")
  /\ \A d \in R : Outdated(L, c, d)
  /\ \A d \in Devices : d \notin R =>
       Justified(L, c, d) /\ (L[d].state = "unknown" => L[d].roots \cap R = {})

EvidenceInv ==
  reloads = 0 /\ pc # "stopped" => active = cfg /\ Evidence(ledger, cfg, left)

\* The verdict and its culprits, for any ledger and snapshot.
VerdictOf(L, c, d) ==
  IF L[d].outcome = "ok"
  THEN IF L[d].temperature >= c.warning[d] THEN "warning" ELSE "healthy"
  ELSE IF c.upstream[d] = {} \/ \E u \in c.upstream[d] : L[u].outcome = "ok"
  THEN "critical" ELSE "unknown"

CulpritsOf(L, c, d) ==
  {r \in Devices :
     /\ VerdictOf(L, c, r) = "critical"
     /\ \A T \in SUBSET Devices :
          /\ c.upstream[d] \subseteq T
          /\ \A x \in T : VerdictOf(L, c, x) = "unknown" => c.upstream[x] \subseteq T
          => r \in T}

Decided(L, c) ==
  \A d \in Inventory(c) : L[d].outcome = "ok" \/ DownIn(L, c, d)

Decisive(L, c, d) ==
  /\ L[d].state = VerdictOf(L, c, d)
  /\ VerdictOf(L, c, d) = "unknown" =>
       L[d].roots = CulpritsOf(L, c, d) /\ L[d].unavailable = c.upstream[d]
  /\ VerdictOf(L, c, d) # "unknown" => L[d].roots = {}

DecisiveInv ==
  pc \in {"evaluating", "publishing"} /\ Decided(ledger, cfg) =>
    \A d \in Inventory(cfg) : d \notin left => Decisive(ledger, cfg, d)

IInv ==
  /\ TypeOK
  /\ FrameInv
  /\ OrderInv
  /\ SentInv
  /\ EvidenceInv
  /\ DecisiveInv

-----------------------------------------------------------------------------
(***************************************************************************)
(* Snapshots and the types of what a step writes.                          *)
(***************************************************************************)

\* What Load accepts of a snapshot.
LEMMA SnapshotIs ==
  ASSUME NEW c \in Configs
  PROVE  /\ Inventory(c) \subseteq Devices
         /\ \A i \in DOMAIN c.list : c.list[i] \in Inventory(c)
         /\ c.upstream \in [Devices -> SUBSET Devices]
         /\ \A d \in Devices : c.upstream[d] \subseteq Devices
         /\ \A d \in Inventory(c) : c.upstream[d] \subseteq Inventory(c)
         /\ Acyclic(c)
         /\ c.threshold \in 1 .. MaxFailures
         /\ c.warning \in [Devices -> Nat]
         /\ c.alerts \in [Devices -> BOOLEAN]
<1>1. /\ c.list \in Seq(Devices)
      /\ c.upstream \in [Devices -> SUBSET Devices]
      /\ \A d \in Inventory(c) : c.upstream[d] \subseteq Inventory(c)
      /\ Acyclic(c)
      /\ c.threshold \in 1 .. MaxFailures
      /\ c.warning \in [Devices -> Nat]
      /\ c.alerts \in [Devices -> BOOLEAN]
  BY HealthAssumption
<1>2. \A i \in DOMAIN c.list : c.list[i] \in Devices
  BY <1>1
<1>3. Inventory(c) \subseteq Devices /\ \A i \in DOMAIN c.list : c.list[i] \in Inventory(c)
  BY <1>2 DEF Inventory
<1> QED BY <1>1, <1>3

\* The fields of an entry, one by one.
LEMMA EntryFields ==
  ASSUME NEW e \in Entry
  PROVE  /\ e.outcome \in {"none", "ok", "fail"} /\ e.failures \in 0 .. MaxFailures
         /\ e.temperature \in Temperatures \cup {NoReading}
         /\ e.state \in States /\ e.reason \in Reasons
         /\ e.unavailable \in SUBSET Devices /\ e.roots \in SUBSET Devices
         /\ e.alerts \in BOOLEAN
BY DEF Entry

LEMMA UnobservedIs ==
  Unobserved \in Entry /\ Unobserved.state = "none"
<1>1. MaxFailures \in Nat
  BY HealthAssumption
<1> QED BY <1>1 DEF Unobserved, Entry, States, Reasons

\* An outcome enters the ledger and leaves the verdict alone.
LEMMA CountedIs ==
  ASSUME NEW e \in Entry, NEW o \in Outcome
  PROVE  /\ Counted(e, o) \in Entry
         /\ Counted(e, o).outcome = (IF o.success THEN "ok" ELSE "fail")
         /\ Counted(e, o).failures \in Nat
         /\ ~o.success /\ e.failures < MaxFailures => Counted(e, o).failures = e.failures + 1
         /\ ~o.success /\ ~(e.failures < MaxFailures) => Counted(e, o).failures = e.failures
         /\ Counted(e, o).state = e.state /\ Counted(e, o).reason = e.reason
         /\ Counted(e, o).unavailable = e.unavailable
         /\ Counted(e, o).roots = e.roots /\ Counted(e, o).alerts = e.alerts
<1>1. MaxFailures \in Nat /\ e.failures \in 0 .. MaxFailures
  BY HealthAssumption, EntryFields
<1>2. o.temperature \in Temperatures \cup {NoReading} /\ o.success \in BOOLEAN
  BY DEF Outcome
<1>3. PICK f \in 0 .. MaxFailures :
        f = IF o.success THEN 0
            ELSE IF e.failures < MaxFailures THEN e.failures + 1 ELSE e.failures
  BY <1>1
<1>4. PICK k \in {"ok", "fail"} : k = IF o.success THEN "ok" ELSE "fail"
  OBVIOUS
<1>5. Counted(e, o) = [e EXCEPT !.outcome = k, !.failures = f, !.temperature = o.temperature]
  BY <1>3, <1>4 DEF Counted
<1>6. Counted(e, o) \in Entry
  BY <1>2, <1>5 DEF Entry
<1>7. /\ Counted(e, o).outcome = k /\ Counted(e, o).failures = f
      /\ Counted(e, o).state = e.state /\ Counted(e, o).reason = e.reason
      /\ Counted(e, o).unavailable = e.unavailable
      /\ Counted(e, o).roots = e.roots /\ Counted(e, o).alerts = e.alerts
  BY <1>5 DEF Entry
<1> QED BY <1>1, <1>3, <1>4, <1>6, <1>7

\* A verdict enters the ledger: what it changes and what it reports.
LEMMA AssignIs ==
  ASSUME TypeOK, NEW d \in Devices, NEW state \in States \ {"none"},
         NEW reason \in Reasons \ {"none"}, NEW unavailable \in SUBSET Devices,
         NEW roots \in SUBSET Devices,
         Assign(d, state, reason, unavailable, roots)
  PROVE  /\ ledger' \in [Devices -> Entry]
         /\ \A x \in Devices : x # d => ledger'[x] = ledger[x]
         /\ ledger'[d].state = state /\ ledger'[d].reason = reason
         /\ ledger'[d].unavailable = unavailable /\ ledger'[d].roots = roots
         /\ ledger'[d].alerts = cfg.alerts[d]
         /\ ledger'[d].outcome = ledger[d].outcome
         /\ ledger'[d].failures = ledger[d].failures
         /\ ledger'[d].temperature = ledger[d].temperature
<1>1. ledger \in [Devices -> Entry] /\ ledger[d] \in Entry /\ cfg.alerts[d] \in BOOLEAN
  BY SnapshotIs DEF TypeOK
<1>2. PICK e : e = [ledger[d] EXCEPT !.state = state, !.reason = reason,
                                     !.unavailable = unavailable, !.roots = roots,
                                     !.alerts = cfg.alerts[d]]
  OBVIOUS
<1>3. ledger' = [ledger EXCEPT ![d] = e]
  BY <1>2 DEF Assign
<1>4. /\ e \in Entry
      /\ e.state = state /\ e.reason = reason /\ e.unavailable = unavailable
      /\ e.roots = roots /\ e.alerts = cfg.alerts[d]
      /\ e.outcome = ledger[d].outcome /\ e.failures = ledger[d].failures
      /\ e.temperature = ledger[d].temperature
  BY <1>1, <1>2 DEF Entry
<1> QED BY <1>1, <1>3, <1>4

LEMMA EventIs ==
  ASSUME TypeOK, NEW d \in Devices, NEW state \in States \ {"none"},
         NEW reason \in Reasons \ {"none"}, NEW roots \in SUBSET Devices
  PROVE  /\ EventOf(d, state, reason, roots) \in Event
         /\ EventOf(d, state, reason, roots).state = state
         /\ EventOf(d, state, reason, roots).alerts = cfg.alerts[d]
         /\ EventOf(d, state, reason, roots).reason \in {reason, "recovered"}
<1>1. ledger[d] \in Entry /\ cfg.alerts[d] \in BOOLEAN
  BY SnapshotIs DEF TypeOK
<1>2. PICK t \in Transitions :
        t = IF PolicyChanged(d) /\ ledger[d].state = state /\ ledger[d].reason = reason
            THEN "reasserted" ELSE ClassifyTransition(ledger[d].state, state)
  BY DEF Transitions, ClassifyTransition
<1>3. PICK r \in Reasons \ {"none"} :
        r \in {reason, "recovered"} /\
        r = IF ClassifyTransition(ledger[d].state, state) = "recovered"
            THEN "recovered" ELSE reason
  BY DEF Reasons
<1>4. EventOf(d, state, reason, roots) =
        [state |-> state, reason |-> r, previous |-> ledger[d].state,
         transition |-> t, alerts |-> cfg.alerts[d], roots |-> roots]
  BY <1>2, <1>3 DEF EventOf
<1>5. ledger[d].state \in States
  BY <1>1, EntryFields
<1> QED BY <1>1, <1>3, <1>4, <1>5 DEF Event

\* An evaluation assigns a verdict, keeps what there is, or ends the process.
LEMMA EvaluateIs ==
  ASSUME TypeOK, NEW d \in left, Evaluate(d)
  PROVE  /\ d \in Devices /\ pc = "evaluating"
         /\ UNCHANGED <<configVars, batchVars, cycleVars, cancelled, stops, pubVars>>
         /\ \/ \E state \in States \ {"none"}, reason \in Reasons \ {"none"},
                  unavailable \in SUBSET Devices, roots \in SUBSET Devices :
                 Assign(d, state, reason, unavailable, roots)
            \/ Keep(d)
            \/ Overflow
<1>1. d \in Devices /\ cfg \in Configs
  BY DEF TypeOK
<1>2. cfg.upstream[d] \in SUBSET Devices
  BY <1>1, SnapshotIs
<1>3. RootCauses(cfg.upstream[d]) \in SUBSET Devices
  BY DEF RootCauses, Walked
<1>4. /\ {"healthy", "warning", "critical", "unknown"} \subseteq States \ {"none"}
      /\ {"reachable", "temperature_threshold", "direct_unreachable",
          "upstream_unreachable"} \subseteq Reasons \ {"none"}
      /\ {} \in SUBSET Devices
  BY DEF States, Reasons
<1>5. \/ Assign(d, "warning", "temperature_threshold", {}, {})
      \/ Assign(d, "healthy", "reachable", {}, {})
      \/ Assign(d, "critical", "direct_unreachable", {}, {})
      \/ Assign(d, "unknown", "upstream_unreachable", cfg.upstream[d],
                RootCauses(cfg.upstream[d]))
      \/ Keep(d)
      \/ Overflow
  BY DEF Evaluate
<1>6. \/ \E state \in States \ {"none"}, reason \in Reasons \ {"none"},
           unavailable \in SUBSET Devices, roots \in SUBSET Devices :
              Assign(d, state, reason, unavailable, roots)
      \/ Keep(d)
      \/ Overflow
  <2>1. CASE Assign(d, "warning", "temperature_threshold", {}, {})
    BY <1>4, <2>1
  <2>2. CASE Assign(d, "healthy", "reachable", {}, {})
    BY <1>4, <2>2
  <2>3. CASE Assign(d, "critical", "direct_unreachable", {}, {})
    BY <1>4, <2>3
  <2>4. CASE Assign(d, "unknown", "upstream_unreachable", cfg.upstream[d],
                    RootCauses(cfg.upstream[d]))
    BY <1>2, <1>3, <1>4, <2>4
  <2> QED BY <1>5, <2>1, <2>2, <2>3, <2>4
<1>7. pc = "evaluating"
      /\ UNCHANGED <<configVars, batchVars, cycleVars, cancelled, stops, pubVars>>
  BY DEF Evaluate
<1> QED BY <1>1, <1>6, <1>7

-----------------------------------------------------------------------------
(***************************************************************************)
(* Types.                                                                  *)
(***************************************************************************)

LEMMA InitTypes == Init => TypeOK
<1> SUFFICES ASSUME Init PROVE TypeOK
  OBVIOUS
<1>1. Unobserved \in Entry /\ MaxReloads \in Nat /\ MaxStops \in Nat
  BY UnobservedIs, HealthAssumption
<1>2. DOMAIN Empty = {}
  BY DEF Empty
<1>3. /\ ledger \in [Devices -> Entry]
      /\ sent \in [Devices -> Published \cup {NoEvent}]
  BY <1>1 DEF Init
<1>4. /\ outcomes = Empty /\ events = Empty /\ todo = {} /\ active \in Configs
      /\ cfg \in Configs /\ reloads = 0 /\ stops = 0 /\ pc = "idle"
      /\ scheduled = {} /\ due = {} /\ running = {} /\ left = {} /\ dropped = {}
  BY DEF Init
<1>5. first \in BOOLEAN /\ cancelled \in BOOLEAN
  BY DEF Init
<1>6. /\ DOMAIN outcomes \subseteq Devices /\ DOMAIN events \subseteq Devices
      /\ \A d \in DOMAIN outcomes : outcomes[d] \in Outcome
      /\ \A d \in DOMAIN events : events[d] \in Event
  BY <1>2, <1>4
<1>7. pc \in Phases /\ reloads \in 0 .. MaxReloads /\ stops \in 0 .. MaxStops
  BY <1>1, <1>4 DEF Phases
<1> QED BY <1>3, <1>4, <1>5, <1>6, <1>7 DEF TypeOK

LEMMA TypeStep == TypeOK /\ [Next]_vars => TypeOK'
<1> SUFFICES ASSUME TypeOK, [Next]_vars PROVE TypeOK'
  OBVIOUS
<1> USE DEF configVars, batchVars, cycleVars, evalVars, pubVars
<1>0. /\ MaxReloads \in Nat /\ MaxStops \in Nat
      /\ Unobserved \in Entry /\ DOMAIN Empty = {}
  BY UnobservedIs, HealthAssumption DEF Empty
<1>1. ASSUME NEW c \in Configs, Reload(c)
      PROVE  TypeOK'
  BY <1>0, <1>1 DEF Reload, TypeOK
<1>2. CASE Cancel
  BY <1>0, <1>2 DEF Cancel, TypeOK
<1>3. CASE Halt
  BY <1>3 DEF Halt, TypeOK, Phases
<1>4. CASE Restart
  BY <1>0, <1>4 DEF Restart, TypeOK, Phases
<1>5. ASSUME NEW S \in SUBSET Devices, StartCycle(S)
      PROVE  TypeOK'
  <2>1. Pruned(active) \in [Devices -> Entry]
    BY <1>0 DEF Pruned, TypeOK
  <2> QED BY <1>5, <2>1 DEF StartCycle, TypeOK, Phases
<1>6. CASE Exit
  BY <1>6 DEF Exit, TypeOK, Phases
<1>7. CASE Dispatch
  <2>1. PICK i \in todo : todo' = todo \ {i}
          /\ running' = IF cancelled THEN running ELSE running \cup {cfg.list[i]}
    BY <1>7 DEF Dispatch
  <2>2. cfg.list[i] \in Devices
    BY SnapshotIs DEF TypeOK
  <2> QED BY <1>7, <2>1, <2>2 DEF Dispatch, TypeOK
<1>8. CASE StopDispatch
  BY <1>8 DEF StopDispatch, TypeOK
<1>9. ASSUME NEW d \in running, NEW t \in Temperatures \cup {NoReading},
             PollSucceeds(d, t) \/ PollFails(d)
      PROVE  TypeOK'
  <2>1. PICK o \in Outcome : Returns(d, o)
    <3>1. /\ [success |-> TRUE, temperature |-> t] \in Outcome
          /\ [success |-> FALSE, temperature |-> NoReading] \in Outcome
      BY DEF Outcome
    <3> QED BY <1>9, <3>1 DEF PollSucceeds, PollFails
  <2>2. d \in Devices
    BY DEF TypeOK
  <2>3. /\ DOMAIN outcomes' = DOMAIN outcomes \cup {d}
        /\ \A x \in DOMAIN outcomes' : outcomes'[x] \in Outcome
    BY <2>1 DEF Returns, TypeOK
  <2>4. running' \subseteq Devices
    BY <2>1 DEF Returns, TypeOK
  <2>5. UNCHANGED <<configVars, pc, cycleVars, due, todo, cancelled, stops, ledger,
                    evalVars, pubVars>>
    BY <1>9 DEF PollSucceeds, PollFails
  <2> QED BY <2>2, <2>3, <2>4, <2>5 DEF TypeOK
<1>10. CASE DiscardBatch
  BY <1>0, <1>10 DEF DiscardBatch, EndCycle, TypeOK, Phases
<1>11. CASE CommitBatch
  <2>1. \A d \in due : Counted(ledger[d], outcomes[d]) \in Entry
    BY <1>11, CountedIs DEF CommitBatch, TypeOK
  <2>2. ledger' \in [Devices -> Entry]
    BY <1>11, <2>1 DEF CommitBatch, TypeOK
  <2>3. Inventory(cfg) \subseteq Devices
    BY SnapshotIs DEF TypeOK
  <2> QED BY <1>0, <1>11, <2>2, <2>3 DEF CommitBatch, TypeOK, Phases
<1>12. ASSUME NEW d \in left, Evaluate(d)
       PROVE  TypeOK'
  <2>1. /\ d \in Devices
        /\ UNCHANGED <<configVars, batchVars, cycleVars, cancelled, stops, pubVars>>
    BY <1>12, EvaluateIs
  <2>2. ASSUME NEW state \in States \ {"none"}, NEW reason \in Reasons \ {"none"},
               NEW unavailable \in SUBSET Devices, NEW roots \in SUBSET Devices,
               Assign(d, state, reason, unavailable, roots)
        PROVE  TypeOK'
    <3>1. ledger' \in [Devices -> Entry]
      BY <2>1, <2>2, AssignIs
    <3>2. PICK e \in Event : e = EventOf(d, state, reason, roots)
      BY <2>1, EventIs
    <3>3. /\ DOMAIN events' \subseteq Devices
          /\ \A x \in DOMAIN events' : events'[x] \in Event
      <4>1. CASE UNCHANGED events
        BY <4>1 DEF TypeOK
      <4>2. CASE events' = [x \in DOMAIN events \cup {d} |-> IF x = d THEN e ELSE events[x]]
        BY <2>1, <4>2 DEF TypeOK
      <4> QED BY <2>2, <3>2, <4>1, <4>2 DEF Assign
    <3>4. left' \subseteq Devices /\ pc' \in Phases
      BY <2>2 DEF Assign, TypeOK, Phases
    <3> QED BY <2>1, <3>1, <3>3, <3>4 DEF TypeOK
  <2>3. CASE Keep(d)
    BY <2>1, <2>3 DEF Keep, TypeOK, Phases
  <2>4. CASE Overflow
    BY <2>1, <2>4 DEF Overflow, TypeOK, Phases
  <2> QED BY <1>12, <2>2, <2>3, <2>4, EvaluateIs
<1>13. CASE EvaluationDone
  BY <1>13 DEF EvaluationDone, TypeOK, Phases
<1>14. CASE PublishHealth
  <2>1. sent' \in [Devices -> Published \cup {NoEvent}]
    <3>1. \A d \in DOMAIN events :
            [state |-> events[d].state, reason |-> events[d].reason,
             alerts |-> events[d].alerts] \in Published
      BY DEF TypeOK, Event, Published
    <3> QED BY <1>14, <3>1 DEF PublishHealth, TypeOK
  <2> QED BY <1>0, <1>14, <2>1 DEF PublishHealth, EndCycle, TypeOK, Phases
<1>15. CASE PublishHealthFails
  BY <1>0, <1>15 DEF PublishHealthFails, EndCycle, TypeOK, Phases
<1>16. CASE UNCHANGED vars
  BY <1>16 DEF vars, TypeOK
<1>17. ASSUME NEW d \in running, PollFails(d)
       PROVE  TypeOK'
  BY <1>9, <1>17
<1> QED BY <1>1, <1>2, <1>3, <1>4, <1>5, <1>6, <1>7, <1>8, <1>9, <1>10, <1>11,
           <1>12, <1>13, <1>14, <1>15, <1>16, <1>17 DEF Next

-----------------------------------------------------------------------------
(***************************************************************************)
(* The frame of an evaluation, and its order.                              *)
(***************************************************************************)

LEMMA FrameStep ==
  TypeOK /\ FrameInv /\ OrderInv /\ [Next]_vars => FrameInv' /\ OrderInv'
<1> SUFFICES ASSUME TypeOK, FrameInv, OrderInv, [Next]_vars
             PROVE  FrameInv' /\ OrderInv'
  OBVIOUS
<1> USE DEF configVars, batchVars, cycleVars, evalVars, pubVars
<1>1. ASSUME UNCHANGED <<cfg, left, ledger>>, pc' = pc \/ pc' = "stopped"
                \/ (left = {} /\ pc # "stopped")
      PROVE  FrameInv' /\ OrderInv'
  BY <1>1 DEF FrameInv, OrderInv
<1>2. ASSUME NEW c \in Configs, Reload(c)
      PROVE  FrameInv' /\ OrderInv'
  BY <1>1, <1>2 DEF Reload
<1>3. CASE Cancel \/ Halt \/ Exit
  BY <1>1, <1>3 DEF Cancel, Halt, Exit
<1>4. CASE Restart
  BY <1>4, UnobservedIs DEF Restart, FrameInv, OrderInv
<1>5. ASSUME NEW S \in SUBSET Devices, StartCycle(S)
      PROVE  FrameInv' /\ OrderInv'
  <2>1. left' = {} /\ cfg' = active /\ ledger' = Pruned(active)
    BY <1>5 DEF StartCycle, FrameInv
  <2>2. \A d \in Devices : d \notin Inventory(active) => ledger'[d].state = "none"
    BY <2>1, UnobservedIs DEF Pruned
  <2> QED BY <2>1, <2>2 DEF FrameInv, OrderInv
<1>6. CASE Dispatch \/ StopDispatch
  BY <1>1, <1>6 DEF Dispatch, StopDispatch
<1>7. ASSUME NEW d \in running, NEW t, PollSucceeds(d, t) \/ PollFails(d)
      PROVE  FrameInv' /\ OrderInv'
  BY <1>1, <1>7 DEF PollSucceeds, PollFails
<1>8. CASE DiscardBatch
  BY <1>1, <1>8 DEF DiscardBatch, BatchDone, EndCycle, FrameInv
<1>9. CASE CommitBatch
  <2>1. /\ left' = Inventory(cfg) /\ cfg' = cfg /\ pc # "stopped" /\ pc' = "evaluating"
        /\ ledger' = [d \in Devices |->
                        IF d \in due THEN Counted(ledger[d], outcomes[d]) ELSE ledger[d]]
    BY <1>9 DEF CommitBatch, BatchDone
  <2>2. \A d \in Devices : ledger'[d].state = ledger[d].state
    <3>1. \A d \in due : d \in Devices /\ ledger[d] \in Entry /\ outcomes[d] \in Outcome
      BY <1>9 DEF CommitBatch, TypeOK
    <3>2. \A d \in due : Counted(ledger[d], outcomes[d]).state = ledger[d].state
      BY <3>1, CountedIs
    <3> QED BY <2>1, <3>2
  <2> QED BY <2>1, <2>2 DEF FrameInv, OrderInv
<1>10. ASSUME NEW d \in left, Evaluate(d)
       PROVE  FrameInv' /\ OrderInv'
  <2>1. d \in Devices /\ pc = "evaluating" /\ cfg' = cfg /\ d \in Inventory(cfg)
    BY <1>10, EvaluateIs DEF FrameInv
  <2>2. cfg.upstream[d] \cap left = {}
    BY <1>10 DEF Evaluate, Turn
  <2>3. ASSUME NEW state \in States \ {"none"}, NEW reason \in Reasons \ {"none"},
               NEW unavailable \in SUBSET Devices, NEW roots \in SUBSET Devices,
               Assign(d, state, reason, unavailable, roots)
        PROVE  FrameInv' /\ OrderInv'
    <3>1. left' = left \ {d} /\ pc' = "evaluating"
      BY <2>3 DEF Assign
    <3>2. \A x \in Devices : x # d => ledger'[x] = ledger[x]
      BY <2>1, <2>3, AssignIs
    <3> QED BY <2>1, <2>2, <3>1, <3>2 DEF FrameInv, OrderInv
  <2>4. CASE Keep(d)
    BY <2>1, <2>2, <2>4 DEF Keep, FrameInv, OrderInv
  <2>5. CASE Overflow
    BY <2>1, <2>5 DEF Overflow, FrameInv, OrderInv
  <2> QED BY <1>10, <2>3, <2>4, <2>5, EvaluateIs
<1>11. CASE EvaluationDone
  BY <1>1, <1>11 DEF EvaluationDone
<1>12. CASE PublishHealth \/ PublishHealthFails
  BY <1>1, <1>12 DEF PublishHealth, PublishHealthFails, EndCycle, FrameInv
<1>13. CASE UNCHANGED vars
  BY <1>1, <1>13 DEF vars
<1> QED BY <1>2, <1>3, <1>4, <1>5, <1>6, <1>7, <1>8, <1>9, <1>10, <1>11, <1>12,
           <1>13 DEF Next

-----------------------------------------------------------------------------
(***************************************************************************)
(* What was published and what the ledger holds.                           *)
(***************************************************************************)

LEMMA SentStep ==
  TypeOK /\ FrameInv /\ SentInv /\ [Next]_vars => SentInv'
<1> SUFFICES ASSUME TypeOK, FrameInv, SentInv, [Next]_vars
             PROVE  SentInv'
  OBVIOUS
<1> USE DEF configVars, batchVars, cycleVars, evalVars, pubVars
<1>1. ASSUME UNCHANGED <<left, ledger, events, sent, dropped>>,
             pc' = pc \/ pc' = "stopped" \/ (pc' = "idle" /\ pc = "polling")
                \/ (pc' = "publishing" /\ pc = "evaluating")
      PROVE  SentInv'
  BY <1>1 DEF SentInv
<1>2. ASSUME NEW c \in Configs, Reload(c)
      PROVE  SentInv'
  BY <1>1, <1>2 DEF Reload
<1>3. CASE Cancel \/ Halt \/ Exit
  BY <1>1, <1>3 DEF Cancel, Halt, Exit
<1>4. CASE Restart
  <2>1. pc' = "idle" /\ \A d \in Devices : ledger'[d].state = "none"
    BY <1>4, UnobservedIs DEF Restart
  <2> QED BY <2>1 DEF SentInv
<1>5. ASSUME NEW S \in SUBSET Devices, StartCycle(S)
      PROVE  SentInv'
  <2>1. /\ pc = "idle" /\ pc' \in {"idle", "polling"} /\ ledger' = Pruned(active)
        /\ dropped' = dropped \cap Inventory(active) /\ sent' = sent
    BY <1>5 DEF StartCycle
  <2>2. ASSUME NEW d \in Devices, d \notin dropped', ledger'[d].state # "none"
        PROVE  Says(sent'[d], ledger'[d])
    <3>1. d \in Inventory(active) /\ ledger'[d] = ledger[d]
      BY <2>1, <2>2, UnobservedIs DEF Pruned
    <3> QED BY <2>1, <2>2, <3>1 DEF SentInv
  <2> QED BY <2>1, <2>2 DEF SentInv
<1>6. CASE Dispatch \/ StopDispatch
  BY <1>1, <1>6 DEF Dispatch, StopDispatch
<1>7. ASSUME NEW d \in running, NEW t, PollSucceeds(d, t) \/ PollFails(d)
      PROVE  SentInv'
  BY <1>1, <1>7 DEF PollSucceeds, PollFails
<1>8. CASE DiscardBatch
  BY <1>1, <1>8 DEF DiscardBatch, BatchDone, EndCycle
<1>9. CASE CommitBatch
  <2>1. /\ pc = "polling" /\ pc' = "evaluating" /\ DOMAIN events' = {}
        /\ UNCHANGED <<sent, dropped>>
        /\ ledger' = [d \in Devices |->
                        IF d \in due THEN Counted(ledger[d], outcomes[d]) ELSE ledger[d]]
    BY <1>9 DEF CommitBatch, BatchDone, Empty
  <2>2. \A d \in Devices : /\ ledger'[d].state = ledger[d].state
                           /\ ledger'[d].reason = ledger[d].reason
                           /\ ledger'[d].alerts = ledger[d].alerts
    <3>1. \A d \in due : d \in Devices /\ ledger[d] \in Entry /\ outcomes[d] \in Outcome
      BY <1>9 DEF CommitBatch, TypeOK
    <3>2. \A d \in due : LET e == Counted(ledger[d], outcomes[d])
                         IN /\ e.state = ledger[d].state
                            /\ e.reason = ledger[d].reason /\ e.alerts = ledger[d].alerts
      BY <3>1, CountedIs
    <3> QED BY <2>1, <3>2
  <2> QED BY <2>1, <2>2 DEF SentInv, Says
<1>10. ASSUME NEW d \in left, Evaluate(d)
       PROVE  SentInv'
  <2>1. d \in Devices /\ pc = "evaluating" /\ UNCHANGED <<sent, dropped>>
        /\ d \notin DOMAIN events
    BY <1>10, EvaluateIs DEF SentInv
  <2>2. ASSUME NEW state \in States \ {"none"}, NEW reason \in Reasons \ {"none"},
               NEW unavailable \in SUBSET Devices, NEW roots \in SUBSET Devices,
               Assign(d, state, reason, unavailable, roots)
        PROVE  SentInv'
    <3>1. left' = left \ {d} /\ pc' = "evaluating"
      BY <2>2 DEF Assign
    <3>2. /\ \A x \in Devices : x # d => ledger'[x] = ledger[x]
          /\ ledger'[d].state = state /\ ledger'[d].reason = reason
          /\ ledger'[d].alerts = cfg.alerts[d]
      BY <2>1, <2>2, AssignIs
    <3>3. CASE Emits(d, state, reason)
      <4>1. PICK e : e = EventOf(d, state, reason, roots)
        OBVIOUS
      <4>2. Says(e, ledger'[d])
        BY <2>1, <3>2, <4>1, EventIs DEF Says
      <4>3. events' = [x \in DOMAIN events \cup {d} |-> IF x = d THEN e ELSE events[x]]
        BY <2>2, <3>3, <4>1 DEF Assign
      <4>4. /\ DOMAIN events' = DOMAIN events \cup {d} /\ events'[d] = e
            /\ \A x \in DOMAIN events : events'[x] = events[x] /\ x # d /\ x \in Devices
        BY <2>1, <4>3 DEF TypeOK
      <4> QED BY <2>1, <3>1, <3>2, <4>2, <4>4 DEF SentInv
    <3>4. CASE ~Emits(d, state, reason)
      <4>1. /\ events' = events
            /\ ledger[d].state = state /\ ledger[d].reason = reason
            /\ ~PolicyChanged(d)
        BY <2>2, <3>4 DEF Assign, Emits
      <4>2. ledger[d].alerts = cfg.alerts[d] /\ ledger[d].state # "none"
        BY <4>1 DEF PolicyChanged
      <4>3. \A x \in Devices : Says(sent[x], ledger[x]) => Says(sent[x], ledger'[x])
        BY <3>2, <4>1, <4>2 DEF Says
      <4>4. \A x \in DOMAIN events : x # d /\ x \in Devices
        BY <2>1 DEF TypeOK
      <4> QED BY <2>1, <3>1, <3>2, <4>1, <4>2, <4>3, <4>4 DEF SentInv
    <3> QED BY <3>3, <3>4
  <2>3. CASE Keep(d)
    BY <2>1, <2>3 DEF Keep, SentInv
  <2>4. CASE Overflow
    BY <2>1, <2>4 DEF Overflow, SentInv
  <2> QED BY <1>10, <2>2, <2>3, <2>4, EvaluateIs
<1>11. CASE EvaluationDone
  BY <1>1, <1>11 DEF EvaluationDone
<1>12. CASE PublishHealth
  <2>1. /\ pc = "publishing" /\ pc' \in {"idle", "stopped"} /\ ledger' = ledger
        /\ dropped' = dropped \ DOMAIN events
        /\ sent' = [d \in Devices |->
                      IF d \in DOMAIN events
                      THEN [state |-> events[d].state, reason |-> events[d].reason,
                            alerts |-> events[d].alerts]
                      ELSE sent[d]]
    BY <1>12 DEF PublishHealth, EndCycle
  <2>2. ASSUME NEW d \in Devices, d \notin dropped', ledger[d].state # "none"
        PROVE  Says(sent'[d], ledger[d])
    <3>1. CASE d \in DOMAIN events
      <4>1. /\ sent'[d].state = events[d].state /\ sent'[d].reason = events[d].reason
            /\ sent'[d].alerts = events[d].alerts
        BY <2>1, <3>1
      <4>2. Says(events[d], ledger[d])
        BY <2>1, <3>1 DEF SentInv
      <4> QED BY <4>1, <4>2 DEF Says
    <3>2. CASE d \notin DOMAIN events
      BY <2>1, <2>2, <3>2 DEF SentInv
    <3> QED BY <3>1, <3>2
  <2> QED BY <2>1, <2>2 DEF SentInv
<1>13. CASE PublishHealthFails
  BY <1>13 DEF PublishHealthFails, EndCycle, SentInv
<1>14. CASE UNCHANGED vars
  BY <1>1, <1>14 DEF vars
<1> QED BY <1>2, <1>3, <1>4, <1>5, <1>6, <1>7, <1>8, <1>9, <1>10, <1>11, <1>12,
           <1>13, <1>14 DEF Next

-----------------------------------------------------------------------------
(***************************************************************************)
(* The walk to the root causes.                                            *)
(***************************************************************************)

\* The walk visits where it starts and what unknown devices rest on, and
\* nothing that it need not visit.
LEMMA WalkIs ==
  ASSUME TypeOK, NEW S \in SUBSET Devices
  PROVE  /\ S \subseteq Walked(S) /\ Walked(S) \subseteq Devices
         /\ \A x \in Walked(S) :
              ledger[x].state = "unknown" => ledger[x].unavailable \subseteq Walked(S)
         /\ \A T \in SUBSET Devices :
              /\ S \subseteq T
              /\ \A x \in T : ledger[x].state = "unknown" => ledger[x].unavailable \subseteq T
              => Walked(S) \subseteq T
<1>1. \A x \in Devices : ledger[x].unavailable \subseteq Devices
  BY EntryFields DEF TypeOK
<1>2. S \subseteq Walked(S) /\ Walked(S) \subseteq Devices
  BY DEF Walked
<1>3. ASSUME NEW x \in Walked(S), ledger[x].state = "unknown",
             NEW u \in ledger[x].unavailable
      PROVE  u \in Walked(S)
  <2>1. u \in Devices
    BY <1>1, <1>2, <1>3
  <2>2. ASSUME NEW T \in SUBSET Devices, S \subseteq T,
               \A y \in T : ledger[y].state = "unknown" => ledger[y].unavailable \subseteq T
        PROVE  u \in T
    <3>1. x \in T
      BY <2>2 DEF Walked
    <3> QED BY <1>3, <2>2, <3>1
  <2> QED BY <2>1, <2>2 DEF Walked
<1>4. ASSUME NEW T \in SUBSET Devices, S \subseteq T,
             \A x \in T : ledger[x].state = "unknown" => ledger[x].unavailable \subseteq T
      PROVE  Walked(S) \subseteq T
  BY <1>4 DEF Walked
<1> QED BY <1>2, <1>3, <1>4

\* When all upstreams are evaluated and impaired, the walk finds a critical device
\* among those that are evaluated: dependencies have no cycle.
LEMMA RootsFound ==
  ASSUME TypeOK, FrameInv, OrderInv, pc # "stopped",
         Evidence(ledger, cfg, left),
         NEW S \in SUBSET Inventory(cfg), S # {}, S \cap left = {},
         \A u \in S : ImpairedIn(ledger, u)
  PROVE  /\ RootCauses(S) # {} /\ RootCauses(S) \subseteq Devices
         /\ RootCauses(S) \cap left = {}
         /\ \A r \in RootCauses(S) :
              DownIn(ledger, cfg, r) /\ ledger[r].state = "critical"
<1> DEFINE T == {x \in Devices : x \in Inventory(cfg) /\ x \notin left
                                   /\ ImpairedIn(ledger, x)}
<1>1. cfg \in Configs /\ Inventory(cfg) \subseteq Devices /\ S \in SUBSET Devices
  BY SnapshotIs DEF TypeOK
<1>2. \A x \in T : ledger[x].state = "unknown" =>
        ledger[x].unavailable = cfg.upstream[x] /\ cfg.upstream[x] # {}
          /\ cfg.upstream[x] \subseteq T
  <2>1. ASSUME NEW x \in T, ledger[x].state = "unknown"
        PROVE  /\ ledger[x].unavailable = cfg.upstream[x] /\ cfg.upstream[x] # {}
               /\ cfg.upstream[x] \subseteq T
    <3>1. x \in Devices /\ x \in Inventory(cfg) /\ x \notin left
      BY <2>1
    <3>2. Justified(ledger, cfg, x)
      BY <3>1 DEF Evidence
    <3>3. cfg.upstream[x] \cap left = {}
      BY <3>1 DEF OrderInv
    <3>4. cfg.upstream[x] \subseteq Inventory(cfg)
      BY <1>1, <3>1, SnapshotIs
    <3> QED BY <1>1, <2>1, <3>2, <3>3, <3>4 DEF Justified
  <2> QED BY <2>1
<1>3. S \subseteq T
  BY <1>1
<1>4. T \in SUBSET Devices
  OBVIOUS
<1>5. Walked(S) \subseteq T
  <2>1. \A x \in T : ledger[x].state = "unknown" => ledger[x].unavailable \subseteq T
    BY <1>2
  <2> HIDE DEF T
  <2> QED BY <1>1, <1>3, <1>4, <2>1, WalkIs
<1>6. \E x \in Walked(S) : ledger[x].state = "critical"
  <2>1. SUFFICES ASSUME \A x \in Walked(S) : ledger[x].state # "critical"
                 PROVE  FALSE
    OBVIOUS
  <2>2. \A x \in Walked(S) : ledger[x].state = "unknown"
    BY <1>5, <2>1 DEF ImpairedIn
  <2>3. \A x \in Walked(S) : cfg.upstream[x] # {} /\ cfg.upstream[x] \subseteq Walked(S)
    BY <1>1, <1>2, <1>5, <2>2, WalkIs
  <2>4. Walked(S) # {} /\ Walked(S) \in SUBSET Inventory(cfg)
    BY <1>1, <1>5, WalkIs
  <2>5. \E d \in Walked(S) : cfg.upstream[d] \cap Walked(S) = {}
    BY <1>1, <2>4, SnapshotIs DEF Acyclic
  <2> QED BY <2>3, <2>5
<1>7. \A r \in RootCauses(S) : r \in T /\ ledger[r].state = "critical"
  BY <1>5 DEF RootCauses
<1>8. \A r \in T : DownIn(ledger, cfg, r)
  BY DEF Evidence
<1> QED BY <1>6, <1>7, <1>8 DEF RootCauses

-----------------------------------------------------------------------------
(***************************************************************************)
(* Unknown rests on evidence.                                              *)
(***************************************************************************)

LEMMA EvaluatedKeeps ==
  ASSUME TypeOK, FrameInv, OrderInv, pc = "evaluating", NEW d \in left,
         Evidence(ledger, cfg, left),
         \A x \in Devices : x # d => ledger'[x] = ledger[x],
         ledger'[d].outcome = ledger[d].outcome,
         ledger'[d].failures = ledger[d].failures,
         ImpairedIn(ledger', d) => DownIn(ledger, cfg, d),
         DownIn(ledger, cfg, d) /\ ImpairedIn(ledger, d) => ImpairedIn(ledger', d),
         Justified(ledger', cfg, d),
         ledger'[d].state = "unknown" => ledger'[d].roots \cap left = {}
  PROVE  Evidence(ledger', cfg, left \ {d})
<1>1. /\ d \in Devices /\ cfg \in Configs /\ left \subseteq Devices
      /\ \A x \in Devices : cfg.upstream[x] \subseteq Devices
  BY SnapshotIs DEF TypeOK
<1>2. \A u \in Devices : DownIn(ledger', cfg, u) <=> DownIn(ledger, cfg, u)
  BY DEF DownIn
<1>3. \A u \in Devices : u # d => (ImpairedIn(ledger', u) <=> ImpairedIn(ledger, u))
  BY DEF ImpairedIn
<1>4. \A x \in Devices : ImpairedIn(ledger', x) =>
        DownIn(ledger', cfg, x) \/ (x \in left \ {d} /\ ledger'[x].outcome = "ok")
  BY <1>1, <1>2, <1>3 DEF Evidence
<1>5. ASSUME NEW x \in left \ {d}
      PROVE  Outdated(ledger', cfg, x)
  <2>1. Outdated(ledger, cfg, x) /\ ledger'[x] = ledger[x] /\ x \in Devices
    BY <1>1 DEF Evidence
  <2>2. ASSUME NEW u \in Devices,
               ledger[u].outcome = "ok" \/ (DownIn(ledger, cfg, u) /\ ImpairedIn(ledger, u))
        PROVE  ledger'[u].outcome = "ok"
                 \/ (DownIn(ledger', cfg, u) /\ ImpairedIn(ledger', u))
    BY <1>2, <1>3, <2>2
  <2> QED BY <1>1, <2>1, <2>2 DEF Outdated
<1>6. ASSUME NEW x \in Devices, x \notin left
      PROVE  /\ Justified(ledger', cfg, x)
             /\ ledger'[x].state = "unknown" => ledger'[x].roots \cap (left \ {d}) = {}
  <2>1. Justified(ledger, cfg, x) /\ ledger'[x] = ledger[x]
        /\ (ledger[x].state = "unknown" => ledger[x].roots \cap left = {})
    BY <1>6 DEF Evidence
  <2>2. CASE ledger[x].state # "unknown"
    BY <2>1, <2>2 DEF Justified
  <2>3. CASE ledger[x].state = "unknown"
    <3>1. x \in Inventory(cfg)
      BY <2>3 DEF FrameInv
    <3>2. cfg.upstream[x] \cap left = {}
      BY <1>6, <3>1 DEF OrderInv
    <3>3. ledger[x].roots \subseteq Devices
      BY EntryFields DEF TypeOK
    <3>4. \A u \in cfg.upstream[x] :
            DownIn(ledger', cfg, u) /\ ImpairedIn(ledger', u)
      BY <1>1, <1>2, <1>3, <2>1, <2>3, <3>2 DEF Justified
    <3>5. \A r \in ledger[x].roots :
            DownIn(ledger', cfg, r) /\ ledger'[r].state = "critical"
      BY <1>2, <2>1, <2>3, <3>3 DEF Justified
    <3> QED BY <2>1, <2>3, <3>4, <3>5 DEF Justified
  <2> QED BY <2>2, <2>3
<1> QED BY <1>1, <1>4, <1>5, <1>6 DEF Evidence

LEMMA EvidenceStep ==
  TypeOK /\ FrameInv /\ OrderInv /\ EvidenceInv /\ [Next]_vars => EvidenceInv'
<1> SUFFICES ASSUME TypeOK, FrameInv, OrderInv, EvidenceInv, [Next]_vars
             PROVE  EvidenceInv'
  OBVIOUS
<1> USE DEF configVars, batchVars, cycleVars, evalVars, pubVars
<1>0. /\ ledger \in [Devices -> Entry] /\ cfg \in Configs /\ active \in Configs
      /\ left \subseteq Devices /\ Inventory(cfg) \subseteq Devices
      /\ \A d \in Devices : cfg.upstream[d] \subseteq Devices
  BY SnapshotIs DEF TypeOK
<1>1. ASSUME UNCHANGED <<active, reloads, cfg, left, ledger>>,
             pc' = "stopped" \/ pc # "stopped" \/ pc' = pc
      PROVE  EvidenceInv'
  BY <1>1 DEF EvidenceInv
<1>2. ASSUME NEW c \in Configs, Reload(c)
      PROVE  EvidenceInv'
  BY <1>2 DEF Reload, EvidenceInv, TypeOK
<1>3. CASE Cancel \/ Halt \/ Exit
  BY <1>1, <1>3 DEF Cancel, Halt, Exit
<1>4. CASE Restart
  <2>1. /\ active' = active /\ cfg' = active /\ left' = {}
        /\ \A d \in Devices : ledger'[d].state = "none"
    BY <1>4, UnobservedIs DEF Restart
  <2> QED BY <2>1 DEF EvidenceInv, Evidence, ImpairedIn, Justified
<1>5. ASSUME NEW S \in SUBSET Devices, StartCycle(S)
      PROVE  EvidenceInv'
  <2>1. SUFFICES ASSUME reloads' = 0, pc' # "stopped"
                 PROVE  active' = cfg' /\ Evidence(ledger', cfg', left')
    BY DEF EvidenceInv
  <2>2. /\ active' = active /\ cfg' = active /\ left' = left /\ left = {}
        /\ active = cfg /\ Evidence(ledger, cfg, left) /\ ledger' = Pruned(cfg)
        /\ pc = "idle"
    BY <1>5, <2>1 DEF StartCycle, FrameInv, EvidenceInv
  <2>3. \A d \in Devices : d \in Inventory(cfg) => ledger'[d] = ledger[d]
    BY <2>2 DEF Pruned
  <2>4. \A d \in Devices : d \notin Inventory(cfg) =>
          ledger'[d].state = "none" /\ ledger[d].state = "none"
    BY <2>2, UnobservedIs DEF Pruned, FrameInv
  <2>5. ASSUME NEW d \in Devices
        PROVE  /\ ImpairedIn(ledger', d) => DownIn(ledger', cfg, d)
               /\ Justified(ledger', cfg, d)
    <3>1. CASE ~ImpairedIn(ledger', d)
      BY <3>1 DEF ImpairedIn, Justified
    <3>2. CASE ImpairedIn(ledger', d)
      <4>1. d \in Inventory(cfg) /\ ledger'[d] = ledger[d]
        BY <2>3, <2>4, <3>2 DEF ImpairedIn
      <4>2. ImpairedIn(ledger, d) /\ DownIn(ledger, cfg, d) /\ Justified(ledger, cfg, d)
        BY <2>2, <3>2, <4>1 DEF Evidence, ImpairedIn
      <4>3. \A u \in Devices : ImpairedIn(ledger, u) => ledger'[u] = ledger[u]
        BY <2>3, <2>4 DEF ImpairedIn
      <4>4. ledger[d].roots \subseteq Devices
        BY <1>0, EntryFields
      <4> QED BY <1>0, <4>1, <4>2, <4>3, <4>4 DEF Justified, ImpairedIn, DownIn
    <3> QED BY <3>1, <3>2
  <2> QED BY <2>2, <2>5 DEF Evidence
<1>6. CASE Dispatch \/ StopDispatch
  BY <1>1, <1>6 DEF Dispatch, StopDispatch
<1>7. ASSUME NEW d \in running, NEW t, PollSucceeds(d, t) \/ PollFails(d)
      PROVE  EvidenceInv'
  BY <1>1, <1>7 DEF PollSucceeds, PollFails, Returns
<1>8. CASE DiscardBatch
  BY <1>1, <1>8 DEF DiscardBatch, BatchDone, EndCycle
<1>9. CASE CommitBatch
  <2>1. SUFFICES ASSUME reloads' = 0, pc' # "stopped"
                 PROVE  active' = cfg' /\ Evidence(ledger', cfg', left')
    BY DEF EvidenceInv
  <2>2. /\ pc = "polling" /\ left = {} /\ left' = Inventory(cfg) /\ cfg' = cfg
        /\ active' = active /\ active = cfg /\ Evidence(ledger, cfg, left)
        /\ ledger' = [d \in Devices |->
                        IF d \in due THEN Counted(ledger[d], outcomes[d]) ELSE ledger[d]]
    BY <1>9, <2>1 DEF CommitBatch, BatchDone, FrameInv, EvidenceInv
  <2>3. ASSUME NEW d \in Devices
        PROVE  /\ ledger'[d].state = ledger[d].state
               /\ DownIn(ledger, cfg, d) =>
                    ledger'[d].outcome = "ok" \/ DownIn(ledger', cfg, d)
    <3>1. CASE d \notin due
      BY <2>2, <3>1 DEF DownIn
    <3>2. CASE d \in due
      <4>1. PICK o \in Outcome : o = outcomes[d]
        BY <1>9, <3>2 DEF CommitBatch, TypeOK
      <4>2. ledger'[d] = Counted(ledger[d], o) /\ ledger[d] \in Entry
        BY <1>0, <2>2, <3>2, <4>1
      <4>3. /\ cfg.threshold \in 1 .. MaxFailures /\ MaxFailures \in Nat
            /\ ledger[d].failures \in 0 .. MaxFailures
        BY <1>0, <4>2, SnapshotIs, EntryFields, HealthAssumption
      <4> QED BY <4>2, <4>3, CountedIs DEF DownIn
    <3> QED BY <3>1, <3>2
  <2>4. \A d \in Devices : ImpairedIn(ledger', d) <=> ImpairedIn(ledger, d)
    BY <2>3 DEF ImpairedIn
  <2>5. \A d \in Devices : ImpairedIn(ledger, d) => d \in Inventory(cfg)
    BY <2>2 DEF FrameInv, ImpairedIn
  <2>6. \A d \in Devices : ImpairedIn(ledger', d) =>
          DownIn(ledger', cfg, d) \/ (d \in left' /\ ledger'[d].outcome = "ok")
    BY <2>2, <2>3, <2>4, <2>5 DEF Evidence
  <2>7. ASSUME NEW d \in left'
        PROVE  Outdated(ledger', cfg, d)
    <3>1. d \in Devices /\ Justified(ledger, cfg, d)
      BY <1>0, <2>2, <2>7 DEF Evidence
    <3> QED BY <1>0, <2>3, <2>4, <3>1 DEF Justified, Outdated
  <2>8. \A d \in Devices : d \notin left' => ledger'[d].state # "unknown"
    BY <2>2, <2>3 DEF FrameInv
  <2> QED BY <2>2, <2>6, <2>7, <2>8 DEF Evidence, Justified
<1>10. ASSUME NEW d \in left, Evaluate(d)
       PROVE  EvidenceInv'
  <2>1. SUFFICES ASSUME reloads' = 0, pc' # "stopped"
                 PROVE  active' = cfg' /\ Evidence(ledger', cfg', left')
    BY DEF EvidenceInv
  <2>2. /\ d \in Devices /\ pc = "evaluating" /\ cfg' = cfg /\ active' = active
        /\ active = cfg /\ Evidence(ledger, cfg, left) /\ d \in Inventory(cfg)
        /\ ~Overflow
    BY <1>10, <2>1, EvaluateIs DEF EvidenceInv, Overflow, FrameInv
  <2>3. cfg.upstream[d] \cap left = {} /\ cfg.upstream[d] \in SUBSET Inventory(cfg)
    BY <1>0, <1>10, <2>2, SnapshotIs DEF Evaluate, Turn
  <2>4. ledger[d] \in Entry /\ ledger[d].outcome \in {"none", "ok", "fail"}
    BY <1>0, <2>2, EntryFields
  <2>5. ASSUME NEW state \in {"healthy", "warning"}, NEW reason \in Reasons \ {"none"},
               Assign(d, state, reason, {}, {}), Responds(d)
        PROVE  Evidence(ledger', cfg', left')
    <3>1. state \in States \ {"none"} /\ {} \in SUBSET Devices
      BY DEF States
    <3>2. /\ \A x \in Devices : x # d => ledger'[x] = ledger[x]
          /\ ledger'[d].state = state /\ ledger'[d].outcome = ledger[d].outcome
          /\ ledger'[d].failures = ledger[d].failures
      BY ONLY TypeOK, <2>2, <2>5, <3>1, AssignIs, SMTT(30)
    <3>3. left' = left \ {d}
      BY <2>5 DEF Assign
    <3>4. ~ImpairedIn(ledger', d) /\ ~DownIn(ledger, cfg, d)
            /\ Justified(ledger', cfg, d) /\ ledger'[d].state # "unknown"
      BY <2>5, <3>2 DEF ImpairedIn, DownIn, Justified, Responds
    <3> QED BY <2>2, <3>2, <3>3, <3>4, EvaluatedKeeps
  <2>6. ASSUME DirectFailure(d), Assign(d, "critical", "direct_unreachable", {}, {})
        PROVE  Evidence(ledger', cfg', left')
    <3>1. /\ "critical" \in States \ {"none"} /\ {} \in SUBSET Devices
          /\ "direct_unreachable" \in Reasons \ {"none"}
      BY DEF States, Reasons
    <3>2. /\ \A x \in Devices : x # d => ledger'[x] = ledger[x]
          /\ ledger'[d].state = "critical" /\ ledger'[d].outcome = ledger[d].outcome
          /\ ledger'[d].failures = ledger[d].failures
      BY ONLY TypeOK, <2>2, <2>6, <3>1, AssignIs, SMTT(30)
    <3>3. left' = left \ {d}
      BY <2>6 DEF Assign
    <3>4. ImpairedIn(ledger', d) /\ DownIn(ledger, cfg, d)
            /\ Justified(ledger', cfg, d) /\ ledger'[d].state # "unknown"
      BY <2>6, <3>2 DEF ImpairedIn, DownIn, Justified, DirectFailure, Down
    <3> QED BY <2>2, <3>2, <3>3, <3>4, EvaluatedKeeps
  <2>7. ASSUME UpstreamFailure(d),
               Assign(d, "unknown", "upstream_unreachable", cfg.upstream[d],
                      RootCauses(cfg.upstream[d]))
        PROVE  Evidence(ledger', cfg', left')
    <3>1. PICK S \in SUBSET Inventory(cfg) : S = cfg.upstream[d]
      BY <2>3
    <3>2. /\ S # {} /\ S \cap left = {} /\ DownIn(ledger, cfg, d)
          /\ \A u \in S : DownIn(ledger, cfg, u) /\ ImpairedIn(ledger, u)
      BY <2>3, <2>7, <3>1 DEF UpstreamFailure, Down, Impaired, DownIn, ImpairedIn
    <3>3. /\ RootCauses(S) # {} /\ RootCauses(S) \subseteq Devices
          /\ RootCauses(S) \cap left = {}
          /\ \A r \in RootCauses(S) :
               DownIn(ledger, cfg, r) /\ ledger[r].state = "critical"
      BY <2>2, <3>2, RootsFound
    <3>4. PICK R \in SUBSET Devices : R = RootCauses(S)
      BY <3>3
    <3>5. /\ "unknown" \in States \ {"none"} /\ S \in SUBSET Devices
          /\ "upstream_unreachable" \in Reasons \ {"none"}
          /\ Assign(d, "unknown", "upstream_unreachable", S, R)
      BY <1>0, <2>7, <3>1, <3>4 DEF States, Reasons
    <3>6. /\ \A x \in Devices : x # d => ledger'[x] = ledger[x]
          /\ ledger'[d].state = "unknown" /\ ledger'[d].outcome = ledger[d].outcome
          /\ ledger'[d].unavailable = S /\ ledger'[d].roots = R
          /\ ledger'[d].failures = ledger[d].failures
      BY <2>2, <3>5, AssignIs
    <3>7. left' = left \ {d}
      BY <2>7 DEF Assign
    <3>8. ImpairedIn(ledger', d)
      BY <3>6 DEF ImpairedIn
    <3>9. \A u \in S : u \in Devices /\ u # d /\ DownIn(ledger', cfg, u) /\ ImpairedIn(ledger', u)
      BY <1>0, <3>2, <3>6 DEF DownIn, ImpairedIn
    <3>10. \A r \in R : r # d /\ DownIn(ledger', cfg, r) /\ ledger'[r].state = "critical"
      BY <3>3, <3>4, <3>6 DEF DownIn
    <3>11. Justified(ledger', cfg, d) /\ ledger'[d].roots \cap left = {}
      BY <3>1, <3>2, <3>3, <3>4, <3>6, <3>9, <3>10 DEF Justified
    <3> QED BY <2>2, <3>2, <3>6, <3>7, <3>8, <3>11, EvaluatedKeeps
  <2>8. ASSUME Undecided(d), Keep(d)
        PROVE  Evidence(ledger', cfg', left')
    <3>1. /\ ledger' = ledger /\ left' = left \ {d}
      BY <2>8 DEF Keep
    <3>2. ImpairedIn(ledger, d) => DownIn(ledger, cfg, d)
      BY <2>2, <2>8 DEF Evidence, Undecided, Responds
    <3>3. ledger[d].state # "unknown"
      <4>1. SUFFICES ASSUME ledger[d].state = "unknown" PROVE FALSE
        OBVIOUS
      <4>2. DownIn(ledger, cfg, d) /\ Outdated(ledger, cfg, d)
        BY <2>2, <3>2, <4>1 DEF ImpairedIn, Evidence
      <4>3. cfg.upstream[d] # {} /\ \A u \in cfg.upstream[d] : ~Responds(u)
        BY <2>8, <4>2 DEF Undecided, DirectFailure, Down, DownIn
      <4>4. \A u \in cfg.upstream[d] : Down(u) /\ Impaired(u)
        BY <4>1, <4>2, <4>3 DEF Outdated, Responds, Down, Impaired, DownIn, ImpairedIn
      <4> QED BY <2>8, <4>2, <4>3, <4>4 DEF Undecided, UpstreamFailure, Down, DownIn
    <3>4. Justified(ledger', cfg, d)
      BY <3>1, <3>3 DEF Justified
    <3> QED BY <2>2, <3>1, <3>2, <3>3, <3>4, EvaluatedKeeps
  <2>9. {"reachable", "temperature_threshold"} \subseteq Reasons \ {"none"}
    BY DEF Reasons
  <2> QED BY <1>10, <2>2, <2>5, <2>6, <2>7, <2>8, <2>9 DEF Evaluate
<1>11. CASE EvaluationDone
  BY <1>1, <1>11 DEF EvaluationDone
<1>12. CASE PublishHealth \/ PublishHealthFails
  BY <1>1, <1>12 DEF PublishHealth, PublishHealthFails, EndCycle
<1>13. CASE UNCHANGED vars
  BY <1>1, <1>13 DEF vars
<1> QED BY <1>2, <1>3, <1>4, <1>5, <1>6, <1>7, <1>8, <1>9, <1>10, <1>11, <1>12,
           <1>13 DEF Next

-----------------------------------------------------------------------------
(***************************************************************************)
(* A batch with nobody pending.                                            *)
(***************************************************************************)

\* Verdicts depend on outcomes and readings alone.
LEMMA VerdictSame ==
  ASSUME NEW c \in Configs, NEW L, NEW M,
         \A x \in Devices :
           L[x].outcome = M[x].outcome /\ L[x].temperature = M[x].temperature
  PROVE  \A d \in Devices : VerdictOf(L, c, d) = VerdictOf(M, c, d)
BY SnapshotIs DEF VerdictOf

LEMMA CulpritsSame ==
  ASSUME NEW c \in Configs, NEW L, NEW M,
         \A x \in Devices : VerdictOf(L, c, x) = VerdictOf(M, c, x)
  PROVE  \A d \in Devices : CulpritsOf(L, c, d) = CulpritsOf(M, c, d)
<1> SUFFICES ASSUME NEW d \in Devices, NEW r \in Devices
             PROVE  r \in CulpritsOf(L, c, d) <=> r \in CulpritsOf(M, c, d)
  BY DEF CulpritsOf
<1>1. ASSUME NEW T \in SUBSET Devices
      PROVE  (\A x \in T : VerdictOf(L, c, x) = "unknown" => c.upstream[x] \subseteq T)
             <=> (\A x \in T : VerdictOf(M, c, x) = "unknown" => c.upstream[x] \subseteq T)
  OBVIOUS
<1> QED BY <1>1 DEF CulpritsOf

\* On devices that are evaluated the walk and the definition of the culprits
\* follow the same edges.
LEMMA RootsAreCulprits ==
  ASSUME TypeOK, OrderInv, pc # "stopped", NEW d \in Inventory(cfg),
         cfg.upstream[d] \cap left = {},
         \A x \in Inventory(cfg) : x \notin left => Decisive(ledger, cfg, x)
  PROVE  RootCauses(cfg.upstream[d]) = CulpritsOf(ledger, cfg, d)
<1> DEFINE E == {x \in Inventory(cfg) : x \notin left}
<1>1. /\ cfg \in Configs /\ Inventory(cfg) \subseteq Devices
      /\ cfg.upstream[d] \subseteq Inventory(cfg)
  BY SnapshotIs DEF TypeOK
<1>2. E \in SUBSET Devices /\ cfg.upstream[d] \subseteq E
  BY <1>1
<1>3. \A x \in E : cfg.upstream[x] \subseteq E
  <2>1. ASSUME NEW x \in E
        PROVE  cfg.upstream[x] \subseteq E
    <3>1. cfg.upstream[x] \cap left = {} /\ cfg.upstream[x] \subseteq Inventory(cfg)
      BY <1>1, SnapshotIs DEF OrderInv
    <3> QED BY ONLY <3>1
  <2> QED BY <2>1
<1>4. \A x \in E :
        /\ ledger[x].state = VerdictOf(ledger, cfg, x)
        /\ VerdictOf(ledger, cfg, x) = "unknown" => ledger[x].unavailable = cfg.upstream[x]
  BY DEF Decisive
<1> HIDE DEF E
<1>5. PICK S \in SUBSET Devices : S = cfg.upstream[d]
  BY <1>1
<1>6. ASSUME NEW r \in RootCauses(S)
      PROVE  r \in CulpritsOf(ledger, cfg, d)
  <2>1. r \in Walked(S) /\ r \in Devices /\ ledger[r].state = "critical"
    BY <1>6, WalkIs DEF RootCauses
  <2>2. ASSUME NEW T \in SUBSET Devices, S \subseteq T,
               \A x \in T : VerdictOf(ledger, cfg, x) = "unknown"
                              => cfg.upstream[x] \subseteq T
        PROVE  r \in T /\ r \in E
    <3>1. PICK U \in SUBSET Devices : U = T \cap E
      BY <1>2
    <3>2. S \subseteq U
      BY <1>2, <1>5, <2>2, <3>1
    <3>3. \A x \in U : ledger[x].state = "unknown" => ledger[x].unavailable \subseteq U
      BY <1>3, <1>4, <2>2, <3>1
    <3>4. Walked(S) \subseteq U
      BY <3>2, <3>3, WalkIs
    <3> QED BY <2>1, <3>1, <3>4
  <2>3. r \in E
    <3>1. Devices \in SUBSET Devices
      OBVIOUS
    <3>2. \A x \in Devices : cfg.upstream[x] \subseteq Devices
      BY <1>1, SnapshotIs
    <3> QED BY <2>2, <3>1, <3>2
  <2>4. VerdictOf(ledger, cfg, r) = "critical"
    BY <1>4, <2>1, <2>3
  <2> QED BY <1>5, <2>1, <2>2, <2>4 DEF CulpritsOf
<1>7. ASSUME NEW r \in CulpritsOf(ledger, cfg, d)
      PROVE  r \in RootCauses(S)
  <2>1. /\ r \in Devices /\ VerdictOf(ledger, cfg, r) = "critical"
        /\ \A T \in SUBSET Devices :
             /\ S \subseteq T
             /\ \A x \in T : VerdictOf(ledger, cfg, x) = "unknown"
                               => cfg.upstream[x] \subseteq T
             => r \in T
    BY <1>5, <1>7 DEF CulpritsOf
  <2>2. r \in E
    BY <1>2, <1>3, <1>5, <2>1
  <2>3. ASSUME NEW T \in SUBSET Devices, S \subseteq T,
               \A x \in T : ledger[x].state = "unknown" => ledger[x].unavailable \subseteq T
        PROVE  r \in T
    <3>1. PICK U \in SUBSET Devices : U = T \cap E
      BY <1>2
    <3>2. S \subseteq U
      BY <1>2, <1>5, <2>3, <3>1
    <3>3. \A x \in U : VerdictOf(ledger, cfg, x) = "unknown" => cfg.upstream[x] \subseteq U
      BY <1>3, <1>4, <2>3, <3>1
    <3> QED BY <2>1, <3>1, <3>2, <3>3
  <2>4. ledger[r].state = "critical"
    BY <1>4, <2>1, <2>2
  <2> QED BY <2>1, <2>3, <2>4 DEF RootCauses, Walked
<1> QED BY <1>5, <1>6, <1>7

LEMMA DecisiveEvaluate ==
  ASSUME TypeOK, FrameInv, OrderInv, NEW d \in left, Evaluate(d), ~Overflow,
         Decided(ledger, cfg),
         \A x \in Inventory(cfg) : x \notin left => Decisive(ledger, cfg, x)
  PROVE  \A x \in Inventory(cfg) : x \notin left' => Decisive(ledger', cfg, x)
<1>1. /\ d \in Devices /\ pc = "evaluating" /\ d \in Inventory(cfg)
      /\ cfg \in Configs /\ Inventory(cfg) \subseteq Devices
      /\ ledger \in [Devices -> Entry]
      /\ cfg.upstream[d] \subseteq Inventory(cfg) /\ cfg.upstream[d] \subseteq Devices
  BY EvaluateIs, SnapshotIs DEF FrameInv, TypeOK
<1>2. cfg.upstream[d] \cap left = {}
  BY DEF Evaluate, Turn
<1>3. ASSUME \A x \in Devices : x # d => ledger'[x] = ledger[x],
             ledger'[d].outcome = ledger[d].outcome,
             ledger'[d].temperature = ledger[d].temperature,
             left' = left \ {d},
             ledger'[d].state = VerdictOf(ledger, cfg, d),
             VerdictOf(ledger, cfg, d) = "unknown" =>
               /\ ledger'[d].roots = CulpritsOf(ledger, cfg, d)
               /\ ledger'[d].unavailable = cfg.upstream[d],
             VerdictOf(ledger, cfg, d) # "unknown" => ledger'[d].roots = {}
      PROVE  \A x \in Inventory(cfg) : x \notin left' => Decisive(ledger', cfg, x)
  <2>1. \A x \in Devices : ledger'[x].outcome = ledger[x].outcome
                             /\ ledger'[x].temperature = ledger[x].temperature
    BY <1>3
  <2>2. \A x \in Devices : VerdictOf(ledger', cfg, x) = VerdictOf(ledger, cfg, x)
    <3>1. PICK M : M = ledger'
      OBVIOUS
    <3>2. \A x \in Devices : VerdictOf(M, cfg, x) = VerdictOf(ledger, cfg, x)
      BY <1>1, <2>1, <3>1, VerdictSame
    <3> QED BY <3>1, <3>2
  <2>3. \A x \in Devices : CulpritsOf(ledger', cfg, x) = CulpritsOf(ledger, cfg, x)
    <3>1. PICK M : M = ledger'
      OBVIOUS
    <3>2. \A x \in Devices : CulpritsOf(M, cfg, x) = CulpritsOf(ledger, cfg, x)
      BY <1>1, <2>2, <3>1, CulpritsSame
    <3> QED BY <3>1, <3>2
  <2>4. ASSUME NEW x \in Inventory(cfg), x \notin left'
        PROVE  Decisive(ledger', cfg, x)
    <3>1. x \in Devices
      BY <1>1
    <3>2. CASE x = d
      BY <1>3, <2>2, <2>3, <3>1, <3>2 DEF Decisive
    <3>3. CASE x # d
      <4>1. Decisive(ledger, cfg, x) /\ ledger'[x] = ledger[x]
        BY <1>3, <2>4, <3>1, <3>3
      <4> QED BY <2>2, <2>3, <3>1, <4>1 DEF Decisive
    <3> QED BY <3>2, <3>3
  <2> QED BY <2>4
<1>4. ledger[d].outcome \in {"none", "ok", "fail"}
        /\ ledger[d].temperature \in Temperatures \cup {NoReading}
        /\ cfg.warning[d] \in Nat /\ Temperatures \subseteq Nat
  BY <1>1, EntryFields, SnapshotIs, HealthAssumption
<1>5. {"healthy", "warning", "critical", "unknown"} \subseteq States \ {"none"}
      /\ {"reachable", "temperature_threshold", "direct_unreachable",
          "upstream_unreachable"} \subseteq Reasons \ {"none"}
      /\ {} \in SUBSET Devices
  BY DEF States, Reasons
<1>6. ASSUME NEW state \in States \ {"none"}, NEW reason \in Reasons \ {"none"},
             Assign(d, state, reason, {}, {}), state = VerdictOf(ledger, cfg, d),
             state # "unknown"
      PROVE  \A x \in Inventory(cfg) : x \notin left' => Decisive(ledger', cfg, x)
  <2>1. /\ \A x \in Devices : x # d => ledger'[x] = ledger[x]
        /\ ledger'[d].outcome = ledger[d].outcome
        /\ ledger'[d].temperature = ledger[d].temperature
        /\ ledger'[d].state = state /\ ledger'[d].roots = {}
    <3>1. PICK N \in SUBSET Devices : N = {}
      OBVIOUS
    <3>2. Assign(d, state, reason, N, N)
      BY <1>6, <3>1
    <3>3. /\ \A x \in Devices : x # d => ledger'[x] = ledger[x]
          /\ ledger'[d].outcome = ledger[d].outcome
          /\ ledger'[d].temperature = ledger[d].temperature
          /\ ledger'[d].state = state /\ ledger'[d].roots = N
      <4>1. d \in Devices
        BY <1>1
      <4> QED BY <3>2, <4>1, AssignIs
    <3> QED BY <3>1, <3>3
  <2>2. left' = left \ {d}
    BY <1>6 DEF Assign
  <2> QED BY <1>3, <1>6, <2>1, <2>2
<1>7. CASE Responds(d)
             /\ IF ledger[d].temperature # NoReading /\ ledger[d].temperature >= cfg.warning[d]
                THEN Assign(d, "warning", "temperature_threshold", {}, {})
                ELSE Assign(d, "healthy", "reachable", {}, {})
  <2>1. ledger[d].temperature >= cfg.warning[d] => ledger[d].temperature # NoReading
    BY <1>4 DEF NoReading
  <2>2. VerdictOf(ledger, cfg, d) =
          IF ledger[d].temperature >= cfg.warning[d] THEN "warning" ELSE "healthy"
    BY <1>7 DEF VerdictOf, Responds
  <2>3. CASE ledger[d].temperature >= cfg.warning[d]
    <3>1. Assign(d, "warning", "temperature_threshold", {}, {})
      BY <1>7, <2>1, <2>3
    <3> QED BY <1>5, <1>6, <2>2, <2>3, <3>1
  <2>4. CASE ~(ledger[d].temperature >= cfg.warning[d])
    <3>1. Assign(d, "healthy", "reachable", {}, {})
      BY <1>7, <2>4
    <3> QED BY <1>5, <1>6, <2>2, <2>4, <3>1
  <2> QED BY <2>3, <2>4
<1>8. CASE DirectFailure(d) /\ Assign(d, "critical", "direct_unreachable", {}, {})
  <2>1. VerdictOf(ledger, cfg, d) = "critical"
    BY <1>8 DEF VerdictOf, DirectFailure, Down, Responds
  <2> QED BY <1>5, <1>6, <1>8, <2>1
<1>9. CASE UpstreamFailure(d)
             /\ Assign(d, "unknown", "upstream_unreachable", cfg.upstream[d],
                       RootCauses(cfg.upstream[d]))
  <2>1. VerdictOf(ledger, cfg, d) = "unknown"
    BY <1>9 DEF VerdictOf, UpstreamFailure, Down
  <2>2. PICK S \in SUBSET Devices : S = cfg.upstream[d]
    BY <1>1
  <2>3. PICK R \in SUBSET Devices : R = RootCauses(S)
    BY DEF RootCauses, Walked
  <2>4. R = CulpritsOf(ledger, cfg, d)
    BY <1>1, <1>2, <2>2, <2>3, RootsAreCulprits
  <2>5. Assign(d, "unknown", "upstream_unreachable", S, R)
    BY <1>9, <2>2, <2>3
  <2>6. /\ \A x \in Devices : x # d => ledger'[x] = ledger[x]
        /\ ledger'[d].outcome = ledger[d].outcome
        /\ ledger'[d].temperature = ledger[d].temperature
        /\ ledger'[d].state = "unknown" /\ ledger'[d].roots = R
        /\ ledger'[d].unavailable = S
    BY <1>1, <1>5, <2>5, AssignIs
  <2>7. left' = left \ {d}
    BY <2>5 DEF Assign
  <2> QED BY <1>3, <2>1, <2>2, <2>4, <2>6, <2>7
<1>10. CASE Undecided(d) /\ Keep(d)
  <2>1. Down(d)
    BY <1>1, <1>10 DEF Decided, DownIn, Down, Undecided, Responds
  <2>2. cfg.upstream[d] # {} /\ \A u \in cfg.upstream[d] : ~Responds(u)
    BY <1>10, <2>1 DEF Undecided, DirectFailure
  <2>3. ASSUME NEW u \in cfg.upstream[d]
        PROVE  Down(u) /\ Impaired(u)
    <3>1. u \in Inventory(cfg) /\ u \notin left /\ ~Responds(u)
      BY <1>1, <1>2, <2>2
    <3>2. Down(u)
      BY <3>1 DEF Decided, DownIn, Down, Responds
    <3>3. ledger[u].state = VerdictOf(ledger, cfg, u)
      BY <3>1 DEF Decisive
    <3>4. VerdictOf(ledger, cfg, u) \in {"critical", "unknown"}
      BY <3>1 DEF VerdictOf, Responds
    <3> QED BY <3>2, <3>3, <3>4 DEF Impaired
  <2> QED BY <1>10, <2>1, <2>2, <2>3 DEF Undecided, UpstreamFailure
<1> QED BY <1>7, <1>8, <1>9, <1>10 DEF Evaluate

LEMMA DecisiveStep ==
  TypeOK /\ FrameInv /\ OrderInv /\ DecisiveInv /\ [Next]_vars => DecisiveInv'
<1> SUFFICES ASSUME TypeOK, FrameInv, OrderInv, DecisiveInv, [Next]_vars
             PROVE  DecisiveInv'
  OBVIOUS
<1> USE DEF configVars, batchVars, cycleVars, evalVars, pubVars
<1>1. ASSUME UNCHANGED <<cfg, left, ledger>>,
             pc' = pc \/ (pc' = "publishing" /\ pc = "evaluating")
               \/ pc' \in {"idle", "polling", "stopped"}
      PROVE  DecisiveInv'
  BY <1>1 DEF DecisiveInv
<1>2. ASSUME NEW c \in Configs, Reload(c)
      PROVE  DecisiveInv'
  BY <1>1, <1>2 DEF Reload
<1>3. CASE Cancel \/ Halt \/ Exit
  BY <1>1, <1>3 DEF Cancel, Halt, Exit
<1>4. CASE Restart
  BY <1>4 DEF Restart, DecisiveInv
<1>5. ASSUME NEW S \in SUBSET Devices, StartCycle(S)
      PROVE  DecisiveInv'
  BY <1>5 DEF StartCycle, DecisiveInv
<1>6. CASE Dispatch \/ StopDispatch
  BY <1>1, <1>6 DEF Dispatch, StopDispatch
<1>7. ASSUME NEW d \in running, NEW t, PollSucceeds(d, t) \/ PollFails(d)
      PROVE  DecisiveInv'
  BY <1>1, <1>7 DEF PollSucceeds, PollFails
<1>8. CASE DiscardBatch
  BY <1>1, <1>8 DEF DiscardBatch, EndCycle
<1>9. CASE CommitBatch
  BY <1>9 DEF CommitBatch, DecisiveInv
<1>10. ASSUME NEW d \in left, Evaluate(d)
       PROVE  DecisiveInv'
  <2>1. SUFFICES ASSUME pc' \in {"evaluating", "publishing"}, Decided(ledger', cfg')
                 PROVE  \A x \in Inventory(cfg') : x \notin left' => Decisive(ledger', cfg', x)
    BY DEF DecisiveInv
  <2>2. cfg' = cfg /\ ~Overflow /\ pc = "evaluating" /\ cfg \in Configs
          /\ Inventory(cfg) \subseteq Devices
    BY <1>10, <2>1, EvaluateIs, SnapshotIs DEF Overflow, TypeOK
  <2>3. \A x \in Devices : ledger'[x].outcome = ledger[x].outcome
                             /\ ledger'[x].failures = ledger[x].failures
    <3>1. ASSUME NEW state \in States \ {"none"}, NEW reason \in Reasons \ {"none"},
                 NEW unavailable \in SUBSET Devices, NEW roots \in SUBSET Devices,
                 Assign(d, state, reason, unavailable, roots)
          PROVE  \A x \in Devices : ledger'[x].outcome = ledger[x].outcome
                                      /\ ledger'[x].failures = ledger[x].failures
      <4>1. d \in Devices
        BY <1>10, EvaluateIs
      <4> QED BY <3>1, <4>1, AssignIs
    <3>2. CASE Keep(d)
      BY <3>2 DEF Keep
    <3> QED BY <1>10, <2>2, <3>1, <3>2, EvaluateIs
  <2>4. Decided(ledger, cfg)
    BY <2>1, <2>2, <2>3 DEF Decided, DownIn
  <2>5. \A x \in Inventory(cfg) : x \notin left => Decisive(ledger, cfg, x)
    BY <2>2, <2>4 DEF DecisiveInv
  <2> QED BY <1>10, <2>2, <2>4, <2>5, DecisiveEvaluate
<1>11. CASE EvaluationDone
  BY <1>1, <1>11 DEF EvaluationDone
<1>12. CASE PublishHealth \/ PublishHealthFails
  BY <1>1, <1>12 DEF PublishHealth, PublishHealthFails, EndCycle
<1>13. CASE UNCHANGED vars
  BY <1>1, <1>13 DEF vars
<1> QED BY <1>2, <1>3, <1>4, <1>5, <1>6, <1>7, <1>8, <1>9, <1>10, <1>11, <1>12,
           <1>13 DEF Next

-----------------------------------------------------------------------------
(***************************************************************************)
(* The invariant, and what follows from it.                                *)
(***************************************************************************)

LEMMA InitIInv == Init => IInv
<1> SUFFICES ASSUME Init PROVE IInv
  OBVIOUS
<1>1. /\ pc = "idle" /\ left = {} /\ active = cfg
      /\ \A d \in Devices : ledger[d].state = "none"
  BY UnobservedIs DEF Init
<1>2. TypeOK
  BY InitTypes
<1>3. FrameInv /\ OrderInv /\ SentInv /\ DecisiveInv
  BY <1>1 DEF FrameInv, OrderInv, SentInv, DecisiveInv
<1>4. EvidenceInv
  BY <1>1 DEF EvidenceInv, Evidence, ImpairedIn, Justified
<1> QED BY <1>2, <1>3, <1>4 DEF IInv

LEMMA IInvStep == IInv /\ [Next]_vars => IInv'
BY TypeStep, FrameStep, SentStep, EvidenceStep, DecisiveStep DEF IInv

\* The invariant holds in every run of the collector.
THEOREM Inductive == Spec => []IInv
<1> QED BY InitIInv, IInvStep, PTL DEF Spec

\* For any inventory without cycles, any batches and thresholds, an unknown device
\* rests on upstreams and root causes that are down now, and a batch with nobody
\* pending gives what the outcomes alone imply (applyDependencyCorrelation).
THEOREM VerdictsHold == Spec => []VerdictsAreSound
<1>1. ASSUME IInv PROVE VerdictsAreSound
  <2>1. TypeOK
    BY <1>1 DEF IInv
  <2>2. UnknownIsJustified
    <3>1. SUFFICES ASSUME reloads = 0, pc \notin {"evaluating", "stopped"},
                          NEW d \in Devices, ledger[d].state = "unknown"
                   PROVE  /\ cfg.upstream[d] # {}
                          /\ \A u \in cfg.upstream[d] : Down(u) /\ Impaired(u)
                          /\ ledger[d].roots # {}
                          /\ \A r \in ledger[d].roots :
                               Down(r) /\ ledger[r].state = "critical"
      BY DEF UnknownIsJustified
    <3>2. left = {} /\ Evidence(ledger, cfg, left)
      BY <1>1, <3>1 DEF IInv, FrameInv, EvidenceInv
    <3>3. Justified(ledger, cfg, d)
      BY <3>1, <3>2 DEF Evidence
    <3> QED BY <3>1, <3>3 DEF Justified, DownIn, ImpairedIn, Down, Impaired
  <2>3. DecisiveBatch
    <3>1. SUFFICES ASSUME pc = "publishing",
                          \A d \in Inventory(cfg) : Responds(d) \/ Down(d),
                          NEW d \in Inventory(cfg)
                   PROVE  /\ ledger[d].state = Verdict(d)
                          /\ ledger[d].roots =
                               IF Verdict(d) = "unknown" THEN Culprits(d) ELSE {}
      BY DEF DecisiveBatch
    <3>2. left = {} /\ Decided(ledger, cfg)
      BY <1>1, <3>1 DEF IInv, FrameInv, Decided, DownIn, Responds, Down
    <3>3. Decisive(ledger, cfg, d)
      BY <1>1, <3>1, <3>2 DEF IInv, DecisiveInv
    <3>4. \A x : Verdict(x) = VerdictOf(ledger, cfg, x)
      BY DEF Verdict, VerdictOf, Responds
    <3>5. Culprits(d) = CulpritsOf(ledger, cfg, d)
      BY <3>4 DEF Culprits, CulpritsOf
    <3> QED BY <3>3, <3>4, <3>5 DEF Decisive
  <2> QED BY <2>1, <2>2, <2>3 DEF VerdictsAreSound
<1> QED BY <1>1, Inductive, PTL

\* No change of a device's state goes unreported, for any inventories, reloads,
\* batches and restarts, unless publishing it failed (publishHealth, ApplyBatch).
THEOREM SentHolds == Spec => []SentMatchesLedger
<1>1. ASSUME IInv PROVE SentMatchesLedger
  BY <1>1 DEF IInv, SentInv, SentMatchesLedger, Says
<1> QED BY <1>1, Inductive, PTL

-----------------------------------------------------------------------------
(***************************************************************************)
(* Sums, averages, percentages and lists, whatever the columns hold.       *)
(***************************************************************************)

\* Numbers reached from 0 one by one are all the naturals.
LEMMA PollCounting ==
  ASSUME NEW T, 0 \in T, \A n \in Nat : n \in T => n + 1 \in T
  PROVE  Nat \subseteq T
<1> SUFFICES ASSUME Nat \ T # {} PROVE FALSE
  OBVIOUS
<1>1. IsWellFoundedOn(OpToRel(<, Nat), Nat)
  BY NatLessThanWellFounded
<1>2. PICK m \in Nat \ T : \A k \in Nat \ T : <<k, m>> \notin OpToRel(<, Nat)
  BY <1>1, WFMin
<1>3. \A k \in Nat \ T : ~(k < m)
  BY <1>2 DEF OpToRel
<1>4. m # 0 /\ m - 1 \in Nat /\ m - 1 < m /\ (m - 1) + 1 = m
  OBVIOUS
<1>5. m - 1 \in T
  BY <1>3, <1>4
<1> QED BY <1>4, <1>5

\* A set that has every subset of S of which it has all subsets with one
\* element less, has them all.
LEMMA PollRemoving ==
  ASSUME NEW S, IsFiniteSet(S), NEW T,
         \A s \in SUBSET S : (\A x \in s : s \ {x} \in T) => s \in T
  PROVE  SUBSET S \subseteq T
<1> DEFINE Small == {n \in Nat : \A s \in SUBSET S : Cardinality(s) <= n => s \in T}
<1>1. \A s \in SUBSET S : IsFiniteSet(s) /\ Cardinality(s) \in Nat
  BY FS_Subset, FS_CardinalityType
<1>2. 0 \in Small
  BY <1>1, FS_EmptySet
<1>3. ASSUME NEW n \in Nat, n \in Small PROVE n + 1 \in Small
  <2> SUFFICES ASSUME NEW s \in SUBSET S, Cardinality(s) <= n + 1, NEW x \in s
               PROVE  s \ {x} \in T
    BY <1>3
  <2>1. Cardinality(s \ {x}) = Cardinality(s) - 1
    BY <1>1, FS_RemoveElement
  <2>2. s \ {x} \in SUBSET S
    OBVIOUS
  <2>3. Cardinality(s) \in Nat /\ Cardinality(s \ {x}) <= n
    BY <1>1, <2>1
  <2> QED BY <1>3, <2>2, <2>3
<1> HIDE DEF Small
<1>4. Nat \subseteq Small
  BY <1>2, <1>3, PollCounting
<1>5. ASSUME NEW s \in SUBSET S PROVE s \in T
  <2>1. Cardinality(s) \in Small
    BY <1>1, <1>4
  <2> QED BY <1>1, <2>1 DEF Small
<1> QED BY <1>5

\* A fold over the subsets of S: op[x][v] is the value after the element x that
\* was picked, given the value v of the others.
IsFold(S, V, base, pick, op) ==
  /\ IsFiniteSet(S) /\ base \in V /\ op \in [S -> [V -> V]]
  /\ \A s \in SUBSET S : s # {} => pick[s] \in s

Folding(g, S, base, pick, op) ==
  \A s \in SUBSET S :
    g[s] = IF s = {} THEN base ELSE op[pick[s]][g[s \ {pick[s]}]]

\* What a fold computes exists.
LEMMA PollFoldExists ==
  ASSUME NEW S, NEW V, NEW base, NEW pick, NEW op, IsFold(S, V, base, pick, op)
  PROVE  \E g \in [SUBSET S -> V] : Folding(g, S, base, pick, op)
<1> USE DEF IsFold
<1> DEFINE Next1(g, s) == IF s = {} THEN base ELSE op[pick[s]][g[s \ {pick[s]}]]
           Right(n) == {g \in [SUBSET S -> V] :
                          \A s \in SUBSET S : Cardinality(s) <= n => g[s] = Next1(g, s)}
           T == {n \in Nat : Right(n) # {}}
<1>1. \A s \in SUBSET S : IsFiniteSet(s) /\ Cardinality(s) \in Nat
  BY FS_Subset, FS_CardinalityType
<1>2. 0 \in T
  <2>1. [s \in SUBSET S |-> base] \in Right(0)
    BY <1>1, FS_EmptySet
  <2> QED BY <2>1
<1>3. ASSUME NEW n \in Nat, n \in T PROVE n + 1 \in T
  <2>1. PICK g : g \in Right(n)
    BY <1>3
  <2> DEFINE h == [s \in SUBSET S |-> Next1(g, s)]
  <2>2. \A s \in SUBSET S : s # {} => pick[s] \in S /\ s \ {pick[s]} \in SUBSET S
    OBVIOUS
  <2>3. h \in [SUBSET S -> V]
    BY <2>1, <2>2
  <2>4. ASSUME NEW s \in SUBSET S, Cardinality(s) <= n + 1
        PROVE  h[s] = Next1(h, s)
    <3>1. CASE s = {}
      BY <3>1
    <3>2. CASE s # {}
      <4> DEFINE r == s \ {pick[s]}
      <4>1. r \in SUBSET S /\ Cardinality(r) <= n
        <5>1. pick[s] \in s
          BY <3>2
        <5>2. Cardinality(r) = Cardinality(s) - 1
          BY <1>1, <5>1, FS_RemoveElement
        <5> QED BY <1>1, <2>4, <5>2
      <4>2. g[r] = h[r]
        BY <2>1, <4>1
      <4> QED BY <3>2, <4>2
    <3> QED BY <3>1, <3>2
  <2> HIDE DEF h, Next1
  <2>5. h \in Right(n + 1)
    BY <2>3, <2>4
  <2> QED BY <2>5
<1> HIDE DEF T
<1>4. Cardinality(S) \in T
  <2>1. Nat \subseteq T
    BY <1>2, <1>3, PollCounting
  <2> QED BY <1>1, <2>1
<1>5. PICK g : g \in Right(Cardinality(S))
  BY <1>4 DEF T
<1>6. \A s \in SUBSET S : Cardinality(s) <= Cardinality(S)
  BY FS_Subset
<1> QED BY <1>5, <1>6 DEF Folding

First(s) == CHOOSE x \in s : TRUE

\* g holds the sums over the subsets of f's domain.
Adds(g, f) ==
  \A s \in SUBSET DOMAIN f :
    g[s] = IF s = {} THEN 0 ELSE f[First(s)] + g[s \ {First(s)}]

\* A sum is taken element by element.
LEMMA PollSumRecursion ==
  ASSUME NEW f, IsFiniteSet(DOMAIN f), \A i \in DOMAIN f : f[i] \in Int
  PROVE  \E g : Sum(f) = g[DOMAIN f] /\ Adds(g, f)
<1> DEFINE D == DOMAIN f
           Iter(g) == [s \in SUBSET D |->
                         IF s = {} THEN 0
                         ELSE f[CHOOSE x \in s : TRUE] + g[s \ {CHOOSE x \in s : TRUE}]]
<1>1. \E g : g = Iter(g)
  <2> DEFINE pick == [s \in SUBSET D |-> CHOOSE x \in s : TRUE]
             op   == [x \in D |-> [v \in Int |-> f[x] + v]]
  <2>1. \A s \in SUBSET D : s # {} => pick[s] \in s
    OBVIOUS
  <2>2. IsFold(D, Int, 0, pick, op)
    BY DEF IsFold
  <2> HIDE DEF pick, op, D
  <2>3. PICK g \in [SUBSET D -> Int] : Folding(g, D, 0, pick, op)
    BY <2>2, PollFoldExists
  <2>4. \A s \in SUBSET D :
          g[s] = IF s = {} THEN 0 ELSE op[pick[s]][g[s \ {pick[s]}]]
    BY <2>3 DEF Folding
  <2>5. ASSUME NEW s \in SUBSET D PROVE g[s] = Iter(g)[s]
    <3>1. CASE s = {}
      BY <2>4, <3>1
    <3>2. CASE s # {}
      <4>1. pick[s] = CHOOSE x \in s : TRUE
        BY DEF pick
      <4>2. pick[s] \in D /\ g[s \ {pick[s]}] \in Int
        BY <2>1, <2>3, <3>2
      <4>3. g[s] = f[pick[s]] + g[s \ {pick[s]}]
        BY <2>4, <3>2, <4>2 DEF op
      <4> QED BY <3>2, <4>1, <4>3
    <3> QED BY <3>1, <3>2
  <2>6. g = Iter(g)
    BY <2>3, <2>5
  <2> QED BY <2>6
<1> DEFINE iter == CHOOSE g : g = Iter(g)
<1>2. iter = Iter(iter)
  BY <1>1
<1>3. Sum(f) = iter[D]
  BY DEF Sum, MapThenSumSet, MapThenFoldSet
<1> HIDE DEF iter
<1>4. \A s \in SUBSET D : iter[s] = Iter(iter)[s]
  BY <1>2
<1> QED BY <1>3, <1>4 DEF Adds, First

\* Sums are natural numbers, and grow with what is summed.
LEMMA PollSumOrdered ==
  ASSUME NEW f, NEW h, IsFiniteSet(DOMAIN f), DOMAIN h = DOMAIN f,
         \A i \in DOMAIN f : f[i] \in Nat /\ h[i] \in Nat /\ f[i] <= h[i]
  PROVE  Sum(f) \in Nat /\ Sum(h) \in Nat /\ Sum(f) <= Sum(h)
<1> DEFINE D == DOMAIN f
<1>1. \A i \in D : f[i] \in Int /\ h[i] \in Int
  OBVIOUS
<1>2. PICK gf : Sum(f) = gf[D] /\ Adds(gf, f)
  BY <1>1, PollSumRecursion
<1>3. PICK gh : Sum(h) = gh[D] /\ Adds(gh, h)
  <2>1. IsFiniteSet(DOMAIN h) /\ \A i \in DOMAIN h : h[i] \in Int
    BY <1>1
  <2> QED BY <2>1, PollSumRecursion
<1>4. \A s \in SUBSET D :
        /\ gf[s] = IF s = {} THEN 0 ELSE f[First(s)] + gf[s \ {First(s)}]
        /\ gh[s] = IF s = {} THEN 0 ELSE h[First(s)] + gh[s \ {First(s)}]
  BY <1>2, <1>3 DEF Adds
<1> DEFINE T == {s \in SUBSET D : gf[s] \in Nat /\ gh[s] \in Nat /\ gf[s] <= gh[s]}
<1>5. ASSUME NEW s \in SUBSET D, \A x \in s : s \ {x} \in T
      PROVE  s \in T
  <2>1. CASE s = {}
    <3>1. gf[s] = 0 /\ gh[s] = 0
      BY <1>4, <2>1
    <3> QED BY <3>1
  <2>2. CASE s # {}
    <3> PICK x \in s : x = First(s)
      BY <2>2 DEF First
    <3>1. gf[s] = f[x] + gf[s \ {x}] /\ gh[s] = h[x] + gh[s \ {x}]
      BY <1>4, <2>2
    <3>2. s \ {x} \in T
      BY <1>5
    <3>3. f[x] \in Nat /\ h[x] \in Nat /\ f[x] <= h[x]
      OBVIOUS
    <3> QED BY <3>1, <3>2, <3>3
  <2> QED BY <2>1, <2>2
<1> HIDE DEF T
<1>6. SUBSET D \subseteq T
  <2>1. IsFiniteSet(D)
    OBVIOUS
  <2> HIDE DEF D
  <2> QED BY ONLY <1>5, <2>1, PollRemoving
<1>7. D \in T
  BY <1>6
<1> QED BY <1>2, <1>3, <1>7 DEF T

\* A sum of percentages is at most 100 for each of them.
LEMMA PollSumOfPercentages ==
  ASSUME NEW f, IsFiniteSet(DOMAIN f), \A i \in DOMAIN f : f[i] \in 0 .. 100
  PROVE  Sum(f) \in 0 .. 100 * Cardinality(DOMAIN f)
<1> DEFINE D == DOMAIN f
<1>1. \A i \in D : f[i] \in Int
  OBVIOUS
<1>2. PICK g : Sum(f) = g[D] /\ Adds(g, f)
  BY <1>1, PollSumRecursion
<1> DEFINE T == {s \in SUBSET D : g[s] \in Nat /\ g[s] <= 100 * Cardinality(s)}
<1>3. \A s \in SUBSET D : IsFiniteSet(s) /\ Cardinality(s) \in Nat
  BY FS_Subset, FS_CardinalityType
<1>4. ASSUME NEW s \in SUBSET D, \A x \in s : s \ {x} \in T
      PROVE  s \in T
  <2>1. CASE s = {}
    BY <1>2, <2>1, FS_EmptySet DEF Adds
  <2>2. CASE s # {}
    <3> PICK x \in s : x = First(s)
      BY <2>2 DEF First
    <3>1. g[s] = f[x] + g[s \ {x}]
      BY <1>2, <2>2 DEF Adds
    <3>2. s \ {x} \in T
      BY <1>4
    <3>3. Cardinality(s \ {x}) = Cardinality(s) - 1
      BY <1>3, FS_RemoveElement
    <3>4. f[x] \in 0 .. 100
      OBVIOUS
    <3> QED BY <1>3, <3>1, <3>2, <3>3, <3>4
  <2> QED BY <2>1, <2>2
<1> HIDE DEF T
<1>5. SUBSET D \subseteq T
  <2>1. IsFiniteSet(D)
    OBVIOUS
  <2> HIDE DEF D
  <2> QED BY ONLY <1>4, <2>1, PollRemoving
<1>6. D \in T
  BY <1>5
<1> QED BY <1>2, <1>3, <1>6 DEF T

\* A part of a whole is a percentage of it.
LEMMA PollPercentage ==
  ASSUME NEW part \in Nat, NEW whole \in Nat, part <= whole
  PROVE  Percent(part, whole) \subseteq 0 .. 100
<1> SUFFICES ASSUME whole > 0 PROVE (part * 100) \div whole \in 0 .. 100
  BY DEF Percent
<1> DEFINE q == (part * 100) \div whole
<1>1. q \in Int /\ whole * q <= part * 100 /\ part * 100 < whole * q + whole
  OBVIOUS
<1> QED BY <1>1

LEMMA PollMean ==
  ASSUME NEW n \in Nat \ {0}, NEW s \in 0 .. 100 * n
  PROVE  s \div n \in 0 .. 100
OBVIOUS

-----------------------------------------------------------------------------
(***************************************************************************)
(* The interface filter.                                                   *)
(***************************************************************************)

\* A finite set of naturals that is not empty has a greatest element.
LEMMA PollGreatest ==
  ASSUME NEW S \in SUBSET Nat, IsFiniteSet(S), S # {}
  PROVE  Max(S) \in S /\ \A x \in S : x <= Max(S)
<1> DEFINE T == {s \in SUBSET S : s # {} => \E m \in s : \A x \in s : x <= m}
<1>1. ASSUME NEW s \in SUBSET S, \A x \in s : s \ {x} \in T
      PROVE  s \in T
  <2> SUFFICES ASSUME NEW x \in s PROVE \E m \in s : \A y \in s : y <= m
    OBVIOUS
  <2>1. CASE s \ {x} = {}
    BY <2>1
  <2>2. CASE s \ {x} # {}
    <3>1. PICK m \in s \ {x} : \A y \in s \ {x} : y <= m
      BY <1>1, <2>2
    <3>2. CASE x <= m
      BY <3>1, <3>2
    <3>3. CASE ~(x <= m)
      BY <3>1, <3>3
    <3> QED BY <3>2, <3>3
  <2> QED BY <2>1, <2>2
<1> HIDE DEF T
<1>2. SUBSET S \subseteq T
  BY <1>1, PollRemoving
<1>3. S \in T
  BY <1>2
<1> QED BY <1>3 DEF T, Max

LEMMA PollLast ==
  ASSUME NEW n \in Nat, NEW s \in SUBSET (1 .. n), s # {}
  PROVE  Max(s) \in s
<1>1. IsFiniteSet(1 .. n)
  BY FS_Interval
<1>2. IsFiniteSet(s)
  BY <1>1, FS_Subset
<1> QED BY <1>2, PollGreatest

\* The outcome of a list in which a match decides: the result of any match.
MatchFold(g, n, M, start, value) ==
  \A s \in SUBSET (1 .. n) :
    g[s] = IF s = {} THEN start ELSE IF Max(s) \in M THEN value ELSE g[s \ {Max(s)}]

LEMMA PollAnyMatch ==
  ASSUME NEW n \in Nat, NEW M, NEW start, NEW value, NEW g,
         MatchFold(g, n, M, start, value)
  PROVE  g[1 .. n] = IF \E k \in 1 .. n : k \in M THEN value ELSE start
<1> DEFINE D == 1 .. n
           T == {s \in SUBSET D : g[s] = IF \E k \in s : k \in M THEN value ELSE start}
<1>1. ASSUME NEW s \in SUBSET D, \A x \in s : s \ {x} \in T
      PROVE  s \in T
  <2>1. g[s] = IF s = {} THEN start
               ELSE IF Max(s) \in M THEN value ELSE g[s \ {Max(s)}]
    BY DEF MatchFold
  <2>2. CASE s = {}
    BY <2>1, <2>2
  <2>3. CASE s # {}
    <3>1. Max(s) \in s
      BY <2>3, PollLast
    <3>2. s \ {Max(s)} \in T
      BY <1>1, <3>1
    <3>3. CASE Max(s) \in M
      BY <2>1, <2>3, <3>1, <3>3
    <3>4. CASE Max(s) \notin M
      BY <2>1, <2>3, <3>1, <3>2, <3>4
    <3> QED BY <3>3, <3>4
  <2> QED BY <2>2, <2>3
<1> HIDE DEF T
<1>2. IsFiniteSet(D)
  BY FS_Interval
<1> HIDE DEF D
<1>3. SUBSET D \subseteq T
  BY <1>1, <1>2, PollRemoving
<1>4. D \in T
  BY <1>3
<1> QED BY <1>4 DEF T, D

\* Such an outcome exists.
AnyMatch(n, M, start, value) ==
  [s \in SUBSET (1 .. n) |-> IF \E k \in s : k \in M THEN value ELSE start]

LEMMA PollMatchExists ==
  ASSUME NEW n \in Nat, NEW M, NEW start, NEW value
  PROVE  MatchFold(AnyMatch(n, M, start, value), n, M, start, value)
<1> DEFINE g == AnyMatch(n, M, start, value)
<1> USE DEF AnyMatch
<1>1. ASSUME NEW s \in SUBSET (1 .. n)
      PROVE  g[s] = IF s = {} THEN start
                    ELSE IF Max(s) \in M THEN value ELSE g[s \ {Max(s)}]
  <2>1. CASE s = {}
    BY <2>1
  <2>2. CASE s # {}
    <3>1. Max(s) \in s /\ s \ {Max(s)} \in SUBSET (1 .. n)
      BY <2>2, PollLast
    <3> QED BY <2>2, <3>1
  <2> QED BY <2>1, <2>2
<1> QED BY <1>1 DEF MatchFold

\* The two passes of Apply, for any interface.
LEMMA PollSelects ==
  ASSUME NEW c, NEW i,
         Compiled(c).includes \in Seq(Range(Compiled(c).includes)),
         Compiled(c).excludes \in Seq(Range(Compiled(c).excludes))
  PROVE  Selection(c, i) =
           IF \E r \in Range(Compiled(c).excludes) : RuleMatches(r, i)
             THEN "excluded_rule"
           ELSE IF \/ \E r \in Range(Compiled(c).includes) : RuleMatches(r, i)
                   \/ i.type \notin DefaultExcludedTypes
             THEN "selected"
           ELSE "excluded_default"
<1> DEFINE iter(seq, start, value) ==
             CHOOSE g : g = [s \in SUBSET DOMAIN seq |->
                               IF s = {} THEN start
                               ELSE IF RuleMatches(seq[Max(s)], i) THEN value
                                    ELSE g[s \ {Max(s)}]]
           pass(seq, start, value) == iter(seq, start, value)[DOMAIN seq]
           default == IF i.type \in DefaultExcludedTypes THEN "excluded_default"
                                                         ELSE "selected"
           includes == Compiled(c).includes
           excludes == Compiled(c).excludes
<1>1. Selection(c, i) =
        pass(excludes, pass(includes, default, "selected"), "excluded_rule")
  BY DEF Selection, FoldLeft, MapThenFoldSet
<1>2. ASSUME NEW seq, seq \in Seq(Range(seq)), NEW start, NEW value
      PROVE  pass(seq, start, value) =
               IF \E r \in Range(seq) : RuleMatches(r, i) THEN value ELSE start
  <2> DEFINE n == Len(seq)
             M == {k \in 1 .. n : RuleMatches(seq[k], i)}
             F(g) == [s \in SUBSET DOMAIN seq |->
                        IF s = {} THEN start
                        ELSE IF RuleMatches(seq[Max(s)], i) THEN value
                             ELSE g[s \ {Max(s)}]]
             G(g) == [s \in SUBSET (1 .. n) |->
                        IF s = {} THEN start
                        ELSE IF Max(s) \in M THEN value ELSE g[s \ {Max(s)}]]
  <2>1. n \in Nat /\ DOMAIN seq = 1 .. n
    BY <1>2
  <2>2. ASSUME NEW g PROVE F(g) = G(g)
    <3>1. ASSUME NEW s \in SUBSET (1 .. n) PROVE F(g)[s] = G(g)[s]
      BY <2>1, PollLast
    <3> QED BY <2>1, <3>1
  <2>3. \E g : g = F(g)
    <3>1. \E g : g = G(g)
      <4> DEFINE any == AnyMatch(n, M, start, value)
      <4>1. MatchFold(any, n, M, start, value)
        BY <2>1, PollMatchExists
      <4>2. any = [s \in SUBSET (1 .. n) |-> any[s]]
        BY DEF AnyMatch
      <4> HIDE DEF M, n, any
      <4>3. any = G(any)
        BY <4>1, <4>2 DEF MatchFold
      <4> QED BY <4>3
    <3> QED BY <2>2, <3>1
  <2> DEFINE g == iter(seq, start, value)
  <2>4. g = F(g)
    BY <2>3
  <2> HIDE DEF g, F
  <2>5. g = G(g)
    BY <2>2, <2>4
  <2>6. MatchFold(g, n, M, start, value)
    BY <2>5 DEF MatchFold
  <2>7. g[1 .. n] = IF \E k \in 1 .. n : k \in M THEN value ELSE start
    BY <2>1, <2>6, PollAnyMatch
  <2>8. (\E k \in 1 .. n : k \in M) <=> \E r \in Range(seq) : RuleMatches(r, i)
    BY <2>1 DEF Range
  <2> QED BY <2>1, <2>7, <2>8 DEF g
<1> HIDE DEF pass
<1> QED BY <1>1, <1>2

\* The list of one action's rules holds exactly those.
LEMMA PollListed ==
  ASSUME NEW rules, rules \in Seq(Range(rules)), NEW action
  PROVE  /\ Listed(rules, action) \in Seq(Range(rules))
         /\ Range(Listed(rules, action)) = {r \in Range(rules) : r.action = action}
<1> DEFINE D == DOMAIN rules
           R == Range(rules)
           F(g) == [s \in SUBSET D |->
                      IF s = {} THEN <<>>
                      ELSE IF rules[Max(s)].action = action
                             THEN Append(g[s \ {Max(s)}], rules[Max(s)])
                             ELSE g[s \ {Max(s)}]]
           iter == CHOOSE g : g = F(g)
<1>1. D = 1 .. Len(rules) /\ Len(rules) \in Nat /\ IsFiniteSet(D)
  BY FS_Interval
<1>2. ASSUME NEW s \in SUBSET D, s # {} PROVE Max(s) \in s
  BY <1>1, <1>2, PollLast
<1>3. \A k \in D : rules[k] \in R
  BY DEF Range
<1>4. \E g : g = F(g)
  <2> DEFINE pick == [s \in SUBSET D |-> Max(s)]
             op   == [k \in D |-> [v \in Seq(R) |->
                       IF rules[k].action = action THEN Append(v, rules[k]) ELSE v]]
  <2>1. \A s \in SUBSET D : s # {} => pick[s] \in s
    BY <1>2
  <2>2. op \in [D -> [Seq(R) -> Seq(R)]]
    BY <1>3
  <2>3. <<>> \in Seq(R)
    OBVIOUS
  <2> HIDE DEF pick, op, D, R
  <2>4. IsFold(D, Seq(R), <<>>, pick, op)
    BY <1>1, <2>1, <2>2, <2>3 DEF IsFold
  <2>5. PICK g \in [SUBSET D -> Seq(R)] : Folding(g, D, <<>>, pick, op)
    BY <2>4, PollFoldExists
  <2>6. ASSUME NEW s \in SUBSET D PROVE g[s] = F(g)[s]
    <3>1. g[s] = IF s = {} THEN <<>> ELSE op[pick[s]][g[s \ {pick[s]}]]
      BY <2>5 DEF Folding
    <3>2. CASE s = {}
      BY <3>1, <3>2
    <3>3. CASE s # {}
      <4>1. pick[s] = Max(s)
        BY DEF pick
      <4>2. Max(s) \in D /\ g[s \ {Max(s)}] \in Seq(R)
        BY <1>2, <2>5, <3>3
      <4>3. g[s] = op[Max(s)][g[s \ {Max(s)}]]
        BY <3>1, <3>3, <4>1
      <4> QED BY <3>3, <4>2, <4>3 DEF op
    <3> QED BY <3>2, <3>3
  <2>7. g = F(g)
    BY <2>5, <2>6
  <2> QED BY <2>7
<1>5. iter = F(iter)
  BY <1>4
<1>6. Listed(rules, action) = iter[D]
  BY DEF Listed, FoldLeft, MapThenFoldSet
<1> HIDE DEF iter
<1> DEFINE Holds(l, s) == /\ l \in Seq(R)
                          /\ \A r : (\E k \in 1 .. Len(l) : l[k] = r) <=>
                                   (\E k \in s : rules[k] = r /\ r.action = action)
           T == {s \in SUBSET D : Holds(iter[s], s)}
<1>7. ASSUME NEW s \in SUBSET D, \A x \in s : s \ {x} \in T
      PROVE  s \in T
  <2>1. iter[s] = F(iter)[s]
    BY <1>5
  <2>2. CASE s = {}
    <3>1. iter[s] = <<>>
      BY <2>1, <2>2
    <3>2. Holds(<<>>, {})
      OBVIOUS
    <3> QED BY <2>2, <3>1, <3>2
  <2>3. CASE s # {}
    <3> PICK m \in s : m = Max(s)
      BY <1>2, <2>3
    <3> PICK l : l = iter[s \ {m}]
      OBVIOUS
    <3>1. Holds(l, s \ {m})
      <4>1. s \ {m} \in T
        BY <1>7
      <4> QED BY <4>1
    <3>2. rules[m] \in R
      BY <1>3
    <3>3. CASE rules[m].action = action
      <4>1. iter[s] = Append(l, rules[m])
        BY <2>1, <2>3, <3>3
      <4>2. Holds(Append(l, rules[m]), s)
        <5> DEFINE a == Append(l, rules[m])
        <5>1. a \in Seq(R) /\ Len(a) = Len(l) + 1 /\ a[Len(l) + 1] = rules[m]
              /\ Len(l) \in Nat /\ \A k \in 1 .. Len(l) : a[k] = l[k]
          BY <3>1, <3>2
        <5> HIDE DEF a
        <5>2. \A r : (\E k \in 1 .. Len(a) : a[k] = r) <=>
                     (r = rules[m] \/ \E k \in 1 .. Len(l) : l[k] = r)
          <6> SUFFICES ASSUME NEW r
                       PROVE  (\E k \in 1 .. Len(a) : a[k] = r) <=>
                              (r = rules[m] \/ \E k \in 1 .. Len(l) : l[k] = r)
            OBVIOUS
          <6>1. ASSUME NEW k \in 1 .. Len(a)
                PROVE  k \in 1 .. Len(l) \/ k = Len(l) + 1
            BY <5>1
          <6>2. 1 .. Len(l) \subseteq 1 .. Len(a) /\ Len(l) + 1 \in 1 .. Len(a)
            BY <5>1
          <6> QED BY <5>1, <6>1, <6>2
        <5>3. \A r : (\E k \in s : rules[k] = r /\ r.action = action) <=>
                     (r = rules[m] \/ \E k \in s \ {m} : rules[k] = r /\ r.action = action)
          BY <3>3
        <5>4. \A r : (\E k \in 1 .. Len(l) : l[k] = r) <=>
                     (\E k \in s \ {m} : rules[k] = r /\ r.action = action)
          BY <3>1
        <5>5. Holds(a, s)
          BY ONLY <5>1, <5>2, <5>3, <5>4, SMTT(30)
        <5> QED BY <5>5 DEF a
      <4> PICK b : b = Append(l, rules[m])
        OBVIOUS
      <4>3. Holds(b, s) /\ iter[s] = b
        BY <4>1, <4>2
      <4> QED BY <4>3
    <3>4. CASE rules[m].action # action
      <4>1. iter[s] = l
        BY <2>1, <2>3, <3>4
      <4>2. \A r : (\E k \in s : rules[k] = r /\ r.action = action) <=>
                   (\E k \in s \ {m} : rules[k] = r /\ r.action = action)
        BY <3>4
      <4>3. Holds(l, s)
        BY ONLY <3>1, <4>2
      <4> QED BY <4>1, <4>3
    <3> QED BY <3>3, <3>4
  <2> QED BY <2>2, <2>3
<1> HIDE DEF T
<1>8. SUBSET D \subseteq T
  <2>1. IsFiniteSet(D)
    BY <1>1
  <2> HIDE DEF D
  <2> QED BY ONLY <1>7, <2>1, PollRemoving
<1>9. Holds(iter[D], D)
  BY <1>8 DEF T
<1> PICK list : list = iter[D]
  OBVIOUS
<1>10. /\ list \in Seq(R) /\ DOMAIN list = 1 .. Len(list)
       /\ \A r : (\E k \in 1 .. Len(list) : list[k] = r) <=>
                (\E k \in D : rules[k] = r /\ r.action = action)
  <2>1. list \in Seq(R)
        /\ \A r : (\E k \in 1 .. Len(list) : list[k] = r) <=>
                 (\E k \in D : rules[k] = r /\ r.action = action)
    BY <1>9
  <2> HIDE DEF R, D
  <2>2. DOMAIN list = 1 .. Len(list)
    BY ONLY <2>1
  <2> QED BY ONLY <2>1, <2>2
<1>11. Range(list) = {r \in R : r.action = action}
  BY ONLY <1>10 DEF Range
<1> QED BY <1>6, <1>10, <1>11

\* The rules of one action, in either form.
RulesOf(list, rules, action) ==
  Range(list) \cup {x \in Range(rules) : x.action = action}

\* An exclude of either form wins, then an include of either form, for any
\* interface and any configuration of the filter.
LEMMA PollPrecedence ==
  ASSUME NEW c, NEW i, c.include \in Seq(Range(c.include)),
         c.rules \in Seq(Range(c.rules)), c.exclude \in Seq(Range(c.exclude))
  PROVE  Selection(c, i) =
           IF \E r \in RulesOf(c.exclude, c.rules, "exclude") : RuleMatches(r, i)
             THEN "excluded_rule"
           ELSE IF \/ \E r \in RulesOf(c.include, c.rules, "include") : RuleMatches(r, i)
                   \/ i.type \notin DefaultExcludedTypes
             THEN "selected"
           ELSE "excluded_default"
<1> PICK included : included = RulesOf(c.include, c.rules, "include")
  OBVIOUS
<1> PICK excluded : excluded = RulesOf(c.exclude, c.rules, "exclude")
  OBVIOUS
<1> DEFINE f == Compiled(c)
<1>1. \A a : /\ Listed(c.rules, a) \in Seq(Range(c.rules))
             /\ Range(Listed(c.rules, a)) = {r \in Range(c.rules) : r.action = a}
  BY PollListed
<1>2. ASSUME NEW p, NEW q, p \in Seq(Range(p)), q \in Seq(Range(q))
      PROVE  /\ p \o q \in Seq(Range(p \o q))
             /\ Range(p \o q) = Range(p) \cup Range(q)
  <2>1. /\ Len(p) \in Nat /\ Len(q) \in Nat
        /\ DOMAIN p = 1 .. Len(p) /\ DOMAIN q = 1 .. Len(q)
    BY <1>2
  <2>2. /\ p \o q \in Seq(Range(p) \cup Range(q)) /\ Len(p \o q) = Len(p) + Len(q)
        /\ DOMAIN (p \o q) = 1 .. Len(p) + Len(q)
        /\ \A k \in 1 .. Len(p) + Len(q) :
             (p \o q)[k] = IF k <= Len(p) THEN p[k] ELSE q[k - Len(p)]
    BY <1>2
  <2> PICK s : s = p \o q
    OBVIOUS
  <2>3. Range(p) \subseteq Range(s)
    <3>1. ASSUME NEW k \in 1 .. Len(p) PROVE p[k] \in Range(s)
      <4>1. k \in DOMAIN s /\ s[k] = p[k]
        BY <2>1, <2>2
      <4> QED BY <4>1 DEF Range
    <3> QED BY <2>1, <3>1 DEF Range
  <2>4. Range(q) \subseteq Range(s)
    <3>1. ASSUME NEW k \in 1 .. Len(q) PROVE q[k] \in Range(s)
      <4>1. Len(p) + k \in DOMAIN s /\ s[Len(p) + k] = q[k]
        BY <2>1, <2>2
      <4> QED BY <4>1 DEF Range
    <3> QED BY <2>1, <3>1 DEF Range
  <2>5. Range(s) \subseteq Range(p) \cup Range(q)
    BY <2>2 DEF Range
  <2>6. s \in Seq(Range(s))
    <3> PICK U : U = Range(p) \cup Range(q)
      OBVIOUS
    <3>1. s \in Seq(U)
      BY <2>2
    <3> QED BY ONLY <3>1 DEF Range
  <2> QED BY <2>3, <2>4, <2>5, <2>6
<1>3. \A a : Listed(c.rules, a) \in Seq(Range(Listed(c.rules, a)))
  <2> TAKE a
  <2> PICK l : l = Listed(c.rules, a)
    OBVIOUS
  <2>1. l \in Seq(Range(c.rules))
    BY <1>1
  <2>2. l \in Seq(Range(l))
    BY <2>1 DEF Range
  <2> QED BY <2>2
<1>4. /\ f.includes \in Seq(Range(f.includes)) /\ Range(f.includes) = included
      /\ f.excludes \in Seq(Range(f.excludes)) /\ Range(f.excludes) = excluded
  <2>1. f.includes = c.include \o Listed(c.rules, "include")
        /\ f.excludes = Listed(c.rules, "exclude") \o c.exclude
    BY DEF Compiled
  <2> HIDE DEF f
  <2>2. /\ Range(f.includes) = Range(c.include) \cup Range(Listed(c.rules, "include"))
        /\ f.includes \in Seq(Range(f.includes))
    BY <1>2, <1>3, <2>1
  <2>3. /\ Range(f.excludes) = Range(Listed(c.rules, "exclude")) \cup Range(c.exclude)
        /\ f.excludes \in Seq(Range(f.excludes))
    BY <1>2, <1>3, <2>1
  <2> QED BY <1>1, <2>2, <2>3 DEF RulesOf
<1> QED BY <1>4, PollSelects

-----------------------------------------------------------------------------
(***************************************************************************)
(* The inductive invariant of a poll.                                      *)
(***************************************************************************)

\* A cell read is empty or one the device gave, and passed the checks of the
\* profile's walks.
ColumnsInv ==
  \A c \in DOMAIN cols :
    /\ DOMAIN cols[c] = Rows(c)
    /\ \A i \in Rows(c) :
         /\ cols[c][i] = {} \/ cols[c][i] \in device.table[c][i]
         /\ stage \in DOMAIN ProfileColumns =>
              \A v \in cols[c][i] : Acceptable(c, v)

OctetColumns ==
  {<<"ifHCInOctets", "ifHCOutOctets">>, <<"ifInOctets", "ifOutOctets">>}

\* What the poll knows of an interface.
InterfaceOK(i) ==
  /\ i.index \in Nat
  /\ CheckStatusEnum(i.admin)
  /\ i.inErrors # {} /\ i.outErrors # {}
  /\ i.hasCounters => i.inOctets # {} /\ i.outOctets # {}
  /\ \E t \in OctetColumns :
       /\ i.inOctets \subseteq UNION device.table[t[1]][i.index]
       /\ i.outOctets \subseteq UNION device.table[t[2]][i.index]

ComponentStatuses == {"", "ok", "warning", "critical", "not_present", "unknown"}

\* Of temperatures there is one for each index, and finitely many have a value.
TemperaturesOK(cs) ==
  /\ \A c \in cs : /\ c.unit \in {"", "celsius"} /\ c.status \in ComponentStatuses
                   /\ c.value \subseteq Int
  /\ Distinct(cs)
  /\ IsFiniteSet(UNION {c.value : c \in cs})

IsSensor(c) == c.source = "sensor"

\* Of power components there is one sensor and one other for each index.
PowerOK(cs) ==
  /\ \A c \in cs : /\ c.unit \in {"", "watts", "volts_ac", "volts_dc", "amperes"}
                   /\ c.status \in ComponentStatuses
  /\ \A c, d \in cs : c.index = d.index /\ (IsSensor(c) <=> IsSensor(d)) => c = d

VendorOK(v) ==
  /\ v.profile \in {"", "cisco", "arista"} /\ v.capabilities \subseteq Capabilities
  /\ CheckOptionalPct(v.cpu) /\ CheckOptionalPct(v.memory)
  /\ TemperaturesOK(v.temperatures)
  /\ PowerOK(v.power)

ReadingsInv == (\A i \in ifaces : InterfaceOK(i)) /\ VendorOK(vendor)

PollIInv ==
  /\ PollTypeOK
  /\ ColumnsInv
  /\ ReadingsInv
  /\ CountersOfOneTable
  /\ TemperatureIsReported
  /\ RefusedOnlyForTextOrIndex

-----------------------------------------------------------------------------
(***************************************************************************)
(* What the cells hold.                                                    *)
(***************************************************************************)

\* A row set is finite, its indices are natural numbers.
LEMMA PollRows ==
  ASSUME device \in Agents, NEW c
  PROVE  IsFiniteSet(Rows(c)) /\ Rows(c) \subseteq Nat
<1>1. IsFiniteSet({})
  BY FS_EmptySet
<1> QED BY <1>1, AgentAssumption DEF Rows

\* A cell holds at most one value, of the column's kind.
LEMMA PollCell ==
  ASSUME device \in Agents, ColumnsInv, NEW c, NEW i
  PROVE  /\ Cell(c, i) # {} =>
              /\ c \in DOMAIN device.table /\ i \in DOMAIN device.table[c]
              /\ i \in Rows(c) /\ Cell(c, i) \in device.table[c][i]
         /\ \A v, w \in Cell(c, i) : v = w
         /\ c \in NumberColumns => Cell(c, i) \subseteq Int
         /\ stage \in DOMAIN ProfileColumns => \A v \in Cell(c, i) : Acceptable(c, v)
<1> SUFFICES ASSUME Cell(c, i) # {}
             PROVE  /\ c \in DOMAIN device.table /\ i \in DOMAIN device.table[c]
                    /\ i \in Rows(c) /\ Cell(c, i) \in device.table[c][i]
                    /\ \A v, w \in Cell(c, i) : v = w
                    /\ c \in NumberColumns => Cell(c, i) \subseteq Int
                    /\ stage \in DOMAIN ProfileColumns =>
                         \A v \in Cell(c, i) : Acceptable(c, v)
  OBVIOUS
<1>1. c \in DOMAIN cols /\ i \in Rows(c) /\ Cell(c, i) = cols[c][i]
  BY DEF Cell
<1>2. c \in DOMAIN device.table /\ i \in DOMAIN device.table[c]
  BY <1>1 DEF Rows
<1>3. /\ Cell(c, i) \in device.table[c][i]
      /\ stage \in DOMAIN ProfileColumns => \A v \in Cell(c, i) : Acceptable(c, v)
  BY <1>1 DEF ColumnsInv
<1>4. \A cell \in device.table[c][i] : \A v, w \in cell :
        v = w /\ (c \in NumberColumns => v \in Int)
  BY <1>2, AgentAssumption
<1> QED BY <1>1, <1>2, <1>3, <1>4

\* The value of a cell that has one.
LEMMA PollThe ==
  ASSUME NEW cell, cell # {}, NEW default
  PROVE  The(cell, default) \in cell
BY DEF The

\* Filled rows are rows.
LEMMA PollFilled ==
  ASSUME device \in Agents, ColumnsInv, NEW c
  PROVE  /\ IsFiniteSet(Filled(c)) /\ Filled(c) \subseteq Nat
         /\ \A i \in Filled(c) : Cell(c, i) # {} /\ The(Cell(c, i), 0) \in Cell(c, i)
<1>1. Filled(c) \subseteq Rows(c) /\ \A i \in Filled(c) : Cell(c, i) # {}
  BY DEF Filled
<1>2. IsFiniteSet(Filled(c)) /\ Filled(c) \subseteq Nat
  BY <1>1, PollRows, FS_Subset
<1> QED BY <1>1, <1>2, PollThe

-----------------------------------------------------------------------------
(***************************************************************************)
(* Averages and shares of memory are percentages, whatever was missed.     *)
(***************************************************************************)

LEMMA PollAverage ==
  ASSUME device \in Agents, ColumnsInv, stage \in DOMAIN ProfileColumns
  PROVE  CheckOptionalPct(Average("cpu"))
<1> DEFINE F == Filled("cpu")
           f == [i \in F |-> The(Cell("cpu", i), 0)]
<1>1. CASE F = {}
  BY <1>1 DEF Average, CheckOptionalPct
<1>2. CASE F # {}
  <2>1. IsFiniteSet(F) /\ \A i \in F : f[i] \in Cell("cpu", i)
    BY PollFilled
  <2>2. \A i \in F : f[i] \in 0 .. 100
    <3>1. \A i : \A v \in Cell("cpu", i) : Acceptable("cpu", v)
      BY PollCell
    <3>2. \A v : Acceptable("cpu", v) => v \in 0 .. 100
      BY DEF Acceptable
    <3> QED BY <2>1, <3>1, <3>2
  <2>3. DOMAIN f = F
    OBVIOUS
  <2>4. Average("cpu") = {Sum(f) \div Cardinality(F)}
    BY <1>2 DEF Average
  <2> HIDE DEF f, F
  <2>5. Sum(f) \in 0 .. 100 * Cardinality(F)
    BY <2>1, <2>2, <2>3, PollSumOfPercentages
  <2>6. Cardinality(F) \in Nat \ {0}
    BY <1>2, <2>1, FS_CardinalityType, FS_EmptySet
  <2>7. Sum(f) \div Cardinality(F) \in 0 .. 100
    BY <2>5, <2>6, PollMean
  <2> QED BY <2>4, <2>7 DEF CheckOptionalPct
<1> QED BY <1>1, <1>2

\* A number read for a column that must not be negative.
LEMMA PollNumber ==
  ASSUME device \in Agents, ColumnsInv, stage \in DOMAIN ProfileColumns,
         NEW c \in {"memoryUsed", "memoryFree", "storageSize", "storageUsed",
                    "storageAllocUnits", "temperatureValue"},
         NEW i, Cell(c, i) # {}
  PROVE  The(Cell(c, i), 0) \in Nat
<1>1. The(Cell(c, i), 0) \in Cell(c, i)
  BY PollThe
<1>2. c \in NumberColumns
  BY DEF NumberColumns
<1>3. The(Cell(c, i), 0) \in Int /\ Acceptable(c, The(Cell(c, i), 0))
  BY <1>1, <1>2, PollCell
<1> HIDE DEF The
<1> QED BY <1>3 DEF Acceptable

LEMMA PollCiscoMemory ==
  ASSUME device \in Agents, ColumnsInv, stage \in DOMAIN ProfileColumns
  PROVE  CheckOptionalPct(CiscoMemory)
<1> DEFINE complete == Filled("memoryUsed") \cap Filled("memoryFree")
           used == [i \in complete |-> The(Cell("memoryUsed", i), 0)]
           free == [i \in complete |-> The(Cell("memoryFree", i), 0)]
<1>1. IsFiniteSet(complete)
  BY PollFilled, FS_Subset
<1>2. \A i \in complete : used[i] \in Nat /\ free[i] \in Nat
  BY PollFilled, PollNumber
<1>3. CiscoMemory = Percent(Sum(used), Sum(used) + Sum(free))
  BY DEF CiscoMemory
<1>4. DOMAIN used = complete /\ DOMAIN free = complete
  OBVIOUS
<1> HIDE DEF used, free, complete
<1>5. Sum(used) \in Nat /\ Sum(free) \in Nat
  BY <1>1, <1>2, <1>4, PollSumOrdered
<1>6. Percent(Sum(used), Sum(used) + Sum(free)) \subseteq 0 .. 100
  BY <1>5, PollPercentage
<1> QED BY <1>3, <1>6 DEF CheckOptionalPct

LEMMA PollAristaMemory ==
  ASSUME device \in Agents, ColumnsInv, stage \in DOMAIN ProfileColumns
  PROVE  CheckOptionalPct(AristaMemory)
<1> DEFINE size(i) == The(Cell("storageSize", i), 0)
           used(i) == The(Cell("storageUsed", i), 0)
           unit(i) == The(Cell("storageAllocUnits", i), 0)
           complete == {i \in Filled("storageAllocUnits") \cap Filled("storageSize")
                                 \cap Filled("storageUsed") :
                          Cell("storageType", i) = {"ram"} /\ used(i) <= size(i)}
           part  == [i \in complete |-> used(i) * unit(i)]
           whole == [i \in complete |-> size(i) * unit(i)]
<1>1. IsFiniteSet(complete)
  <2>1. IsFiniteSet(Filled("storageUsed")) /\ complete \subseteq Filled("storageUsed")
    BY PollFilled
  <2> QED BY <2>1, FS_Subset
<1>2. ASSUME NEW i \in complete
      PROVE  part[i] \in Nat /\ whole[i] \in Nat /\ part[i] <= whole[i]
  <2>1. used(i) \in Nat /\ size(i) \in Nat /\ unit(i) \in Nat /\ used(i) <= size(i)
    BY PollFilled, PollNumber
  <2>2. \A a, b, u \in Nat : a <= b => a * u \in Nat /\ b * u \in Nat /\ a * u <= b * u
    OBVIOUS
  <2> HIDE DEF used, size, unit
  <2> QED BY <2>1, <2>2
<1>3. AristaMemory = Percent(Sum(part), Sum(whole))
  BY DEF AristaMemory
<1>4. DOMAIN part = complete /\ DOMAIN whole = complete
  OBVIOUS
<1> HIDE DEF part, whole, complete
<1>5. Sum(part) \in Nat /\ Sum(whole) \in Nat /\ Sum(part) <= Sum(whole)
  BY <1>1, <1>2, <1>4, PollSumOrdered
<1>6. Percent(Sum(part), Sum(whole)) \subseteq 0 .. 100
  BY <1>5, PollPercentage
<1> QED BY <1>3, <1>6 DEF CheckOptionalPct

-----------------------------------------------------------------------------
(***************************************************************************)
(* Interfaces and components.                                              *)
(***************************************************************************)

LEMMA PollInterface ==
  ASSUME device \in Agents, ColumnsInv, NEW i \in Filled("ifIndex")
  PROVE  InterfaceOK(InterfaceReading(i))
<1> DEFINE r == InterfaceReading(i)
           wide == Cell("ifHCInOctets", i) # {} /\ Cell("ifHCOutOctets", i) # {}
<1>1. r.index = i /\ i \in Nat
  BY PollFilled DEF InterfaceReading
<1>2. CheckStatusEnum(r.admin)
  <2>1. \A v : CheckStatusEnum(InterfaceStatusName(v))
    BY DEF CheckStatusEnum, InterfaceStatusName
  <2>2. \E v : r.admin = InterfaceStatusName(v)
    BY DEF InterfaceReading
  <2> HIDE DEF r
  <2> QED BY <2>1, <2>2
<1>3. r.inErrors # {} /\ r.outErrors # {}
  BY DEF InterfaceReading
<1>4. r.hasCounters => r.inOctets # {} /\ r.outOctets # {}
  BY DEF InterfaceReading
<1>5. \A c : Cell(c, i) \subseteq UNION device.table[c][i]
  BY PollCell
<1>6. CASE wide
  <2>1. r.inOctets = Cell("ifHCInOctets", i) /\ r.outOctets = Cell("ifHCOutOctets", i)
    BY <1>6 DEF InterfaceReading
  <2> DEFINE t == <<"ifHCInOctets", "ifHCOutOctets">>
  <2>2. /\ t \in OctetColumns
        /\ r.inOctets \subseteq UNION device.table[t[1]][i]
        /\ r.outOctets \subseteq UNION device.table[t[2]][i]
    BY <1>5, <2>1 DEF OctetColumns
  <2> HIDE DEF r, t
  <2> QED BY <1>1, <1>2, <1>3, <1>4, <2>2 DEF InterfaceOK, r
<1>7. CASE ~wide
  <2>1. r.inOctets = Cell("ifInOctets", i) /\ r.outOctets = Cell("ifOutOctets", i)
    BY <1>7 DEF InterfaceReading
  <2> DEFINE t == <<"ifInOctets", "ifOutOctets">>
  <2>2. /\ t \in OctetColumns
        /\ r.inOctets \subseteq UNION device.table[t[1]][i]
        /\ r.outOctets \subseteq UNION device.table[t[2]][i]
    BY <1>5, <2>1 DEF OctetColumns
  <2> HIDE DEF r, t
  <2> QED BY <1>1, <1>2, <1>3, <1>4, <2>2 DEF InterfaceOK, r
<1> QED BY <1>6, <1>7

\* A column holds finitely many values.
LEMMA PollValues ==
  ASSUME device \in Agents, ColumnsInv, NEW c, NEW V,
         \A v \in V : \E i : v \in Cell(c, i)
  PROVE  IsFiniteSet(V)
<1> DEFINE f == [v \in V |-> CHOOSE i \in Rows(c) : v \in Cell(c, i)]
<1>1. \A v \in V : f[v] \in Rows(c) /\ v \in Cell(c, f[v])
  <2> SUFFICES ASSUME NEW v \in V PROVE \E i \in Rows(c) : v \in Cell(c, i)
    OBVIOUS
  <2> QED BY PollCell
<1> HIDE DEF f
<1>2. f \in [V -> Rows(c)]
  BY <1>1 DEF f
<1>3. \A v, w \in V : f[v] = f[w] => v = w
  BY <1>1, PollCell
<1>4. f \in Injection(V, Rows(c))
  BY <1>2, <1>3 DEF Injection, IsInjective
<1> QED BY <1>4, PollRows, FS_Injection

\* The components cisco makes of its columns.
LEMMA PollCiscoComponents ==
  ASSUME device \in Agents, ColumnsInv, NEW d, NEW v, NEW s, NEW u
  PROVE  LET cs == CiscoComponents(d, v, s, u) IN
         /\ \A c \in cs : /\ c.unit \in {"", u} /\ c.status \in ComponentStatuses
                          /\ c.source = "environment"
                          /\ v \in NumberColumns => c.value \subseteq Int
         /\ Distinct(cs)
         /\ IsFiniteSet(UNION {c.value : c \in cs})
<1> DEFINE cs == CiscoComponents(d, v, s, u)
           c1(i) == [index  |-> i,
                     source |-> "environment",
                     name   |-> The(Cell(d, i), ""),
                     value  |-> Cell(v, i),
                     unit   |-> IF Cell(v, i) = {} THEN "" ELSE u,
                     status |-> StatusFrom(Cell(s, i), CiscoEnvironmentStatus)]
<1>1. \A c \in cs : \E i : c = c1(i)
  BY DEF CiscoComponents
<1>2. ASSUME NEW i
      PROVE  /\ c1(i).unit \in {"", u} /\ c1(i).status \in ComponentStatuses
             /\ v \in NumberColumns => c1(i).value \subseteq Int
             /\ c1(i).source = "environment"
             /\ c1(i).index = i /\ c1(i).value = Cell(v, i)
  <2>1. \A x : CiscoEnvironmentStatus(x) \in ComponentStatuses
    BY DEF CiscoEnvironmentStatus, ComponentStatuses
  <2>2. StatusFrom(Cell(s, i), CiscoEnvironmentStatus) \in ComponentStatuses
    BY <2>1 DEF StatusFrom, ComponentStatuses
  <2>3. v \in NumberColumns => Cell(v, i) \subseteq Int
    BY PollCell
  <2> QED BY <2>2, <2>3
<1> HIDE DEF cs
<1>3. Distinct(cs)
  <2> SUFFICES ASSUME NEW c \in cs, NEW e \in cs, c.index = e.index PROVE c = e
    BY DEF Distinct
  <2>1. PICK i : c = c1(i)
    BY <1>1
  <2>2. PICK j : e = c1(j)
    BY <1>1
  <2>3. i = j
    BY <2>1, <2>2
  <2> QED BY <2>1, <2>2, <2>3
<1>4. ASSUME NEW c \in cs
      PROVE  /\ c.unit \in {"", u} /\ c.status \in ComponentStatuses
             /\ c.source = "environment"
             /\ v \in NumberColumns => c.value \subseteq Int
             /\ \A x \in c.value : \E i : x \in Cell(v, i)
  <2>1. PICK i : c = c1(i)
    BY <1>1
  <2> HIDE DEF c1
  <2> QED BY <1>2, <2>1
<1>5. IsFiniteSet(UNION {c.value : c \in cs})
  BY <1>4, PollValues
<1> QED BY <1>3, <1>4, <1>5 DEF cs

\* The sensors arista reads.
LEMMA PollAristaSensors ==
  ASSUME device \in Agents, ColumnsInv, NEW units
  PROVE  LET cs == AristaSensors(units) IN
         /\ \A c \in cs : /\ c.unit \in {""} \cup units /\ c.status \in ComponentStatuses
                          /\ c.value \subseteq Int /\ c.source = "sensor"
         /\ Distinct(cs)
         /\ IsFiniteSet(UNION {c.value : c \in cs})
<1> DEFINE cs == AristaSensors(units)
           value(i) == IF Cell("sensorScale", i) = {} \/ Cell("sensorPrecision", i) = {}
                       THEN {} ELSE Cell("sensorValue", i)
           c1(i) == [index  |-> i,
                     source |-> "sensor",
                     name   |-> The(Cell("physicalDescr", i), ""),
                     value  |-> value(i),
                     unit   |-> IF value(i) = {} THEN ""
                                ELSE SensorUnits[The(Cell("sensorType", i), 0)],
                     status |-> StatusFrom(Cell("sensorStatus", i), SensorOperStatus)]
           Of(i) == \E t \in DOMAIN SensorUnits :
                      Cell("sensorType", i) = {t} /\ SensorUnits[t] \in units
<1>1. \A c \in cs : \E i : c = c1(i) /\ Of(i)
  BY DEF AristaSensors
<1>2. ASSUME NEW i, Of(i)
      PROVE  /\ c1(i).unit \in {""} \cup units /\ c1(i).status \in ComponentStatuses
             /\ c1(i).value \subseteq Int /\ c1(i).source = "sensor"
             /\ c1(i).index = i /\ c1(i).value \subseteq Cell("sensorValue", i)
  <2>1. \A x : SensorOperStatus(x) \in ComponentStatuses
    BY DEF SensorOperStatus, ComponentStatuses
  <2>2. StatusFrom(Cell("sensorStatus", i), SensorOperStatus) \in ComponentStatuses
    BY <2>1 DEF StatusFrom, ComponentStatuses
  <2>3. Cell("sensorValue", i) \subseteq Int
    BY PollCell DEF NumberColumns
  <2>4. SensorUnits[The(Cell("sensorType", i), 0)] \in units
    <3>1. PICK t : Cell("sensorType", i) = {t} /\ SensorUnits[t] \in units
      BY <1>2
    <3>2. The(Cell("sensorType", i), 0) = t
      BY <3>1 DEF The
    <3> QED BY <3>1, <3>2
  <2> QED BY <2>2, <2>3, <2>4
<1> HIDE DEF cs, Of
<1>3. Distinct(cs)
  <2> SUFFICES ASSUME NEW c \in cs, NEW e \in cs, c.index = e.index PROVE c = e
    BY DEF Distinct
  <2>1. PICK i : c = c1(i)
    BY <1>1
  <2>2. PICK j : e = c1(j)
    BY <1>1
  <2>3. i = j
    BY <2>1, <2>2
  <2> QED BY <2>1, <2>2, <2>3
<1>4. ASSUME NEW c \in cs
      PROVE  /\ c.unit \in {""} \cup units /\ c.status \in ComponentStatuses
             /\ c.value \subseteq Int /\ c.source = "sensor"
             /\ \A x \in c.value : \E i : x \in Cell("sensorValue", i)
  <2>1. PICK i : c = c1(i) /\ Of(i)
    BY <1>1
  <2> HIDE DEF c1
  <2> QED BY <1>2, <2>1
<1>5. IsFiniteSet(UNION {c.value : c \in cs})
  BY <1>4, PollValues
<1> QED BY <1>3, <1>4, <1>5 DEF cs

\* The power supplies arista reads.
LEMMA PollAristaSupplies ==
  ASSUME NEW c \in AristaSupplies
  PROVE  /\ c.unit = "" /\ c.status \in ComponentStatuses /\ c.source = "entity"
         /\ \A d \in AristaSupplies : c.index = d.index => c = d
<1> DEFINE c1(i) == [index  |-> i,
                     source |-> "entity",
                     name   |-> The(Cell("physicalDescr", i), ""),
                     value  |-> {},
                     unit   |-> "",
                     status |-> StatusFrom(Cell("entityState", i), EntityOperStatus)]
<1>1. \A d \in AristaSupplies : \E i : d = c1(i)
  BY DEF AristaSupplies
<1>2. ASSUME NEW i
      PROVE  /\ c1(i).unit = "" /\ c1(i).status \in ComponentStatuses
             /\ c1(i).source = "entity" /\ c1(i).index = i
  <2>1. \A x : EntityOperStatus(x) \in ComponentStatuses
    BY DEF EntityOperStatus, ComponentStatuses
  <2>2. StatusFrom(Cell("entityState", i), EntityOperStatus) \in ComponentStatuses
    BY <2>1 DEF StatusFrom, ComponentStatuses
  <2> QED BY <2>2
<1>3. PICK i : c = c1(i)
  BY <1>1
<1>4. ASSUME NEW d \in AristaSupplies, c.index = d.index PROVE c = d
  <2>1. PICK j : d = c1(j)
    BY <1>1
  <2>2. i = j
    BY <1>3, <1>4, <2>1
  <2> QED BY <1>3, <2>1, <2>2
<1>5. c.unit = "" /\ c.status \in ComponentStatuses /\ c.source = "entity"
  <2> HIDE DEF c1
  <2> QED BY <1>2, <1>3
<1> QED BY <1>4, <1>5

\* Collect's readings, whatever the walks brought.
LEMMA PollVendor ==
  ASSUME device \in Agents, ColumnsInv, stage \in DOMAIN ProfileColumns
  PROVE  VendorOK(CollectCisco) /\ VendorOK(CollectArista)
<1>1. CheckOptionalPct(Average("cpu")) /\ CheckOptionalPct(CiscoMemory)
      /\ CheckOptionalPct(AristaMemory)
  BY PollAverage, PollCiscoMemory, PollAristaMemory
<1>2. VendorOK(CollectCisco)
  <2> DEFINE ts == CiscoComponents("temperatureDescr", "temperatureValue",
                                   "temperatureState", "celsius")
             ps == CiscoComponents("supplyDescr", "supplyValue", "supplyState", "")
  <2>1. "temperatureValue" \in NumberColumns
    BY DEF NumberColumns
  <2>2. TemperaturesOK(ts)
    <3> HIDE DEF ts
    <3>1. /\ \A c \in ts : /\ c.unit \in {"", "celsius"} /\ c.status \in ComponentStatuses
                            /\ c.value \subseteq Int
          /\ Distinct(ts)
          /\ IsFiniteSet(UNION {c.value : c \in ts})
      BY <2>1, PollCiscoComponents DEF ts
    <3> QED BY <3>1 DEF TemperaturesOK
  <2>3. PowerOK(ps)
    <3> HIDE DEF ps
    <3>1. /\ \A c \in ps : c.unit \in {"", ""} /\ c.status \in ComponentStatuses
          /\ Distinct(ps)
      BY PollCiscoComponents DEF ps
    <3> QED BY <3>1 DEF PowerOK, Distinct
  <2> HIDE DEF ts, ps
  <2>4. /\ CollectCisco.profile = "cisco" /\ CollectCisco.capabilities = Capabilities
        /\ CollectCisco.cpu = Average("cpu") /\ CollectCisco.memory = CiscoMemory
        /\ CollectCisco.temperatures = ts /\ CollectCisco.power = ps
    BY DEF CollectCisco, ts, ps
  <2> QED BY <1>1, <2>2, <2>3, <2>4 DEF VendorOK
<1>3. VendorOK(CollectArista)
  <2> DEFINE ts == AristaSensors({"celsius"})
             us == {"watts", "volts_ac", "volts_dc", "amperes"}
             ps == AristaSensors(us)
             qs == AristaSupplies
  <2>1. TemperaturesOK(ts)
    <3> HIDE DEF ts
    <3>1. /\ \A c \in ts : /\ c.unit \in {""} \cup {"celsius"}
                            /\ c.status \in ComponentStatuses /\ c.value \subseteq Int
          /\ Distinct(ts)
          /\ IsFiniteSet(UNION {c.value : c \in ts})
      BY PollAristaSensors DEF ts
    <3> QED BY <3>1 DEF TemperaturesOK
  <2>2. PowerOK(ps \cup qs)
    <3> HIDE DEF ps, us
    <3>1. /\ \A c \in ps : /\ c.unit \in {""} \cup us /\ c.status \in ComponentStatuses
                            /\ IsSensor(c)
          /\ Distinct(ps)
      BY PollAristaSensors DEF ps, IsSensor
    <3>2. \A c \in qs : /\ c.unit = "" /\ c.status \in ComponentStatuses /\ ~IsSensor(c)
                        /\ \A d \in qs : c.index = d.index => c = d
      <4> SUFFICES ASSUME NEW c \in qs
                   PROVE  /\ c.unit = "" /\ c.status \in ComponentStatuses /\ ~IsSensor(c)
                          /\ \A d \in qs : c.index = d.index => c = d
        OBVIOUS
      <4> QED BY PollAristaSupplies DEF IsSensor
    <3>3. \A c \in ps \cup qs : c.unit \in {""} \cup us /\ c.status \in ComponentStatuses
      BY <3>1, <3>2
    <3>4. \A c, d \in ps \cup qs :
            c.index = d.index /\ (IsSensor(c) <=> IsSensor(d)) => c = d
      BY <3>1, <3>2 DEF Distinct
    <3> QED BY <3>3, <3>4 DEF PowerOK, us
  <2> HIDE DEF ts, ps, qs
  <2>3. /\ CollectArista.profile = "arista" /\ CollectArista.capabilities = Capabilities
        /\ CollectArista.cpu = Average("cpu") /\ CollectArista.memory = AristaMemory
        /\ CollectArista.temperatures = ts /\ CollectArista.power = ps \cup qs
    BY DEF CollectArista, ts, ps, qs, us
  <2> QED BY <1>1, <2>1, <2>2, <2>3 DEF VendorOK
<1> QED BY <1>2, <1>3

-----------------------------------------------------------------------------
(***************************************************************************)
(* What telemetry makes of the readings.                                   *)
(***************************************************************************)

LEMMA PollPrimary ==
  ASSUME NEW cs, TemperaturesOK(cs)
  PROVE  LET values == UNION {c.value : c \in cs} IN
         /\ PrimaryTemperature(cs) \subseteq values
         /\ \A v \in values : v >= 0 => \E t \in PrimaryTemperature(cs) : v <= t
<1> DEFINE values == UNION {c.value : c \in cs}
           valid == {v \in values : v >= 0}
<1>1. values \subseteq Int /\ IsFiniteSet(values)
  BY DEF TemperaturesOK
<1>2. PrimaryTemperature(cs) = IF valid = {} THEN {} ELSE {Max(valid)}
  BY DEF PrimaryTemperature
<1> HIDE DEF values
<1>3. CASE valid = {}
  BY <1>2, <1>3 DEF values
<1>4. CASE valid # {}
  <2>1. valid \in SUBSET Nat /\ IsFiniteSet(valid)
    <3>1. valid \in SUBSET values
      OBVIOUS
    <3>2. IsFiniteSet(valid)
      <4>1. \A s \in SUBSET values : IsFiniteSet(s)
        BY <1>1, FS_Subset
      <4> HIDE DEF valid
      <4> QED BY <3>1, <4>1
    <3>3. valid \in SUBSET Nat
      <4>1. ASSUME NEW v \in valid PROVE v \in Nat
        <5>1. v \in values /\ v >= 0
          OBVIOUS
        <5>2. v \in Int
          BY <1>1, <5>1
        <5> QED BY <5>1, <5>2
      <4> QED BY <4>1
    <3> HIDE DEF valid
    <3> QED BY <3>2, <3>3
  <2>2. Max(valid) \in valid /\ \A x \in valid : x <= Max(valid)
    <3> HIDE DEF valid
    <3> QED BY <1>4, <2>1, PollGreatest
  <2>3. PrimaryTemperature(cs) = {Max(valid)}
    BY <1>2, <1>4
  <2> QED BY <2>2, <2>3 DEF values
<1> QED BY <1>3, <1>4

LEMMA PollNamed ==
  ASSUME NEW text
  PROVE  ~Blank(Named(text))
BY DEF Blank, Named

LEMMA PollKnownStatus ==
  ASSUME NEW s \in ComponentStatuses
  PROVE  KnownStatus(s) \in {"ok", "warning", "critical", "not_present", "unknown"}
BY DEF KnownStatus, ComponentStatuses

\* Temperatures pass ingestion once they are named.
LEMMA PollTemperatures ==
  ASSUME NEW cs, TemperaturesOK(cs)
  PROVE  ValidateTempComponents(
           {[c EXCEPT !.name = Named(c.name)] : c \in TemperatureComponents(cs)})
<1> DEFINE Out(c) == [index |-> c.index, source |-> c.source, name |-> Named(c.name),
                      value |-> c.value,
                      unit |-> IF c.unit = "" THEN "celsius" ELSE c.unit,
                      status |-> KnownStatus(c.status)]
           ts == {[c EXCEPT !.name = Named(c.name)] : c \in TemperatureComponents(cs)}
<1>1. ASSUME NEW t \in ts
      PROVE  \E c \in cs : t = Out(c) /\ c.value # {}
  <2>1. PICK o \in TemperatureComponents(cs) : t = [o EXCEPT !.name = Named(o.name)]
    OBVIOUS
  <2>2. PICK c \in cs :
          /\ o = [index |-> c.index, source |-> c.source, name |-> c.name,
                  value |-> c.value, unit |-> IF c.unit = "" THEN "celsius" ELSE c.unit,
                  status |-> KnownStatus(c.status)]
          /\ c.value # {}
    BY DEF TemperatureComponents
  <2>3. t = Out(c)
    BY <2>1, <2>2
  <2> QED BY <2>2, <2>3
<1>2. ASSUME NEW t \in ts
      PROVE  /\ CheckComponentCommon(t) /\ t.unit = "celsius" /\ t.value # {}
  <2>1. PICK c \in cs : t = Out(c) /\ c.value # {}
    BY <1>1
  <2>2. /\ t.name = Named(c.name) /\ t.value = c.value
        /\ t.unit = (IF c.unit = "" THEN "celsius" ELSE c.unit)
        /\ t.status = KnownStatus(c.status)
    BY <2>1
  <2>3. c.unit \in {"", "celsius"} /\ c.status \in ComponentStatuses
    BY DEF TemperaturesOK
  <2> HIDE DEF ts
  <2>4. t.unit = "celsius" /\ t.value # {}
    BY <2>1, <2>2, <2>3
  <2>5. CheckComponentCommon(t)
    BY <2>2, <2>3, PollNamed, PollKnownStatus DEF CheckComponentCommon
  <2> QED BY <2>4, <2>5
<1>3. ASSUME NEW t \in ts, NEW u \in ts, t.index = u.index PROVE t = u
  <2>1. PICK c \in cs : t = Out(c)
    BY <1>1
  <2>2. PICK d \in cs : u = Out(d)
    BY <1>1
  <2>3. c.index = d.index
    BY <1>3, <2>1, <2>2
  <2>4. c = d
    BY <2>3 DEF TemperaturesOK, Distinct
  <2> QED BY <2>1, <2>2, <2>4
<1> HIDE DEF ts
<1>4. ValidateTempComponents(ts)
  BY <1>2, <1>3 DEF ValidateTempComponents, Distinct
<1> QED BY <1>4 DEF ts

\* So do power components, one for each index.
LEMMA PollPowers ==
  ASSUME NEW cs, PowerOK(cs), NEW ps, ps = PowerComponents(cs), NEW once,
         once = {c \in ps : IsSensor(c) \/ ~\E d \in ps : IsSensor(d) /\ d.index = c.index}
  PROVE  ValidatePowerComponents({[c EXCEPT !.name = Named(c.name)] : c \in once})
<1> DEFINE Out(c) == [index |-> c.index, source |-> c.source, name |-> c.name,
                      value |-> c.value, unit |-> NormalizePowerUnit(c.unit),
                      status |-> KnownStatus(c.status)]
           qs == {[c EXCEPT !.name = Named(c.name)] : c \in once}
<1>1. \A p \in ps : \E c \in cs : p = Out(c)
  BY DEF PowerComponents
<1>2. \A q \in qs : \E p \in once : q = [p EXCEPT !.name = Named(p.name)]
  OBVIOUS
<1>3. ASSUME NEW p \in ps
      PROVE  /\ p.status \in {"ok", "warning", "critical", "not_present", "unknown"}
             /\ p.unit \in {"state", "watts", "volts", "amps", "percent"}
  <2>1. PICK c \in cs : p = Out(c)
    BY <1>1
  <2>2. p.unit = NormalizePowerUnit(c.unit) /\ p.status = KnownStatus(c.status)
    BY <2>1
  <2>3. /\ c.unit \in {"", "watts", "volts_ac", "volts_dc", "amperes"}
        /\ c.status \in ComponentStatuses
    BY DEF PowerOK
  <2>4. p.unit \in {"state", "watts", "volts", "amps", "percent"}
    BY <2>2, <2>3 DEF NormalizePowerUnit
  <2> QED BY <2>2, <2>3, <2>4, PollKnownStatus
<1>4. ASSUME NEW p \in once, NEW q \in once, p.index = q.index PROVE p = q
  <2>1. p \in ps /\ q \in ps /\ (IsSensor(p) <=> IsSensor(q))
    BY <1>4
  <2>2. PICK c \in cs : p = Out(c)
    BY <1>1, <2>1
  <2>3. PICK d \in cs : q = Out(d)
    BY <1>1, <2>1
  <2>4. /\ c.index = d.index /\ p.source = c.source /\ q.source = d.source
    BY <1>4, <2>2, <2>3
  <2>5. c = d
    BY <2>1, <2>4 DEF PowerOK, IsSensor
  <2> QED BY <2>2, <2>3, <2>5
<1>5. ASSUME NEW q \in qs
      PROVE  /\ CheckComponentCommon(q)
             /\ q.unit \in {"state", "watts", "volts", "amps", "percent"}
  <2>1. PICK p \in once : q = [p EXCEPT !.name = Named(p.name)]
    BY <1>2
  <2>2. PICK c \in cs : p = Out(c)
    BY <1>1
  <2>3. q.name = Named(p.name) /\ q.unit = p.unit /\ q.status = p.status
    BY <2>1, <2>2
  <2>4. p \in ps
    OBVIOUS
  <2> QED BY <1>3, <2>3, <2>4, PollNamed DEF CheckComponentCommon
<1>6. ASSUME NEW q \in qs, NEW r \in qs, q.index = r.index PROVE q = r
  <2>1. PICK p \in once : q = [p EXCEPT !.name = Named(p.name)]
    BY <1>2
  <2>2. PICK o \in once : r = [o EXCEPT !.name = Named(o.name)]
    BY <1>2
  <2>3. PICK c \in cs : p = Out(c)
    BY <1>1
  <2>4. PICK d \in cs : o = Out(d)
    BY <1>1
  <2>5. p.index = o.index
    BY <1>6, <2>1, <2>2, <2>3, <2>4
  <2>6. p = o
    BY <1>4, <2>5
  <2> QED BY <2>1, <2>2, <2>6
<1> HIDE DEF qs
<1>7. ValidatePowerComponents(qs)
  BY <1>5, <1>6 DEF ValidatePowerComponents, Distinct
<1> QED BY <1>7 DEF qs

\* The device event of a poll is refused for nothing but a text that is blank or
\* was lost, and an index that is used twice.
LEMMA PollDeviceEvent ==
  ASSUME VendorOK(vendor)
  PROVE  Validate(Repaired(DeviceTelemetry))
<1> DEFINE e == DeviceTelemetry
           p == e.payload
           Once(cs) == {c \in cs : IsSensor(c) \/ ~\E d \in cs : IsSensor(d) /\ d.index = c.index}
           q == Repaired(e)
<1>1. /\ e.version = 2 /\ e.kind = "device" /\ e.type = "device_telemetry"
      /\ p.profile = (IF vendor.profile = "" THEN "core" ELSE vendor.profile)
      /\ p.capabilities = vendor.capabilities
      /\ p.cpu = vendor.cpu /\ p.memory = vendor.memory
      /\ p.temperatures = TemperatureComponents(vendor.temperatures)
      /\ p.powers = PowerComponents(vendor.power)
  BY DEF DeviceTelemetry
<1>2. q = [e EXCEPT !.payload =
             [p EXCEPT !.hostname = Named(p.hostname),
                       !.sysName = Named(p.sysName),
                       !.sysDescr = Named(p.sysDescr),
                       !.temperatures = {[c EXCEPT !.name = Named(c.name)] : c \in p.temperatures},
                       !.powers = {[c EXCEPT !.name = Named(c.name)] : c \in Once(p.powers)}]]
  BY <1>1 DEF Repaired, IsSensor
<1> DEFINE ts == {[c EXCEPT !.name = Named(c.name)] : c \in p.temperatures}
           ps == {[c EXCEPT !.name = Named(c.name)] : c \in Once(p.powers)}
<1>3. DOMAIN e = {"version", "kind", "type", "payload"}
      /\ DOMAIN p = {"hostname", "sysName", "sysDescr", "profile", "capabilities",
                     "cpu", "memory", "temperatures", "powers"}
  BY DEF DeviceTelemetry
<1>4. ValidateTempComponents(ts)
  BY <1>1, PollTemperatures DEF VendorOK
<1>5. ValidatePowerComponents(ps)
  <2> PICK cs : cs = p.powers
    OBVIOUS
  <2>1. PowerOK(vendor.power) /\ cs = PowerComponents(vendor.power)
    BY <1>1 DEF VendorOK
  <2> HIDE DEF p
  <2>2. ValidatePowerComponents({[c EXCEPT !.name = Named(c.name)] : c \in Once(cs)})
    BY <2>1, PollPowers
  <2> QED BY <2>2
<1> HIDE DEF e, ts, ps
<1>6. /\ q.version = 2 /\ q.kind = "device" /\ q.type = "device_telemetry"
      /\ q.payload.hostname = Named(p.hostname) /\ q.payload.sysName = Named(p.sysName)
      /\ q.payload.sysDescr = Named(p.sysDescr)
      /\ q.payload.profile = p.profile /\ q.payload.capabilities = p.capabilities
      /\ q.payload.cpu = p.cpu /\ q.payload.memory = p.memory
      /\ q.payload.temperatures = ts /\ q.payload.powers = ps
  <2>1. q = [e EXCEPT !.payload =
               [p EXCEPT !.hostname = Named(p.hostname),
                         !.sysName = Named(p.sysName),
                         !.sysDescr = Named(p.sysDescr),
                         !.temperatures = ts, !.powers = ps]]
    BY <1>2 DEF ts, ps
  <2> HIDE DEF q
  <2> QED BY <1>1, <1>3, <2>1
<1> HIDE DEF p, q
<1>7. p.profile \in {"core", "cisco", "arista"} /\ p.capabilities \subseteq Capabilities
      /\ CheckOptionalPct(p.cpu) /\ CheckOptionalPct(p.memory)
  BY <1>1 DEF VendorOK
<1>8. /\ ~Blank(q.payload.hostname) /\ ~Blank(q.payload.sysName)
      /\ q.payload.sysDescr # ""
  BY <1>6, PollNamed DEF Blank
<1>9. ValidateDeviceV2(q.payload)
  BY <1>4, <1>5, <1>6, <1>7, <1>8 DEF ValidateDeviceV2, Capabilities
<1>10. ValidateEnvelope(q)
  BY <1>6 DEF ValidateEnvelope, ParseTopicV2
<1>11. Validate(q)
  BY <1>6, <1>9, <1>10 DEF Validate
<1> QED BY <1>11 DEF q, e

\* The event of an interface whose counters were read.
LEMMA PollInterfaceEvent ==
  ASSUME NEW i, InterfaceOK(i), i.hasCounters, NEW name, NEW e,
         e = [version |-> 2, kind |-> "interface", type |-> "interface_telemetry",
              payload |-> [index     |-> i.index,
                           name      |-> name,
                           admin     |-> i.admin,
                           inOctets  |-> i.inOctets,
                           outOctets |-> i.outOctets,
                           inErrors  |-> i.inErrors,
                           outErrors |-> i.outErrors]]
  PROVE  Validate(Repaired(e))
<1> DEFINE q == Repaired(e)
<1>1. /\ q.version = 2 /\ q.kind = "interface" /\ q.type = "interface_telemetry"
      /\ q.payload.name = Named(name)
      /\ q.payload.index = (IF i.index = 0 THEN 1 ELSE i.index)
      /\ q.payload.admin = i.admin
      /\ q.payload.inOctets = i.inOctets /\ q.payload.outOctets = i.outOctets
      /\ q.payload.inErrors = i.inErrors /\ q.payload.outErrors = i.outErrors
  BY DEF Repaired
<1> HIDE DEF q
<1>2. i.index \in Nat
  BY DEF InterfaceOK
<1>3. q.payload.index >= 1
  BY <1>1, <1>2
<1>4. ~Blank(q.payload.name)
  BY <1>1, PollNamed
<1>5. ValidateInterfaceV2(q.payload)
  BY <1>1, <1>3, <1>4 DEF ValidateInterfaceV2, InterfaceOK
<1>6. ValidateEnvelope(q)
  BY <1>1 DEF ValidateEnvelope, ParseTopicV2
<1>7. Validate(q)
  BY <1>1, <1>5, <1>6 DEF Validate
<1> QED BY <1>7 DEF q

\* The four kinds of events a poll publishes.
LEMMA PollEvents ==
  ASSUME NEW e \in DeviceEvents, \A i \in ifaces : InterfaceOK(i), VendorOK(vendor)
  PROVE  /\ e.version \in {1, 2} /\ e.kind \in {"device", "interface"}
         /\ Validate(IF e.version = 2 THEN Repaired(e) ELSE e)
         /\ e.kind = "interface" =>
              \E i \in ifaces :
                /\ InterfaceOK(i) /\ i.hasCounters
                /\ e.payload.index = i.index
                /\ e.payload.inOctets = i.inOctets /\ e.payload.outOctets = i.outOctets
         /\ e.version = 2 /\ e.kind = "device" => e = DeviceTelemetry
<1>1. ASSUME NEW none, e = [version |-> 1, kind |-> "device", type |-> none,
                            payload |-> [metric |-> "uptime_seconds"]]
      PROVE  /\ e.version = 1 /\ e.kind = "device"
             /\ Validate(IF e.version = 2 THEN Repaired(e) ELSE e)
  <2>1. e.version = 1 /\ e.kind = "device" /\ e.payload.metric = "uptime_seconds"
    BY <1>1
  <2>2. Validate(e)
    BY <2>1 DEF Validate, ValidateDevice
  <2> QED BY <2>1, <2>2
<1>2. ASSUME NEW i \in Reported, NEW none,
             e = [version |-> 1, kind |-> "interface", type |-> none,
                  payload |-> [index     |-> i.index,
                               inOctets  |-> i.inOctets,
                               outOctets |-> i.outOctets,
                               inErrors  |-> i.inErrors,
                               outErrors |-> i.outErrors]]
      PROVE  /\ e.version \in {1, 2} /\ e.kind \in {"device", "interface"}
             /\ Validate(IF e.version = 2 THEN Repaired(e) ELSE e)
             /\ e.kind = "interface" =>
                  \E j \in ifaces :
                    /\ InterfaceOK(j) /\ j.hasCounters
                    /\ e.payload.index = j.index
                    /\ e.payload.inOctets = j.inOctets /\ e.payload.outOctets = j.outOctets
             /\ ~(e.version = 2 /\ e.kind = "device")
  <2>1. /\ e.version = 1 /\ e.kind = "interface" /\ e.payload.index = i.index
        /\ e.payload.inOctets = i.inOctets /\ e.payload.outOctets = i.outOctets
        /\ e.payload.inErrors = i.inErrors /\ e.payload.outErrors = i.outErrors
    BY <1>2
  <2>2. i \in ifaces /\ i.hasCounters /\ InterfaceOK(i)
    BY DEF Reported
  <2>3. Validate(e)
    BY <2>1, <2>2 DEF Validate, ValidateInterface, InterfaceOK
  <2> QED BY <2>1, <2>2, <2>3
<1>3. CASE e = DeviceTelemetry
  <2>1. e.version = 2 /\ e.kind = "device"
    BY <1>3 DEF DeviceTelemetry
  <2>2. Validate(Repaired(e))
    BY <1>3, PollDeviceEvent
  <2> QED BY <1>3, <2>1, <2>2
<1>4. ASSUME NEW i \in Reported, NEW name,
             e = [version |-> 2, kind |-> "interface", type |-> "interface_telemetry",
                  payload |-> [index     |-> i.index,
                               name      |-> name,
                               admin     |-> i.admin,
                               inOctets  |-> i.inOctets,
                               outOctets |-> i.outOctets,
                               inErrors  |-> i.inErrors,
                               outErrors |-> i.outErrors]]
      PROVE  /\ e.version \in {1, 2} /\ e.kind \in {"device", "interface"}
             /\ Validate(IF e.version = 2 THEN Repaired(e) ELSE e)
             /\ e.kind = "interface" =>
                  \E j \in ifaces :
                    /\ InterfaceOK(j) /\ j.hasCounters
                    /\ e.payload.index = j.index
                    /\ e.payload.inOctets = j.inOctets /\ e.payload.outOctets = j.outOctets
             /\ ~(e.version = 2 /\ e.kind = "device")
  <2>1. /\ e.version = 2 /\ e.kind = "interface" /\ e.payload.index = i.index
        /\ e.payload.inOctets = i.inOctets /\ e.payload.outOctets = i.outOctets
    BY <1>4
  <2>2. i \in ifaces /\ i.hasCounters /\ InterfaceOK(i)
    BY DEF Reported
  <2>3. Validate(Repaired(e))
    BY <1>4, <2>2, PollInterfaceEvent
  <2> QED BY <2>1, <2>2, <2>3
<1>5. CASE e \in ToEvents
  <2>1. PICK none : none = ""
    OBVIOUS
  <2>2. \/ e = [version |-> 1, kind |-> "device", type |-> none,
                payload |-> [metric |-> "uptime_seconds"]]
        \/ \E i \in Reported :
             e = [version |-> 1, kind |-> "interface", type |-> none,
                  payload |-> [index     |-> i.index,
                               inOctets  |-> i.inOctets,
                               outOctets |-> i.outOctets,
                               inErrors  |-> i.inErrors,
                               outErrors |-> i.outErrors]]
    BY <1>5, <2>1, Zenon DEF ToEvents
  <2>3. CASE e = [version |-> 1, kind |-> "device", type |-> none,
                  payload |-> [metric |-> "uptime_seconds"]]
    <3>1. /\ e.version = 1 /\ e.kind = "device"
          /\ Validate(IF e.version = 2 THEN Repaired(e) ELSE e)
      BY <1>1, <2>3
    <3> QED BY ONLY <3>1
  <2>4. CASE \E i \in Reported :
               e = [version |-> 1, kind |-> "interface", type |-> none,
                    payload |-> [index     |-> i.index,
                                 inOctets  |-> i.inOctets,
                                 outOctets |-> i.outOctets,
                                 inErrors  |-> i.inErrors,
                                 outErrors |-> i.outErrors]]
    BY <1>2, <2>4
  <2> QED BY <2>2, <2>3, <2>4
<1>6. CASE e \in InterfaceTelemetry
  <2>1. \E i \in Reported : \E name :
          e = [version |-> 2, kind |-> "interface", type |-> "interface_telemetry",
               payload |-> [index     |-> i.index,
                            name      |-> name,
                            admin     |-> i.admin,
                            inOctets  |-> i.inOctets,
                            outOctets |-> i.outOctets,
                            inErrors  |-> i.inErrors,
                            outErrors |-> i.outErrors]]
    BY <1>6, ZenonT(30) DEF InterfaceTelemetry
  <2> QED BY ONLY <2>1, <1>4
<1> QED BY <1>3, <1>5, <1>6 DEF DeviceEvents

\* The device event reports every temperature that has a value.
LEMMA PollReportedTemperatures ==
  UNION {c.value : c \in DeviceTelemetry.payload.temperatures}
    = UNION {c.value : c \in vendor.temperatures}
<1> DEFINE ts == TemperatureComponents(vendor.temperatures)
<1>1. DeviceTelemetry.payload.temperatures = ts
  BY DEF DeviceTelemetry
<1> DEFINE Out(c) == [index |-> c.index, source |-> c.source, name |-> c.name,
                      value |-> c.value,
                      unit |-> IF c.unit = "" THEN "celsius" ELSE c.unit,
                      status |-> KnownStatus(c.status)]
<1>2. \A t \in ts : \E c \in vendor.temperatures : t.value = c.value
  <2> SUFFICES ASSUME NEW t \in ts PROVE \E c \in vendor.temperatures : t.value = c.value
    OBVIOUS
  <2>1. PICK c \in vendor.temperatures : t = Out(c)
    BY DEF TemperatureComponents
  <2> QED BY <2>1
<1>3. \A c \in vendor.temperatures : c.value # {} => \E t \in ts : t.value = c.value
  <2> SUFFICES ASSUME NEW c \in vendor.temperatures, c.value # {}
               PROVE  \E t \in ts : t.value = c.value
    OBVIOUS
  <2>1. Out(c) \in ts
    BY DEF TemperatureComponents
  <2>2. Out(c).value = c.value
    OBVIOUS
  <2> HIDE DEF ts, Out
  <2> QED BY <2>1, <2>2
<1> HIDE DEF ts
<1>4. UNION {c.value : c \in ts} = UNION {c.value : c \in vendor.temperatures}
  BY <1>2, <1>3
<1> QED BY <1>1, <1>4

-----------------------------------------------------------------------------
(***************************************************************************)
(* Every step keeps the invariant.                                         *)
(***************************************************************************)

\* Before the vendor's readings there are none.
LEMMA PollCoreOnly == VendorOK(CoreOnly)
<1>1. IsFiniteSet({})
  BY FS_EmptySet
<1>2. UNION {c.value : c \in {}} = {}
  OBVIOUS
<1>3. /\ CoreOnly.profile = "" /\ CoreOnly.capabilities = {} /\ CoreOnly.cpu = {}
      /\ CoreOnly.memory = {} /\ CoreOnly.temperatures = {} /\ CoreOnly.power = {}
  BY DEF CoreOnly
<1>4. TemperaturesOK({}) /\ PowerOK({})
  BY <1>1, <1>2 DEF TemperaturesOK, PowerOK, Distinct
<1> QED BY <1>3, <1>4 DEF VendorOK, CheckOptionalPct

LEMMA PollInitial == PollInit => PollIInv
<1> SUFFICES ASSUME PollInit PROVE PollIInv
  OBVIOUS
<1> USE DEF PollInit
<1>1. DOMAIN cols = {}
  BY DEF Nothing
<1>2. PollTypeOK
  BY <1>1 DEF PollTypeOK, NoOutcome
<1>3. ColumnsInv
  BY <1>1 DEF ColumnsInv
<1>4. ReadingsInv
  BY PollCoreOnly DEF ReadingsInv
<1>5. CountersOfOneTable /\ TemperatureIsReported /\ RefusedOnlyForTextOrIndex
  BY DEF CountersOfOneTable, TemperatureIsReported, RefusedOnlyForTextOrIndex
<1> QED BY <1>2, <1>3, <1>4, <1>5 DEF PollIInv

\* A step that publishes nothing keeps what holds of the events.
LEMMA PollQuiet ==
  ASSUME PollIInv, device' = device,
         telemetry' = {} \/ (telemetry' = telemetry /\ outcome' = outcome)
  PROVE  (CountersOfOneTable /\ TemperatureIsReported /\ RefusedOnlyForTextOrIndex)'
<1>1. CASE telemetry' = {}
  BY <1>1 DEF CountersOfOneTable, TemperatureIsReported, RefusedOnlyForTextOrIndex
<1>2. CASE telemetry' = telemetry /\ outcome' = outcome
  BY <1>2 DEF PollIInv, CountersOfOneTable, TemperatureIsReported, RefusedOnlyForTextOrIndex
<1> QED BY <1>1, <1>2

\* A poll that ends leaves its events and its outcome.
LEMMA PollEnds ==
  ASSUME PollIInv, NEW result, NEW reported, PollReturns(result, reported),
         reported # {} => result.success,
         result.temperature # {} => result.success,
         \A e \in reported : e.version \in {1, 2} /\ e.kind \in {"device", "interface"},
         (CountersOfOneTable /\ TemperatureIsReported /\ RefusedOnlyForTextOrIndex)'
  PROVE  PollIInv'
<1>1. /\ stage' = "idle" /\ outcome' = result /\ telemetry' = reported
      /\ DOMAIN cols' = {} /\ ifaces' = {} /\ vendor' = CoreOnly /\ device' = device
  BY DEF PollReturns, Nothing
<1>2. PollTypeOK'
  BY <1>1 DEF PollTypeOK, PollIInv
<1>3. ColumnsInv'
  BY <1>1 DEF ColumnsInv
<1>4. ReadingsInv'
  BY <1>1, PollCoreOnly DEF ReadingsInv
<1> QED BY <1>2, <1>3, <1>4 DEF PollIInv

LEMMA PollStepDevice ==
  ASSUME PollIInv, PollDevice
  PROVE  PollIInv'
<1> USE DEF PollDevice
<1>1. ifaces' = {} /\ vendor' = CoreOnly
  <2>1. /\ ifaces # {} => stage \in {"publish"} \cup DOMAIN ProfileColumns
        /\ vendor # CoreOnly => stage = "publish"
    BY DEF PollIInv, PollTypeOK
  <2>2. stage \notin {"publish"} \cup DOMAIN ProfileColumns
    BY DEF ProfileColumns
  <2> QED BY <2>1, <2>2
<1>2. \A c : Rows(c)' = Rows(c)
  BY DEF Rows
<1>3. PollTypeOK'
  <2>1. \A c \in DOMAIN cols' :
          cols'[c] \in
            [Rows(c)' -> {{}} \cup UNION {device'.table[c][i] : i \in Rows(c)'}]
    BY <1>2 DEF PollIInv, PollTypeOK
  <2> QED BY <1>1, <2>1 DEF PollIInv, PollTypeOK, NoOutcome
<1>4. ColumnsInv'
  BY <1>2 DEF PollIInv, ColumnsInv, ProfileColumns
<1>5. ReadingsInv'
  BY <1>1, PollCoreOnly DEF ReadingsInv
<1>6. (CountersOfOneTable /\ TemperatureIsReported /\ RefusedOnlyForTextOrIndex)'
  BY PollQuiet
<1> QED BY <1>3, <1>4, <1>5, <1>6 DEF PollIInv

LEMMA PollStepCoreFails ==
  ASSUME PollIInv, CoreFails
  PROVE  PollIInv'
<1>1. PollReturns(NoOutcome, {})
  BY DEF CoreFails
<1>2. telemetry' = {} /\ device' = device
  BY <1>1 DEF PollReturns
<1>3. (CountersOfOneTable /\ TemperatureIsReported /\ RefusedOnlyForTextOrIndex)'
  BY <1>2, PollQuiet
<1>4. NoOutcome.temperature = {}
  BY DEF NoOutcome
<1> QED BY <1>1, <1>3, <1>4, PollEnds

\* A column that is read holds what the device gives.
LEMMA PollColumnRead ==
  ASSUME PollIInv, NEW c, NEW f, cols' = With(c, f),
         device' = device, stage' = stage,
         DOMAIN f = Rows(c),
         f \in [Rows(c) -> {{}} \cup UNION {device.table[c][i] : i \in Rows(c)}],
         \A i \in Rows(c) :
           /\ f[i] = {} \/ f[i] \in device.table[c][i]
           /\ stage \in DOMAIN ProfileColumns => \A v \in f[i] : Acceptable(c, v)
  PROVE  /\ ColumnsInv'
         /\ \A d \in DOMAIN cols' :
              cols'[d] \in
                [Rows(d)' -> {{}} \cup UNION {device'.table[d][i] : i \in Rows(d)'}]
<1>1. \A d : Rows(d)' = Rows(d)
  BY DEF Rows
<1>2. /\ DOMAIN cols' = DOMAIN cols \cup {c}
      /\ \A d \in DOMAIN cols' : cols'[d] = IF d = c THEN f ELSE cols[d]
  BY DEF With
<1>3. \A d \in DOMAIN cols' : \/ d \in DOMAIN cols /\ cols'[d] = cols[d]
                              \/ d = c /\ cols'[d] = f
  <2> SUFFICES ASSUME NEW d \in DOMAIN cols'
               PROVE  \/ d \in DOMAIN cols /\ cols'[d] = cols[d]
                      \/ d = c /\ cols'[d] = f
    OBVIOUS
  <2>1. d \in DOMAIN cols \/ d = c
    BY <1>2
  <2>2. cols'[d] = IF d = c THEN f ELSE cols[d]
    BY <1>2
  <2> QED BY <2>1, <2>2
<1>4. ASSUME NEW d \in DOMAIN cols'
      PROVE  /\ DOMAIN (cols'[d]) = Rows(d)
             /\ cols'[d] \in [Rows(d) -> {{}} \cup UNION {device.table[d][i] : i \in Rows(d)}]
             /\ \A i \in Rows(d) :
                  /\ cols'[d][i] = {} \/ cols'[d][i] \in device.table[d][i]
                  /\ stage \in DOMAIN ProfileColumns =>
                       \A v \in cols'[d][i] : Acceptable(d, v)
  <2>1. CASE d \in DOMAIN cols /\ cols'[d] = cols[d]
    BY <2>1 DEF PollIInv, PollTypeOK, ColumnsInv
  <2>2. CASE d = c /\ cols'[d] = f
    BY <2>2
  <2> QED BY <1>3, <2>1, <2>2
<1>5. ColumnsInv'
  BY <1>1, <1>4 DEF ColumnsInv
<1> QED BY <1>1, <1>4, <1>5

\* A walk changes nothing but the columns.
LEMMA PollWalked ==
  ASSUME PollIInv, ColumnsInv',
         \A d \in DOMAIN cols' :
           cols'[d] \in
             [Rows(d)' -> {{}} \cup UNION {device'.table[d][i] : i \in Rows(d)'}],
         UNCHANGED <<device, stage, identity, ifaces, vendor, telemetry, outcome>>
  PROVE  PollIInv'
<1>1. PollTypeOK'
  <2>1. /\ device' \in Agents
        /\ stage' \in {"idle", "interfaces", "publish"} \cup DOMAIN ProfileColumns
        /\ ifaces' # {} => stage' \in {"publish"} \cup DOMAIN ProfileColumns
        /\ vendor' # CoreOnly => stage' = "publish"
        /\ telemetry' # {} => stage' = "idle" /\ outcome'.success
        /\ outcome'.temperature # {} => outcome'.success
        /\ \A e \in telemetry' :
             e.version \in {1, 2} /\ e.kind \in {"device", "interface"}
    BY DEF PollIInv, PollTypeOK
  <2> QED BY <2>1 DEF PollTypeOK
<1>2. ReadingsInv'
  <2>1. \A i : InterfaceOK(i) => InterfaceOK(i)'
    BY DEF InterfaceOK
  <2> QED BY <2>1 DEF PollIInv, ReadingsInv
<1>3. (CountersOfOneTable /\ TemperatureIsReported /\ RefusedOnlyForTextOrIndex)'
  BY PollQuiet
<1> QED BY <1>1, <1>2, <1>3 DEF PollIInv

LEMMA PollStepWalkInterfaces ==
  ASSUME PollIInv, WalkInterfaces
  PROVE  PollIInv'
<1>1. stage = "interfaces"
      /\ UNCHANGED <<device, stage, identity, ifaces, vendor, telemetry, outcome>>
  BY DEF WalkInterfaces
<1> PICK c : c = Head(walks)
  OBVIOUS
<1>2. PICK f \in Reads(c) : cols' = With(c, f)
  BY DEF WalkInterfaces
<1>3. /\ f \in [Rows(c) -> UNION {device.table[c][i] : i \in Rows(c)}]
      /\ \A i \in Rows(c) : f[i] \in device.table[c][i]
  BY DEF Reads
<1>4. f \in [Rows(c) -> {{}} \cup UNION {device.table[c][i] : i \in Rows(c)}]
  BY <1>3
<1>5. stage \notin DOMAIN ProfileColumns
  BY <1>1 DEF ProfileColumns
<1>6. DOMAIN f = Rows(c)
  BY <1>3
<1>7. /\ ColumnsInv'
      /\ \A d \in DOMAIN cols' :
           cols'[d] \in
             [Rows(d)' -> {{}} \cup UNION {device'.table[d][i] : i \in Rows(d)'}]
  BY <1>1, <1>2, <1>3, <1>4, <1>5, <1>6, PollColumnRead
<1> QED BY <1>1, <1>7, PollWalked

LEMMA PollStepWalkProfile ==
  ASSUME PollIInv, WalkProfile
  PROVE  PollIInv'
<1>1. UNCHANGED <<device, stage, identity, ifaces, vendor, telemetry, outcome>>
  BY DEF WalkProfile
<1> PICK c : c = Head(walks)
  OBVIOUS
<1>2. PICK f \in Reads(c), cut \in {{i} : i \in Rows(c)} \cup {{}} :
         cols' = With(c, Kept(c, f, cut))
  BY DEF WalkProfile
<1>3. /\ f \in [Rows(c) -> UNION {device.table[c][i] : i \in Rows(c)}]
      /\ \A i \in Rows(c) : f[i] \in device.table[c][i]
  BY DEF Reads
<1> PICK g : g = Kept(c, f, cut)
  OBVIOUS
<1>4. DOMAIN g = Rows(c) /\ g = [i \in Rows(c) |-> g[i]]
  BY <1>3 DEF Kept
<1>5. ASSUME NEW i \in Rows(c)
      PROVE  /\ g[i] = {} \/ g[i] \in device.table[c][i]
             /\ \A v \in g[i] : Acceptable(c, v)
  <2>1. g[i] = IF \E j \in Refused(c, f) \cup cut : j <= i THEN {} ELSE f[i]
    BY <1>3 DEF Kept
  <2>2. CASE \E j \in Refused(c, f) \cup cut : j <= i
    BY <2>1, <2>2
  <2>3. CASE ~\E j \in Refused(c, f) \cup cut : j <= i
    <3>1. g[i] = f[i]
      BY <2>1, <2>3
    <3>2. i \notin Refused(c, f)
      <4>1. i \in Nat
        BY PollRows DEF PollIInv, PollTypeOK
      <4> QED BY <2>3, <4>1
    <3> QED BY <1>3, <3>1, <3>2 DEF Refused
  <2> QED BY <2>2, <2>3
<1>6. g \in [Rows(c) -> {{}} \cup UNION {device.table[c][i] : i \in Rows(c)}]
  BY <1>4, <1>5
<1>7. /\ ColumnsInv'
      /\ \A d \in DOMAIN cols' :
           cols'[d] \in
             [Rows(d)' -> {{}} \cup UNION {device'.table[d][i] : i \in Rows(d)'}]
  BY <1>1, <1>2, <1>4, <1>5, <1>6, PollColumnRead
<1> QED BY <1>1, <1>7, PollWalked

\* The profile is one of those that are registered.
LEMMA PollMatch ==
  ASSUME NEW oid, NEW p \in Match(oid)
  PROVE  p \in DOMAIN ProfileColumns
<1>1. \A q \in Range(Profiles) : q \in {"cisco", "arista"}
  BY DEF Profiles, Range
<1>2. \A tier : Longest(tier, oid) \subseteq Range(Profiles)
  BY DEF Longest
<1>3. p \in Range(Profiles)
  BY <1>2 DEF Match
<1> QED BY <1>1, <1>3 DEF ProfileColumns

LEMMA PollStepMatchProfile ==
  ASSUME PollIInv, MatchProfile
  PROVE  PollIInv'
<1>1. /\ stage = "interfaces" /\ ifaces' = PollInterfaces /\ cols' = Nothing
      /\ UNCHANGED <<device, identity, vendor, telemetry, outcome>>
  BY DEF MatchProfile
<1>2. stage' \in {"publish"} \cup DOMAIN ProfileColumns
  BY PollMatch DEF MatchProfile
<1>3. DOMAIN cols' = {}
  BY <1>1 DEF Nothing
<1>4. telemetry = {} /\ vendor = CoreOnly
  <2>1. /\ telemetry # {} => stage = "idle"
        /\ vendor # CoreOnly => stage = "publish"
    BY DEF PollIInv, PollTypeOK
  <2> QED BY <1>1, <2>1
<1>5. PollTypeOK'
  <2>1. /\ device' \in Agents
        /\ stage' \in {"idle", "interfaces", "publish"} \cup DOMAIN ProfileColumns
        /\ outcome'.temperature # {} => outcome'.success
    BY <1>1, <1>2 DEF PollIInv, PollTypeOK
  <2> QED BY <1>1, <1>2, <1>3, <1>4, <2>1 DEF PollTypeOK
<1>6. ColumnsInv'
  BY <1>3 DEF ColumnsInv
<1>7. ReadingsInv'
  <2>1. \A i \in ifaces' : InterfaceOK(i)
    BY <1>1, PollInterface DEF PollIInv, PollTypeOK, PollInterfaces
  <2>2. \A i : InterfaceOK(i) => InterfaceOK(i)'
    BY <1>1 DEF InterfaceOK
  <2> QED BY <1>1, <2>1, <2>2 DEF PollIInv, ReadingsInv
<1>8. (CountersOfOneTable /\ TemperatureIsReported /\ RefusedOnlyForTextOrIndex)'
  BY <1>1, PollQuiet
<1> QED BY <1>5, <1>6, <1>7, <1>8 DEF PollIInv

LEMMA PollStepEnrichProfile ==
  ASSUME PollIInv, EnrichProfile
  PROVE  PollIInv'
<1>1. /\ stage \in DOMAIN ProfileColumns /\ stage' = "publish" /\ cols' = Nothing
      /\ vendor' = (IF stage = "cisco" THEN CollectCisco ELSE CollectArista)
      /\ UNCHANGED <<device, identity, ifaces, telemetry, outcome>>
  BY DEF EnrichProfile
<1>2. DOMAIN cols' = {}
  BY <1>1 DEF Nothing
<1>3. telemetry = {}
  <2>1. telemetry # {} => stage = "idle"
    BY DEF PollIInv, PollTypeOK
  <2> QED BY <1>1, <2>1 DEF ProfileColumns
<1>4. PollTypeOK'
  <2>1. /\ device' \in Agents
        /\ outcome'.temperature # {} => outcome'.success
    BY <1>1 DEF PollIInv, PollTypeOK
  <2> QED BY <1>1, <1>2, <1>3, <2>1 DEF PollTypeOK
<1>5. ColumnsInv'
  BY <1>2 DEF ColumnsInv
<1>6. ReadingsInv'
  <2>1. VendorOK(vendor')
    BY <1>1, PollVendor DEF PollIInv, PollTypeOK
  <2>2. \A i : InterfaceOK(i) => InterfaceOK(i)'
    BY <1>1 DEF InterfaceOK
  <2> QED BY <1>1, <2>1, <2>2 DEF PollIInv, ReadingsInv
<1>7. (CountersOfOneTable /\ TemperatureIsReported /\ RefusedOnlyForTextOrIndex)'
  BY <1>1, PollQuiet
<1> QED BY <1>4, <1>5, <1>6, <1>7 DEF PollIInv

LEMMA PollStepPublish ==
  ASSUME PollIInv, Publish
  PROVE  PollIInv'
<1> DEFINE good == [success |-> TRUE,
                    temperature |-> PrimaryTemperature(vendor.temperatures)]
<1>1. CASE PollReturns(NoOutcome, {})
  <2>1. telemetry' = {} /\ device' = device
    BY <1>1 DEF PollReturns
  <2>2. (CountersOfOneTable /\ TemperatureIsReported /\ RefusedOnlyForTextOrIndex)'
    BY <2>1, PollQuiet
  <2>3. NoOutcome.temperature = {}
    BY DEF NoOutcome
  <2> QED BY <1>1, <2>2, <2>3, PollEnds
<1>2. CASE PollReturns(good, DeviceEvents)
  <2>1. (\A i \in ifaces : InterfaceOK(i)) /\ VendorOK(vendor)
    BY DEF PollIInv, ReadingsInv
  <2>2. telemetry' = DeviceEvents /\ device' = device /\ outcome' = good
    BY <1>2 DEF PollReturns
  <2>3. \A e \in DeviceEvents :
          /\ e.version \in {1, 2} /\ e.kind \in {"device", "interface"}
          /\ Validate(IF e.version = 2 THEN Repaired(e) ELSE e)
          /\ e.version = 2 /\ e.kind = "device" => e = DeviceTelemetry
    BY <2>1, PollEvents
  <2>4. RefusedOnlyForTextOrIndex'
    BY <2>2, <2>3 DEF RefusedOnlyForTextOrIndex
  <2>5. CountersOfOneTable'
    <3> SUFFICES ASSUME NEW e \in DeviceEvents, e.kind = "interface"
                 PROVE  \E t \in OctetColumns :
                          /\ e.payload.inOctets # {} /\ e.payload.outOctets # {}
                          /\ e.payload.inOctets \subseteq
                               UNION device.table[t[1]][e.payload.index]
                          /\ e.payload.outOctets \subseteq
                               UNION device.table[t[2]][e.payload.index]
      BY <2>2 DEF CountersOfOneTable, OctetColumns
    <3>1. PICK i \in ifaces :
            /\ InterfaceOK(i) /\ i.hasCounters /\ e.payload.index = i.index
            /\ e.payload.inOctets = i.inOctets /\ e.payload.outOctets = i.outOctets
      BY <2>1, PollEvents
    <3> QED BY <3>1 DEF InterfaceOK
  <2>6. TemperatureIsReported'
    <3> DEFINE values == UNION {c.value : c \in vendor.temperatures}
               primary == PrimaryTemperature(vendor.temperatures)
    <3>1. primary \subseteq values
          /\ \A v \in values : v >= 0 => \E t \in primary : v <= t
      BY <2>1, PollPrimary DEF VendorOK
    <3>2. UNION {c.value : c \in DeviceTelemetry.payload.temperatures} = values
      BY PollReportedTemperatures
    <3>3. outcome'.temperature = primary
      BY <2>2
    <3> HIDE DEF values, primary
    <3>4. ASSUME NEW e \in telemetry', e.version = 2, e.kind = "device"
          PROVE  /\ outcome'.temperature \subseteq UNION {c.value : c \in e.payload.temperatures}
                 /\ \A v \in UNION {c.value : c \in e.payload.temperatures} :
                      v >= 0 => \E t \in outcome'.temperature : v <= t
      <4>1. e = DeviceTelemetry
        BY <2>2, <2>3, <3>4
      <4>2. UNION {c.value : c \in e.payload.temperatures} = values
        BY <3>2, <4>1
      <4> QED BY <3>1, <3>3, <4>2
    <3> QED BY <3>4 DEF TemperatureIsReported
  <2>7. good.success
    OBVIOUS
  <2> HIDE DEF good
  <2> QED BY <1>2, <2>3, <2>4, <2>5, <2>6, <2>7, PollEnds
<1> QED BY <1>1, <1>2 DEF Publish

LEMMA PollStep == PollIInv /\ [PollNext]_pollVars => PollIInv'
<1> SUFFICES ASSUME PollIInv, [PollNext]_pollVars PROVE PollIInv'
  OBVIOUS
<1>1. CASE PollDevice
  BY <1>1, PollStepDevice
<1>2. CASE CoreFails
  BY <1>2, PollStepCoreFails
<1>3. CASE WalkInterfaces
  BY <1>3, PollStepWalkInterfaces
<1>4. CASE MatchProfile
  BY <1>4, PollStepMatchProfile
<1>5. CASE WalkProfile
  BY <1>5, PollStepWalkProfile
<1>6. CASE EnrichProfile
  BY <1>6, PollStepEnrichProfile
<1>7. CASE Publish
  BY <1>7, PollStepPublish
<1>8. CASE UNCHANGED pollVars
  <2>1. UNCHANGED <<device, stage, identity, ifaces, vendor, telemetry, outcome>>
        /\ cols' = cols
    BY <1>8 DEF pollVars
  <2>2. \A c : Rows(c)' = Rows(c)
    BY <2>1 DEF Rows
  <2>3. ColumnsInv'
    BY <2>1, <2>2 DEF PollIInv, ColumnsInv
  <2>4. \A d \in DOMAIN cols' :
          cols'[d] \in
            [Rows(d)' -> {{}} \cup UNION {device'.table[d][i] : i \in Rows(d)'}]
    BY <2>1, <2>2 DEF PollIInv, PollTypeOK
  <2> QED BY <2>1, <2>3, <2>4, PollWalked
<1> QED BY <1>1, <1>2, <1>3, <1>4, <1>5, <1>6, <1>7, <1>8 DEF PollNext

\* What the poll knows is what the device gave, at every step.
THEOREM PollInductive == PollSpec => []PollIInv
BY PollInitial, PollStep, PTL DEF PollSpec

\* The stages and the columns each has read; the octet counters of a reported
\* interface come from tables of one width (if_mib.go:149-182); the temperature
\* the health tracker judges by is the highest the device event reports
\* (poller.go:429, telemetry.go:90).
THEOREM PollReportHolds == PollSpec => []ReportIsConsistent
<1>1. PollIInv => ReportIsConsistent
  BY DEF PollIInv, ReportIsConsistent
<1> QED BY <1>1, PollInductive, PTL

\* Whatever rows a poll missed, whatever moved between two columns and wherever
\* a walk broke off, ingestion (validate/v2.go) refuses an event only for a
\* blank text or an index of the device.
THEOREM PollRefusalHolds == PollSpec => []RefusedOnlyForTextOrIndex
<1>1. PollIInv => RefusedOnlyForTextOrIndex
  BY DEF PollIInv
<1> QED BY <1>1, PollInductive, PTL

\* filter.go:118-149: an exclude of either form wins over every include, an
\* include of either form over the default exclusion of virtual types.
THEOREM PollSelectionHolds == PollSpec => []SelectionByPrecedence
<1>1. PollIInv => SelectionByPrecedence
  <2> SUFFICES ASSUME PollIInv, NEW i \in ifaces
               PROVE  LET matched(action, list) ==
                            \E r \in Range(list) \cup
                                    {x \in Range(device.filter.rules) : x.action = action} :
                              RuleMatches(r, i)
                      IN  Selection(device.filter, i) =
                            CASE matched("exclude", device.filter.exclude) -> "excluded_rule"
                              [] ~matched("exclude", device.filter.exclude)
                                 /\ ~matched("include", device.filter.include)
                                 /\ i.type \in DefaultExcludedTypes -> "excluded_default"
                              [] OTHER -> "selected"
    BY DEF SelectionByPrecedence
  <2> PICK c : c = device.filter
    OBVIOUS
  <2>1. /\ c.include \in Seq(Range(c.include)) /\ c.rules \in Seq(Range(c.rules))
        /\ c.exclude \in Seq(Range(c.exclude))
    BY AgentAssumption DEF PollIInv, PollTypeOK
  <2> DEFINE in == \E r \in RulesOf(c.include, c.rules, "include") : RuleMatches(r, i)
             ex == \E r \in RulesOf(c.exclude, c.rules, "exclude") : RuleMatches(r, i)
  <2>2. Selection(c, i) =
          IF ex THEN "excluded_rule"
          ELSE IF in \/ i.type \notin DefaultExcludedTypes THEN "selected"
          ELSE "excluded_default"
    BY <2>1, PollPrecedence
  <2>3. Selection(c, i) =
          CASE ex -> "excluded_rule"
            [] ~ex /\ ~in /\ i.type \in DefaultExcludedTypes -> "excluded_default"
            [] OTHER -> "selected"
    <3> HIDE DEF in, ex
    <3> QED BY <2>2
  <2> QED BY <2>3 DEF RulesOf
<1> QED BY <1>1, PollInductive, PTL

-----------------------------------------------------------------------------
(***************************************************************************)
(* What the poll hands to the tracker.                                     *)
(***************************************************************************)

\* The outcome as HealthTracker has it.
TrackerOutcome ==
  [success |-> outcome.success, temperature |-> The(outcome.temperature, NoReading)]

OutcomeInv ==
  /\ outcome.success \in BOOLEAN
  /\ outcome.temperature # {} =>
       outcome.success /\ \E t \in Nat : outcome.temperature = {t}

LEMMA PollNoOutcome ==
  NoOutcome.success = FALSE /\ NoOutcome.temperature = {}
BY DEF NoOutcome

LEMMA PollPrimaryNat ==
  ASSUME NEW cs, TemperaturesOK(cs), PrimaryTemperature(cs) # {}
  PROVE  \E t \in Nat : PrimaryTemperature(cs) = {t}
<1> DEFINE valid == {v \in UNION {c.value : c \in cs} : v >= 0}
<1>1. PrimaryTemperature(cs) = {Max(valid)} /\ valid # {}
  BY DEF PrimaryTemperature
<1>2. ASSUME NEW v \in valid PROVE v \in Nat
  <2>1. v \in UNION {c.value : c \in cs} /\ v >= 0
    OBVIOUS
  <2>2. v \in Int
    BY <2>1 DEF TemperaturesOK
  <2> QED BY <2>1, <2>2
<1>3. IsFiniteSet(valid)
  <2>1. \A s \in SUBSET UNION {c.value : c \in cs} : IsFiniteSet(s)
    BY FS_Subset DEF TemperaturesOK
  <2>2. valid \in SUBSET UNION {c.value : c \in cs}
    OBVIOUS
  <2> HIDE DEF valid
  <2> QED BY <2>1, <2>2
<1> HIDE DEF valid
<1>4. Max(valid) \in Nat
  BY <1>1, <1>2, <1>3, PollGreatest
<1> QED BY <1>1, <1>4

LEMMA PollOutcomeStep ==
  PollIInv /\ OutcomeInv /\ [PollNext]_pollVars => OutcomeInv'
<1> SUFFICES ASSUME PollIInv, OutcomeInv, [PollNext]_pollVars PROVE OutcomeInv'
  OBVIOUS
<1>1. CASE outcome' = NoOutcome
  BY <1>1, PollNoOutcome DEF OutcomeInv
<1>2. CASE outcome' = outcome
  BY <1>2 DEF OutcomeInv
<1>3. CASE outcome' = [success |-> TRUE,
                       temperature |-> PrimaryTemperature(vendor.temperatures)]
  <2>1. outcome'.success = TRUE
        /\ outcome'.temperature = PrimaryTemperature(vendor.temperatures)
    BY <1>3
  <2>2. TemperaturesOK(vendor.temperatures)
    BY DEF PollIInv, ReadingsInv, VendorOK
  <2>3. outcome'.temperature # {} => \E t \in Nat : outcome'.temperature = {t}
    BY <2>1, <2>2, PollPrimaryNat
  <2> QED BY <2>1, <2>3 DEF OutcomeInv
<1> QED BY <1>1, <1>2, <1>3
        DEF PollNext, PollDevice, CoreFails, WalkInterfaces, MatchProfile, WalkProfile,
            EnrichProfile, Publish, PollReturns, pollVars

\* doPoll against the tracker (poller.go:408-434): whatever a poll reads and
\* however it ends, its outcome is one of those HealthTracker's polls return,
\* and a failed poll never brings a temperature.
THEOREM PollFitsTracker ==
  ASSUME Nat \subseteq Temperatures
  PROVE  PollSpec => [](/\ TrackerOutcome \in Outcome
                        /\ ~TrackerOutcome.success =>
                             TrackerOutcome.temperature = NoReading)
<1> DEFINE Fits == /\ TrackerOutcome \in Outcome
                   /\ ~TrackerOutcome.success => TrackerOutcome.temperature = NoReading
<1>1. OutcomeInv => Fits
  <2> SUFFICES ASSUME OutcomeInv PROVE Fits
    OBVIOUS
  <2>1. TrackerOutcome.success = outcome.success
        /\ TrackerOutcome.temperature = The(outcome.temperature, NoReading)
        /\ TrackerOutcome = [success |-> TrackerOutcome.success,
                             temperature |-> TrackerOutcome.temperature]
    BY DEF TrackerOutcome
  <2>2. CASE outcome.temperature = {}
    <3>1. TrackerOutcome.temperature = NoReading
      BY <2>1, <2>2 DEF The
    <3> QED BY <2>1, <3>1 DEF OutcomeInv, Outcome
  <2>3. CASE outcome.temperature # {}
    <3>1. PICK t \in Nat : outcome.temperature = {t}
      BY <2>3 DEF OutcomeInv
    <3>2. The(outcome.temperature, NoReading) = t
      BY <3>1 DEF The
    <3> QED BY <2>1, <2>3, <3>1, <3>2 DEF OutcomeInv, Outcome
  <2> QED BY <2>2, <2>3
<1>2. PollInit => OutcomeInv
  BY PollNoOutcome DEF PollInit, OutcomeInv
<1> HIDE DEF Fits
<1>3. PollSpec => []Fits
  BY <1>1, <1>2, PollInductive, PollOutcomeStep, PTL DEF PollSpec
<1> QED BY <1>3 DEF Fits
=============================================================================
