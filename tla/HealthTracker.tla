--------------------------- MODULE HealthTracker ----------------------------
(***************************************************************************)
(* The collector's poll cycle (internal/poller), the health tracker it     *)
(* feeds (internal/health) and the configuration snapshots both read       *)
(* (internal/config/snapshot.go).                                          *)
(*                                                                         *)
(* A cycle takes the active snapshot, polls the due devices with a bounded *)
(* pool of workers, and hands the outcomes of a complete batch to          *)
(* ApplyBatch, which evaluates every device in topological order and       *)
(* returns the transitions to publish.  ApplyBatch holds Tracker.mu; it is *)
(* one step per device here, and properties of the ledger are stated for   *)
(* the states in which the lock is free.                                   *)
(*                                                                         *)
(* Device ids are numbers, in their sort order.  An entry that is missing  *)
(* from Tracker.devices and a zero entry behave alike, so the ledger is    *)
(* total.  Times are left out: any due set the schedule allows may occur.  *)
(***************************************************************************)
EXTENDS Integers, Sequences, FiniteSets

CONSTANTS
  Devices,      \* ids that may appear in an inventory
  Configs,      \* snapshots that pass validation
  Edits,        \* reloads the operator may make: pairs of snapshots
  Temperatures, \* readings a poll may return
  PublishMayFail, \* whether publishing a health event may fail
  MaxWorkers,   \* max_workers
  MaxFailures,  \* bound: failure counts above it are not told apart
  MaxReloads,   \* bound: reloads
  MaxStops      \* bound: shutdowns

NoReading == -1

\* What Load accepts (validateDependencies): references exist, no cycles.
Inventory(c) == {c.list[i] : i \in DOMAIN c.list}

Acyclic(c) ==
  \A T \in SUBSET Inventory(c) :
    T # {} => \E d \in T : c.upstream[d] \cap T = {}

ASSUME HealthAssumption ==
  /\ Devices \subseteq Nat
  /\ IsFiniteSet(Devices)
  /\ Temperatures \subseteq Nat
  /\ PublishMayFail \in BOOLEAN
  /\ MaxWorkers \in Nat \ {0}
  /\ MaxFailures \in Nat
  /\ MaxReloads \in Nat
  /\ MaxStops \in Nat
  /\ Configs # {}
  /\ Edits \subseteq Configs \X Configs
  /\ \A c \in Configs :
       /\ c.list \in Seq(Devices)
       /\ c.upstream \in [Devices -> SUBSET Devices]
       /\ \A d \in Inventory(c) : c.upstream[d] \subseteq Inventory(c)
       /\ Acyclic(c)
       /\ c.threshold \in 1 .. MaxFailures
       /\ c.warning \in [Devices -> Nat]
       /\ c.alerts \in [Devices -> BOOLEAN]

VARIABLES
  active,      \* Manager.current
  reloads,     \* reloads so far
  cfg,         \* the snapshot of the present cycle
  pc,          \* the poller: see Phases
  scheduled,   \* devices with an entry in nextDue
  first,       \* firstCycle
  due,         \* devices of the batch
  todo,        \* places in the list of the due devices no worker has yet
  running,     \* devices a worker polls
  outcomes,    \* outcomes of the batch so far: device -> outcome
  cancelled,   \* the poll context is done
  stops,       \* shutdowns so far
  ledger,      \* Tracker.devices
  left,        \* devices ApplyBatch has still to evaluate
  events,      \* transitions ApplyBatch returns: device -> event
  sent,        \* what the latest health event published of a device says
  dropped      \* auxiliary: devices whose latest event was not published

configVars == <<active, reloads>>
batchVars  == <<due, todo, running, outcomes>>
cycleVars  == <<cfg, scheduled, first>>
evalVars   == <<left, events>>
pubVars    == <<sent, dropped>>
vars == <<configVars, pc, batchVars, cycleVars, cancelled, stops, ledger,
          evalVars, pubVars>>

Phases == {"idle", "polling", "evaluating", "publishing", "stopped"}
States == {"none", "healthy", "warning", "critical", "unknown"}
Reasons == {"none", "reachable", "temperature_threshold", "direct_unreachable",
            "upstream_unreachable", "recovered"}
Transitions == {"initial", "entered", "recovered", "reasserted"}

\* DeviceHealth.  state "none" is HasState = false, outcome "none" is
\* HasOutcome = false; alerts is AlertsEnabledPublished.
Entry ==
  [outcome : {"none", "ok", "fail"}, failures : 0 .. MaxFailures,
   temperature : Temperatures \cup {NoReading},
   state : States, reason : Reasons, unavailable : SUBSET Devices,
   roots : SUBSET Devices, alerts : BOOLEAN]

Unobserved ==
  [outcome |-> "none", failures |-> 0, temperature |-> NoReading,
   state |-> "none", reason |-> "none", unavailable |-> {}, roots |-> {},
   alerts |-> FALSE]

Event == [state : States \ {"none"}, reason : Reasons \ {"none"},
          previous : States, transition : Transitions, alerts : BOOLEAN,
          roots : SUBSET Devices]

\* The part of an event that is followed once it is published.
Published == [state : States \ {"none"}, reason : Reasons \ {"none"},
              alerts : BOOLEAN]

NoEvent == [state |-> "none"]

\* What one poll returns.
Outcome == [success : BOOLEAN, temperature : Temperatures \cup {NoReading}]

Empty == [d \in {} |-> 0]

TypeOK ==
  /\ active \in Configs
  /\ cfg \in Configs
  /\ reloads \in 0 .. MaxReloads
  /\ pc \in Phases
  /\ scheduled \subseteq Devices
  /\ first \in BOOLEAN
  /\ due \subseteq Devices
  /\ todo \subseteq DOMAIN cfg.list
  /\ running \subseteq Devices
  /\ DOMAIN outcomes \subseteq Devices
  /\ \A d \in DOMAIN outcomes : outcomes[d] \in Outcome
  /\ cancelled \in BOOLEAN
  /\ stops \in 0 .. MaxStops
  /\ ledger \in [Devices -> Entry]
  /\ left \subseteq Devices
  /\ DOMAIN events \subseteq Devices
  /\ \A d \in DOMAIN events : events[d] \in Event
  /\ sent \in [Devices -> Published \cup {NoEvent}]
  /\ dropped \subseteq Devices

Init ==
  /\ active \in Configs
  /\ cfg = active
  /\ reloads = 0
  /\ pc = "idle"
  /\ scheduled = {}
  /\ first = TRUE
  /\ due = {}
  /\ todo = {}
  /\ running = {}
  /\ outcomes = Empty
  /\ cancelled = FALSE
  /\ stops = 0
  /\ ledger = [d \in Devices |-> Unobserved]
  /\ left = {}
  /\ events = Empty
  /\ sent = [d \in Devices |-> NoEvent]
  /\ dropped = {}

-----------------------------------------------------------------------------
(***************************************************************************)
(* Reload, shutdown and restart.                                           *)
(***************************************************************************)

\* Manager.Reload: the new snapshot replaces the old one at once.
Reload(c) ==
  /\ reloads < MaxReloads
  /\ pc # "stopped"
  /\ <<active, c>> \in Edits
  /\ active' = c
  /\ reloads' = reloads + 1
  /\ UNCHANGED <<pc, batchVars, cycleVars, cancelled, stops, ledger, evalVars,
                 pubVars>>

\* The process is told to stop: the poll context is done.
Cancel ==
  /\ pc # "stopped"
  /\ ~cancelled
  /\ stops < MaxStops
  /\ cancelled' = TRUE
  /\ stops' = stops + 1
  /\ UNCHANGED <<configVars, pc, batchVars, cycleVars, ledger, evalVars, pubVars>>

\* main does not wait for the poller: it returns, and the process ends,
\* whatever the poller is doing.
Halt ==
  /\ pc # "stopped"
  /\ cancelled
  /\ pc' = "stopped"
  /\ UNCHANGED <<configVars, batchVars, cycleVars, cancelled, stops, ledger,
                 evalVars, pubVars>>

\* A new process: nothing of the cycle or of the tracker survives.
Restart ==
  /\ pc = "stopped"
  /\ pc' = "idle"
  /\ cfg' = active
  /\ scheduled' = {}
  /\ first' = TRUE
  /\ due' = {}
  /\ todo' = {}
  /\ running' = {}
  /\ outcomes' = Empty
  /\ cancelled' = FALSE
  /\ ledger' = [d \in Devices |-> Unobserved]
  /\ left' = {}
  /\ events' = Empty
  /\ dropped' = {}
  /\ UNCHANGED <<configVars, stops, sent>>

-----------------------------------------------------------------------------
(***************************************************************************)
(* The poll cycle.                                                         *)
(***************************************************************************)

\* syncInventory: health.Prune forgets the devices that left the inventory.
Pruned(c) ==
  [d \in Devices |-> IF d \in Inventory(c) THEN ledger[d] ELSE Unobserved]

\* dueDevices: all in the first cycle, then what is due or has no schedule.
MayBeDue(S, c) ==
  IF first THEN S = Inventory(c)
  ELSE S \subseteq Inventory(c) /\ Inventory(c) \ scheduled \subseteq S

\* Run: take the snapshot, prune, and start a batch if a device is due.
StartCycle(S) ==
  /\ pc = "idle"
  /\ MayBeDue(S, active)
  /\ cfg' = active
  /\ ledger' = Pruned(active)
  /\ dropped' = dropped \cap Inventory(active)
  /\ scheduled' = scheduled \cap Inventory(active)
  /\ pc' = IF S = {} THEN "idle" ELSE "polling"
  /\ due' = S
  /\ todo' = {i \in DOMAIN active.list : active.list[i] \in S}
  /\ UNCHANGED <<configVars, first, running, outcomes, cancelled,
                 stops, evalVars, sent>>

\* Nothing is due and the wait for the next device ends with the context.
Exit ==
  /\ pc = "idle"
  /\ cancelled
  /\ MayBeDue({}, active)
  /\ pc' = "stopped"
  /\ UNCHANGED <<configVars, batchVars, cycleVars, cancelled, stops, ledger,
                 evalVars, pubVars>>

\* jobs <- device: a free worker takes the next device, unless it sees the
\* context done, in which case it leaves without polling.
Dispatch ==
  /\ pc = "polling"
  /\ Cardinality(running) < MaxWorkers
  /\ \E i \in todo :
       /\ \A j \in todo : i <= j
       /\ todo' = todo \ {i}
       /\ running' = IF cancelled THEN running ELSE running \cup {cfg.list[i]}
  /\ UNCHANGED <<configVars, pc, cycleVars, due, outcomes, cancelled,
                 stops, ledger, evalVars, pubVars>>

\* pollAll's select takes ctx.Done(): no further device is handed out.
StopDispatch ==
  /\ pc = "polling"
  /\ cancelled
  /\ todo # {}
  /\ todo' = {}
  /\ UNCHANGED <<configVars, pc, cycleVars, due, running, outcomes,
                 cancelled, stops, ledger, evalVars, pubVars>>

Returns(d, o) ==
  /\ pc = "polling"
  /\ d \in running
  /\ running' = running \ {d}
  /\ outcomes' = [x \in DOMAIN outcomes \cup {d} |->
                    IF x = d THEN o ELSE outcomes[x]]

\* doPoll went through, telemetry published.
PollSucceeds(d, t) ==
  /\ Returns(d, [success |-> TRUE, temperature |-> t])
  /\ UNCHANGED <<configVars, pc, cycleVars, due, todo, cancelled,
                 stops, ledger, evalVars, pubVars>>

\* The device does not answer, the context ends while it is polled, or its
\* telemetry cannot be published: doPoll returns that error too.
PollFails(d) ==
  /\ Returns(d, [success |-> FALSE, temperature |-> NoReading])
  /\ UNCHANGED <<configVars, pc, cycleVars, due, todo, cancelled, stops, ledger,
                 evalVars, pubVars>>

\* What follows pollAll in Run.
EndCycle ==
  /\ scheduled' = scheduled \cup due
  /\ first' = FALSE
  /\ pc' = IF cancelled THEN "stopped" ELSE "idle"
  /\ due' = {}
  /\ outcomes' = Empty

BatchDone == pc = "polling" /\ todo = {} /\ running = {}

\* A worker left before every due device was polled.
DiscardBatch ==
  /\ BatchDone
  /\ DOMAIN outcomes # due
  /\ EndCycle
  /\ UNCHANGED <<configVars, cfg, todo, running, cancelled, stops, ledger,
                 evalVars, pubVars>>

-----------------------------------------------------------------------------
(***************************************************************************)
(* ApplyBatch.                                                             *)
(***************************************************************************)

\* FailureCount is only ever compared with a threshold, none of which is
\* above MaxFailures, so it may stop there.
Counted(e, o) ==
  [e EXCEPT !.outcome = IF o.success THEN "ok" ELSE "fail",
            !.failures = IF o.success THEN 0
                         ELSE IF e.failures < MaxFailures THEN e.failures + 1
                         ELSE e.failures,
            !.temperature = o.temperature]

\* The first loop: outcomes enter the failure ledger.
CommitBatch ==
  /\ BatchDone
  /\ DOMAIN outcomes = due
  /\ pc' = "evaluating"
  /\ ledger' = [d \in Devices |->
                  IF d \in due THEN Counted(ledger[d], outcomes[d]) ELSE ledger[d]]
  /\ left' = Inventory(cfg)
  /\ events' = Empty
  /\ UNCHANGED <<configVars, batchVars, cycleVars, cancelled, stops, pubVars>>

\* topologicalOrder: the smallest id whose upstreams were all evaluated.
Turn(d) ==
  LET ready == {x \in left : cfg.upstream[x] \cap left = {}}
  IN d \in ready /\ \A x \in ready : d <= x

Down(u) == ledger[u].outcome = "fail" /\ ledger[u].failures >= cfg.threshold

Impaired(u) == ledger[u].state \in {"critical", "unknown"}

Responds(d) == ledger[d].outcome = "ok"

\* Mutant: one responding upstream is not enough.
DirectFailureAllRespond(d) ==
  /\ Down(d)
  /\ \A u \in cfg.upstream[d] : Responds(u)

\* Mutant: a device without upstreams is not a case of its own.
DirectFailureNoRoot(d) == Down(d) /\ \E u \in cfg.upstream[d] : Responds(u)

\* A failed device with no upstream, or with one that responded.
DirectFailure(d) ==
  /\ Down(d)
  /\ \/ cfg.upstream[d] = {}
     \/ \E u \in cfg.upstream[d] : Responds(u)

\* A failed device all of whose upstreams are critical or unknown.
UpstreamFailure(d) ==
  /\ Down(d)
  /\ cfg.upstream[d] # {}
  /\ \A u \in cfg.upstream[d] : Down(u) /\ Impaired(u)

Undecided(d) == ~Responds(d) /\ ~DirectFailure(d) /\ ~UpstreamFailure(d)

\* collectRootCauses: what the walk visits from S, through unknown devices.
Walked(S) ==
  {u \in Devices :
     \A T \in SUBSET Devices :
       /\ S \subseteq T
       /\ \A x \in T : ledger[x].state = "unknown" => ledger[x].unavailable \subseteq T
       => u \in T}

RootCauses(S) == {u \in Walked(S) : ledger[u].state = "critical"}

\* The walk keeps no record of unknown devices: on a cycle it never ends.
Diverges(S) ==
  \E u \in Walked(S) :
    ledger[u].state = "unknown" /\ u \in Walked(ledger[u].unavailable)

Rank(s) == CASE s = "healthy" -> 4 [] s = "warning" -> 3 [] s = "unknown" -> 2
             [] s = "critical" -> 1 [] OTHER -> 0

IsRecovery(previous, next) ==
  /\ previous \in {"critical", "unknown", "warning"}
  /\ Rank(next) > Rank(previous)

ClassifyTransition(previous, next) ==
  IF previous = "none" THEN "initial"
  ELSE IF IsRecovery(previous, next) THEN "recovered"
  ELSE "entered"

PolicyChanged(d) ==
  ledger[d].state # "none" /\ ledger[d].alerts # cfg.alerts[d]

\* Mutant: a change of alerts_enabled alone is not reported.
EmitsOnChange(d, state, reason) ==
  ledger[d].state # state \/ ledger[d].reason # reason

\* Mutant: a device that starts healthy is not reported.
EmitsUnlessHealthy(d, state, reason) ==
  /\ ledger[d].state # "none" \/ state # "healthy"
  /\ ledger[d].state # state \/ ledger[d].reason # reason \/ PolicyChanged(d)

Emits(d, state, reason) ==
  \/ ledger[d].state # state
  \/ ledger[d].reason # reason
  \/ PolicyChanged(d)

EventOf(d, state, reason, roots) ==
  LET old == ledger[d]
      transition ==
        IF PolicyChanged(d) /\ old.state = state /\ old.reason = reason
        THEN "reasserted" ELSE ClassifyTransition(old.state, state)
  IN [state |-> state,
      reason |-> IF ClassifyTransition(old.state, state) = "recovered"
                 THEN "recovered" ELSE reason,
      previous |-> old.state,
      transition |-> transition,
      alerts |-> cfg.alerts[d],
      roots |-> roots]

\* The rest of the second loop for a device that has a desired state.
Assign(d, state, reason, unavailable, roots) ==
  /\ ledger' = [ledger EXCEPT ![d] =
                  [@ EXCEPT !.state = state,
                            !.reason = reason,
                            !.unavailable = unavailable,
                            !.roots = roots,
                            !.alerts = cfg.alerts[d]]]
  /\ events' = IF Emits(d, state, reason)
               THEN [x \in DOMAIN events \cup {d} |->
                       IF x = d THEN EventOf(d, state, reason, roots)
                       ELSE events[x]]
               ELSE events
  /\ left' = left \ {d}
  /\ pc' = "evaluating"

Keep(d) ==
  /\ left' = left \ {d}
  /\ pc' = "evaluating"
  /\ UNCHANGED <<ledger, events>>

\* Unbounded recursion ends the process.
Overflow == pc' = "stopped" /\ UNCHANGED <<ledger, events, left>>

Evaluate(d) ==
  /\ pc = "evaluating"
  /\ Turn(d)
  /\ \/ /\ Responds(d)
        /\ IF ledger[d].temperature # NoReading /\ ledger[d].temperature >= cfg.warning[d]
           THEN Assign(d, "warning", "temperature_threshold", {}, {})
           ELSE Assign(d, "healthy", "reachable", {}, {})
     \/ /\ DirectFailure(d)
        /\ Assign(d, "critical", "direct_unreachable", {}, {})
     \/ /\ UpstreamFailure(d)
        /\ ~Diverges(cfg.upstream[d])
        /\ Assign(d, "unknown", "upstream_unreachable", cfg.upstream[d],
                  RootCauses(cfg.upstream[d]))
     \/ UpstreamFailure(d) /\ Diverges(cfg.upstream[d]) /\ Overflow
     \/ Undecided(d) /\ Keep(d)
  /\ UNCHANGED <<configVars, batchVars, cycleVars, cancelled, stops,
                 pubVars>>

EvaluationDone ==
  /\ pc = "evaluating"
  /\ left = {}
  /\ pc' = "publishing"
  /\ UNCHANGED <<configVars, batchVars, cycleVars, cancelled, stops, ledger,
                 evalVars, pubVars>>

\* publishHealth, then the end of the cycle.
PublishHealth ==
  /\ pc = "publishing"
  /\ sent' = [d \in Devices |->
                IF d \in DOMAIN events
                THEN [state |-> events[d].state, reason |-> events[d].reason,
                      alerts |-> events[d].alerts]
                ELSE sent[d]]
  /\ dropped' = dropped \ DOMAIN events
  /\ events' = Empty
  /\ EndCycle
  /\ UNCHANGED <<configVars, cfg, todo, running, cancelled, stops, ledger, left>>

\* Publish returned an error: it is logged, and the events are gone.
PublishHealthFails ==
  /\ PublishMayFail
  /\ pc = "publishing"
  /\ DOMAIN events # {}
  /\ dropped' = dropped \cup DOMAIN events
  /\ events' = Empty
  /\ EndCycle
  /\ UNCHANGED <<configVars, cfg, todo, running, cancelled, stops, ledger, left,
                 sent>>

-----------------------------------------------------------------------------
Next ==
  \/ \E c \in Configs : Reload(c)
  \/ Cancel
  \/ Halt
  \/ Restart
  \/ \E S \in SUBSET Devices : StartCycle(S)
  \/ Exit
  \/ Dispatch
  \/ StopDispatch
  \/ \E d \in running :
       \/ \E t \in Temperatures \cup {NoReading} : PollSucceeds(d, t)
       \/ PollFails(d)
  \/ DiscardBatch
  \/ CommitBatch
  \/ \E d \in left : Evaluate(d)
  \/ EvaluationDone
  \/ PublishHealth
  \/ PublishHealthFails

Spec == Init /\ [][Next]_vars

\* The poller's goroutines keep running, a poll ends within its timeouts, and
\* a device is due again once its poll interval has passed.
PollerStep ==
  \/ Dispatch
  \/ \E d \in running :
       \/ \E t \in Temperatures \cup {NoReading} : PollSucceeds(d, t)
       \/ PollFails(d)
  \/ DiscardBatch
  \/ CommitBatch
  \/ \E d \in left : Evaluate(d)
  \/ EvaluationDone
  \/ PublishHealth
  \/ PublishHealthFails

IsDue(d) == \E S \in SUBSET Devices : d \in S /\ StartCycle(S)

FairSpec ==
  /\ Spec
  /\ WF_vars(PollerStep)
  /\ \A d \in Devices : SF_vars(IsDue(d))

-----------------------------------------------------------------------------
(***************************************************************************)
(* Properties.                                                             *)
(***************************************************************************)

\* Without a reload, an unknown device always has upstreams, each of them is
\* down and reported so, and the root causes it names are devices that are
\* critical now: evidence never outlives what it was derived from, although
\* upstreams are polled in other batches (evaluateFailure, ApplyBatch).
UnknownIsJustified ==
  (reloads = 0 /\ pc \notin {"evaluating", "stopped"}) =>
    \A d \in Devices :
      ledger[d].state = "unknown" =>
        /\ cfg.upstream[d] # {}
        /\ \A u \in cfg.upstream[d] : Down(u) /\ Impaired(u)
        /\ ledger[d].roots # {}
        /\ \A r \in ledger[d].roots : Down(r) /\ ledger[r].state = "critical"

\* What the state of d should be, from the poll outcomes alone.
Verdict(d) ==
  IF Responds(d)
  THEN IF ledger[d].temperature >= cfg.warning[d] THEN "warning" ELSE "healthy"
  ELSE IF cfg.upstream[d] = {} \/ \E u \in cfg.upstream[d] : Responds(u)
  THEN "critical" ELSE "unknown"

\* The critical devices above d with only unknown devices on the way.
Culprits(d) ==
  {r \in Devices :
     /\ Verdict(r) = "critical"
     /\ \A T \in SUBSET Devices :
          /\ cfg.upstream[d] \subseteq T
          /\ \A x \in T : Verdict(x) = "unknown" => cfg.upstream[x] \subseteq T
          => r \in T}

\* When no device is pending, ApplyBatch's result depends on the outcomes and
\* the snapshot alone, whatever batches, reloads and restarts came before:
\* every state is the verdict and every root cause list is exact.
DecisiveBatch ==
  (pc = "publishing" /\ \A d \in Inventory(cfg) : Responds(d) \/ Down(d)) =>
    \A d \in Inventory(cfg) :
      /\ ledger[d].state = Verdict(d)
      /\ ledger[d].roots = IF Verdict(d) = "unknown" THEN Culprits(d) ELSE {}

\* The verdicts of applyDependencyCorrelation, batch by batch and all together:
\* unknown rests on evidence that is true, and a batch in which nobody is
\* pending gives what its outcomes alone imply.
VerdictsAreSound == TypeOK /\ UnknownIsJustified /\ DecisiveBatch

\* Between ApplyBatch and the next, what was last published about a device is
\* what the tracker holds, the alerts policy included, unless publishing its
\* latest event failed: no change goes unreported, across reloads that remove
\* and bring back devices, discarded batches and restarts.
SentMatchesLedger ==
  pc \in {"idle", "polling"} =>
    \A d \in Devices \ dropped :
      ledger[d].state # "none" =>
        /\ sent[d].state = ledger[d].state
        /\ sent[d].alerts = ledger[d].alerts
        /\ sent[d].reason \in {ledger[d].reason, "recovered"}

\* While the collector runs, a device that stops answering for good is reported
\* critical or unknown for good: a pending upstream delays the verdict, but not
\* forever, and neither does a restart in between.
EventuallyAlarmed ==
  \A d \in Devices :
    <>[](ledger[d].outcome = "fail" /\ ~cancelled) => <>[]Impaired(d)

=============================================================================
