------------------------------- MODULE Outbox -------------------------------
(***************************************************************************)
(* The collector's durable outbox: the SQLite table and its in-memory      *)
(* depth counter (internal/buffer/store.go), the flusher goroutine and the *)
(* drain run by shutdown (internal/publisher/buffered.go), the MQTT link   *)
(* they publish over (internal/publisher/mqtt_client.go) and the process   *)
(* that opens, drains and closes them (cmd/collector/main.go).             *)
(*                                                                         *)
(* Shutdown cancels the flusher but does not wait for it, so its flushOnce *)
(* and the drain's flushOnce may work on the same rows at the same time.   *)
(* Store.mu covers INSERT + depth and DELETE + depth, while Depth() and    *)
(* PeekOldest read without it: each of those operations is therefore two   *)
(* steps here, the database statement and the bookkeeping that follows.    *)
(*                                                                         *)
(* Events are numbered in the order in which their batches commit; a row   *)
(* maps its id to the event it holds.                                      *)
(***************************************************************************)
EXTENDS Integers, FiniteSets

CONSTANTS
  MaxEntries,  \* buffer.max_entries; 0 means unlimited
  BatchSize,   \* buffer.batch_size, rows per flushOnce
  MaxPublish,  \* bound: events of one Publish call (one poll's events)
  MaxEvents,   \* bound: events ever enqueued
  MaxStops     \* bound: crashes and shutdowns

ASSUME OutboxAssumption ==
  /\ MaxEntries \in Nat
  /\ BatchSize \in Nat \ {0}
  /\ MaxPublish \in Nat \ {0}
  /\ MaxEvents \in Nat
  /\ MaxStops \in Nat

VARIABLES
  rows,       \* pending_events: id -> event (durable)
  nextId,     \* the table's AUTOINCREMENT sequence (durable)
  events,     \* number of events committed so far
  depth,      \* Store.depth, the in-memory row count
  mu,         \* holder of Store.mu, or "free"
  adding,     \* rows committed by the EnqueueBatch that holds mu
  wake,       \* Store.wake holds a signal
  unanswered, \* actors whose DELETE took effect but returned an error
  connected,  \* MQTTClient.connected
  proc,       \* the process: "running", "draining" (shutdown) or "down"
  expired,    \* the 30 s context of shutdown has expired
  pc,         \* where the flusher and the drain are
  batch,      \* the rows their current flushOnce has left to handle
  delivered,  \* events the broker has received at least once
  acked,      \* events for which Publish returned nil (PUBACK)
  drained,    \* what Drain returned: "none", "ok" or "err"
  mark,       \* events whose Publish had returned when shutdown began
  stops       \* crashes and shutdowns so far

storeVars == <<rows, nextId, events, depth, mu, adding, wake, unanswered>>
linkVars  == <<connected, delivered, acked>>
procVars  == <<proc, expired, drained, mark, stops>>
vars == <<storeVars, linkVars, procVars, pc, batch>>

Actors == {"flusher", "drain"}
NoRows == [i \in {} |-> 0]

Up == proc # "down"

\* flusherCtx is cancelled when shutdown begins, the drain's context when
\* its timeout expires.
CtxDone(a) == IF a = "flusher" THEN proc = "draining" ELSE expired

TypeOK ==
  /\ nextId \in Nat \ {0}
  /\ events \in Nat
  /\ DOMAIN rows \subseteq 1 .. nextId - 1
  /\ rows \in [DOMAIN rows -> 1 .. events]
  /\ depth \in Nat
  /\ mu \in {"free", "producer"} \cup Actors
  /\ adding \in Nat
  /\ wake \in BOOLEAN
  /\ unanswered \subseteq Actors
  /\ connected \in BOOLEAN
  /\ proc \in {"running", "draining", "down"}
  /\ expired \in BOOLEAN
  /\ pc \in [Actors -> {"off", "select", "check", "recheck", "sleep",
                        "await", "peek", "publish", "puback", "delete",
                        "account", "exit"}]
  /\ \A a \in Actors :
       /\ DOMAIN batch[a] \subseteq 1 .. nextId - 1
       /\ batch[a] \in [DOMAIN batch[a] -> 1 .. events]
  /\ DOMAIN batch = Actors
  /\ delivered \subseteq 1 .. events
  /\ acked \subseteq 1 .. events
  /\ drained \in {"none", "ok", "err"}
  /\ mark \in Nat
  /\ stops \in Nat

-----------------------------------------------------------------------------
(***************************************************************************)
(* The process.  Init is a first start on an empty table.                  *)
(***************************************************************************)
Init ==
  /\ rows = NoRows
  /\ nextId = 1
  /\ events = 0
  /\ depth = 0
  /\ mu = "free"
  /\ adding = 0
  /\ wake = FALSE
  /\ unanswered = {}
  /\ connected = FALSE
  /\ proc = "running"
  /\ expired = FALSE
  /\ pc = [a \in Actors |-> IF a = "flusher" THEN "select" ELSE "off"]
  /\ batch = [a \in Actors |-> NoRows]
  /\ delivered = {}
  /\ acked = {}
  /\ drained = "none"
  /\ mark = 0
  /\ stops = 0

\* buffer.Open on an existing file: the depth is recounted, the wake channel
\* is empty, and the flusher starts.
Open ==
  /\ proc = "down"
  /\ proc' = "running"
  /\ depth' = Cardinality(DOMAIN rows)
  /\ wake' = FALSE
  /\ pc' = [a \in Actors |-> IF a = "flusher" THEN "select" ELSE "off"]
  /\ drained' = "none"
  /\ UNCHANGED <<rows, nextId, events, mu, adding, unanswered, linkVars,
                 expired, mark, stops, batch>>

\* Everything in memory is gone; the table and its sequence remain.
Halt ==
  /\ proc' = "down"
  /\ mu' = "free"
  /\ adding' = 0
  /\ unanswered' = {}
  /\ connected' = FALSE
  /\ expired' = FALSE
  /\ pc' = [a \in Actors |-> "off"]
  /\ batch' = [a \in Actors |-> NoRows]
  /\ UNCHANGED <<rows, nextId, events, depth, wake, delivered, acked>>

Crash ==
  /\ Up
  /\ stops < MaxStops
  /\ stops' = stops + 1
  /\ Halt
  /\ UNCHANGED <<drained, mark>>

\* SIGTERM: stopFlusher, then Drain.  A Publish that is past its context
\* check may still commit afterwards.
BeginShutdown ==
  /\ proc = "running"
  /\ stops < MaxStops
  /\ stops' = stops + 1
  /\ proc' = "draining"
  /\ pc' = [pc EXCEPT !["drain"] = "check"]
  /\ mark' = events - adding
  /\ UNCHANGED <<storeVars, linkVars, expired, drained, batch>>

DeadlineExpires ==
  /\ proc = "draining"
  /\ ~expired
  /\ expired' = TRUE
  /\ UNCHANGED <<storeVars, linkVars, proc, drained, mark, stops, pc, batch>>

\* store.Close once Drain has returned, and the end of main.
CloseStore ==
  /\ pc["drain"] = "exit"
  /\ Halt
  /\ UNCHANGED <<drained, mark, stops>>

-----------------------------------------------------------------------------
(***************************************************************************)
(* Producers: BufferedPublisher.Publish by poll workers, health and        *)
(* heartbeat, that is Store.EnqueueBatch.                                  *)
(***************************************************************************)

\* Mutant: an INTEGER PRIMARY KEY without AUTOINCREMENT reuses ids.
FirstReusedId ==
  IF DOMAIN rows = {} THEN 1
  ELSE 1 + CHOOSE i \in DOMAIN rows : \A j \in DOMAIN rows : j <= i

\* The next row id.  AUTOINCREMENT never hands out an id twice.
FirstNewId == nextId

\* Mutant: the capacity test of a single row, applied to a batch.
FitsOneRow(n) == MaxEntries > 0 => depth < MaxEntries

\* ErrBufferFull is returned, and nothing written, unless the whole batch
\* fits.
Fits(n) == MaxEntries > 0 => depth + n <= MaxEntries

\* One transaction inserts the whole batch; mu is kept.
EnqueueCommit(n) ==
  /\ Up
  /\ mu = "free"
  /\ events + n <= MaxEvents
  /\ Fits(n)
  /\ LET new == FirstNewId .. FirstNewId + n - 1
     IN rows' = [i \in DOMAIN rows \cup new |->
                   IF i \in new THEN events + 1 + i - FirstNewId ELSE rows[i]]
  /\ nextId' = FirstNewId + n
  /\ events' = events + n
  /\ mu' = "producer"
  /\ adding' = n
  /\ UNCHANGED <<depth, wake, unanswered, linkVars, procVars, pc, batch>>

\* The depth is raised, the flusher signalled, mu released, nil returned.
EnqueueReturn ==
  /\ mu = "producer"
  /\ depth' = depth + adding
  /\ wake' = TRUE
  /\ mu' = "free"
  /\ adding' = 0
  /\ UNCHANGED <<rows, nextId, events, unanswered, linkVars, procVars, pc,
                 batch>>

-----------------------------------------------------------------------------
(***************************************************************************)
(* The MQTT link.  autopaho reconnects by itself.                          *)
(***************************************************************************)
Connect ==
  /\ Up
  /\ ~connected
  /\ connected' = TRUE
  /\ UNCHANGED <<storeVars, delivered, acked, procVars, pc, batch>>

Disconnect ==
  /\ connected
  /\ connected' = FALSE
  /\ UNCHANGED <<storeVars, delivered, acked, procVars, pc, batch>>

-----------------------------------------------------------------------------
(***************************************************************************)
(* flushOnce, run by both actors.                                          *)
(***************************************************************************)
At(a, l) == pc[a] = l

GoTo(a, l) == pc' = [pc EXCEPT ![a] = l]

\* flushOnce returns to RunFlusher, which logs an error and selects again, or
\* to Drain, which looks at the depth again or gives up on an error.
Return(a, err) ==
  /\ batch' = [batch EXCEPT ![a] = NoRows]
  /\ IF a = "flusher" THEN GoTo(a, "select") /\ UNCHANGED drained
     ELSE IF err THEN GoTo(a, "exit") /\ drained' = "err"
     ELSE GoTo(a, "recheck") /\ UNCHANGED drained

\* SELECT ... ORDER BY id ASC LIMIT BatchSize
Oldest ==
  {i \in DOMAIN rows : Cardinality({j \in DOMAIN rows : j <= i}) <= BatchSize}

\* Without Store.mu; an empty result ends flushOnce.
PeekOldest(a) ==
  /\ At(a, "peek")
  /\ IF DOMAIN rows = {}
     THEN Return(a, FALSE)
     ELSE /\ batch' = [batch EXCEPT ![a] = [i \in Oldest |-> rows[i]]]
          /\ GoTo(a, "publish")
          /\ UNCHANGED drained
  /\ UNCHANGED <<storeVars, linkVars, proc, expired, mark, stops>>

\* The query failed or ctx is done.
PeekFails(a) ==
  /\ At(a, "peek")
  /\ Return(a, TRUE)
  /\ UNCHANGED <<storeVars, linkVars, proc, expired, mark, stops>>

\* The row the loop of flushOnce is at.
Current(a) == CHOOSE i \in DOMAIN batch[a] : \A j \in DOMAIN batch[a] : i <= j

\* The loop's context check, then mqtt.Publish.
StartPublish(a) ==
  /\ At(a, "publish")
  /\ IF CtxDone(a)
     THEN Return(a, TRUE)
     ELSE GoTo(a, "puback") /\ UNCHANGED <<batch, drained>>
  /\ UNCHANGED <<storeVars, linkVars, proc, expired, mark, stops>>

\* The loop's next iteration, or the end of flushOnce after the last row.
NextRow(a) ==
  LET rest == DOMAIN batch[a] \ {Current(a)}
  IN IF rest = {}
     THEN Return(a, FALSE)
     ELSE /\ batch' = [batch EXCEPT ![a] = [i \in rest |-> batch[a][i]]]
          /\ GoTo(a, "publish")
          /\ UNCHANGED drained

\* PUBACK: Publish returns nil.
PublishSucceeds(a) ==
  /\ At(a, "puback")
  /\ connected
  /\ delivered' = delivered \cup {batch[a][Current(a)]}
  /\ acked' = acked \cup {batch[a][Current(a)]}
  /\ GoTo(a, "delete")
  /\ UNCHANGED <<storeVars, connected, procVars, batch>>

\* Mutant: after a publish error the loop goes on with the next row.
PublishFailsAndContinues(a) ==
  /\ At(a, "puback")
  /\ UNCHANGED delivered
  /\ NextRow(a)
  /\ UNCHANGED <<storeVars, connected, acked, proc, expired, mark, stops>>

\* Mutant: the row is deleted although Publish returned an error.
PublishFailsAndDeletes(a) ==
  /\ At(a, "puback")
  /\ GoTo(a, "delete")
  /\ UNCHANGED <<storeVars, linkVars, procVars, batch>>

\* Publish returns an error: the link is down, ctx is done or the broker
\* refuses.  The broker may have the event all the same (PUBACK lost).
PublishFails(a) ==
  /\ At(a, "puback")
  /\ \/ UNCHANGED delivered
     \/ connected /\ delivered' = delivered \cup {batch[a][Current(a)]}
  /\ Return(a, TRUE)
  /\ UNCHANGED <<storeVars, connected, acked, proc, expired, mark, stops>>

\* The table without the row flushOnce is at.
WithoutRow(a) == [i \in DOMAIN rows \ {Current(a)} |-> rows[i]]

\* DELETE ... WHERE id = ?  No affected row: someone else deleted it, the
\* depth is left alone.  A statement under way when ctx is cancelled may
\* still complete and be answered.
DeleteRow(a) ==
  /\ At(a, "delete")
  /\ mu = "free"
  /\ IF Current(a) \in DOMAIN rows
     THEN /\ rows' = WithoutRow(a)
          /\ mu' = a
          /\ GoTo(a, "account")
          /\ UNCHANGED <<batch, drained>>
     ELSE /\ NextRow(a)
          /\ UNCHANGED <<rows, mu>>
  /\ UNCHANGED <<nextId, events, depth, adding, wake, unanswered, linkVars,
                 proc, expired, mark, stops>>

\* ExecContext returns an error and Delete leaves the depth alone.  Either the
\* statement failed: the event stays and is sent again.  Or ctx was cancelled
\* while the statement ran and the driver answers with ctx.Err() although the
\* row is gone.
DeleteFails(a) ==
  /\ At(a, "delete")
  /\ mu = "free"
  /\ \/ UNCHANGED <<rows, unanswered>>
     \/ /\ CtxDone(a)
        /\ Current(a) \in DOMAIN rows
        /\ rows' = WithoutRow(a)
        /\ unanswered' = unanswered \cup {a}
  /\ Return(a, TRUE)
  /\ UNCHANGED <<nextId, events, depth, mu, adding, wake, linkVars, proc,
                 expired, mark, stops>>

DeleteReturn(a) ==
  /\ At(a, "account")
  /\ depth' = IF depth - 1 < 0 THEN 0 ELSE depth - 1
  /\ mu' = "free"
  /\ NextRow(a)
  /\ UNCHANGED <<rows, nextId, events, adding, wake, unanswered, linkVars,
                 proc, expired, mark, stops>>

-----------------------------------------------------------------------------
(***************************************************************************)
(* RunFlusher.                                                             *)
(***************************************************************************)
AfterSelect == GoTo("flusher", IF connected THEN "peek" ELSE "await")

\* <-store.Wake()
FlusherWake ==
  /\ At("flusher", "select")
  /\ wake
  /\ wake' = FALSE
  /\ AfterSelect
  /\ UNCHANGED <<rows, nextId, events, depth, mu, adding, unanswered, linkVars,
                 procVars, batch>>

\* Mutant: the loop selects on the wake channel only.
FlusherNoTimer ==
  /\ At("flusher", "select")
  /\ wake
  /\ AfterSelect
  /\ UNCHANGED <<storeVars, linkVars, procVars, batch>>

\* <-time.After(idleBackoff)
FlusherIdle ==
  /\ At("flusher", "select")
  /\ AfterSelect
  /\ UNCHANGED <<storeVars, linkVars, procVars, batch>>

\* AwaitConnection for at most idleBackoff.
FlusherAwait ==
  /\ At("flusher", "await")
  /\ GoTo("flusher", IF connected THEN "peek" ELSE "select")
  /\ UNCHANGED <<storeVars, linkVars, procVars, batch>>

\* <-ctx.Done()
FlusherExit ==
  /\ At("flusher", "select")
  /\ CtxDone("flusher")
  /\ GoTo("flusher", "off")
  /\ UNCHANGED <<storeVars, linkVars, procVars, batch>>

-----------------------------------------------------------------------------
(***************************************************************************)
(* Drain.                                                                  *)
(***************************************************************************)

\* Mutant: the loop condition is off by one.
DrainCheckOffByOne ==
  /\ At("drain", "check")
  /\ IF depth <= 1 THEN GoTo("drain", "exit") /\ drained' = "ok"
     ELSE IF expired THEN GoTo("drain", "exit") /\ drained' = "err"
     ELSE /\ GoTo("drain", IF connected THEN "peek" ELSE "await")
          /\ UNCHANGED drained
  /\ UNCHANGED <<storeVars, linkVars, proc, expired, mark, stops, batch>>

\* for p.store.Depth() > 0, with the context and connection checks.
DrainCheck ==
  /\ At("drain", "check")
  /\ IF depth = 0 THEN GoTo("drain", "exit") /\ drained' = "ok"
     ELSE IF expired THEN GoTo("drain", "exit") /\ drained' = "err"
     ELSE /\ GoTo("drain", IF connected THEN "peek" ELSE "await")
          /\ UNCHANGED drained
  /\ UNCHANGED <<storeVars, linkVars, proc, expired, mark, stops, batch>>

\* Mutant: AwaitConnection without the shutdown context.
DrainAwaitForever ==
  /\ At("drain", "await")
  /\ connected /\ GoTo("drain", "peek") /\ UNCHANGED drained
  /\ UNCHANGED <<storeVars, linkVars, proc, expired, mark, stops, batch>>

\* AwaitConnection until the shutdown context expires.
DrainAwait ==
  /\ At("drain", "await")
  /\ \/ connected /\ GoTo("drain", "peek") /\ UNCHANGED drained
     \/ expired /\ GoTo("drain", "exit") /\ drained' = "err"
  /\ UNCHANGED <<storeVars, linkVars, proc, expired, mark, stops, batch>>

\* After a flush without error: rows left make Drain sleep before it loops.
DrainRecheck ==
  /\ At("drain", "recheck")
  /\ GoTo("drain", IF depth > 0 THEN "sleep" ELSE "check")
  /\ UNCHANGED <<storeVars, linkVars, procVars, batch>>

\* 100 ms, or the end of the shutdown context, whatever the depth is by then.
DrainSleep ==
  /\ At("drain", "sleep")
  /\ \/ GoTo("drain", "check") /\ UNCHANGED drained
     \/ expired /\ GoTo("drain", "exit") /\ drained' = "err"
  /\ UNCHANGED <<storeVars, linkVars, proc, expired, mark, stops, batch>>

-----------------------------------------------------------------------------
FlushStep(a) ==
  \/ PeekOldest(a)
  \/ PeekFails(a)
  \/ StartPublish(a)
  \/ PublishSucceeds(a)
  \/ PublishFails(a)
  \/ DeleteRow(a)
  \/ DeleteFails(a)
  \/ DeleteReturn(a)

Next ==
  \/ Open
  \/ Crash
  \/ BeginShutdown
  \/ DeadlineExpires
  \/ CloseStore
  \/ \E n \in 1 .. MaxPublish : EnqueueCommit(n)
  \/ EnqueueReturn
  \/ Connect
  \/ Disconnect
  \/ \E a \in Actors : FlushStep(a)
  \/ FlusherWake
  \/ FlusherIdle
  \/ FlusherAwait
  \/ FlusherExit
  \/ DrainCheck
  \/ DrainAwait
  \/ DrainRecheck
  \/ DrainSleep

Spec == Init /\ [][Next]_vars

\* The link to the broker is eventually up for good while the process runs.
LinkSettles == <>[](proc = "running" => connected)

\* What the scheduler, the supervisor that restarts the process and a broker
\* and disk that do not fail forever give: goroutines that can move do, and
\* an operation that can succeed again and again succeeds at some point.
FairnessOfDelivery ==
  /\ LinkSettles
  /\ WF_vars(Open) /\ WF_vars(EnqueueReturn)
  /\ WF_vars(FlusherIdle) /\ WF_vars(FlusherAwait)
  /\ SF_vars(PeekOldest("flusher"))
  /\ WF_vars(StartPublish("flusher"))
  /\ SF_vars(PublishSucceeds("flusher"))
  /\ SF_vars(DeleteRow("flusher"))
  /\ WF_vars(DeleteReturn("flusher"))

\* What shutdown may count on without any help from the network.
FairnessOfShutdown ==
  /\ WF_vars(EnqueueReturn)
  /\ WF_vars(DeleteReturn("flusher"))
  /\ WF_vars(DeadlineExpires)
  /\ WF_vars(DrainCheck) /\ WF_vars(DrainAwait)
  /\ WF_vars(DrainRecheck) /\ WF_vars(DrainSleep)
  /\ WF_vars(FlushStep("drain"))
  /\ WF_vars(CloseStore)

LiveSpec == Spec /\ FairnessOfShutdown

-----------------------------------------------------------------------------
(***************************************************************************)
(* Properties.                                                             *)
(***************************************************************************)

\* contracts.md: "durably enqueues before publication and removes an outbox
\* row only after broker success".  Every event ever committed is still a row
\* or was confirmed by a PUBACK, whatever crashes, failed deletes or two
\* flushes of the same rows came between (store.go, buffered.go).
NoLoss ==
  \A e \in 1 .. events : e \in acked \/ \E i \in DOMAIN rows : rows[i] = e

\* flushOnce sends the oldest rows first and stops at the first error, so the
\* broker never sees an event before one that was committed earlier, even
\* with the flusher and the drain sending at the same time.
FirstDeliveryInOrder ==
  \A e \in delivered : \A f \in 1 .. e : f \in delivered

\* EnqueueBatch admits a batch only as a whole and Delete ignores a row that
\* was already gone: the table never exceeds max_entries, and whenever
\* Store.mu is free the counter that admission, Drain and the metrics rely on
\* is the row count plus one for every DELETE of this process that took effect
\* without an answer (store.go returns ExecContext's error before it counts).
\* It is therefore never too low; while the collector runs it is exact; and
\* shutdown leaves it at most one too high for each of the two actors.
DepthIsRowCount ==
  /\ MaxEntries > 0 => Cardinality(DOMAIN rows) <= MaxEntries
  /\ Up /\ mu = "free" =>
       depth = Cardinality(DOMAIN rows) + Cardinality(unanswered)
  /\ proc = "running" => unanswered = {}

\* Drain reads the depth without Store.mu, while enqueues and deletes of the
\* cancelled flusher are half done.  When it nevertheless returns nil, every
\* event whose Publish had returned before shutdown is confirmed.
DrainSound ==
  drained = "ok" => 1 .. mark \subseteq acked

(***************************************************************************)
(* The inductive invariant behind the four safety properties.              *)
(***************************************************************************)

\* Ids and events are numbered alike, so an id never names two events.
Numbering ==
  /\ nextId = events + 1
  /\ \A i \in DOMAIN rows : rows[i] = i

\* What flushOnce holds: at least one row while it works on one, the current
\* row confirmed before its DELETE, every skipped id already at the broker.
BatchInv(a) ==
  /\ \A i \in DOMAIN batch[a] : batch[a][i] = i
  /\ pc[a] \in {"publish", "puback", "delete", "account"} =>
       DOMAIN batch[a] # {}
  /\ pc[a] \notin {"publish", "puback", "delete", "account"} =>
       batch[a] = NoRows
  /\ pc[a] \in {"delete", "account"} => Current(a) \in acked
  /\ \A i \in DOMAIN batch[a] : \A f \in 1 .. i - 1 :
       f \in DOMAIN batch[a] \/ f \in delivered

\* An actor whose DELETE went unanswered had its context cancelled, and never
\* gets to another DELETE: the loop of flushOnce looks at the context first,
\* and Drain has given up.
UnansweredInv ==
  \A a \in unanswered :
    /\ CtxDone(a) /\ proc = "draining"
    /\ pc[a] \notin {"puback", "delete", "account"}

\* The half-done operation that holds mu and the unanswered DELETEs explain
\* the gap between the depth and the row count.
Accounting ==
  /\ mu # "producer" => adding = 0
  /\ adding <= events
  /\ \A a \in Actors : mu = a <=> pc[a] = "account"
  /\ mu = "producer" => events - adding + 1 .. events \subseteq DOMAIN rows
  /\ Up => depth = Cardinality(DOMAIN rows) + Cardinality(unanswered) - adding
                      + (IF mu \in Actors THEN 1 ELSE 0)
  /\ MaxEntries > 0 => Cardinality(DOMAIN rows) <= MaxEntries

\* Drain runs only during shutdown, nothing runs once the process is down.
DrainInv ==
  /\ mark <= events - adding
  /\ proc = "running" => drained = "none"
  /\ pc["drain"] # "off" => proc = "draining"
  /\ proc = "down" => mu = "free" /\ \A a \in Actors : pc[a] = "off"
  /\ drained = "ok" => 1 .. mark \subseteq acked

IInv ==
  /\ TypeOK
  /\ Numbering
  /\ \A a \in Actors : BatchInv(a)
  /\ acked \subseteq delivered
  /\ \A e \in 1 .. events : e \in acked \/ e \in DOMAIN rows
  /\ FirstDeliveryInOrder
  /\ UnansweredInv
  /\ Accounting
  /\ DrainInv

\* The wake channel is empty after a restart and coalesces signals; with a
\* link that settles, the idle timer of RunFlusher still gets every committed
\* event to the broker.
EventuallyConfirmed ==
  FairnessOfDelivery =>
    \A e \in 1 .. MaxEvents : (e <= events) ~> (e \in acked)

\* Drain's context bounds shutdown even if the broker never answers: nothing
\* of FairnessOfDelivery is assumed.
ShutdownTerminates ==
  (proc = "draining") ~> (proc # "draining")

\* The outbox implements the abstract at-least-once, first-in-order queue.
Queue == INSTANCE AtLeastOnceQueue WITH
  accepted <- events,
  pending <- {rows[i] : i \in DOMAIN rows},
  confirmed <- acked

\* Each step of the store, the flusher, the drain and each crash is a step of
\* the abstract queue or leaves it alone.
ImplementsQueue == Queue!Spec

=============================================================================
