---------------------------- MODULE OutboxProofs ----------------------------
(***************************************************************************)
(* Proofs about Outbox for every capacity, batch size and bound: the type  *)
(* invariant, no loss, first delivery in order, the depth counter, what a  *)
(* successful Drain means, and the refinement of the abstract queue.       *)
(***************************************************************************)
EXTENDS Outbox, TLAPS, FiniteSetTheorems, WellFoundedInduction

\* A non-empty set of naturals has a least element.
LEMMA LeastNatural ==
  ASSUME NEW T, T \subseteq Nat, T # {}
  PROVE  \E x \in T : \A y \in T : x <= y
<1> DEFINE R == {ss \in Nat \X Nat : ss[1] < ss[2]}
<1>1. IsWellFoundedOn(R, Nat)
  BY NatLessThanWellFounded DEF OpToRel
<1>2. PICK x \in T : \A y \in T : ~ (<<y, x>> \in R)
  <2> HIDE DEF R
  <2> QED BY <1>1, WFMin
<1>3. \A y \in T : x <= y
  <2> SUFFICES ASSUME NEW y \in T, y < x PROVE FALSE
    OBVIOUS
  <2>1. <<y, x>> \in R
    OBVIOUS
  <2>2. QED
    BY <2>1, <1>2
<1>4. QED
  BY <1>3

\* The row flushOnce is at is the smallest id left in its batch.
LEMMA CurrentIsLeast ==
  ASSUME TypeOK, NEW a \in Actors, DOMAIN batch[a] # {}
  PROVE  /\ Current(a) \in DOMAIN batch[a]
         /\ \A j \in DOMAIN batch[a] : Current(a) <= j
<1>1. DOMAIN batch[a] \subseteq Nat
  BY DEF TypeOK
<1>2. \E i \in DOMAIN batch[a] : \A j \in DOMAIN batch[a] : i <= j
  BY <1>1, LeastNatural
<1>3. QED
  BY <1>2 DEF Current

\* The table holds finitely many rows.
LEMMA RowsFinite ==
  ASSUME TypeOK
  PROVE  /\ IsFiniteSet(DOMAIN rows)
         /\ Cardinality(DOMAIN rows) \in Nat
<1>1. 1 \in Int /\ nextId - 1 \in Int
  BY DEF TypeOK
<1>2. IsFiniteSet(1 .. nextId - 1)
  BY <1>1, FS_Interval
<1>3. QED
  BY <1>2, FS_Subset, FS_CardinalityType DEF TypeOK

\* At most two actors have an unanswered DELETE.
LEMMA UnansweredFinite ==
  ASSUME TypeOK
  PROVE  /\ IsFiniteSet(unanswered)
         /\ Cardinality(unanswered) \in Nat
<1>1. IsFiniteSet({"drain"}) /\ Actors = {"drain"} \cup {"flusher"}
  BY FS_Singleton DEF Actors
<1>2. IsFiniteSet(Actors)
  BY <1>1, FS_AddElement
<1>3. unanswered \in SUBSET Actors
  BY DEF TypeOK
<1>4. QED
  BY <1>2, <1>3, FS_Subset, FS_CardinalityType

\* Steps that add no unanswered DELETE and send no such actor to another one.
LEMMA UnansweredFrame ==
  ASSUME UnansweredInv, unanswered' = unanswered,
         proc' = proc \/ proc # "draining", expired => expired',
         \A b \in unanswered : pc'[b] \notin {"puback", "delete", "account"}
  PROVE  UnansweredInv'
<1> SUFFICES ASSUME NEW b \in unanswered
             PROVE  /\ CtxDone(b)' /\ proc' = "draining"
                    /\ pc'[b] \notin {"puback", "delete", "account"}
  BY DEF UnansweredInv
<1>1. CtxDone(b) /\ proc = "draining"
  BY DEF UnansweredInv
<1>2. proc' = "draining" /\ (expired => expired')
  BY <1>1
<1>3. QED
  BY <1>1, <1>2 DEF CtxDone

\* While the process is not shutting down every DELETE was answered.
LEMMA AllAnswered ==
  ASSUME UnansweredInv, proc # "draining"
  PROVE  unanswered = {}
BY DEF UnansweredInv

\* Every actor whose batch and position do not change keeps its invariant
\* while confirmations and deliveries accumulate.
LEMMA BatchFrame ==
  ASSUME NEW a \in Actors, BatchInv(a),
         batch'[a] = batch[a], pc'[a] = pc[a],
         acked \subseteq acked', delivered \subseteq delivered'
  PROVE  BatchInv(a)'
<1>1. Current(a)' = Current(a)
  BY DEF Current
<1>2. QED
  BY <1>1 DEF BatchInv

\* An actor outside the loop of flushOnce has nothing to lose.
LEMMA BatchEmpty ==
  ASSUME NEW a \in Actors, batch'[a] = NoRows,
         pc'[a] \notin {"publish", "puback", "delete", "account"}
  PROVE  BatchInv(a)'
BY DEF BatchInv, NoRows

\* The oldest rows are closed under smaller ids.
LEMMA OldestClosed ==
  ASSUME TypeOK, NEW i \in Oldest, NEW f \in DOMAIN rows, f < i
  PROVE  f \in Oldest
<1> DEFINE upTo(k) == {j \in DOMAIN rows : j <= k}
<1>1. i \in DOMAIN rows /\ i \in Nat /\ f \in Nat
  BY DEF Oldest, TypeOK
<1>2. IsFiniteSet(upTo(i)) /\ Cardinality(upTo(i)) \in Nat
  BY RowsFinite, FS_Subset, FS_CardinalityType
<1>3. upTo(f) \subseteq upTo(i)
  BY <1>1 DEF TypeOK
<1>4. Cardinality(upTo(f)) \in Nat /\ Cardinality(upTo(f)) <= Cardinality(upTo(i))
  BY <1>2, <1>3, FS_Subset, FS_CardinalityType
<1>5. Cardinality(upTo(i)) <= BatchSize
  BY DEF Oldest
<1>6. QED
  BY <1>2, <1>4, <1>5, OutboxAssumption DEF Oldest

\* A non-empty table has an oldest row.
LEMMA OldestNonEmpty ==
  ASSUME TypeOK, DOMAIN rows # {}
  PROVE  Oldest # {}
<1>1. DOMAIN rows \subseteq Nat
  BY DEF TypeOK
<1>2. PICK i \in DOMAIN rows : \A j \in DOMAIN rows : i <= j
  BY <1>1, LeastNatural
<1>3. {j \in DOMAIN rows : j <= i} = {i}
  BY <1>1, <1>2
<1>4. Cardinality({j \in DOMAIN rows : j <= i}) = 1
  BY <1>3, FS_Singleton
<1>5. QED
  BY <1>4, <1>2, OutboxAssumption DEF Oldest

-----------------------------------------------------------------------------
(***************************************************************************)
(* Init and the steps that leave the table, the batches and the broker's   *)
(* view alone.                                                             *)
(***************************************************************************)
\* A first start on an empty table satisfies the inductive invariant.
LEMMA InitIInv == Init => IInv
<1> SUFFICES ASSUME Init PROVE IInv
  OBVIOUS
<1>1. DOMAIN rows = {} /\ Cardinality(DOMAIN rows) = 0
  BY FS_EmptySet DEF Init, NoRows
<1>2. TypeOK
  <2>1. DOMAIN NoRows = {} /\ NoRows \in [{} -> 1 .. 0]
    BY DEF NoRows
  <2>2. \A a \in Actors : batch[a] = NoRows
    BY DEF Init
  <2>3. DOMAIN rows \subseteq 1 .. nextId - 1 /\ rows \in [DOMAIN rows -> 1 .. events]
    BY <2>1 DEF Init
  <2>4. \A a \in Actors : /\ DOMAIN batch[a] \subseteq 1 .. nextId - 1
                         /\ batch[a] \in [DOMAIN batch[a] -> 1 .. events]
    BY <2>1, <2>2 DEF Init
  <2>5. DOMAIN batch = Actors
    BY DEF Init
  <2>6. pc \in [Actors -> {"off", "select", "check", "recheck", "sleep",
                          "await", "peek", "publish", "puback", "delete",
                          "account", "exit"}]
    BY DEF Init
  <2>7. nextId \in Nat \ {0} /\ events \in Nat /\ depth \in Nat
        /\ adding \in Nat /\ mark \in Nat /\ stops \in Nat
    BY DEF Init
  <2>8. mu \in {"free", "producer"} \cup Actors /\ wake \in BOOLEAN
        /\ unanswered \subseteq Actors
    BY DEF Init
  <2>9. connected \in BOOLEAN /\ expired \in BOOLEAN
    BY DEF Init
  <2>10. delivered \subseteq 1 .. events /\ acked \subseteq 1 .. events
    BY DEF Init
  <2>11. proc \in {"running", "draining", "down"} /\ drained \in {"none", "ok", "err"}
    BY DEF Init
  <2>12. QED
    BY <2>3, <2>4, <2>5, <2>6, <2>7, <2>8, <2>9, <2>10, <2>11 DEF TypeOK
<1>3. Accounting
  <2>1. Cardinality(unanswered) = 0
    BY FS_EmptySet DEF Init
  <2>2. QED
    BY <1>1, <2>1, OutboxAssumption DEF Init, Accounting, Actors, Up
<1>4. QED
  BY <1>1, <1>2, <1>3
     DEF Init, IInv, UnansweredInv, Numbering, BatchInv, FirstDeliveryInOrder, DrainInv,
         Actors, NoRows

\* Steps that only move the flusher or the link.
LEMMA QuietStep ==
  ASSUME IInv,
         UNCHANGED <<rows, nextId, events, depth, mu, adding, unanswered,
                     delivered, acked, proc, mark, batch>>,
         expired => expired', wake' \in BOOLEAN, connected' \in BOOLEAN, expired' \in BOOLEAN,
         stops' \in Nat, drained' = drained,
         NEW l \in {"off", "select", "await", "peek"},
         \/ pc' = pc
         \/ /\ pc["flusher"] \in {"select", "await"}
            /\ pc' = [pc EXCEPT !["flusher"] = l]
  PROVE  IInv'
<1>1. TypeOK'
  BY DEF IInv, TypeOK, Actors
<1>2. \A a \in Actors : BatchInv(a)'
  <2> SUFFICES ASSUME NEW a \in Actors PROVE BatchInv(a)'
    OBVIOUS
  <2>1. CASE pc'[a] = pc[a]
    BY <2>1, BatchFrame DEF IInv
  <2>2. CASE pc'[a] # pc[a]
    <3>1. pc[a] \notin {"publish", "puback", "delete", "account"} /\ pc'[a] = l
      BY <2>2 DEF IInv, TypeOK, Actors
    <3>2. batch'[a] = NoRows
      BY <3>1 DEF IInv, BatchInv
    <3>3. QED
      BY <3>1, <3>2, BatchEmpty
  <2>3. QED
    BY <2>1, <2>2
<1>3. Accounting'
  BY DEF IInv, Accounting, TypeOK, Actors, Up
<1>4. DrainInv'
  <2>1. pc'["drain"] = pc["drain"]
    BY DEF IInv, TypeOK, Actors
  <2>2. proc = "down" => pc' = pc
    <3>1. proc = "down" => pc["flusher"] = "off"
      BY DEF IInv, DrainInv, Actors
    <3>2. QED
      BY <3>1
  <2>3. QED
    BY <2>1, <2>2 DEF IInv, DrainInv
<1>5. UnansweredInv'
  <2>1. \A b \in unanswered : pc'[b] \notin {"puback", "delete", "account"}
    BY DEF IInv, UnansweredInv, TypeOK, Actors
  <2>2. QED
    BY <2>1, UnansweredFrame DEF IInv
<1>6. QED
  BY <1>1, <1>2, <1>3, <1>4, <1>5 DEF IInv, Numbering, FirstDeliveryInOrder

\* Every step of the link, RunFlusher's select, and the shutdown deadline.
LEMMA QuietSteps ==
  ASSUME IInv,
         \/ Connect \/ Disconnect \/ DeadlineExpires
         \/ FlusherWake \/ FlusherIdle \/ FlusherAwait \/ FlusherExit
  PROVE  IInv'
<1>1. CASE Connect \/ Disconnect \/ DeadlineExpires
  <2>1. /\ UNCHANGED <<rows, nextId, events, depth, mu, adding, unanswered,
                       delivered, acked, proc, mark, batch>>
        /\ (expired => expired')
        /\ stops' \in Nat /\ drained' = drained /\ pc' = pc
    BY <1>1 DEF Connect, Disconnect, DeadlineExpires, storeVars, linkVars,
               procVars, IInv, TypeOK
  <2>2. wake' \in BOOLEAN /\ connected' \in BOOLEAN /\ expired' \in BOOLEAN
    BY <1>1 DEF Connect, Disconnect, DeadlineExpires, storeVars, linkVars,
               procVars, IInv, TypeOK
  <2>3. QED
    BY <2>1, <2>2, QuietStep
<1>2. CASE FlusherWake \/ FlusherIdle \/ FlusherAwait \/ FlusherExit
  <2>1. /\ UNCHANGED <<rows, nextId, events, depth, mu, adding, unanswered,
                       delivered, acked, proc, mark, batch>>
        /\ (expired => expired')
        /\ stops' \in Nat /\ drained' = drained
        /\ pc["flusher"] \in {"select", "await"}
    BY <1>2 DEF FlusherWake, FlusherIdle, FlusherAwait, FlusherExit, At,
               storeVars, linkVars, procVars, IInv, TypeOK
  <2>2. wake' \in BOOLEAN /\ connected' \in BOOLEAN /\ expired' \in BOOLEAN
    BY <1>2 DEF FlusherWake, FlusherIdle, FlusherAwait, FlusherExit, At,
               storeVars, linkVars, procVars, IInv, TypeOK
  <2>3. \E l \in {"off", "select", "await", "peek"} :
          pc' = [pc EXCEPT !["flusher"] = l]
    BY <1>2 DEF FlusherWake, FlusherIdle, FlusherAwait, FlusherExit,
               AfterSelect, GoTo
  <2>4. QED
    BY <2>1, <2>2, <2>3, QuietStep
<1>3. QED
  BY <1>1, <1>2

-----------------------------------------------------------------------------
(***************************************************************************)
(* The process.                                                            *)
(***************************************************************************)

\* Losing the memory leaves only durable facts to preserve.
LEMMA HaltStep ==
  ASSUME IInv, Halt, drained' = drained, mark' = mark, stops' \in Nat
  PROVE  IInv'
<1>1. TypeOK'
  <2>1. /\ DOMAIN NoRows \subseteq 1 .. nextId - 1
        /\ NoRows \in [DOMAIN NoRows -> 1 .. events]
    BY DEF NoRows
  <2>2. \A a \in Actors : batch'[a] = NoRows /\ pc'[a] = "off"
    BY DEF Halt
  <2>3. connected' \in BOOLEAN /\ expired' \in BOOLEAN /\ wake' \in BOOLEAN
    BY DEF Halt, IInv, TypeOK
  <2>4. DOMAIN batch' = Actors
    BY DEF Halt
  <2>5. pc' \in [Actors -> {"off", "select", "check", "recheck", "sleep",
                           "await", "peek", "publish", "puback", "delete",
                           "account", "exit"}]
    BY DEF Halt
  <2>6. QED
    BY <2>1, <2>2, <2>3, <2>4, <2>5 DEF Halt, IInv, TypeOK
<1>2. \A a \in Actors : BatchInv(a)'
  BY BatchEmpty DEF Halt
<1>3. Accounting'
  BY DEF Halt, IInv, Accounting, TypeOK, Actors, Up
<1>4. DrainInv'
  BY DEF Halt, IInv, DrainInv, TypeOK, Actors
<1>5. UnansweredInv'
  BY DEF Halt, UnansweredInv
<1>6. QED
  BY <1>1, <1>2, <1>3, <1>4, <1>5 DEF Halt, IInv, Numbering, FirstDeliveryInOrder

\* A restart recounts the depth from the table.
LEMMA OpenStep == ASSUME IInv, Open PROVE IInv'
<1>1. Cardinality(DOMAIN rows) \in Nat
  BY RowsFinite DEF IInv
<1>2. pc["flusher"] # "account" /\ pc["drain"] # "account" /\ mu = "free"
  BY DEF IInv, DrainInv, Accounting, Open, Actors
<1>3. TypeOK'
  <2>1. pc' \in [Actors -> {"off", "select", "check", "recheck", "sleep",
                           "await", "peek", "publish", "puback", "delete",
                           "account", "exit"}]
    BY DEF Open
  <2>2. wake' \in BOOLEAN
    BY DEF Open
  <2>3. QED
    BY <1>1, <2>1, <2>2 DEF Open, IInv, TypeOK, linkVars
<1>4. \A a \in Actors : BatchInv(a)'
  <2>1. \A a \in Actors : batch[a] = NoRows
    BY DEF Open, IInv, DrainInv, BatchInv
  <2>2. \A a \in Actors : pc'[a] \in {"select", "off"}
    BY DEF Open
  <2>3. QED
    BY <2>1, <2>2, BatchEmpty DEF Open
<1>5. unanswered = {} /\ unanswered' = {} /\ UnansweredInv'
  <2>1. unanswered = {} /\ unanswered' = unanswered
    BY AllAnswered DEF Open, IInv
  <2>2. QED
    BY <2>1 DEF UnansweredInv
<1>6. Accounting'
  <2>1. Cardinality(unanswered') = 0
    BY <1>5, FS_EmptySet
  <2>2. QED
    BY <1>1, <1>2, <2>1 DEF Open, IInv, Accounting, TypeOK, Actors, Up
<1>7. DrainInv'
  BY DEF Open, IInv, DrainInv, TypeOK, Actors
<1>8. QED
  BY <1>3, <1>4, <1>5, <1>6, <1>7
     DEF Open, IInv, Numbering, FirstDeliveryInOrder, linkVars

\* SIGTERM records which Publish calls had returned and starts the drain.
LEMMA BeginShutdownStep == ASSUME IInv, BeginShutdown PROVE IInv'
<1>1. pc["drain"] = "off" /\ pc'["drain"] = "check" /\ pc'["flusher"] = pc["flusher"]
  BY DEF BeginShutdown, IInv, DrainInv, TypeOK, Actors
<1>2. events - adding \in Nat
  BY DEF IInv, TypeOK, Accounting
<1>3. TypeOK'
  BY <1>2 DEF BeginShutdown, IInv, TypeOK, Actors, storeVars, linkVars
<1>4. \A a \in Actors : BatchInv(a)'
  <2>1. batch'["drain"] = NoRows
    BY <1>1 DEF BeginShutdown, IInv, BatchInv, Actors
  <2>2. BatchInv("drain")'
    BY <1>1, <2>1, BatchEmpty DEF Actors
  <2>3. BatchInv("flusher")'
    BY <1>1, BatchFrame DEF BeginShutdown, IInv, linkVars, Actors
  <2>4. QED
    BY <2>2, <2>3 DEF Actors
<1>5. Accounting'
  BY <1>1 DEF BeginShutdown, IInv, Accounting, TypeOK, Actors, Up, storeVars
<1>6. DrainInv'
  BY <1>1, <1>2 DEF BeginShutdown, IInv, DrainInv, TypeOK, Actors, storeVars, linkVars
<1>7. UnansweredInv'
  <2>1. unanswered = {} /\ unanswered' = unanswered
    BY AllAnswered DEF BeginShutdown, IInv, storeVars
  <2>2. QED
    BY <2>1 DEF UnansweredInv
<1>8. QED
  BY <1>3, <1>4, <1>5, <1>6, <1>7
     DEF BeginShutdown, IInv, Numbering, FirstDeliveryInOrder, storeVars, linkVars

\* The second half of EnqueueBatch closes the gap between depth and rows.
LEMMA EnqueueReturnStep == ASSUME IInv, EnqueueReturn PROVE IInv'
<1>1. Cardinality(DOMAIN rows) \in Nat
  BY RowsFinite DEF IInv
<1>2. TypeOK'
  <2>1. wake' \in BOOLEAN
    BY DEF EnqueueReturn
  <2>2. depth' \in Nat /\ adding' \in Nat /\ mu' \in {"free", "producer"} \cup Actors
    BY DEF EnqueueReturn, IInv, TypeOK
  <2>3. QED
    BY <2>1, <2>2 DEF EnqueueReturn, IInv, TypeOK, linkVars, procVars
<1>3. \A a \in Actors : BatchInv(a)'
  BY BatchFrame DEF EnqueueReturn, IInv, linkVars
<1>4. Accounting'
  BY <1>1, UnansweredFinite
     DEF EnqueueReturn, IInv, Accounting, TypeOK, Actors, Up, procVars
<1>5. DrainInv'
  BY DEF EnqueueReturn, IInv, DrainInv, TypeOK, Actors, procVars, linkVars
<1>6. UnansweredInv'
  <2>1. \A b \in unanswered : pc'[b] \notin {"puback", "delete", "account"}
    BY DEF EnqueueReturn, IInv, UnansweredInv
  <2>2. QED
    BY <2>1, UnansweredFrame DEF EnqueueReturn, IInv, procVars
<1>7. QED
  BY <1>2, <1>3, <1>4, <1>5, <1>6
     DEF EnqueueReturn, IInv, Numbering, FirstDeliveryInOrder, linkVars

\* The INSERT of a whole batch: new ids are new, and the batch fits.
LEMMA EnqueueCommitStep ==
  ASSUME IInv, NEW n \in 1 .. MaxPublish, EnqueueCommit(n) PROVE IInv'
<1> DEFINE new == nextId .. nextId + n - 1
<1>1. /\ n \in Nat \ {0} /\ nextId \in Nat \ {0} /\ events \in Nat
      /\ nextId = events + 1 /\ adding = 0 /\ mu = "free"
      /\ DOMAIN rows \subseteq 1 .. nextId - 1
  BY OutboxAssumption DEF IInv, TypeOK, Numbering, Accounting, EnqueueCommit
<1>2. /\ DOMAIN rows' = DOMAIN rows \cup new
      /\ \A i \in DOMAIN rows' : rows'[i] = i
  BY <1>1 DEF EnqueueCommit, FirstNewId, IInv, Numbering
<1>3. /\ new = events + 1 .. events + n /\ new \cap DOMAIN rows = {}
      /\ nextId' = nextId + n /\ events' = events + n
  BY <1>1 DEF EnqueueCommit, FirstNewId
<1>4. Cardinality(DOMAIN rows') = Cardinality(DOMAIN rows) + n
  <2>1. IsFiniteSet(new) /\ Cardinality(new) = n
    BY <1>1, <1>3, FS_Interval
  <2>2. IsFiniteSet(DOMAIN rows) /\ Cardinality(DOMAIN rows) \in Nat
    BY RowsFinite DEF IInv
  <2>3. Cardinality(DOMAIN rows \cap new) = 0
    BY <1>3, FS_EmptySet
  <2>4. Cardinality(DOMAIN rows \cup new) =
          Cardinality(DOMAIN rows) + Cardinality(new) - Cardinality(DOMAIN rows \cap new)
    <3> HIDE DEF new
    <3> QED BY <2>1, <2>2, FS_Union
  <2>5. QED
    BY <1>1, <1>2, <2>1, <2>2, <2>3, <2>4
<1>5. TypeOK'
  <2>1. DOMAIN rows' \subseteq 1 .. nextId' - 1
    BY <1>1, <1>2, <1>3
  <2>2. rows' \in [DOMAIN rows' -> 1 .. events']
    <3>1. \A i \in DOMAIN rows' : rows'[i] \in 1 .. events'
      BY <1>1, <1>2, <1>3
    <3>2. QED
      BY <3>1 DEF EnqueueCommit
  <2>3. \A a \in Actors : /\ DOMAIN batch[a] \subseteq 1 .. nextId' - 1
                         /\ batch[a] \in [DOMAIN batch[a] -> 1 .. events']
    <3> SUFFICES ASSUME NEW a \in Actors
                 PROVE  /\ DOMAIN batch[a] \subseteq 1 .. nextId' - 1
                        /\ batch[a] \in [DOMAIN batch[a] -> 1 .. events']
      OBVIOUS
    <3>1. /\ DOMAIN batch[a] \subseteq 1 .. nextId - 1
          /\ batch[a] \in [DOMAIN batch[a] -> 1 .. events]
      BY DEF IInv, TypeOK
    <3>2. 1 .. nextId - 1 \subseteq 1 .. nextId' - 1 /\ 1 .. events \subseteq 1 .. events'
      BY <1>1, <1>3
    <3>3. QED
      BY <3>1, <3>2
  <2>4. delivered \subseteq 1 .. events' /\ acked \subseteq 1 .. events'
    BY <1>1, <1>3 DEF IInv, TypeOK
  <2>5. nextId' \in Nat \ {0} /\ events' \in Nat
    BY <1>1, <1>3
  <2>6. adding' \in Nat /\ mu' \in {"free", "producer"} \cup Actors
    BY <1>1 DEF EnqueueCommit
  <2>7. QED
    BY <2>1, <2>2, <2>3, <2>4, <2>5, <2>6
       DEF EnqueueCommit, IInv, TypeOK, linkVars, procVars
<1>6. \A a \in Actors : BatchInv(a)'
  BY BatchFrame DEF EnqueueCommit, IInv, linkVars
<1>7. Accounting'
  <2>1. /\ mu' = "producer" /\ adding' = n /\ depth' = depth /\ pc' = pc
        /\ proc' = proc /\ Up
    BY DEF EnqueueCommit, procVars
  <2>2. \A a \in Actors : pc[a] # "account"
    BY <1>1 DEF IInv, Accounting, Actors
  <2>3. /\ depth = Cardinality(DOMAIN rows) + Cardinality(unanswered)
        /\ Cardinality(DOMAIN rows) \in Nat /\ Cardinality(unanswered) \in Nat
        /\ unanswered' = unanswered
    BY <1>1, <2>1, RowsFinite, UnansweredFinite
       DEF EnqueueCommit, IInv, Accounting, Actors
  <2>4. MaxEntries > 0 => Cardinality(DOMAIN rows') <= MaxEntries
    <3>1. MaxEntries > 0 => depth + n <= MaxEntries
      BY DEF EnqueueCommit, Fits
    <3>2. QED
      BY <1>1, <1>4, <2>3, <3>1, OutboxAssumption
  <2>5. events' - adding' + 1 .. events' \subseteq DOMAIN rows'
    BY <1>1, <1>2, <1>3, <2>1
  <2>6. depth' = Cardinality(DOMAIN rows') + Cardinality(unanswered') - adding'
    BY <1>1, <1>4, <2>1, <2>3
  <2>7. QED
    BY <1>1, <1>3, <1>4, <2>1, <2>2, <2>4, <2>5, <2>6, RowsFinite
       DEF IInv, Accounting, Actors
<1>8. DrainInv'
  BY <1>1, <1>3 DEF EnqueueCommit, IInv, DrainInv, TypeOK, procVars, linkVars, Up
<1>9. \A e \in 1 .. events' : e \in acked' \/ e \in DOMAIN rows'
  BY <1>1, <1>2, <1>3 DEF EnqueueCommit, IInv, linkVars
<1>10. Numbering'
  BY <1>1, <1>2, <1>3 DEF Numbering
<1>11. UnansweredInv'
  <2>1. \A b \in unanswered : pc'[b] \notin {"puback", "delete", "account"}
    BY DEF EnqueueCommit, IInv, UnansweredInv
  <2>2. QED
    BY <2>1, UnansweredFrame DEF EnqueueCommit, IInv, procVars
<1>12. QED
  BY <1>5, <1>6, <1>7, <1>8, <1>9, <1>10, <1>11
     DEF EnqueueCommit, IInv, FirstDeliveryInOrder, linkVars

-----------------------------------------------------------------------------
(***************************************************************************)
(* flushOnce and Drain.                                                    *)
(***************************************************************************)

\* flushOnce or Drain moves actor a outside the loop with an empty batch; the
\* broker may have received one more event in order.
LEMMA LeaveStep ==
  ASSUME IInv, NEW a \in Actors, pc[a] \notin {"off", "account"},
         UNCHANGED <<rows, nextId, events, depth, mu, adding, wake, unanswered, connected,
                     acked, proc, expired, mark, stops>>,
         delivered \subseteq delivered', delivered' \subseteq 1 .. events,
         FirstDeliveryInOrder',
         NEW l \in {"select", "check", "recheck", "sleep", "await", "peek", "exit"},
         pc' = [pc EXCEPT ![a] = l],
         batch'[a] = NoRows, DOMAIN batch' = Actors,
         \A b \in Actors : b # a => batch'[b] = batch[b],
         \/ drained' = drained
         \/ a = "drain" /\ drained' = "err"
         \/ a = "drain" /\ drained' = "ok" /\ 1 .. mark \subseteq acked
  PROVE  IInv'
<1>1. \A b \in Actors : b # a => pc'[b] = pc[b] /\ batch'[b] = batch[b]
  BY DEF IInv, TypeOK
<1>2. pc'[a] = l /\ batch'[a] = NoRows
  BY DEF IInv, TypeOK
<1>3. TypeOK'
  <2>1. /\ DOMAIN NoRows \subseteq 1 .. nextId - 1
        /\ NoRows \in [DOMAIN NoRows -> 1 .. events]
    BY DEF NoRows
  <2>2. \A b \in Actors : /\ DOMAIN batch'[b] \subseteq 1 .. nextId - 1
                         /\ batch'[b] \in [DOMAIN batch'[b] -> 1 .. events]
    BY <1>1, <1>2, <2>1 DEF IInv, TypeOK
  <2>3. DOMAIN batch' = Actors
    BY DEF IInv, TypeOK
  <2>4. pc' \in [Actors -> {"off", "select", "check", "recheck", "sleep",
                           "await", "peek", "publish", "puback", "delete",
                           "account", "exit"}]
    BY DEF IInv, TypeOK
  <2>5. drained' \in {"none", "ok", "err"}
    BY DEF IInv, TypeOK
  <2>6. QED
    BY <2>2, <2>3, <2>4, <2>5 DEF IInv, TypeOK
<1>4. \A b \in Actors : BatchInv(b)'
  <2> SUFFICES ASSUME NEW b \in Actors PROVE BatchInv(b)'
    OBVIOUS
  <2>1. CASE b = a
    BY <2>1, <1>2, BatchEmpty
  <2>2. CASE b # a
    BY <2>2, <1>1, BatchFrame DEF IInv
  <2>3. QED
    BY <2>1, <2>2
<1>5. Accounting'
  <2>1. \A b \in Actors : pc'[b] = "account" <=> pc[b] = "account"
    BY <1>1, <1>2
  <2>2. QED
    BY <2>1 DEF IInv, Accounting, Up
<1>6. DrainInv'
  <2>1. pc'["drain"] # "off" => proc = "draining"
    BY <1>1, <1>2 DEF IInv, DrainInv, Actors
  <2>2. proc # "down"
    BY DEF IInv, DrainInv
  <2>3. proc = "running" => drained' = drained
    BY DEF IInv, DrainInv
  <2>4. QED
    BY <2>1, <2>2, <2>3 DEF IInv, DrainInv
<1>7. UnansweredInv'
  <2>1. \A b \in unanswered : pc'[b] \notin {"puback", "delete", "account"}
    BY <1>1, <1>2 DEF IInv, TypeOK, UnansweredInv
  <2>2. QED
    BY <2>1, UnansweredFrame DEF IInv
<1>8. QED
  BY <1>3, <1>4, <1>5, <1>6, <1>7 DEF IInv, Numbering

\* What Return does, spelled out.
LEMMA ReturnFacts ==
  ASSUME IInv, NEW a \in Actors, NEW err \in BOOLEAN, Return(a, err)
  PROVE  /\ batch'[a] = NoRows /\ DOMAIN batch' = Actors
         /\ \A b \in Actors : b # a => batch'[b] = batch[b]
         /\ \E l \in {"select", "recheck", "exit"} : pc' = [pc EXCEPT ![a] = l]
         /\ drained' = drained \/ (a = "drain" /\ err /\ drained' = "err")
<1>1. batch' = [batch EXCEPT ![a] = NoRows]
  BY DEF Return
<1>2. /\ batch'[a] = NoRows /\ DOMAIN batch' = Actors
      /\ \A b \in Actors : b # a => batch'[b] = batch[b]
  BY <1>1 DEF IInv, TypeOK
<1>3. QED
  BY <1>2 DEF Return, GoTo, Actors

\* Actor a enters or stays in the loop of flushOnce.
LEMMA LoopStep ==
  ASSUME IInv, NEW a \in Actors, pc[a] \notin {"off", "account"},
         UNCHANGED <<rows, nextId, events, depth, mu, adding, wake, unanswered, connected,
                     proc, expired, mark, stops, drained>>,
         delivered \subseteq delivered', delivered' \subseteq 1 .. events,
         acked \subseteq acked', acked' \subseteq delivered',
         FirstDeliveryInOrder',
         NEW l \in {"publish", "puback", "delete"},
         l = "publish" \/ a \notin unanswered,
         pc' = [pc EXCEPT ![a] = l],
         NEW B, DOMAIN B \subseteq 1 .. nextId - 1, B \in [DOMAIN B -> 1 .. events],
         batch'[a] = B, DOMAIN batch' = Actors,
         \A b \in Actors : b # a => batch'[b] = batch[b],
         BatchInv(a)'
  PROVE  IInv'
<1>1. \A b \in Actors : b # a => pc'[b] = pc[b] /\ batch'[b] = batch[b]
  BY DEF IInv, TypeOK
<1>2. pc'[a] = l /\ batch'[a] = B
  BY DEF IInv, TypeOK
<1>3. TypeOK'
  <2>1. \A b \in Actors : /\ DOMAIN batch'[b] \subseteq 1 .. nextId - 1
                         /\ batch'[b] \in [DOMAIN batch'[b] -> 1 .. events]
    BY <1>1, <1>2 DEF IInv, TypeOK
  <2>2. pc' \in [Actors -> {"off", "select", "check", "recheck", "sleep",
                           "await", "peek", "publish", "puback", "delete",
                           "account", "exit"}]
    BY DEF IInv, TypeOK
  <2>3. QED
    BY <2>1, <2>2 DEF IInv, TypeOK
<1>4. \A b \in Actors : BatchInv(b)'
  BY <1>1, BatchFrame DEF IInv
<1>5. Accounting'
  <2>1. \A b \in Actors : pc'[b] = "account" <=> pc[b] = "account"
    BY <1>1, <1>2
  <2>2. QED
    BY <2>1 DEF IInv, Accounting, Up
<1>6. DrainInv'
  <2>1. pc'["drain"] # "off" => proc = "draining"
    BY <1>1, <1>2 DEF IInv, DrainInv, Actors
  <2>2. proc # "down"
    BY DEF IInv, DrainInv
  <2>3. QED
    BY <2>1, <2>2 DEF IInv, DrainInv
<1>7. UnansweredInv'
  <2>1. \A b \in unanswered : pc'[b] \notin {"puback", "delete", "account"}
    BY <1>1, <1>2 DEF IInv, TypeOK, UnansweredInv
  <2>2. QED
    BY <2>1, UnansweredFrame DEF IInv
<1>8. QED
  BY <1>3, <1>4, <1>5, <1>6, <1>7 DEF IInv, Numbering

\* The event flushOnce is about to send may be sent: all earlier ones were.
LEMMA CurrentInOrder ==
  ASSUME IInv, NEW a \in Actors, pc[a] \in {"publish", "puback", "delete", "account"}
  PROVE  /\ Current(a) \in DOMAIN batch[a]
         /\ \A j \in DOMAIN batch[a] : Current(a) <= j
         /\ batch[a][Current(a)] = Current(a)
         /\ Current(a) \in 1 .. events
         /\ \A f \in 1 .. Current(a) - 1 : f \in delivered
<1>1. DOMAIN batch[a] # {} /\ TypeOK /\ BatchInv(a)
  BY DEF IInv, BatchInv
<1>2. Current(a) \in DOMAIN batch[a] /\ \A j \in DOMAIN batch[a] : Current(a) <= j
  BY <1>1, CurrentIsLeast
<1>3. Current(a) \in 1 .. events /\ batch[a][Current(a)] = Current(a)
  BY <1>1, <1>2 DEF BatchInv, IInv, Numbering, TypeOK
<1>4. \A f \in 1 .. Current(a) - 1 : f \notin DOMAIN batch[a]
  BY <1>2, <1>3
<1>5. QED
  BY <1>1, <1>2, <1>3, <1>4 DEF BatchInv

\* Sending it keeps the deliveries gap-free.
LEMMA DeliverCurrent ==
  ASSUME IInv, NEW a \in Actors, pc[a] = "puback",
         delivered' = delivered \cup {batch[a][Current(a)]}
  PROVE  FirstDeliveryInOrder' /\ delivered' \subseteq 1 .. events
<1>1. /\ delivered' = delivered \cup {Current(a)} /\ Current(a) \in 1 .. events
      /\ \A f \in 1 .. Current(a) - 1 : f \in delivered
  BY CurrentInOrder
<1>2. delivered \subseteq 1 .. events /\ FirstDeliveryInOrder /\ events \in Nat
  BY DEF IInv, TypeOK
<1>3. ASSUME NEW e \in delivered', NEW f \in 1 .. e PROVE f \in delivered'
  <2>1. CASE e \in delivered
    BY <1>1, <1>2, <2>1 DEF FirstDeliveryInOrder
  <2>2. CASE e = Current(a)
    <3>1. f = Current(a) \/ f \in 1 .. Current(a) - 1
      BY <1>1, <2>2
    <3>2. QED
      BY <1>1, <3>1
  <2>3. QED
    BY <1>1, <2>1, <2>2
<1>4. QED
  BY <1>1, <1>2, <1>3 DEF FirstDeliveryInOrder

\* Steps that end flushOnce with an error and leave the table alone.
LEMMA FailStep ==
  ASSUME IInv, NEW a \in Actors,
         \/ PeekFails(a)
         \/ PublishFails(a)
         \/ DeleteFails(a) /\ UNCHANGED <<rows, unanswered>>
  PROVE  IInv'
<1>1. /\ pc[a] \in {"peek", "puback", "delete"} /\ Return(a, TRUE)
      /\ UNCHANGED <<rows, nextId, events, depth, mu, adding, wake, unanswered, connected,
                     acked, proc, expired, mark, stops>>
  BY DEF PeekFails, PublishFails, DeleteFails, At, storeVars, linkVars
<1>2. delivered \subseteq delivered' /\ delivered' \subseteq 1 .. events /\ FirstDeliveryInOrder'
  <2>1. CASE delivered' = delivered
    BY <2>1 DEF IInv, TypeOK, FirstDeliveryInOrder
  <2>2. CASE delivered' # delivered
    <3>1. pc[a] = "puback" /\ delivered' = delivered \cup {batch[a][Current(a)]}
      BY <2>2 DEF PeekFails, PublishFails, DeleteFails, At, linkVars
    <3>2. QED
      BY <3>1, DeliverCurrent
  <2>3. QED
    BY <2>1, <2>2
<1>3. QED
  BY <1>1, <1>2, ReturnFacts, LeaveStep

\* PeekOldest takes a prefix of the table or ends flushOnce.
LEMMA PeekStep ==
  ASSUME IInv, NEW a \in Actors, PeekOldest(a) PROVE IInv'
<1>1. /\ pc[a] = "peek"
      /\ UNCHANGED <<rows, nextId, events, depth, mu, adding, wake, unanswered, connected,
                     acked, delivered, proc, expired, mark, stops>>
  BY DEF PeekOldest, At, storeVars, linkVars
<1>2. /\ delivered' \subseteq 1 .. events /\ acked' \subseteq delivered'
      /\ FirstDeliveryInOrder'
  BY <1>1 DEF IInv, TypeOK, FirstDeliveryInOrder
<1>3. CASE DOMAIN rows = {}
  BY <1>1, <1>2, <1>3, ReturnFacts, LeaveStep DEF PeekOldest
<1>4. CASE DOMAIN rows # {}
  <2> DEFINE B == [i \in Oldest |-> rows[i]]
  <2>1. /\ batch' = [batch EXCEPT ![a] = B] /\ pc' = [pc EXCEPT ![a] = "publish"]
        /\ drained' = drained
    BY <1>4 DEF PeekOldest, GoTo
  <2>2. DOMAIN B = Oldest /\ Oldest \subseteq DOMAIN rows /\ \A i \in Oldest : B[i] = i
    BY DEF Oldest, IInv, Numbering
  <2>3. DOMAIN B \subseteq 1 .. nextId - 1 /\ B \in [DOMAIN B -> 1 .. events]
    BY <2>2 DEF IInv, TypeOK
  <2>4. /\ pc'[a] = "publish" /\ batch'[a] = B /\ DOMAIN batch' = Actors
        /\ \A b \in Actors : b # a => batch'[b] = batch[b]
    BY <2>1 DEF IInv, TypeOK
  <2>5. BatchInv(a)'
    <3>1. Oldest # {}
      BY <1>4, OldestNonEmpty DEF IInv
    <3>2. ASSUME NEW i \in Oldest, NEW f \in 1 .. i - 1
          PROVE  f \in Oldest \/ f \in delivered
      <4>1. i \in 1 .. events /\ events \in Nat
        BY <2>2 DEF IInv, TypeOK, Numbering
      <4>2. f \in 1 .. events /\ f < i
        BY <4>1
      <4>3. CASE f \in DOMAIN rows
        BY <4>2, <4>3, OldestClosed DEF IInv
      <4>4. CASE f \notin DOMAIN rows
        BY <4>2, <4>4 DEF IInv
      <4>5. QED
        BY <4>3, <4>4
    <3>3. QED
      BY <1>1, <2>2, <2>4, <3>1, <3>2 DEF BatchInv
  <2>6. QED
    <3> HIDE DEF B
    <3> QED BY <1>1, <1>2, <2>1, <2>3, <2>4, <2>5, LoopStep
<1>5. QED
  BY <1>3, <1>4

\* The loop's context check of flushOnce.
LEMMA StartPublishStep ==
  ASSUME IInv, NEW a \in Actors, StartPublish(a) PROVE IInv'
<1>1. /\ pc[a] = "publish"
      /\ UNCHANGED <<rows, nextId, events, depth, mu, adding, wake, unanswered, connected,
                     acked, delivered, proc, expired, mark, stops>>
  BY DEF StartPublish, At, storeVars, linkVars
<1>2. /\ delivered' \subseteq 1 .. events /\ acked' \subseteq delivered'
      /\ FirstDeliveryInOrder'
  BY <1>1 DEF IInv, TypeOK, FirstDeliveryInOrder
<1>3. CASE CtxDone(a)
  BY <1>1, <1>2, <1>3, ReturnFacts, LeaveStep DEF StartPublish
<1>4. CASE ~CtxDone(a)
  <2>1. pc' = [pc EXCEPT ![a] = "puback"] /\ batch' = batch /\ drained' = drained
    BY <1>4 DEF StartPublish, GoTo
  <2>2. DOMAIN batch' = Actors /\ pc'[a] = "puback"
    BY <2>1 DEF IInv, TypeOK
  <2>3. BatchInv(a)'
    BY <1>1, <2>1, <2>2 DEF IInv, BatchInv
  <2>4. /\ DOMAIN batch[a] \subseteq 1 .. nextId - 1
        /\ batch[a] \in [DOMAIN batch[a] -> 1 .. events]
    BY DEF IInv, TypeOK
  <2>5. a \notin unanswered
    BY <1>4 DEF IInv, UnansweredInv
  <2>6. QED
    BY <1>1, <1>2, <2>1, <2>2, <2>3, <2>4, <2>5, LoopStep
<1>5. QED
  BY <1>3, <1>4

\* A PUBACK: the current event joins the delivered and confirmed ones.
LEMMA PublishSucceedsStep ==
  ASSUME IInv, NEW a \in Actors, PublishSucceeds(a) PROVE IInv'
<1>1. /\ pc[a] = "puback"
      /\ UNCHANGED <<rows, nextId, events, depth, mu, adding, wake, unanswered, connected,
                     proc, expired, mark, stops, drained, batch>>
      /\ delivered' = delivered \cup {batch[a][Current(a)]}
      /\ acked' = acked \cup {batch[a][Current(a)]}
      /\ pc' = [pc EXCEPT ![a] = "delete"]
  BY DEF PublishSucceeds, At, GoTo, storeVars, procVars
<1>2. delivered' \subseteq 1 .. events /\ FirstDeliveryInOrder'
  BY <1>1, DeliverCurrent
<1>3. acked' \subseteq delivered'
  BY <1>1 DEF IInv
<1>4. DOMAIN batch' = Actors /\ pc'[a] = "delete"
  BY <1>1 DEF IInv, TypeOK
<1>5. Current(a)' = Current(a) /\ Current(a) \in acked'
  <2>1. Current(a)' = Current(a)
    BY <1>1 DEF Current
  <2>2. batch[a][Current(a)] = Current(a)
    BY <1>1, CurrentInOrder
  <2>3. QED
    BY <1>1, <2>1, <2>2
<1>6. BatchInv(a)'
  BY <1>1, <1>4, <1>5 DEF IInv, BatchInv
<1>7. /\ DOMAIN batch[a] \subseteq 1 .. nextId - 1
      /\ batch[a] \in [DOMAIN batch[a] -> 1 .. events]
  BY DEF IInv, TypeOK
<1>8. a \notin unanswered
  BY <1>1 DEF IInv, UnansweredInv
<1>9. QED
  BY <1>1, <1>2, <1>3, <1>4, <1>6, <1>7, <1>8, LoopStep

\* Going on to the next row, or leaving after the last one.
LEMMA NextRowFacts ==
  ASSUME IInv, NEW a \in Actors, pc[a] \in {"delete", "account"}, NextRow(a),
         UNCHANGED <<acked, delivered>>
  PROVE  /\ \A b \in Actors : b # a => pc'[b] = pc[b]
         /\ pc'[a] \in {"select", "recheck", "publish"}
         /\ pc' \in [Actors -> {"off", "select", "check", "recheck", "sleep",
                               "await", "peek", "publish", "puback", "delete",
                               "account", "exit"}]
         /\ DOMAIN batch' = Actors
         /\ \A b \in Actors :
              /\ DOMAIN batch'[b] \subseteq 1 .. nextId - 1
              /\ batch'[b] \in [DOMAIN batch'[b] -> 1 .. events]
              /\ BatchInv(b)'
         /\ drained' = drained
<1> DEFINE rest == DOMAIN batch[a] \ {Current(a)}
<1>1. /\ Current(a) \in DOMAIN batch[a]
      /\ \A j \in DOMAIN batch[a] : Current(a) <= j
      /\ Current(a) \in acked /\ acked \subseteq delivered
  BY CurrentInOrder DEF IInv, BatchInv
<1>2. CASE rest = {}
  <2>1. Return(a, FALSE)
    BY <1>2 DEF NextRow
  <2>2. /\ batch' = [batch EXCEPT ![a] = NoRows] /\ drained' = drained
        /\ \E l \in {"select", "recheck"} : pc' = [pc EXCEPT ![a] = l]
    BY <2>1 DEF Return, GoTo, Actors
  <2>3. /\ batch'[a] = NoRows /\ DOMAIN batch' = Actors
        /\ \A b \in Actors : b # a => batch'[b] = batch[b] /\ pc'[b] = pc[b]
        /\ pc'[a] \in {"select", "recheck"}
    BY <2>2 DEF IInv, TypeOK
  <2>4. /\ DOMAIN NoRows \subseteq 1 .. nextId - 1
        /\ NoRows \in [DOMAIN NoRows -> 1 .. events]
    BY DEF NoRows
  <2>5. BatchInv(a)'
    BY <2>3, BatchEmpty
  <2>6. \A b \in Actors : b # a => BatchInv(b)'
    BY <2>3, BatchFrame DEF IInv
  <2>7. pc' \in [Actors -> {"off", "select", "check", "recheck", "sleep",
                           "await", "peek", "publish", "puback", "delete",
                           "account", "exit"}]
    BY <2>2 DEF IInv, TypeOK
  <2>8. QED
    BY <2>2, <2>3, <2>4, <2>5, <2>6, <2>7 DEF IInv, TypeOK
<1>3. CASE rest # {}
  <2> DEFINE B == [i \in rest |-> batch[a][i]]
  <2>1. /\ batch' = [batch EXCEPT ![a] = B] /\ pc' = [pc EXCEPT ![a] = "publish"]
        /\ drained' = drained
    BY <1>3 DEF NextRow, GoTo
  <2>2. /\ batch'[a] = B /\ DOMAIN batch' = Actors /\ pc'[a] = "publish"
        /\ \A b \in Actors : b # a => batch'[b] = batch[b] /\ pc'[b] = pc[b]
    BY <2>1 DEF IInv, TypeOK
  <2>3. DOMAIN B = rest /\ \A i \in rest : B[i] = i
    BY DEF IInv, BatchInv
  <2>4. DOMAIN B \subseteq 1 .. nextId - 1 /\ B \in [DOMAIN B -> 1 .. events]
    BY <2>3 DEF IInv, TypeOK
  <2>5. BatchInv(a)'
    <3>1. \A i \in rest : \A f \in 1 .. i - 1 : f \in rest \/ f \in delivered
      BY <1>1 DEF IInv, BatchInv
    <3>2. QED
      BY <1>3, <2>2, <2>3, <3>1 DEF BatchInv
  <2>6. \A b \in Actors : b # a => BatchInv(b)'
    BY <2>2, BatchFrame DEF IInv
  <2>7. pc' \in [Actors -> {"off", "select", "check", "recheck", "sleep",
                           "await", "peek", "publish", "puback", "delete",
                           "account", "exit"}]
    BY <2>1 DEF IInv, TypeOK
  <2>8. QED
    <3> HIDE DEF B
    <3> QED BY <2>1, <2>2, <2>4, <2>5, <2>6, <2>7 DEF IInv, TypeOK
<1>4. QED
  BY <1>2, <1>3

\* The DELETE of a confirmed row, which may be gone already.
LEMMA DeleteRowStep ==
  ASSUME IInv, NEW a \in Actors, DeleteRow(a) PROVE IInv'
<1>1. /\ pc[a] = "delete" /\ mu = "free"
      /\ UNCHANGED <<nextId, events, depth, adding, wake, unanswered, connected, acked,
                     delivered, proc, expired, mark, stops>>
  BY DEF DeleteRow, At, linkVars
<1>2. /\ Current(a) \in acked /\ Current(a) \in DOMAIN batch[a]
      /\ proc # "down" /\ adding = 0
      /\ \A b \in Actors : pc[b] # "account"
  BY <1>1, CurrentInOrder DEF IInv, BatchInv, DrainInv, Accounting, Actors
<1>3. CASE Current(a) \notin DOMAIN rows
  <2>1. NextRow(a) /\ rows' = rows /\ mu' = mu
    BY <1>3 DEF DeleteRow
  <2>2. /\ \A b \in Actors : b # a => pc'[b] = pc[b]
        /\ pc'[a] \in {"select", "recheck", "publish"}
        /\ \A b \in Actors : BatchInv(b)'
        /\ drained' = drained
    BY <1>1, <2>1, NextRowFacts
  <2>3. TypeOK'
    BY <1>1, <2>1, NextRowFacts DEF IInv, TypeOK
  <2>4. Accounting'
    BY <1>1, <1>2, <2>1, <2>2 DEF IInv, Accounting, Up
  <2>5. DrainInv'
    <3>1. pc'["drain"] # "off" => proc = "draining"
      BY <1>1, <2>2 DEF IInv, DrainInv, Actors
    <3>2. QED
      BY <1>1, <1>2, <2>2, <3>1 DEF IInv, DrainInv
  <2>6. UnansweredInv'
    <3>1. \A b \in unanswered : pc'[b] \notin {"puback", "delete", "account"}
      BY <2>2 DEF IInv, UnansweredInv, TypeOK
    <3>2. QED
      BY <1>1, <3>1, UnansweredFrame DEF IInv
  <2>7. QED
    BY <1>1, <2>1, <2>2, <2>3, <2>4, <2>5, <2>6
       DEF IInv, Numbering, FirstDeliveryInOrder
<1>4. CASE Current(a) \in DOMAIN rows
  <2>1. /\ rows' = [i \in DOMAIN rows \ {Current(a)} |-> rows[i]]
        /\ mu' = a /\ pc' = [pc EXCEPT ![a] = "account"]
        /\ UNCHANGED <<batch, drained>>
    BY <1>4 DEF DeleteRow, GoTo, WithoutRow
  <2>2. /\ DOMAIN rows' = DOMAIN rows \ {Current(a)}
        /\ \A i \in DOMAIN rows' : rows'[i] = rows[i]
        /\ pc'[a] = "account" /\ \A b \in Actors : b # a => pc'[b] = pc[b]
    BY <2>1 DEF IInv, TypeOK
  <2>3. Cardinality(DOMAIN rows') = Cardinality(DOMAIN rows) - 1
        /\ Cardinality(DOMAIN rows) \in Nat
    BY <1>4, <2>2, RowsFinite, FS_RemoveElement DEF IInv
  <2>4. TypeOK'
    <3>1. DOMAIN rows' \subseteq 1 .. nextId - 1 /\ rows' \in [DOMAIN rows' -> 1 .. events]
      BY <2>1, <2>2 DEF IInv, TypeOK
    <3>2. mu' \in {"free", "producer"} \cup Actors
      BY <2>1
    <3>3. pc' \in [Actors -> {"off", "select", "check", "recheck", "sleep",
                             "await", "peek", "publish", "puback", "delete",
                             "account", "exit"}]
      BY <2>1 DEF IInv, TypeOK
    <3>4. QED
      BY <1>1, <2>1, <3>1, <3>2, <3>3 DEF IInv, TypeOK
  <2>5. \A b \in Actors : BatchInv(b)'
    <3>1. Current(a)' = Current(a)
      BY <2>1 DEF Current
    <3>2. BatchInv(a)'
      BY <1>1, <1>2, <2>1, <2>2, <3>1 DEF IInv, BatchInv
    <3>3. \A b \in Actors : b # a => BatchInv(b)'
      BY <1>1, <2>1, <2>2, BatchFrame DEF IInv
    <3>4. QED
      BY <3>2, <3>3
  <2>6. Accounting'
    <3>1. \A b \in Actors : mu' = b <=> pc'[b] = "account"
      BY <1>2, <2>1, <2>2
    <3>2. /\ depth = Cardinality(DOMAIN rows) + Cardinality(unanswered)
          /\ Cardinality(unanswered) \in Nat
      BY <1>1, <1>2, <2>3, UnansweredFinite DEF IInv, Accounting, Actors, Up
    <3>3. mu' \in Actors /\ mu' # "producer"
      BY <2>1 DEF Actors
    <3>4. MaxEntries > 0 => Cardinality(DOMAIN rows') <= MaxEntries
      BY <2>3, OutboxAssumption DEF IInv, Accounting
    <3>5. QED
      BY <1>1, <1>2, <2>3, <3>1, <3>2, <3>3, <3>4 DEF IInv, Accounting
  <2>7. DrainInv'
    <3>1. pc'["drain"] # "off" => proc = "draining"
      BY <1>1, <2>2 DEF IInv, DrainInv, Actors
    <3>2. QED
      BY <1>1, <1>2, <2>1, <3>1 DEF IInv, DrainInv
  <2>8. \A e \in 1 .. events : e \in acked \/ e \in DOMAIN rows'
    BY <1>2, <2>2 DEF IInv
  <2>9. UnansweredInv'
    <3>1. \A b \in unanswered : pc'[b] \notin {"puback", "delete", "account"}
      BY <1>1, <2>2 DEF IInv, UnansweredInv, TypeOK
    <3>2. QED
      BY <1>1, <3>1, UnansweredFrame DEF IInv
  <2>10. QED
    BY <1>1, <2>2, <2>4, <2>5, <2>6, <2>7, <2>8, <2>9
       DEF IInv, Numbering, FirstDeliveryInOrder
<1>5. QED
  BY <1>3, <1>4

\* The DELETE that took effect although ExecContext returned an error: the
\* depth stays behind by one more.
LEMMA DeleteUnansweredStep ==
  ASSUME IInv, NEW a \in Actors, DeleteFails(a), CtxDone(a),
         Current(a) \in DOMAIN rows, rows' = WithoutRow(a),
         unanswered' = unanswered \cup {a}
  PROVE  IInv'
<1>1. /\ pc[a] = "delete" /\ mu = "free" /\ Return(a, TRUE)
      /\ UNCHANGED <<nextId, events, depth, mu, adding, wake, connected, acked,
                     delivered, proc, expired, mark, stops>>
  BY DEF DeleteFails, At, linkVars
<1>2. /\ Current(a) \in acked /\ adding = 0 /\ a \notin unanswered
      /\ proc # "down" /\ (a = "drain" => proc = "draining")
      /\ \A b \in Actors : pc[b] # "account"
  BY <1>1, CurrentInOrder
     DEF IInv, BatchInv, DrainInv, Accounting, Actors, UnansweredInv
<1>3. /\ DOMAIN rows' = DOMAIN rows \ {Current(a)}
      /\ \A i \in DOMAIN rows' : rows'[i] = rows[i]
      /\ rows' \in [DOMAIN rows' -> 1 .. events]
  BY DEF WithoutRow, IInv, TypeOK
<1>4. PICK l \in {"select", "recheck", "exit"} : pc' = [pc EXCEPT ![a] = l]
  BY <1>1, ReturnFacts
<1>5. /\ batch'[a] = NoRows /\ DOMAIN batch' = Actors /\ pc'[a] = l
      /\ \A b \in Actors : b # a => batch'[b] = batch[b] /\ pc'[b] = pc[b]
      /\ drained' = drained \/ (a = "drain" /\ drained' = "err")
  <2>1. /\ batch'[a] = NoRows /\ DOMAIN batch' = Actors
        /\ \A b \in Actors : b # a => batch'[b] = batch[b]
        /\ drained' = drained \/ (a = "drain" /\ drained' = "err")
    BY <1>1, ReturnFacts
  <2>2. pc'[a] = l /\ \A b \in Actors : b # a => pc'[b] = pc[b]
    BY <1>4 DEF IInv, TypeOK
  <2>3. QED
    BY <2>1, <2>2
<1>6. /\ Cardinality(DOMAIN rows') = Cardinality(DOMAIN rows) - 1
      /\ Cardinality(DOMAIN rows) \in Nat /\ Cardinality(unanswered) \in Nat
      /\ Cardinality(unanswered') = Cardinality(unanswered) + 1
  <2>1. /\ IsFiniteSet(DOMAIN rows) /\ Cardinality(DOMAIN rows) \in Nat
        /\ IsFiniteSet(unanswered) /\ Cardinality(unanswered) \in Nat
    BY RowsFinite, UnansweredFinite DEF IInv
  <2>2. Cardinality(DOMAIN rows') = Cardinality(DOMAIN rows) - 1
    BY <1>3, <2>1, FS_RemoveElement
  <2>3. Cardinality(unanswered') = Cardinality(unanswered) + 1
    BY <1>2, <2>1, FS_AddElement
  <2>4. QED
    BY <2>1, <2>2, <2>3
<1>7. TypeOK'
  <2>1. /\ DOMAIN NoRows \subseteq 1 .. nextId - 1
        /\ NoRows \in [DOMAIN NoRows -> 1 .. events]
    BY DEF NoRows
  <2>2. \A b \in Actors : /\ DOMAIN batch'[b] \subseteq 1 .. nextId - 1
                         /\ batch'[b] \in [DOMAIN batch'[b] -> 1 .. events]
    BY <1>5, <2>1 DEF IInv, TypeOK
  <2>3. pc' \in [Actors -> {"off", "select", "check", "recheck", "sleep",
                           "await", "peek", "publish", "puback", "delete",
                           "account", "exit"}]
    BY <1>4 DEF IInv, TypeOK
  <2>4. DOMAIN rows' \subseteq 1 .. nextId - 1 /\ unanswered' \subseteq Actors
    BY <1>3 DEF IInv, TypeOK
  <2>5. drained' \in {"none", "ok", "err"}
    BY <1>5 DEF IInv, TypeOK
  <2>6. QED
    BY <1>1, <1>3, <1>5, <2>2, <2>3, <2>4, <2>5 DEF IInv, TypeOK
<1>8. \A b \in Actors : BatchInv(b)'
  <2>1. BatchInv(a)'
    BY <1>5, BatchEmpty
  <2>2. \A b \in Actors : b # a => BatchInv(b)'
    BY <1>1, <1>5, BatchFrame DEF IInv
  <2>3. QED
    BY <2>1, <2>2
<1>9. Accounting'
  <2>1. \A b \in Actors : mu' = b <=> pc'[b] = "account"
    BY <1>1, <1>2, <1>5 DEF Actors
  <2>2. mu' \notin Actors /\ mu' # "producer"
    BY <1>1 DEF Actors
  <2>3. depth = Cardinality(DOMAIN rows) + Cardinality(unanswered)
    BY <1>1, <1>2, <1>6, <2>2 DEF IInv, Accounting, Up
  <2>4. depth' = Cardinality(DOMAIN rows') + Cardinality(unanswered')
    BY <1>1, <1>6, <2>3
  <2>5. MaxEntries > 0 => Cardinality(DOMAIN rows') <= MaxEntries
    BY <1>6, OutboxAssumption DEF IInv, Accounting
  <2>6. QED
    BY <1>1, <1>2, <1>6, <2>1, <2>2, <2>4, <2>5 DEF IInv, Accounting
<1>10. DrainInv'
  <2>1. pc'["drain"] # "off" => proc = "draining"
    BY <1>1, <1>2, <1>5 DEF IInv, DrainInv, Actors
  <2>2. proc = "running" => drained' = drained
    BY <1>2, <1>5
  <2>3. drained' = "ok" => drained = "ok"
    BY <1>5
  <2>4. QED
    BY <1>1, <1>2, <2>1, <2>2, <2>3 DEF IInv, DrainInv
<1>11. UnansweredInv'
  <2>1. CtxDone(a) /\ proc = "draining"
    BY <1>2 DEF CtxDone, Actors
  <2>2. \A b \in unanswered' : CtxDone(b) /\ proc = "draining"
    BY <2>1 DEF IInv, UnansweredInv
  <2>3. \A b \in unanswered' : pc'[b] \notin {"puback", "delete", "account"}
    BY <1>5 DEF IInv, UnansweredInv, TypeOK
  <2>4. QED
    BY <1>1, <2>2, <2>3 DEF UnansweredInv, CtxDone
<1>12. \A e \in 1 .. events : e \in acked \/ e \in DOMAIN rows'
  BY <1>2, <1>3 DEF IInv
<1>13. QED
  BY <1>1, <1>3, <1>7, <1>8, <1>9, <1>10, <1>11, <1>12
     DEF IInv, Numbering, FirstDeliveryInOrder

\* Both outcomes of a DELETE whose answer is an error.
LEMMA DeleteFailsStep == ASSUME IInv, NEW a \in Actors, DeleteFails(a) PROVE IInv'
<1>1. CASE UNCHANGED <<rows, unanswered>>
  BY <1>1, FailStep
<1>2. CASE /\ CtxDone(a)
           /\ Current(a) \in DOMAIN rows
           /\ rows' = WithoutRow(a)
           /\ unanswered' = unanswered \cup {a}
  BY <1>2, DeleteUnansweredStep
<1>3. QED
  BY <1>1, <1>2 DEF DeleteFails

\* The second half of Delete lowers the depth for the row it removed.
LEMMA DeleteReturnStep ==
  ASSUME IInv, NEW a \in Actors, DeleteReturn(a) PROVE IInv'
<1>1. /\ pc[a] = "account" /\ mu' = "free" /\ NextRow(a)
      /\ depth' = IF depth - 1 < 0 THEN 0 ELSE depth - 1
      /\ UNCHANGED <<rows, nextId, events, adding, wake, unanswered, connected, acked,
                     delivered, proc, expired, mark, stops>>
  BY DEF DeleteReturn, At, linkVars
<1>2. mu = a /\ proc # "down" /\ adding = 0 /\ mu \in Actors /\ mu # "producer"
  BY <1>1 DEF IInv, Accounting, DrainInv, Actors
<1>3. /\ \A b \in Actors : b # a => pc'[b] = pc[b] /\ pc[b] # "account"
      /\ pc'[a] \in {"select", "recheck", "publish"}
      /\ \A b \in Actors : BatchInv(b)'
      /\ drained' = drained
  BY <1>1, <1>2, NextRowFacts DEF IInv, Accounting
<1>4. TypeOK'
  <2>1. depth' \in Nat /\ mu' \in {"free", "producer"} \cup Actors
    BY <1>1 DEF IInv, TypeOK
  <2>2. QED
    BY <1>1, <2>1, NextRowFacts DEF IInv, TypeOK
<1>5. Accounting'
  <2>1. /\ depth = Cardinality(DOMAIN rows) + Cardinality(unanswered) + 1
        /\ Cardinality(DOMAIN rows) \in Nat /\ Cardinality(unanswered) \in Nat
    BY <1>2, RowsFinite, UnansweredFinite DEF IInv, Accounting, Up
  <2>2. depth' = Cardinality(DOMAIN rows) + Cardinality(unanswered)
    BY <1>1, <2>1
  <2>3. mu' \notin Actors
    BY <1>1 DEF Actors
  <2>4. \A b \in Actors : pc'[b] # "account"
    BY <1>3
  <2>5. QED
    BY <1>1, <1>2, <2>1, <2>2, <2>3, <2>4 DEF IInv, Accounting
<1>6. DrainInv'
  <2>1. pc'["drain"] # "off" => proc = "draining"
    BY <1>1, <1>3 DEF IInv, DrainInv, Actors
  <2>2. QED
    BY <1>1, <1>2, <1>3, <2>1 DEF IInv, DrainInv
<1>7. UnansweredInv'
  <2>1. \A b \in unanswered : pc'[b] \notin {"puback", "delete", "account"}
    BY <1>3 DEF IInv, UnansweredInv, TypeOK
  <2>2. QED
    BY <1>1, <2>1, UnansweredFrame DEF IInv
<1>8. QED
  BY <1>1, <1>3, <1>4, <1>5, <1>6, <1>7 DEF IInv, Numbering, FirstDeliveryInOrder

\* Depth 0, read without mu, leaves only rows of an enqueue still under way.
LEMMA DepthZero ==
  ASSUME IInv, Up, depth = 0
  PROVE  1 .. mark \subseteq acked
<1>1. IsFiniteSet(DOMAIN rows) /\ Cardinality(DOMAIN rows) \in Nat
  BY RowsFinite DEF IInv
<1>2. mark \in Nat /\ events \in Nat /\ adding \in Nat /\ adding <= events
      /\ mark <= events - adding
  BY DEF IInv, TypeOK, DrainInv, Accounting
<1>3. mu \notin Actors /\ Cardinality(DOMAIN rows) <= adding
  <2>1. mu \in Actors => adding = 0
    BY DEF IInv, Accounting, Actors
  <2>2. depth = Cardinality(DOMAIN rows) + Cardinality(unanswered) - adding
                  + (IF mu \in Actors THEN 1 ELSE 0)
    BY DEF IInv, Accounting
  <2>3. Cardinality(unanswered) \in Nat
    BY UnansweredFinite DEF IInv
  <2>4. QED
    BY <1>1, <1>2, <2>1, <2>2, <2>3
<1>4. DOMAIN rows \subseteq events - adding + 1 .. events
  <2>1. CASE mu = "producer"
    <3> DEFINE late == events - adding + 1 .. events
    <3>1. late \in SUBSET DOMAIN rows
      BY <2>1 DEF IInv, Accounting
    <3>2. Cardinality(late) = adding
      BY <1>2, FS_Interval
    <3>3. DOMAIN rows = late
      <4> HIDE DEF late
      <4>1. /\ Cardinality(late) <= Cardinality(DOMAIN rows)
            /\ Cardinality(late) = Cardinality(DOMAIN rows) => late = DOMAIN rows
        BY <1>1, <3>1, FS_Subset
      <4>2. QED
        BY <1>1, <1>2, <1>3, <3>2, <4>1
    <3>4. QED
      BY <3>3
  <2>2. CASE mu # "producer"
    <3>1. Cardinality(DOMAIN rows) = 0
      BY <1>1, <1>3, <2>2 DEF IInv, Accounting
    <3>2. QED
      BY <1>1, <3>1, FS_EmptySet
  <2>3. QED
    BY <2>1, <2>2
<1>5. \A e \in 1 .. mark : e \in 1 .. events /\ e \notin DOMAIN rows
  BY <1>2, <1>4
<1>6. QED
  BY <1>5 DEF IInv

\* Drain's own steps; its nil return follows from DepthZero.
LEMMA DrainStep ==
  ASSUME IInv, DrainCheck \/ DrainAwait \/ DrainRecheck \/ DrainSleep
  PROVE  IInv'
<1>1. /\ pc["drain"] \in {"check", "await", "recheck", "sleep"} /\ "drain" \in Actors
      /\ UNCHANGED <<rows, nextId, events, depth, mu, adding, wake, unanswered, connected,
                     acked, delivered, proc, expired, mark, stops>>
      /\ \E l \in {"check", "sleep", "await", "peek", "exit"} :
           pc' = [pc EXCEPT !["drain"] = l]
      /\ batch' = batch
  BY DEF DrainCheck, DrainAwait, DrainRecheck, DrainSleep, At, GoTo, 
         storeVars, linkVars, procVars, Actors
<1>2. batch["drain"] = NoRows /\ Up
  BY <1>1 DEF IInv, BatchInv, DrainInv, Actors, Up
<1>3. \/ drained' = drained
      \/ drained' = "err"
      \/ drained' = "ok" /\ 1 .. mark \subseteq acked
  BY <1>2, DepthZero DEF DrainCheck, DrainAwait, DrainRecheck, DrainSleep,
         procVars
<1>4. delivered' \subseteq 1 .. events /\ FirstDeliveryInOrder'
  BY <1>1 DEF IInv, TypeOK, FirstDeliveryInOrder
<1>5. /\ batch'["drain"] = NoRows /\ DOMAIN batch' = Actors
      /\ \A b \in Actors : b # "drain" => batch'[b] = batch[b]
  BY <1>1, <1>2 DEF IInv, TypeOK
<1>6. QED
  BY <1>1, <1>3, <1>4, <1>5, LeaveStep

-----------------------------------------------------------------------------
(***************************************************************************)
(* The theorems.                                                           *)
(***************************************************************************)

\* Every step of the store, the publisher and the process keeps IInv.
LEMMA NextIInv == IInv /\ [Next]_vars => IInv'
<1> SUFFICES ASSUME IInv, [Next]_vars PROVE IInv'
  OBVIOUS
<1>1. CASE Open
  BY <1>1, OpenStep
<1>2. CASE Crash
  <2>1. stops' \in Nat
    BY <1>2 DEF Crash, IInv, TypeOK
  <2>2. QED
    BY <1>2, <2>1, HaltStep DEF Crash
<1>3. CASE BeginShutdown
  BY <1>3, BeginShutdownStep
<1>4. CASE CloseStore
  <2>1. stops' \in Nat
    BY <1>4 DEF CloseStore, IInv, TypeOK
  <2>2. QED
    BY <1>4, <2>1, HaltStep DEF CloseStore
<1>5. ASSUME NEW n \in 1 .. MaxPublish, EnqueueCommit(n) PROVE IInv'
  BY <1>5, EnqueueCommitStep
<1>6. CASE EnqueueReturn
  BY <1>6, EnqueueReturnStep
<1>7. CASE \/ Connect \/ Disconnect \/ DeadlineExpires
           \/ FlusherWake \/ FlusherIdle \/ FlusherAwait \/ FlusherExit
  BY <1>7, QuietSteps
<1>8. ASSUME NEW a \in Actors, FlushStep(a) PROVE IInv'
  BY <1>8, PeekStep, FailStep, StartPublishStep, PublishSucceedsStep,
     DeleteRowStep, DeleteFailsStep, DeleteReturnStep DEF FlushStep
<1>9. CASE DrainCheck \/ DrainAwait \/ DrainRecheck \/ DrainSleep
  BY <1>9, DrainStep
<1>10. CASE UNCHANGED vars
  <2>1. UNCHANGED <<rows, nextId, events, depth, mu, adding, unanswered,
                    delivered, acked, proc, mark, batch, stops, drained, pc>>
        /\ (expired => expired')
    BY <1>10 DEF vars, storeVars, linkVars, procVars
  <2>2. stops' \in Nat /\ wake' \in BOOLEAN /\ connected' \in BOOLEAN /\ expired' \in BOOLEAN
    BY <1>10 DEF vars, storeVars, linkVars, procVars, IInv, TypeOK
  <2>3. QED
    BY <2>1, <2>2, QuietStep
<1>11. QED
  BY <1>1, <1>2, <1>3, <1>4, <1>5, <1>6, <1>7, <1>8, <1>9, <1>10 DEF Next

\* IInv holds in every reachable state.
LEMMA Inductive == Spec => []IInv
BY InitIInv, NextIInv, PTL DEF Spec

\* Type correctness of the outbox, for every capacity, batch size and bound.
THEOREM TypeCorrect == Spec => []TypeOK
<1>1. IInv => TypeOK
  BY DEF IInv
<1>2. QED
  BY <1>1, Inductive, PTL

\* No committed event is ever lost: the durability promise of store.go and
\* buffered.go, with crashes, failed deletes and overlapping flushes.
THEOREM NothingLost == Spec => []NoLoss
<1>1. IInv => NoLoss
  <2> SUFFICES ASSUME IInv, NEW e \in 1 .. events
               PROVE  e \in acked \/ \E i \in DOMAIN rows : rows[i] = e
    BY DEF NoLoss
  <2>1. e \in DOMAIN rows => rows[e] = e
    BY DEF IInv, Numbering
  <2>2. QED
    BY <2>1 DEF IInv
<1>2. QED
  BY <1>1, Inductive, PTL

\* flushOnce never lets an event overtake an earlier one on first delivery.
THEOREM DeliveredInOrder == Spec => []FirstDeliveryInOrder
<1>1. IInv => FirstDeliveryInOrder
  BY DEF IInv
<1>2. QED
  BY <1>1, Inductive, PTL

\* Whenever mu is free the depth counter of store.go is the row count plus the
\* DELETEs of this process that took effect but were answered with an error:
\* exact while the collector runs, never too low, and the table never exceeds
\* max_entries.
THEOREM DepthCorrect == Spec => []DepthIsRowCount
<1>1. IInv => DepthIsRowCount
  <2> SUFFICES ASSUME IInv PROVE DepthIsRowCount
    OBVIOUS
  <2>1. Cardinality(DOMAIN rows) \in Nat /\ Cardinality(unanswered) \in Nat
    BY RowsFinite, UnansweredFinite DEF IInv
  <2>2. proc = "running" => unanswered = {}
    BY AllAnswered DEF IInv
  <2>3. QED
    BY <2>1, <2>2 DEF IInv, Accounting, DepthIsRowCount, Actors
<1>2. QED
  BY <1>1, Inductive, PTL

\* A Drain that returned nil has handed over everything accepted before
\* shutdown, although it reads the depth without Store.mu.
THEOREM DrainCorrect == Spec => []DrainSound
<1>1. IInv => DrainSound
  BY DEF IInv, DrainInv, DrainSound
<1>2. QED
  BY <1>1, Inductive, PTL

-----------------------------------------------------------------------------
(***************************************************************************)
(* Refinement of the abstract queue.                                       *)
(***************************************************************************)

\* Under IInv the abstract queue's pending events are the ids of the rows.
LEMMA PendingIsRows ==
  ASSUME IInv
  PROVE  {rows[i] : i \in DOMAIN rows} = DOMAIN rows
BY DEF IInv, Numbering

\* The empty outbox is the empty abstract queue.
LEMMA QueueInit == Init => Queue!Init
BY DEF Init, Queue!Init, NoRows

\* Every step of the outbox is an abstract Accept, Deliver, Forget or stutter.
LEMMA QueueStep == IInv /\ IInv' /\ [Next]_vars => [Queue!Next]_(Queue!vars)
<1> SUFFICES ASSUME IInv, IInv', [Next]_vars PROVE [Queue!Next]_(Queue!vars)
  OBVIOUS
<1> DEFINE pending == {rows[i] : i \in DOMAIN rows}
<1>1. pending = DOMAIN rows /\ pending' = DOMAIN rows'
  BY PendingIsRows DEF IInv, Numbering
<1>2. CASE UNCHANGED <<rows, events, delivered, acked>>
  BY <1>2 DEF Queue!vars
<1>3. ASSUME NEW n \in 1 .. MaxPublish, EnqueueCommit(n) PROVE Queue!Next
  <2>1. n \in Nat \ {0} /\ events \in Nat /\ nextId = events + 1
    BY OutboxAssumption DEF IInv, TypeOK, Numbering
  <2>2. DOMAIN rows' = DOMAIN rows \cup (nextId .. nextId + n - 1)
    BY <1>3 DEF EnqueueCommit, FirstNewId
  <2>3. events' = events + n /\ UNCHANGED <<delivered, acked>>
    BY <1>3 DEF EnqueueCommit, linkVars
  <2>4. pending' = pending \cup (events + 1 .. events')
    <3>1. nextId + n - 1 = events + n
      BY <2>1
    <3>2. DOMAIN rows' = DOMAIN rows \cup (events + 1 .. events')
      BY <2>1, <2>2, <2>3, <3>1
    <3> HIDE DEF pending
    <3>3. QED
      BY <1>1, <3>2
  <2>5. Queue!Accept
    BY <2>1, <2>3, <2>4 DEF Queue!Accept
  <2>6. QED
    BY <2>5 DEF Queue!Next
<1>4. ASSUME NEW a \in Actors, PublishSucceeds(a) PROVE Queue!Next
  <2>1. pc[a] = "puback" /\ UNCHANGED <<rows, events>>
        /\ delivered' = delivered \cup {batch[a][Current(a)]}
        /\ acked' = acked \cup {batch[a][Current(a)]}
    BY <1>4 DEF PublishSucceeds, At, storeVars
  <2>2. /\ batch[a][Current(a)] = Current(a) /\ Current(a) \in 1 .. events
        /\ \A f \in 1 .. Current(a) - 1 : f \in delivered
    BY <2>1, CurrentInOrder
  <2>3. Queue!Deliver(Current(a), TRUE)
    BY <2>1, <2>2 DEF Queue!Deliver
  <2>4. QED
    BY <2>2, <2>3 DEF Queue!Next
<1>5. ASSUME NEW a \in Actors, PublishFails(a) PROVE [Queue!Next]_(Queue!vars)
  <2>1. pc[a] = "puback" /\ UNCHANGED <<rows, events, acked>>
    BY <1>5 DEF PublishFails, At, storeVars
  <2>2. CASE delivered' = delivered
    BY <2>1, <2>2, <1>2
  <2>3. CASE delivered' = delivered \cup {batch[a][Current(a)]}
    <3>1. /\ batch[a][Current(a)] = Current(a) /\ Current(a) \in 1 .. events
          /\ \A f \in 1 .. Current(a) - 1 : f \in delivered
      BY <2>1, CurrentInOrder
    <3>2. Queue!Deliver(Current(a), FALSE)
      BY <2>1, <2>3, <3>1 DEF Queue!Deliver
    <3>3. QED
      BY <3>1, <3>2 DEF Queue!Next
  <2>4. QED
    BY <1>5, <2>2, <2>3 DEF PublishFails
<1>6. ASSUME NEW a \in Actors, DeleteRow(a) \/ DeleteFails(a)
      PROVE  [Queue!Next]_(Queue!vars)
  <2>1. pc[a] = "delete" /\ UNCHANGED <<events, acked, delivered>>
    BY <1>6 DEF DeleteRow, DeleteFails, At, linkVars
  <2>2. CASE rows' = rows
    BY <2>1, <2>2, <1>2
  <2>3. CASE rows' # rows
    <3>1. Current(a) \in DOMAIN rows /\ DOMAIN rows' = DOMAIN rows \ {Current(a)}
      BY <1>6, <2>3 DEF DeleteRow, DeleteFails, WithoutRow
    <3>2. Current(a) \in acked
      BY <2>1 DEF IInv, BatchInv
    <3>3. PICK c : c = Current(a)
      OBVIOUS
    <3>4. c \in acked /\ c \in pending /\ pending' = pending \ {c}
      BY <1>1, <3>1, <3>2, <3>3
    <3>5. Queue!Forget(c)
      BY <2>1, <3>4 DEF Queue!Forget
    <3>6. QED
      BY <3>4, <3>5 DEF Queue!Next
  <2>4. QED
    BY <2>2, <2>3
<1>7. QED
  <2>1. ASSUME NEW a \in Actors, FlushStep(a) PROVE [Queue!Next]_(Queue!vars)
    <3>1. CASE PeekOldest(a) \/ PeekFails(a) \/ StartPublish(a) \/ DeleteReturn(a)
      <4>1. UNCHANGED <<rows, events, delivered, acked>>
        BY <3>1 DEF PeekOldest, PeekFails, StartPublish, DeleteReturn,
                    storeVars, linkVars
      <4>2. QED
        BY <4>1, <1>2
    <3>2. QED
      BY <2>1, <3>1, <1>4, <1>5, <1>6 DEF FlushStep
  <2>2. CASE \/ Open \/ Crash \/ BeginShutdown \/ DeadlineExpires \/ CloseStore
             \/ EnqueueReturn \/ Connect \/ Disconnect
    BY <2>2, <1>2 DEF Open, Crash, Halt, BeginShutdown, DeadlineExpires,
         CloseStore, EnqueueReturn, Connect, Disconnect, storeVars, linkVars
  <2>3. CASE \/ FlusherWake \/ FlusherIdle \/ FlusherAwait \/ FlusherExit
             \/ DrainCheck \/ DrainAwait \/ DrainRecheck \/ DrainSleep
             \/ UNCHANGED vars
    BY <2>3, <1>2 DEF FlusherWake, FlusherIdle, FlusherAwait, FlusherExit,
         DrainCheck, DrainAwait, DrainRecheck, DrainSleep, storeVars, linkVars, vars
  <2>4. QED
    BY <1>3, <2>1, <2>2, <2>3 DEF Next

\* The detailed outbox implements the abstract at-least-once queue.
THEOREM OutboxRefinesQueue == Spec => ImplementsQueue
<1>1. Spec => [][Queue!Next]_(Queue!vars)
  BY Inductive, QueueStep, PTL DEF Spec
<1>2. QED
  BY <1>1, QueueInit, PTL DEF ImplementsQueue, Queue!Spec, Spec
=============================================================================
