------------------------- MODULE DiscoveryScanProofs -------------------------
(***************************************************************************)
(* Proofs about DiscoveryScan for any policies, probe rate, burst and pool *)
(* of workers: the workers together respect the rate, a result that says   *)
(* so is whole, and progress is about the scan that runs.                  *)
(***************************************************************************)
EXTENDS DiscoveryScan, FiniteSetTheorems, TLAPS

-----------------------------------------------------------------------------
(***************************************************************************)
(* The inductive invariant.                                                *)
(***************************************************************************)
Full == Burst * Interval

Waiting(r) == {t \in DOMAIN r.jobs : r.jobs[t].phase = "waiting"}

\* The workers that the bucket has let go at time T, or earlier.
Due(r, T) == {t \in Waiting(r) : r.jobs[t].at <= T}

IsScan(r) ==
  \E D \in SUBSET r.targets :
    r \in [pc : {"none", "scanning", "finished", "done", "lost"},
           conn : Conns \cup {"none"}, targets : SUBSET Nat, todo : SUBSET Nat,
           jobs : [D -> Job], results : SUBSET Nat, probed : Nat, probes : Nat,
           expired : BOOLEAN, credit : Int, last : Nat]

\* Every target is left to do, with a worker, or has a result, unless the
\* context has ended.
Whole(r) ==
  /\ r.todo \subseteq r.targets
  /\ DOMAIN r.jobs \subseteq r.targets \ r.todo
  /\ r.results \subseteq r.targets \ r.todo
  /\ r.pc # "scanning" => r.todo = {} /\ DOMAIN r.jobs = {}
  /\ r.pc \in {"scanning", "finished"} /\ r.expired = FALSE =>
       r.targets \subseteq r.todo \cup DOMAIN r.jobs \cup r.results

\* The workers that have a result count it once.
Counted(r) ==
  /\ IsFiniteSet(r.results)
  /\ r.probed = Cardinality(r.results)
  /\ \A t \in DOMAIN r.jobs :
       /\ r.jobs[t].phase = "reporting" => t \in r.results /\ r.jobs[t].n <= r.probed
       /\ t \in r.results => r.jobs[t].phase = "reporting"

\* What a worker has reserved is still in the credit, and of those that wait only
\* as many are due at a time as the bucket has refilled by then.
Rate(r, n) ==
  /\ IsFiniteSet(Waiting(r))
  /\ r.credit + (r.probes + Cardinality(Waiting(r))) * Interval <= Full + r.last
  /\ \A T \in Nat : n <= T =>
       (r.probes + Cardinality(Due(r, T))) * Interval <= Full + T

ScanOK(r, n) ==
  /\ IsScan(r)
  /\ r.targets = {} \/ \E p \in Policies : r.targets = Expand(p)
  /\ r.credit <= IF r.probes = 0 THEN Full ELSE Full - Interval
  /\ DOMAIN r.jobs # {} => r.credit <= Full - Interval
  /\ Whole(r)
  /\ Counted(r)
  /\ r.pc = "scanning" => Rate(r, n)

TypesInv ==
  /\ serving \in BOOLEAN
  /\ conn \in [Conns -> {"closed", "open", "waiting"}]
  /\ scanState \in [running : BOOLEAN, started : 0 .. MaxScans, total : Nat,
                    probed : Nat, err : BOOLEAN]
  /\ now \in Nat
  /\ crashes \in 0 .. MaxCrashes
  /\ DOMAIN scan = ScanIds

\* At most one scan runs, the one that scanState is about.
ScansInv ==
  \A s \in ScanIds :
    /\ ScanOK(scan[s], now)
    /\ Scanning(s) => scanState.running = TRUE /\ scanState.started = s

ProgressInv ==
  scanState.running = TRUE =>
    /\ scanState.started \in ScanIds
    /\ scan[scanState.started].pc = "scanning"
    /\ scanState.total = Cardinality(scan[scanState.started].targets)
    /\ scanState.probed <= scan[scanState.started].probed

\* What is stored is the result of a scan that is over.
StoredInv ==
  /\ stored.started \in 0 .. MaxScans
  /\ stored.err \in BOOLEAN
  /\ stored.candidates \subseteq UNION {Expand(p) : p \in Policies}
  /\ stored.started # 0 =>
       /\ scan[stored.started].pc = "done"
       /\ stored.err = FALSE => stored.candidates = scan[stored.started].targets

IInv == TypesInv /\ ScansInv /\ ProgressInv /\ StoredInv

-----------------------------------------------------------------------------
(***************************************************************************)
(* The token bucket.                                                       *)
(***************************************************************************)

LEMMA MinOfTwo ==
  ASSUME NEW a \in Int, NEW b \in Int
  PROVE  Min({a, b}) \in Int /\ Min({a, b}) <= a /\ Min({a, b}) <= b
<1>1. \E x \in {a, b} : \A y \in {a, b} : x <= y
  OBVIOUS
<1>2. Min({a, b}) \in {a, b} /\ \A y \in {a, b} : Min({a, b}) <= y
  BY <1>1 DEF Min
<1> QED BY <1>2

LEMMA MaxOfTwo ==
  ASSUME NEW a \in Int, NEW b \in Int
  PROVE  Max({a, b}) \in {a, b} /\ Max({a, b}) >= a /\ Max({a, b}) >= b
<1>1. \E x \in {a, b} : \A y \in {a, b} : x >= y
  <2>1. CASE a >= b
    BY <2>1
  <2>2. CASE ~(a >= b)
    BY <2>2
  <2> QED BY <2>1, <2>2
<1>2. Max({a, b}) \in {a, b} /\ \A y \in {a, b} : Max({a, b}) >= y
  BY <1>1 DEF Max
<1> QED BY <1>2

LEMMA FullIs ==
  /\ Interval \in Nat \ {0} /\ Full \in Nat /\ Interval <= Full
  /\ Burst * Interval = Full /\ (Burst - 1) * Interval = Full - Interval
<1>1. Interval \in Nat \ {0} /\ Burst \in Nat \ {0}
  BY ScanAssumption
<1>2. PICK b \in Nat : Burst = b + 1
  <2>1. Burst - 1 \in Nat /\ Burst = (Burst - 1) + 1
    BY <1>1
  <2> QED BY <2>1
<1>3. b * Interval \in Nat
  BY <1>1
<1>4. (b + 1) * Interval = b * Interval + Interval
  BY <1>1
<1> QED BY <1>1, <1>2, <1>3, <1>4 DEF Full

LEMMA Times ==
  /\ \A n \in Nat : n * Interval \in Nat
  /\ \A n \in Nat : (n + 1) * Interval = n * Interval + Interval
  /\ \A n \in Nat, m \in Nat : n <= m => n * Interval <= m * Interval
<1> Interval \in Nat
  BY ScanAssumption
<1>1. ASSUME NEW n \in Nat, NEW i \in Nat
      PROVE  n * i \in Nat /\ (n + 1) * i = n * i + i
  OBVIOUS
<1>2. ASSUME NEW n \in Nat, NEW m \in Nat, NEW i \in Nat, n <= m
      PROVE  n * i <= m * i
  <2>1. PICK d \in Nat : m = n + d
    <3>1. m - n \in Nat /\ m = n + (m - n)
      BY <1>2
    <3> QED BY <3>1
  <2>2. d * i \in Nat /\ n * i \in Nat
    OBVIOUS
  <2>3. (n + d) * i = n * i + d * i
    OBVIOUS
  <2> QED BY <2>1, <2>2, <2>3
<1> QED BY <1>1, <1>2

\* A reservation pays one token of what the bucket holds, and waits for as long
\* as the bucket is then in debt.
LEMMA ReserveIs ==
  ASSUME NEW r, r.credit \in Int, r.last \in Nat, now \in Nat
  PROVE  /\ Reserve(r).credit \in Int
         /\ Reserve(r).credit <= Full - Interval
         /\ Reserve(r).credit <= r.credit + (now - r.last) - Interval
         /\ Reserve(r).delay \in Nat
         /\ Reserve(r).delay >= -Reserve(r).credit
<1> DEFINE m == Min({r.credit + (now - r.last), Burst * Interval})
           d == Max({-(m - Interval), 0})
<1>1. /\ m \in Int /\ m <= r.credit + (now - r.last) /\ m <= Full
  <2>1. r.credit + (now - r.last) \in Int /\ Burst * Interval \in Int
    BY FullIs
  <2> QED BY <2>1, MinOfTwo, FullIs
<1>2. Reserve(r) = [credit |-> m - Interval, delay |-> d]
  BY DEF Reserve
<1>3. m - Interval \in Int /\ -(m - Interval) \in Int
  BY <1>1, FullIs
<1>4. d \in Nat /\ d >= -(m - Interval)
  <2>1. PICK x \in Int : x = -(m - Interval)
    BY <1>3
  <2>2. d = Max({x, 0})
    BY <2>1
  <2>3. Max({x, 0}) \in {x, 0} /\ Max({x, 0}) >= x /\ Max({x, 0}) >= 0
    <3>1. 0 \in Int
      OBVIOUS
    <3> HIDE DEF d, m
    <3> QED BY <2>1, <3>1, MaxOfTwo
  <2> HIDE DEF d, m
  <2> QED BY <2>1, <2>2, <2>3
<1>5. Reserve(r).credit = m - Interval /\ Reserve(r).delay = d
  BY <1>2
<1> HIDE DEF m, d
<1> QED BY <1>1, <1>3, <1>4, <1>5, FullIs

-----------------------------------------------------------------------------
(***************************************************************************)
(* Steps of a scan.                                                        *)
(***************************************************************************)

\* The fields of a scan, one by one.
LEMMA ScanFields ==
  ASSUME NEW r, IsScan(r)
  PROVE  /\ r.pc \in {"none", "scanning", "finished", "done", "lost"}
         /\ r.conn \in Conns \cup {"none"}
         /\ r.targets \in SUBSET Nat /\ r.todo \in SUBSET Nat
         /\ r.results \in SUBSET Nat
         /\ DOMAIN r.jobs \in SUBSET r.targets /\ r.jobs \in [DOMAIN r.jobs -> Job]
         /\ r.probed \in Nat /\ r.probes \in Nat
         /\ r.expired \in BOOLEAN
         /\ r.credit \in Int /\ r.last \in Nat
BY DEF IsScan

LEMMA WithJobIs ==
  ASSUME NEW r, IsScan(r), NEW t \in r.targets, NEW j \in Job
  PROVE  /\ DOMAIN WithJob(r.jobs, t, j) = DOMAIN r.jobs \cup {t}
         /\ WithJob(r.jobs, t, j)[t] = j
         /\ \A x \in DOMAIN r.jobs \ {t} : WithJob(r.jobs, t, j)[x] = r.jobs[x]
         /\ WithJob(r.jobs, t, j) \in [DOMAIN r.jobs \cup {t} -> Job]
BY ScanFields DEF WithJob

LEMMA WithoutJobIs ==
  ASSUME NEW r, IsScan(r), NEW t
  PROVE  /\ DOMAIN WithoutJob(r.jobs, t) = DOMAIN r.jobs \ {t}
         /\ \A x \in DOMAIN r.jobs \ {t} : WithoutJob(r.jobs, t)[x] = r.jobs[x]
         /\ WithoutJob(r.jobs, t) \in [DOMAIN r.jobs \ {t} -> Job]
BY ScanFields DEF WithoutJob

\* A worker goes to the bucket.
LEMMA TakeKeeps ==
  ASSUME NEW r, ScanOK(r, now), now \in Nat, r.pc = "scanning", NEW t \in r.todo,
         NEW q, q = [r EXCEPT !.todo = @ \ {t}, !.credit = Reserve(r).credit,
                              !.last = now,
                              !.jobs = WithJob(@, t, [phase |-> "waiting",
                                                      at |-> now + Reserve(r).delay])]
  PROVE  ScanOK(q, now) /\ q.pc = "scanning" /\ q.targets = r.targets /\ q.probed = r.probed
<1> DEFINE j == [phase |-> "waiting", at |-> now + Reserve(r).delay]
           jobs == WithJob(r.jobs, t, j)
<1>1. /\ IsScan(r) /\ Whole(r) /\ Counted(r) /\ Rate(r, now)
      /\ r.credit \in Int /\ r.last \in Nat /\ r.probes \in Nat
      /\ t \in r.targets /\ t \notin DOMAIN r.jobs /\ t \notin r.results
  BY ScanFields DEF ScanOK, Whole
<1>2. j \in Job /\ j.phase = "waiting" /\ j.at = now + Reserve(r).delay
  <2>1. now + Reserve(r).delay \in Nat
    BY <1>1, ReserveIs
  <2> QED BY <2>1 DEF Job
<1> HIDE DEF j
<1>3. /\ DOMAIN jobs = DOMAIN r.jobs \cup {t} /\ jobs[t] = j
      /\ \A x \in DOMAIN r.jobs : jobs[x] = r.jobs[x]
      /\ jobs \in [DOMAIN r.jobs \cup {t} -> Job]
  <2>1. /\ DOMAIN WithJob(r.jobs, t, j) = DOMAIN r.jobs \cup {t}
        /\ WithJob(r.jobs, t, j)[t] = j
        /\ \A x \in DOMAIN r.jobs \ {t} : WithJob(r.jobs, t, j)[x] = r.jobs[x]
        /\ WithJob(r.jobs, t, j) \in [DOMAIN r.jobs \cup {t} -> Job]
    BY <1>1, <1>2, WithJobIs
  <2> QED BY <1>1, <2>1
<1> HIDE DEF jobs
<1>4. q = [r EXCEPT !.todo = r.todo \ {t}, !.credit = Reserve(r).credit,
                    !.last = now, !.jobs = jobs]
  BY DEF j, jobs
<1>5. /\ q.pc = "scanning" /\ q.conn = r.conn /\ q.targets = r.targets
      /\ q.todo = r.todo \ {t} /\ q.jobs = jobs /\ q.results = r.results
      /\ q.probed = r.probed /\ q.probes = r.probes /\ q.expired = r.expired
      /\ q.credit = Reserve(r).credit /\ q.last = now
      /\ IsScan(q)
  <2>1. Reserve(r).credit \in Int
    BY <1>1, ReserveIs
  <2>2. PICK D \in SUBSET r.targets :
          r \in [pc : {"none", "scanning", "finished", "done", "lost"},
                 conn : Conns \cup {"none"}, targets : SUBSET Nat, todo : SUBSET Nat,
                 jobs : [D -> Job], results : SUBSET Nat, probed : Nat, probes : Nat,
                 expired : BOOLEAN, credit : Int, last : Nat]
    BY <1>1 DEF IsScan
  <2>3. D = DOMAIN r.jobs /\ D \cup {t} \in SUBSET r.targets
    BY <1>1, <2>2
  <2>4. q \in [pc : {"none", "scanning", "finished", "done", "lost"},
               conn : Conns \cup {"none"}, targets : SUBSET Nat, todo : SUBSET Nat,
               jobs : [D \cup {t} -> Job], results : SUBSET Nat, probed : Nat,
               probes : Nat, expired : BOOLEAN, credit : Int, last : Nat]
    <3>1. jobs \in [D \cup {t} -> Job]
      BY <1>3, <2>3
    <3>2. r.todo \ {t} \in SUBSET Nat /\ now \in Nat
      BY <2>2
    <3> QED BY <1>4, <2>1, <2>2, <3>1, <3>2
  <2>5. q.targets = r.targets
    BY <1>4, <2>2
  <2>6. IsScan(q)
    BY <2>3, <2>4, <2>5 DEF IsScan
  <2> QED BY <1>4, <2>2, <2>6
<1>6. Whole(q) /\ Counted(q)
  <2>1. Whole(q)
    BY <1>1, <1>3, <1>5 DEF Whole
  <2>2. Counted(q)
    BY <1>1, <1>2, <1>3, <1>5 DEF Counted
  <2> QED BY <2>1, <2>2
<1>7. Rate(q, now)
  <2>1. Waiting(q) = Waiting(r) \cup {t} /\ t \notin Waiting(r)
    BY <1>1, <1>2, <1>3, <1>5 DEF Waiting
  <2>2. /\ IsFiniteSet(Waiting(r)) /\ IsFiniteSet(Waiting(q))
        /\ Cardinality(Waiting(r)) \in Nat
        /\ Cardinality(Waiting(q)) = Cardinality(Waiting(r)) + 1
    BY <1>1, <2>1, FS_AddElement, FS_CardinalityType DEF Rate
  <2> DEFINE n == r.probes + Cardinality(Waiting(r))
  <2>3. n \in Nat /\ r.probes + Cardinality(Waiting(q)) = n + 1
    BY <1>1, <2>2
  <2>4. r.credit + n * Interval <= Full + r.last
    BY <1>1 DEF Rate
  <2> HIDE DEF n
  <2>5. n * Interval \in Nat /\ (n + 1) * Interval = n * Interval + Interval
    BY <2>3, Times
  <2>6. q.credit \in Int /\ q.credit + (n + 1) * Interval <= Full + now
    BY <1>1, <1>5, <2>4, <2>5, ReserveIs, FullIs
  <2>7. ASSUME NEW T \in Nat, now <= T
        PROVE  (r.probes + Cardinality(Due(q, T))) * Interval <= Full + T
    <3>1. CASE T < j.at
      <4>1. Due(q, T) = Due(r, T)
        <5>1. ~(j.at <= T)
          BY <1>1, <1>2, <3>1, ReserveIs
        <5> QED BY <1>3, <1>5, <2>1, <5>1 DEF Due, Waiting
      <4> QED BY <1>1, <2>7, <4>1 DEF Rate
    <3>2. CASE ~(T < j.at)
      <4>1. -q.credit <= T - now
        BY <1>1, <1>2, <1>5, <3>2, ReserveIs
      <4>2. (n + 1) * Interval <= Full + T
        BY <2>3, <2>5, <2>6, <4>1, FullIs
      <4>3. Due(q, T) \in SUBSET Waiting(q)
        BY DEF Due
      <4>4. /\ Cardinality(Due(q, T)) \in Nat
            /\ Cardinality(Due(q, T)) <= Cardinality(Waiting(q))
        BY <2>2, <4>3, FS_Subset, FS_CardinalityType
      <4> DEFINE k == r.probes + Cardinality(Due(q, T))
      <4>5. k \in Nat /\ k <= n + 1
        BY <1>1, <2>2, <2>3, <4>4
      <4> HIDE DEF k
      <4>6. k * Interval <= (n + 1) * Interval
        <5>1. n + 1 \in Nat
          BY <2>3
        <5> QED BY <4>5, <5>1, Times
      <4>7. k * Interval \in Nat /\ (n + 1) * Interval \in Nat
        BY <2>3, <2>5, <4>5, Times, FullIs
      <4>8. k * Interval <= Full + T
        BY <4>2, <4>6, <4>7, FullIs
      <4> QED BY <4>8 DEF k
    <3> QED BY <3>1, <3>2
  <2> QED BY <1>5, <2>2, <2>3, <2>6, <2>7 DEF Rate
<1>8. q.credit <= Full - Interval
  BY <1>1, <1>5, ReserveIs
<1>9. q.credit <= Full
  BY <1>1, <1>5, <1>8, ReserveIs, FullIs
<1> QED BY <1>5, <1>6, <1>7, <1>8, <1>9 DEF ScanOK

\* The sender or a worker drops targets because the context has ended.
LEMMA DropKeeps ==
  ASSUME NEW r, ScanOK(r, now), r.pc = "scanning", r.expired = TRUE,
         NEW T \in SUBSET r.todo, NEW q, q = [r EXCEPT !.todo = T]
  PROVE  ScanOK(q, now) /\ q.pc = "scanning" /\ q.targets = r.targets /\ q.probed = r.probed
<1>1. IsScan(r) /\ Whole(r) /\ Counted(r) /\ Rate(r, now)
  BY DEF ScanOK
<1>2. /\ q.pc = "scanning" /\ q.targets = r.targets /\ q.todo = T
      /\ q.jobs = r.jobs /\ q.results = r.results /\ q.probed = r.probed
      /\ q.probes = r.probes /\ q.expired = r.expired /\ q.credit = r.credit
      /\ q.last = r.last
      /\ IsScan(q)
  <2>1. T \in SUBSET Nat
    BY <1>1, ScanFields
  <2> QED BY <1>1, <2>1 DEF IsScan
<1>3. Whole(q) /\ Counted(q)
  BY <1>1, <1>2 DEF Whole, Counted
<1>4. Waiting(q) = Waiting(r) /\ \A t \in Nat : Due(q, t) = Due(r, t)
  BY <1>2 DEF Waiting, Due
<1>5. Rate(q, now)
  BY <1>1, <1>2, <1>4 DEF Rate
<1> QED BY <1>2, <1>3, <1>5 DEF ScanOK

\* The context of the scan ends.
LEMMA ExpireKeeps ==
  ASSUME NEW r, ScanOK(r, now), r.pc = "scanning",
         NEW q, q = [r EXCEPT !.expired = TRUE]
  PROVE  ScanOK(q, now) /\ q.pc = "scanning" /\ q.targets = r.targets /\ q.probed = r.probed
<1>1. IsScan(r) /\ Whole(r) /\ Counted(r) /\ Rate(r, now)
  BY DEF ScanOK
<1>2. /\ q.pc = "scanning" /\ q.targets = r.targets /\ q.todo = r.todo
      /\ q.jobs = r.jobs /\ q.results = r.results /\ q.probed = r.probed
      /\ q.probes = r.probes /\ q.credit = r.credit /\ q.last = r.last
      /\ IsScan(q)
  BY <1>1 DEF IsScan
<1>3. q.expired = TRUE
  BY <1>1 DEF IsScan
<1>4. Whole(q) /\ Counted(q)
  BY <1>1, <1>2, <1>3 DEF Whole, Counted
<1>5. Waiting(q) = Waiting(r) /\ \A t \in Nat : Due(q, t) = Due(r, t)
  BY <1>2 DEF Waiting, Due
<1>6. Rate(q, now)
  BY <1>1, <1>2, <1>5 DEF Rate
<1> QED BY <1>2, <1>4, <1>6 DEF ScanOK

\* The bucket lets a worker go: what was due is now a probe.
LEMMA GoKeeps ==
  ASSUME NEW r, ScanOK(r, now), now \in Nat, r.pc = "scanning", NEW t \in DOMAIN r.jobs,
         r.jobs[t].phase = "waiting", now >= r.jobs[t].at,
         NEW q, q = [r EXCEPT !.jobs = WithJob(@, t, [phase |-> "probing", at |-> now]),
                              !.probes = @ + 1]
  PROVE  ScanOK(q, now) /\ q.pc = "scanning" /\ q.targets = r.targets /\ q.probed = r.probed
<1> DEFINE j == [phase |-> "probing", at |-> now]
           jobs == WithJob(r.jobs, t, j)
<1>1. /\ IsScan(r) /\ Whole(r) /\ Counted(r) /\ Rate(r, now)
      /\ r.probes \in Nat /\ r.credit \in Int /\ r.last \in Nat
      /\ t \in r.targets /\ r.jobs[t] \in Job
  BY ScanFields DEF ScanOK
<1>2. j \in Job /\ j.phase = "probing"
  BY DEF Job
<1> HIDE DEF j
<1>3. /\ DOMAIN jobs = DOMAIN r.jobs /\ jobs[t] = j
      /\ \A x \in DOMAIN r.jobs \ {t} : jobs[x] = r.jobs[x]
      /\ jobs \in [DOMAIN r.jobs -> Job]
  <2>1. /\ DOMAIN WithJob(r.jobs, t, j) = DOMAIN r.jobs \cup {t}
        /\ WithJob(r.jobs, t, j)[t] = j
        /\ \A x \in DOMAIN r.jobs \ {t} : WithJob(r.jobs, t, j)[x] = r.jobs[x]
        /\ WithJob(r.jobs, t, j) \in [DOMAIN r.jobs \cup {t} -> Job]
    BY <1>1, <1>2, WithJobIs
  <2>2. DOMAIN r.jobs \cup {t} = DOMAIN r.jobs
    OBVIOUS
  <2> QED BY <2>1, <2>2
<1> HIDE DEF jobs
<1>4. q = [r EXCEPT !.jobs = jobs, !.probes = r.probes + 1]
  BY DEF j, jobs
<1>5. /\ q.pc = "scanning" /\ q.targets = r.targets /\ q.todo = r.todo
      /\ q.jobs = jobs /\ q.results = r.results /\ q.probed = r.probed
      /\ q.probes = r.probes + 1 /\ q.expired = r.expired /\ q.credit = r.credit
      /\ q.last = r.last
      /\ IsScan(q)
  <2>1. r.probes + 1 \in Nat
    BY <1>1
  <2> QED BY <1>1, <1>3, <1>4, <2>1 DEF IsScan
<1>6. Whole(q)
  BY <1>1, <1>3, <1>5 DEF Whole
<1>7. Counted(q)
  BY <1>1, <1>2, <1>3, <1>5 DEF Counted
<1>8. Rate(q, now)
  <2>1. Waiting(q) = Waiting(r) \ {t} /\ t \in Waiting(r)
    BY <1>1, <1>2, <1>3, <1>5 DEF Waiting
  <2>2. /\ IsFiniteSet(Waiting(q))
        /\ Cardinality(Waiting(r)) \in Nat
        /\ Cardinality(Waiting(q)) = Cardinality(Waiting(r)) - 1
    BY <1>1, <2>1, FS_RemoveElement, FS_CardinalityType DEF Rate
  <2>3. q.probes + Cardinality(Waiting(q)) = r.probes + Cardinality(Waiting(r))
    BY <1>1, <1>5, <2>2
  <2>4. ASSUME NEW T \in Nat, now <= T
        PROVE  (q.probes + Cardinality(Due(q, T))) * Interval <= Full + T
    <3>1. r.jobs[t].at \in Nat
      BY <1>1 DEF Job
    <3>2. t \in Due(r, T)
      BY <2>1, <2>4, <3>1 DEF Due
    <3>3. Due(q, T) = Due(r, T) \ {t}
      BY <1>3, <1>5, <2>1 DEF Due, Waiting
    <3>4. Due(r, T) \in SUBSET Waiting(r)
      BY DEF Due
    <3>5. IsFiniteSet(Due(r, T)) /\ Cardinality(Due(r, T)) \in Nat
      BY <1>1, <3>4, FS_Subset, FS_CardinalityType DEF Rate
    <3>6. Cardinality(Due(q, T)) = Cardinality(Due(r, T)) - 1
      BY <3>2, <3>3, <3>5, FS_RemoveElement
    <3>7. q.probes + Cardinality(Due(q, T)) = r.probes + Cardinality(Due(r, T))
      BY <1>1, <1>5, <3>5, <3>6
    <3> QED BY <1>1, <2>4, <3>7 DEF Rate
  <2> QED BY <1>1, <1>5, <2>2, <2>3, <2>4 DEF Rate
<1>9. q.credit <= Full - Interval
  BY <1>1, <1>5 DEF ScanOK
<1>10. q.credit <= Full
  BY <1>1, <1>5, <1>9, FullIs
<1> QED BY <1>5, <1>6, <1>7, <1>8, <1>9, <1>10 DEF ScanOK

\* A worker is done with its target, by giving up its wait or by its report.
LEMMA LeaveKeeps ==
  ASSUME NEW r, ScanOK(r, now), now \in Nat, r.pc = "scanning", NEW t \in DOMAIN r.jobs,
         \/ r.jobs[t].phase = "waiting" /\ r.expired = TRUE
         \/ r.jobs[t].phase = "reporting",
         NEW q, q = [r EXCEPT !.jobs = WithoutJob(@, t)]
  PROVE  ScanOK(q, now) /\ q.pc = "scanning" /\ q.targets = r.targets /\ q.probed = r.probed
<1> DEFINE jobs == WithoutJob(r.jobs, t)
<1>1. /\ IsScan(r) /\ Whole(r) /\ Counted(r) /\ Rate(r, now)
      /\ r.probes \in Nat /\ r.credit \in Int /\ r.last \in Nat
  BY ScanFields DEF ScanOK
<1>2. /\ DOMAIN jobs = DOMAIN r.jobs \ {t}
      /\ \A x \in DOMAIN r.jobs \ {t} : jobs[x] = r.jobs[x]
      /\ jobs \in [DOMAIN r.jobs \ {t} -> Job]
  BY <1>1, WithoutJobIs
<1>3. q = [r EXCEPT !.jobs = jobs]
  OBVIOUS
<1> HIDE DEF jobs
<1>4. /\ q.pc = "scanning" /\ q.targets = r.targets /\ q.todo = r.todo
      /\ q.jobs = jobs /\ q.results = r.results /\ q.probed = r.probed
      /\ q.probes = r.probes /\ q.expired = r.expired /\ q.credit = r.credit
      /\ q.last = r.last
      /\ IsScan(q)
  BY <1>1, <1>2, <1>3 DEF IsScan
<1>5. r.expired = FALSE => t \in r.results
  BY <1>1 DEF Counted
<1>6. Whole(q)
  BY <1>1, <1>2, <1>4, <1>5 DEF Whole
<1>7. Counted(q)
  BY <1>1, <1>2, <1>4 DEF Counted
<1>8. Rate(q, now)
  <2>1. Waiting(q) \in SUBSET Waiting(r)
    BY <1>2, <1>4 DEF Waiting
  <2>2. /\ IsFiniteSet(Waiting(q)) /\ Cardinality(Waiting(q)) \in Nat
        /\ Cardinality(Waiting(r)) \in Nat
        /\ Cardinality(Waiting(q)) <= Cardinality(Waiting(r))
    BY <1>1, <2>1, FS_Subset, FS_CardinalityType DEF Rate
  <2>3. /\ r.probes + Cardinality(Waiting(q)) \in Nat
        /\ r.probes + Cardinality(Waiting(r)) \in Nat
        /\ r.probes + Cardinality(Waiting(q)) <= r.probes + Cardinality(Waiting(r))
    BY <1>1, <2>2
  <2>4. /\ (r.probes + Cardinality(Waiting(q))) * Interval
             <= (r.probes + Cardinality(Waiting(r))) * Interval
        /\ (r.probes + Cardinality(Waiting(q))) * Interval \in Nat
        /\ (r.probes + Cardinality(Waiting(r))) * Interval \in Nat
    BY <2>3, Times
  <2>5. r.credit + (r.probes + Cardinality(Waiting(q))) * Interval <= Full + r.last
    BY <1>1, <2>4, FullIs DEF Rate
  <2>6. ASSUME NEW T \in Nat, now <= T
        PROVE  (r.probes + Cardinality(Due(q, T))) * Interval <= Full + T
    <3>1. Due(r, T) \in SUBSET Waiting(r) /\ Due(q, T) \in SUBSET Due(r, T)
      BY <1>2, <1>4, <2>1 DEF Due, Waiting
    <3>2. IsFiniteSet(Due(r, T)) /\ Cardinality(Due(r, T)) \in Nat
      BY <1>1, <3>1, FS_Subset, FS_CardinalityType DEF Rate
    <3>3. /\ Cardinality(Due(q, T)) \in Nat
          /\ Cardinality(Due(q, T)) <= Cardinality(Due(r, T))
      BY <3>1, <3>2, FS_Subset, FS_CardinalityType
    <3>4. /\ r.probes + Cardinality(Due(q, T)) \in Nat
          /\ r.probes + Cardinality(Due(r, T)) \in Nat
          /\ r.probes + Cardinality(Due(q, T)) <= r.probes + Cardinality(Due(r, T))
      BY <1>1, <3>2, <3>3
    <3>5. /\ (r.probes + Cardinality(Due(q, T))) * Interval
               <= (r.probes + Cardinality(Due(r, T))) * Interval
          /\ (r.probes + Cardinality(Due(q, T))) * Interval \in Nat
          /\ (r.probes + Cardinality(Due(r, T))) * Interval \in Nat
      BY <3>4, Times
    <3>6. (r.probes + Cardinality(Due(r, T))) * Interval <= Full + T
      BY <1>1, <2>6 DEF Rate
    <3> QED BY <3>5, <3>6, FullIs
  <2> QED BY <1>4, <2>2, <2>5, <2>6 DEF Rate
<1>9. q.credit <= IF q.probes = 0 THEN Full ELSE Full - Interval
  BY <1>4 DEF ScanOK
<1>10. DOMAIN q.jobs # {} => q.credit <= Full - Interval
  BY <1>2, <1>4 DEF ScanOK
<1> QED BY <1>4, <1>6, <1>7, <1>8, <1>9, <1>10 DEF ScanOK

\* A probe puts its result into the channel and is the next to be counted.
LEMMA ProbeKeeps ==
  ASSUME NEW r, ScanOK(r, now), now \in Nat, r.pc = "scanning", NEW t \in DOMAIN r.jobs,
         r.jobs[t].phase = "probing",
         NEW q, q = [r EXCEPT !.results = @ \cup {t}, !.probed = @ + 1,
                              !.jobs = WithJob(@, t, [phase |-> "reporting",
                                                      n |-> r.probed + 1])]
  PROVE  ScanOK(q, now) /\ q.pc = "scanning" /\ q.targets = r.targets /\ q.probed = r.probed + 1
<1> DEFINE j == [phase |-> "reporting", n |-> r.probed + 1]
           jobs == WithJob(r.jobs, t, j)
<1>1. /\ IsScan(r) /\ Whole(r) /\ Counted(r) /\ Rate(r, now)
      /\ r.probes \in Nat /\ r.credit \in Int /\ r.last \in Nat /\ r.probed \in Nat
      /\ t \in r.targets /\ t \in Nat /\ r.results \in SUBSET Nat
      /\ t \notin r.todo /\ t \notin r.results
  BY ScanFields DEF ScanOK, Whole, Counted
<1>2. j \in Job /\ j.phase = "reporting" /\ j.n = r.probed + 1
  BY <1>1 DEF Job
<1> HIDE DEF j
<1>3. /\ DOMAIN jobs = DOMAIN r.jobs /\ jobs[t] = j
      /\ \A x \in DOMAIN r.jobs \ {t} : jobs[x] = r.jobs[x]
      /\ jobs \in [DOMAIN r.jobs -> Job]
  <2>1. /\ DOMAIN WithJob(r.jobs, t, j) = DOMAIN r.jobs \cup {t}
        /\ WithJob(r.jobs, t, j)[t] = j
        /\ \A x \in DOMAIN r.jobs \ {t} : WithJob(r.jobs, t, j)[x] = r.jobs[x]
        /\ WithJob(r.jobs, t, j) \in [DOMAIN r.jobs \cup {t} -> Job]
    BY <1>1, <1>2, WithJobIs
  <2>2. DOMAIN r.jobs \cup {t} = DOMAIN r.jobs
    OBVIOUS
  <2> QED BY <2>1, <2>2
<1> HIDE DEF jobs
<1>4. q = [r EXCEPT !.results = r.results \cup {t}, !.probed = r.probed + 1,
                    !.jobs = jobs]
  BY DEF j, jobs
<1>5. /\ q.pc = "scanning" /\ q.targets = r.targets /\ q.todo = r.todo
      /\ q.jobs = jobs /\ q.results = r.results \cup {t}
      /\ q.probed = r.probed + 1
      /\ q.probes = r.probes /\ q.expired = r.expired /\ q.credit = r.credit
      /\ q.last = r.last
      /\ IsScan(q)
  <2>1. r.probed + 1 \in Nat /\ r.results \cup {t} \in SUBSET Nat
    BY <1>1
  <2> QED BY <1>1, <1>3, <1>4, <2>1 DEF IsScan
<1>6. Whole(q)
  BY <1>1, <1>3, <1>5 DEF Whole
<1>7. Counted(q)
  <2>1. /\ IsFiniteSet(q.results) /\ q.probed = Cardinality(q.results)
    BY <1>1, <1>5, FS_AddElement DEF Counted
  <2>2. ASSUME NEW x \in DOMAIN q.jobs
        PROVE  /\ q.jobs[x].phase = "reporting" =>
                    x \in q.results /\ q.jobs[x].n <= q.probed
               /\ x \in q.results => q.jobs[x].phase = "reporting"
    <3>1. CASE x = t
      BY <1>1, <1>2, <1>3, <1>5, <3>1
    <3>2. CASE x # t
      <4>1. q.jobs[x] = r.jobs[x] /\ r.jobs[x] \in Job /\ x \in DOMAIN r.jobs
        BY <1>1, <1>3, <1>5, <3>2, ScanFields
      <4>2. r.jobs[x].phase = "reporting" => r.jobs[x].n \in Nat
        BY <4>1 DEF Job
      <4> QED BY <1>1, <1>5, <3>2, <4>1, <4>2 DEF Counted
    <3> QED BY <3>1, <3>2
  <2> QED BY <2>1, <2>2 DEF Counted
<1>8. Waiting(q) = Waiting(r) /\ \A T \in Nat : Due(q, T) = Due(r, T)
  BY <1>1, <1>2, <1>3, <1>5 DEF Waiting, Due
<1>9. Rate(q, now)
  BY <1>1, <1>5, <1>8 DEF Rate
<1>10. DOMAIN q.jobs = DOMAIN r.jobs
  BY <1>3, <1>5
<1> QED BY <1>5, <1>6, <1>7, <1>9, <1>10 DEF ScanOK


LEMMA NoScanFields ==
  /\ NoScan.jobs \in [{} -> Job] /\ DOMAIN NoScan.jobs = {}
  /\ NoScan \in [pc : {"none"}, conn : {"none"}, targets : {{}}, todo : {{}},
                 jobs : [{} -> Job], results : {{}}, probed : {0}, probes : {0},
                 expired : BOOLEAN, credit : {0}, last : {0}]
BY DEF NoScan

\* A scan that has not begun, or that a crash has ended.
LEMMA NoScanIs ==
  ASSUME NEW pc \in {"none", "lost"}, NEW n \in Nat,
         NEW q, q = [NoScan EXCEPT !.pc = pc]
  PROVE  ScanOK(q, n) /\ q.pc = pc
<1>1. /\ q.pc = pc /\ q.targets = {} /\ q.todo = {} /\ q.jobs = NoScan.jobs
      /\ q.results = {} /\ q.probed = 0 /\ q.probes = 0 /\ q.credit = 0
  BY NoScanFields
<1>2. IsScan(q)
  <2>1. q \in [pc : {"none", "scanning", "finished", "done", "lost"},
               conn : Conns \cup {"none"}, targets : SUBSET Nat, todo : SUBSET Nat,
               jobs : [{} -> Job], results : SUBSET Nat, probed : Nat, probes : Nat,
               expired : BOOLEAN, credit : Int, last : Nat]
    BY NoScanFields
  <2>2. {} \in SUBSET q.targets
    OBVIOUS
  <2> QED BY <2>1, <2>2 DEF IsScan
<1>3. Whole(q) /\ Counted(q)
  BY <1>1, NoScanFields, FS_EmptySet DEF Whole, Counted
<1> QED BY <1>1, <1>2, <1>3, NoScanFields, FullIs DEF ScanOK

\* A scan that begins has a full bucket and everything to do.
LEMMA NewScanIs ==
  ASSUME NEW c \in Conns \cup {"none"}, NEW p \in Policies,
         NEW q, q = NewScan(c, p)
  PROVE  ScanOK(q, 0) /\ q.pc = "scanning" /\ q.targets = Expand(p) /\ q.probed = 0
<1>1. Expand(p) \in SUBSET Nat
  <2>1. p.cidrs \in Seq(SUBSET Nat)
    BY ScanAssumption
  <2>2. \A i \in DOMAIN p.cidrs : p.cidrs[i] \in SUBSET Nat
    BY <2>1
  <2> QED BY <2>2 DEF Expand
<1>2. q = [NoScan EXCEPT !.pc = "scanning", !.conn = c, !.targets = Expand(p),
                         !.todo = Expand(p), !.credit = Full]
  BY DEF NewScan, Full
<1>3. /\ q.pc = "scanning" /\ q.targets = Expand(p) /\ q.todo = Expand(p)
      /\ q.jobs = NoScan.jobs /\ q.results = {} /\ q.probed = 0 /\ q.probes = 0
      /\ q.credit = Full /\ q.last = 0
  BY <1>2, NoScanFields
<1>4. IsScan(q)
  <2>1. q \in [pc : {"none", "scanning", "finished", "done", "lost"},
               conn : Conns \cup {"none"}, targets : SUBSET Nat, todo : SUBSET Nat,
               jobs : [{} -> Job], results : SUBSET Nat, probed : Nat, probes : Nat,
               expired : BOOLEAN, credit : Int, last : Nat]
    <3>1. Full \in Int
      BY FullIs
    <3>2. 0 \in Nat /\ 0 \in Int /\ {} \in SUBSET Nat
      OBVIOUS
    <3>3. PICK E \in SUBSET Nat : E = Expand(p)
      BY <1>1
    <3>4. q = [NoScan EXCEPT !.pc = "scanning", !.conn = c, !.targets = E,
                             !.todo = E, !.credit = Full]
      BY <1>2, <3>3
    <3> QED BY <3>1, <3>2, <3>4, NoScanFields
  <2>2. {} \in SUBSET q.targets
    OBVIOUS
  <2> QED BY <2>1, <2>2 DEF IsScan
<1>5. Whole(q) /\ Counted(q)
  BY <1>3, NoScanFields, FS_EmptySet DEF Whole, Counted
<1>6. Rate(q, 0)
  <2>1. Waiting(q) = {} /\ \A T \in Nat : Due(q, T) = {}
    BY <1>3, NoScanFields DEF Waiting, Due
  <2>2. IsFiniteSet({}) /\ Cardinality({}) = 0
    BY FS_EmptySet
  <2>3. 0 * Interval = 0
    BY FullIs
  <2>4. (q.probes + Cardinality(Waiting(q))) * Interval = 0
    BY <1>3, <2>1, <2>2, <2>3
  <2>5. ASSUME NEW T \in Nat
        PROVE  (q.probes + Cardinality(Due(q, T))) * Interval <= Full + T
    <3>1. Due(q, T) = {}
      BY <2>1
    <3> QED BY <1>3, <2>2, <2>3, <3>1, FullIs
  <2> QED BY <1>3, <2>1, <2>2, <2>4, <2>5, FullIs DEF Rate
<1> QED BY <1>3, <1>4, <1>5, <1>6, NoScanFields, FullIs DEF ScanOK

\* A scan without workers is whole, unless its context has ended.
LEMMA FinishIs ==
  ASSUME NEW r, NEW n, ScanOK(r, n), r.pc = "scanning", r.todo = {}, DOMAIN r.jobs = {},
         NEW m,
         NEW q, q = [NoScan EXCEPT !.pc = "finished", !.conn = r.conn,
                                   !.targets = r.targets, !.results = r.results,
                                   !.probed = r.probed, !.expired = r.expired]
  PROVE  ScanOK(q, m) /\ q.pc = "finished"
<1>1. IsScan(r) /\ Whole(r) /\ Counted(r)
  BY DEF ScanOK
<1>2. /\ q.pc = "finished" /\ q.targets = r.targets /\ q.todo = {}
      /\ q.jobs = NoScan.jobs /\ q.results = r.results /\ q.probed = r.probed
      /\ q.credit = 0 /\ q.probes = 0
  BY NoScanFields
<1>3. q.expired = r.expired
  BY DEF NoScan
<1>4. IsScan(q)
  <2>1. q \in [pc : {"none", "scanning", "finished", "done", "lost"},
               conn : Conns \cup {"none"}, targets : SUBSET Nat, todo : SUBSET Nat,
               jobs : [{} -> Job], results : SUBSET Nat, probed : Nat, probes : Nat,
               expired : BOOLEAN, credit : Int, last : Nat]
    <3>1. /\ r.conn \in Conns \cup {"none"} /\ r.targets \in SUBSET Nat
          /\ r.results \in SUBSET Nat /\ r.probed \in Nat /\ r.expired \in BOOLEAN
      BY <1>1, ScanFields
    <3>2. 0 \in Nat /\ 0 \in Int /\ {} \in SUBSET Nat
      OBVIOUS
    <3> QED BY <3>1, <3>2, NoScanFields
  <2>2. {} \in SUBSET q.targets
    OBVIOUS
  <2> QED BY <2>1, <2>2 DEF IsScan
<1>5. Whole(q)
  BY <1>1, <1>2, <1>3, NoScanFields DEF Whole
<1>6. Counted(q)
  BY <1>1, <1>2, NoScanFields DEF Counted
<1> QED BY <1>2, <1>4, <1>5, <1>6, NoScanFields, FullIs DEF ScanOK

\* A finished scan is put away; its result is whole unless it says otherwise.
LEMMA SaveIs ==
  ASSUME NEW r, NEW n, ScanOK(r, n), r.pc = "finished", NEW m,
         NEW q, q = [r EXCEPT !.pc = "done", !.conn = "none", !.results = {},
                              !.probed = 0, !.expired = FALSE]
  PROVE  /\ ScanOK(q, m) /\ q.pc = "done" /\ q.targets = r.targets
         /\ r.expired = FALSE => r.results = r.targets
<1>1. IsScan(r) /\ Whole(r) /\ Counted(r)
  BY DEF ScanOK
<1>2. /\ q.pc = "done" /\ q.targets = r.targets /\ q.todo = r.todo /\ q.jobs = r.jobs
      /\ q.results = {} /\ q.probed = 0 /\ q.credit = r.credit /\ q.probes = r.probes
      /\ IsScan(q)
  BY <1>1 DEF IsScan
<1>3. r.todo = {} /\ DOMAIN r.jobs = {}
  BY <1>1 DEF Whole
<1>4. Whole(q)
  BY <1>2, <1>3 DEF Whole
<1>5. Counted(q)
  BY <1>2, <1>3, FS_EmptySet DEF Counted
<1>6. r.expired = FALSE => r.results = r.targets
  BY <1>1, <1>3 DEF Whole
<1> QED BY <1>2, <1>4, <1>5, <1>6 DEF ScanOK

\* Time passes; and nothing is said of the rate of a scan that does not run.
LEMMA Later ==
  ASSUME NEW r, NEW n \in Nat, NEW m \in Nat, ScanOK(r, n),
         n <= m \/ r.pc # "scanning"
  PROVE  ScanOK(r, m)
<1>1. CASE r.pc # "scanning"
  BY <1>1 DEF ScanOK
<1>2. CASE n <= m
  BY <1>2 DEF ScanOK, Rate
<1> QED BY <1>1, <1>2

-----------------------------------------------------------------------------
(***************************************************************************)
(* Steps of the specification.                                             *)
(***************************************************************************)

LEMMA InitIInv == Init => IInv
<1> SUFFICES ASSUME Init PROVE IInv
  OBVIOUS
<1>1. MaxScans \in Nat /\ MaxCrashes \in Nat
  BY ScanAssumption
<1>2. TypesInv
  BY <1>1 DEF Init, TypesInv, NoState
<1>3. ScansInv
  <2>1. ASSUME NEW s \in ScanIds
        PROVE  ScanOK(scan[s], 0) /\ scan[s].pc = "none"
    <3>1. scan[s] = [NoScan EXCEPT !.pc = "none"]
      BY DEF Init, NoScan
    <3> QED BY <3>1, NoScanIs
  <2> QED BY <2>1 DEF Init, ScansInv, Scanning
<1>4. ProgressInv
  BY DEF Init, ProgressInv, NoState
<1>5. StoredInv
  BY <1>1 DEF Init, StoredInv, NothingStored
<1> QED BY <1>2, <1>3, <1>4, <1>5 DEF IInv

\* What is stored is about a scan that is over, and stays so.
LEMMA StoredKept ==
  ASSUME IInv, UNCHANGED stored,
         \A x \in ScanIds : scan[x].pc = "done" => scan'[x] = scan[x]
  PROVE  StoredInv'
<1>1. StoredInv /\ MaxScans \in Nat
  BY ScanAssumption DEF IInv
<1>2. stored.started # 0 =>
        stored.started \in ScanIds /\ scan'[stored.started] = scan[stored.started]
  BY <1>1 DEF StoredInv, ScanIds
<1> QED BY <1>1, <1>2 DEF StoredInv

\* A step of the scan that runs, which leaves the others alone.
LEMMA RunningStep ==
  ASSUME IInv, NEW s \in ScanIds, Scanning(s),
         NEW q, ScanOK(q, now), q.pc = "scanning", q.targets = scan[s].targets,
         q.probed \in Nat, q.probed >= scan[s].probed,
         Set(s, q), UNCHANGED scanState
  PROVE  IInv'
<1>1. /\ DOMAIN scan = ScanIds /\ scan[s].pc = "scanning" /\ scan[s].probed \in Nat
      /\ scanState.probed \in Nat
  BY ScanFields DEF IInv, TypesInv, ScansInv, ScanOK, Scanning
<1>2. /\ scan'[s] = q /\ \A x \in ScanIds \ {s} : scan'[x] = scan[x]
      /\ DOMAIN scan' = ScanIds
      /\ UNCHANGED <<serving, conn, now, stored, crashes, scanState>>
  BY <1>1 DEF Set
<1>3. TypesInv'
  BY <1>2 DEF IInv, TypesInv
<1>4. ScansInv'
  BY <1>1, <1>2 DEF IInv, ScansInv, Scanning
<1>5. ProgressInv'
  BY <1>1, <1>2 DEF IInv, ProgressInv
<1>6. StoredInv'
  BY <1>1, <1>2, StoredKept
<1> QED BY <1>3, <1>4, <1>5, <1>6 DEF IInv

\* Steps of the server that leave the scans alone.
LEMMA ServerStep ==
  ASSUME IInv, TypesInv', UNCHANGED <<scanState, scan, stored>>, now' = now
  PROVE  IInv'
BY DEF IInv, ScansInv, ProgressInv, StoredInv, Scanning

LEMMA ScanStepKeeps ==
  ASSUME IInv, NEW s \in ScanIds, ScanStep(s) \/ Expire(s)
  PROVE  IInv'
<1>r. PICK r : r = scan[s]
  OBVIOUS
<1>0. /\ ScanOK(r, now) /\ now \in Nat /\ IsScan(r) /\ r.probed \in Nat
      /\ r.expired \in BOOLEAN /\ r.credit \in Int /\ r.last \in Nat
      /\ DOMAIN scan = ScanIds
  <2>1. ScanOK(r, now) /\ now \in Nat /\ DOMAIN scan = ScanIds
    BY <1>r DEF IInv, TypesInv, ScansInv
  <2>2. IsScan(r)
    BY <2>1 DEF ScanOK
  <2> QED BY <2>1, <2>2, ScanFields
<1>1. CASE TakeJob(s)
  <2>1. PICK t \in r.todo : r.pc = "scanning" /\ UNCHANGED scanState
          /\ \/ Set(s, [r EXCEPT !.todo = @ \ {t}, !.credit = Reserve(r).credit,
                                 !.last = now,
                                 !.jobs = WithJob(@, t, [phase |-> "waiting",
                                                         at |-> now + Reserve(r).delay])])
             \/ r.expired /\ Set(s, [r EXCEPT !.todo = @ \ {t}])
    BY <1>r, <1>1 DEF TakeJob, Scanning
  <2>2. CASE Set(s, [r EXCEPT !.todo = @ \ {t}, !.credit = Reserve(r).credit,
                              !.last = now,
                              !.jobs = WithJob(@, t, [phase |-> "waiting",
                                                      at |-> now + Reserve(r).delay])])
    <3>1. PICK q : q = [r EXCEPT !.todo = @ \ {t}, !.credit = Reserve(r).credit,
                                 !.last = now,
                                 !.jobs = WithJob(@, t, [phase |-> "waiting",
                                                         at |-> now + Reserve(r).delay])]
      OBVIOUS
    <3>2. ScanOK(q, now) /\ q.pc = "scanning" /\ q.targets = r.targets /\ q.probed = r.probed
      BY <1>0, <2>1, <3>1, TakeKeeps
    <3>3. Set(s, q)
      BY <2>2, <3>1
    <3> QED BY <1>r, <1>0, <2>1, <3>2, <3>3, RunningStep DEF Scanning
  <2>3. CASE r.expired /\ Set(s, [r EXCEPT !.todo = @ \ {t}])
    <3>1. PICK q : q = [r EXCEPT !.todo = r.todo \ {t}]
      OBVIOUS
    <3>2. r.expired = TRUE /\ r.todo \ {t} \in SUBSET r.todo
      BY <2>3
    <3>3. ScanOK(q, now) /\ q.pc = "scanning" /\ q.targets = r.targets /\ q.probed = r.probed
      BY <1>0, <2>1, <3>1, <3>2, DropKeeps
    <3>4. Set(s, q)
      BY <2>3, <3>1
    <3> QED BY <1>r, <1>0, <2>1, <3>3, <3>4, RunningStep DEF Scanning
  <2> QED BY <2>1, <2>2, <2>3
<1>2. CASE StopSending(s)
  <2>1. /\ r.pc = "scanning" /\ UNCHANGED scanState /\ r.expired = TRUE
        /\ Set(s, [r EXCEPT !.todo = {}])
    BY <1>r, <1>0, <1>2 DEF StopSending, Scanning
  <2>2. PICK q : q = [r EXCEPT !.todo = {}]
    OBVIOUS
  <2>3. {} \in SUBSET r.todo
    OBVIOUS
  <2>4. ScanOK(q, now) /\ q.pc = "scanning" /\ q.targets = r.targets /\ q.probed = r.probed
    BY <1>0, <2>1, <2>2, <2>3, DropKeeps
  <2>5. Set(s, q)
    BY <2>1, <2>2
  <2> QED BY <1>r, <1>0, <2>1, <2>4, <2>5, RunningStep DEF Scanning
<1>3. ASSUME NEW t \in DOMAIN scan[s].jobs, StartProbe(s, t)
      PROVE  IInv'
  <2>1. /\ r.pc = "scanning" /\ UNCHANGED scanState
        /\ t \in DOMAIN r.jobs /\ r.jobs[t].phase = "waiting" /\ now >= r.jobs[t].at
        /\ Set(s, [r EXCEPT !.jobs = WithJob(@, t, [phase |-> "probing", at |-> now]),
                            !.probes = @ + 1])
    BY <1>r, <1>3 DEF StartProbe, Scanning
  <2>2. PICK q : q = [r EXCEPT !.jobs = WithJob(@, t, [phase |-> "probing", at |-> now]),
                               !.probes = @ + 1]
    OBVIOUS
  <2>3. ScanOK(q, now) /\ q.pc = "scanning" /\ q.targets = r.targets /\ q.probed = r.probed
    BY <1>0, <2>1, <2>2, GoKeeps
  <2>4. Set(s, q)
    BY <2>1, <2>2
  <2> QED BY <1>r, <1>0, <2>1, <2>3, <2>4, RunningStep DEF Scanning
<1>4. ASSUME NEW t \in DOMAIN scan[s].jobs, AbandonWait(s, t)
      PROVE  IInv'
  <2>1. /\ r.pc = "scanning" /\ UNCHANGED scanState
        /\ t \in DOMAIN r.jobs /\ r.jobs[t].phase = "waiting" /\ r.expired = TRUE
        /\ Set(s, [r EXCEPT !.jobs = WithoutJob(@, t)])
    BY <1>r, <1>0, <1>4 DEF AbandonWait, Scanning
  <2>2. PICK q : q = [r EXCEPT !.jobs = WithoutJob(@, t)]
    OBVIOUS
  <2>3. ScanOK(q, now) /\ q.pc = "scanning" /\ q.targets = r.targets /\ q.probed = r.probed
    BY <1>0, <2>1, <2>2, LeaveKeeps
  <2>4. Set(s, q)
    BY <2>1, <2>2
  <2> QED BY <1>r, <1>0, <2>1, <2>3, <2>4, RunningStep DEF Scanning
<1>5. ASSUME NEW t \in DOMAIN scan[s].jobs, Probe(s, t)
      PROVE  IInv'
  <2>1. /\ r.pc = "scanning" /\ UNCHANGED scanState
        /\ t \in DOMAIN r.jobs /\ r.jobs[t].phase = "probing"
        /\ Set(s, [r EXCEPT !.results = @ \cup {t}, !.probed = @ + 1,
                            !.jobs = WithJob(@, t, [phase |-> "reporting",
                                                    n |-> r.probed + 1])])
    BY <1>r, <1>5 DEF Probe, Scanning
  <2>2. PICK q : q = [r EXCEPT !.results = @ \cup {t}, !.probed = @ + 1,
                               !.jobs = WithJob(@, t, [phase |-> "reporting",
                                                       n |-> r.probed + 1])]
    OBVIOUS
  <2>3. ScanOK(q, now) /\ q.pc = "scanning" /\ q.targets = r.targets
        /\ q.probed = r.probed + 1
    BY <1>0, <2>1, <2>2, ProbeKeeps
  <2>4. Set(s, q)
    BY <2>1, <2>2
  <2>5. q.probed \in Nat /\ q.probed >= r.probed
    BY <1>0, <2>3
  <2> QED BY <1>r, <1>0, <2>1, <2>3, <2>4, <2>5, RunningStep DEF Scanning
<1>6. ASSUME NEW t \in DOMAIN scan[s].jobs, Report(s, t)
      PROVE  IInv'
  <2>1. /\ t \in DOMAIN r.jobs /\ r.jobs[t].phase = "reporting"
        /\ Set(s, [r EXCEPT !.jobs = WithoutJob(@, t)])
        /\ scanState' = IF scanState.running
                        THEN [scanState EXCEPT !.probed = r.jobs[t].n,
                                               !.total = Cardinality(r.targets)]
                        ELSE scanState
    BY <1>r, <1>6 DEF Report
  <2>2. r.pc = "scanning" /\ Counted(r) /\ r.jobs[t] \in Job
    BY <1>0, <2>1, ScanFields DEF ScanOK, Whole
  <2>3. scanState.running = TRUE /\ scanState.started = s
    BY <1>r, <2>2 DEF IInv, ScansInv, Scanning
  <2>4. PICK q : q = [r EXCEPT !.jobs = WithoutJob(@, t)]
    OBVIOUS
  <2>5. ScanOK(q, now) /\ q.pc = "scanning" /\ q.targets = r.targets /\ q.probed = r.probed
    BY <1>0, <2>1, <2>2, <2>4, LeaveKeeps
  <2>6. /\ scan'[s] = q /\ \A x \in ScanIds \ {s} : scan'[x] = scan[x]
        /\ DOMAIN scan' = ScanIds
        /\ UNCHANGED <<serving, conn, now, stored, crashes>>
    BY <1>r, <1>0, <2>1, <2>4 DEF Set
  <2>7. r.jobs[t].n \in Nat /\ r.jobs[t].n <= r.probed
    BY <2>1, <2>2 DEF Counted, Job
  <2>8. /\ scanState'.running = scanState.running /\ scanState'.started = s
        /\ scanState'.probed = r.jobs[t].n /\ scanState'.total = Cardinality(r.targets)
        /\ scanState' \in [running : BOOLEAN, started : 0 .. MaxScans, total : Nat,
                           probed : Nat, err : BOOLEAN]
    <3>1. Cardinality(r.targets) \in Nat
      BY <1>r, <2>3 DEF IInv, TypesInv, ProgressInv
    <3>2. scanState \in [running : BOOLEAN, started : 0 .. MaxScans, total : Nat,
                         probed : Nat, err : BOOLEAN]
      BY DEF IInv, TypesInv
    <3>3. scanState' = [scanState EXCEPT !.probed = r.jobs[t].n,
                                         !.total = Cardinality(r.targets)]
      BY <2>1, <2>3
    <3> QED BY <2>3, <2>7, <3>1, <3>2, <3>3
  <2>9. TypesInv'
    BY <2>6, <2>8 DEF IInv, TypesInv
  <2>10. ScansInv'
    BY <1>r, <2>3, <2>5, <2>6, <2>8 DEF IInv, ScansInv, Scanning
  <2>11. ProgressInv'
    BY <1>r, <2>3, <2>5, <2>6, <2>7, <2>8 DEF IInv, ProgressInv
  <2>12. StoredInv'
    BY <1>r, <2>2, <2>6, StoredKept
  <2> QED BY <2>9, <2>10, <2>11, <2>12 DEF IInv
<1>7. CASE FinishScan(s)
  <2>1. /\ r.pc = "scanning" /\ r.todo = {} /\ DOMAIN r.jobs = {}
        /\ Finish(s, r.expired)
    BY <1>r, <1>7 DEF FinishScan, AllSent, Scanning
  <2>2. PICK q : q = [NoScan EXCEPT !.pc = "finished", !.conn = r.conn,
                                    !.targets = r.targets, !.results = r.results,
                                    !.probed = r.probed, !.expired = r.expired]
    OBVIOUS
  <2>3. ScanOK(q, 0) /\ q.pc = "finished"
    BY <1>0, <2>1, <2>2, FinishIs
  <2>4. /\ scan'[s] = q /\ \A x \in ScanIds \ {s} : scan'[x] = scan[x]
        /\ DOMAIN scan' = ScanIds /\ now' = 0
        /\ scanState' = [scanState EXCEPT !.running = FALSE, !.err = r.expired]
        /\ UNCHANGED <<serving, conn, stored, crashes>>
    BY <1>r, <1>0, <2>1, <2>2 DEF Finish
  <2>5. scanState.running = TRUE /\ scanState.started = s
    BY <1>r, <2>1 DEF IInv, ScansInv, Scanning
  <2>6. \A x \in ScanIds \ {s} : scan[x].pc # "scanning"
    BY <2>5 DEF IInv, ScansInv, Scanning
  <2>7. \A x \in ScanIds : ScanOK(scan'[x], 0) /\ scan'[x].pc # "scanning"
    <3>1. ASSUME NEW x \in ScanIds \ {s}
          PROVE  ScanOK(scan[x], 0)
      <4>1. ScanOK(scan[x], now) /\ scan[x].pc # "scanning"
        BY <2>6 DEF IInv, ScansInv
      <4> QED BY <1>0, <4>1, Later
    <3> QED BY <2>3, <2>4, <2>6, <3>1
  <2>8. scanState' \in [running : BOOLEAN, started : 0 .. MaxScans, total : Nat,
                        probed : Nat, err : BOOLEAN]
    BY <1>0, <2>4 DEF IInv, TypesInv
  <2>9. scanState'.running = FALSE
    BY <2>4 DEF IInv, TypesInv
  <2>10. TypesInv'
    BY <2>4, <2>8 DEF IInv, TypesInv
  <2>11. ScansInv'
    BY <2>4, <2>7 DEF ScansInv, Scanning
  <2>12. ProgressInv'
    BY <2>9 DEF ProgressInv
  <2>13. StoredInv'
    BY <1>r, <2>1, <2>4, StoredKept
  <2> QED BY <2>10, <2>11, <2>12, <2>13 DEF IInv
<1>8. CASE SaveScan(s)
  <2>1. /\ r.pc = "finished"
        /\ \/ stored' = [started |-> s, candidates |-> r.results, err |-> r.expired]
           \/ UNCHANGED stored
        /\ scan' = [scan EXCEPT ![s] =
                      [r EXCEPT !.pc = "done", !.conn = "none", !.results = {},
                                !.probed = 0, !.expired = FALSE]]
        /\ conn' = [c \in Conns |-> IF c = r.conn THEN AfterRequest ELSE conn[c]]
        /\ UNCHANGED <<serving, scanState, now, crashes>>
    BY <1>r, <1>0, <1>8 DEF SaveScan
  <2>2. PICK q : q = [r EXCEPT !.pc = "done", !.conn = "none", !.results = {},
                               !.probed = 0, !.expired = FALSE]
    OBVIOUS
  <2>3. /\ ScanOK(q, now) /\ q.pc = "done" /\ q.targets = r.targets
        /\ r.expired = FALSE => r.results = r.targets
    BY <1>0, <2>1, <2>2, SaveIs
  <2>4. /\ scan'[s] = q /\ \A x \in ScanIds \ {s} : scan'[x] = scan[x]
        /\ DOMAIN scan' = ScanIds
    BY <1>0, <2>1, <2>2
  <2>5. conn' \in [Conns -> {"closed", "open", "waiting"}]
    BY <2>1 DEF IInv, TypesInv, AfterRequest
  <2>6. TypesInv'
    BY <1>r, <2>1, <2>4, <2>5 DEF IInv, TypesInv
  <2>7. ScansInv'
    BY <1>r, <2>1, <2>3, <2>4 DEF IInv, ScansInv, Scanning
  <2>8. ProgressInv'
    BY <1>r, <2>1, <2>4 DEF IInv, ProgressInv
  <2>9. StoredInv'
    <3>1. CASE UNCHANGED stored
      BY <1>r, <2>1, <2>4, <3>1, StoredKept
    <3>2. CASE stored' = [started |-> s, candidates |-> r.results, err |-> r.expired]
      <4>1. /\ stored'.started = s /\ stored'.candidates = r.results
            /\ stored'.err = r.expired
        BY <3>2
      <4>2. s \in 1 .. MaxScans
        BY DEF ScanIds
      <4>3. r.results \subseteq UNION {Expand(p) : p \in Policies}
        <5>1. r.results \subseteq r.targets
          BY <1>0 DEF ScanOK, Whole
        <5>2. r.targets = {} \/ \E p \in Policies : r.targets = Expand(p)
          BY <1>0 DEF ScanOK
        <5> QED BY <5>1, <5>2
      <4>4. stored'.err \in BOOLEAN
        BY <1>0, <4>1
      <4> QED BY <2>3, <2>4, <4>1, <4>2, <4>3, <4>4 DEF StoredInv
    <3> QED BY <2>1, <3>1, <3>2
  <2> QED BY <2>6, <2>7, <2>8, <2>9 DEF IInv
<1>9. CASE Expire(s)
  <2>1. r.pc = "scanning" /\ UNCHANGED scanState /\ Set(s, [r EXCEPT !.expired = TRUE])
    BY <1>r, <1>9 DEF Expire, Scanning
  <2>2. PICK q : q = [r EXCEPT !.expired = TRUE]
    OBVIOUS
  <2>3. ScanOK(q, now) /\ q.pc = "scanning" /\ q.targets = r.targets /\ q.probed = r.probed
    BY <1>0, <2>1, <2>2, ExpireKeeps
  <2>4. Set(s, q)
    BY <2>1, <2>2
  <2> QED BY <1>r, <1>0, <2>1, <2>3, <2>4, RunningStep DEF Scanning
<1> QED BY <1>1, <1>2, <1>3, <1>4, <1>5, <1>6, <1>7, <1>8, <1>9 DEF ScanStep

LEMMA BeginKeeps ==
  ASSUME IInv, NEW s \in ScanIds, NEW c \in Conns \cup {"none"}, NEW p \in Policies,
         BeginScan(s, c, p), conn' \in [Conns -> {"closed", "open", "waiting"}]
  PROVE  IInv'
<1>1. PICK q : q = NewScan(c, p)
  OBVIOUS
<1>2. ScanOK(q, 0) /\ q.pc = "scanning" /\ q.targets = Expand(p) /\ q.probed = 0
  BY <1>1, NewScanIs
<1>3. /\ DOMAIN scan = ScanIds /\ now \in Nat /\ MaxScans \in Nat
      /\ s \in 0 .. MaxScans
  BY ScanAssumption DEF IInv, TypesInv, ScanIds
<1>4. /\ scan[s].pc = "none" /\ scanState.running # TRUE
      /\ scan'[s] = q /\ \A x \in ScanIds \ {s} : scan'[x] = scan[x]
      /\ DOMAIN scan' = ScanIds /\ now' = 0
      /\ UNCHANGED <<serving, stored, crashes>>
  BY <1>1, <1>3 DEF BeginScan
<1>5. Cardinality(Expand(p)) \in Nat
  BY ScanAssumption, FS_CardinalityType
<1>6. /\ scanState'.running = TRUE /\ scanState'.started = s
      /\ scanState'.total = Cardinality(Expand(p)) /\ scanState'.probed = 0
      /\ scanState' \in [running : BOOLEAN, started : 0 .. MaxScans, total : Nat,
                         probed : Nat, err : BOOLEAN]
  BY <1>3, <1>5 DEF BeginScan
<1>7. TypesInv'
  BY <1>4, <1>6 DEF IInv, TypesInv
<1>8. ScansInv'
  <2>1. ASSUME NEW x \in ScanIds \ {s}
        PROVE  ScanOK(scan[x], 0) /\ scan[x].pc # "scanning"
    <3>1. ScanOK(scan[x], now) /\ scan[x].pc # "scanning"
      BY <1>4 DEF IInv, ScansInv, Scanning
    <3> QED BY <1>3, <3>1, Later
  <2> QED BY <1>2, <1>4, <1>6, <2>1 DEF ScansInv, Scanning
<1>9. ProgressInv'
  BY <1>2, <1>4, <1>6 DEF ProgressInv
<1>10. StoredInv'
  BY <1>4, StoredKept
<1> QED BY <1>7, <1>8, <1>9, <1>10 DEF IInv

LEMMA ShutdownKeeps ==
  ASSUME IInv, Shutdown
  PROVE  IInv'
<1>1. /\ serving' = FALSE /\ DOMAIN scan' = ScanIds
      /\ UNCHANGED <<conn, scanState, now, stored, crashes>>
  BY DEF Shutdown
<1>2. ASSUME NEW s \in ScanIds
      PROVE  /\ ScanOK(scan'[s], now) /\ scan'[s].pc = scan[s].pc
             /\ scan'[s].targets = scan[s].targets /\ scan'[s].probed = scan[s].probed
             /\ scan[s].pc # "scanning" => scan'[s] = scan[s]
  <2>1. PICK r : r = scan[s]
    OBVIOUS
  <2>2. ScanOK(r, now)
    BY <2>1 DEF IInv, ScansInv
  <2>3. \/ scan'[s] = r
        \/ r.pc = "scanning" /\ scan'[s] = [r EXCEPT !.expired = TRUE]
    BY <2>1 DEF Shutdown
  <2>4. CASE scan'[s] = r
    BY <2>1, <2>2, <2>4
  <2>5. CASE r.pc = "scanning" /\ scan'[s] = [r EXCEPT !.expired = TRUE]
    <3>1. PICK q : q = [r EXCEPT !.expired = TRUE]
      OBVIOUS
    <3>2. ScanOK(q, now) /\ q.pc = "scanning" /\ q.targets = r.targets
          /\ q.probed = r.probed
      BY <2>2, <2>5, <3>1, ExpireKeeps
    <3> QED BY <2>1, <2>5, <3>1, <3>2
  <2> QED BY <2>3, <2>4, <2>5
<1>3. TypesInv'
  BY <1>1 DEF IInv, TypesInv
<1>4. ScansInv'
  BY <1>1, <1>2 DEF IInv, ScansInv, Scanning
<1>5. ProgressInv'
  BY <1>1, <1>2 DEF IInv, ProgressInv
<1>6. StoredInv'
  BY <1>1, <1>2, StoredKept
<1> QED BY <1>3, <1>4, <1>5, <1>6 DEF IInv

LEMMA CrashKeeps ==
  ASSUME IInv, Crash
  PROVE  IInv'
<1>1. /\ DOMAIN scan' = ScanIds /\ now' = 0 /\ serving' = TRUE
      /\ conn' = [c \in Conns |-> "closed"] /\ scanState' = NoState
      /\ UNCHANGED stored /\ now \in Nat
  BY DEF Crash, IInv, TypesInv
<1>2. crashes' \in 0 .. MaxCrashes
  BY ScanAssumption DEF Crash, IInv, TypesInv
<1>3. scanState'.running = FALSE
      /\ scanState' \in [running : BOOLEAN, started : 0 .. MaxScans, total : Nat,
                         probed : Nat, err : BOOLEAN]
  BY <1>1, ScanAssumption DEF NoState
<1>4. ASSUME NEW s \in ScanIds
      PROVE  /\ ScanOK(scan'[s], 0) /\ scan'[s].pc # "scanning"
             /\ scan[s].pc = "done" => scan'[s] = scan[s]
  <2>1. PICK r : r = scan[s]
    OBVIOUS
  <2>2. ScanOK(r, now)
    BY <2>1 DEF IInv, ScansInv
  <2>3. CASE r.pc \in {"scanning", "finished"}
    <3>1. PICK q : q = [NoScan EXCEPT !.pc = "lost"]
      OBVIOUS
    <3>2. ScanOK(q, 0) /\ q.pc = "lost"
      BY <3>1, NoScanIs
    <3>3. scan'[s] = q
      BY <2>1, <2>3, <3>1 DEF Crash
    <3> QED BY <2>1, <2>3, <3>2, <3>3
  <2>4. CASE r.pc \notin {"scanning", "finished"}
    <3>1. scan'[s] = r
      BY <2>1, <2>4 DEF Crash
    <3>2. ScanOK(r, 0)
      BY <1>1, <2>2, <2>4, Later
    <3> QED BY <2>1, <2>4, <3>1, <3>2
  <2> QED BY <2>3, <2>4
<1>5. TypesInv'
  BY <1>1, <1>2, <1>3 DEF TypesInv
<1>6. ScansInv'
  BY <1>1, <1>4 DEF ScansInv, Scanning
<1>7. ProgressInv'
  BY <1>3 DEF ProgressInv
<1>8. StoredInv'
  BY <1>1, <1>4, StoredKept
<1> QED BY <1>5, <1>6, <1>7, <1>8 DEF IInv

LEMMA TickKeeps ==
  ASSUME IInv, Tick
  PROVE  IInv'
<1>1. now \in Nat /\ now' = now + 1
      /\ UNCHANGED <<serving, conn, scanState, scan, stored, crashes>>
  BY DEF Tick, IInv, TypesInv
<1>2. now + 1 \in Nat /\ now <= now + 1
  BY <1>1
<1>3. TypesInv'
  BY <1>1, <1>2 DEF IInv, TypesInv
<1>4. ScansInv'
  <2>1. ASSUME NEW s \in ScanIds
        PROVE  ScanOK(scan[s], now + 1)
    <3>1. ScanOK(scan[s], now)
      BY DEF IInv, ScansInv
    <3> QED BY <1>1, <1>2, <3>1, Later
  <2> QED BY <1>1, <2>1 DEF IInv, ScansInv, Scanning
<1>5. ProgressInv' /\ StoredInv'
  BY <1>1 DEF IInv, ProgressInv, StoredInv
<1> QED BY <1>3, <1>4, <1>5 DEF IInv

LEMMA IInvStep == IInv /\ [Next]_vars => IInv'
<1> SUFFICES ASSUME IInv, [Next]_vars PROVE IInv'
  OBVIOUS
<1>1. ASSUME NEW c \in Conns, Accept(c) \/ Hangup(c)
      PROVE  IInv'
  <2>1. TypesInv' /\ UNCHANGED <<scanState, scan, stored>> /\ now' = now
    BY <1>1 DEF Accept, Hangup, IInv, TypesInv
  <2> QED BY <2>1, ServerStep
<1>2. ASSUME NEW c \in Conns, NEW p \in Policies, StartAsync(c, p)
      PROVE  IInv'
  <2>1. conn' \in [Conns -> {"closed", "open", "waiting"}]
    BY <1>2 DEF StartAsync, AfterRequest, IInv, TypesInv
  <2>2. PICK s \in ScanIds : BeginScan(s, "none", p)
    BY <1>2 DEF StartAsync
  <2> QED BY <2>1, <2>2, BeginKeeps
<1>3. ASSUME NEW c \in Conns, NEW p \in Policies, StartSync(c, p)
      PROVE  IInv'
  <2>1. conn' \in [Conns -> {"closed", "open", "waiting"}]
    BY <1>3 DEF StartSync, IInv, TypesInv
  <2>2. PICK s \in ScanIds : BeginScan(s, c, p)
    BY <1>3 DEF StartSync
  <2> QED BY <2>1, <2>2, BeginKeeps
<1>4. ASSUME NEW c \in Conns, NEW p \in Policies, Refuse(c, p)
      PROVE  IInv'
  <2>1. TypesInv' /\ UNCHANGED <<scanState, scan, stored>> /\ now' = now
    BY <1>4 DEF Refuse, AfterRequest, IInv, TypesInv
  <2> QED BY <2>1, ServerStep
<1>5. ASSUME NEW s \in ScanIds, ScanStep(s) \/ Expire(s)
      PROVE  IInv'
  BY <1>5, ScanStepKeeps
<1>6. CASE Shutdown
  BY <1>6, ShutdownKeeps
<1>7. CASE Crash
  BY <1>7, CrashKeeps
<1>8. CASE Tick
  BY <1>8, TickKeeps
<1>9. CASE UNCHANGED vars
  BY <1>9 DEF vars, IInv, TypesInv, ScansInv, ProgressInv, StoredInv, Scanning
<1> QED BY <1>1, <1>2, <1>3, <1>4, <1>5, <1>6, <1>7, <1>8, <1>9 DEF Next

\* The invariant holds in every run of the server.
THEOREM Inductive == Spec => []IInv
<1> QED BY InitIInv, IInvStep, PTL DEF Spec

-----------------------------------------------------------------------------
(***************************************************************************)
(* What the scans promise.                                                 *)
(***************************************************************************)

\* What a scan shows while it runs and leaves behind is its own and whole, for
\* any policies and any number of workers (updateScanProgress, finishScan, save).
THEOREM ResultsOwn == Spec => []ResultsAreOwn
<1>1. ASSUME IInv PROVE ResultsAreOwn
  <2>1. StoredIsComplete
    <3>1. stored.started # 0 => stored.started \in ScanIds
      BY <1>1, ScanAssumption DEF IInv, StoredInv, ScanIds
    <3> QED BY <1>1, <3>1 DEF IInv, StoredInv, StoredIsComplete
  <2>2. ProgressIsOwn
    BY <1>1 DEF IInv, TypesInv, ProgressInv, ProgressIsOwn
  <2>3. ASSUME NEW s \in ScanIds
        PROVE  LET r == scan[s]
               IN /\ r.conn \in Conns \cup {"none"}
                  /\ r.pc \in {"none", "scanning", "finished", "done", "lost"}
                  /\ r.todo \subseteq r.targets
                  /\ DOMAIN r.jobs \subseteq r.targets \ r.todo
                  /\ \A t \in DOMAIN r.jobs : r.jobs[t] \in Job
                  /\ r.results \subseteq r.targets \ r.todo
                  /\ r.credit <= IF r.probes = 0 THEN Burst * Interval
                                 ELSE (Burst - 1) * Interval
                  /\ r.probed = Cardinality(r.results)
                  /\ r.expired \in BOOLEAN
    <3>1. ScanOK(scan[s], now)
      BY <1>1 DEF IInv, ScansInv
    <3>2. IsScan(scan[s])
      BY <3>1 DEF ScanOK
    <3>3. scan[s].credit <= IF scan[s].probes = 0 THEN Burst * Interval
                            ELSE (Burst - 1) * Interval
      BY <3>1, FullIs DEF ScanOK
    <3> QED BY <3>1, <3>2, <3>3, ScanFields DEF ScanOK, Whole, Counted
  <2>4. TypeOK
    BY <1>1, <2>3 DEF IInv, TypesInv, StoredInv, TypeOK
  <2> QED BY <2>1, <2>2, <2>4 DEF ResultsAreOwn
<1> QED BY <1>1, Inductive, PTL

\* For any rate and burst, a scan's workers together send no more probes than
\* the burst and the time since the scan began allow (tokenBucket.Wait).
THEOREM RateHeld == Spec => []RateBound
<1>1. ASSUME IInv PROVE RateBound
  <2>1. ASSUME NEW s \in ScanIds, Scanning(s)
        PROVE  scan[s].probes <= Burst + now \div Interval
    <3>1. PICK r : r = scan[s]
      OBVIOUS
    <3>2. ScanOK(r, now) /\ now \in Nat /\ r.pc = "scanning"
      BY <1>1, <2>1, <3>1 DEF IInv, TypesInv, ScansInv, Scanning
    <3>3. r.probes \in Nat /\ Rate(r, now)
      BY <3>2, ScanFields DEF ScanOK
    <3>4. Cardinality(Due(r, now)) \in Nat
      <4>1. IsFiniteSet(Waiting(r)) /\ Due(r, now) \in SUBSET Waiting(r)
        BY <3>3 DEF Rate, Due
      <4> QED BY <4>1, FS_Subset, FS_CardinalityType
    <3>5. (r.probes + Cardinality(Due(r, now))) * Interval <= Full + now
      BY <3>2, <3>3 DEF Rate
    <3>6. r.probes * Interval <= Full + now
      <4>1. PICK k \in Nat : k = r.probes + Cardinality(Due(r, now))
        BY <3>3, <3>4
      <4>2. r.probes <= k
        BY <3>3, <3>4, <4>1
      <4>3. r.probes * Interval <= k * Interval
        BY <3>3, <4>1, <4>2, Times
      <4>4. r.probes * Interval \in Nat /\ k * Interval \in Nat
        BY <3>3, <4>1, Times
      <4>5. k * Interval <= Full + now
        BY <3>5, <4>1
      <4> QED BY <3>2, <4>3, <4>4, <4>5, FullIs
    <3>7. PICK d \in Nat : d = now \div Interval /\ now < (d + 1) * Interval
      <4>1. \A i \in Nat \ {0} : \A n \in Nat :
              n \div i \in Nat /\ n < (n \div i + 1) * i
        OBVIOUS
      <4> QED BY <3>2, <4>1, FullIs
    <3>8. Burst \in Nat /\ Full + (d + 1) * Interval = (Burst + d + 1) * Interval
      <4>1. Burst \in Nat /\ Interval \in Nat
        BY ScanAssumption
      <4>2. \A b \in Nat, n \in Nat, i \in Nat : b * i + n * i = (b + n) * i
        OBVIOUS
      <4>3. d + 1 \in Nat /\ Burst + (d + 1) = Burst + d + 1
        BY <3>7, <4>1
      <4> QED BY <4>1, <4>2, <4>3 DEF Full
    <3>9. ASSUME r.probes > Burst + d PROVE FALSE
      <4>1. Burst + d + 1 \in Nat /\ Burst + d + 1 <= r.probes
        BY <3>3, <3>7, <3>8, <3>9
      <4>2. (Burst + d + 1) * Interval <= r.probes * Interval
        BY <3>3, <4>1, Times
      <4>3. d + 1 \in Nat
        BY <3>7
      <4>4. /\ r.probes * Interval \in Nat /\ (Burst + d + 1) * Interval \in Nat
            /\ (d + 1) * Interval \in Nat
        BY <3>3, <4>1, <4>3, Times
      <4> QED BY <3>2, <3>6, <3>7, <3>8, <4>2, <4>4, FullIs
    <3> QED BY <3>1, <3>3, <3>7, <3>8, <3>9
  <2> QED BY <2>1 DEF RateBound
<1> QED BY <1>1, Inductive, PTL
=============================================================================
