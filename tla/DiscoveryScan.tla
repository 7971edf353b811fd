--------------------------- MODULE DiscoveryScan ----------------------------
(***************************************************************************)
(* Discovery scans over the control socket (internal/control: server.go,   *)
(* discovery_handlers.go, discovery_scan.go, discovery_store.go) and the   *)
(* scanner they run (internal/discovery: discovery.go, limiter.go).        *)
(*                                                                         *)
(* Connections start scans, and wait for the result or leave the scan to a *)
(* goroutine of its own.  A scan hands its targets to a bounded pool of    *)
(* workers that share a token bucket, counts what they finish, publishes   *)
(* the count as progress, and finally replaces the stored candidates.      *)
(*                                                                         *)
(* Addresses are numbers.  What a probe found is left out: a candidate is  *)
(* the address it is about.  The bucket is counted in clock ticks: a probe *)
(* costs Interval ticks of credit (1 / max_probes_per_second).  Each scan  *)
(* has a bucket of its own and only one runs, so now counts from its start. *)
(***************************************************************************)
EXTENDS Integers, FiniteSets, FiniteSetsExt, Sequences

CONSTANTS
  Conns,       \* connections
  Policies,    \* discovery policies a reload may make current
  Interval,    \* ticks between probes
  Burst,       \* probe_burst
  MaxWorkers,  \* max_workers
  MaxScans,    \* bound: scans
  MaxTime,     \* bound: ticks in which nobody waits for the bucket
  MaxCrashes   \* bound: crashes and restarts

\* expandAllowedTargets: every address of every block, once.
Expand(p) == UNION {p.cidrs[i] : i \in DOMAIN p.cidrs}

\* A policy: the address blocks it allows, in order, and its target limit.
ASSUME ScanAssumption ==
  /\ Interval \in Nat \ {0}
  /\ Burst \in Nat \ {0}
  /\ MaxWorkers \in Nat \ {0}
  /\ {MaxScans, MaxTime, MaxCrashes} \subseteq Nat
  /\ \A p \in Policies :
       /\ p.cidrs \in Seq(SUBSET Nat)
       /\ p.maxTargets \in Nat
       /\ IsFiniteSet(Expand(p))

VARIABLES
  serving,    \* the server's context is not done
  conn,       \* connections, one of which may wait for the scan it started
  scanState,  \* activeScanState
  scan,       \* scan id -> what its goroutine holds
  now,        \* ticks since the running scan began
  stored,     \* discovery-candidates.json
  crashes     \* crashes so far

vars == <<serving, conn, scanState, scan, now, stored, crashes>>

ScanIds == 1 .. MaxScans

\* validatePolicy and TargetCount: the policies a scan may be started with.
Scannable(p) == p.cidrs # <<>> /\ Cardinality(Expand(p)) <= p.maxTargets

\* A worker's job: waiting for the bucket until a time, probing, or about to
\* report that it was the n-th to finish.
Job == [phase : {"waiting", "probing"}, at : Nat] \cup [phase : {"reporting"}, n : Nat]

NoScan ==
  [pc |-> "none", conn |-> "none", targets |-> {}, todo |-> {},
   jobs |-> [t \in {} |-> 0], results |-> {}, probed |-> 0, probes |-> 0,
   expired |-> FALSE, credit |-> 0, last |-> 0]

NoState == [running |-> FALSE, started |-> 0, total |-> 0, probed |-> 0,
            err |-> FALSE]

NothingStored == [started |-> 0, candidates |-> {}, err |-> FALSE]

TypeOK ==
  /\ serving \in BOOLEAN
  /\ conn \in [Conns -> {"closed", "open", "waiting"}]
  /\ scanState \in [running : BOOLEAN, started : 0 .. MaxScans, total : Nat,
                    probed : Nat, err : BOOLEAN]
  /\ now \in Nat
  /\ stored.started \in 0 .. MaxScans
  /\ stored.err \in BOOLEAN
  /\ stored.candidates \subseteq UNION {Expand(p) : p \in Policies}
  /\ crashes \in 0 .. MaxCrashes
  /\ DOMAIN scan = ScanIds
  /\ \A s \in ScanIds :
       LET r == scan[s]
       IN /\ r.conn \in Conns \cup {"none"}
          /\ r.pc \in {"none", "scanning", "finished", "done", "lost"}
          /\ r.todo \subseteq r.targets
          /\ DOMAIN r.jobs \subseteq r.targets \ r.todo
          /\ \A t \in DOMAIN r.jobs : r.jobs[t] \in Job
          /\ r.results \subseteq r.targets \ r.todo
          /\ r.credit <= IF r.probes = 0 THEN Burst * Interval ELSE (Burst - 1) * Interval
          /\ r.probed = Cardinality(r.results)
          /\ r.expired \in BOOLEAN

Init ==
  /\ serving = TRUE
  /\ conn = [c \in Conns |-> "closed"]
  /\ scanState = NoState
  /\ scan = [s \in ScanIds |-> NoScan]
  /\ now = 0
  /\ stored = NothingStored
  /\ crashes = 0

-----------------------------------------------------------------------------
(***************************************************************************)
(* The control server.                                                     *)
(***************************************************************************)

\* Serve accepts a connection.
Accept(c) ==
  /\ serving
  /\ conn[c] = "closed"
  /\ conn' = [conn EXCEPT ![c] = "open"]
  /\ UNCHANGED <<serving, scanState, scan, now, stored, crashes>>

\* handleConn returns: end of file, read deadline, or a request too large.
Hangup(c) ==
  /\ conn[c] = "open"
  /\ conn' = [conn EXCEPT ![c] = "closed"]
  /\ UNCHANGED <<serving, scanState, scan, now, stored, crashes>>

\* The loop of handleConn looks at the context only between two requests.
AfterRequest == IF serving THEN "open" ELSE "closed"

\* The context ends: no more connections, and the scans whose request waits
\* for them expire; the others run on.
Shutdown ==
  /\ serving
  /\ serving' = FALSE
  /\ scan' = [s \in ScanIds |->
                IF scan[s].pc = "scanning" /\ scan[s].conn # "none"
                THEN [scan[s] EXCEPT !.expired = TRUE] ELSE scan[s]]
  /\ UNCHANGED <<conn, scanState, now, stored, crashes>>

\* The process ends, on its own or not, and a new one starts with what the
\* file holds; Listen removes the socket file the old one left behind.
Crash ==
  /\ crashes < MaxCrashes
  /\ crashes' = crashes + 1
  /\ serving' = TRUE
  /\ conn' = [c \in Conns |-> "closed"]
  /\ scanState' = NoState
  /\ scan' = [s \in ScanIds |->
                IF scan[s].pc \in {"scanning", "finished"}
                THEN [NoScan EXCEPT !.pc = "lost"] ELSE scan[s]]
  /\ now' = 0
  /\ UNCHANGED stored

-----------------------------------------------------------------------------
(***************************************************************************)
(* Starting a scan.                                                        *)
(***************************************************************************)

\* Scanner.Scan up to its first job; newTokenBucket starts full.
NewScan(c, p) ==
  [NoScan EXCEPT !.pc = "scanning", !.conn = c, !.targets = Expand(p),
                 !.todo = Expand(p), !.credit = Burst * Interval]

\* tryBeginScan, which refuses a second scan, then Scan's first progress call.
BeginScan(s, c, p) ==
  /\ Scannable(p)
  /\ ~scanState.running
  /\ scan[s].pc = "none"
  /\ \A r \in ScanIds : r < s => scan[r].pc # "none"
  /\ scan' = [scan EXCEPT ![s] = NewScan(c, p)]
  /\ scanState' = [running |-> TRUE, started |-> s,
                   total |-> Cardinality(Expand(p)), probed |-> 0, err |-> FALSE]
  /\ now' = 0
  /\ UNCHANGED <<serving, stored, crashes>>

\* discovery.scan.start with async: the answer does not wait for the scan.
StartAsync(c, p) ==
  /\ conn[c] = "open"
  /\ \E s \in ScanIds : BeginScan(s, "none", p)
  /\ conn' = [conn EXCEPT ![c] = AfterRequest]

\* Without async the request waits, and its context bounds the scan.
StartSync(c, p) ==
  /\ conn[c] = "open"
  /\ \E s \in ScanIds : BeginScan(s, c, p)
  /\ conn' = [conn EXCEPT ![c] = "waiting"]

\* A scan that is refused: a policy that allows nothing or too much, or
\* another scan that runs.
Refuse(c, p) ==
  /\ conn[c] = "open"
  /\ ~Scannable(p) \/ scanState.running
  /\ conn' = [conn EXCEPT ![c] = AfterRequest]
  /\ UNCHANGED <<serving, scanState, scan, now, stored, crashes>>

-----------------------------------------------------------------------------
(***************************************************************************)
(* The scan.                                                               *)
(***************************************************************************)
Scanning(s) == scan[s].pc = "scanning"

Set(s, r) ==
  /\ scan' = [scan EXCEPT ![s] = r]
  /\ UNCHANGED <<serving, conn, now, stored, crashes>>

WithJob(jobs, t, j) == [x \in DOMAIN jobs \cup {t} |-> IF x = t THEN j ELSE jobs[x]]

WithoutJob(jobs, t) == [x \in DOMAIN jobs \ {t} |-> jobs[x]]

\* Mutant: a reservation never makes the credit negative, so everybody who
\* waits waits for the same token.
ReserveAtZero(r) ==
  LET full == Burst * Interval
      credit == Min({r.credit + (now - r.last), full})
  IN [credit |-> Max({credit - Interval, 0}), delay |-> Max({Interval - credit, 0})]

\* The locked part of tokenBucket.Wait: refill, take a token, and wait for as
\* long as the bucket is in debt.
Reserve(r) ==
  LET full == Burst * Interval
      credit == Min({r.credit + (now - r.last), full}) - Interval
  IN [credit |-> credit, delay |-> Max({-credit, 0})]

\* A worker receives the smallest target left and goes to the bucket, which
\* turns it away when the context is done.
TakeJob(s) ==
  LET r == scan[s]
      b == Reserve(r)
  IN \E t \in r.todo :
     /\ Scanning(s)
     /\ \A u \in r.todo : t <= u
     /\ Cardinality(DOMAIN r.jobs) < MaxWorkers
     /\ \/ /\ ~r.expired
           /\ Set(s, [r EXCEPT !.todo = @ \ {t}, !.credit = b.credit, !.last = now,
                               !.jobs = WithJob(@, t, [phase |-> "waiting",
                                                       at |-> now + b.delay])])
        \/ /\ r.expired
           /\ Set(s, [r EXCEPT !.todo = @ \ {t}])
     /\ UNCHANGED scanState

\* The sender's select sees the context done.
StopSending(s) ==
  /\ Scanning(s)
  /\ scan[s].expired
  /\ scan[s].todo # {}
  /\ Set(s, [scan[s] EXCEPT !.todo = {}])
  /\ UNCHANGED scanState

\* The bucket lets the worker go.
StartProbe(s, t) ==
  /\ Scanning(s)
  /\ t \in DOMAIN scan[s].jobs
  /\ scan[s].jobs[t].phase = "waiting"
  /\ now >= scan[s].jobs[t].at
  /\ Set(s, [scan[s] EXCEPT !.jobs = WithJob(@, t, [phase |-> "probing", at |-> now]),
                            !.probes = @ + 1])
  /\ UNCHANGED scanState

\* The context ends the wait: the worker leaves the target without a result.
AbandonWait(s, t) ==
  /\ Scanning(s)
  /\ scan[s].expired
  /\ t \in DOMAIN scan[s].jobs
  /\ scan[s].jobs[t].phase = "waiting"
  /\ Set(s, [scan[s] EXCEPT !.jobs = WithoutJob(@, t)])
  /\ UNCHANGED scanState

\* Mutant: the results channel has room for one result per worker only.
ProbeIntoSmallChannel(s, t) ==
  /\ Scanning(s)
  /\ t \in DOMAIN scan[s].jobs
  /\ scan[s].jobs[t].phase = "probing"
  /\ Cardinality(scan[s].results) < Min({MaxWorkers, Cardinality(scan[s].targets)})
  /\ Set(s, [scan[s] EXCEPT
               !.results = @ \cup {t}, !.probed = @ + 1,
               !.jobs = WithJob(@, t, [phase |-> "reporting", n |-> scan[s].probed + 1])])
  /\ UNCHANGED scanState

\* probe: an answer, an error or its timeout is a candidate either way; the
\* channel has room for all of them, and the worker is the n-th to finish.
Probe(s, t) ==
  /\ Scanning(s)
  /\ t \in DOMAIN scan[s].jobs
  /\ scan[s].jobs[t].phase = "probing"
  /\ Set(s, [scan[s] EXCEPT
               !.results = @ \cup {t}, !.probed = @ + 1,
               !.jobs = WithJob(@, t, [phase |-> "reporting", n |-> scan[s].probed + 1])])
  /\ UNCHANGED scanState

\* updateScanProgress, by whichever worker gets there first.
Report(s, t) ==
  /\ t \in DOMAIN scan[s].jobs
  /\ scan[s].jobs[t].phase = "reporting"
  /\ scanState' = IF scanState.running
                  THEN [scanState EXCEPT !.probed = scan[s].jobs[t].n,
                                         !.total = Cardinality(scan[s].targets)]
                  ELSE scanState
  /\ Set(s, [scan[s] EXCEPT !.jobs = WithoutJob(@, t)])

\* The request's deadline, the end of its context, or ten minutes.
Expire(s) ==
  /\ Scanning(s)
  /\ ~scan[s].expired
  /\ Set(s, [scan[s] EXCEPT !.expired = TRUE])
  /\ UNCHANGED scanState

Tick ==
  /\ scanState.running
  /\ LET r == scan[scanState.started]
     IN \/ now < MaxTime
        \/ \E t \in DOMAIN r.jobs : r.jobs[t].phase = "waiting" /\ r.jobs[t].at > now
  /\ now' = now + 1
  /\ UNCHANGED <<serving, conn, scanState, scan, stored, crashes>>

-----------------------------------------------------------------------------
(***************************************************************************)
(* Its end.                                                                *)
(***************************************************************************)

\* What is left of a scan for save, and finishScan, which lets the next one
\* start.
Finish(s, expired) ==
  /\ scan' = [scan EXCEPT ![s] =
                [NoScan EXCEPT !.pc = "finished", !.conn = scan[s].conn,
                               !.targets = scan[s].targets,
                               !.results = scan[s].results,
                               !.probed = scan[s].probed, !.expired = expired]]
  /\ scanState' = [scanState EXCEPT !.running = FALSE, !.err = expired]
  /\ now' = 0
  /\ UNCHANGED <<serving, conn, stored, crashes>>

AllSent(s) == Scanning(s) /\ scan[s].todo = {}

\* Mutant: the error of the context is not returned.
FinishScanSilently(s) ==
  /\ AllSent(s)
  /\ DOMAIN scan[s].jobs = {}
  /\ Finish(s, FALSE)

\* The workers are gone; Scan returns, with an error if the context is done.
FinishScan(s) ==
  /\ AllSent(s)
  /\ DOMAIN scan[s].jobs = {}
  /\ Finish(s, scan[s].expired)

\* discoveryStore.save writes a file of its own and renames it; a failure is
\* ignored.  Then the answer of a request that waited.
SaveScan(s) ==
  /\ scan[s].pc = "finished"
  /\ \/ stored' = [started |-> s, candidates |-> scan[s].results,
                   err |-> scan[s].expired]
     \/ UNCHANGED stored
  /\ scan' = [scan EXCEPT ![s].pc = "done", ![s].conn = "none", ![s].results = {},
                          ![s].probed = 0, ![s].expired = FALSE]
  /\ conn' = [c \in Conns |-> IF c = scan[s].conn THEN AfterRequest ELSE conn[c]]
  /\ UNCHANGED <<serving, scanState, now, crashes>>

ScanStep(s) ==
  \/ TakeJob(s)
  \/ StopSending(s)
  \/ \E t \in DOMAIN scan[s].jobs :
       StartProbe(s, t) \/ AbandonWait(s, t) \/ Probe(s, t) \/ Report(s, t)
  \/ FinishScan(s)
  \/ SaveScan(s)

Next ==
  \/ \E c \in Conns : Accept(c) \/ Hangup(c)
  \/ \E c \in Conns, p \in Policies : StartAsync(c, p) \/ StartSync(c, p) \/ Refuse(c, p)
  \/ \E s \in ScanIds : ScanStep(s) \/ Expire(s)
  \/ Shutdown
  \/ Crash
  \/ Tick

Spec == Init /\ [][Next]_vars

\* Goroutines run, probes return within their timeout, and time passes.
FairSpec ==
  /\ Spec
  /\ \A s \in ScanIds : WF_vars(ScanStep(s))
  /\ WF_vars(Tick)

-----------------------------------------------------------------------------
(***************************************************************************)
(* Properties.                                                             *)
(***************************************************************************)

\* Candidates stored without an error are a whole scan: one for every address
\* the policy allows, although workers leave targets without a result when
\* the context ends (Scan, limiter.Wait).
StoredIsComplete ==
  stored.started # 0 /\ ~stored.err =>
    stored.candidates = scan[stored.started].targets

\* However many workers wait for the bucket and however often they find it
\* empty, a scan sends no more probes than its burst and the time since it
\* began allow (tokenBucket.Wait).
RateBound ==
  \A s \in ScanIds : Scanning(s) => scan[s].probes <= Burst + now \div Interval

\* Progress is about the scan that runs: no count of an earlier scan shows up
\* in it, and it never claims more than was probed (updateScanProgress).
ProgressIsOwn ==
  scanState.running =>
    LET r == scan[scanState.started]
    IN /\ r.pc = "scanning"
       /\ scanState.total = Cardinality(r.targets)
       /\ scanState.probed <= r.probed

\* What a scan shows while it runs and leaves behind is its own and whole,
\* although its workers report in any order and the next one may have begun.
ResultsAreOwn == TypeOK /\ StoredIsComplete /\ ProgressIsOwn

\* A scan ends and its request is answered, whatever happens to its context
\* and its targets: neither the pool, nor the bucket, nor the channels block it.
ScanEnds == \A s \in ScanIds : Scanning(s) ~> scan[s].pc \in {"done", "lost"}
=============================================================================
