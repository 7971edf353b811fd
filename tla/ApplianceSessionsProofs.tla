----------------------- MODULE ApplianceSessionsProofs -----------------------
(***************************************************************************)
(* Proofs about ApplianceSessions for any number of users, requests and    *)
(* sessions, and every limit: the type invariant, no service for a session *)
(* that is over or a secret that was rotated, the bound on failed logins   *)
(* and the life of the rows.                                               *)
(***************************************************************************)
EXTENDS ApplianceSessions, FiniteSetTheorems, TLAPS

-----------------------------------------------------------------------------
(***************************************************************************)
(* The inductive invariant.                                                *)
(***************************************************************************)

\* What a session that was over when the request came looks like until the
\* request is answered, and the same for a secret that was not the current one.
RequestInv(r) ==
  LET q == request[r] IN
  /\ q.step \in {"authenticate", "fail", "create"} => q.user \in Users
  /\ q.step \in {"find", "status", "drop", "rotate", "revoke"} => q.token # 0
  /\ q.step = "find" =>
       /\ q.over = "ended" => Over(table[q.token])
       /\ q.over = "disabled" =>
            table[q.token] = NoRow \/ table[q.token].user \notin enabled
       /\ ~q.fresh =>
            /\ q.op \notin {"me", "read"}
            /\ table[q.token] = NoRow \/ table[q.token].csrf # q.csrf
  /\ q.step = "status" =>
       /\ q.over # "ended"
       /\ q.over = "disabled" => q.row.user \notin enabled
       /\ ~q.fresh => q.op \notin {"me", "read"} /\ q.row.csrf # q.csrf
  /\ InService(r) => q.over = "no" /\ q.fresh

\* Logins that may still add a failure for a user.
Trying(u) ==
  {r \in Requests : request[r].step \in {"authenticate", "fail"} /\ request[r].user = u}

\* A failure and the login that recorded it are never counted twice.
LimiterInv(u) ==
  limiter[u].failures + Cardinality(Trying(u)) <= Limit + Cardinality(Requests) - 1

IInv ==
  /\ TypeOK
  /\ \A r \in Requests : RequestInv(r)
  /\ \A u \in DOMAIN limiter : LimiterInv(u)

\* What a step may do to the rows: one that is over stays over, none comes
\* back, and a secret is only replaced by one that was never drawn.
RowsKeep ==
  \A t \in 1 .. tokens :
    /\ Over(table[t]) => Over(table'[t])
    /\ \/ table'[t] = NoRow
       \/ /\ table[t] # NoRow
          /\ table'[t].user = table[t].user
          /\ table'[t].csrf = table[t].csrf \/ table'[t].csrf > secrets

\* The bounds, one by one.
LEMMA Bounds ==
  /\ Limit \in Nat \ {0} /\ MaxEntries \in Nat \ {0} /\ Lifetime \in Nat \ {0}
  /\ Window \in Nat /\ Grace \in Nat /\ MaxTokens \in Nat /\ MaxSecrets \in Nat
  /\ MaxTime \in Nat /\ MaxChanges \in Nat /\ MaxRestarts \in Nat
BY SessionAssumption

\* The counters are natural numbers.
LEMMA Counters ==
  ASSUME TypeOK
  PROVE  /\ now \in Nat /\ tokens \in Nat /\ secrets \in Nat
         /\ tokens <= MaxTokens
BY Bounds DEF TypeOK

-----------------------------------------------------------------------------
(***************************************************************************)
(* Frames: what a step need not be asked about.                            *)
(***************************************************************************)

\* A step that leaves the table alone keeps the rows.
LEMMA SameRows ==
  ASSUME TypeOK, table' = table
  PROVE  RowsKeep
BY DEF TypeOK, RowsKeep

\* A slot that is free again has nothing to keep.
LEMMA FreeSlot ==
  ASSUME NEW r \in Requests, request'[r] = Idle
  PROVE  RequestInv(r)'
<1>1. request'[r].step = "idle"
  BY DEF Idle
<1>2. QED
  BY <1>1 DEF RequestInv, InService

\* A request that does not move keeps its invariant while rows are kept, time
\* passes and accounts are disabled.
LEMMA SameRequest ==
  ASSUME TypeOK, TypeOK', RowsKeep, NEW r \in Requests, RequestInv(r),
         request'[r] = request[r], now' >= now, enabled' \subseteq enabled
  PROVE  RequestInv(r)'
<1> DEFINE q == request[r]
           t == q.token
<1>1. q \in Request /\ q.token <= tokens /\ q.csrf <= secrets
  BY DEF TypeOK
<1>2. t \in Nat /\ q.csrf \in Nat /\ tokens \in 0 .. MaxTokens /\ secrets \in Nat
  BY <1>1, SessionAssumption DEF TypeOK, Request
<1>3. now \in Int /\ now' \in Int
  BY SessionAssumption DEF TypeOK
<1>4. ASSUME q.step = "find"
      PROVE  /\ q.over = "ended" => Over(table[t])'
             /\ q.over = "disabled" =>
                  table'[t] = NoRow \/ table'[t].user \notin enabled'
             /\ ~q.fresh =>
                  /\ q.op \notin {"me", "read"}
                  /\ table'[t] = NoRow \/ table'[t].csrf # q.csrf
  <2>1. t \in 1 .. tokens /\ t \in 1 .. MaxTokens
    BY <1>1, <1>2, <1>4, SessionAssumption DEF RequestInv
  <2>2. /\ q.over = "ended" => Over(table[t])
        /\ q.over = "disabled" => table[t] = NoRow \/ table[t].user \notin enabled
        /\ ~q.fresh => /\ q.op \notin {"me", "read"}
                       /\ table[t] = NoRow \/ table[t].csrf # q.csrf
    BY <1>4 DEF RequestInv
  <2>3. /\ Over(table[t]) => Over(table'[t])
        /\ \/ table'[t] = NoRow
           \/ /\ table[t] # NoRow
              /\ table'[t].user = table[t].user
              /\ table'[t].csrf = table[t].csrf \/ table'[t].csrf > secrets
    BY <2>1 DEF RowsKeep
  <2>4. table'[t] \in Row
    BY <2>1 DEF TypeOK
  <2>5. Over(table'[t]) => Over(table[t])'
    BY <2>4, <1>3 DEF Over, Row
  <2>6. table'[t].csrf > secrets => table'[t].csrf # q.csrf
    BY <2>4, <1>1, <1>2 DEF Row
  <2> QED
    BY <2>2, <2>3, <2>5, <2>6
<1>5. QED
  BY <1>4 DEF RequestInv, InService

\* A user whose entry stays and for whom no login begins keeps the bound.
LEMMA SameEntry ==
  ASSUME TypeOK, TypeOK', NEW u \in DOMAIN limiter, LimiterInv(u),
         limiter'[u] = limiter[u], u \in DOMAIN limiter',
         Trying(u)' \subseteq Trying(u)
  PROVE  LimiterInv(u)'
<1>1. IsFiniteSet(Trying(u))
  BY SessionAssumption, FS_Subset DEF Trying
<1>2. /\ Cardinality(Trying(u)) \in Nat
      /\ Cardinality(Trying(u)') \in Nat
      /\ Cardinality(Trying(u)') <= Cardinality(Trying(u))
  BY <1>1, FS_Subset, FS_CardinalityType
<1>3. limiter[u].failures \in Nat
  BY DEF TypeOK, Entry
<1>4. Limit \in Nat /\ Cardinality(Requests) \in Nat
  BY SessionAssumption, FS_CardinalityType
<1>5. QED
  BY <1>2, <1>3, <1>4 DEF LimiterInv

-----------------------------------------------------------------------------
(***************************************************************************)
(* A step moves one request, or none.                                      *)
(***************************************************************************)

\* TypeOK without the requests.
DataOK ==
  /\ now \in 0 .. MaxTime
  /\ enabled \subseteq Users
  /\ changes \in 0 .. MaxChanges
  /\ tokens \in 0 .. MaxTokens
  /\ secrets \in 0 .. MaxSecrets
  /\ table \in [1 .. MaxTokens -> Row]
  /\ \A t \in 1 .. MaxTokens :
       table[t] # NoRow =>
         /\ t <= tokens
         /\ table[t].user \in Users
         /\ table[t].csrf \in 1 .. secrets
         /\ table[t].expires <= now + Lifetime
         /\ table[t].revoked \in {Never} \cup 0 .. now
  /\ DOMAIN limiter \subseteq Users
  /\ limiter \in [DOMAIN limiter -> Entry]
  /\ Cardinality(DOMAIN limiter) <= MaxEntries
  /\ \A u \in DOMAIN limiter : limiter[u].windowEnd <= now + Window
  /\ restarts \in 0 .. MaxRestarts

\* What the other half of TypeOK says of one request.
SlotOK(q) == q \in Request /\ q.token <= tokens /\ q.csrf <= secrets

\* The two halves.
LEMMA TypeHalves == TypeOK <=> DataOK /\ request \in [Requests -> Request]
                                      /\ \A r \in Requests : SlotOK(request[r])
BY DEF TypeOK, DataOK, SlotOK

\* An empty slot is in order.
LEMMA IdleOK == ASSUME TypeOK PROVE SlotOK(Idle)
<1>1. NoRow \in Row
  BY DEF NoRow, Row, Never
<1>2. Idle \in Request
  BY <1>1 DEF Idle, Request, Ops, Steps
<1>3. Idle.token = 0 /\ Idle.csrf = 0
  BY DEF Idle
<1>4. 0 <= tokens /\ 0 <= secrets
  BY SessionAssumption DEF TypeOK
<1>5. QED
  BY <1>2, <1>3, <1>4 DEF SlotOK

\* One request moves to q.
LEMMA OneMoves ==
  ASSUME IInv, DataOK', RowsKeep, now' >= now, enabled' \subseteq enabled,
         tokens' >= tokens, secrets' >= secrets,
         NEW r \in Requests, NEW q, SlotOK(q)',
         request' = [request EXCEPT ![r] = q], RequestInv(r)'
  PROVE  /\ TypeOK'
         /\ \A s \in Requests : RequestInv(s)'
<1>1. request \in [Requests -> Request] /\ DataOK
  BY TypeHalves DEF IInv
<1>2. q \in Request
  BY DEF SlotOK
<1>3. request' \in [Requests -> Request]
  BY <1>1, <1>2
<1>4. \A s \in Requests : request'[s] = IF s = r THEN q ELSE request[s]
  BY <1>1
<1>5. ASSUME NEW s \in Requests, s # r PROVE SlotOK(request[s])'
  <2>1. request'[s] = request[s] /\ SlotOK(request[s])
    BY <1>4, <1>5, TypeHalves DEF IInv
  <2>2. tokens \in Nat /\ secrets \in Nat /\ tokens' \in Nat /\ secrets' \in Nat
    BY <1>1, SessionAssumption DEF DataOK
  <2>3. request[s].token \in Nat /\ request[s].csrf \in Nat
    BY <1>1 DEF Request
  <2>4. QED
    BY <2>1, <2>2, <2>3 DEF SlotOK
<1>6. \A s \in Requests : SlotOK(request[s])'
  BY <1>4, <1>5
<1>7. TypeOK'
  BY <1>3, <1>6 DEF TypeOK, DataOK, SlotOK
<1>8. ASSUME NEW s \in Requests, s # r PROVE RequestInv(s)'
  BY <1>4, <1>7, <1>8, SameRequest DEF IInv
<1>9. QED
  BY <1>7, <1>8

\* No request moves.
LEMMA NoneMoves ==
  ASSUME IInv, DataOK', RowsKeep, now' >= now, enabled' \subseteq enabled,
         tokens' >= tokens, secrets' >= secrets, request' = request
  PROVE  /\ TypeOK'
         /\ \A s \in Requests : RequestInv(s)'
<1>1. request \in [Requests -> Request] /\ DataOK
  BY TypeHalves DEF IInv
<1>2. ASSUME NEW s \in Requests PROVE SlotOK(request[s])'
  <2>1. SlotOK(request[s])
    BY TypeHalves DEF IInv
  <2>2. tokens \in Nat /\ secrets \in Nat /\ tokens' \in Nat /\ secrets' \in Nat
    BY <1>1, SessionAssumption DEF DataOK
  <2>3. request[s].token \in Nat /\ request[s].csrf \in Nat
    BY <1>1 DEF Request
  <2>4. QED
    BY <2>1, <2>2, <2>3 DEF SlotOK
<1>3. TypeOK'
  BY <1>1, <1>2 DEF TypeOK, DataOK, SlotOK
<1>4. ASSUME NEW s \in Requests PROVE RequestInv(s)'
  BY <1>3, SameRequest DEF IInv
<1>5. QED
  BY <1>3, <1>4

\* No login begins, and no entry changes but those that go.
LEMMA EntriesKeep ==
  ASSUME IInv, TypeOK',
         \A u \in DOMAIN limiter' : u \in DOMAIN limiter /\ limiter'[u] = limiter[u],
         \A r \in Requests :
           request'[r].step \in {"authenticate", "fail"} =>
             /\ request[r].step \in {"authenticate", "fail"}
             /\ request'[r].user = request[r].user
  PROVE  \A u \in DOMAIN limiter' : LimiterInv(u)'
<1>1. \A u : Trying(u)' \subseteq Trying(u)
  BY DEF Trying
<1>2. QED
  BY <1>1, SameEntry DEF IInv

-----------------------------------------------------------------------------
(***************************************************************************)
(* The steps that only move a request.                                     *)
(***************************************************************************)

\* A request moves to a slot that is in order, keeps its invariant there, and
\* starts no login.
LEMMA JustMoves ==
  ASSUME IInv, NEW r \in Requests, NEW q, SlotOK(q),
         request' = [request EXCEPT ![r] = q],
         UNCHANGED <<now, enabled, changes, table, tokens, secrets, limiter, restarts>>,
         RequestInv(r)',
         q.step \in {"authenticate", "fail"} =>
           /\ request[r].step \in {"authenticate", "fail"}
           /\ q.user = request[r].user
  PROVE  IInv'
<1>1. TypeOK /\ DataOK
  BY TypeHalves DEF IInv
<1>2. DataOK' /\ SlotOK(q)'
  BY <1>1 DEF DataOK, SlotOK
<1>3. RowsKeep
  BY <1>1, SameRows
<1>4. now' >= now /\ tokens' >= tokens /\ secrets' >= secrets
  BY <1>1, SessionAssumption DEF DataOK
<1>5. TypeOK' /\ \A s \in Requests : RequestInv(s)'
  BY <1>2, <1>3, <1>4, OneMoves
<1>6. \A s \in Requests : request'[s] = IF s = r THEN q ELSE request[s]
  BY <1>1 DEF TypeOK
<1>7. \A u \in DOMAIN limiter' : LimiterInv(u)'
  BY <1>5, <1>6, EntriesKeep
<1>8. QED
  BY <1>5, <1>7 DEF IInv

\* A request is answered.
LEMMA Responds ==
  ASSUME IInv, NEW r \in Requests, Respond(r),
         UNCHANGED <<now, enabled, changes, table, tokens, secrets, limiter, restarts>>
  PROVE  IInv'
<1>1. TypeOK /\ request \in [Requests -> Request]
  BY DEF IInv, TypeOK
<1>2. request' = [request EXCEPT ![r] = Idle] /\ request'[r] = Idle
  BY <1>1 DEF Respond
<1>3. RequestInv(r)'
  BY <1>2, FreeSlot
<1>4. Idle.step = "idle"
  BY DEF Idle
<1>5. QED
  BY <1>1, <1>2, <1>3, <1>4, IdleOK, JustMoves

\* A request goes to its next step.
LEMMA GoesOn ==
  ASSUME IInv, NEW r \in Requests, NEW step \in Steps, Goto(r, step)
  PROVE  /\ request' = [request EXCEPT ![r] = [request[r] EXCEPT !.step = step]]
         /\ request'[r] = [request[r] EXCEPT !.step = step]
         /\ SlotOK([request[r] EXCEPT !.step = step])
<1>1. request \in [Requests -> Request] /\ SlotOK(request[r])
  BY TypeHalves DEF IInv
<1>2. request' = [request EXCEPT ![r].step = step]
  BY DEF Goto
<1>3. [request[r] EXCEPT !.step = step] \in Request
  BY <1>1 DEF Request
<1>4. SlotOK([request[r] EXCEPT !.step = step])
  BY <1>1, <1>3 DEF SlotOK, Request
<1>5. QED
  BY <1>1, <1>2, <1>4

\* The answer of the broker to a login.
LEMMA AuthenticateStep ==
  ASSUME IInv, NEW r \in Requests, Authenticate(r) PROVE IInv'
<1>1. TypeOK /\ request[r] \in Request /\ RequestInv(r)
      /\ request[r].step = "authenticate"
  BY DEF IInv, TypeOK, Authenticate, At
<1>2. ASSUME NEW step \in {"create", "fail"}, Goto(r, step) PROVE IInv'
  <2> DEFINE q == [request[r] EXCEPT !.step = step]
  <2>1. step \in Steps
    BY DEF Steps
  <2>2. request' = [request EXCEPT ![r] = q] /\ request'[r] = q /\ SlotOK(q)
    BY <1>2, <2>1, GoesOn
  <2>3. q.step = step /\ q.user = request[r].user
    BY <1>1 DEF Request
  <2>4. request[r].user \in Users
    BY <1>1 DEF RequestInv
  <2>5. RequestInv(r)'
    BY <2>2, <2>3, <2>4 DEF RequestInv, InService
  <2>6. QED
    BY <1>1, <2>2, <2>3, <2>5, JustMoves DEF Authenticate
<1>3. CASE Respond(r)
  BY <1>3, Responds DEF Authenticate
<1>4. QED
  BY <1>2, <1>3 DEF Authenticate

\* A request arrives with the cookie of a session and a CSRF header.
LEMMA BeginRequestStep ==
  ASSUME IInv, NEW r \in Requests, NEW op \in Ops, NEW t \in 1 .. tokens,
         NEW c \in 0 .. secrets, BeginRequest(r, op, t, c)
  PROVE  IInv'
<1> DEFINE over == WhyOver(table[t])
           fresh == op \in {"me", "read"} \/ c = table[t].csrf
           q == [Idle EXCEPT !.op = op, !.step = "find", !.token = t, !.csrf = c,
                             !.over = over, !.fresh = fresh]
<1>1. TypeOK /\ request \in [Requests -> Request] /\ SlotOK(Idle)
  BY IdleOK DEF IInv, TypeOK
<1>2. tokens \in Nat /\ secrets \in Nat /\ t \in 1 .. MaxTokens
  BY <1>1, SessionAssumption DEF TypeOK
<1>3. over \in {"no", "ended", "disabled"}
  BY DEF WhyOver
<1>4. fresh \in BOOLEAN
  OBVIOUS
<1>5. request' = [request EXCEPT ![r] = q]
  BY DEF BeginRequest
<1> HIDE DEF over, fresh
<1>6. q \in Request
  <2> DEFINE p == [Idle EXCEPT !.op = op, !.step = "find", !.token = t, !.csrf = c,
                               !.over = over]
  <2>1. "find" \in Steps /\ t \in Nat /\ c \in Nat
    BY <1>2 DEF Steps
  <2>2. p \in Request
    BY <1>1, <1>3, <2>1 DEF SlotOK, Request
  <2>3. q = [p EXCEPT !.fresh = fresh]
    OBVIOUS
  <2> HIDE DEF p
  <2>4. QED
    BY <1>4, <2>2, <2>3 DEF Request
<1>7. /\ q.op = op /\ q.step = "find" /\ q.token = t /\ q.csrf = c
      /\ q.over = over /\ (q.fresh <=> fresh)
  BY <1>1 DEF SlotOK, Request
<1>8. SlotOK(q)
  BY <1>2, <1>6, <1>7 DEF SlotOK
<1>9. request'[r] = q
  BY <1>1, <1>5
<1>10. /\ over = "ended" => Over(table[t])'
       /\ over = "disabled" => table'[t].user \notin enabled'
  BY DEF over, WhyOver, BeginRequest, Over
<1>11. ~fresh => op \notin {"me", "read"} /\ table'[t].csrf # c
  BY DEF fresh, BeginRequest
<1> HIDE DEF q
<1>12. RequestInv(r)'
  <2>1. /\ request'[r].step = "find" /\ request'[r].token = t
        /\ request'[r].op = op /\ request'[r].csrf = c /\ request'[r].over = over
    BY <1>7, <1>9
  <2>2. request'[r].fresh <=> fresh
    BY <1>7, <1>9
  <2>3. t # 0
    BY <1>2
  <2>4. QED
    BY <1>10, <1>11, <2>1, <2>2, <2>3 DEF RequestInv, InService
<1>13. QED
  BY <1>5, <1>7, <1>8, <1>12, JustMoves DEF BeginRequest

\* The row of a session that is not over is found, and kept with the request.
LEMMA FindStep ==
  ASSUME IInv, NEW r \in Requests, Find(r) PROVE IInv'
<1> DEFINE row == table[request[r].token]
           q == [request[r] EXCEPT !.step = "status", !.row = row]
<1>1. TypeOK /\ request \in [Requests -> Request] /\ SlotOK(request[r])
      /\ RequestInv(r) /\ request[r].step = "find"
  BY TypeHalves DEF IInv, Find, At
<1>2. CASE Respond(r)
  BY <1>2, Responds DEF Find
<1>3. CASE /\ Finds(row)
           /\ request' = [request EXCEPT ![r].step = "status", ![r].row = row]
  <2>1. request[r].token \in 1 .. MaxTokens
    <3>1. request[r].token \in Nat /\ request[r].token # 0
      BY <1>1 DEF RequestInv, Request
    <3>2. request[r].token <= tokens /\ tokens \in 0 .. MaxTokens
      BY <1>1 DEF SlotOK, TypeOK
    <3>3. QED
      BY <3>1, <3>2, SessionAssumption
  <2>2. row \in Row
    BY <1>1, <2>1 DEF TypeOK
  <2>3. request' = [request EXCEPT ![r] = q] /\ request'[r] = q
    BY <1>1, <1>3
  <2>4. /\ q.step = "status" /\ q.row = row /\ q.token = request[r].token
        /\ q.csrf = request[r].csrf /\ q.op = request[r].op
        /\ q.over = request[r].over
    BY <1>1 DEF Request
  <2>5. q.fresh = request[r].fresh
    BY <1>1 DEF Request
  <2>6. q \in Request
    BY <1>1, <2>2 DEF Request, Steps
  <2>7. SlotOK(q)
    BY <1>1, <2>4, <2>6 DEF SlotOK
  <2>8. ~Over(row) /\ row # NoRow
    <3>1. now \in Int /\ row.expires \in Int
      BY <1>1, <2>2, SessionAssumption DEF TypeOK, Row
    <3> HIDE DEF row
    <3>2. QED
      BY <1>3, <3>1 DEF Finds, Over
  <2>9. /\ request[r].over # "ended"
        /\ request[r].over = "disabled" => row.user \notin enabled
        /\ ~request[r].fresh =>
             request[r].op \notin {"me", "read"} /\ row.csrf # request[r].csrf
    BY <1>1, <2>8 DEF RequestInv
  <2>10. enabled' = enabled /\ request[r].token # 0
    BY <2>1 DEF Find
  <2> HIDE DEF q, row
  <2>11. RequestInv(r)'
    <3>1. /\ request'[r].step = "status" /\ request'[r].row = row
          /\ request'[r].token = request[r].token /\ request'[r].csrf = request[r].csrf
          /\ request'[r].op = request[r].op /\ request'[r].over = request[r].over
      BY <2>3, <2>4
    <3>2. request'[r].fresh = request[r].fresh
      BY <2>3, <2>5
    <3>3. QED
      BY <2>9, <2>10, <3>1, <3>2 DEF RequestInv, InService
  <2>12. QED
    BY <2>3, <2>4, <2>7, <2>11, JustMoves DEF Find
<1>4. QED
  BY <1>2, <1>3 DEF Find

\* A request whose session was good when it came, or one whose account is gone,
\* goes on without its row.
LEMMA Proceeds ==
  ASSUME IInv, NEW r \in Requests, request[r].step = "status",
         NEW step \in {"drop", "served", "rotate", "revoke"}, Proceed(r, step),
         step # "drop" => request[r].over = "no" /\ request[r].fresh,
         UNCHANGED <<now, enabled, changes, table, tokens, secrets, limiter, restarts>>
  PROVE  IInv'
<1> DEFINE q == [request[r] EXCEPT !.step = step, !.op = "read", !.csrf = 0, !.row = NoRow]
<1>1. TypeOK /\ request \in [Requests -> Request] /\ SlotOK(request[r])
      /\ request[r].token # 0
  BY TypeHalves DEF IInv, RequestInv
<1>2. request' = [request EXCEPT ![r] = q] /\ request'[r] = q
  BY <1>1 DEF Proceed
<1>3. /\ q.step = step /\ q.token = request[r].token /\ q.csrf = 0
      /\ q.over = request[r].over
  BY <1>1 DEF Request
<1>4. q.fresh = request[r].fresh
  BY <1>1 DEF Request
<1>5. q \in Request
  <2>1. NoRow \in Row
    BY DEF NoRow, Row, Never
  <2>2. step \in Steps /\ "read" \in Ops
    BY DEF Steps, Ops
  <2>3. QED
    BY <1>1, <2>1, <2>2 DEF Request
<1>6. SlotOK(q)
  BY <1>1, <1>3, <1>5, SessionAssumption DEF SlotOK, TypeOK
<1> HIDE DEF q
<1>7. RequestInv(r)'
  <2>1. /\ request'[r].step = step /\ request'[r].token = request[r].token
        /\ request'[r].over = request[r].over
    BY <1>2, <1>3
  <2>2. request'[r].fresh = request[r].fresh
    BY <1>2, <1>4
  <2>3. QED
    BY <1>1, <2>1, <2>2 DEF RequestInv, InService
<1>8. QED
  BY <1>2, <1>3, <1>6, <1>7, JustMoves

\* The broker says whether the account is active, and the header is checked.
LEMMA AccountStatusStep ==
  ASSUME IInv, NEW r \in Requests, AccountStatus(r) PROVE IInv'
<1>1. request[r] \in Request /\ RequestInv(r) /\ request[r].step = "status"
  BY DEF IInv, TypeOK, AccountStatus, At
<1>2. CASE Respond(r)
  BY <1>2, Responds DEF AccountStatus
<1>3. CASE Proceed(r, "drop")
  BY <1>1, <1>3, Proceeds DEF AccountStatus
<1>4. CASE /\ request[r].row.user \in enabled
           /\ request[r].op \in {"me", "read"} \/ CsrfMatches(r)
           /\ Proceed(r, AfterValidate(r))
  <2>1. AfterValidate(r) \in {"served", "rotate", "revoke"}
    BY DEF AfterValidate
  <2>2. request[r].over \in {"no", "ended", "disabled"}
    BY <1>1 DEF Request
  <2>3. request[r].over = "no"
    BY <1>1, <1>4, <2>2 DEF RequestInv
  <2>4. request[r].fresh
    BY <1>1, <1>4 DEF RequestInv, CsrfMatches
  <2>5. QED
    BY <1>1, <1>4, <2>1, <2>3, <2>4, Proceeds DEF AccountStatus
<1>5. QED
  BY <1>2, <1>3, <1>4 DEF AccountStatus

\* The handler answers.
LEMMA ServedStep ==
  ASSUME IInv, NEW r \in Requests, Served(r) PROVE IInv'
BY Responds DEF Served

-----------------------------------------------------------------------------
(***************************************************************************)
(* The statements on appliance_sessions.                                   *)
(***************************************************************************)

\* What LiveSessionsStay says of the rows that are not over.
LiveRowsKeep ==
  \A t \in 1 .. MaxTokens : ~Over(table[t]) => table'[t] # NoRow

\* The INSERT adds a row for a token nobody had.
LEMMA InsertRows ==
  ASSUME TypeOK, tokens < MaxTokens, secrets < MaxSecrets, NEW u \in Users,
         tokens' = tokens + 1, secrets' = secrets + 1,
         table' = [table EXCEPT ![tokens + 1] =
                     [user |-> u, csrf |-> secrets + 1,
                      expires |-> now + Lifetime, revoked |-> Never]],
         UNCHANGED <<now, enabled, changes, limiter, restarts>>
  PROVE  DataOK' /\ RowsKeep /\ LiveRowsKeep
<1> DEFINE row == [user |-> u, csrf |-> secrets + 1,
                   expires |-> now + Lifetime, revoked |-> Never]
<1>1. /\ tokens \in 0 .. MaxTokens /\ secrets \in 0 .. MaxSecrets /\ now \in 0 .. MaxTime
      /\ MaxTokens \in Nat /\ MaxSecrets \in Nat /\ MaxTime \in Nat /\ Lifetime \in Nat
      /\ table \in [1 .. MaxTokens -> Row]
  BY SessionAssumption DEF TypeOK
<1>2. row \in Row
  BY <1>1 DEF Row, Never
<1>3. table' \in [1 .. MaxTokens -> Row]
  BY <1>1, <1>2
<1>4. \A t \in 1 .. MaxTokens : table'[t] = IF t = tokens + 1 THEN row ELSE table[t]
  BY <1>1
<1>5. table[tokens + 1] = NoRow
  BY <1>1 DEF TypeOK
<1>6. row # NoRow
  BY <1>1, SessionAssumption DEF NoRow, Never
<1>7. \A t \in 1 .. MaxTokens :
        table'[t] # NoRow =>
          /\ t <= tokens'
          /\ table'[t].user \in Users
          /\ table'[t].csrf \in 1 .. secrets'
          /\ table'[t].expires <= now' + Lifetime
          /\ table'[t].revoked \in {Never} \cup 0 .. now'
  <2> SUFFICES ASSUME NEW t \in 1 .. MaxTokens, table'[t] # NoRow
               PROVE  /\ t <= tokens'
                      /\ table'[t].user \in Users
                      /\ table'[t].csrf \in 1 .. secrets'
                      /\ table'[t].expires <= now' + Lifetime
                      /\ table'[t].revoked \in {Never} \cup 0 .. now'
    OBVIOUS
  <2>1. CASE t = tokens + 1
    <3>1. table'[t] = row
      BY <1>4, <2>1
    <3>2. /\ row.user = u /\ row.csrf = secrets + 1
          /\ row.expires = now + Lifetime /\ row.revoked = Never
      OBVIOUS
    <3> HIDE DEF row
    <3>3. QED
      BY <1>1, <2>1, <3>1, <3>2
  <2>2. CASE t # tokens + 1
    <3>1. table'[t] = table[t]
      BY <1>4, <2>2
    <3>2. /\ t <= tokens /\ table[t].user \in Users /\ table[t].csrf \in 1 .. secrets
          /\ table[t].expires <= now + Lifetime
          /\ table[t].revoked \in {Never} \cup 0 .. now
      BY <2>2, <3>1 DEF TypeOK
    <3>3. QED
      BY <1>1, <3>1, <3>2
  <2>3. QED
    BY <2>1, <2>2
<1>8. tokens' \in 0 .. MaxTokens /\ secrets' \in 0 .. MaxSecrets
  BY <1>1
<1>9. DataOK'
  BY <1>3, <1>7, <1>8 DEF DataOK, TypeOK
<1> HIDE DEF row
<1>10. RowsKeep
  <2>1. \A t \in 1 .. tokens : table'[t] = table[t]
    BY <1>1, <1>4
  <2>2. QED
    BY <2>1 DEF RowsKeep
<1>11. LiveRowsKeep
  BY <1>4, <1>6 DEF LiveRowsKeep, Over
<1>12. QED
  BY <1>9, <1>10, <1>11

\* The DELETE removes rows that are over.
LEMMA SweepRows ==
  ASSUME TypeOK,
         table' = [t \in 1 .. MaxTokens |->
                     IF table[t] # NoRow /\ Ended(table[t]) THEN NoRow ELSE table[t]],
         UNCHANGED <<now, enabled, changes, tokens, secrets, limiter, restarts>>
  PROVE  DataOK' /\ RowsKeep /\ LiveRowsKeep
<1>1. now \in 0 .. MaxTime /\ {MaxTime, Grace, MaxTokens} \subseteq Nat
      /\ tokens \in 0 .. MaxTokens /\ table \in [1 .. MaxTokens -> Row]
  BY SessionAssumption DEF TypeOK
<1>2. \A t \in 1 .. MaxTokens : table'[t] = NoRow \/ table'[t] = table[t]
  OBVIOUS
<1>3. NoRow \in Row
  BY DEF NoRow, Row, Never
<1>4. table' \in [1 .. MaxTokens -> Row]
  BY <1>1, <1>3
<1>5. DataOK'
  BY <1>2, <1>4 DEF DataOK, TypeOK
<1>6. RowsKeep
  <2>1. \A t \in 1 .. tokens : t \in 1 .. MaxTokens
    BY <1>1
  <2>2. QED
    BY <1>2, <2>1 DEF RowsKeep, Over
<1>7. LiveRowsKeep
  <2> SUFFICES ASSUME NEW t \in 1 .. MaxTokens, ~Over(table[t])
               PROVE  table'[t] # NoRow
    BY DEF LiveRowsKeep
  <2>1. table[t] \in Row
    BY <1>1
  <2>2. table[t].expires \in Int
    BY <2>1 DEF Row
  <2>3. ~Ended(table[t])
    BY <1>1, <2>2 DEF Over, Ended
  <2>4. QED
    BY <2>3 DEF Over
<1>8. QED
  BY <1>5, <1>6, <1>7

\* One UPDATE: the row of one token gets a time of revocation, or a secret
\* nobody had.
LEMMA UpdateRow ==
  ASSUME TypeOK, NEW k \in 1 .. MaxTokens, NEW row \in Row,
         table[k] # NoRow, row # NoRow,
         table' = [table EXCEPT ![k] = row],
         row.user = table[k].user, row.expires = table[k].expires,
         \/ /\ row.csrf = table[k].csrf /\ secrets' = secrets
            /\ row.revoked \in 0 .. now /\ table[k].revoked = Never
         \/ /\ row.csrf = secrets + 1 /\ secrets' = secrets + 1
            /\ row.revoked = table[k].revoked /\ secrets < MaxSecrets,
         UNCHANGED <<now, enabled, changes, tokens, limiter, restarts>>
  PROVE  DataOK' /\ RowsKeep /\ LiveRowsKeep
<1>1. /\ tokens \in 0 .. MaxTokens /\ secrets \in 0 .. MaxSecrets /\ now \in 0 .. MaxTime
      /\ MaxTokens \in Nat /\ MaxSecrets \in Nat /\ MaxTime \in Nat /\ Lifetime \in Nat
      /\ table \in [1 .. MaxTokens -> Row]
  BY SessionAssumption DEF TypeOK
<1>2. \A t \in 1 .. MaxTokens : table'[t] = IF t = k THEN row ELSE table[t]
  BY <1>1
<1>3. table' \in [1 .. MaxTokens -> Row]
  BY <1>1
<1>4. secrets' \in 0 .. MaxSecrets /\ secrets' >= secrets
  BY <1>1
<1>5. /\ k <= tokens /\ table[k].user \in Users /\ table[k].csrf \in 1 .. secrets
      /\ table[k].expires <= now + Lifetime
      /\ table[k].revoked \in {Never} \cup 0 .. now
  BY DEF TypeOK
<1>6. row.csrf \in 1 .. secrets' /\ row.revoked \in {Never} \cup 0 .. now
  BY <1>1, <1>5
<1>7. \A t \in 1 .. MaxTokens :
        table'[t] # NoRow =>
          /\ t <= tokens'
          /\ table'[t].user \in Users
          /\ table'[t].csrf \in 1 .. secrets'
          /\ table'[t].expires <= now' + Lifetime
          /\ table'[t].revoked \in {Never} \cup 0 .. now'
  <2> SUFFICES ASSUME NEW t \in 1 .. MaxTokens, table'[t] # NoRow
               PROVE  /\ t <= tokens'
                      /\ table'[t].user \in Users
                      /\ table'[t].csrf \in 1 .. secrets'
                      /\ table'[t].expires <= now' + Lifetime
                      /\ table'[t].revoked \in {Never} \cup 0 .. now'
    OBVIOUS
  <2>1. CASE t = k
    BY <1>2, <1>5, <1>6, <2>1
  <2>2. CASE t # k
    <3>1. table'[t] = table[t]
      BY <1>2, <2>2
    <3>2. /\ t <= tokens /\ table[t].user \in Users /\ table[t].csrf \in 1 .. secrets
          /\ table[t].expires <= now + Lifetime
          /\ table[t].revoked \in {Never} \cup 0 .. now
      BY <3>1 DEF TypeOK
    <3>3. table[t].csrf \in 1 .. secrets'
      BY <1>1, <1>4, <3>2
    <3>4. QED
      BY <3>1, <3>2, <3>3
  <2>3. QED
    BY <2>1, <2>2
<1>8. DataOK'
  BY <1>3, <1>4, <1>7 DEF DataOK, TypeOK
<1>9. RowsKeep
  <2> SUFFICES ASSUME NEW t \in 1 .. tokens
               PROVE  /\ Over(table[t]) => Over(table'[t])
                      /\ \/ table'[t] = NoRow
                         \/ /\ table[t] # NoRow
                            /\ table'[t].user = table[t].user
                            /\ table'[t].csrf = table[t].csrf \/ table'[t].csrf > secrets
    BY DEF RowsKeep
  <2>1. t \in 1 .. MaxTokens
    BY <1>1
  <2>2. CASE t = k
    <3>1. table'[t] = row
      BY <1>2, <2>2
    <3>2. row.csrf = table[k].csrf \/ row.csrf > secrets
      BY <1>1
    <3>3. table[k].revoked # Never => row.revoked # Never
      OBVIOUS
    <3>4. QED
      BY <2>2, <3>1, <3>2, <3>3 DEF Over
  <2>3. CASE t # k
    <3>1. table'[t] = table[t]
      BY <1>2, <2>1, <2>3
    <3>2. QED
      BY <3>1
  <2>4. QED
    BY <2>2, <2>3
<1>10. LiveRowsKeep
  BY <1>2 DEF LiveRowsKeep, Over
<1>11. QED
  BY <1>8, <1>9, <1>10

\* A statement and the move of the request that made it.
LEMMA StatementMoves ==
  ASSUME IInv, DataOK', RowsKeep, NEW r \in Requests, NEW q, SlotOK(q),
         request' = [request EXCEPT ![r] = q], RequestInv(r)',
         tokens' >= tokens, secrets' >= secrets,
         q.step \notin {"authenticate", "fail"},
         UNCHANGED <<now, enabled, limiter>>
  PROVE  IInv'
<1>1. /\ TypeOK /\ DataOK /\ now \in Nat /\ request \in [Requests -> Request]
      /\ tokens \in Nat /\ tokens' \in Nat /\ secrets \in Nat /\ secrets' \in Nat
  <2>1. TypeOK /\ DataOK /\ request \in [Requests -> Request]
    BY TypeHalves DEF IInv
  <2>2. tokens' \in Nat /\ secrets' \in Nat
    BY Bounds DEF DataOK
  <2>3. QED
    BY <2>1, <2>2, Counters
<1>2. q.token \in Nat /\ q.csrf \in Nat
  BY DEF SlotOK, Request
<1>3. SlotOK(q)'
  BY <1>1, <1>2 DEF SlotOK
<1>4. now' >= now
  BY <1>1
<1>5. TypeOK' /\ \A s \in Requests : RequestInv(s)'
  BY <1>3, <1>4, OneMoves
<1>6. \A s \in Requests : request'[s] = IF s = r THEN q ELSE request[s]
  BY <1>1
<1>7. \A u \in DOMAIN limiter' : LimiterInv(u)'
  BY <1>5, <1>6, EntriesKeep
<1>8. QED
  BY <1>5, <1>7 DEF IInv

\* A login gets its session.
LEMMA CreateSessionStep ==
  ASSUME IInv, NEW r \in Requests, CreateSession(r) PROVE IInv'
<1>1. TypeOK /\ request \in [Requests -> Request] /\ RequestInv(r)
      /\ request[r].step = "create" /\ request[r].user \in Users
  BY DEF IInv, TypeOK, CreateSession, At, RequestInv
<1>2. CASE Respond(r) /\ UNCHANGED <<table, tokens, secrets>>
  BY <1>2, Responds DEF CreateSession
<1>3. CASE /\ tokens < MaxTokens /\ secrets < MaxSecrets
           /\ tokens' = tokens + 1
           /\ secrets' = secrets + 1
           /\ table' = [table EXCEPT ![tokens + 1] =
                          [user |-> request[r].user, csrf |-> secrets + 1,
                           expires |-> now + Lifetime, revoked |-> Never]]
           /\ Goto(r, "sweep")
  <2> DEFINE q == [request[r] EXCEPT !.step = "sweep"]
  <2>1. "sweep" \in Steps
    BY DEF Steps
  <2>2. request' = [request EXCEPT ![r] = q] /\ request'[r] = q /\ SlotOK(q)
    BY <1>3, <2>1, GoesOn
  <2>3. q.step = "sweep"
    BY <1>1 DEF Request
  <2>4. DataOK' /\ RowsKeep
    BY <1>1, <1>3, InsertRows DEF CreateSession
  <2>5. tokens' >= tokens /\ secrets' >= secrets
    BY <1>1, <1>3, Counters
  <2> HIDE DEF q
  <2>6. RequestInv(r)'
    BY <2>2, <2>3 DEF RequestInv, InService
  <2>7. QED
    BY <2>2, <2>3, <2>4, <2>5, <2>6, StatementMoves DEF CreateSession
<1>4. QED
  BY <1>2, <1>3 DEF CreateSession

\* Ended rows are removed, or the statement fails.
LEMMA SweepStep ==
  ASSUME IInv, NEW r \in Requests, Sweep(r) PROVE IInv'
<1> DEFINE q == [request[r] EXCEPT !.step = "reset"]
<1>1. TypeOK /\ DataOK /\ request \in [Requests -> Request]
  BY TypeHalves DEF IInv
<1>2. "reset" \in Steps
  BY DEF Steps
<1>3. request' = [request EXCEPT ![r] = q] /\ request'[r] = q /\ SlotOK(q)
  BY <1>2, GoesOn DEF Sweep
<1>4. q.step = "reset"
  BY <1>1 DEF Request
<1> HIDE DEF q
<1>5. RequestInv(r)'
  BY <1>3, <1>4 DEF RequestInv, InService
<1>6. DataOK' /\ RowsKeep
  <2>1. CASE UNCHANGED table
    BY <1>1, <2>1, SameRows DEF Sweep, DataOK
  <2>2. CASE table' = [t \in 1 .. MaxTokens |->
                         IF table[t] # NoRow /\ Ended(table[t]) THEN NoRow ELSE table[t]]
    BY <1>1, <2>2, SweepRows DEF Sweep
  <2>3. QED
    BY <2>1, <2>2 DEF Sweep
<1>7. tokens' >= tokens /\ secrets' >= secrets
  BY <1>1, SessionAssumption DEF TypeOK, Sweep
<1>8. QED
  BY <1>3, <1>4, <1>5, <1>6, <1>7, StatementMoves DEF Sweep

\* The one statement of Revoke and RotateCSRF on the row of a request.
LEMMA StatementResponds ==
  ASSUME IInv, DataOK', RowsKeep, NEW r \in Requests, Respond(r),
         UNCHANGED <<now, enabled, tokens, limiter>>, secrets' >= secrets
  PROVE  IInv'
<1>1. TypeOK /\ request \in [Requests -> Request] /\ tokens \in Nat
  BY SessionAssumption DEF IInv, TypeOK
<1>2. request' = [request EXCEPT ![r] = Idle] /\ request'[r] = Idle
  BY <1>1 DEF Respond
<1>3. Idle.step = "idle"
  BY DEF Idle
<1>4. tokens' >= tokens
  BY <1>1
<1>5. RequestInv(r)'
  BY <1>2, FreeSlot
<1>6. Idle.step \notin {"authenticate", "fail"}
  BY <1>3
<1>7. QED
  BY <1>1, <1>2, <1>4, <1>5, <1>6, IdleOK, StatementMoves

\* What a revocation does to the rows.
LEMMA RevokeRows ==
  ASSUME IInv, NEW r \in Requests, Revoke(r)
  PROVE  DataOK' /\ RowsKeep /\ LiveRowsKeep
<1> DEFINE k == request[r].token
           row == [table[k] EXCEPT !.revoked = now]
<1>1. TypeOK /\ DataOK /\ SlotOK(request[r]) /\ k # 0
  BY TypeHalves DEF IInv, RequestInv, Revoke, At
<1>2. CASE UNCHANGED table
  <2>1. DataOK'
    BY <1>1, <1>2 DEF DataOK, Revoke
  <2>2. LiveRowsKeep
    BY <1>2 DEF LiveRowsKeep, Over
  <2>3. QED
    BY <1>1, <1>2, <2>1, <2>2, SameRows
<1>3. CASE table' = [table EXCEPT ![k] = Revoked(@)]
  <2>1. k \in 1 .. MaxTokens
    <3>1. k \in Nat /\ k <= tokens /\ tokens \in 0 .. MaxTokens /\ MaxTokens \in Nat
      BY <1>1, SessionAssumption DEF SlotOK, Request, TypeOK
    <3>2. QED
      BY <1>1, <3>1
  <2>2. table[k] \in Row /\ now \in 0 .. MaxTime /\ MaxTime \in Nat
        /\ table \in [1 .. MaxTokens -> Row]
    BY <1>1, <2>1, SessionAssumption DEF TypeOK
  <2>3. CASE table[k] # NoRow /\ table[k].revoked = Never
    <3>1. /\ row \in Row /\ row.user = table[k].user /\ row.expires = table[k].expires
          /\ row.csrf = table[k].csrf /\ row.revoked = now
      BY <2>2 DEF Row
    <3>2. Revoked(table[k]) = row
      BY <2>3 DEF Revoked
    <3>3. table' = [table EXCEPT ![k] = row]
      BY <1>3, <3>2
    <3>4. row # NoRow
      <4>1. NoRow.revoked = Never /\ now # Never
        BY <2>2 DEF NoRow, Never
      <4>2. QED
        BY <3>1, <4>1
    <3>5. row.revoked \in 0 .. now /\ secrets' = secrets
      BY <2>2, <3>1 DEF Revoke
    <3>6. UNCHANGED <<now, enabled, changes, tokens, limiter, restarts>>
      BY DEF Revoke
    <3> HIDE DEF row, k
    <3>7. QED
      BY <1>1, <2>1, <2>3, <3>1, <3>3, <3>4, <3>5, <3>6, UpdateRow
  <2>4. CASE ~(table[k] # NoRow /\ table[k].revoked = Never)
    <3>1. Revoked(table[k]) = table[k]
      BY <2>4 DEF Revoked
    <3>2. table' = table
      BY <1>3, <2>1, <2>2, <3>1
    <3>3. DataOK'
      BY <1>1, <3>2 DEF DataOK, Revoke
    <3>4. LiveRowsKeep
      BY <3>2 DEF LiveRowsKeep, Over
    <3>5. QED
      BY <1>1, <3>2, <3>3, <3>4, SameRows
  <2>5. QED
    BY <2>3, <2>4
<1>4. QED
  BY <1>2, <1>3 DEF Revoke

\* What a rotation of the secret does to the rows.
LEMMA RotateRows ==
  ASSUME IInv, NEW r \in Requests, RotateCSRF(r)
  PROVE  DataOK' /\ RowsKeep /\ LiveRowsKeep /\ secrets' >= secrets
<1> DEFINE k == request[r].token
           row == [table[k] EXCEPT !.csrf = secrets + 1]
<1>1. TypeOK /\ DataOK /\ SlotOK(request[r]) /\ k # 0 /\ secrets \in Nat
  <2>1. TypeOK /\ RequestInv(r) /\ request[r].step = "rotate"
    BY DEF IInv, RotateCSRF, At
  <2>2. QED
    BY <2>1, TypeHalves, Counters DEF RequestInv
<1>2. CASE UNCHANGED <<table, secrets>>
  <2>1. DataOK' /\ secrets' >= secrets
    BY <1>1, <1>2 DEF DataOK, RotateCSRF
  <2>2. LiveRowsKeep
    BY <1>2 DEF LiveRowsKeep, Over
  <2>3. QED
    BY <1>1, <1>2, <2>1, <2>2, SameRows
<1>3. CASE /\ table[k] # NoRow
           /\ table[k].revoked = Never
           /\ secrets < MaxSecrets
           /\ secrets' = secrets + 1
           /\ table' = [table EXCEPT ![k].csrf = secrets + 1]
  <2>1. k \in 1 .. MaxTokens
    <3>1. k \in Nat /\ k <= tokens /\ tokens \in 0 .. MaxTokens /\ MaxTokens \in Nat
      BY <1>1, SessionAssumption DEF SlotOK, Request, TypeOK
    <3>2. QED
      BY <1>1, <3>1
  <2>2. table[k] \in Row /\ table \in [1 .. MaxTokens -> Row]
    BY <1>1, <2>1 DEF TypeOK
  <2>3. /\ row \in Row /\ row.user = table[k].user /\ row.expires = table[k].expires
        /\ row.csrf = secrets + 1 /\ row.revoked = table[k].revoked
    BY <1>1, <2>2 DEF Row
  <2>4. table' = [table EXCEPT ![k] = row]
    BY <1>3, <2>2
  <2>5. row # NoRow
    <3>1. NoRow.csrf = 0 /\ secrets + 1 # 0
      BY <1>1 DEF NoRow
    <3>2. QED
      BY <2>3, <3>1
  <2>6. secrets' >= secrets
    BY <1>1, <1>3
  <2> HIDE DEF row, k
  <2>7. QED
    BY <1>1, <1>3, <2>1, <2>2, <2>3, <2>4, <2>5, <2>6, UpdateRow DEF RotateCSRF
<1>4. QED
  BY <1>2, <1>3 DEF RotateCSRF

\* A session is revoked.
LEMMA RevokeStep ==
  ASSUME IInv, NEW r \in Requests, Revoke(r) PROVE IInv'
<1>1. secrets' >= secrets
  BY SessionAssumption DEF IInv, TypeOK, Revoke
<1>2. QED
  BY <1>1, RevokeRows, StatementResponds DEF Revoke

\* A secret is rotated.
LEMMA RotateCSRFStep ==
  ASSUME IInv, NEW r \in Requests, RotateCSRF(r) PROVE IInv'
BY RotateRows, StatementResponds DEF RotateCSRF

-----------------------------------------------------------------------------
(***************************************************************************)
(* The login limiter.                                                      *)
(***************************************************************************)

\* Pruning only removes entries whose window is past.
LEMMA PrunedEntries ==
  ASSUME TypeOK
  PROVE  /\ DOMAIN Pruned \subseteq DOMAIN limiter
         /\ \A u \in DOMAIN Pruned : Pruned[u] = limiter[u] /\ ~Past(u)
         /\ \A u \in DOMAIN limiter \ DOMAIN Pruned : Past(u)
         /\ Pruned \in [DOMAIN Pruned -> Entry]
         /\ IsFiniteSet(DOMAIN Pruned)
         /\ Cardinality(DOMAIN Pruned) <= MaxEntries
<1>1. /\ DOMAIN Pruned \subseteq DOMAIN limiter
      /\ \A u \in DOMAIN Pruned : Pruned[u] = limiter[u] /\ ~Past(u)
      /\ \A u \in DOMAIN limiter \ DOMAIN Pruned : Past(u)
  BY DEF Pruned
<1>2. Pruned \in [DOMAIN Pruned -> Entry]
  BY <1>1 DEF Pruned, TypeOK
<1>3. DOMAIN limiter \subseteq Users /\ Cardinality(DOMAIN limiter) <= MaxEntries
  BY DEF TypeOK
<1>4. IsFiniteSet(DOMAIN limiter)
  BY <1>3, SessionAssumption, FS_Subset
<1>5. /\ IsFiniteSet(DOMAIN Pruned)
      /\ Cardinality(DOMAIN Pruned) <= Cardinality(DOMAIN limiter)
      /\ Cardinality(DOMAIN Pruned) \in Nat /\ Cardinality(DOMAIN limiter) \in Nat
  BY <1>1, <1>4, FS_Subset, FS_CardinalityType
<1>6. QED
  BY <1>1, <1>2, <1>3, <1>5, Bounds

\* One more element makes a finite set larger by at most one.
LEMMA OneMore ==
  ASSUME NEW S, IsFiniteSet(S), NEW x
  PROVE  /\ Cardinality(S) \in Nat /\ Cardinality(S \cup {x}) \in Nat
         /\ Cardinality(S \cup {x}) <= Cardinality(S) + 1
<1>1. IsFiniteSet(S \cup {x})
  BY FS_AddElement
<1>2. Cardinality(S) \in Nat /\ Cardinality(S \cup {x}) \in Nat
  BY <1>1, FS_CardinalityType
<1>3. Cardinality(S \cup {x}) = IF x \in S THEN Cardinality(S) ELSE Cardinality(S) + 1
  BY FS_AddElement
<1>4. QED
  BY <1>2, <1>3

\* The limiter with one more entry, after making room for it.
LEMMA RoomForOne ==
  ASSUME TypeOK, NEW kept \in Evictions(Pruned), NEW u \in Users
  PROVE  /\ DOMAIN kept \subseteq DOMAIN Pruned
         /\ \A x \in DOMAIN kept : kept[x] = Pruned[x]
         /\ Cardinality(DOMAIN kept \cup {u}) <= MaxEntries
<1> DEFINE D == DOMAIN Pruned
<1>1. IsFiniteSet(D) /\ Cardinality(D) <= MaxEntries /\ Cardinality(D) \in Nat
  BY PrunedEntries, FS_CardinalityType
<1>2. CASE Cardinality(D) < MaxEntries
  <2>1. kept = Pruned
    BY <1>2 DEF Evictions
  <2>2. Cardinality(D \cup {u}) <= Cardinality(D) + 1 /\ Cardinality(D \cup {u}) \in Nat
    BY <1>1, OneMore
  <2>3. QED
    BY <1>1, <1>2, <2>1, <2>2, Bounds
<1>3. CASE ~(Cardinality(D) < MaxEntries)
  <2>1. PICK v \in D : kept = [x \in D \ {v} |-> Pruned[x]]
    BY <1>3 DEF Evictions
  <2>2. DOMAIN kept = D \ {v} /\ \A x \in DOMAIN kept : kept[x] = Pruned[x]
    BY <2>1
  <2>3. IsFiniteSet(D \ {v}) /\ Cardinality(D \ {v}) = Cardinality(D) - 1
    BY <1>1, FS_RemoveElement
  <2>4. /\ Cardinality((D \ {v}) \cup {u}) <= Cardinality(D \ {v}) + 1
        /\ Cardinality((D \ {v}) \cup {u}) \in Nat
    BY <2>3, OneMore
  <2>5. QED
    BY <1>1, <2>2, <2>3, <2>4, Bounds
<1>4. QED
  BY <1>2, <1>3

\* What RecordFailure leaves: the entry of the user counts one more in its old
\* window, or is new; the others are as they were, or gone.
LEMMA FailureEntries ==
  ASSUME TypeOK, NEW u \in Users, NEW L \in AfterFailure(u)
  PROVE  /\ DOMAIN L \subseteq Users
         /\ L \in [DOMAIN L -> Entry]
         /\ Cardinality(DOMAIN L) <= MaxEntries
         /\ \A x \in DOMAIN L : L[x].windowEnd <= now + Window
         /\ \A x \in DOMAIN L \ {u} : x \in DOMAIN limiter /\ L[x] = limiter[x]
         /\ \/ /\ u \in DOMAIN limiter
               /\ L[u] = [failures |-> limiter[u].failures + 1,
                          windowEnd |-> limiter[u].windowEnd]
            \/ L[u] = [failures |-> 1, windowEnd |-> now + Window]
<1>1. /\ DOMAIN limiter \subseteq Users
      /\ \A x \in DOMAIN limiter : limiter[x] \in Entry /\ limiter[x].windowEnd <= now + Window
      /\ now \in Nat /\ Window \in Nat
  BY Bounds, Counters DEF TypeOK
<1>2. CASE u \in DOMAIN Pruned
  <2> DEFINE e == [Pruned[u] EXCEPT !.failures = @ + 1]
  <2>1. L = WithEntry(Pruned, u, e)
    BY <1>2 DEF AfterFailure
  <2>2. DOMAIN Pruned \cup {u} = DOMAIN Pruned
    BY <1>2
  <2>3. /\ DOMAIN L = DOMAIN Pruned /\ L[u] = e
        /\ \A x \in DOMAIN L \ {u} : L[x] = Pruned[x]
    BY <1>2, <2>1, <2>2 DEF WithEntry
  <2>4. Pruned[u] = limiter[u] /\ u \in DOMAIN limiter
    BY <1>2, PrunedEntries
  <2>5. e = [failures |-> limiter[u].failures + 1, windowEnd |-> limiter[u].windowEnd]
    BY <1>1, <2>4 DEF Entry
  <2>6. e \in Entry
    BY <1>1, <2>4, <2>5 DEF Entry
  <2>7. e.windowEnd = limiter[u].windowEnd
    BY <2>5
  <2> HIDE DEF e
  <2>8. \A x \in DOMAIN L : L[x] \in Entry /\ L[x].windowEnd <= now + Window
    BY <1>1, <2>3, <2>4, <2>6, <2>7, PrunedEntries
  <2>9. L \in [DOMAIN L -> Entry]
    BY <2>1, <2>8 DEF WithEntry
  <2>10. QED
    BY <1>1, <2>3, <2>4, <2>5, <2>8, <2>9, PrunedEntries
<1>3. CASE u \notin DOMAIN Pruned
  <2> DEFINE e == [failures |-> 1, windowEnd |-> now + Window]
  <2>1. PICK kept \in Evictions(Pruned) : L = WithEntry(kept, u, e)
    BY <1>3 DEF AfterFailure
  <2>2. /\ DOMAIN kept \subseteq DOMAIN Pruned
        /\ \A x \in DOMAIN kept : kept[x] = Pruned[x]
        /\ Cardinality(DOMAIN kept \cup {u}) <= MaxEntries
    BY RoomForOne
  <2>3. /\ DOMAIN L = DOMAIN kept \cup {u} /\ L[u] = e
        /\ \A x \in DOMAIN L \ {u} : x \in DOMAIN kept /\ L[x] = kept[x]
    BY <2>1 DEF WithEntry
  <2>4. e \in Entry /\ e.windowEnd = now + Window
    BY <1>1 DEF Entry
  <2> HIDE DEF e
  <2>5. \A x \in DOMAIN L \ {u} : x \in DOMAIN limiter /\ L[x] = limiter[x]
    BY <2>2, <2>3, PrunedEntries
  <2>6. \A x \in DOMAIN L : L[x] \in Entry /\ L[x].windowEnd <= now + Window
    BY <1>1, <2>3, <2>4, <2>5
  <2>7. L \in [DOMAIN L -> Entry]
    BY <2>1, <2>6 DEF WithEntry
  <2>8. L[u] = [failures |-> 1, windowEnd |-> now + Window]
    BY <2>3 DEF e
  <2>9. QED
    BY <1>1, <2>2, <2>3, <2>5, <2>6, <2>7, <2>8
<1>4. QED
  BY <1>2, <1>3

\* The logins under way are finitely many.
LEMMA TryingFinite ==
  ASSUME NEW u
  PROVE  /\ IsFiniteSet(Trying(u))
         /\ Cardinality(Trying(u)) \in Nat /\ Cardinality(Requests) \in Nat
         /\ Cardinality(Trying(u)) <= Cardinality(Requests)
<1>1. Trying(u) \subseteq Requests
  BY DEF Trying
<1>2. QED
  BY <1>1, SessionAssumption, FS_Subset, FS_CardinalityType

\* handleLogin prunes the limiter, and lets a user in who has failures left.
LEMMA BeginLoginStep ==
  ASSUME IInv, NEW r \in Requests, NEW u \in Users, BeginLogin(r, u) PROVE IInv'
<1> DEFINE q == [Idle EXCEPT !.op = "login", !.user = u, !.step = "authenticate"]
<1>1. TypeOK /\ DataOK /\ request \in [Requests -> Request] /\ SlotOK(Idle)
  BY TypeHalves, IdleOK DEF IInv
<1>2. limiter' = Pruned
  BY DEF BeginLogin
<1>3. DataOK'
  <2>1. /\ DOMAIN limiter' \subseteq Users /\ limiter' \in [DOMAIN limiter' -> Entry]
        /\ Cardinality(DOMAIN limiter') <= MaxEntries
    BY <1>1, <1>2, PrunedEntries DEF TypeOK
  <2>2. \A x \in DOMAIN limiter' : limiter'[x].windowEnd <= now' + Window
    BY <1>1, <1>2, PrunedEntries DEF BeginLogin, TypeOK
  <2>3. QED
    BY <1>1, <2>1, <2>2 DEF BeginLogin, DataOK
<1>4. RowsKeep
  BY <1>1, SameRows DEF BeginLogin
<1>5. now' >= now /\ tokens' >= tokens /\ secrets' >= secrets
  BY <1>1, Counters DEF BeginLogin
<1>6. \A x \in DOMAIN limiter' : x \in DOMAIN limiter /\ limiter'[x] = limiter[x]
  BY <1>1, <1>2, PrunedEntries
<1>7. CASE ~Allows(u) /\ UNCHANGED request
  <2>1. TypeOK' /\ \A s \in Requests : RequestInv(s)'
    BY <1>3, <1>4, <1>5, <1>7, NoneMoves DEF BeginLogin
  <2>2. QED
    BY <1>6, <1>7, <2>1, EntriesKeep DEF IInv
<1>8. CASE Allows(u) /\ request' = [request EXCEPT ![r] = q]
  <2>1. request'[r] = q /\ q.step = "authenticate" /\ q.user = u
        /\ q.token = Idle.token /\ q.csrf = Idle.csrf
    BY <1>1, <1>8 DEF SlotOK, Request
  <2>2. q \in Request
    BY <1>1 DEF SlotOK, Request, Ops, Steps
  <2>3. tokens' = tokens /\ secrets' = secrets
    BY DEF BeginLogin
  <2> HIDE DEF q
  <2>4. SlotOK(q)'
    BY <1>1, <2>1, <2>2, <2>3 DEF SlotOK
  <2>5. RequestInv(r)'
    BY <2>1 DEF RequestInv, InService
  <2>6. TypeOK' /\ \A s \in Requests : RequestInv(s)'
    BY <1>3, <1>4, <1>5, <1>8, <2>4, <2>5, OneMoves DEF BeginLogin
  <2>7. ASSUME NEW x \in DOMAIN limiter' PROVE LimiterInv(x)'
    <3>1. CASE x = u
      <4>1. u \in DOMAIN Pruned /\ Pruned[u].failures < Limit
        BY <1>2, <1>8, <2>7, <3>1 DEF Allows
      <4>2. limiter'[u].failures \in Nat
        BY <1>2, <2>6, <4>1 DEF TypeOK, Entry
      <4>3. /\ Cardinality(Trying(u)') \in Nat /\ Cardinality(Requests) \in Nat
            /\ Cardinality(Trying(u)') <= Cardinality(Requests)
        <5>1. Trying(u)' \subseteq Requests
          BY DEF Trying
        <5>2. QED
          BY <5>1, SessionAssumption, FS_Subset, FS_CardinalityType
      <4>4. limiter'[u].failures < Limit
        BY <1>2, <4>1
      <4>5. limiter'[u].failures + Cardinality(Trying(u)')
              <= Limit + Cardinality(Requests) - 1
        BY <4>2, <4>3, <4>4, Bounds
      <4>6. QED
        BY <3>1, <4>5 DEF LimiterInv
    <3>2. CASE x # u
      <4>1. \A s \in Requests : request'[s] = IF s = r THEN q ELSE request[s]
        BY <1>1, <1>8
      <4>2. Trying(x)' \subseteq Trying(x)
        BY <2>1, <3>2, <4>1 DEF Trying
      <4>3. QED
        BY <1>1, <1>6, <2>6, <2>7, <4>2, SameEntry DEF IInv
    <3>3. QED
      BY <3>1, <3>2
  <2>8. QED
    BY <2>6, <2>7 DEF IInv
<1>9. QED
  BY <1>7, <1>8 DEF BeginLogin

\* A failure is recorded for a login that no longer counts as under way.
LEMMA RecordFailureStep ==
  ASSUME IInv, NEW r \in Requests, RecordFailure(r) PROVE IInv'
<1>0. PICK u : u = request[r].user
  OBVIOUS
<1>1. /\ TypeOK /\ DataOK /\ request \in [Requests -> Request] /\ SlotOK(Idle)
      /\ request[r].step = "fail" /\ u \in Users
  BY <1>0, TypeHalves, IdleOK DEF IInv, RecordFailure, At, RequestInv
<1>2. limiter' \in AfterFailure(u)
  BY <1>0 DEF RecordFailure
<1>3. /\ DOMAIN limiter' \subseteq Users
      /\ limiter' \in [DOMAIN limiter' -> Entry]
      /\ Cardinality(DOMAIN limiter') <= MaxEntries
      /\ \A x \in DOMAIN limiter' : limiter'[x].windowEnd <= now + Window
      /\ \A x \in DOMAIN limiter' \ {u} : x \in DOMAIN limiter /\ limiter'[x] = limiter[x]
      /\ \/ /\ u \in DOMAIN limiter
            /\ limiter'[u] = [failures |-> limiter[u].failures + 1,
                             windowEnd |-> limiter[u].windowEnd]
         \/ limiter'[u] = [failures |-> 1, windowEnd |-> now + Window]
  BY <1>1, <1>2, FailureEntries
<1>4. request' = [request EXCEPT ![r] = Idle] /\ request'[r] = Idle
  BY <1>1 DEF RecordFailure, Respond
<1>5. DataOK' /\ SlotOK(Idle)'
  BY <1>1, <1>3 DEF RecordFailure, DataOK, SlotOK
<1>6. RowsKeep /\ RequestInv(r)'
  BY <1>1, <1>4, SameRows, FreeSlot DEF RecordFailure
<1>7. now' >= now /\ tokens' >= tokens /\ secrets' >= secrets
  BY <1>1, Counters DEF RecordFailure
<1>8. TypeOK' /\ \A s \in Requests : RequestInv(s)'
  BY <1>4, <1>5, <1>6, <1>7, OneMoves DEF RecordFailure
<1>9. Idle.step = "idle" /\ \A s \in Requests : request'[s] = IF s = r THEN Idle ELSE request[s]
  BY <1>1, <1>4 DEF Idle
<1>10. ASSUME NEW x \in DOMAIN limiter' PROVE LimiterInv(x)'
  <2>1. CASE x # u
    <3>1. Trying(x)' \subseteq Trying(x)
      BY <1>9 DEF Trying
    <3>2. QED
      BY <1>1, <1>3, <1>8, <1>10, <2>1, <3>1, SameEntry DEF IInv
  <2>2. CASE x = u
    <3>1. r \in Trying(u) /\ Trying(u)' = Trying(u) \ {r}
      BY <1>0, <1>1, <1>9 DEF Trying
    <3>2. /\ Cardinality(Trying(u)') = Cardinality(Trying(u)) - 1
          /\ Cardinality(Trying(u)) \in Nat /\ Cardinality(Requests) \in Nat
          /\ Cardinality(Trying(u)) <= Cardinality(Requests)
      BY <3>1, TryingFinite, FS_RemoveElement
    <3>3. CASE /\ u \in DOMAIN limiter
               /\ limiter'[u] = [failures |-> limiter[u].failures + 1,
                                windowEnd |-> limiter[u].windowEnd]
      <4>1. limiter'[u].failures = limiter[u].failures + 1 /\ limiter[u].failures \in Nat
        BY <1>1, <3>3 DEF TypeOK, Entry
      <4>2. limiter[u].failures + Cardinality(Trying(u)) <= Limit + Cardinality(Requests) - 1
        BY <3>3 DEF IInv, LimiterInv
      <4>3. limiter'[u].failures + Cardinality(Trying(u)') <= Limit + Cardinality(Requests) - 1
        BY <3>2, <4>1, <4>2, Bounds
      <4>4. QED
        BY <2>2, <4>3 DEF LimiterInv
    <3>4. CASE limiter'[u] = [failures |-> 1, windowEnd |-> now + Window]
      <4>1. limiter'[u].failures = 1
        BY <3>4
      <4>2. limiter'[u].failures + Cardinality(Trying(u)') <= Limit + Cardinality(Requests) - 1
        BY <3>2, <4>1, Bounds
      <4>3. QED
        BY <2>2, <4>2 DEF LimiterInv
    <3>5. QED
      BY <1>3, <3>3, <3>4
  <2>3. QED
    BY <2>1, <2>2
<1>11. QED
  BY <1>8, <1>10 DEF IInv

\* A successful login forgets the failures of its user.
LEMMA ResetLimiterStep ==
  ASSUME IInv, NEW r \in Requests, ResetLimiter(r) PROVE IInv'
<1>1. /\ TypeOK /\ DataOK /\ request \in [Requests -> Request] /\ SlotOK(Idle)
  BY TypeHalves, IdleOK DEF IInv
<1>2. /\ DOMAIN limiter' = DOMAIN limiter \ {request[r].user}
      /\ \A x \in DOMAIN limiter' : limiter'[x] = limiter[x]
      /\ limiter' = [x \in DOMAIN limiter' |-> limiter'[x]]
  BY DEF ResetLimiter
<1>3. request' = [request EXCEPT ![r] = Idle] /\ request'[r] = Idle
  BY <1>1 DEF ResetLimiter, Respond
<1>4. Cardinality(DOMAIN limiter') <= MaxEntries
  <2>1. IsFiniteSet(DOMAIN limiter)
    BY <1>1, SessionAssumption, FS_Subset DEF TypeOK
  <2>2. /\ Cardinality(DOMAIN limiter') <= Cardinality(DOMAIN limiter)
        /\ Cardinality(DOMAIN limiter') \in Nat /\ Cardinality(DOMAIN limiter) \in Nat
    BY <1>2, <2>1, FS_Subset, FS_CardinalityType
  <2>3. QED
    BY <1>1, <2>2, Bounds DEF TypeOK
<1>5. DataOK' /\ SlotOK(Idle)'
  <2>1. limiter' \in [DOMAIN limiter' -> Entry] /\ DOMAIN limiter' \subseteq Users
    BY <1>1, <1>2 DEF TypeOK
  <2>2. \A x \in DOMAIN limiter' : limiter'[x].windowEnd <= now' + Window
    BY <1>1, <1>2 DEF TypeOK, ResetLimiter
  <2>3. QED
    BY <1>1, <1>4, <2>1, <2>2 DEF ResetLimiter, DataOK, SlotOK
<1>6. RowsKeep /\ RequestInv(r)'
  BY <1>1, <1>3, SameRows, FreeSlot DEF ResetLimiter
<1>7. now' >= now /\ tokens' >= tokens /\ secrets' >= secrets
  BY <1>1, Counters DEF ResetLimiter
<1>8. TypeOK' /\ \A s \in Requests : RequestInv(s)'
  BY <1>3, <1>5, <1>6, <1>7, OneMoves DEF ResetLimiter
<1>9. Idle.step = "idle" /\ \A s \in Requests : request'[s] = IF s = r THEN Idle ELSE request[s]
  BY <1>1, <1>3 DEF Idle
<1>10. \A x \in DOMAIN limiter' : LimiterInv(x)'
  BY <1>2, <1>8, <1>9, EntriesKeep
<1>11. QED
  BY <1>8, <1>10 DEF IInv

-----------------------------------------------------------------------------
(***************************************************************************)
(* Time, accounts and restarts.                                            *)
(***************************************************************************)

\* Time passes: no row that is over is over no longer.
LEMMA TickStep == ASSUME IInv, Tick PROVE IInv'
<1>1. TypeOK /\ DataOK /\ now \in Nat /\ now' = now + 1 /\ now' \in 0 .. MaxTime
  BY TypeHalves, Counters, Bounds DEF IInv, Tick
<1>2. DataOK'
  <2>1. ASSUME NEW t \in 1 .. MaxTokens, table'[t] # NoRow
        PROVE  /\ t <= tokens' /\ table'[t].user \in Users
               /\ table'[t].csrf \in 1 .. secrets'
               /\ table'[t].expires <= now' + Lifetime
               /\ table'[t].revoked \in {Never} \cup 0 .. now'
    <3>1. /\ t <= tokens /\ table[t].user \in Users /\ table[t].csrf \in 1 .. secrets
          /\ table[t].expires <= now + Lifetime
          /\ table[t].revoked \in {Never} \cup 0 .. now /\ table[t].expires \in Int
      BY <1>1, <2>1 DEF TypeOK, Tick, Row
    <3>2. table[t].expires <= now + 1 + Lifetime
      BY <1>1, <3>1, Bounds
    <3>3. table[t].revoked \in {Never} \cup 0 .. now + 1
      BY <1>1, <3>1
    <3>4. QED
      BY <1>1, <3>1, <3>2, <3>3 DEF Tick
  <2>2. ASSUME NEW u \in DOMAIN limiter' PROVE limiter'[u].windowEnd <= now' + Window
    <3>1. limiter[u].windowEnd \in Nat /\ limiter[u].windowEnd <= now + Window
      BY <1>1, <2>2 DEF TypeOK, Entry, Tick
    <3>2. limiter[u].windowEnd <= now + 1 + Window
      BY <1>1, <3>1, Bounds
    <3>3. QED
      BY <1>1, <3>2 DEF Tick
  <2>3. QED
    BY <1>1, <2>1, <2>2 DEF DataOK, Tick
<1>3. RowsKeep /\ now' >= now /\ tokens' >= tokens /\ secrets' >= secrets
  BY <1>1, Counters, SameRows DEF Tick
<1>4. TypeOK' /\ \A s \in Requests : RequestInv(s)'
  BY <1>2, <1>3, NoneMoves DEF Tick
<1>5. \A u \in DOMAIN limiter' : LimiterInv(u)'
  BY <1>4, EntriesKeep DEF Tick
<1>6. QED
  BY <1>4, <1>5 DEF IInv

\* An account is disabled, or enabled again.
LEMMA ChangeAccountStep ==
  ASSUME IInv, NEW u \in Users, ChangeAccount(u) PROVE IInv'
<1>1. TypeOK /\ DataOK /\ request \in [Requests -> Request]
  BY TypeHalves DEF IInv
<1>2. DataOK'
  <2>1. changes' \in 0 .. MaxChanges
    BY <1>1, Bounds DEF ChangeAccount, DataOK
  <2>2. enabled' \subseteq Users
    BY <1>1 DEF ChangeAccount, DataOK
  <2>3. QED
    BY <1>1, <2>1, <2>2 DEF ChangeAccount, DataOK
<1>3. RowsKeep /\ now' >= now /\ tokens' >= tokens /\ secrets' >= secrets
  BY <1>1, Counters, SameRows DEF ChangeAccount
<1>4. CASE enabled' = enabled \ {u} /\ UNCHANGED request
  <2>1. TypeOK' /\ \A s \in Requests : RequestInv(s)'
    BY <1>2, <1>3, <1>4, NoneMoves
  <2>2. \A x \in DOMAIN limiter' : LimiterInv(x)'
    BY <1>4, <2>1, EntriesKeep DEF ChangeAccount
  <2>3. QED
    BY <2>1, <2>2 DEF IInv
<1>5. CASE /\ enabled' = enabled \cup {u}
           /\ request' = [r \in Requests |->
                            IF request[r].over = "disabled"
                            THEN [request[r] EXCEPT !.over = "no"] ELSE request[r]]
  <2>1. ASSUME NEW r \in Requests
        PROVE  /\ request'[r] \in Request
               /\ request'[r].step = request[r].step /\ request'[r].user = request[r].user
               /\ request'[r].token = request[r].token /\ request'[r].csrf = request[r].csrf
               /\ request'[r].op = request[r].op /\ request'[r].row = request[r].row
    BY <1>1, <1>5 DEF Request
  <2>2. ASSUME NEW r \in Requests
        PROVE  request'[r].fresh = request[r].fresh
    BY <1>1, <1>5 DEF Request
  <2>3. ASSUME NEW r \in Requests
        PROVE  request'[r].over = IF request[r].over = "disabled" THEN "no"
                                  ELSE request[r].over
    BY <1>1, <1>5 DEF Request
  <2>4. request' \in [Requests -> Request]
    BY <1>5, <2>1
  <2>5. \A r \in Requests : request'[r].token <= tokens' /\ request'[r].csrf <= secrets'
    BY <1>1, <2>1 DEF ChangeAccount, TypeOK
  <2>6. TypeOK'
    BY <1>2, <2>4, <2>5 DEF TypeOK, DataOK
  <2>7. ASSUME NEW r \in Requests PROVE RequestInv(r)'
    <3>1. RequestInv(r)
      BY DEF IInv
    <3>2. table' = table /\ now' = now
      BY DEF ChangeAccount
    <3>3. request[r].over \in {"no", "ended", "disabled"}
      BY <1>1 DEF Request
    <3>4. /\ request'[r].over # "disabled"
          /\ request'[r].over = "ended" => request[r].over = "ended"
          /\ request[r].over = "no" => request'[r].over = "no"
      BY <2>3, <3>3
    <3>5. QED
      BY <2>1, <2>2, <3>1, <3>2, <3>4 DEF RequestInv, InService, Over
  <2>8. \A x \in DOMAIN limiter' : LimiterInv(x)'
    BY <2>1, <2>6, EntriesKeep DEF ChangeAccount
  <2>9. QED
    BY <2>6, <2>7, <2>8 DEF IInv
<1>6. QED
  BY <1>4, <1>5 DEF ChangeAccount

\* A new process starts without requests and without entries.
LEMMA RestartStep == ASSUME IInv, Restart PROVE IInv'
<1>1. TypeOK /\ DataOK /\ SlotOK(Idle)
  BY TypeHalves, IdleOK DEF IInv
<1>2. DOMAIN NoEntries = {} /\ NoEntries \in [{} -> Entry]
  BY DEF NoEntries
<1>3. restarts' \in 0 .. MaxRestarts
  BY <1>1, Bounds DEF Restart, DataOK
<1>4. DataOK'
  <2>1. Cardinality(DOMAIN limiter') <= MaxEntries
    BY <1>2, FS_EmptySet, Bounds DEF Restart
  <2>2. QED
    BY <1>1, <1>2, <1>3, <2>1 DEF Restart, DataOK
<1>5. TypeOK'
  BY <1>1, <1>4 DEF Restart, TypeOK, DataOK, SlotOK
<1>6. \A r \in Requests : RequestInv(r)'
  BY FreeSlot DEF Restart
<1>7. \A u \in DOMAIN limiter' : LimiterInv(u)'
  BY <1>2 DEF Restart
<1>8. QED
  BY <1>5, <1>6, <1>7 DEF IInv

-----------------------------------------------------------------------------
(***************************************************************************)
(* The invariant of the specification.                                     *)
(***************************************************************************)

\* A first start satisfies it.
LEMMA InitIInv == Init => IInv
<1> SUFFICES ASSUME Init PROVE IInv
  OBVIOUS
<1>1. DOMAIN NoEntries = {} /\ NoEntries \in [{} -> Entry]
  BY DEF NoEntries
<1>2. NoRow \in Row
  BY DEF NoRow, Row, Never
<1>3. Idle \in Request /\ Idle.token = 0 /\ Idle.csrf = 0 /\ Idle.step = "idle"
  BY <1>2 DEF Idle, Request, Ops, Steps
<1>4. Cardinality(DOMAIN limiter) <= MaxEntries
  BY <1>1, FS_EmptySet, Bounds DEF Init
<1>5. /\ now \in 0 .. MaxTime /\ changes \in 0 .. MaxChanges /\ tokens \in 0 .. MaxTokens
      /\ secrets \in 0 .. MaxSecrets /\ restarts \in 0 .. MaxRestarts
  BY Bounds DEF Init
<1>6. table \in [1 .. MaxTokens -> Row] /\ \A t \in 1 .. MaxTokens : table[t] = NoRow
  BY <1>2 DEF Init
<1>7. request \in [Requests -> Request]
      /\ \A r \in Requests : request[r].token <= tokens /\ request[r].csrf <= secrets
  BY <1>3 DEF Init
<1>8. TypeOK
  BY <1>1, <1>4, <1>5, <1>6, <1>7 DEF Init, TypeOK
<1>9. \A r \in Requests : RequestInv(r)
  BY <1>3 DEF Init, RequestInv, InService
<1>10. \A u \in DOMAIN limiter : LimiterInv(u)
  BY <1>1 DEF Init
<1>11. QED
  BY <1>8, <1>9, <1>10 DEF IInv

\* Every step keeps it.
LEMMA NextIInv == IInv /\ [Next]_vars => IInv'
<1> SUFFICES ASSUME IInv, [Next]_vars PROVE IInv'
  OBVIOUS
<1>1. CASE Tick
  BY <1>1, TickStep
<1>2. CASE Restart
  BY <1>2, RestartStep
<1>3. ASSUME NEW u \in Users, ChangeAccount(u) PROVE IInv'
  BY <1>3, ChangeAccountStep
<1>4. ASSUME NEW r \in Requests, NEW u \in Users, BeginLogin(r, u) PROVE IInv'
  BY <1>4, BeginLoginStep
<1>5. ASSUME NEW r \in Requests,
             Authenticate(r) \/ RecordFailure(r) \/ CreateSession(r) \/ Sweep(r)
               \/ ResetLimiter(r)
      PROVE  IInv'
  BY <1>5, AuthenticateStep, RecordFailureStep, CreateSessionStep, SweepStep,
     ResetLimiterStep
<1>6. ASSUME NEW r \in Requests, NEW op \in Ops, NEW t \in 1 .. tokens,
             NEW c \in 0 .. secrets, BeginRequest(r, op, t, c)
      PROVE  IInv'
  BY <1>6, BeginRequestStep
<1>7. ASSUME NEW r \in Requests,
             Find(r) \/ AccountStatus(r) \/ Revoke(r) \/ RotateCSRF(r) \/ Served(r)
      PROVE  IInv'
  BY <1>7, FindStep, AccountStatusStep, RevokeStep, RotateCSRFStep, ServedStep
<1>8. CASE UNCHANGED vars
  <2>1. TypeOK' /\ \A r \in Requests : RequestInv(r)'
    BY <1>8 DEF IInv, TypeOK, RequestInv, InService, Over, vars
  <2>2. \A u \in DOMAIN limiter' : LimiterInv(u)'
    BY <1>8, <2>1, EntriesKeep DEF vars
  <2>3. QED
    BY <2>1, <2>2 DEF IInv
<1>9. QED
  BY <1>1, <1>2, <1>3, <1>4, <1>5, <1>6, <1>7, <1>8 DEF Next

\* It holds throughout.
LEMMA AlwaysIInv == Spec => []IInv
BY InitIInv, NextIInv, PTL DEF Spec

-----------------------------------------------------------------------------
(***************************************************************************)
(* The theorems.                                                           *)
(***************************************************************************)

\* Every state is made of rows, entries and requests of the right kind, and
\* the limiter never holds more than login_rate_entries keys.
THEOREM TypeCorrect == Spec => []TypeOK
BY AlwaysIInv, PTL DEF IInv

\* A request whose session was over when it came is never served (Validate,
\* UpdateCSRF): its row stays over until Find, and Find does not return it.
THEOREM EndedNotServed == Spec => []EndedStaysEnded
<1>1. IInv => EndedStaysEnded
  BY DEF IInv, RequestInv, EndedStaysEnded
<1>2. QED
  BY <1>1, AlwaysIInv, PTL

\* A changing request is served only with the secret its session had when it
\* came (ValidateCSRFForSession): secrets never repeat, so the row that Find
\* returns cannot have gone back to the old one.
THEOREM OldSecretRefused == Spec => []OldSecretIsRefused
<1>1. IInv => OldSecretIsRefused
  BY DEF IInv, RequestInv, OldSecretIsRefused
<1>2. QED
  BY <1>1, AlwaysIInv, PTL

\* Failures exceed the limit by at most the other logins under way
\* (handleLogin, Allow, RecordFailure).
THEOREM FailuresLimited == Spec => []FailuresBounded
<1>1. IInv => FailuresBounded
  <2> SUFFICES ASSUME IInv, NEW u \in DOMAIN limiter
               PROVE  limiter[u].failures
                        + Cardinality({r \in Requests : At(r, "fail") /\ request[r].user = u})
                        <= Limit + Cardinality(Requests) - 1
    BY DEF FailuresBounded
  <2> DEFINE failing == {r \in Requests : At(r, "fail") /\ request[r].user = u}
  <2>1. failing \subseteq Trying(u)
    BY DEF Trying, At
  <2> HIDE DEF failing
  <2>2. /\ Cardinality(failing) <= Cardinality(Trying(u)) /\ Cardinality(failing) \in Nat
        /\ Cardinality(Trying(u)) \in Nat /\ Cardinality(Requests) \in Nat
    BY <2>1, TryingFinite, FS_Subset, FS_CardinalityType
  <2>3. limiter[u].failures + Cardinality(Trying(u)) <= Limit + Cardinality(Requests) - 1
    BY DEF IInv, LimiterInv
  <2>4. limiter[u].failures \in Nat
    BY DEF IInv, TypeOK, Entry
  <2>5. limiter[u].failures + Cardinality(failing) <= Limit + Cardinality(Requests) - 1
    BY <2>2, <2>3, <2>4, Bounds
  <2>6. QED
    BY <2>5 DEF failing
<1>2. QED
  BY <1>1, AlwaysIInv, PTL

\* A session that is neither revoked nor expired keeps its row, and one that is
\* over stays over (DeleteExpired, Revoke, UpdateCSRF).
THEOREM LiveSessionsKept == Spec => LiveSessionsStay
<1> DEFINE Stay == \A t \in 1 .. MaxTokens :
                     /\ ~Over(table[t]) => table'[t] # NoRow
                     /\ (t <= tokens /\ Over(table[t])) => Over(table'[t])
<1>1. IInv /\ [Next]_vars => [Stay]_vars
  <2> SUFFICES ASSUME IInv, [Next]_vars PROVE [Stay]_vars
    OBVIOUS
  <2>1. TypeOK /\ tokens \in Nat
    BY Counters DEF IInv
  <2>2. ASSUME RowsKeep, LiveRowsKeep PROVE Stay
    BY <2>1, <2>2 DEF RowsKeep, LiveRowsKeep
  <2>3. ASSUME table' = table PROVE Stay
    BY <2>3 DEF Over
  <2>4. ASSUME NEW r \in Requests, CreateSession(r) PROVE Stay
    <3>1. request[r].user \in Users
      BY <2>4 DEF IInv, RequestInv, CreateSession, At
    <3>2. CASE UNCHANGED table
      BY <2>3, <3>2
    <3>3. CASE /\ tokens < MaxTokens /\ secrets < MaxSecrets
               /\ tokens' = tokens + 1
               /\ secrets' = secrets + 1
               /\ table' = [table EXCEPT ![tokens + 1] =
                              [user |-> request[r].user, csrf |-> secrets + 1,
                               expires |-> now + Lifetime, revoked |-> Never]]
      BY <2>1, <2>2, <2>4, <3>1, <3>3, InsertRows DEF CreateSession
    <3>4. QED
      BY <2>4, <3>2, <3>3 DEF CreateSession
  <2>5. ASSUME NEW r \in Requests, Sweep(r) PROVE Stay
    <3>1. CASE UNCHANGED table
      BY <2>3, <3>1
    <3>2. CASE table' = [t \in 1 .. MaxTokens |->
                           IF table[t] # NoRow /\ Ended(table[t]) THEN NoRow ELSE table[t]]
      BY <2>1, <2>2, <2>5, <3>2, SweepRows DEF Sweep
    <3>3. QED
      BY <2>5, <3>1, <3>2 DEF Sweep
  <2>6. ASSUME NEW r \in Requests, Revoke(r) PROVE Stay
    BY <2>2, <2>6, RevokeRows
  <2>7. ASSUME NEW r \in Requests, RotateCSRF(r) PROVE Stay
    BY <2>2, <2>7, RotateRows
  <2>8. QED
    BY <2>3, <2>4, <2>5, <2>6, <2>7
    DEF Next, vars, Tick, Restart, ChangeAccount, BeginLogin, Authenticate,
        RecordFailure, ResetLimiter, BeginRequest, Find, AccountStatus, Served
<1>2. QED
  BY <1>1, AlwaysIInv, PTL DEF Spec, LiveSessionsStay
=============================================================================
