------------------------- MODULE ApplianceSessions --------------------------
(***************************************************************************)
(* Appliance logins and sessions of the dashboard API (internal/auth:      *)
(* appliance_handlers.go, appliance_middleware.go, sessions.go,            *)
(* ratelimit.go, broker.go).                                               *)
(*                                                                         *)
(* Requests run concurrently.  Each is a sequence of steps: a call of the  *)
(* login limiter under its lock, one SQL statement on appliance_sessions,  *)
(* or one question to the authentication broker, which may fail.  Accounts *)
(* are the host's and change at any time.  The table survives a restart of *)
(* the API, the limiter does not.                                          *)
(*                                                                         *)
(* Tokens and CSRF secrets are numbers in the order they are drawn, so a   *)
(* fresh one never equals an older one; hashing is left out.  The limiter  *)
(* is keyed by user, as if every request came from one address.            *)
(***************************************************************************)
EXTENDS Integers, FiniteSets

CONSTANTS
  Users,
  Requests,    \* request slots of the HTTP server
  Limit,       \* login_rate_limit
  Window,      \* login_rate_window
  MaxEntries,  \* login_rate_entries
  Lifetime,    \* session ttl
  Grace,       \* how long ended sessions are kept, a day in the code
  MaxTokens,   \* bound: sessions
  MaxSecrets,  \* bound: CSRF secrets
  MaxTime,     \* bound: time
  MaxChanges,  \* bound: account changes
  MaxRestarts  \* bound: restarts

ASSUME SessionAssumption ==
  /\ IsFiniteSet(Users) /\ IsFiniteSet(Requests)
  /\ {Limit, MaxEntries, Lifetime} \subseteq Nat \ {0}
  /\ {Window, Grace, MaxTokens, MaxSecrets, MaxTime, MaxChanges, MaxRestarts}
       \subseteq Nat

VARIABLES
  now,
  enabled,   \* the accounts the host lets log in
  changes,   \* account changes so far
  table,     \* appliance_sessions: token -> row
  tokens,    \* tokens drawn so far
  secrets,   \* CSRF secrets drawn so far
  limiter,   \* LoginRateLimiter.entries: user -> entry
  request,   \* request -> where its handler is
  restarts   \* restarts so far

vars == <<now, enabled, changes, table, tokens, secrets, limiter, request, restarts>>

Never == -1

NoRow == [user |-> "none", csrf |-> 0, expires |-> Never, revoked |-> Never]

Steps == {"idle", "authenticate", "fail", "create", "sweep", "reset", "find",
          "status", "drop", "rotate", "revoke", "served"}

Ops == {"login", "me", "logout", "read", "write"}

\* A request: its operation and step, the user of a login, the token and the
\* CSRF header it came with, the row it found, and, for the properties, why
\* its session was over when it came ("no" if it was not), and whether its
\* header, if it needs one, was the session's secret then.
Idle == [op |-> "read", step |-> "idle", user |-> "none", token |-> 0, csrf |-> 0,
         row |-> NoRow, over |-> "no", fresh |-> FALSE]

NoEntries == [u \in {} |-> 0]

\* An entry of the limiter, a row of the table or none, and a request slot.
Entry == [failures : Nat \ {0}, windowEnd : Nat]

Row == [user : Users \cup {"none"}, csrf : Nat, expires : Int, revoked : Int]

Request ==
  [op : Ops, step : Steps, user : Users \cup {"none"}, token : Nat, csrf : Nat,
   row : Row, over : {"no", "ended", "disabled"}, fresh : BOOLEAN]

TypeOK ==
  /\ now \in 0 .. MaxTime
  /\ enabled \subseteq Users
  /\ changes \in 0 .. MaxChanges
  /\ tokens \in 0 .. MaxTokens
  /\ secrets \in 0 .. MaxSecrets
  /\ table \in [1 .. MaxTokens -> Row]
  /\ \A t \in 1 .. MaxTokens :
       table[t] # NoRow =>
         /\ t <= tokens
         /\ table[t].user \in Users
         /\ table[t].csrf \in 1 .. secrets
         /\ table[t].expires <= now + Lifetime
         /\ table[t].revoked \in {Never} \cup 0 .. now
  /\ DOMAIN limiter \subseteq Users
  /\ limiter \in [DOMAIN limiter -> Entry]
  /\ Cardinality(DOMAIN limiter) <= MaxEntries
  /\ \A u \in DOMAIN limiter : limiter[u].windowEnd <= now + Window
  /\ request \in [Requests -> Request]
  /\ \A r \in Requests : request[r].token <= tokens /\ request[r].csrf <= secrets
  /\ restarts \in 0 .. MaxRestarts

Init ==
  /\ now = 0
  /\ enabled = Users
  /\ changes = 0
  /\ table = [t \in 1 .. MaxTokens |-> NoRow]
  /\ tokens = 0
  /\ secrets = 0
  /\ limiter = NoEntries
  /\ request = [r \in Requests |-> Idle]
  /\ restarts = 0

-----------------------------------------------------------------------------
(***************************************************************************)
(* Time, accounts and restarts.                                            *)
(***************************************************************************)
Tick ==
  /\ now < MaxTime
  /\ now' = now + 1
  /\ UNCHANGED <<enabled, changes, table, tokens, secrets, limiter, request, restarts>>

\* An administrator disables an account, or enables it again, in which case
\* the requests that came while it was disabled may yet be served.
ChangeAccount(u) ==
  /\ changes < MaxChanges
  /\ changes' = changes + 1
  /\ \/ u \in enabled /\ enabled' = enabled \ {u} /\ UNCHANGED request
     \/ /\ u \notin enabled
        /\ enabled' = enabled \cup {u}
        /\ request' = [r \in Requests |->
                         IF request[r].over = "disabled"
                         THEN [request[r] EXCEPT !.over = "no"] ELSE request[r]]
  /\ UNCHANGED <<now, table, tokens, secrets, limiter, restarts>>

\* A new process: requests end where they are and the limiter is empty.
Restart ==
  /\ restarts < MaxRestarts
  /\ restarts' = restarts + 1
  /\ limiter' = NoEntries
  /\ request' = [r \in Requests |-> Idle]
  /\ UNCHANGED <<now, enabled, changes, table, tokens, secrets>>

-----------------------------------------------------------------------------
(***************************************************************************)
(* The login limiter.                                                      *)
(***************************************************************************)
Past(u) == now > limiter[u].windowEnd

\* pruneExpiredLocked
Pruned == [u \in {x \in DOMAIN limiter : ~Past(x)} |-> limiter[u]]

\* Mutant: one attempt more than the limit.
AllowsOneMore(u) == u \in DOMAIN Pruned => Pruned[u].failures <= Limit

\* Allow
Allows(u) == u \in DOMAIN Pruned => Pruned[u].failures < Limit

\* ensureCapacityLocked: a full limiter forgets an entry that ends first.
Evictions(entries) ==
  IF Cardinality(DOMAIN entries) < MaxEntries THEN {entries}
  ELSE {[u \in DOMAIN entries \ {v} |-> entries[u]] :
          v \in {x \in DOMAIN entries :
                   \A y \in DOMAIN entries : entries[x].windowEnd <= entries[y].windowEnd}}

WithEntry(entries, u, e) ==
  [x \in DOMAIN entries \cup {u} |-> IF x = u THEN e ELSE entries[x]]

\* RecordFailure: what the entries may be afterwards.  A later failure counts in
\* the window the first one opened.
AfterFailure(u) ==
  IF u \in DOMAIN Pruned
  THEN {WithEntry(Pruned, u, [Pruned[u] EXCEPT !.failures = @ + 1])}
  ELSE {WithEntry(kept, u, [failures |-> 1, windowEnd |-> now + Window]) :
          kept \in Evictions(Pruned)}

-----------------------------------------------------------------------------
(***************************************************************************)
(* Logins.                                                                 *)
(***************************************************************************)
At(r, step) == request[r].step = step

Goto(r, step) == request' = [request EXCEPT ![r].step = step]

\* The response is written; a slot that is free again remembers nothing.
Respond(r) == request' = [request EXCEPT ![r] = Idle]

\* handleLogin up to Allow.
BeginLogin(r, u) ==
  /\ At(r, "idle")
  /\ limiter' = Pruned
  /\ \/ /\ Allows(u)
        /\ request' = [request EXCEPT ![r] = [Idle EXCEPT !.op = "login", !.user = u,
                                                         !.step = "authenticate"]]
     \/ ~Allows(u) /\ UNCHANGED request
  /\ UNCHANGED <<now, enabled, changes, table, tokens, secrets, restarts>>

\* Broker.Authenticate: right, wrong, or no answer.  A disabled account is
\* refused.
Authenticate(r) ==
  /\ At(r, "authenticate")
  /\ \/ request[r].user \in enabled /\ Goto(r, "create")
     \/ Goto(r, "fail")
     \/ Respond(r)
  /\ UNCHANGED <<now, enabled, changes, table, tokens, secrets, limiter, restarts>>

RecordFailure(r) ==
  /\ At(r, "fail")
  /\ limiter' \in AfterFailure(request[r].user)
  /\ Respond(r)
  /\ UNCHANGED <<now, enabled, changes, table, tokens, secrets, restarts>>

\* SessionManager.Create: fresh secrets and the INSERT, which may fail.
CreateSession(r) ==
  /\ At(r, "create")
  /\ \/ /\ tokens < MaxTokens /\ secrets < MaxSecrets
        /\ tokens' = tokens + 1
        /\ secrets' = secrets + 1
        /\ table' = [table EXCEPT ![tokens + 1] =
                       [user |-> request[r].user, csrf |-> secrets + 1,
                        expires |-> now + Lifetime, revoked |-> Never]]
        /\ Goto(r, "sweep")
     \/ Respond(r) /\ UNCHANGED <<table, tokens, secrets>>
  /\ UNCHANGED <<now, enabled, changes, limiter, restarts>>

\* Mutant: the grace period is added instead of subtracted.
EndedAhead(row) ==
  \/ row.expires <= now + Grace
  \/ row.revoked # Never /\ row.revoked <= now + Grace

\* The rows DeleteExpired matches.  A NULL revoked_at is before nothing.
Ended(row) ==
  \/ row.expires <= now - Grace
  \/ row.revoked # Never /\ row.revoked <= now - Grace

\* store.DeleteExpired, whose failure is ignored.
Sweep(r) ==
  /\ At(r, "sweep")
  /\ \/ table' = [t \in 1 .. MaxTokens |->
                    IF table[t] # NoRow /\ Ended(table[t]) THEN NoRow ELSE table[t]]
     \/ UNCHANGED table
  /\ Goto(r, "reset")
  /\ UNCHANGED <<now, enabled, changes, tokens, secrets, limiter, restarts>>

\* LoginRateLimiter.Reset, and the cookie.
ResetLimiter(r) ==
  /\ At(r, "reset")
  /\ limiter' = [u \in DOMAIN limiter \ {request[r].user} |-> limiter[u]]
  /\ Respond(r)
  /\ UNCHANGED <<now, enabled, changes, table, tokens, secrets, restarts>>

-----------------------------------------------------------------------------
(***************************************************************************)
(* Requests with a session.                                                *)
(***************************************************************************)
Over(row) == row = NoRow \/ row.revoked # Never \/ row.expires <= now

WhyOver(row) ==
  IF Over(row) THEN "ended" ELSE IF row.user \notin enabled THEN "disabled" ELSE "no"

\* A request with the cookie of any session there was and any CSRF header.
BeginRequest(r, op, t, c) ==
  /\ At(r, "idle")
  /\ op # "login"
  /\ op \in {"me", "read"} => c = 0
  /\ request' = [request EXCEPT ![r] =
                   [Idle EXCEPT !.op = op, !.step = "find", !.token = t, !.csrf = c,
                                !.over = WhyOver(table[t]),
                                !.fresh = op \in {"me", "read"} \/ c = table[t].csrf]]
  /\ UNCHANGED <<now, enabled, changes, table, tokens, secrets, limiter, restarts>>

\* Mutant: a session that has been revoked is found.
FindsRevoked(row) == row # NoRow /\ row.expires > now

\* The WHERE of Find.
Finds(row) == row # NoRow /\ row.revoked = Never /\ row.expires > now

Find(r) ==
  /\ At(r, "find")
  /\ LET row == table[request[r].token]
     IN \/ /\ Finds(row)
           /\ request' = [request EXCEPT ![r].step = "status", ![r].row = row]
        \/ Respond(r)
  /\ UNCHANGED <<now, enabled, changes, table, tokens, secrets, limiter, restarts>>

\* Mutant: a handler takes the secret for the current one unseen.
CsrfPasses(r) == TRUE

\* ValidateCSRFForSession, on the row that Find returned.
CsrfMatches(r) == request[r].csrf = request[r].row.csrf

\* From here on only the token matters.
Proceed(r, step) ==
  request' = [request EXCEPT ![r] = [@ EXCEPT !.step = step, !.op = "read", !.csrf = 0, !.row = NoRow]]

\* What the handlers and RequireApplianceCSRF do with a valid session.
AfterValidate(r) ==
  CASE request[r].op = "me" -> "rotate"
    [] request[r].op = "logout" -> "revoke"
    [] OTHER -> "served"

\* Broker.AccountStatus, and the check of the CSRF header that follows it; no
\* answer, or a wrong header, ends the request.
AccountStatus(r) ==
  /\ At(r, "status")
  /\ \/ /\ request[r].row.user \in enabled
        /\ request[r].op \in {"me", "read"} \/ CsrfMatches(r)
        /\ Proceed(r, AfterValidate(r))
     \/ Respond(r)
     \/ request[r].row.user \notin enabled /\ Proceed(r, "drop")
  /\ UNCHANGED <<now, enabled, changes, table, tokens, secrets, limiter, restarts>>

\* Revoke keeps the time of an earlier one.
Revoked(row) == IF row # NoRow /\ row.revoked = Never THEN [row EXCEPT !.revoked = now]
                ELSE row

\* The session of an account that is not active, or a logout.
Revoke(r) ==
  /\ At(r, "drop") \/ At(r, "revoke")
  /\ \/ table' = [table EXCEPT ![request[r].token] = Revoked(@)]
     \/ UNCHANGED table
  /\ Respond(r)
  /\ UNCHANGED <<now, enabled, changes, tokens, secrets, limiter, restarts>>

\* RotateCSRF; a session that was revoked since ends the request.
RotateCSRF(r) ==
  /\ At(r, "rotate")
  /\ Respond(r)
  /\ \/ /\ table[request[r].token] # NoRow
        /\ table[request[r].token].revoked = Never
        /\ secrets < MaxSecrets
        /\ secrets' = secrets + 1
        /\ table' = [table EXCEPT ![request[r].token].csrf = secrets + 1]
     \/ UNCHANGED <<table, secrets>>
  /\ UNCHANGED <<now, enabled, changes, tokens, limiter, restarts>>

Served(r) ==
  /\ At(r, "served")
  /\ Respond(r)
  /\ UNCHANGED <<now, enabled, changes, table, tokens, secrets, limiter, restarts>>

Next ==
  \/ Tick
  \/ Restart
  \/ \E u \in Users : ChangeAccount(u)
  \/ \E r \in Requests :
       \/ \E u \in Users : BeginLogin(r, u)
       \/ Authenticate(r)
       \/ RecordFailure(r)
       \/ CreateSession(r)
       \/ Sweep(r)
       \/ ResetLimiter(r)
       \/ \E op \in Ops, t \in 1 .. tokens, c \in 0 .. secrets : BeginRequest(r, op, t, c)
       \/ Find(r)
       \/ AccountStatus(r)
       \/ Revoke(r)
       \/ RotateCSRF(r)
       \/ Served(r)

Spec == Init /\ [][Next]_vars

-----------------------------------------------------------------------------
(***************************************************************************)
(* Properties.                                                             *)
(***************************************************************************)
InService(r) == request[r].step \in {"served", "rotate", "revoke"}

\* A request that comes after its session was revoked, has expired, was
\* deleted, or lost its account is never served, whatever logins, rotations
\* and restarts happen meanwhile (Validate, UpdateCSRF).
EndedStaysEnded == \A r \in Requests : InService(r) => request[r].over = "no"

\* A changing request is served only with the secret its session had when it
\* came: one that has been rotated is worth nothing
\* (ValidateCSRFForSession, RotateCSRF).
OldSecretIsRefused == \A r \in Requests : InService(r) => request[r].fresh

\* Concurrent logins may all pass Allow before one of them records its
\* failure, so a user can exceed the limit, but only by the logins that were
\* under way (handleLogin).
FailuresBounded ==
  \A u \in DOMAIN limiter :
    limiter[u].failures + Cardinality({r \in Requests : At(r, "fail") /\ request[r].user = u})
      <= Limit + Cardinality(Requests) - 1

\* A session that is neither revoked nor expired is never removed, by the
\* logins that clean up after others or by a restart, and an ended one does
\* not come back (DeleteExpired, UpdateCSRF).
LiveSessionsStay ==
  [][\A t \in 1 .. MaxTokens :
       /\ ~Over(table[t]) => table'[t] # NoRow
       /\ (t <= tokens /\ Over(table[t])) => Over(table'[t])]_vars
=============================================================================
