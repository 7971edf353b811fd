---------------------------- MODULE ControlPlane ----------------------------
(***************************************************************************)
(* The local control plane of a collector: connections that prepare and    *)
(* commit mutations of the managed inventory document, reload the          *)
(* configuration, and restarts of the process.                             *)
(*                                                                         *)
(* Every connection has a goroutine that handles one request at a time.    *)
(* The requests of different connections interleave: the pending store,    *)
(* the mutation lock and the reload lock are held for parts of a request   *)
(* only, and the document is read outside the mutation lock by reloads and *)
(* by the validation of dependencies.  A SIGHUP takes the same reload path *)
(* and is one more connection here.                                        *)
(*                                                                         *)
(* The setup wizard is a process of its own.  After an accept of its own   *)
(* was answered it reads the document, asks the devices for their          *)
(* neighbours for up to two minutes, and writes the whole document back    *)
(* with the upstreams that it inferred, without any lock (deploy.go).      *)
(*                                                                         *)
(* Requests that are refused before they change anything (malformed        *)
(* parameters, a revision that is not the active one, a method that only   *)
(* reads) are steps that leave the state alone.                            *)
(***************************************************************************)
EXTENDS ManagedConfig, Naturals

CONSTANTS
  Conns,        \* connections of operators, and the signal handler
  Wizards,      \* setup wizards
  Mutations,    \* the mutations operators ask for
  MaxTokens,    \* bound: prepared mutations
  MaxCrashes    \* bound: stops of the process

VARIABLES
  managed,      \* the managed document on disk
  current,      \* the active configuration of the manager; Nil while stopped
  items,        \* the pending store: token -> prepared mutation
  issued,       \* how many tokens were issued
  pc,           \* what the goroutine of a connection does next
  req,          \* the token, the method and the revision of its commit, and
                \* the version that was loaded when it began (history)
  job,          \* the prepared mutation its commit took
  cfg,          \* the devices of the configuration its commit or reload read
  doc,          \* the document it read
  mutationMu,   \* holder of Server.mutationMu, or Nil
  reloadMu,     \* holder of Manager.mu, or Nil
  wiz,          \* what a wizard does next: its accept was written ("due"), it
                \* asks the devices ("probing"), or neither
  draft,        \* the document that it read
  crashes,
  \* History variables.
  serial,       \* the written mutations applied one after the other
  version,      \* how often the document was replaced
  loaded,       \* the version that the current configuration shows
  seen,         \* the version a connection read last
  writes,       \* how often the mutation of a token was written
  unchecked,    \* a dependency was written over a document it was not checked on
  overtaken     \* those that will write a document they read before another
                \* process replaced it

server  == <<items, issued>>
conn    == <<pc, req, job, cfg, doc, seen>>
locks   == <<mutationMu, reloadMu>>
wizard  == <<wiz, draft>>
history == <<serial, version, loaded, writes, unchecked, overtaken>>
vars    == <<managed, current, server, conn, locks, wizard, crashes, history>>

Methods == {"thresholds", "dependencies", "device.alerting",
            "discovery.policy", "discovery.accept"}

\* The parameters that the prepare of a method lets through.
Mutation ==
       [method : {"thresholds"}, id : DeviceIds \cup {Nil}, temp : Temps]
  \cup [method : {"dependencies"}, id : DeviceIds, up : SUBSET DeviceIds]
  \cup [method : {"device.alerting"}, id : DeviceIds, enabled : BOOLEAN]
  \cup [method : {"discovery.policy"}, cidrs : Cidrs, limits : Limits \cup {Nil}]
  \cup [method : {"discovery.accept"}, reviews : (SUBSET Review) \ {{}}]

ASSUME ControlAssumption ==
  /\ Mutations \subseteq Mutation
  /\ MaxTokens \in Nat /\ MaxCrashes \in Nat
  /\ Nil \notin Conns /\ Conns \cap Wizards = {}
  /\ ~IsConfig(Nil) /\ \A D \in SUBSET DeviceIds : D # Nil

\* The collector was started with the static file alone.
ASSUME StaticFileLoads ==
  /\ StaticDevices \subseteq DeviceIds
  /\ StaticInventory \in [StaticDevices -> Device]
  /\ StaticTemp \in Temps
  /\ Loadable(NoDocument)

Tokens == 1 .. MaxTokens

\* The revision of the active configuration.
activeRevision == ConfigRevision(current)

Running == current # Nil

----------------------------------------------------------------------------
Init ==
  /\ managed = NoDocument
  /\ current = Merge(NoDocument)
  /\ items = [t \in {} |-> Nil]
  /\ issued = 0
  /\ pc = [c \in Conns |-> "idle"]
  /\ req = [c \in Conns |-> Nil]
  /\ job = [c \in Conns |-> Nil]
  /\ cfg = [c \in Conns |-> Nil]
  /\ doc = [c \in Conns |-> Nil]
  /\ mutationMu = Nil
  /\ reloadMu = Nil
  /\ wiz = [w \in Wizards |-> "idle"]
  /\ draft = [w \in Wizards |-> Nil]
  /\ crashes = 0
  /\ serial = NoDocument
  /\ version = 0
  /\ loaded = 0
  /\ seen = [c \in Conns |-> 0]
  /\ writes = [t \in Tokens |-> 0]
  /\ unchecked = FALSE
  /\ overtaken = {}

\* The request is answered.
Answer(c) ==
  /\ pc' = [pc EXCEPT ![c] = "idle"]
  /\ req' = [req EXCEPT ![c] = Nil]
  /\ job' = [job EXCEPT ![c] = Nil]
  /\ cfg' = [cfg EXCEPT ![c] = Nil]
  /\ doc' = [doc EXCEPT ![c] = Nil]
  /\ seen' = [seen EXCEPT ![c] = 0]

----------------------------------------------------------------------------
(***************************************************************************)
(* Prepared mutations                                                      *)
(***************************************************************************)
\* put: a fresh token bound to the revision that was active.  A reload between
\* the two reads as a reload after the prepare.
put(m) ==
  /\ issued' = issued + 1
  /\ items' = With(items, issued + 1,
                   [mutation |-> m, revision |-> activeRevision, expired |-> FALSE])

Prepare(c, m) ==
  /\ Running /\ pc[c] = "idle"
  /\ issued < MaxTokens
  /\ put(m)
  /\ UNCHANGED <<managed, current, conn, locks, wizard, crashes, history>>

\* ConfirmTTL runs out.
Expire(t) ==
  /\ t \in DOMAIN items
  /\ ~items[t].expired
  /\ items' = [items EXCEPT ![t].expired = TRUE]
  /\ UNCHANGED <<managed, current, issued, conn, locks, wizard, crashes, history>>

\* A commit request passes the check of its revision.  The token is any that was
\* issued, the revision the active one; the others are refused here.
Commit(c, t, method) ==
  /\ Running /\ pc[c] = "idle"
  /\ t <= issued
  /\ req' = [req EXCEPT ![c] = [token |-> t, method |-> method,
                                revision |-> activeRevision, since |-> loaded]]
  /\ pc' = [pc EXCEPT ![c] = "take"]
  /\ UNCHANGED <<managed, current, server, job, cfg, doc, seen, locks, wizard,
                 crashes, history>>

\* Mutant: the revision of the prepared mutation is not compared.
Takes_AnyRevision(item, r) ==
  ~item.expired /\ item.mutation.method = r.method

Takes(item, r) ==
  /\ ~item.expired
  /\ item.mutation.method = r.method
  /\ item.revision = r.revision

\* Mutant: the token stays in the store.
take_KeepsToken(c) ==
  LET t == req[c].token
  IN  /\ pc[c] = "take"
      /\ IF t \in DOMAIN items /\ Takes(items[t], req[c])
         THEN /\ pc' = [pc EXCEPT ![c] = "validate"]
              /\ job' = [job EXCEPT ![c] = items[t]]
              /\ UNCHANGED <<req, cfg, doc, seen>>
         ELSE Answer(c)
      /\ UNCHANGED <<managed, current, server, locks, wizard, crashes, history>>

\* take: the token is gone whatever the answer is.
take(c) ==
  LET t == req[c].token
  IN  /\ pc[c] = "take"
      /\ items' = [u \in DOMAIN items \ {t} |-> items[u]]
      /\ IF t \in DOMAIN items /\ Takes(items[t], req[c])
         THEN /\ pc' = [pc EXCEPT ![c] = "validate"]
              /\ job' = [job EXCEPT ![c] = items[t]]
              /\ UNCHANGED <<req, cfg, doc, seen>>
         ELSE Answer(c)
      /\ UNCHANGED <<managed, current, issued, locks, wizard, crashes, history>>

----------------------------------------------------------------------------
(***************************************************************************)
(* Applying a mutation                                                     *)
(***************************************************************************)
\* The document on disk with the upstreams of d replaced, un-reloaded commits
\* included, has valid dependencies.
ValidatePendingDependencyMutation(d, up) ==
  validateDependencies(mergeInventories(SetUpstreams(managed, d, up)))

\* The checks an apply function makes before it takes the lock.  A policy and a
\* list of reviews are only parsed.
Valid(m) ==
  CASE m.method = "thresholds" -> m.id \in DOMAIN current.devices \cup {Nil}
    [] m.method = "device.alerting" -> m.id \in DOMAIN current.devices
    [] m.method = "dependencies" ->
         /\ m.id \in DOMAIN current.devices
         /\ ValidatePendingDependencyMutation(m.id, m.up)
    [] OTHER -> TRUE

Validate(c) ==
  /\ pc[c] = "validate"
  /\ \/ /\ Valid(job[c].mutation)
        /\ pc' = [pc EXCEPT ![c] = "lock"]
        /\ cfg' = [cfg EXCEPT ![c] = current.devices]
        /\ seen' = [seen EXCEPT ![c] = version]
        /\ UNCHANGED <<req, job, doc>>
     \/ /\ ~Valid(job[c].mutation)
        /\ Answer(c)
  /\ UNCHANGED <<managed, current, server, locks, wizard, crashes, history>>

ReadManagedDocument(c) == doc' = [doc EXCEPT ![c] = managed]

\* Mutant: the document is read without waiting for the lock.
LockMutations_NoWait(c) ==
  /\ pc[c] = "lock"
  /\ mutationMu' = c
  /\ ReadManagedDocument(c)
  /\ pc' = [pc EXCEPT ![c] = "write"]
  /\ UNCHANGED <<managed, current, server, req, job, cfg, seen, reloadMu, wizard,
                 crashes, history>>

LockMutations(c) ==
  /\ pc[c] = "lock"
  /\ mutationMu = Nil
  /\ mutationMu' = c
  /\ ReadManagedDocument(c)
  /\ pc' = [pc EXCEPT ![c] = "write"]
  /\ UNCHANGED <<managed, current, server, req, job, cfg, seen, reloadMu, wizard,
                 crashes, history>>

\* The document that a mutation makes of the one it finds.
Apply(d, m) ==
  CASE m.method = "thresholds"       -> SetThreshold(d, m.id, m.temp)
    [] m.method = "dependencies"     -> SetUpstreams(d, m.id, m.up)
    [] m.method = "device.alerting"  -> SetAlerting(d, m.id, m.enabled)
    [] m.method = "discovery.policy" -> SetPolicy(d, m.cidrs, m.limits)
    [] m.method = "discovery.accept" -> AcceptReviewed(d, m.reviews)

\* AcceptReviewed checks the reviews against the configuration that the commit
\* read before it took the lock, and writes only if a device is new.
Acceptable(m, devices, d) ==
  m.method = "discovery.accept" =>
    /\ approvedDevices(m.reviews)
    /\ rejectActiveDuplicates(devices, m.reviews)
    /\ filterNewManagedAppends(d, m.reviews) # {}

Probing == {w \in Wizards : wiz[w] = "probing"}

\* A wizard whose accept was answered goes on to infer the topology.
MayEnrich(m) ==
  \/ UNCHANGED wizard
  \/ /\ m.method = "discovery.accept"
     /\ \E w \in Wizards :
          /\ wiz[w] = "idle"
          /\ wiz' = [wiz EXCEPT ![w] = "due"]
          /\ UNCHANGED draft

\* The write replaces the document atomically.  The commit may still answer with
\* an error: the directory is synced after the file was replaced.
WriteManagedDocument(c) ==
  LET m    == job[c].mutation
      next == Apply(doc[c], m)
  IN  /\ pc[c] = "write"
      /\ Acceptable(m, cfg[c], doc[c])
      /\ Writable(next)
      /\ managed' = Encoded(next)
      /\ mutationMu' = Nil
      /\ Answer(c)
      /\ MayEnrich(m)
      /\ serial' = IF c \in overtaken THEN next ELSE Apply(serial, m)
      /\ overtaken' = (overtaken \ {c}) \cup Probing
      /\ version' = version + 1
      /\ writes' = [writes EXCEPT ![req[c].token] = @ + 1]
      /\ unchecked' = (unchecked \/ (m.method = "dependencies"
                                       /\ seen[c] # version))
      /\ UNCHANGED <<current, server, reloadMu, crashes, loaded>>

\* The document is refused or cannot be written, or there is nothing to add.
WriteFails(c) ==
  /\ pc[c] = "write"
  /\ mutationMu' = Nil
  /\ Answer(c)
  /\ overtaken' = overtaken \ {c}
  /\ UNCHANGED <<managed, current, server, reloadMu, wizard, crashes, serial,
                 version, loaded, writes, unchecked>>

----------------------------------------------------------------------------
(***************************************************************************)
(* The topology that the setup wizard infers                               *)
(***************************************************************************)
EnrichEnds(w) ==
  /\ wiz' = [wiz EXCEPT ![w] = "idle"]
  /\ draft' = [draft EXCEPT ![w] = Nil]

\* It reads the document; without devices there is nothing to infer.
BeginEnrich(w) ==
  /\ wiz[w] = "due"
  /\ IF DOMAIN managed.devices = {}
     THEN EnrichEnds(w)
     ELSE /\ wiz' = [wiz EXCEPT ![w] = "probing"]
          /\ draft' = [draft EXCEPT ![w] = managed]
  /\ UNCHANGED <<managed, current, server, conn, locks, crashes, history>>

\* Every device was asked, or two minutes are over.  No lock is taken: what was
\* committed since the document was read is thrown away.
EndEnrich(w) ==
  /\ wiz[w] = "probing"
  /\ \E parent \in Parents(draft[w].devices) :
       LET next == Enrich(draft[w], parent)
       IN  /\ Writable(next)
           /\ managed' = Encoded(next)
           /\ serial' = IF w \in overtaken THEN next ELSE Enrich(serial, parent)
  /\ EnrichEnds(w)
  /\ overtaken' = (overtaken \ {w}) \cup (Probing \ {w})
                    \cup {c \in Conns : pc[c] = "write"}
  /\ version' = version + 1
  /\ UNCHANGED <<current, server, conn, locks, crashes, loaded, writes, unchecked>>

\* The accept was answered with an error after all, there is no community to ask
\* with, the document cannot be read or written, or the wizard is closed.
EnrichFails(w) ==
  /\ wiz[w] # "idle"
  /\ EnrichEnds(w)
  /\ overtaken' = overtaken \ {w}
  /\ UNCHANGED <<managed, current, server, conn, locks, crashes, serial, version,
                 loaded, writes, unchecked>>

----------------------------------------------------------------------------
(***************************************************************************)
(* Reload and restart                                                      *)
(***************************************************************************)
\* Mutant: reloads do not wait for each other.
BeginReload_NoWait(c) ==
  /\ Running /\ pc[c] = "idle"
  /\ reloadMu' = c
  /\ ReadManagedDocument(c)
  /\ seen' = [seen EXCEPT ![c] = version]
  /\ pc' = [pc EXCEPT ![c] = "store"]
  /\ UNCHANGED <<managed, current, server, req, job, cfg, mutationMu, wizard,
                 crashes, history>>

\* Load reads the document under the lock of the manager.
BeginReload(c) ==
  /\ Running /\ pc[c] = "idle"
  /\ reloadMu = Nil
  /\ reloadMu' = c
  /\ ReadManagedDocument(c)
  /\ seen' = [seen EXCEPT ![c] = version]
  /\ pc' = [pc EXCEPT ![c] = "store"]
  /\ UNCHANGED <<managed, current, server, req, job, cfg, mutationMu, wizard,
                 crashes, history>>

\* A document that does not load leaves the active configuration in place.
EndReload(c) ==
  /\ pc[c] = "store"
  /\ IF Loadable(doc[c])
     THEN current' = Merge(doc[c]) /\ loaded' = seen[c]
     ELSE UNCHANGED <<current, loaded>>
  /\ reloadMu' = Nil
  /\ Answer(c)
  /\ UNCHANGED <<managed, server, mutationMu, wizard, crashes, serial, version,
                 writes, unchecked, overtaken>>

\* The process stops: prepared mutations, requests and locks are gone.
Crash ==
  /\ Running
  /\ crashes < MaxCrashes
  /\ crashes' = crashes + 1
  /\ current' = Nil
  /\ items' = [t \in {} |-> Nil]
  /\ pc' = [c \in Conns |-> "idle"]
  /\ req' = [c \in Conns |-> Nil]
  /\ job' = [c \in Conns |-> Nil]
  /\ cfg' = [c \in Conns |-> Nil]
  /\ doc' = [c \in Conns |-> Nil]
  /\ seen' = [c \in Conns |-> 0]
  /\ mutationMu' = Nil
  /\ reloadMu' = Nil
  /\ overtaken' = overtaken \ Conns
  /\ UNCHANGED <<managed, issued, wizard, serial, version, loaded, writes,
                 unchecked>>

\* A start that cannot load the document ends the process.
Restart ==
  /\ ~Running
  /\ Loadable(managed)
  /\ current' = Merge(managed)
  /\ loaded' = version
  /\ UNCHANGED <<managed, server, conn, locks, wizard, crashes, serial, version,
                 writes, unchecked, overtaken>>

----------------------------------------------------------------------------
Handle(c) ==
  \/ take(c)
  \/ Validate(c)
  \/ LockMutations(c)
  \/ WriteManagedDocument(c)
  \/ WriteFails(c)
  \/ EndReload(c)

Next ==
  \/ \E c \in Conns :
       \/ \E m \in Mutations : Prepare(c, m)
       \/ \E t \in Tokens, method \in Methods : Commit(c, t, method)
       \/ BeginReload(c)
       \/ Handle(c)
  \/ \E w \in Wizards : BeginEnrich(w) \/ EndEnrich(w) \/ EnrichFails(w)
  \/ \E t \in Tokens : Expire(t)
  \/ Crash
  \/ Restart

Spec == Init /\ [][Next]_vars

----------------------------------------------------------------------------
(***************************************************************************)
(* Properties                                                              *)
(***************************************************************************)
IsItem(item) ==
  \E D \in SUBSET DeviceIds :
    item \in [mutation : Mutations, expired : BOOLEAN,
             revision : [temp : Temps, devices : [D -> Device]]]

\* Every variable has the type of the field or local variable that it models.
TypeOK ==
  /\ IsDocument(managed) /\ IsDocument(serial)
  /\ current = Nil \/ IsConfig(current)
  /\ DOMAIN items \subseteq 1 .. issued /\ issued \in 0 .. MaxTokens
  /\ \A t \in DOMAIN items : IsItem(items[t])
  /\ \A c \in Conns :
       /\ pc[c] \in {"idle", "take", "validate", "lock", "write", "store"}
       /\ pc[c] \in {"validate", "lock", "write"} => IsItem(job[c])
       /\ pc[c] \in {"lock", "write"} => IsInventory(cfg[c], Device)
       /\ pc[c] \in {"write", "store"} => IsDocument(doc[c])
       /\ pc[c] \in {"take", "validate", "lock", "write"} => req[c].token \in 1 .. issued
       /\ pc[c] = "write" <=> mutationMu = c
       /\ pc[c] = "store" <=> reloadMu = c
  /\ \A w \in Wizards :
       /\ wiz[w] \in {"idle", "due", "probing"}
       /\ wiz[w] = "probing" => IsDocument(draft[w])
  /\ overtaken \subseteq Conns \cup Wizards
  /\ version \in Nat /\ loaded \in 0 .. version
  /\ writes \in [Tokens -> Nat]

\* A commit is single-use: however many connections commit a token at the same
\* time, repeat a commit or race its expiry, pendingStore.take hands its mutation
\* to one of them, and the document is replaced at most once for it.
SingleUse == \A t \in Tokens : writes[t] <= 1

\* The document on disk is what its writers make of an empty one, one after the
\* other.  Read-modify-write under Server.mutationMu loses no commit of another
\* connection, whatever it was validated against before the lock.  The wizard
\* writes without the lock: it throws away the commits that were written while
\* it probed, and those alone, and is itself thrown away by a commit that had
\* read the document before and writes it after, and by no other.
SerialCommits ==
  /\ managed = Encoded(serial)
  /\ overtaken \subseteq Probing \cup {c \in Conns : pc[c] = "write"}

\* Dependency commits leave no cycle, no missing upstream and no self reference
\* in the document, un-reloaded commits of other devices included, as long as
\* no write slipped between the validation of a dependency (which
\* ValidatePendingDependencyMutation does before mutationMu is taken) and its
\* own.  What the wizard infers, and the older documents that it and the commits
\* it overlaps bring back, leave none either.
DependenciesSound ==
  unchecked \/ validateDependencies(mergeInventories(managed))

\* No two devices of the inventory share a host, un-reloaded accepts of several
\* connections included: AcceptReviewed checks a configuration that may be stale
\* by then, but the document that it writes.  Neither does an older document
\* that comes back, nor an overlay that is left behind without its device.
UniqueInventory == UniqueHosts(mergeInventories(managed))

\* What overlapping commits leave on disk: a document whose dependencies and
\* addresses the checks of Load accept.
DocumentIsValid == TypeOK /\ DependenciesSound /\ UniqueInventory

\* A prepared mutation whose revision was superseded is written only by a commit
\* that overlaps the reload which superseded it.
RevisionBound ==
  \A c \in Conns :
    pc[c] = "write" /\ req[c].since = loaded
      => job[c].revision = activeRevision

\* The active configuration never goes back to an older document: reloads of
\* several connections and restarts show what the one before them showed, or
\* something newer.
ReloadNeverRegresses == [][loaded' >= loaded]_vars

\* A commit changes the fields that it names and no other: the devices that the
\* written document makes of the static ones have the upstreams, temperatures
\* and alerting that the operators set, and those of the static file where they
\* set none.
OverlayChangesNamedFields ==
  mergeInventories(managed) = mergeInventories(serial)
=============================================================================
