---------------------------- MODULE SetupWizard -----------------------------
(***************************************************************************)
(* The setup wizard (internal/tui/setup).  It is a Bubble Tea program: one *)
(* event loop, Update, owns the model record m and handles one message at  *)
(* a time; a handler may return a command, which runs in a goroutine of    *)
(* its own and whose result comes back as a message, in any order.         *)
(*                                                                         *)
(* cmds and msgs are bags, because the same command may be in flight       *)
(* twice.  disk is what the commands change: the deployment directory and  *)
(* the containers, with the devices each collector's inventory enrolls.    *)
(* disk.raced is kept for the properties alone: the devices accepted at a  *)
(* site while a command was probing that site for its topology.  Sites are *)
(* numbered; a list of n sites is the number n, and 0 is the nil list.     *)
(* Keys that only move the focus, edit a text or toggle a candidate change *)
(* nothing the properties see: an edited value is a choice made when it is *)
(* used.                                                                   *)
(***************************************************************************)
EXTENDS Integers, Bags, FiniteSetsExt

CONSTANTS
  Deployments    \* the deployments an instance covers, each a record
                 \*   profile   the deployment profile
                 \*   devices   bound: the devices a discovery can find
                 \*   sites     bound: largest number of sites configured
                 \*   inflight  bound: commands and messages under way at once

ASSUME SetupAssumption ==
  /\ IsFiniteSet(Deployments)
  /\ \A d \in Deployments :
       /\ d.profile \in {"dev-vxrail", "appliance"}
       /\ d.sites \in Nat \ {0} /\ d.inflight \in Nat \ {0}

VARIABLES m, cmds, msgs, disk

vars == <<m, cmds, msgs, disk>>

Steps == {"adminUser", "users", "env", "sites", "siteTopology", "start",
          "review", "thresholds", "done"}
Modes == {"", "full", "sites", "users"}
UserModes == {"menu", "form"}   \* create, disable, enable, reset or delete

\* The per-profile switches of ProfileConfigFor.
AutoAcceptDiscovery(profile) == profile = "dev-vxrail"
RequireAdminUser(profile) == profile = "appliance"
UserManagement(profile) == profile = "appliance"

\* m.sites and the number of site rows a new model starts with: the ones of
\* the manifest when an existing deployment is reconfigured.
PreloadedSites(mode) == IF mode = "" THEN 0 ELSE disk.manifest

NewModel(d, mode) ==
  [alive |-> TRUE, limits |-> d, profile |-> d.profile, mode |-> mode,
   splash |-> TRUE,
   step |-> "env", loading |-> FALSE, err |-> FALSE,
   adminPhase |-> "", usersMode |-> "menu",
   siteCount |-> IF PreloadedSites(mode) = 0 THEN d.sites
                                             ELSE PreloadedSites(mode),
   sites |-> PreloadedSites(mode), deploySites |-> 0,
   reviewPhase |-> "", reviewSiteIdx |-> 0,
   reviewAutoSites |-> 0, reviewAutoIdx |-> 0,
   discoverSpec |-> 0, discoverManual |-> FALSE]

Site == 1..Max({d.sites : d \in Deployments})
Device == UNION {d.devices : d \in Deployments}

TypeOK ==
  /\ m.limits \in Deployments /\ m.profile = m.limits.profile
  /\ m.mode \in Modes /\ m.step \in Steps
  /\ m.usersMode \in UserModes
  /\ m.adminPhase \in {"", "loading", "choose", "create"}
  /\ m.reviewPhase \in {"", "pick"}
  /\ {m.alive, m.splash, m.loading, m.err, m.discoverManual} \subseteq BOOLEAN
  /\ {m.sites, m.deploySites, m.reviewAutoSites, m.discoverSpec,
      disk.manifest, disk.compose} \subseteq Site \cup {0}
  /\ m.siteCount \in Site /\ (m.reviewSiteIdx + 1) \in Site
  /\ disk.config \subseteq Site /\ disk.up \subseteq Site
  /\ disk.threshold \subseteq Site
  /\ disk.inventory \subseteq Site
  /\ disk.enrolled \in [Site -> SUBSET Device]
  /\ disk.raced \in [Site -> SUBSET Device]
  /\ disk.env \in BOOLEAN /\ disk.marker \in BOOLEAN

-----------------------------------------------------------------------------
(***************************************************************************)
(* Commands [op, n, k, draft] and messages [type, err, n].  What n and k   *)
(* carry is said where the command is built; draft is what a probe read.   *)
(***************************************************************************)
Cmd(op, n, k) == [op |-> op, n |-> n, k |-> k, draft |-> {}]
Msg(type, n) == [type |-> type, err |-> FALSE, n |-> n]
ErrMsg(type) == [type |-> type, err |-> TRUE, n |-> 0]

Room == BagCardinality(cmds) + BagCardinality(msgs) < m.limits.inflight

\* A handler leaves model m2 and returns no command, or the command c.
Stay(m2) == m' = m2 /\ UNCHANGED <<cmds, disk>>
Issue(m2, c) ==
  m' = m2 /\ cmds' = cmds (+) SetToBag({c}) /\ UNCHANGED disk

\* A key reaches the step's own update function only when neither the splash
\* screen nor a running command hides it.
KeyFor(step) ==
  /\ m.alive /\ ~m.splash /\ ~m.loading
  /\ m.step = step
  /\ UNCHANGED msgs

-----------------------------------------------------------------------------
(***************************************************************************)
(* Quitting and starting.                                                  *)
(***************************************************************************)
\* The process ends: the model, its goroutines and the queued messages go.
Exit ==
  /\ m' = [NewModel(m.limits, "") EXCEPT !.alive = FALSE]
  /\ cmds' = EmptyBag /\ msgs' = EmptyBag
  /\ UNCHANGED disk

\* handleQuitKey: at once on the splash screen and on the last page, after a
\* confirmation elsewhere, also while a command runs.  A question that is
\* answered with no leaves nothing behind.
HandleQuitKey == m.alive /\ Exit

FirstStepAfterSplash ==
  CASE m.mode = "users" /\ UserManagement(m.profile) -> "users"
    [] m.mode = "sites" -> "env"
    [] OTHER -> IF RequireAdminUser(m.profile) THEN "adminUser" ELSE "env"

\* Enter on the splash screen.
LeaveSplash ==
  LET first == FirstStepAfterSplash
      next == [m EXCEPT !.splash = FALSE, !.step = first] IN
  /\ m.alive /\ m.splash
  /\ UNCHANGED msgs
  /\ CASE first = "adminUser" /\ m.profile = "appliance" ->
            /\ Room
            /\ Issue([next EXCEPT !.adminPhase = "loading", !.loading = TRUE],
                     Cmd("loadAdmins", 0, 0))
       [] first = "users" ->
            /\ Room
            /\ Issue([next EXCEPT !.usersMode = "menu", !.loading = TRUE],
                     Cmd("refreshUsers", 0, 0))
       [] OTHER -> Stay(next)

-----------------------------------------------------------------------------
(***************************************************************************)
(* Keys of the administrator and user steps.                               *)
(***************************************************************************)
\* advanceFromAdminStep: the list is requested, but loading is not set.
UseExistingAdmins ==
  /\ KeyFor("adminUser") /\ m.adminPhase = "choose" /\ Room
  /\ LET next == [m EXCEPT !.err = FALSE] IN
     IF UserManagement(m.profile)
     THEN Issue([next EXCEPT !.step = "users", !.usersMode = "menu"],
                Cmd("refreshUsers", 0, 0))
     ELSE Stay([next EXCEPT !.step = "env"])

CreateAdminInstead ==
  /\ KeyFor("adminUser") /\ m.adminPhase = "choose"
  /\ Stay([m EXCEPT !.adminPhase = "create", !.err = FALSE])

SubmitAdmin ==
  /\ KeyFor("adminUser") /\ m.adminPhase = "create" /\ Room
  /\ Issue([m EXCEPT !.loading = TRUE, !.err = FALSE], Cmd("createAdmin", 0, 0))

OpenUsersForm ==
  /\ KeyFor("users") /\ m.usersMode = "menu"
  /\ Stay([m EXCEPT !.usersMode = "form"])

ListUsers ==
  /\ KeyFor("users") /\ m.usersMode = "menu" /\ Room
  /\ Issue([m EXCEPT !.loading = TRUE], Cmd("refreshUsers", 0, 0))

\* Escape from a form: again a request without loading.
LeaveUsersForm ==
  /\ KeyFor("users") /\ m.usersMode = "form" /\ Room
  /\ Issue([m EXCEPT !.usersMode = "menu"], Cmd("refreshUsers", 0, 0))

SubmitUsersForm ==
  /\ KeyFor("users") /\ m.usersMode = "form" /\ Room
  /\ Issue([m EXCEPT !.loading = TRUE], Cmd("usersAction", 0, 0))

LeaveUsers ==
  /\ KeyFor("users") /\ m.usersMode = "menu"
  /\ Stay([m EXCEPT !.step = "env"])

-----------------------------------------------------------------------------
(***************************************************************************)
(* Keys of the configuration, deployment and review steps.                 *)
(***************************************************************************)
SubmitEnv == KeyFor("env") /\ Stay([m EXCEPT !.step = "sites"])

\* resizeSiteInputs, as the operator types another count.
ResizeSites ==
  /\ KeyFor("sites")
  /\ \E n \in 1..m.limits.sites \ {m.siteCount} : Stay([m EXCEPT !.siteCount = n])

SubmitSites ==
  /\ KeyFor("sites") /\ Room
  /\ Issue([m EXCEPT !.loading = TRUE, !.err = FALSE],
           Cmd("persistEnv", m.siteCount, 0))

\* The command carries the specs (n) and the upstream rows (k).
SubmitTopology ==
  /\ KeyFor("siteTopology") /\ Room
  /\ Issue([m EXCEPT !.loading = TRUE, !.err = FALSE],
           Cmd("persistTopology", m.sites, m.siteCount))

StartDeploy ==
  /\ KeyFor("start") /\ Room
  /\ Issue([m EXCEPT !.loading = TRUE, !.err = FALSE], Cmd("beginDeploy", 0, 0))

BeginAutoReview ==
  Issue([m EXCEPT !.loading = TRUE, !.err = FALSE], Cmd("beginAutoReview", 0, 0))

StartReview ==
  /\ KeyFor("review") /\ AutoAcceptDiscovery(m.profile) /\ ~m.err /\ Room
  /\ BeginAutoReview

\* r and s after an error, handled before the step's update function and for
\* every profile.
RetryReview == KeyFor("review") /\ m.err /\ Room /\ BeginAutoReview

SkipReview ==
  /\ KeyFor("review") /\ m.err
  /\ Stay([m EXCEPT !.err = FALSE, !.step = "thresholds"])

\* The appliance reviews one site at a time: scan (n is the index, k the
\* sites), toggle, accept or skip.
ScanReviewSite ==
  /\ KeyFor("review") /\ ~AutoAcceptDiscovery(m.profile)
  /\ m.reviewPhase = "" /\ Room
  /\ Issue([m EXCEPT !.loading = TRUE, !.err = FALSE],
           Cmd("scanSite", m.reviewSiteIdx, m.sites))

AcceptReviewSite ==
  /\ KeyFor("review") /\ ~AutoAcceptDiscovery(m.profile)
  /\ m.reviewPhase = "pick" /\ Room
  /\ Issue([m EXCEPT !.loading = TRUE, !.err = FALSE],
           Cmd("acceptSite", m.reviewSiteIdx, m.sites))

\* skipReviewSite returns a command, and loading is not set.
SkipReviewSite ==
  /\ KeyFor("review") /\ ~AutoAcceptDiscovery(m.profile) /\ ~m.err /\ Room
  /\ Issue(m, Cmd("skipSite", 0, 0))

SubmitThreshold ==
  /\ KeyFor("thresholds") /\ Room
  /\ Issue([m EXCEPT !.loading = TRUE], Cmd("applyThreshold", 0, 0))

-----------------------------------------------------------------------------
(***************************************************************************)
(* Commands, each run in its goroutine: as a whole, but for an acceptance, *)
(* which goes on for minutes after its commit.  Whatever fails on the way  *)
(* (a file, docker, a control call, the end of the process) leaves the     *)
(* steps already done, which is why an error may come with a changed disk. *)
(***************************************************************************)
Finish(c, d, msg) ==
  /\ cmds' = cmds (-) SetToBag({c})
  /\ msgs' = msgs (+) SetToBag({msg})
  /\ disk' = d
  /\ UNCHANGED m

\* The goroutine of c has left disk d and goes on as c2.
GoOn(c, d, c2) ==
  /\ cmds' = (cmds (-) SetToBag({c})) (+) SetToBag({c2})
  /\ disk' = d
  /\ UNCHANGED <<m, msgs>>

\* runPamHelperOutput and the calls made of it: the helper works or does not;
\* the accounts are not modelled.
PamHelper(type, answers) == {ErrMsg(type)} \cup {Msg(type, n) : n \in answers}

\* loadExistingAdmins; n = 1 when there are accounts.
RunLoadAdmins(c) ==
  /\ c.op = "loadAdmins"
  /\ \E msg \in PamHelper("existingAdmins", {0, 1}) : Finish(c, disk, msg)

RefreshUsersList(c) ==
  /\ c.op = "refreshUsers"
  /\ \E msg \in PamHelper("asyncDone", {0}) : Finish(c, disk, msg)

CreateInitialAdmin(c) ==
  /\ c.op = "createAdmin"
  /\ \E msg \in PamHelper("asyncDone", {0}) : Finish(c, disk, msg)

RunUsersAction(c) ==
  /\ c.op = "usersAction"
  /\ \E msg \in PamHelper("asyncDone", {0}) : Finish(c, disk, msg)

WriteEnvFile(d) == [d EXCEPT !.env = TRUE]

\* persistEnvAndSites: build the specs, then write .env; the specs travel in
\* the answer.
RunPersistEnv(c) ==
  /\ c.op = "persistEnv"
  /\ \/ Finish(c, disk, ErrMsg("asyncDone"))
     \/ Finish(c, WriteEnvFile(disk), Msg("asyncDone", c.n))

\* Mutant: every persist seeds the inventory again.
WriteSiteArtifactsReseeds(d, n) ==
  [d EXCEPT !.config = @ \cup 1..n,
            !.inventory = @ \cup 1..n,
            !.enrolled = [s \in Site |-> IF s <= n THEN {} ELSE @[s]]]

\* WriteSiteArtifacts for the first n sites: the static configuration is
\* rewritten, the managed inventory is only seeded where there is none.
WriteSiteArtifacts(d, n) ==
  [d EXCEPT !.config = @ \cup 1..n, !.inventory = @ \cup 1..n]

WriteManifest(d, n) == [d EXCEPT !.manifest = n]
GenerateCompose(d, n) == [d EXCEPT !.compose = n]

\* Mutant: the compose file is written before the artifacts.
PersistStagesComposeFirst(d, n) ==
  {d} \cup {WriteSiteArtifacts(GenerateCompose(WriteManifest(d, n), n), i) :
              i \in 0..n}

\* Where persistMultiSiteArtifacts can fail: manifest, then artifacts site by
\* site and their permissions, then the compose file.
PersistStages(d, n) ==
  {d} \cup {WriteSiteArtifacts(WriteManifest(d, n), i) : i \in 0..n}

PersistMultiSiteArtifacts(d, n) ==
  GenerateCompose(WriteSiteArtifacts(WriteManifest(d, n), n), n)

\* persistTopologyAndSites: ApplyUpstreamSiteIDs refuses a row count that is
\* not the number of specs, and ValidateSiteTopology may refuse the rest.
RunPersistTopology(c) ==
  /\ c.op = "persistTopology"
  /\ \/ Finish(c, disk, ErrMsg("asyncDone"))
     \/ /\ c.n = c.k
        /\ \E d \in PersistStages(disk, c.n) : Finish(c, d, ErrMsg("asyncDone"))
     \/ /\ c.n = c.k
        /\ Finish(c, PersistMultiSiteArtifacts(disk, c.n), Msg("asyncDone", c.n))

LoadManifest == disk.manifest # 0
LoadEnvFile == disk.env

RunBeginDeploy(c) ==
  /\ c.op = "beginDeploy"
  /\ \/ Finish(c, disk, ErrMsg("deployBegin"))
     \/ LoadManifest /\ Finish(c, disk, Msg("deployBegin", disk.manifest))

RunBeginAutoReview(c) ==
  /\ c.op = "beginAutoReview"
  /\ \/ Finish(c, disk, ErrMsg("reviewAutoBegin"))
     \/ /\ LoadEnvFile /\ LoadManifest
        /\ Finish(c, disk, Msg("reviewAutoBegin", disk.manifest))

\* docker compose up for the first n services, all of them in the file.
ComposeUp(d, n) == [d EXCEPT !.up = 1..n]
StopCompose(d, n) == [d EXCEPT !.up = @ \ (1..n)]

\* waitForCollector: a collector that is not up is never ready.
CollectorReady(s) == s \in disk.up

\* runDeployPhase k for n sites: start; stop, then fix the ownership, which may
\* fail; restart; wait for one collector after the other.  The answer holds the
\* next phase, or 0 for finished.
RunDeployPhase(c) ==
  LET answer == Msg("deployPhase", IF c.k >= 2 + c.n THEN 0 ELSE c.k + 1) IN
  /\ c.op = "deployPhase"
  /\ \/ Finish(c, disk, ErrMsg("deployPhase"))
     \/ /\ c.k \in {0, 2} /\ c.n <= disk.compose
        /\ Finish(c, ComposeUp(disk, c.n), answer)
     \/ /\ c.k = 1
        /\ \E msg \in {ErrMsg("deployPhase"), answer} :
             Finish(c, StopCompose(disk, c.n), msg)
     \/ /\ c.k > 2 /\ CollectorReady(c.k - 2)
        /\ Finish(c, disk, answer)

\* startAsyncDiscoveryScan for the site at index n.  By hand (k sites, or the
\* manifest's when m.sites is nil) an error is an asyncDoneMsg.
RunScanSite(c) ==
  LET sites == IF c.k = 0 THEN disk.manifest ELSE c.k IN
  /\ c.op = "scanSite"
  /\ \/ Finish(c, disk, ErrMsg("asyncDone"))
     \/ /\ LoadEnvFile /\ c.n < sites /\ (c.n + 1) \in disk.up
        /\ Finish(c, disk, Msg("scanStartedManual", c.n + 1))

RunScanAuto(c) ==
  /\ c.op = "scanAuto"
  /\ \/ Finish(c, disk, ErrMsg("reviewAutoAccept"))
     \/ /\ c.n \in disk.up
        /\ Finish(c, disk, Msg("scanStarted", c.n))

\* scheduleDiscoveryPoll and pollDiscoveryProgressCmd; n = 1 while the scan
\* runs.  A failed scan and a failed call are handled alike.
RunPollTick(c) == c.op = "pollTick" /\ Finish(c, disk, Msg("pollTick", 0))

PollEnds(c) ==
  /\ c.op = "poll"
  /\ \E msg \in {ErrMsg("progress"), Msg("progress", 0)} : Finish(c, disk, msg)

PollRunning(c) ==
  c.op = "poll" /\ c.n \in disk.up /\ Finish(c, disk, Msg("progress", 1))

RunFetch(c) ==
  /\ c.op = "fetch"
  /\ \/ Finish(c, disk, ErrMsg("scanDone"))
     \/ c.n \in disk.up /\ Finish(c, disk, Msg("scanDone", c.n))

\* A command that only hands over a message: the asyncDoneMsg after the last
\* phase or site, the reviewScanMsg, a skipped site.
RunHandOver(c) ==
  \/ c.op = "emitDone" /\ Finish(c, disk, Msg("asyncDone", 0))
  \/ c.op = "emitScan" /\ Finish(c, disk, Msg("reviewScan", 0))
  \/ c.op = "skipSite" /\ Finish(c, disk, Msg("reviewAccept", 0))

\* acceptReviews asks the collector to prepare and to commit.  The devices are
\* in once it has committed, whatever happens to the rest.
Probing(s) == \E c \in BagToSet(cmds) : c.op = "probe" /\ c.n = s

Enroll(d, s, devices) ==
  [d EXCEPT !.enrolled[s] = @ \cup devices,
            !.raced[s] = IF Probing(s) THEN @ \cup devices ELSE @]

\* The answers of an acceptance, by itself (k = 1) or for the operator.
Accepted(k) == Msg(IF k = 1 THEN "reviewAutoAccept" ELSE "reviewAccept", 0)
NotAccepted(k) == ErrMsg(IF k = 1 THEN "reviewAutoAccept" ELSE "asyncDone")

\* The commit at site s: its answer is lost, or the goroutine goes on.
Commit(c, s, k) ==
  /\ s \in disk.up
  /\ \E devices \in SUBSET m.limits.devices \ {{}} :
       \/ Finish(c, Enroll(disk, s, devices), NotAccepted(k))
       \/ GoOn(c, Enroll(disk, s, devices), Cmd("enrich", s, k))

\* acceptSiteDiscovery: nothing found, or every successful candidate.
RunAcceptAuto(c) ==
  /\ c.op = "acceptAuto"
  /\ \/ Finish(c, disk, NotAccepted(1))
     \/ Finish(c, disk, Accepted(1))
     \/ Commit(c, c.n, 1)

\* runAcceptReviewSite: the candidates the operator left approved, maybe none.
RunAcceptSite(c) ==
  LET sites == IF c.k = 0 THEN disk.manifest ELSE c.k IN
  /\ c.op = "acceptSite"
  /\ \/ Finish(c, disk, NotAccepted(0))
     \/ c.n < sites /\ Finish(c, disk, Accepted(0))
     \/ c.n < sites /\ Commit(c, c.n + 1, 0)

\* enrichManagedTopology reads the inventory, not empty after the commit, and
\* probes its devices; the collector may commit meanwhile.
RunReadInventory(c) ==
  /\ c.op = "enrich"
  /\ \/ Finish(c, disk, NotAccepted(c.k))
     \/ GoOn(c, disk, [c EXCEPT !.op = "probe", !.draft = disk.enrolled[c.n]])

\* Then it writes back the devices it had read, and the collector reloads.
WriteBack(d, c) == [d EXCEPT !.enrolled[c.n] = c.draft]

RunProbe(c) ==
  /\ c.op = "probe"
  /\ \/ Finish(c, disk, NotAccepted(c.k))
     \/ \E msg \in {NotAccepted(c.k), Accepted(c.k)} :
          Finish(c, WriteBack(disk, c), msg)

\* setThreshold on the first i sites.
SetThresholds(d, i) == [d EXCEPT !.threshold = @ \cup (1..i)]

MarkComplete(d) == [d EXCEPT !.marker = TRUE]

\* runAppliancePostConfigure: on the appliance every service of the compose
\* file is brought up, or that fails, after the marker is written.
PostConfigure(d) ==
  IF m.profile # "appliance" THEN {<<d, FALSE>>}
  ELSE {<<d, TRUE>>, <<ComposeUp(d, d.compose), FALSE>>}

\* applyThreshold: every site of the manifest in turn, the marker, then the
\* post-configuration.
RunApplyThreshold(c) ==
  LET n == disk.manifest IN
  /\ c.op = "applyThreshold"
  /\ \/ Finish(c, disk, ErrMsg("asyncDone"))
     \/ \E i \in 1..n : /\ (1..i) \subseteq disk.up
                        /\ Finish(c, SetThresholds(disk, i), ErrMsg("asyncDone"))
     \/ /\ LoadManifest /\ (1..n) \subseteq disk.up
        /\ \E post \in PostConfigure(MarkComplete(SetThresholds(disk, n))) :
             Finish(c, post[1], IF post[2] THEN ErrMsg("asyncDone")
                                           ELSE Msg("asyncDone", 0))

Run(c) ==
  \/ RunLoadAdmins(c) \/ RefreshUsersList(c) \/ CreateInitialAdmin(c)
  \/ RunUsersAction(c) \/ RunPersistEnv(c)
  \/ RunPersistTopology(c) \/ RunBeginDeploy(c) \/ RunBeginAutoReview(c) \/ RunDeployPhase(c)
  \/ RunScanSite(c) \/ RunScanAuto(c) \/ RunPollTick(c) \/ PollEnds(c)
  \/ PollRunning(c) \/ RunFetch(c) \/ RunHandOver(c) \/ RunAcceptAuto(c)
  \/ RunAcceptSite(c) \/ RunReadInventory(c) \/ RunProbe(c) \/ RunApplyThreshold(c)

-----------------------------------------------------------------------------
(***************************************************************************)
(* Update, one action per message type.  A message is handled whatever the *)
(* step is by the time it arrives.                                         *)
(***************************************************************************)
Take(msg, type) ==
  /\ m.alive
  /\ msg.type = type
  /\ msgs' = msgs (-) SetToBag({msg})

\* What every handler does with an error.
Fail == Stay([m EXCEPT !.loading = FALSE, !.err = TRUE])

OnExistingAdmins(msg) ==
  /\ Take(msg, "existingAdmins")
  /\ Stay([m EXCEPT !.loading = FALSE, !.err = msg.err,
             !.adminPhase = IF msg.n = 1 THEN "choose" ELSE "create"])

OnDeployBegin(msg) ==
  /\ Take(msg, "deployBegin")
  /\ IF msg.err THEN Fail
     ELSE Issue([m EXCEPT !.deploySites = msg.n], Cmd("deployPhase", msg.n, 0))

\* After the last phase loading is dropped before the asyncDoneMsg is sent.
OnDeployPhase(msg) ==
  /\ Take(msg, "deployPhase")
  /\ IF msg.err THEN Fail
     ELSE IF msg.n = 0
     THEN Issue([m EXCEPT !.loading = FALSE], Cmd("emitDone", 0, 0))
     ELSE Issue(m, Cmd("deployPhase", m.deploySites, msg.n))

\* Mutant: a started scan is not polled.
OnScanStartedIdle(msg) ==
  /\ msg.type \in {"scanStarted", "scanStartedManual"}
  /\ Take(msg, msg.type)
  /\ Stay([m EXCEPT !.discoverSpec = msg.n,
                    !.discoverManual = msg.type = "scanStartedManual"])

OnScanStarted(msg) ==
  /\ msg.type \in {"scanStarted", "scanStartedManual"}
  /\ Take(msg, msg.type)
  /\ Issue([m EXCEPT !.discoverSpec = msg.n,
                     !.discoverManual = msg.type = "scanStartedManual"],
           Cmd("pollTick", 0, 0))

\* The chain of polls ends when nobody is waiting any more.
OnPollTick(msg) ==
  /\ Take(msg, "pollTick")
  /\ IF m.loading THEN Issue(m, Cmd("poll", m.discoverSpec, 0)) ELSE Stay(m)

OnProgress(msg) ==
  /\ Take(msg, "progress")
  /\ IF msg.err THEN Fail
     ELSE IF msg.n = 1 THEN Issue(m, Cmd("pollTick", 0, 0))
     ELSE Issue(m, Cmd("fetch", m.discoverSpec, 0))

\* m.reviewAutoSites[m.reviewAutoIdx] is a slice index: out of range, the
\* program panics.
Indexed(msg, m2, op) ==
  IF m2.reviewAutoIdx < m2.reviewAutoSites
  THEN /\ msgs' = msgs (-) SetToBag({msg})
       /\ Issue(m2, Cmd(op, m2.reviewAutoIdx + 1, 0))
  ELSE Exit

OnScanDone(msg) ==
  \/ /\ Take(msg, "scanDone")
     /\ msg.err \/ m.discoverManual
     /\ IF msg.err THEN Fail ELSE Issue(m, Cmd("emitScan", 0, 0))
  \/ /\ m.alive /\ msg.type = "scanDone" /\ ~msg.err /\ ~m.discoverManual
     /\ Indexed(msg, m, "acceptAuto")

OnReviewScan(msg) ==
  /\ Take(msg, "reviewScan")
  /\ Stay([m EXCEPT !.loading = FALSE, !.err = FALSE, !.reviewPhase = "pick"])

\* A reviewed or skipped site: the next one, or the thresholds after the last.
OnReviewAccept(msg) ==
  LET next == [m EXCEPT !.loading = FALSE, !.err = FALSE] IN
  /\ Take(msg, "reviewAccept")
  /\ Stay(IF m.reviewSiteIdx + 1 >= m.sites
          THEN [next EXCEPT !.step = "thresholds"]
          ELSE [next EXCEPT !.reviewSiteIdx = @ + 1, !.reviewPhase = ""])

OnReviewAutoBegin(msg) ==
  \/ Take(msg, "reviewAutoBegin") /\ msg.err /\ Fail
  \/ /\ m.alive /\ msg.type = "reviewAutoBegin" /\ ~msg.err
     /\ Indexed(msg, [m EXCEPT !.reviewAutoSites = msg.n, !.reviewAutoIdx = 0],
                "scanAuto")

OnReviewAutoAccept(msg) ==
  LET next == [m EXCEPT !.reviewAutoIdx = @ + 1] IN
  \/ Take(msg, "reviewAutoAccept") /\ msg.err /\ Fail
  \/ /\ Take(msg, "reviewAutoAccept") /\ ~msg.err
     /\ next.reviewAutoIdx >= m.reviewAutoSites
     /\ Issue([next EXCEPT !.loading = FALSE], Cmd("emitDone", 0, 0))
  \/ /\ m.alive /\ msg.type = "reviewAutoAccept" /\ ~msg.err
     /\ next.reviewAutoIdx < m.reviewAutoSites
     /\ Indexed(msg, next, "scanAuto")

\* asyncDoneMsg: what it means depends on the step it arrives in.
OnAsyncDone(msg) ==
  LET next == [m EXCEPT !.loading = FALSE, !.err = FALSE] IN
  /\ Take(msg, "asyncDone")
  /\ IF msg.err THEN Fail
     ELSE CASE m.step = "adminUser" /\ UserManagement(m.profile) ->
                 Issue([next EXCEPT !.step = "users", !.usersMode = "menu"],
                       Cmd("refreshUsers", 0, 0))
            [] m.step = "adminUser" /\ ~UserManagement(m.profile) ->
                 Stay([next EXCEPT !.step = "env"])
            [] m.step = "users" -> Stay([next EXCEPT !.usersMode = "menu"])
            [] m.step = "sites" ->
                 Stay([next EXCEPT !.step = "siteTopology",
                         !.sites = IF msg.n = 0 THEN @ ELSE msg.n])
            [] m.step = "siteTopology" ->
                 Stay([next EXCEPT !.step = "start",
                         !.sites = IF msg.n = 0 THEN @ ELSE msg.n])
            [] m.step = "start" ->
                 Stay([next EXCEPT !.step = "review",
                         !.reviewSiteIdx = IF AutoAcceptDiscovery(m.profile)
                                           THEN @ ELSE 0,
                         !.reviewPhase = IF AutoAcceptDiscovery(m.profile)
                                         THEN @ ELSE ""])
            [] m.step = "review" ->
                 Stay([next EXCEPT !.step = IF AutoAcceptDiscovery(m.profile)
                                            THEN "thresholds" ELSE @])
            [] m.step = "thresholds" -> Stay([next EXCEPT !.step = "done"])
            [] OTHER -> Stay(next)

Handle(msg) ==
  \/ OnExistingAdmins(msg) \/ OnDeployBegin(msg) \/ OnDeployPhase(msg)
  \/ OnScanStarted(msg) \/ OnPollTick(msg) \/ OnProgress(msg) \/ OnScanDone(msg)
  \/ OnReviewScan(msg) \/ OnReviewAccept(msg) \/ OnReviewAutoBegin(msg)
  \/ OnReviewAutoAccept(msg) \/ OnAsyncDone(msg)

-----------------------------------------------------------------------------
\* The deployment directories a launch can find: an empty one, or the n sites
\* an earlier launch has configured, with or without enrolled devices.
FreshDisk ==
  [env |-> FALSE, manifest |-> 0, compose |-> 0, config |-> {},
   inventory |-> {}, enrolled |-> [s \in Site |-> {}],
   raced |-> [s \in Site |-> {}], up |-> {}, threshold |-> {}, marker |-> FALSE]
ConfiguredDisk(n, devices) ==
  [env |-> TRUE, manifest |-> n, compose |-> n, config |-> 1..n,
   inventory |-> 1..n,
   enrolled |-> [s \in Site |-> IF s <= n THEN devices ELSE {}],
   raced |-> [s \in Site |-> {}],
   up |-> 1..n, threshold |-> 1..n, marker |-> FALSE]

\* Bootstrap launches the wizard in mode "" while there is no marker; equate
\* configure removes the marker and launches it in another mode.
Init ==
  \E d \in Deployments, mode \in Modes :
    /\ \/ disk = FreshDisk
       \/ \E n \in 1..d.sites, devices \in SUBSET d.devices :
            disk = ConfiguredDisk(n, devices)
    /\ disk.manifest = 0 => mode \in {"", "full"}
    /\ m = NewModel(d, mode)
    /\ cmds = EmptyBag /\ msgs = EmptyBag

Keys ==
  \/ HandleQuitKey \/ LeaveSplash
  \/ UseExistingAdmins \/ CreateAdminInstead \/ SubmitAdmin
  \/ OpenUsersForm \/ ListUsers \/ LeaveUsersForm \/ SubmitUsersForm \/ LeaveUsers
  \/ SubmitEnv \/ ResizeSites \/ SubmitSites \/ SubmitTopology \/ StartDeploy
  \/ StartReview \/ RetryReview \/ SkipReview
  \/ ScanReviewSite \/ AcceptReviewSite \/ SkipReviewSite \/ SubmitThreshold

RunSome == \E c \in BagToSet(cmds) : Run(c)
HandleSome == \E msg \in BagToSet(msgs) : Handle(msg)

Next == Keys \/ RunSome \/ HandleSome

Spec == Init /\ [][Next]_vars

-----------------------------------------------------------------------------
(***************************************************************************)
(* Properties.                                                             *)
(***************************************************************************)
\* While the wizard ignores the keyboard (loading), a command or a message is
\* under way that will give it back.  Every handler either clears loading or
\* returns the next command, whatever step the message arrives in; one that
\* did neither would leave only ctrl+c.
LoadingHasWork == m.loading => cmds # EmptyBag \/ msgs # EmptyBag

\* The marker that ends first boot says that every site of the manifest has
\* got its thresholds, although a site may fail and the operator try again.
\* Stated for the profile without the user step, whose stray answers can let
\* the operator run ahead of a persist that is still writing.
MarkerMeansThresholds ==
  m.profile = "dev-vxrail" /\ disk.marker =>
    disk.manifest # 0 /\ (1..disk.manifest) \subseteq disk.threshold

\* Only sites whose configuration and inventory have been written are started:
\* the compose file names them last.
StartedSitesAreConfigured ==
  \A s \in disk.up : s \in disk.config /\ s \in disk.inventory

\* What a deployment leaves on disk, wherever it fails and however often it is
\* tried: no collector runs without its files, and the marker of first boot
\* tells the truth.
DeploymentIsSound == TypeOK /\ MarkerMeansThresholds /\ StartedSitesAreConfigured

\* No step of the wizard, a reconfiguration included, throws away a device
\* enrolled at a site, but for one: acceptReviews writes the inventory back as it
\* was before the devices were probed, without the lock of the collector.  A
\* device is lost to that only when it was accepted while the site was probed.
OnlyRacedDevicesGo ==
  \A s \in Site : \A v \in disk.enrolled[s] :
    v \in disk'.enrolled[s] \/ (Probing(s) /\ v \in disk.raced[s])

KeepsEnrolledDevices == [][OnlyRacedDevicesGo]_vars
=============================================================================
