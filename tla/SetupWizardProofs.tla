-------------------------- MODULE SetupWizardProofs --------------------------
(***************************************************************************)
(* Proofs about SetupWizard for any deployments and any number of commands *)
(* in flight: what a deployment leaves on disk is sound, a wizard that     *)
(* ignores the keyboard has work under way, and no enrolled device is      *)
(* thrown away but one accepted while its site was probed.                 *)
(***************************************************************************)
EXTENDS SetupWizard, FiniteSetTheorems, TLAPS

-----------------------------------------------------------------------------
(***************************************************************************)
(* The inductive invariant.                                                *)
(***************************************************************************)
SiteOrNil == Site \cup {0}

Model ==
  [alive : BOOLEAN, limits : Deployments, profile : {"dev-vxrail", "appliance"},
   mode : Modes, splash : BOOLEAN, step : Steps, loading : BOOLEAN,
   err : BOOLEAN, adminPhase : {"", "loading", "choose", "create"},
   usersMode : UserModes, siteCount : Site, sites : SiteOrNil,
   deploySites : SiteOrNil, reviewPhase : {"", "pick"},
   reviewSiteIdx : {i \in Nat : i + 1 \in Site},
   reviewAutoSites : SiteOrNil, reviewAutoIdx : Nat, discoverSpec : SiteOrNil,
   discoverManual : BOOLEAN]

Typed(r) == r \in Model /\ r.profile = r.limits.profile

ModelInv == Typed(m)

Disk ==
  [env : BOOLEAN, manifest : SiteOrNil, compose : SiteOrNil,
   config : SUBSET Site,
   inventory : SUBSET Site, enrolled : [Site -> SUBSET Device],
   raced : [Site -> SUBSET Device],
   up : SUBSET Site, threshold : SUBSET Site, marker : BOOLEAN]

\* The sites that may be started have their files.
Configured(d, s) == s \in d.config /\ s \in d.inventory

Sound(d) ==
  /\ d \in Disk
  /\ \A s \in 1 .. d.compose : Configured(d, s)
  /\ \A s \in d.up : Configured(d, s)

DiskInv == Sound(disk)

Ops == {"loadAdmins", "refreshUsers", "createAdmin", "usersAction",
        "persistEnv", "persistTopology", "beginDeploy", "beginAutoReview",
        "deployPhase", "scanSite", "scanAuto", "pollTick", "poll", "fetch",
        "emitDone", "emitScan", "skipSite", "acceptAuto", "acceptSite",
        "enrich", "probe", "applyThreshold"}

\* The commands that can be under way, with the sites they carry.
Command(c) ==
  /\ c \in [op : Ops, n : Nat, k : Nat, draft : SUBSET Device]
  /\ c.op \in {"persistEnv", "scanAuto", "acceptAuto", "enrich", "probe"}
       => c.n \in Site
  /\ c.op = "persistTopology" => c.k \in Site
  /\ c.op \in {"scanSite", "acceptSite"} => c.n + 1 \in Site

Types == {"existingAdmins", "asyncDone", "deployBegin", "deployPhase",
          "scanStarted", "scanStartedManual", "pollTick", "progress",
          "scanDone", "reviewScan", "reviewAccept", "reviewAutoBegin",
          "reviewAutoAccept"}

\* The messages that can be under way: those that set a site, or a number of
\* sites, of the model carry one.
Message(x) ==
  /\ x \in [type : Types, err : BOOLEAN, n : Nat]
  /\ x.type \in {"asyncDone", "deployBegin", "reviewAutoBegin", "scanStarted",
                 "scanStartedManual"} => x.n \in SiteOrNil

FlightInv ==
  /\ \A c \in BagToSet(cmds) : Command(c)
  /\ \A x \in BagToSet(msgs) : Message(x)

\* Until the deployment starts nothing is under way, or one thing alone while
\* the keyboard is ignored.  After that no command writes the manifest any more.
Early == {"env", "sites", "siteTopology"}
Late  == {"start", "review", "thresholds", "done"}
Persists(c) == c.op \in {"persistEnv", "persistTopology"}

Quiet == cmds = EmptyBag /\ msgs = EmptyBag
OneCommand ==
  \E c \in BagToSet(cmds) :
    Persists(c) /\ cmds = SetToBag({c}) /\ msgs = EmptyBag
OneMessage ==
  \E x \in BagToSet(msgs) :
    x.type = "asyncDone" /\ msgs = SetToBag({x}) /\ cmds = EmptyBag

EarlyInv == Quiet \/ (m.loading = TRUE /\ (OneCommand \/ OneMessage))

\* The profile without the user step.
OrderInv ==
  m.profile = "dev-vxrail" =>
    /\ m.step \in Early \cup Late
    /\ m.splash = TRUE => m.step = "env"
    /\ m.alive = FALSE => Quiet
    /\ m.alive = TRUE /\ m.step \in Early => EarlyInv /\ disk.marker = FALSE
    /\ m.step \in Late => \A c \in BagToSet(cmds) : ~Persists(c)

\* A probe has read what is enrolled at its site, but for the devices accepted
\* while it, or another probe of the site, was under way.
Faithful(d, c) ==
  \A v \in Device :
    v \notin d.raced[c.n] => (v \in c.draft <=> v \in d.enrolled[c.n])

ProbeInv == \A c \in BagToSet(cmds) : c.op = "probe" => Faithful(disk, c)

IInv ==
  /\ ModelInv /\ DiskInv /\ FlightInv /\ OrderInv /\ ProbeInv
  /\ LoadingHasWork /\ MarkerMeansThresholds

-----------------------------------------------------------------------------
(***************************************************************************)
(* Bags.                                                                   *)
(***************************************************************************)

LEMMA BagGrows ==
  ASSUME NEW B, NEW e
  PROVE  /\ BagToSet(B (+) SetToBag({e})) = BagToSet(B) \cup {e}
         /\ B (+) SetToBag({e}) # EmptyBag
<1>1. BagToSet(B (+) SetToBag({e})) = BagToSet(B) \cup {e}
  BY DEF BagToSet, SetToBag, (+)
<1>2. BagToSet(EmptyBag) = {}
  BY DEF BagToSet, EmptyBag, SetToBag
<1> QED BY <1>1, <1>2

LEMMA BagShrinks ==
  ASSUME NEW B, NEW e
  PROVE  BagToSet(B (-) SetToBag({e})) \subseteq BagToSet(B)
BY DEF BagToSet, SetToBag, (-)

LEMMA BagOfOne ==
  ASSUME NEW e
  PROVE  /\ BagToSet(SetToBag({e})) = {e}
         /\ BagToSet(EmptyBag) = {}
         /\ EmptyBag (+) SetToBag({e}) = SetToBag({e})
         /\ SetToBag({e}) (-) SetToBag({e}) = EmptyBag
<1>1. BagToSet(SetToBag({e})) = {e} /\ BagToSet(EmptyBag) = {}
  BY DEF BagToSet, SetToBag, EmptyBag
<1>2. EmptyBag (+) SetToBag({e}) = SetToBag({e})
  <2>1. EmptyBag (+) SetToBag({e}) = [x \in {e} |-> 0 + 1]
    BY DEF EmptyBag, SetToBag, (+)
  <2> QED BY <2>1 DEF SetToBag
<1>3. SetToBag({e}) (-) SetToBag({e}) = EmptyBag
  BY DEF EmptyBag, SetToBag, (-)
<1> QED BY <1>1, <1>2, <1>3

-----------------------------------------------------------------------------
(***************************************************************************)
(* The sites.                                                              *)
(***************************************************************************)

\* A finite set of numbers has a greatest one.
LEMMA MaxExists ==
  ASSUME NEW S \in SUBSET Nat, IsFiniteSet(S), S # {}
  PROVE  Max(S) \in S /\ \A x \in S : x <= Max(S)
<1> DEFINE Above(x) == {y \in S : y > x}
           T == {Above(x) : x \in S}
<1>1. T \subseteq FiniteSubsetsOf(S) /\ T # {}
  <2>1. ASSUME NEW x \in S PROVE Above(x) \in FiniteSubsetsOf(S)
    BY FS_Subset DEF FiniteSubsetsOf
  <2> QED BY <2>1
<1>2. PICK A \in T : \A B \in T : <<B, A>> \notin StrictSubsetOrdering(S)
  <2>1. IsWellFoundedOn(StrictSubsetOrdering(S), FiniteSubsetsOf(S))
    BY FS_StrictSubsetOrderingWellFounded
  <2> HIDE DEF T
  <2> QED BY <1>1, <2>1, WFMin
<1>3. PICK x \in S : A = Above(x)
  OBVIOUS
<1>4. \A y \in S : y <= x
  <2> SUFFICES ASSUME NEW y \in S, y > x PROVE FALSE
    OBVIOUS
  <2>1. Above(y) \in SUBSET S /\ Above(x) \in SUBSET S
    OBVIOUS
  <2>2. Above(y) \subseteq Above(x)
    <3> SUFFICES ASSUME NEW z \in S, z > y PROVE z > x
      OBVIOUS
    <3>1. x \in Nat /\ y \in Nat /\ z \in Nat
      OBVIOUS
    <3> QED BY <3>1
  <2>3. y \in Above(x) /\ y \notin Above(y)
    OBVIOUS
  <2>4. <<Above(y), Above(x)>> \in StrictSubsetOrdering(S)
    BY <2>1, <2>2, <2>3 DEF StrictSubsetOrdering
  <2> QED BY <2>4, <1>2, <1>3
<1> QED BY <1>4 DEF Max

LEMMA SitesGreatest ==
  ASSUME NEW d \in Deployments
  PROVE  /\ Max({e.sites : e \in Deployments}) \in Nat
         /\ d.sites <= Max({e.sites : e \in Deployments})
<1> DEFINE S == {e.sites : e \in Deployments}
<1>1. S \in SUBSET Nat /\ d.sites \in S
  BY SetupAssumption
<1>2. IsFiniteSet(S)
  <2> DEFINE f == [e \in Deployments |-> e.sites]
  <2>1. f \in Surjection(Deployments, S)
    BY DEF Surjection
  <2>2. IsFiniteSet(Deployments)
    BY SetupAssumption
  <2> HIDE DEF f, S
  <2> QED BY <2>1, <2>2, FS_Surjection
<1> HIDE DEF S
<1>3. Max(S) \in S /\ \A x \in S : x <= Max(S)
  BY <1>1, <1>2, MaxExists
<1>4. Max(S) \in Nat /\ d.sites <= Max(S)
  BY <1>1, <1>3
<1> QED BY <1>4 DEF S

\* Every deployment's sites are among those of the model.
LEMMA SitesCovered ==
  ASSUME NEW d \in Deployments
  PROVE  /\ d.sites \in Site /\ 1 .. d.sites \subseteq Site
         /\ d.profile \in {"dev-vxrail", "appliance"}
<1> PICK N : N = Max({e.sites : e \in Deployments})
  OBVIOUS
<1>1. N \in Nat /\ d.sites <= N
  BY SitesGreatest
<1>2. Site = 1 .. N
  BY DEF Site
<1>3. d.sites \in Nat \ {0} /\ d.profile \in {"dev-vxrail", "appliance"}
  BY SetupAssumption
<1> QED BY <1>1, <1>2, <1>3

\* The sites are numbered from one, without a gap.
LEMMA SitesNumbered ==
  ASSUME Deployments # {}
  PROVE  /\ Site \subseteq Nat \ {0}
         /\ \A s \in Site : 1 .. s \subseteq Site
         /\ \A i \in SiteOrNil : i \in Nat /\ 1 .. i \subseteq Site
<1>1. PICK N \in Nat : Site = 1 .. N
  <2> PICK d \in Deployments : TRUE
    OBVIOUS
  <2> DEFINE S == {e.sites : e \in Deployments}
  <2>1. Max(S) \in Nat
    BY SitesGreatest
  <2> QED BY <2>1 DEF Site
<1> QED BY <1>1 DEF SiteOrNil

-----------------------------------------------------------------------------
(***************************************************************************)
(* The model record.                                                       *)
(***************************************************************************)

LEMMA NewModelTyped ==
  ASSUME NEW d \in Deployments, NEW mode \in Modes, disk.manifest \in SiteOrNil
  PROVE  NewModel(d, mode) \in Model /\ NewModel(d, mode).profile = d.profile
<1>1. d.sites \in Site /\ d.profile \in {"dev-vxrail", "appliance"}
  BY SitesCovered
<1>2. PreloadedSites(mode) \in SiteOrNil
  BY DEF PreloadedSites, SiteOrNil
<1>3. 1 \in Site /\ 0 \in {i \in Nat : i + 1 \in Site} /\ 0 \in SiteOrNil
  <2>1. 1 \in 1 .. d.sites
    BY <1>1, SetupAssumption
  <2> QED BY <2>1, SitesCovered DEF SiteOrNil
<1>4. PreloadedSites(mode) # 0 => PreloadedSites(mode) \in Site
  BY <1>2 DEF SiteOrNil
<1>5. "env" \in Steps /\ "menu" \in UserModes
  BY DEF Steps, UserModes
<1> QED BY <1>1, <1>2, <1>3, <1>4, <1>5 DEF NewModel, Model

\* Records that differ from a typed one in a field or two.
LEMMA TypedLoading ==
  ASSUME NEW r, Typed(r), NEW b \in BOOLEAN
  PROVE  /\ Typed([r EXCEPT !.loading = b])
         /\ Typed([r EXCEPT !.loading = b, !.err = FALSE])
         /\ Typed([r EXCEPT !.loading = FALSE, !.err = b])
<1>1. Typed([r EXCEPT !.loading = b])
  BY DEF Typed, Model
<1>2. Typed([r EXCEPT !.loading = b, !.err = FALSE])
  BY DEF Typed, Model
<1>3. Typed([r EXCEPT !.loading = FALSE, !.err = b])
  BY DEF Typed, Model
<1> QED BY <1>1, <1>2, <1>3

LEMMA TypedErr ==
  ASSUME NEW r, Typed(r), NEW b \in BOOLEAN
  PROVE  Typed([r EXCEPT !.err = b])
BY DEF Typed, Model

LEMMA TypedAdminPhase ==
  ASSUME NEW r, Typed(r), NEW b \in BOOLEAN
  PROVE  /\ Typed([r EXCEPT !.adminPhase = "loading", !.loading = TRUE])
         /\ Typed([r EXCEPT !.adminPhase = "create", !.err = FALSE])
         /\ Typed([r EXCEPT !.loading = FALSE, !.err = b, !.adminPhase = "choose"])
         /\ Typed([r EXCEPT !.loading = FALSE, !.err = b, !.adminPhase = "create"])
<1>1. Typed([r EXCEPT !.adminPhase = "loading", !.loading = TRUE])
  BY DEF Typed, Model
<1>2. Typed([r EXCEPT !.adminPhase = "create", !.err = FALSE])
  BY DEF Typed, Model
<1>3. Typed([r EXCEPT !.loading = FALSE, !.err = b, !.adminPhase = "choose"])
  BY DEF Typed, Model
<1>4. Typed([r EXCEPT !.loading = FALSE, !.err = b, !.adminPhase = "create"])
  BY DEF Typed, Model
<1> QED BY <1>1, <1>2, <1>3, <1>4

LEMMA TypedUsersMode ==
  ASSUME NEW r, Typed(r), NEW u \in UserModes
  PROVE  /\ Typed([r EXCEPT !.usersMode = u])
         /\ Typed([r EXCEPT !.usersMode = u, !.loading = TRUE])
<1>1. Typed([r EXCEPT !.usersMode = u])
  BY DEF Typed, Model
<1>2. Typed([r EXCEPT !.usersMode = u, !.loading = TRUE])
  BY DEF Typed, Model
<1> QED BY <1>1, <1>2

LEMMA TypedStep ==
  ASSUME NEW r, Typed(r), NEW s \in Steps
  PROVE  /\ Typed([r EXCEPT !.step = s])
         /\ Typed([r EXCEPT !.err = FALSE, !.step = s])
         /\ Typed([r EXCEPT !.splash = FALSE, !.step = s])
<1>1. Typed([r EXCEPT !.step = s])
  BY DEF Typed, Model
<1>2. Typed([r EXCEPT !.err = FALSE, !.step = s])
  BY DEF Typed, Model
<1>3. Typed([r EXCEPT !.splash = FALSE, !.step = s])
  BY DEF Typed, Model
<1> QED BY <1>1, <1>2, <1>3

LEMMA TypedUsers ==
  ASSUME NEW r, Typed(r), NEW s \in Steps, NEW u \in UserModes
  PROVE  Typed([r EXCEPT !.step = s, !.usersMode = u])
BY DEF Typed, Model

LEMMA TypedSites ==
  ASSUME NEW r, Typed(r), NEW s \in Steps, NEW i \in SiteOrNil
  PROVE  Typed([r EXCEPT !.step = s, !.sites = i])
BY DEF Typed, Model

LEMMA TypedDeploySites ==
  ASSUME NEW r, Typed(r), NEW i \in SiteOrNil
  PROVE  Typed([r EXCEPT !.deploySites = i])
BY DEF Typed, Model

LEMMA TypedAutoSites ==
  ASSUME NEW r, Typed(r), NEW i \in SiteOrNil
  PROVE  Typed([r EXCEPT !.reviewAutoSites = i, !.reviewAutoIdx = 0])
BY DEF Typed, Model

LEMMA TypedIndex ==
  ASSUME NEW r, Typed(r), NEW j \in Nat
  PROVE  Typed([r EXCEPT !.reviewAutoIdx = j])
BY DEF Typed, Model

LEMMA TypedCount ==
  ASSUME NEW r, Typed(r), NEW i \in Site
  PROVE  Typed([r EXCEPT !.siteCount = i])
BY DEF Typed, Model

LEMMA TypedScan ==
  ASSUME NEW r, Typed(r), NEW i \in SiteOrNil, NEW b \in BOOLEAN
  PROVE  Typed([r EXCEPT !.discoverSpec = i, !.discoverManual = b])
BY DEF Typed, Model

LEMMA TypedPicked ==
  ASSUME NEW r, Typed(r)
  PROVE  Typed([r EXCEPT !.loading = FALSE, !.err = FALSE, !.reviewPhase = "pick"])
BY DEF Typed, Model

LEMMA TypedNextSite ==
  ASSUME NEW r, Typed(r), NEW j \in Nat, j + 1 \in Site
  PROVE  Typed([r EXCEPT !.reviewSiteIdx = j, !.reviewPhase = ""])
BY DEF Typed, Model

LEMMA TypedFirstSite ==
  ASSUME NEW r, Typed(r), 1 \in Site, NEW s \in Steps
  PROVE  Typed([r EXCEPT !.step = s, !.reviewSiteIdx = 0, !.reviewPhase = ""])
<1> PICK j \in {i \in Nat : i + 1 \in Site} : j = 0
  OBVIOUS
<1>1. Typed([r EXCEPT !.step = s, !.reviewSiteIdx = j, !.reviewPhase = ""])
  BY DEF Typed, Model
<1> QED BY <1>1

LEMMA ExitModel ==
  ASSUME ModelInv, DiskInv, Exit
  PROVE  ModelInv'
<1>1. m.limits \in Deployments
  BY DEF ModelInv, Typed, Model
<1> PICK n : n = NewModel(m.limits, "")
  OBVIOUS
<1>2. n \in Model /\ n.profile = m.limits.profile /\ n.limits = m.limits
  BY <1>1, NewModelTyped DEF DiskInv, Sound, Disk, NewModel, Modes
<1>3. m' = [n EXCEPT !.alive = FALSE]
  BY DEF Exit
<1> HIDE DEF Model
<1>4. [n EXCEPT !.alive = FALSE] \in Model
  BY <1>2 DEF Model
<1>5. [n EXCEPT !.alive = FALSE].profile = [n EXCEPT !.alive = FALSE].limits.profile
  BY <1>2 DEF Model
<1> QED BY <1>3, <1>4, <1>5 DEF ModelInv, Typed

LEMMA KeysModel ==
  ASSUME ModelInv, DiskInv, Keys
  PROVE  ModelInv'
<1> USE DEF ModelInv, Stay, Issue
<1>1. CASE HandleQuitKey
  BY <1>1, ExitModel DEF HandleQuitKey
<1>2. CASE LeaveSplash
  <2>1. FirstStepAfterSplash \in Steps
    BY DEF FirstStepAfterSplash, Steps
  <2> PICK next : next = [m EXCEPT !.splash = FALSE, !.step = FirstStepAfterSplash]
    OBVIOUS
  <2>2. Typed(next)
    BY <2>1, TypedStep
  <2>3. CASE FirstStepAfterSplash = "adminUser" /\ m.profile = "appliance"
    <3>1. m' = [next EXCEPT !.adminPhase = "loading", !.loading = TRUE]
      BY <1>2, <2>3 DEF LeaveSplash
    <3> QED BY <2>2, <3>1, TypedAdminPhase
  <2>4. CASE FirstStepAfterSplash = "users"
    <3>1. m' = [next EXCEPT !.usersMode = "menu", !.loading = TRUE]
      BY <1>2, <2>4 DEF LeaveSplash
    <3> QED BY <2>2, <3>1, TypedUsersMode DEF UserModes
  <2>5. CASE /\ ~(FirstStepAfterSplash = "adminUser" /\ m.profile = "appliance")
             /\ FirstStepAfterSplash # "users"
    <3>1. m' = next
      BY <1>2, <2>5 DEF LeaveSplash
    <3> QED BY <2>2, <3>1
  <2> QED BY <2>3, <2>4, <2>5
<1>3. CASE UseExistingAdmins
  <2> PICK next : next = [m EXCEPT !.err = FALSE]
    OBVIOUS
  <2>1. Typed(next)
    BY TypedErr
  <2>2. CASE UserManagement(m.profile)
    <3>1. m' = [next EXCEPT !.step = "users", !.usersMode = "menu"]
      BY <1>3, <2>2 DEF UseExistingAdmins
    <3> QED BY <2>1, <3>1, TypedUsers DEF Steps, UserModes
  <2>3. CASE ~UserManagement(m.profile)
    <3>1. m' = [next EXCEPT !.step = "env"]
      BY <1>3, <2>3 DEF UseExistingAdmins
    <3> QED BY <2>1, <3>1, TypedStep DEF Steps
  <2> QED BY <2>2, <2>3
<1>4. CASE CreateAdminInstead
  BY <1>4, TypedAdminPhase DEF CreateAdminInstead
<1>5. CASE SubmitAdmin
  BY <1>5, TypedLoading DEF SubmitAdmin
<1>6. CASE OpenUsersForm
  BY <1>6, TypedUsersMode DEF OpenUsersForm, UserModes
<1>7. CASE ListUsers
  BY <1>7, TypedLoading DEF ListUsers
<1>8. CASE LeaveUsersForm
  BY <1>8, TypedUsersMode DEF LeaveUsersForm, UserModes
<1>9. CASE SubmitUsersForm
  BY <1>9, TypedLoading DEF SubmitUsersForm
<1>10. CASE LeaveUsers
  BY <1>10, TypedStep DEF LeaveUsers, Steps
<1>11. CASE SubmitEnv
  BY <1>11, TypedStep DEF SubmitEnv, Steps
<1>12. CASE SubmitSites
  BY <1>12, TypedLoading DEF SubmitSites
<1>13. CASE SubmitTopology
  BY <1>13, TypedLoading DEF SubmitTopology
<1>14. CASE StartDeploy
  BY <1>14, TypedLoading DEF StartDeploy
<1>15. CASE ResizeSites
  <2>1. 1 .. m.limits.sites \subseteq Site
    <3>1. m.limits \in Deployments
      BY DEF Typed, Model
    <3> QED BY <3>1, SitesCovered
  <2>2. PICK n \in 1 .. m.limits.sites : m' = [m EXCEPT !.siteCount = n]
    BY <1>15 DEF ResizeSites
  <2> QED BY <2>1, <2>2, TypedCount
<1>16. CASE StartReview
  BY <1>16, TypedLoading DEF StartReview, BeginAutoReview
<1>17. CASE RetryReview
  BY <1>17, TypedLoading DEF RetryReview, BeginAutoReview
<1>18. CASE SkipReview
  BY <1>18, TypedStep DEF SkipReview, Steps
<1>19. CASE ScanReviewSite
  BY <1>19, TypedLoading DEF ScanReviewSite
<1>20. CASE AcceptReviewSite
  BY <1>20, TypedLoading DEF AcceptReviewSite
<1>21. CASE SkipReviewSite
  BY <1>21 DEF SkipReviewSite
<1>22. CASE SubmitThreshold
  BY <1>22, TypedLoading DEF SubmitThreshold
<1> QED
  BY <1>1, <1>2, <1>3, <1>4, <1>5, <1>6, <1>7, <1>8, <1>9, <1>10, <1>11,
     <1>12, <1>13, <1>14, <1>15, <1>16, <1>17, <1>18, <1>19, <1>20,
     <1>21, <1>22
  DEF Keys

LEMMA HandleModel ==
  ASSUME ModelInv, DiskInv, NEW msg, Message(msg), Handle(msg)
  PROVE  ModelInv'
<1> USE DEF ModelInv, Stay, Issue
<1>1. m.reviewAutoIdx \in Nat /\ m.reviewSiteIdx \in Nat /\ m.sites \in SiteOrNil
      /\ m.limits \in Deployments /\ msg.err \in BOOLEAN /\ m.loading \in BOOLEAN
  BY DEF Typed, Model, Message
<1>2. ASSUME Fail PROVE Typed(m')
  BY <1>2, TypedLoading DEF Fail
<1>3. CASE OnExistingAdmins(msg)
  <2>1. CASE msg.n = 1
    BY <1>1, <1>3, <2>1, TypedAdminPhase DEF OnExistingAdmins
  <2>2. CASE msg.n # 1
    BY <1>1, <1>3, <2>2, TypedAdminPhase DEF OnExistingAdmins
  <2> QED BY <2>1, <2>2
<1>4. CASE OnDeployBegin(msg)
  <2>1. msg.n \in SiteOrNil
    BY <1>4 DEF OnDeployBegin, Take, Message
  <2> QED BY <1>2, <1>4, <2>1, TypedDeploySites DEF OnDeployBegin
<1>5. CASE OnDeployPhase(msg)
  BY <1>2, <1>5, TypedLoading DEF OnDeployPhase
<1>6. CASE OnScanStarted(msg)
  <2>1. msg.n \in SiteOrNil
    BY <1>6 DEF OnScanStarted, Message
  <2> PICK manual \in BOOLEAN : manual = (msg.type = "scanStartedManual")
    OBVIOUS
  <2>2. m' = [m EXCEPT !.discoverSpec = msg.n, !.discoverManual = manual]
    BY <1>6 DEF OnScanStarted
  <2> QED BY <2>1, <2>2, TypedScan
<1>7. CASE OnPollTick(msg)
  BY <1>7 DEF OnPollTick
<1>8. CASE OnProgress(msg)
  BY <1>2, <1>8 DEF OnProgress
<1>9. ASSUME NEW m2, NEW op, Typed(m2), Indexed(msg, m2, op)
      PROVE  Typed(m')
  BY <1>9, ExitModel DEF Indexed
<1>10. CASE OnScanDone(msg)
  BY <1>2, <1>9, <1>10 DEF OnScanDone
<1>11. CASE OnReviewScan(msg)
  BY <1>11, TypedPicked DEF OnReviewScan
<1>12. CASE OnReviewAccept(msg)
  <2> PICK next : next = [m EXCEPT !.loading = FALSE, !.err = FALSE]
    OBVIOUS
  <2>1. Typed(next) /\ next.reviewSiteIdx = m.reviewSiteIdx
    <3>1. next.reviewSiteIdx = m.reviewSiteIdx
      BY DEF Typed, Model
    <3> QED BY <3>1, TypedLoading
  <2>2. CASE m.reviewSiteIdx + 1 >= m.sites
    <3>1. m' = [next EXCEPT !.step = "thresholds"]
      BY <1>12, <2>2 DEF OnReviewAccept
    <3> QED BY <2>1, <3>1, TypedStep DEF Steps
  <2>3. CASE ~(m.reviewSiteIdx + 1 >= m.sites)
    <3> PICK j : j = m.reviewSiteIdx + 1
      OBVIOUS
    <3>1. m' = [next EXCEPT !.reviewSiteIdx = j, !.reviewPhase = ""]
      BY <1>12, <2>1, <2>3 DEF OnReviewAccept
    <3>2. j \in Nat /\ j + 1 \in Nat /\ 1 <= j + 1
      BY <1>1
    <3>3. m.sites \in Nat /\ 1 .. m.sites \subseteq Site
      BY <1>1, SitesNumbered
    <3>4. j + 1 <= m.sites
      BY <1>1, <2>3, <3>3
    <3>5. j + 1 \in Site
      BY <3>2, <3>3, <3>4
    <3> QED BY <2>1, <3>1, <3>2, <3>5, TypedNextSite
  <2> QED BY <2>2, <2>3
<1>13. CASE OnReviewAutoBegin(msg)
  <2>1. CASE msg.err
    BY <1>2, <1>13, <2>1 DEF OnReviewAutoBegin
  <2>2. CASE ~msg.err
    <3> PICK m2 : m2 = [m EXCEPT !.reviewAutoSites = msg.n, !.reviewAutoIdx = 0]
      OBVIOUS
    <3>1. msg.n \in SiteOrNil
      BY <1>13 DEF OnReviewAutoBegin, Take, Message
    <3>2. Typed(m2)
      BY <3>1, TypedAutoSites
    <3>3. Indexed(msg, m2, "scanAuto")
      BY <1>13, <2>2 DEF OnReviewAutoBegin
    <3> QED BY <1>9, <3>2, <3>3
  <2> QED BY <2>1, <2>2, <1>1
<1>14. CASE OnReviewAutoAccept(msg)
  <2> PICK next : next = [m EXCEPT !.reviewAutoIdx = @ + 1]
    OBVIOUS
  <2>1. Typed(next)
    <3> PICK j \in Nat : j = m.reviewAutoIdx + 1
      BY <1>1
    <3>1. next = [m EXCEPT !.reviewAutoIdx = j]
      OBVIOUS
    <3> QED BY <3>1, TypedIndex
  <2>2. \/ Fail
        \/ m' = [next EXCEPT !.loading = FALSE]
        \/ Indexed(msg, next, "scanAuto")
    BY <1>14 DEF OnReviewAutoAccept
  <2>3. CASE Fail
    BY <1>2, <2>3
  <2>4. CASE m' = [next EXCEPT !.loading = FALSE]
    BY <2>1, <2>4, TypedLoading
  <2>5. CASE Indexed(msg, next, "scanAuto")
    BY <1>9, <2>1, <2>5
  <2> QED BY <2>2, <2>3, <2>4, <2>5
<1>15. CASE OnAsyncDone(msg)
  <2>1. CASE msg.err
    BY <1>2, <1>15, <2>1 DEF OnAsyncDone
  <2>2. CASE ~msg.err
    <3> PICK next : next = [m EXCEPT !.loading = FALSE, !.err = FALSE]
      OBVIOUS
    <3>1. /\ Typed(next) /\ next.reviewSiteIdx = m.reviewSiteIdx
          /\ next.sites = m.sites /\ next.step = m.step
          /\ next.reviewPhase = m.reviewPhase
      <4>1. /\ next.reviewSiteIdx = m.reviewSiteIdx /\ next.sites = m.sites
            /\ next.step = m.step /\ next.reviewPhase = m.reviewPhase
        BY DEF Typed, Model
      <4> QED BY <4>1, TypedLoading
    <3>2. msg.n \in SiteOrNil
      BY <1>15 DEF OnAsyncDone, Take, Message
    <3>3. CASE m.step = "adminUser"
      <4>1. CASE UserManagement(m.profile)
        <5>1. m' = [next EXCEPT !.step = "users", !.usersMode = "menu"]
          BY <1>15, <2>2, <3>3, <4>1 DEF OnAsyncDone
        <5> QED BY <3>1, <5>1, TypedUsers DEF Steps, UserModes
      <4>2. CASE ~UserManagement(m.profile)
        <5>1. m' = [next EXCEPT !.step = "env"]
          BY <1>15, <2>2, <3>3, <4>2 DEF OnAsyncDone
        <5> QED BY <3>1, <5>1, TypedStep DEF Steps
      <4> QED BY <4>1, <4>2
    <3>4. CASE m.step = "users"
      <4>1. m' = [next EXCEPT !.usersMode = "menu"]
        BY <1>15, <2>2, <3>4 DEF OnAsyncDone
      <4> QED BY <3>1, <4>1, TypedUsersMode DEF UserModes
    <3>5. CASE m.step \in {"sites", "siteTopology"}
      <4> PICK i \in SiteOrNil : i = IF msg.n = 0 THEN m.sites ELSE msg.n
        BY <1>1, <3>2
      <4> PICK s \in Steps : s = IF m.step = "sites" THEN "siteTopology" ELSE "start"
        BY DEF Steps
      <4>1. m' = [next EXCEPT !.step = s, !.sites = i]
        <5>1. CASE m.step = "sites"
          <6>1. m' = [next EXCEPT !.step = "siteTopology",
                                  !.sites = IF msg.n = 0 THEN m.sites ELSE msg.n]
            BY <1>15, <2>2, <3>1, <5>1 DEF OnAsyncDone
          <6> QED BY <5>1, <6>1
        <5>2. CASE m.step = "siteTopology"
          <6>1. m' = [next EXCEPT !.step = "start",
                                  !.sites = IF msg.n = 0 THEN m.sites ELSE msg.n]
            BY <1>15, <2>2, <3>1, <5>2 DEF OnAsyncDone
          <6> QED BY <5>2, <6>1
        <5> QED BY <3>5, <5>1, <5>2
      <4> QED BY <3>1, <4>1, TypedSites
    <3>6. CASE m.step = "start" /\ AutoAcceptDiscovery(m.profile)
      <4>1. m' = [next EXCEPT !.step = "review"]
        <5>1. m' = [next EXCEPT !.step = "review",
                      !.reviewSiteIdx = next.reviewSiteIdx,
                      !.reviewPhase = next.reviewPhase]
          BY <1>15, <2>2, <3>6 DEF OnAsyncDone
        <5> QED BY <5>1, <3>1 DEF Typed, Model
      <4> QED BY <3>1, <4>1, TypedStep DEF Steps
    <3>7. CASE m.step = "start" /\ ~AutoAcceptDiscovery(m.profile)
      <4>1. m' = [next EXCEPT !.step = "review", !.reviewSiteIdx = 0,
                              !.reviewPhase = ""]
        BY <1>15, <2>2, <3>7 DEF OnAsyncDone
      <4>2. 1 \in Site
        <5>1. m.limits.sites \in Nat \ {0} /\ 1 .. m.limits.sites \subseteq Site
          BY <1>1, SitesCovered, SetupAssumption
        <5> QED BY <5>1
      <4> QED BY <3>1, <4>1, <4>2, TypedFirstSite DEF Steps
    <3>8. CASE m.step = "review"
      <4> PICK s \in Steps :
             s = IF AutoAcceptDiscovery(m.profile) THEN "thresholds" ELSE "review"
        BY DEF Steps
      <4>1. m' = [next EXCEPT !.step = s]
        <5>1. m' = [next EXCEPT !.step = IF AutoAcceptDiscovery(m.profile)
                                         THEN "thresholds" ELSE next.step]
          BY <1>15, <2>2, <3>8 DEF OnAsyncDone
        <5> QED BY <5>1, <3>1, <3>8
      <4> QED BY <3>1, <4>1, TypedStep
    <3>9. CASE m.step = "thresholds"
      <4>1. m' = [next EXCEPT !.step = "done"]
        BY <1>15, <2>2, <3>9 DEF OnAsyncDone
      <4> QED BY <3>1, <4>1, TypedStep DEF Steps
    <3>10. CASE m.step \notin {"adminUser", "users", "sites", "siteTopology",
                              "start", "review", "thresholds"}
      <4>1. m' = next
        BY <1>15, <2>2, <3>10 DEF OnAsyncDone
      <4> QED BY <3>1, <4>1
    <3> QED
      BY <3>3, <3>4, <3>5, <3>6, <3>7, <3>8, <3>9, <3>10
  <2> QED BY <2>1, <2>2, <1>1
<1> QED
  BY <1>3, <1>4, <1>5, <1>6, <1>7, <1>8, <1>10, <1>11, <1>12, <1>13, <1>14,
     <1>15
  DEF Handle

-----------------------------------------------------------------------------
(***************************************************************************)
(* What commands do to the disk.                                           *)
(***************************************************************************)
SameDevices(d, e) == e.enrolled = d.enrolled /\ e.raced = d.raced

\* The devices stay as they are and no threshold is lost.
Keeps(d, e) == SameDevices(d, e) /\ d.threshold \subseteq e.threshold

Stamped(d) == d.manifest # 0 /\ (1 .. d.manifest) \subseteq d.threshold

\* From a sound disk to a sound one, with the marker and the manifest as they
\* were.
Follows(d, e) ==
  Sound(e) /\ Keeps(d, e) /\ e.marker = d.marker /\ e.manifest = d.manifest

LEMMA KeepsTransitive ==
  ASSUME NEW d, NEW e, NEW f, Keeps(d, e), Keeps(e, f)
  PROVE  Keeps(d, f)
BY DEF Keeps, SameDevices

LEMMA EnvFileFollows ==
  ASSUME NEW d, Sound(d)
  PROVE  Follows(d, WriteEnvFile(d)) /\ Follows(d, d)
BY DEF WriteEnvFile, Follows, Keeps, SameDevices, Sound, Disk, Configured

LEMMA ManifestWritten ==
  ASSUME NEW d, Sound(d), NEW n \in SiteOrNil
  PROVE  /\ Sound(WriteManifest(d, n)) /\ Keeps(d, WriteManifest(d, n))
         /\ WriteManifest(d, n).marker = d.marker
BY DEF WriteManifest, Keeps, SameDevices, Sound, Disk, Configured

LEMMA ArtifactsWritten ==
  ASSUME NEW d, Sound(d), NEW n \in Nat, 1 .. n \subseteq Site
  PROVE  /\ Follows(d, WriteSiteArtifacts(d, n))
         /\ \A s \in 1 .. n : Configured(WriteSiteArtifacts(d, n), s)
<1> PICK e : e = WriteSiteArtifacts(d, n)
  OBVIOUS
<1> PICK config : config = d.config \cup 1 .. n
  OBVIOUS
<1> PICK inventory : inventory = d.inventory \cup 1 .. n
  OBVIOUS
<1>1. e = [d EXCEPT !.config = config, !.inventory = inventory]
  BY DEF WriteSiteArtifacts
<1>2. config \in SUBSET Site /\ inventory \in SUBSET Site
  BY DEF Sound, Disk
<1>3. /\ e \in Disk
      /\ e.config = config /\ e.inventory = inventory
      /\ e.enrolled = d.enrolled /\ e.raced = d.raced
      /\ e.up = d.up /\ e.compose = d.compose /\ e.threshold = d.threshold
      /\ e.marker = d.marker /\ e.manifest = d.manifest
  BY <1>1, <1>2 DEF Sound, Disk
<1>4. \A s \in 1 .. n : Configured(e, s)
  BY <1>3 DEF Configured
<1>5. ASSUME NEW s, Configured(d, s), s \in Site PROVE Configured(e, s)
  BY <1>3, <1>5 DEF Configured
<1>6. Keeps(d, e)
  BY <1>3 DEF Keeps, SameDevices
<1>7. Sound(e)
  <2>1. d.up \subseteq Site
    BY DEF Sound, Disk
  <2>2. 1 .. d.compose \subseteq Site
    BY DEF Sound, Configured, Disk
  <2> QED BY <1>3, <1>5, <2>1, <2>2 DEF Sound
<1> QED BY <1>3, <1>4, <1>6, <1>7 DEF Follows

LEMMA ComposeWritten ==
  ASSUME NEW d, Sound(d), NEW n \in SiteOrNil,
         \A s \in 1 .. n : Configured(d, s)
  PROVE  Follows(d, GenerateCompose(d, n))
BY DEF GenerateCompose, Follows, Keeps, SameDevices, Sound, Disk, Configured

LEMMA ComposeStarts ==
  ASSUME NEW d, Sound(d), NEW n \in Nat, n <= d.compose
  PROVE  Follows(d, ComposeUp(d, n))
<1>1. 1 .. n \subseteq 1 .. d.compose
  <2>1. d.compose \in Nat \/ d.compose \in Site
    BY DEF Sound, Disk, SiteOrNil
  <2>2. d.compose \in Int
    BY <2>1 DEF Site
  <2> QED BY <2>2
<1>2. \A s \in 1 .. n : Configured(d, s)
  BY <1>1 DEF Sound
<1>3. 1 .. n \subseteq Site
  BY <1>2 DEF Configured, Sound, Disk
<1> QED BY <1>2, <1>3 DEF ComposeUp, Follows, Keeps, SameDevices, Sound, Disk,
     Configured

LEMMA ComposeStops ==
  ASSUME NEW d, Sound(d), NEW n
  PROVE  Follows(d, StopCompose(d, n))
BY DEF StopCompose, Follows, Keeps, SameDevices, Sound, Disk, Configured

\* The commands that change the devices of a site change nothing else.
Beside(d, e) ==
  /\ Sound(e) /\ e.marker = d.marker /\ e.manifest = d.manifest
  /\ e.threshold = d.threshold

\* A commit adds devices, and marks them when the site is being probed.
LEMMA Enrols ==
  ASSUME NEW d, Sound(d), NEW s \in Site, NEW new \in SUBSET Device
  PROVE  /\ Beside(d, Enroll(d, s, new))
         /\ Enroll(d, s, new).enrolled[s] = d.enrolled[s] \cup new
         /\ d.raced[s] \subseteq Enroll(d, s, new).raced[s]
         /\ Probing(s) => new \subseteq Enroll(d, s, new).raced[s]
         /\ \A t \in Site \ {s} :
              /\ Enroll(d, s, new).enrolled[t] = d.enrolled[t]
              /\ Enroll(d, s, new).raced[t] = d.raced[t]
<1> PICK here : here = d.enrolled[s] \cup new
  OBVIOUS
<1> PICK late : late = IF Probing(s) THEN d.raced[s] \cup new ELSE d.raced[s]
  OBVIOUS
<1> PICK e : e = Enroll(d, s, new)
  OBVIOUS
<1>1. here \in SUBSET Device /\ late \in SUBSET Device
  BY DEF Sound, Disk
<1> PICK enrolled, raced :
      /\ enrolled = [d.enrolled EXCEPT ![s] = here]
      /\ raced = [d.raced EXCEPT ![s] = late]
  OBVIOUS
<1>2. e = [d EXCEPT !.enrolled = enrolled, !.raced = raced]
  BY DEF Enroll, Sound, Disk
<1>3. /\ enrolled \in [Site -> SUBSET Device] /\ raced \in [Site -> SUBSET Device]
      /\ enrolled[s] = here /\ raced[s] = late
      /\ \A t \in Site \ {s} : enrolled[t] = d.enrolled[t] /\ raced[t] = d.raced[t]
  BY <1>1 DEF Sound, Disk
<1>4. /\ e \in Disk /\ e.enrolled = enrolled /\ e.raced = raced
      /\ e.config = d.config /\ e.inventory = d.inventory /\ e.up = d.up
      /\ e.compose = d.compose /\ e.threshold = d.threshold
      /\ e.marker = d.marker /\ e.manifest = d.manifest
  BY <1>2, <1>3 DEF Sound, Disk
<1>5. Beside(d, e)
  BY <1>4 DEF Beside, Sound, Configured
<1> QED BY <1>3, <1>4, <1>5

LEMMA WritesBack ==
  ASSUME NEW d, Sound(d), NEW c, Command(c), c.op = "probe"
  PROVE  /\ Beside(d, WriteBack(d, c)) /\ c.n \in Site
         /\ WriteBack(d, c).enrolled[c.n] = c.draft
         /\ WriteBack(d, c).raced = d.raced
         /\ \A t \in Site \ {c.n} : WriteBack(d, c).enrolled[t] = d.enrolled[t]
<1>1. c.n \in Site /\ c.draft \in SUBSET Device
  BY DEF Command
<1> PICK enrolled : enrolled = [d.enrolled EXCEPT ![c.n] = c.draft]
  OBVIOUS
<1> PICK e : e = WriteBack(d, c)
  OBVIOUS
<1>2. e = [d EXCEPT !.enrolled = enrolled]
  BY DEF WriteBack, Sound, Disk
<1>3. /\ enrolled \in [Site -> SUBSET Device] /\ enrolled[c.n] = c.draft
      /\ \A t \in Site \ {c.n} : enrolled[t] = d.enrolled[t]
  BY <1>1 DEF Sound, Disk
<1>4. /\ e \in Disk /\ e.enrolled = enrolled /\ e.raced = d.raced
      /\ e.config = d.config /\ e.inventory = d.inventory /\ e.up = d.up
      /\ e.compose = d.compose /\ e.threshold = d.threshold
      /\ e.marker = d.marker /\ e.manifest = d.manifest
  BY <1>2, <1>3 DEF Sound, Disk
<1>5. Beside(d, e)
  BY <1>4 DEF Beside, Sound, Configured
<1> QED BY <1>1, <1>3, <1>4, <1>5

LEMMA ThresholdsSet ==
  ASSUME NEW d, Sound(d), NEW i, 1 .. i \subseteq Site
  PROVE  /\ Follows(d, SetThresholds(d, i))
         /\ 1 .. i \subseteq SetThresholds(d, i).threshold
BY DEF SetThresholds, Follows, Keeps, SameDevices, Sound, Disk, Configured

LEMMA MarkerWritten ==
  ASSUME NEW d, Sound(d)
  PROVE  /\ Sound(MarkComplete(d)) /\ Keeps(d, MarkComplete(d))
         /\ MarkComplete(d).manifest = d.manifest
         /\ MarkComplete(d).threshold = d.threshold
         /\ MarkComplete(d).compose = d.compose
BY DEF MarkComplete, Keeps, SameDevices, Sound, Disk, Configured

-----------------------------------------------------------------------------
(***************************************************************************)
(* Commands.                                                               *)
(***************************************************************************)

\* What command c may do to the devices: nothing, commit some, write back those
\* it had read.
DevicesMove(c, e) ==
  \/ SameDevices(disk, e)
  \/ \E s \in Site, new \in SUBSET Device : e = Enroll(disk, s, new)
  \/ c.op = "probe" /\ e = WriteBack(disk, c)

\* What command c may leave on the disk.  Only one writes the manifest, only
\* one the marker, when every site has its thresholds.
Effect(c, e) ==
  /\ Sound(e) /\ disk.threshold \subseteq e.threshold /\ DevicesMove(c, e)
  /\ e.manifest = disk.manifest \/ c.op = "persistTopology"
  /\ e.marker = disk.marker \/ (c.op = "applyThreshold" /\ Stamped(e))

Answer(c, x) == Message(x) /\ (Persists(c) => x.type = "asyncDone")

LEMMA MessagesTyped ==
  ASSUME NEW type \in Types
  PROVE  /\ Message(ErrMsg(type))
         /\ \A i \in SiteOrNil : i \in Nat => Message(Msg(type, i))
         /\ \A i \in Nat : type \notin {"asyncDone", "deployBegin", "reviewAutoBegin",
                                        "scanStarted", "scanStartedManual"}
              => Message(Msg(type, i))
BY DEF Message, ErrMsg, Msg, SiteOrNil

LEMMA FollowsIsEffect ==
  ASSUME NEW c, NEW e, Follows(disk, e)
  PROVE  Effect(c, e)
BY DEF Follows, Effect, Keeps, DevicesMove

LEMMA BesideIsEffect ==
  ASSUME NEW c, NEW e, Beside(disk, e), DevicesMove(c, e)
  PROVE  Effect(c, e)
BY DEF Beside, Effect

LEMMA StaysIsEffect ==
  ASSUME DiskInv, NEW c
  PROVE  Effect(c, disk)
BY EnvFileFollows, FollowsIsEffect DEF DiskInv

\* Wherever it fails, the persist leaves what was there in place.
LEMMA PersistStagesEffect ==
  ASSUME DiskInv, Deployments # {}, NEW c, Command(c), c.op = "persistTopology",
         c.n = c.k
  PROVE  /\ \A e \in PersistStages(disk, c.n) : Effect(c, e)
         /\ Effect(c, PersistMultiSiteArtifacts(disk, c.n))
<1>1. c.n \in Site /\ c.n \in SiteOrNil /\ c.n \in Nat
  BY DEF Command, SiteOrNil
<1> PICK w : w = WriteManifest(disk, c.n)
  OBVIOUS
<1>2. Sound(w) /\ Keeps(disk, w) /\ w.marker = disk.marker
  BY <1>1, ManifestWritten DEF DiskInv
<1>3. ASSUME NEW e, Follows(w, e) PROVE Effect(c, e)
  BY <1>2, <1>3, KeepsTransitive DEF Follows, Effect, Keeps, DevicesMove
<1>4. ASSUME NEW i \in 0 .. c.n PROVE Effect(c, WriteSiteArtifacts(w, i))
  <2>1. i \in Nat /\ 1 .. i \subseteq 1 .. c.n /\ 1 .. c.n \subseteq Site
    BY <1>1, SitesNumbered
  <2> QED BY <1>2, <1>3, <2>1, ArtifactsWritten
<1> PICK a : a = WriteSiteArtifacts(w, c.n)
  OBVIOUS
<1>5. Follows(w, a) /\ \A s \in 1 .. c.n : Configured(a, s)
  <2>1. 1 .. c.n \subseteq Site
    BY <1>1, SitesNumbered
  <2> QED BY <1>1, <1>2, <2>1, ArtifactsWritten
<1>6. Follows(a, GenerateCompose(a, c.n))
  BY <1>1, <1>5, ComposeWritten DEF Follows
<1>7. Effect(c, GenerateCompose(a, c.n))
  <2> PICK g : g = GenerateCompose(a, c.n)
    OBVIOUS
  <2>1. Follows(w, g)
    BY <1>5, <1>6, KeepsTransitive DEF Follows
  <2> QED BY <1>3, <2>1
<1>8. \A e \in PersistStages(disk, c.n) :
        e = disk \/ \E i \in 0 .. c.n : e = WriteSiteArtifacts(w, i)
  BY DEF PersistStages
<1>9. PersistMultiSiteArtifacts(disk, c.n) = GenerateCompose(a, c.n)
  BY DEF PersistMultiSiteArtifacts
<1> QED BY <1>4, <1>7, <1>8, <1>9, StaysIsEffect

\* The marker is written when every site of the manifest has its thresholds,
\* and what follows leaves them.
LEMMA ApplyThresholdEffect ==
  ASSUME DiskInv, Deployments # {}, NEW c, c.op = "applyThreshold",
         LoadManifest
  PROVE  \A post \in PostConfigure(MarkComplete(SetThresholds(disk, disk.manifest))) :
           Effect(c, post[1])
<1>1. disk.manifest \in SiteOrNil /\ 1 .. disk.manifest \subseteq Site
  BY SitesNumbered DEF DiskInv, Sound, Disk
<1> PICK t : t = SetThresholds(disk, disk.manifest)
  OBVIOUS
<1>2. Follows(disk, t) /\ 1 .. disk.manifest \subseteq t.threshold
  BY <1>1, ThresholdsSet DEF DiskInv
<1> PICK k : k = MarkComplete(t)
  OBVIOUS
<1>3. /\ Sound(k) /\ Keeps(t, k) /\ k.manifest = t.manifest
      /\ k.threshold = t.threshold /\ k.compose = t.compose
  BY <1>2, MarkerWritten DEF Follows
<1>4. Sound(k) /\ Keeps(disk, k) /\ k.manifest = disk.manifest /\ Stamped(k)
  BY <1>2, <1>3, KeepsTransitive DEF Follows, Stamped, LoadManifest
<1> PICK u : u = ComposeUp(k, k.compose)
  OBVIOUS
<1>5. Follows(k, u)
  <2>1. k.compose \in Nat /\ k.compose <= k.compose
    BY <1>3, SitesNumbered DEF Sound, Disk
  <2> QED BY <1>3, <2>1, ComposeStarts
<1>6. Stamped(u)
  BY <1>4, <1>5 DEF Stamped, Follows, Keeps
<1>7. Effect(c, k)
  BY <1>4 DEF Effect, Keeps, DevicesMove
<1>8. Effect(c, u)
  <2>1. Keeps(disk, u)
    BY <1>4, <1>5, KeepsTransitive DEF Follows
  <2> QED BY <1>4, <1>5, <1>6, <2>1 DEF Effect, Follows, Keeps, DevicesMove
<1>9. ASSUME NEW post \in PostConfigure(k) PROVE post[1] = k \/ post[1] = u
  <2>1. post = <<k, FALSE>> \/ post = <<k, TRUE>> \/ post = <<u, FALSE>>
    BY Zenon DEF PostConfigure
  <2>2. \A x, b : <<x, b>>[1] = x
    OBVIOUS
  <2> HIDE DEF PostConfigure
  <2> QED BY <2>1, <2>2, Zenon
<1> QED BY <1>7, <1>8, <1>9

\* A command ends with an answer, or goes on as one that answers later.
Ends(c, e, x) == Effect(c, e) /\ Answer(c, x) /\ Finish(c, e, x)

GoesOn(c, e, y) ==
  /\ Effect(c, e) /\ GoOn(c, e, y)
  /\ ~Persists(c) /\ Command(y) /\ ~Persists(y)
  /\ y.op = "probe" => Faithful(e, y)

\* A commit, wherever its answer goes.
LEMMA CommitMoves ==
  ASSUME ModelInv, DiskInv, NEW c, NEW s \in Site, NEW k \in Nat,
         Commit(c, s, k), ~Persists(c), Answer(c, NotAccepted(k))
  PROVE  (\E e, x : Ends(c, e, x)) \/ (\E e, y : GoesOn(c, e, y))
<1> PICK new \in SUBSET m.limits.devices :
      \/ Finish(c, Enroll(disk, s, new), NotAccepted(k))
      \/ GoOn(c, Enroll(disk, s, new), Cmd("enrich", s, k))
  BY DEF Commit
<1>1. new \in SUBSET Device
  BY DEF Device, ModelInv, Typed, Model
<1> PICK e : e = Enroll(disk, s, new)
  OBVIOUS
<1>2. Beside(disk, e)
  BY <1>1, Enrols DEF DiskInv
<1>3. Effect(c, e)
  BY <1>1, <1>2, BesideIsEffect DEF DevicesMove
<1> PICK y : y = Cmd("enrich", s, k)
  OBVIOUS
<1>4. Command(y) /\ ~Persists(y) /\ y.op # "probe"
  <2>1. s \in Nat
    BY SitesNumbered DEF ModelInv, Typed, Model
  <2> QED BY <2>1 DEF Cmd, Command, Ops, Persists
<1> QED BY <1>3, <1>4 DEF Ends, GoesOn

LEMMA RunFinishes ==
  ASSUME ModelInv, DiskInv, NEW c, Command(c), Run(c)
  PROVE  (\E e, x : Ends(c, e, x)) \/ (\E e, y : GoesOn(c, e, y))
<1>1. Effect(c, disk)
  BY StaysIsEffect
<1>2. Deployments # {}
  BY DEF ModelInv, Typed, Model
<1>3. /\ disk.manifest \in SiteOrNil /\ disk.manifest \in Nat
      /\ disk.compose \in SiteOrNil /\ disk.compose \in Nat /\ 0 \in SiteOrNil
      /\ disk.up \subseteq Site
  BY <1>2, SitesNumbered DEF DiskInv, Sound, Disk, SiteOrNil
<1>4. Site \subseteq SiteOrNil /\ Site \subseteq Nat
  BY <1>2, SitesNumbered DEF SiteOrNil
<1>5. c.n \in Nat /\ c.k \in Nat
  BY DEF Command
<1> USE DEF Ends
<1>6. CASE RunLoadAdmins(c)
  <2>1. \E x \in {ErrMsg("existingAdmins"), Msg("existingAdmins", 0),
                  Msg("existingAdmins", 1)} : Finish(c, disk, x)
    BY <1>6 DEF RunLoadAdmins, PamHelper
  <2>2. \A x \in {ErrMsg("existingAdmins"), Msg("existingAdmins", 0),
                  Msg("existingAdmins", 1)} : Message(x)
    BY MessagesTyped DEF Types
  <2> QED BY <1>1, <1>6, <2>1, <2>2 DEF Answer, RunLoadAdmins, Persists
<1>7. CASE RefreshUsersList(c) \/ CreateInitialAdmin(c) \/ RunUsersAction(c)
  <2>1. \E x \in {ErrMsg("asyncDone"), Msg("asyncDone", 0)} : Finish(c, disk, x)
    BY <1>7 DEF RefreshUsersList, CreateInitialAdmin, RunUsersAction, PamHelper
  <2>2. Answer(c, ErrMsg("asyncDone")) /\ Answer(c, Msg("asyncDone", 0))
    <3>1. Message(ErrMsg("asyncDone")) /\ Message(Msg("asyncDone", 0))
      BY <1>3, MessagesTyped DEF Types
    <3>2. ErrMsg("asyncDone").type = "asyncDone" /\ Msg("asyncDone", 0).type = "asyncDone"
      BY DEF ErrMsg, Msg
    <3> QED BY <3>1, <3>2 DEF Answer
  <2> QED BY <1>1, <2>1, <2>2
<1>8. CASE RunPersistEnv(c)
  <2>1. Effect(c, WriteEnvFile(disk))
    BY EnvFileFollows, FollowsIsEffect DEF DiskInv
  <2>2. c.n \in SiteOrNil
    BY <1>4, <1>8 DEF RunPersistEnv, Command
  <2>3. Answer(c, ErrMsg("asyncDone")) /\ Answer(c, Msg("asyncDone", c.n))
    BY <1>5, <2>2, MessagesTyped DEF Types, Answer, ErrMsg, Msg
  <2> QED BY <1>1, <1>8, <2>1, <2>3 DEF RunPersistEnv
<1>9. CASE RunPersistTopology(c)
  <2>1. c.n = c.k => c.n \in SiteOrNil
    BY <1>4, <1>9 DEF RunPersistTopology, Command
  <2>2. Answer(c, ErrMsg("asyncDone"))
        /\ (c.n = c.k => Answer(c, Msg("asyncDone", c.n)))
    BY <1>5, <2>1, MessagesTyped DEF Types, Answer, ErrMsg, Msg
  <2>3. c.op = "persistTopology"
    BY <1>9 DEF RunPersistTopology
  <2> QED BY <1>1, <1>2, <1>9, <2>2, <2>3, PersistStagesEffect DEF RunPersistTopology
<1>10. CASE RunBeginDeploy(c)
  <2>1. Answer(c, ErrMsg("deployBegin")) /\ Answer(c, Msg("deployBegin", disk.manifest))
    BY <1>3, <1>10, MessagesTyped DEF Types, Answer, Persists, RunBeginDeploy
  <2> QED BY <1>1, <1>10, <2>1 DEF RunBeginDeploy
<1>11. CASE RunBeginAutoReview(c)
  <2>1. /\ Answer(c, ErrMsg("reviewAutoBegin"))
        /\ Answer(c, Msg("reviewAutoBegin", disk.manifest))
    BY <1>3, <1>11, MessagesTyped DEF Types, Answer, Persists, RunBeginAutoReview
  <2> QED BY <1>1, <1>11, <2>1 DEF RunBeginAutoReview
<1>12. CASE RunDeployPhase(c)
  <2> PICK n \in Nat : n = IF c.k >= 2 + c.n THEN 0 ELSE c.k + 1
    BY <1>5
  <2>1. Answer(c, ErrMsg("deployPhase")) /\ Answer(c, Msg("deployPhase", n))
    BY <1>12, MessagesTyped DEF Types, Answer, Persists, RunDeployPhase
  <2>2. Effect(c, StopCompose(disk, c.n))
    BY ComposeStops, FollowsIsEffect DEF DiskInv
  <2>3. c.n <= disk.compose => Effect(c, ComposeUp(disk, c.n))
    BY <1>5, ComposeStarts, FollowsIsEffect DEF DiskInv
  <2>4. \/ Finish(c, disk, ErrMsg("deployPhase"))
        \/ c.n <= disk.compose /\ Finish(c, ComposeUp(disk, c.n), Msg("deployPhase", n))
        \/ Finish(c, StopCompose(disk, c.n), ErrMsg("deployPhase"))
        \/ Finish(c, StopCompose(disk, c.n), Msg("deployPhase", n))
        \/ Finish(c, disk, Msg("deployPhase", n))
    BY <1>12 DEF RunDeployPhase
  <2> QED BY <1>1, <2>1, <2>2, <2>3, <2>4
<1>13. CASE RunScanSite(c)
  <2>1. c.n + 1 \in Site /\ c.n + 1 \in SiteOrNil /\ c.n + 1 \in Nat
    BY <1>4, <1>13 DEF RunScanSite, Command
  <2>2. Answer(c, ErrMsg("asyncDone")) /\ Answer(c, Msg("scanStartedManual", c.n + 1))
    BY <1>13, <2>1, MessagesTyped DEF Types, Answer, Persists, RunScanSite
  <2> QED BY <1>1, <1>13, <2>2 DEF RunScanSite
<1>14. CASE RunScanAuto(c)
  <2>1. c.n \in SiteOrNil
    BY <1>4, <1>14 DEF RunScanAuto, Command
  <2>2. Answer(c, ErrMsg("reviewAutoAccept")) /\ Answer(c, Msg("scanStarted", c.n))
    BY <1>5, <1>14, <2>1, MessagesTyped DEF Types, Answer, Persists, RunScanAuto
  <2> QED BY <1>1, <1>14, <2>2 DEF RunScanAuto
<1>15. CASE RunPollTick(c) \/ PollEnds(c) \/ PollRunning(c)
  <2>1. \E x \in {Msg("pollTick", 0), ErrMsg("progress"), Msg("progress", 0),
                  Msg("progress", 1)} : Finish(c, disk, x)
    BY <1>15 DEF RunPollTick, PollEnds, PollRunning
  <2>2. \A x \in {Msg("pollTick", 0), ErrMsg("progress"), Msg("progress", 0),
                  Msg("progress", 1)} : Message(x)
    BY MessagesTyped DEF Types
  <2>3. ~Persists(c)
    BY <1>15 DEF RunPollTick, PollEnds, PollRunning, Persists
  <2> QED BY <1>1, <2>1, <2>2, <2>3 DEF Answer
<1>16. CASE RunFetch(c)
  <2>1. Answer(c, ErrMsg("scanDone")) /\ Answer(c, Msg("scanDone", c.n))
    BY <1>5, <1>16, MessagesTyped DEF Types, Answer, Persists, RunFetch
  <2> QED BY <1>1, <1>16, <2>1 DEF RunFetch
<1>17. CASE RunHandOver(c)
  <2>1. \E x \in {Msg("asyncDone", 0), Msg("reviewScan", 0), Msg("reviewAccept", 0)} :
          Finish(c, disk, x)
    BY <1>17 DEF RunHandOver
  <2>2. \A x \in {Msg("asyncDone", 0), Msg("reviewScan", 0), Msg("reviewAccept", 0)} :
          Message(x)
    BY <1>3, MessagesTyped DEF Types
  <2>3. ~Persists(c)
    BY <1>17 DEF RunHandOver, Persists
  <2> QED BY <1>1, <2>1, <2>2, <2>3 DEF Answer
<1>18. CASE RunAcceptAuto(c)
  <2>1. c.n \in Site /\ ~Persists(c)
    BY <1>18 DEF RunAcceptAuto, Command, Persists
  <2>2. Answer(c, NotAccepted(1)) /\ Answer(c, Accepted(1))
    BY <2>1, MessagesTyped DEF Types, Answer, NotAccepted, Accepted
  <2>3. CASE Commit(c, c.n, 1)
    BY <2>1, <2>2, <2>3, CommitMoves
  <2> QED BY <1>1, <1>18, <2>2, <2>3 DEF RunAcceptAuto
<1>19. CASE RunAcceptSite(c)
  <2>1. c.n + 1 \in Site /\ ~Persists(c)
    BY <1>19 DEF RunAcceptSite, Command, Persists
  <2>2. Answer(c, NotAccepted(0)) /\ Answer(c, Accepted(0))
    BY <1>3, <2>1, MessagesTyped DEF Types, Answer, NotAccepted, Accepted
  <2>3. CASE Commit(c, c.n + 1, 0)
    BY <2>1, <2>2, <2>3, CommitMoves
  <2> QED BY <1>1, <1>19, <2>2, <2>3 DEF RunAcceptSite
<1>21. Accepted(c.k).type \in Types \ {"asyncDone"} /\ NotAccepted(c.k).type \in Types
  BY DEF Accepted, NotAccepted, Msg, ErrMsg, Types
<1>22. Message(Accepted(c.k)) /\ Message(NotAccepted(c.k))
  BY <1>3, MessagesTyped DEF Types, Accepted, NotAccepted
<1>23. CASE RunReadInventory(c)
  <2>1. c.n \in Site /\ ~Persists(c)
    BY <1>23 DEF RunReadInventory, Command, Persists
  <2>2. Answer(c, NotAccepted(c.k))
    BY <1>22, <2>1 DEF Answer
  <2> PICK y : y = [c EXCEPT !.op = "probe", !.draft = disk.enrolled[c.n]]
    OBVIOUS
  <2>3. disk.enrolled[c.n] \in SUBSET Device
    BY <2>1 DEF DiskInv, Sound, Disk
  <2>4. y.op = "probe" /\ y.n = c.n /\ y.draft = disk.enrolled[c.n]
    BY DEF Command
  <2>5. Command(y) /\ ~Persists(y) /\ Faithful(disk, y)
    BY <2>1, <2>3, <2>4 DEF Command, Ops, Persists, Faithful
  <2> QED BY <1>1, <1>23, <2>1, <2>2, <2>5 DEF RunReadInventory, GoesOn
<1>24. CASE RunProbe(c)
  <2>1. c.op = "probe" /\ ~Persists(c)
    BY <1>24 DEF RunProbe, Persists
  <2>2. Answer(c, NotAccepted(c.k)) /\ Answer(c, Accepted(c.k))
    BY <1>22, <2>1 DEF Answer
  <2>3. Effect(c, WriteBack(disk, c))
    BY <2>1, WritesBack, BesideIsEffect DEF DevicesMove, DiskInv
  <2> QED BY <1>1, <1>24, <2>2, <2>3 DEF RunProbe
<1>20. CASE RunApplyThreshold(c)
  <2>1. Answer(c, ErrMsg("asyncDone")) /\ Answer(c, Msg("asyncDone", 0))
    BY <1>3, <1>20, MessagesTyped DEF Types, Answer, Persists, RunApplyThreshold
  <2>2. \A i \in 1 .. disk.manifest :
          (1 .. i) \subseteq disk.up => Effect(c, SetThresholds(disk, i))
    BY <1>3, ThresholdsSet, FollowsIsEffect DEF DiskInv
  <2>3. c.op = "applyThreshold"
    BY <1>20 DEF RunApplyThreshold
  <2> QED BY <1>1, <1>2, <1>20, <2>1, <2>2, <2>3, ApplyThresholdEffect
       DEF RunApplyThreshold
<1> QED
  BY <1>6, <1>7, <1>8, <1>9, <1>10, <1>11, <1>12, <1>13, <1>14, <1>15, <1>16,
     <1>17, <1>18, <1>19, <1>20, <1>23, <1>24
  DEF Run


-----------------------------------------------------------------------------
(***************************************************************************)
(* What keys and handlers start.                                           *)
(***************************************************************************)
Started(c) == Command(c) /\ c.op # "probe"

Sends(c) == Started(c) /\ cmds' = cmds (+) SetToBag({c})

\* A key that does not end the process leaves loading as it was, or starts a
\* command.
KeyMoves ==
  /\ UNCHANGED <<msgs, disk>>
  /\ m.alive = TRUE /\ m'.alive = TRUE /\ m'.limits = m.limits
  /\ \/ cmds' = cmds /\ m'.loading = m.loading
     \/ \E c : Sends(c)

\* The same for a handler, which clears loading or goes on with a command.
HandlerMoves(msg) ==
  /\ msgs' = msgs (-) SetToBag({msg}) /\ UNCHANGED disk
  /\ m.alive = TRUE /\ m'.alive = TRUE /\ m'.limits = m.limits
  /\ \/ cmds' = cmds /\ m'.loading = FALSE
     \/ \E c : Sends(c)

LEMMA CommandTyped ==
  ASSUME NEW n \in Nat, NEW k \in Nat, NEW op \in Ops \ {"probe"}
  PROVE  /\ op \in {"persistEnv", "scanAuto", "acceptAuto", "enrich"} /\ n \in Site
              => Started(Cmd(op, n, k))
         /\ op = "persistTopology" /\ k \in Site => Started(Cmd(op, n, k))
         /\ op \in {"scanSite", "acceptSite"} /\ n + 1 \in Site
              => Started(Cmd(op, n, k))
         /\ op \notin {"persistEnv", "persistTopology", "scanAuto", "acceptAuto",
                       "scanSite", "acceptSite", "enrich"}
              => Started(Cmd(op, n, k))
BY DEF Started, Command, Cmd

LEMMA ModelFields ==
  ASSUME ModelInv
  PROVE  {"alive", "limits", "profile", "splash", "step", "loading", "sites",
          "reviewAutoIdx", "reviewAutoSites", "siteCount", "reviewSiteIdx"}
           \subseteq DOMAIN m
BY DEF ModelInv, Typed, Model

LEMMA KeysMove ==
  ASSUME ModelInv, Keys
  PROVE  Exit \/ KeyMoves
<1> USE ModelFields DEF KeyMoves, Stay, Issue, KeyFor
<1>1. /\ m.siteCount \in Site /\ m.siteCount \in Nat
      /\ m.sites \in Nat /\ m.reviewSiteIdx \in Nat /\ m.reviewSiteIdx + 1 \in Site
  <2>1. Deployments # {}
    BY DEF ModelInv, Typed, Model
  <2> QED BY <2>1, SitesNumbered DEF ModelInv, Typed, Model
<1>2. CASE HandleQuitKey
  BY <1>2 DEF HandleQuitKey
<1>3. CASE LeaveSplash
  <2>1. Started(Cmd("loadAdmins", 0, 0)) /\ Started(Cmd("refreshUsers", 0, 0))
    BY CommandTyped DEF Ops
  <2> PICK next : next = [m EXCEPT !.splash = FALSE, !.step = FirstStepAfterSplash]
    OBVIOUS
  <2>2. /\ next.alive = m.alive /\ next.limits = m.limits
        /\ next.loading = m.loading /\ {"alive", "limits", "loading"} \subseteq DOMAIN next
    OBVIOUS
  <2>3. \/ m' = next /\ cmds' = cmds
        \/ /\ m' = [next EXCEPT !.adminPhase = "loading", !.loading = TRUE]
           /\ cmds' = cmds (+) SetToBag({Cmd("loadAdmins", 0, 0)})
        \/ /\ m' = [next EXCEPT !.usersMode = "menu", !.loading = TRUE]
           /\ cmds' = cmds (+) SetToBag({Cmd("refreshUsers", 0, 0)})
    BY <1>3 DEF LeaveSplash
  <2>4. m.alive = TRUE /\ UNCHANGED <<msgs, disk>>
    BY <1>3, Zenon DEF LeaveSplash, ModelInv, Typed, Model
  <2>5. m'.alive = m.alive /\ m'.limits = m.limits /\ (m' = next => m'.loading = m.loading)
    BY <2>2, <2>3
  <2> QED BY <2>1, <2>3, <2>4, <2>5 DEF Sends
<1>4. CASE UseExistingAdmins
  <2>1. Started(Cmd("refreshUsers", 0, 0))
    BY CommandTyped DEF Ops
  <2> PICK next : next = [m EXCEPT !.err = FALSE]
    OBVIOUS
  <2>2. /\ next.alive = m.alive /\ next.limits = m.limits
        /\ next.loading = m.loading /\ {"alive", "limits", "loading"} \subseteq DOMAIN next
    OBVIOUS
  <2>3. \/ /\ m' = [next EXCEPT !.step = "users", !.usersMode = "menu"]
           /\ cmds' = cmds (+) SetToBag({Cmd("refreshUsers", 0, 0)})
        \/ m' = [next EXCEPT !.step = "env"] /\ cmds' = cmds
    BY <1>4 DEF UseExistingAdmins
  <2> QED BY <1>4, <2>1, <2>2, <2>3 DEF Sends, UseExistingAdmins
<1>5. CASE CreateAdminInstead
  BY <1>5 DEF CreateAdminInstead
<1>6. CASE OpenUsersForm
  BY <1>6 DEF OpenUsersForm
<1>7. CASE LeaveUsers
  BY <1>7 DEF LeaveUsers
<1>8. CASE SubmitEnv
  BY <1>8 DEF SubmitEnv
<1>9. CASE ResizeSites
  BY <1>9 DEF ResizeSites
<1>10. CASE SkipReview
  BY <1>10 DEF SkipReview
<1>11. CASE SubmitAdmin
  <2>1. Started(Cmd("createAdmin", 0, 0))
    BY CommandTyped DEF Ops
  <2> QED BY <1>11, <2>1 DEF SubmitAdmin, Sends
<1>12. CASE ListUsers
  <2>1. Started(Cmd("refreshUsers", 0, 0))
    BY CommandTyped DEF Ops
  <2> QED BY <1>12, <2>1 DEF ListUsers, Sends
<1>13. CASE LeaveUsersForm
  <2>1. Started(Cmd("refreshUsers", 0, 0))
    BY CommandTyped DEF Ops
  <2> QED BY <1>13, <2>1 DEF LeaveUsersForm, Sends
<1>14. CASE SubmitUsersForm
  <2>1. Started(Cmd("usersAction", 0, 0))
    BY CommandTyped DEF Ops
  <2> QED BY <1>14, <2>1 DEF SubmitUsersForm, Sends
<1>15. CASE StartDeploy
  <2>1. Started(Cmd("beginDeploy", 0, 0))
    BY CommandTyped DEF Ops
  <2> QED BY <1>15, <2>1 DEF StartDeploy, Sends
<1>16. CASE SkipReviewSite
  <2>1. Started(Cmd("skipSite", 0, 0))
    BY CommandTyped DEF Ops
  <2> QED BY <1>16, <2>1 DEF SkipReviewSite, Sends
<1>17. CASE SubmitThreshold
  <2>1. Started(Cmd("applyThreshold", 0, 0))
    BY CommandTyped DEF Ops
  <2> QED BY <1>17, <2>1 DEF SubmitThreshold, Sends
<1>18. CASE SubmitSites
  <2>1. Started(Cmd("persistEnv", m.siteCount, 0))
    BY <1>1, CommandTyped DEF Ops
  <2> QED BY <1>18, <2>1 DEF SubmitSites, Sends
<1>19. CASE SubmitTopology
  <2>1. Started(Cmd("persistTopology", m.sites, m.siteCount))
    BY <1>1, CommandTyped DEF Ops
  <2> QED BY <1>19, <2>1 DEF SubmitTopology, Sends
<1>20. CASE ScanReviewSite
  <2>1. Started(Cmd("scanSite", m.reviewSiteIdx, m.sites))
    BY <1>1, CommandTyped DEF Ops
  <2> QED BY <1>20, <2>1 DEF ScanReviewSite, Sends
<1>21. CASE AcceptReviewSite
  <2>1. Started(Cmd("acceptSite", m.reviewSiteIdx, m.sites))
    BY <1>1, CommandTyped DEF Ops
  <2> QED BY <1>21, <2>1 DEF AcceptReviewSite, Sends
<1>22. CASE StartReview \/ RetryReview
  <2>1. Started(Cmd("beginAutoReview", 0, 0))
    BY CommandTyped DEF Ops
  <2> QED BY <1>22, <2>1 DEF StartReview, RetryReview, BeginAutoReview, Sends
<1> QED
  BY <1>2, <1>3, <1>4, <1>5, <1>6, <1>7, <1>8, <1>9, <1>10, <1>11, <1>12,
     <1>13, <1>14, <1>15, <1>16, <1>17, <1>18, <1>19, <1>20, <1>21, <1>22
  DEF Keys

LEMMA FailMoves ==
  ASSUME ModelInv, m.alive, NEW msg, msgs' = msgs (-) SetToBag({msg}), Fail
  PROVE  HandlerMoves(msg)
BY ModelFields DEF HandlerMoves, Stay, Fail

LEMMA IndexedMoves ==
  ASSUME NEW msg, NEW m2, NEW op, m.alive = TRUE, m2.alive = TRUE,
         m2.limits = m.limits,
         m2.reviewAutoIdx \in Nat, m2.reviewAutoSites \in SiteOrNil,
         op \in {"scanAuto", "acceptAuto"}, Deployments # {},
         Indexed(msg, m2, op)
  PROVE  Exit \/ HandlerMoves(msg)
<1>1. m2.reviewAutoSites \in Nat /\ 1 .. m2.reviewAutoSites \subseteq Site
  BY SitesNumbered
<1>2. CASE m2.reviewAutoIdx < m2.reviewAutoSites
  <2> PICK i \in Nat : i = m2.reviewAutoIdx + 1
    OBVIOUS
  <2>1. i \in 1 .. m2.reviewAutoSites
    BY <1>1, <1>2
  <2>2. Started(Cmd(op, i, 0))
    BY <1>1, <2>1, CommandTyped DEF Ops
  <2> QED BY <1>2, <2>2 DEF Indexed, Issue, HandlerMoves, Sends
<1>3. CASE ~(m2.reviewAutoIdx < m2.reviewAutoSites)
  BY <1>3 DEF Indexed
<1> QED BY <1>2, <1>3

LEMMA HandleMoves ==
  ASSUME ModelInv, NEW msg, Message(msg), Handle(msg)
  PROVE  Exit \/ HandlerMoves(msg)
<1> USE ModelFields DEF HandlerMoves, Stay, Issue, Take
<1>1. /\ msg.n \in Nat /\ m.deploySites \in Nat /\ m.discoverSpec \in Nat
      /\ m.reviewAutoIdx \in Nat /\ m.reviewAutoSites \in SiteOrNil
      /\ Deployments # {} /\ m.loading \in BOOLEAN /\ m.alive \in BOOLEAN
  <2>1. Deployments # {}
    BY DEF ModelInv, Typed, Model
  <2> QED BY <2>1, SitesNumbered DEF ModelInv, Typed, Model, Message
<1>2. CASE OnExistingAdmins(msg)
  BY <1>2 DEF OnExistingAdmins
<1>3. CASE OnDeployBegin(msg)
  <2>1. Started(Cmd("deployPhase", msg.n, 0))
    BY <1>1, CommandTyped DEF Ops
  <2> QED BY <1>3, <2>1, FailMoves DEF OnDeployBegin, Sends
<1>4. CASE OnDeployPhase(msg)
  <2>1. Started(Cmd("deployPhase", m.deploySites, msg.n)) /\ Started(Cmd("emitDone", 0, 0))
    BY <1>1, CommandTyped DEF Ops
  <2> QED BY <1>4, <2>1, FailMoves DEF OnDeployPhase, Sends
<1>5. CASE OnScanStarted(msg)
  <2>1. Started(Cmd("pollTick", 0, 0))
    BY <1>1, CommandTyped DEF Ops
  <2> QED BY <1>5, <2>1 DEF OnScanStarted, Sends
<1>6. CASE OnPollTick(msg)
  <2>1. Started(Cmd("poll", m.discoverSpec, 0))
    BY <1>1, CommandTyped DEF Ops
  <2> QED BY <1>1, <1>6, <2>1 DEF OnPollTick, Sends
<1>7. CASE OnProgress(msg)
  <2>1. Started(Cmd("pollTick", 0, 0)) /\ Started(Cmd("fetch", m.discoverSpec, 0))
    BY <1>1, CommandTyped DEF Ops
  <2> QED BY <1>7, <2>1, FailMoves DEF OnProgress, Sends
<1>8. CASE OnScanDone(msg)
  <2>1. Started(Cmd("emitScan", 0, 0))
    BY CommandTyped DEF Ops
  <2>2. ASSUME m.alive, Indexed(msg, m, "acceptAuto") PROVE Exit \/ HandlerMoves(msg)
    BY <1>1, <2>2, IndexedMoves
  <2> QED BY <1>8, <2>1, <2>2, FailMoves DEF OnScanDone, Sends
<1>9. CASE OnReviewScan(msg)
  BY <1>9 DEF OnReviewScan
<1>10. CASE OnReviewAccept(msg)
  <2> PICK next : next = [m EXCEPT !.loading = FALSE, !.err = FALSE]
    OBVIOUS
  <2>1. /\ next.loading = FALSE /\ next.alive = m.alive /\ next.limits = m.limits
        /\ {"loading", "alive", "limits"} \subseteq DOMAIN next
    OBVIOUS
  <2>2. \/ m' = [next EXCEPT !.step = "thresholds"]
        \/ m' = [next EXCEPT !.reviewSiteIdx = next.reviewSiteIdx + 1, !.reviewPhase = ""]
    BY <1>10 DEF OnReviewAccept
  <2> QED BY <1>1, <1>10, <2>1, <2>2 DEF OnReviewAccept
<1>11. CASE OnReviewAutoBegin(msg)
  <2>1. CASE msg.err
    BY <1>11, <2>1, FailMoves DEF OnReviewAutoBegin
  <2>2. CASE ~msg.err
    <3> PICK m2 : m2 = [m EXCEPT !.reviewAutoSites = msg.n, !.reviewAutoIdx = 0]
      OBVIOUS
    <3>1. msg.n \in SiteOrNil /\ m.alive = TRUE
      BY <1>1, <1>11 DEF OnReviewAutoBegin, Message
    <3>2. /\ m2.alive = TRUE /\ m2.limits = m.limits
          /\ m2.reviewAutoSites \in SiteOrNil /\ m2.reviewAutoIdx \in Nat
      BY <3>1
    <3>3. Indexed(msg, m2, "scanAuto")
      BY <1>11, <2>2 DEF OnReviewAutoBegin
    <3> QED BY <1>1, <3>2, <3>3, IndexedMoves
  <2> QED BY <2>1, <2>2
<1>12. CASE OnReviewAutoAccept(msg)
  <2> PICK next : next = [m EXCEPT !.reviewAutoIdx = @ + 1]
    OBVIOUS
  <2>1. /\ next.alive = m.alive /\ next.limits = m.limits
        /\ next.reviewAutoIdx \in Nat /\ next.reviewAutoSites \in SiteOrNil
        /\ {"loading", "alive", "limits"} \subseteq DOMAIN next
    BY <1>1
  <2>2. Started(Cmd("emitDone", 0, 0))
    BY CommandTyped DEF Ops
  <2>3. \/ Take(msg, "reviewAutoAccept") /\ Fail
        \/ Take(msg, "reviewAutoAccept")
             /\ Issue([next EXCEPT !.loading = FALSE], Cmd("emitDone", 0, 0))
        \/ m.alive /\ Indexed(msg, next, "scanAuto")
    BY <1>12 DEF OnReviewAutoAccept
  <2>4. CASE Take(msg, "reviewAutoAccept") /\ Fail
    BY <2>4, FailMoves
  <2>5. CASE Take(msg, "reviewAutoAccept")
               /\ Issue([next EXCEPT !.loading = FALSE], Cmd("emitDone", 0, 0))
    BY <1>1, <2>1, <2>2, <2>5 DEF Sends
  <2>6. CASE m.alive /\ Indexed(msg, next, "scanAuto")
    BY <1>1, <2>1, <2>6, IndexedMoves
  <2> QED BY <2>3, <2>4, <2>5, <2>6
<1>13. CASE OnAsyncDone(msg)
  <2>1. CASE msg.err
    BY <1>13, <2>1, FailMoves DEF OnAsyncDone
  <2>2. CASE ~msg.err
    <3> PICK next : next = [m EXCEPT !.loading = FALSE, !.err = FALSE]
      OBVIOUS
    <3>1. /\ next.loading = FALSE /\ next.alive = m.alive /\ next.limits = m.limits
          /\ {"loading", "alive", "limits"} \subseteq DOMAIN next
      OBVIOUS
    <3>2. Started(Cmd("refreshUsers", 0, 0))
      BY CommandTyped DEF Ops
    <3>3. Take(msg, "asyncDone")
      BY <1>13 DEF OnAsyncDone
    <3>4. ASSUME NEW s, NEW i, NEW u, NEW j, NEW p,
                 \/ m' = [next EXCEPT !.step = s]
                 \/ m' = [next EXCEPT !.step = s, !.sites = i]
                 \/ m' = [next EXCEPT !.usersMode = u]
                 \/ m' = [next EXCEPT !.step = s, !.usersMode = u]
                 \/ m' = [next EXCEPT !.step = s, !.reviewSiteIdx = j, !.reviewPhase = p]
                 \/ m' = next
          PROVE  m'.loading = FALSE /\ m'.alive = m.alive /\ m'.limits = m.limits
      BY <3>1, <3>4
    <3>5. \/ /\ m' = [next EXCEPT !.step = "users", !.usersMode = "menu"]
             /\ cmds' = cmds (+) SetToBag({Cmd("refreshUsers", 0, 0)})
          \/ /\ cmds' = cmds
             /\ \/ m' = [next EXCEPT !.step = "env"]
                \/ m' = [next EXCEPT !.usersMode = "menu"]
                \/ m' = [next EXCEPT !.step = "siteTopology",
                           !.sites = IF msg.n = 0 THEN next.sites ELSE msg.n]
                \/ m' = [next EXCEPT !.step = "start",
                           !.sites = IF msg.n = 0 THEN next.sites ELSE msg.n]
                \/ m' = [next EXCEPT !.step = "review",
                           !.reviewSiteIdx = IF AutoAcceptDiscovery(m.profile)
                                             THEN next.reviewSiteIdx ELSE 0,
                           !.reviewPhase = IF AutoAcceptDiscovery(m.profile)
                                           THEN next.reviewPhase ELSE ""]
                \/ m' = [next EXCEPT !.step = IF AutoAcceptDiscovery(m.profile)
                                              THEN "thresholds" ELSE next.step]
                \/ m' = [next EXCEPT !.step = "done"]
                \/ m' = next
      BY <1>13, <2>2 DEF OnAsyncDone
    <3>6. UNCHANGED disk
      BY <1>13, <2>2 DEF OnAsyncDone
    <3>7. m'.loading = FALSE /\ m'.alive = m.alive /\ m'.limits = m.limits
      BY <3>4, <3>5
    <3> QED BY <1>1, <3>2, <3>3, <3>5, <3>6, <3>7 DEF Sends
  <2> QED BY <2>1, <2>2
<1> QED
  BY <1>2, <1>3, <1>4, <1>5, <1>6, <1>7, <1>8, <1>9, <1>10, <1>11, <1>12,
     <1>13
  DEF Handle

-----------------------------------------------------------------------------
(***************************************************************************)
(* The order of the steps, for the profile without the user step.          *)
(***************************************************************************)
Starts(c) == cmds' = cmds (+) SetToBag({c})

\* A key of an early step starts at most one persist, while nothing runs; a key
\* of a late one starts none.
KeyOrder ==
  /\ m'.splash = TRUE => m'.step = "env"
  /\ \/ /\ m.step \in Early /\ m'.step \in Early
        /\ cmds' = cmds /\ m'.loading = m.loading
     \/ /\ m.step \in Early /\ m'.step \in Early
        /\ m.loading # TRUE /\ m'.loading = TRUE
        /\ \E c : Persists(c) /\ Starts(c)
     \/ /\ m.step \in Late /\ m'.step \in Late
        /\ cmds' = cmds \/ \E c : ~Persists(c) /\ Starts(c)

\* A handler of an early step starts nothing, one of a late step no persist.
HandlerOrder ==
  /\ m'.splash = TRUE => m'.step = "env"
  /\ \/ m.step \in Early /\ m'.step \in Early \cup Late /\ cmds' = cmds
     \/ /\ m.step \in Late /\ m'.step \in Late
        /\ cmds' = cmds \/ \E c : ~Persists(c) /\ Starts(c)

LEMMA KeysOrder ==
  ASSUME ModelInv, OrderInv, m.profile = "dev-vxrail", Keys
  PROVE  Exit \/ KeyOrder
<1> USE ModelFields DEF KeyOrder, Stay, Issue, KeyFor
<1>1. m.step \in Early \cup Late /\ (m.splash = TRUE => m.step = "env")
  BY DEF OrderInv
<1>2. /\ m.splash \in BOOLEAN /\ m.loading \in BOOLEAN
      /\ "adminUser" \notin Early \cup Late /\ "users" \notin Early \cup Late
  BY DEF ModelInv, Typed, Model, Early, Late
<1>3. AutoAcceptDiscovery(m.profile) /\ ~UserManagement(m.profile)
      /\ ~RequireAdminUser(m.profile)
  BY DEF AutoAcceptDiscovery, UserManagement, RequireAdminUser
<1>4. CASE HandleQuitKey
  BY <1>4 DEF HandleQuitKey
<1>5. CASE LeaveSplash
  <2>1. FirstStepAfterSplash = "env"
    BY <1>3 DEF FirstStepAfterSplash
  <2> PICK next : next = [m EXCEPT !.splash = FALSE, !.step = FirstStepAfterSplash]
    OBVIOUS
  <2>2. m' = next /\ cmds' = cmds /\ m.splash = TRUE
    BY <1>2, <1>5, <2>1 DEF LeaveSplash
  <2>3. next.splash = FALSE /\ next.step = "env" /\ next.loading = m.loading
    BY <2>1
  <2> QED BY <1>1, <2>2, <2>3 DEF Early
<1>6. CASE SubmitEnv \/ ResizeSites
  BY <1>1, <1>2, <1>6 DEF SubmitEnv, ResizeSites, Early
<1>7. CASE SubmitSites
  <2>1. Persists(Cmd("persistEnv", m.siteCount, 0))
    BY DEF Persists, Cmd
  <2> QED BY <1>1, <1>2, <1>7, <2>1 DEF SubmitSites, Early, Starts
<1>8. CASE SubmitTopology
  <2>1. Persists(Cmd("persistTopology", m.sites, m.siteCount))
    BY DEF Persists, Cmd
  <2> QED BY <1>1, <1>2, <1>8, <2>1 DEF SubmitTopology, Early, Starts
<1>9. CASE \/ UseExistingAdmins \/ CreateAdminInstead \/ SubmitAdmin
           \/ OpenUsersForm \/ ListUsers \/ LeaveUsersForm \/ SubmitUsersForm
           \/ LeaveUsers
  BY <1>1, <1>2, <1>9
  DEF UseExistingAdmins, CreateAdminInstead, SubmitAdmin, OpenUsersForm, ListUsers,
      LeaveUsersForm, SubmitUsersForm, LeaveUsers
<1>10. ASSUME NEW op, NEW i, NEW k, op \notin {"persistEnv", "persistTopology"}
       PROVE  ~Persists(Cmd(op, i, k))
  BY <1>10 DEF Persists, Cmd
<1>11. CASE StartDeploy
  BY <1>1, <1>2, <1>10, <1>11 DEF StartDeploy, Late, Starts
<1>12. CASE StartReview \/ RetryReview
  BY <1>1, <1>2, <1>10, <1>12 DEF StartReview, RetryReview, BeginAutoReview, Late, Starts
<1>13. CASE SkipReview
  BY <1>1, <1>2, <1>13 DEF SkipReview, Late
<1>14. CASE ScanReviewSite \/ AcceptReviewSite \/ SkipReviewSite
  BY <1>3, <1>14 DEF ScanReviewSite, AcceptReviewSite, SkipReviewSite
<1>15. CASE SubmitThreshold
  BY <1>1, <1>2, <1>10, <1>15 DEF SubmitThreshold, Late, Starts
<1> QED
  BY <1>4, <1>5, <1>6, <1>7, <1>8, <1>9, <1>11, <1>12, <1>13, <1>14, <1>15
  DEF Keys

LEMMA FailOrder ==
  ASSUME ModelInv, OrderInv, m.profile = "dev-vxrail", Fail
  PROVE  HandlerOrder
<1>1. m'.step = m.step /\ m'.splash = m.splash /\ cmds' = cmds
  BY ModelFields DEF Fail, Stay
<1> QED BY <1>1 DEF OrderInv, HandlerOrder

\* A handler of a late step that stays there and starts no persist.
LEMMA StillOrder ==
  ASSUME OrderInv, m.profile = "dev-vxrail", m.step \in Late,
         m'.step = m.step, m'.splash = m.splash,
         cmds' = cmds \/ \E op, i, k : /\ op \notin {"persistEnv", "persistTopology"}
                                       /\ cmds' = cmds (+) SetToBag({Cmd(op, i, k)})
  PROVE  HandlerOrder
<1>1. ASSUME NEW op, NEW i, NEW k, op \notin {"persistEnv", "persistTopology"}
      PROVE  ~Persists(Cmd(op, i, k))
  BY <1>1 DEF Persists, Cmd
<1> QED BY <1>1 DEF OrderInv, HandlerOrder, Starts

LEMMA HandleOrder ==
  ASSUME ModelInv, OrderInv, m.profile = "dev-vxrail", NEW msg, Handle(msg),
         m.step \in Early => msg.type = "asyncDone"
  PROVE  Exit \/ HandlerOrder
<1> USE ModelFields DEF Stay, Issue, Take
<1>1. m.step \in Early \cup Late /\ (m.splash = TRUE => m.step = "env")
  BY DEF OrderInv
<1>2. AutoAcceptDiscovery(m.profile) /\ ~UserManagement(m.profile)
  BY DEF AutoAcceptDiscovery, UserManagement
<1>3. ASSUME msg.type # "asyncDone" PROVE m.step \in Late
  BY <1>1, <1>3
<1>4. CASE OnExistingAdmins(msg)
  BY <1>3, <1>4, StillOrder DEF OnExistingAdmins
<1>5. CASE OnDeployBegin(msg)
  BY <1>3, <1>5, StillOrder, FailOrder DEF OnDeployBegin
<1>6. CASE OnDeployPhase(msg)
  <2>1. CASE msg.err
    BY <1>6, <2>1, FailOrder, <1>3 DEF OnDeployPhase
  <2>2. ASSUME ~msg.err PROVE HandlerOrder
    <3>1. /\ m.alive
          /\ \/ /\ m' = [m EXCEPT !.loading = FALSE]
                /\ cmds' = cmds (+) SetToBag({Cmd("emitDone", 0, 0)})
             \/ /\ m' = m
                /\ cmds' = cmds (+) SetToBag({Cmd("deployPhase", m.deploySites, msg.n)})
      BY <1>6, <2>2 DEF OnDeployPhase
    <3>2. m'.step = m.step /\ m'.splash = m.splash
      BY <3>1
    <3>3. msg.type # "asyncDone"
      BY <1>6 DEF OnDeployPhase
    <3>4. m.step \in Late
      BY <1>3, <3>3
    <3>5. \E op, i, k : /\ op \notin {"persistEnv", "persistTopology"}
                        /\ cmds' = cmds (+) SetToBag({Cmd(op, i, k)})
      BY ONLY <3>1
    <3> QED BY ONLY <3>2, <3>4, <3>5, OrderInv, m.profile = "dev-vxrail", StillOrder
  <2> QED BY <2>1, <2>2
<1>7. CASE OnScanStarted(msg)
  BY <1>3, <1>7, StillOrder DEF OnScanStarted
<1>8. CASE OnPollTick(msg) \/ OnProgress(msg)
  BY <1>3, <1>8, StillOrder, FailOrder DEF OnPollTick, OnProgress
<1>9. CASE OnScanDone(msg)
  BY <1>3, <1>9, StillOrder, FailOrder DEF OnScanDone, Indexed
<1>10. CASE OnReviewScan(msg)
  BY <1>3, <1>10, StillOrder DEF OnReviewScan
<1>11. CASE OnReviewAccept(msg)
  <2> PICK next : next = [m EXCEPT !.loading = FALSE, !.err = FALSE]
    OBVIOUS
  <2>1. /\ next.step = m.step /\ next.splash = m.splash
        /\ {"step", "splash"} \subseteq DOMAIN next
    OBVIOUS
  <2>2. \/ m' = [next EXCEPT !.step = "thresholds"]
        \/ m' = [next EXCEPT !.reviewSiteIdx = next.reviewSiteIdx + 1, !.reviewPhase = ""]
    BY <1>11 DEF OnReviewAccept
  <2>3. cmds' = cmds /\ m.step \in Late
    BY <1>3, <1>11 DEF OnReviewAccept
  <2>4. m'.step \in {m.step, "thresholds"} /\ m'.splash = m.splash
    BY <2>1, <2>2
  <2> QED BY <1>1, <2>3, <2>4 DEF HandlerOrder, Early, Late
<1>12. CASE OnReviewAutoBegin(msg)
  <2> PICK m2 : m2 = [m EXCEPT !.reviewAutoSites = msg.n, !.reviewAutoIdx = 0]
    OBVIOUS
  <2>1. m2.step = m.step /\ m2.splash = m.splash
    OBVIOUS
  <2>2. Fail \/ Indexed(msg, m2, "scanAuto")
    BY <1>12 DEF OnReviewAutoBegin
  <2>3. m.step \in Late
    BY <1>3, <1>12 DEF OnReviewAutoBegin
  <2>4. CASE Indexed(msg, m2, "scanAuto")
    <3>1. CASE Exit
      BY <3>1
    <3>2. CASE ~Exit
      <4>1. m' = m2 /\ cmds' = cmds (+) SetToBag({Cmd("scanAuto", m2.reviewAutoIdx + 1, 0)})
        BY <2>4, <3>2 DEF Indexed
      <4>2. m'.step = m.step /\ m'.splash = m.splash
        BY <2>1, <4>1
      <4> QED BY <2>3, <4>1, <4>2, StillOrder
    <3> QED BY <3>1, <3>2
  <2> QED BY <2>2, <2>4, FailOrder
<1>13. CASE OnReviewAutoAccept(msg)
  <2> PICK next : next = [m EXCEPT !.reviewAutoIdx = @ + 1]
    OBVIOUS
  <2>1. /\ next.step = m.step /\ next.splash = m.splash
        /\ {"step", "splash"} \subseteq DOMAIN next
    OBVIOUS
  <2>2. \/ Fail \/ Indexed(msg, next, "scanAuto")
        \/ Issue([next EXCEPT !.loading = FALSE], Cmd("emitDone", 0, 0))
    BY <1>13 DEF OnReviewAutoAccept
  <2>3. m.step \in Late
    BY <1>3, <1>13 DEF OnReviewAutoAccept
  <2>4. CASE Issue([next EXCEPT !.loading = FALSE], Cmd("emitDone", 0, 0))
    BY <2>1, <2>3, <2>4, StillOrder
  <2> QED BY <2>1, <2>2, <2>3, <2>4, StillOrder, FailOrder DEF Indexed
<1>14. CASE OnAsyncDone(msg)
  <2>1. CASE msg.err
    BY <1>14, <2>1, FailOrder DEF OnAsyncDone
  <2>2. CASE ~msg.err
    <3> PICK next : next = [m EXCEPT !.loading = FALSE, !.err = FALSE]
      OBVIOUS
    <3>1. /\ next.step = m.step /\ next.splash = m.splash
          /\ {"step", "splash"} \subseteq DOMAIN next
      OBVIOUS
    <3> PICK to : to = IF msg.n = 0 THEN m.sites ELSE msg.n
      OBVIOUS
    <3>2. CASE m.step \in {"sites", "siteTopology"}
      <4>1. next.sites = m.sites
        OBVIOUS
      <4>2. \/ m.step = "sites" /\ m' = [next EXCEPT !.step = "siteTopology",
                        !.sites = IF msg.n = 0 THEN next.sites ELSE msg.n]
            \/ m.step = "siteTopology" /\ m' = [next EXCEPT !.step = "start",
                        !.sites = IF msg.n = 0 THEN next.sites ELSE msg.n]
        BY <1>14, <2>2, <3>2 DEF OnAsyncDone
      <4>3. cmds' = cmds
        BY <1>14, <2>2, <3>2 DEF OnAsyncDone
      <4>4. m'.step \in {"siteTopology", "start"} /\ m'.splash = m.splash
        BY <3>1, <4>2
      <4> QED BY <1>1, <3>2, <4>3, <4>4 DEF HandlerOrder, Early, Late
    <3>3. CASE m.step = "start"
      <4>1. /\ cmds' = cmds
            /\ m' = [next EXCEPT !.step = "review",
                       !.reviewSiteIdx = next.reviewSiteIdx,
                       !.reviewPhase = next.reviewPhase]
        BY <1>2, <1>14, <2>2, <3>3 DEF OnAsyncDone
      <4>2. m'.step = "review" /\ m'.splash = m.splash
        BY <3>1, <4>1
      <4> QED BY <1>1, <3>3, <4>1, <4>2 DEF HandlerOrder, Late
    <3>4. CASE m.step = "review"
      <4>1. cmds' = cmds /\ m' = [next EXCEPT !.step = "thresholds"]
        BY <1>2, <1>14, <2>2, <3>4 DEF OnAsyncDone
      <4>2. m'.step = "thresholds" /\ m'.splash = m.splash
        BY <3>1, <4>1
      <4> QED BY <1>1, <3>4, <4>1, <4>2 DEF HandlerOrder, Late
    <3>5. CASE m.step = "thresholds"
      <4>1. cmds' = cmds /\ m' = [next EXCEPT !.step = "done"]
        BY <1>14, <2>2, <3>5 DEF OnAsyncDone
      <4>2. m'.step = "done" /\ m'.splash = m.splash
        BY <3>1, <4>1
      <4> QED BY <1>1, <3>5, <4>1, <4>2 DEF HandlerOrder, Late
    <3>6. CASE m.step \in {"env", "done"}
      <4>1. cmds' = cmds /\ m' = next
        BY <1>14, <2>2, <3>6 DEF OnAsyncDone
      <4> QED BY <1>1, <3>1, <3>6, <4>1 DEF HandlerOrder, Early, Late
    <3> QED BY <1>1, <3>2, <3>3, <3>4, <3>5, <3>6 DEF Early, Late
  <2> QED BY <2>1, <2>2
<1> QED
  BY <1>4, <1>5, <1>6, <1>7, <1>8, <1>9, <1>10, <1>11, <1>12, <1>13, <1>14
  DEF Handle

-----------------------------------------------------------------------------
(***************************************************************************)
(* The invariant is inductive.                                             *)
(***************************************************************************)

LEMMA ExitKeeps ==
  ASSUME IInv, Exit
  PROVE  IInv'
<1>1. ModelInv'
  BY ExitModel DEF IInv
<1> PICK n : n = NewModel(m.limits, "")
  OBVIOUS
<1>2. /\ m' = [n EXCEPT !.alive = FALSE]
      /\ n.loading = FALSE /\ n.step = "env" /\ n.limits = m.limits
      /\ {"alive", "loading", "step", "limits"} \subseteq DOMAIN n
  BY DEF Exit, NewModel
<1>3. /\ m'.alive = FALSE /\ m'.loading = FALSE /\ m'.step = "env"
      /\ m'.limits = m.limits
  BY <1>2
<1>4. m'.profile = m.profile
  BY <1>1, <1>3 DEF IInv, ModelInv, Typed
<1>5. Quiet' /\ disk' = disk
  BY DEF Exit, Quiet
<1>6. FlightInv' /\ ProbeInv'
  BY <1>5, BagOfOne DEF Quiet, FlightInv, ProbeInv
<1>7. OrderInv'
  BY <1>3, <1>5 DEF OrderInv, Early, Late
<1>8. DiskInv' /\ LoadingHasWork' /\ MarkerMeansThresholds'
  BY <1>3, <1>4, <1>5 DEF IInv, DiskInv, LoadingHasWork, MarkerMeansThresholds
<1> QED BY <1>1, <1>6, <1>7, <1>8 DEF IInv

\* Whatever is started is a command, and it keeps a deaf wizard busy.
LEMMA SentIsBusy ==
  ASSUME IInv, NEW c, Sends(c), BagToSet(msgs') \subseteq BagToSet(msgs),
         disk' = disk
  PROVE  FlightInv' /\ LoadingHasWork' /\ ProbeInv'
<1>1. BagToSet(cmds') = BagToSet(cmds) \cup {c} /\ cmds' # EmptyBag
  BY BagGrows DEF Sends
<1>2. FlightInv' /\ LoadingHasWork'
  BY <1>1 DEF Sends, Started, IInv, FlightInv, LoadingHasWork
<1>3. ProbeInv'
  BY <1>1, Zenon DEF Sends, Started, IInv, ProbeInv
<1> QED BY <1>2, <1>3

LEMMA OrderHolds ==
  ASSUME m'.alive = TRUE, m'.splash = TRUE => m'.step = "env",
         \/ m'.step \in Early /\ EarlyInv' /\ disk'.marker = FALSE
         \/ m'.step \in Late /\ \A c \in BagToSet(cmds') : ~Persists(c)
  PROVE  OrderInv'
<1>1. Early \cap Late = {}
  BY DEF Early, Late
<1>2. CASE m'.step \in Early /\ EarlyInv' /\ disk'.marker = FALSE
  BY <1>1, <1>2 DEF OrderInv
<1>3. CASE m'.step \in Late /\ \A c \in BagToSet(cmds') : ~Persists(c)
  BY <1>1, <1>3 DEF OrderInv, Persists
<1> QED BY <1>2, <1>3

\* Nothing under way but a persist, or its answer, that the keyboard waits for.
LEMMA EarlyHolds ==
  ASSUME \/ Quiet'
         \/ /\ m'.loading = TRUE
            /\ \/ \E c : /\ Persists(c) /\ cmds' = SetToBag({c})
                          /\ msgs' = EmptyBag
               \/ \E x : /\ x.type = "asyncDone" /\ msgs' = SetToBag({x})
                          /\ cmds' = EmptyBag
  PROVE  EarlyInv'
<1>1. CASE Quiet'
  BY <1>1 DEF EarlyInv
<1>2. ASSUME NEW c, Persists(c), cmds' = SetToBag({c}), msgs' = EmptyBag
      PROVE  OneCommand'
  <2>1. c \in BagToSet(cmds')
    BY <1>2, BagOfOne
  <2> QED BY <1>2, <2>1 DEF OneCommand, Persists
<1>3. ASSUME NEW x, x.type = "asyncDone", msgs' = SetToBag({x}), cmds' = EmptyBag
      PROVE  OneMessage'
  <2>1. x \in BagToSet(msgs')
    BY <1>3, BagOfOne
  <2> QED BY <1>3, <2>1 DEF OneMessage
<1> QED BY <1>1, <1>2, <1>3 DEF EarlyInv

LEMMA KeysKeepOrder ==
  ASSUME IInv, KeyMoves, KeyOrder, m.profile = "dev-vxrail"
  PROVE  OrderInv'
<1>1. /\ m.alive = TRUE /\ m'.alive = TRUE /\ msgs' = msgs /\ disk' = disk
      /\ m'.splash = TRUE => m'.step = "env"
  BY DEF KeyMoves, KeyOrder
<1>2. ASSUME m.step \in Early PROVE EarlyInv /\ disk'.marker = FALSE
  BY <1>1, <1>2 DEF IInv, OrderInv
<1>3. CASE /\ m.step \in Early /\ m'.step \in Early
           /\ cmds' = cmds /\ m'.loading = m.loading
  <2>1. EarlyInv'
    BY <1>1, <1>2, <1>3, EarlyHolds DEF EarlyInv, Quiet, OneCommand, OneMessage
  <2> QED BY <1>1, <1>2, <1>3, <2>1, OrderHolds
<1>4. CASE /\ m.step \in Early /\ m'.step \in Early
           /\ m.loading # TRUE /\ m'.loading = TRUE
           /\ \E c : Persists(c) /\ Starts(c)
  <2>1. cmds = EmptyBag /\ msgs = EmptyBag
    BY <1>2, <1>4 DEF EarlyInv, Quiet
  <2> PICK c : Persists(c) /\ Starts(c)
    BY <1>4
  <2>2. cmds' = SetToBag({c}) /\ msgs' = EmptyBag
    BY <1>1, <2>1, BagOfOne DEF Starts
  <2>3. EarlyInv'
    BY <1>4, <2>2, EarlyHolds
  <2> QED BY <1>1, <1>2, <1>4, <2>3, OrderHolds
<1>5. CASE /\ m.step \in Late /\ m'.step \in Late
           /\ cmds' = cmds \/ \E c : ~Persists(c) /\ Starts(c)
  <2>1. \A c \in BagToSet(cmds) : ~Persists(c)
    BY <1>5 DEF IInv, OrderInv
  <2>2. \A c \in BagToSet(cmds') : ~Persists(c)
    <3>1. CASE cmds' = cmds
      BY <2>1, <3>1
    <3>2. ASSUME NEW c, ~Persists(c), Starts(c)
          PROVE  \A e \in BagToSet(cmds') : ~Persists(e)
      <4>1. BagToSet(cmds') = BagToSet(cmds) \cup {c}
        BY <3>2, BagGrows DEF Starts
      <4> QED BY <2>1, <3>2, <4>1
    <3> QED BY <1>5, <3>1, <3>2
  <2> QED BY <1>1, <1>5, <2>2, OrderHolds
<1> QED BY <1>3, <1>4, <1>5 DEF KeyOrder

LEMMA KeysKeep ==
  ASSUME IInv, Keys
  PROVE  IInv'
<1>1. CASE Exit
  BY <1>1, ExitKeeps
<1>2. CASE ~Exit
  <2>1. KeyMoves
    BY <1>2, KeysMove DEF IInv
  <2>2. ModelInv'
    BY KeysModel DEF IInv
  <2>3. msgs' = msgs /\ disk' = disk
    BY <2>1 DEF KeyMoves
  <2>4. m'.profile = m.profile
    BY <2>1, <2>2 DEF IInv, KeyMoves, ModelInv, Typed
  <2>5. FlightInv' /\ LoadingHasWork' /\ ProbeInv'
    <3>1. CASE cmds' = cmds /\ m'.loading = m.loading
      <4>1. FlightInv' /\ LoadingHasWork'
        BY <2>3, <3>1 DEF IInv, FlightInv, LoadingHasWork
      <4>2. ProbeInv'
        BY <2>3, <3>1 DEF IInv, ProbeInv
      <4> QED BY <4>1, <4>2
    <3>2. CASE \E c : Sends(c)
      BY <2>3, <3>2, SentIsBusy
    <3> QED BY <2>1, <3>1, <3>2 DEF KeyMoves
  <2>6. ASSUME m.profile = "dev-vxrail" PROVE OrderInv'
    <3>1. KeyOrder
      BY <1>2, <2>6, KeysOrder DEF IInv
    <3> QED BY <2>1, <2>6, <3>1, KeysKeepOrder
  <2>7. ASSUME m.profile # "dev-vxrail" PROVE OrderInv'
    BY <2>4, <2>7 DEF OrderInv
  <2>8. DiskInv'
    BY <2>3 DEF IInv, DiskInv
  <2>9. MarkerMeansThresholds'
    BY <2>3, <2>4 DEF IInv, MarkerMeansThresholds
  <2>10. OrderInv'
    BY <2>6, <2>7
  <2> QED BY <2>2, <2>5, <2>8, <2>9, <2>10 DEF IInv
<1> QED BY <1>1, <1>2

LEMMA HandlersKeepOrder ==
  ASSUME IInv, NEW msg \in BagToSet(msgs), HandlerMoves(msg), HandlerOrder,
         m.profile = "dev-vxrail"
  PROVE  OrderInv'
<1>1. /\ m.alive = TRUE /\ m'.alive = TRUE /\ disk' = disk
      /\ msgs' = msgs (-) SetToBag({msg})
      /\ m'.splash = TRUE => m'.step = "env"
  BY DEF HandlerMoves, HandlerOrder
<1>2. CASE m.step \in Early /\ m'.step \in Early \cup Late /\ cmds' = cmds
  <2>1. EarlyInv /\ disk'.marker = FALSE
    BY <1>1, <1>2 DEF IInv, OrderInv
  <2>2. cmds = EmptyBag /\ msgs = SetToBag({msg})
    <3>1. msgs # EmptyBag
      BY BagOfOne
    <3> PICK x : msgs = SetToBag({x}) /\ cmds = EmptyBag
      BY <2>1, <3>1 DEF EarlyInv, Quiet, OneCommand, OneMessage
    <3>2. x = msg
      BY BagOfOne
    <3> QED BY <3>2
  <2>3. cmds' = EmptyBag /\ msgs' = EmptyBag
    BY <1>1, <1>2, <2>2, BagOfOne
  <2>4. EarlyInv' /\ \A c \in BagToSet(cmds') : ~Persists(c)
    BY <2>3, EarlyHolds, BagOfOne DEF Quiet
  <2> QED BY <1>1, <1>2, <2>1, <2>4, OrderHolds
<1>3. CASE /\ m.step \in Late /\ m'.step \in Late
           /\ cmds' = cmds \/ \E c : ~Persists(c) /\ Starts(c)
  <2>1. \A c \in BagToSet(cmds) : ~Persists(c)
    BY <1>3 DEF IInv, OrderInv
  <2>2. \A c \in BagToSet(cmds') : ~Persists(c)
    <3>1. CASE cmds' = cmds
      BY <2>1, <3>1
    <3>2. ASSUME NEW c, ~Persists(c), Starts(c)
          PROVE  \A e \in BagToSet(cmds') : ~Persists(e)
      <4>1. BagToSet(cmds') = BagToSet(cmds) \cup {c}
        BY <3>2, BagGrows DEF Starts
      <4> QED BY <2>1, <3>2, <4>1
    <3> QED BY <1>3, <3>1, <3>2
  <2> QED BY <1>1, <1>3, <2>2, OrderHolds
<1> QED BY <1>2, <1>3 DEF HandlerOrder

LEMMA HandlersKeep ==
  ASSUME IInv, NEW msg \in BagToSet(msgs), Handle(msg)
  PROVE  IInv'
<1>1. Message(msg)
  BY DEF IInv, FlightInv
<1>2. CASE Exit
  BY <1>2, ExitKeeps
<1>3. CASE ~Exit
  <2>1. HandlerMoves(msg)
    BY <1>1, <1>3, HandleMoves DEF IInv
  <2>2. ModelInv'
    BY <1>1, HandleModel DEF IInv
  <2>3. disk' = disk /\ BagToSet(msgs') \subseteq BagToSet(msgs)
    BY <2>1, BagShrinks DEF HandlerMoves
  <2>4. m'.profile = m.profile
    BY <2>1, <2>2 DEF IInv, HandlerMoves, ModelInv, Typed
  <2>5. FlightInv' /\ LoadingHasWork' /\ ProbeInv'
    <3>1. CASE cmds' = cmds /\ m'.loading = FALSE
      <4>1. FlightInv' /\ LoadingHasWork'
        BY <2>3, <3>1 DEF IInv, FlightInv, LoadingHasWork
      <4>2. ProbeInv'
        BY <2>3, <3>1 DEF IInv, ProbeInv
      <4> QED BY <4>1, <4>2
    <3>2. CASE \E c : Sends(c)
      BY <2>3, <3>2, SentIsBusy
    <3> QED BY <2>1, <3>1, <3>2 DEF HandlerMoves
  <2>6. ASSUME m.profile = "dev-vxrail" PROVE OrderInv'
    <3>1. m.step \in Early => msg.type = "asyncDone"
      <4> SUFFICES ASSUME m.step \in Early PROVE msg.type = "asyncDone"
        OBVIOUS
      <4>1. EarlyInv
        BY <2>1, <2>6 DEF IInv, OrderInv, HandlerMoves
      <4>2. msgs # EmptyBag
        BY BagOfOne
      <4> PICK x : msgs = SetToBag({x}) /\ x.type = "asyncDone"
        BY <4>1, <4>2 DEF EarlyInv, Quiet, OneCommand, OneMessage
      <4> QED BY BagOfOne
    <3>2. HandlerOrder
      BY <1>3, <2>6, <3>1, HandleOrder DEF IInv
    <3> QED BY <2>1, <2>6, <3>2, HandlersKeepOrder
  <2>7. ASSUME m.profile # "dev-vxrail" PROVE OrderInv'
    BY <2>4, <2>7 DEF OrderInv
  <2>8. DiskInv'
    BY <2>3 DEF IInv, DiskInv
  <2>9. MarkerMeansThresholds'
    BY <2>3, <2>4 DEF IInv, MarkerMeansThresholds
  <2>10. OrderInv'
    BY <2>6, <2>7
  <2> QED BY <2>2, <2>5, <2>8, <2>9, <2>10 DEF IInv
<1> QED BY <1>2, <1>3

\* What the marker says is not changed by a command other than a persist.
LEMMA MarkerKept ==
  ASSUME IInv, NEW c, NEW e, Effect(c, e), ~Persists(c), m' = m, disk' = e
  PROVE  MarkerMeansThresholds'
<1>1. e.manifest = disk.manifest
  BY DEF Effect, Persists
<1>2. CASE e.marker = disk.marker
  BY <1>1, <1>2 DEF IInv, MarkerMeansThresholds, Effect
<1>3. CASE Stamped(e)
  BY <1>3 DEF MarkerMeansThresholds, Stamped
<1> QED BY <1>2, <1>3 DEF Effect

\* While a command runs the wizard lives; before the deployment starts it is a
\* persist, and nothing else is under way.
LEMMA RunsWhere ==
  ASSUME IInv, NEW c \in BagToSet(cmds), m.profile = "dev-vxrail"
  PROVE  /\ m.alive = TRUE
         /\ \/ /\ m.step \in Early /\ m.loading = TRUE /\ Persists(c)
               /\ cmds = SetToBag({c}) /\ msgs = EmptyBag
               /\ disk.marker = FALSE
            \/ m.step \in Late /\ ~Persists(c)
<1>1. m.alive = TRUE
  <2>1. ~Quiet
    BY BagOfOne DEF Quiet
  <2> QED BY <2>1 DEF IInv, OrderInv, ModelInv, Typed, Model
<1>2. m.step \in Early \/ (m.step \in Late /\ ~Persists(c))
  BY DEF IInv, OrderInv
<1>3. CASE m.step \in Early
  <2>1. EarlyInv /\ disk.marker = FALSE
    BY <1>1, <1>3 DEF IInv, OrderInv
  <2>2. cmds # EmptyBag
    BY BagOfOne
  <2>3. m.loading = TRUE
    BY <2>1, <2>2 DEF EarlyInv, Quiet
  <2> PICK y \in BagToSet(cmds) : Persists(y) /\ cmds = SetToBag({y}) /\ msgs = EmptyBag
    BY <2>1, <2>2 DEF EarlyInv, Quiet, OneCommand, OneMessage
  <2>4. y = c
    BY BagOfOne
  <2> QED BY <1>1, <1>3, <2>1, <2>3, <2>4
<1> QED BY <1>1, <1>2, <1>3

LEMMA EndsKeepOrder ==
  ASSUME IInv, NEW c \in BagToSet(cmds), NEW e, NEW x, Ends(c, e, x),
         m.profile = "dev-vxrail"
  PROVE  OrderInv' /\ MarkerMeansThresholds'
<1>1. /\ m' = m /\ disk' = e /\ Effect(c, e) /\ Answer(c, x)
      /\ cmds' = cmds (-) SetToBag({c}) /\ msgs' = msgs (+) SetToBag({x})
  BY DEF Ends, Finish
<1>2. m'.alive = TRUE /\ (m'.splash = TRUE => m'.step = "env")
  BY <1>1, RunsWhere DEF IInv, OrderInv
<1>3. CASE /\ m.step \in Early /\ m.loading = TRUE /\ Persists(c)
           /\ cmds = SetToBag({c}) /\ msgs = EmptyBag /\ disk.marker = FALSE
  <2>1. cmds' = EmptyBag /\ msgs' = SetToBag({x}) /\ x.type = "asyncDone"
    BY <1>1, <1>3, BagOfOne DEF Answer
  <2>2. EarlyInv'
    BY <1>1, <1>3, <2>1, EarlyHolds
  <2>3. disk'.marker = FALSE
    BY <1>1, <1>3 DEF Effect, Persists
  <2>4. OrderInv'
    BY <1>1, <1>2, <1>3, <2>2, <2>3, OrderHolds
  <2>5. MarkerMeansThresholds'
    BY <2>3 DEF MarkerMeansThresholds
  <2> QED BY <2>4, <2>5
<1>4. CASE m.step \in Late /\ ~Persists(c)
  <2>1. \A y \in BagToSet(cmds') : ~Persists(y)
    BY <1>1, <1>4, BagShrinks DEF IInv, OrderInv
  <2>2. OrderInv'
    BY <1>1, <1>2, <1>4, <2>1, OrderHolds
  <2> QED BY <1>1, <1>4, <2>2, MarkerKept
<1> QED BY <1>3, <1>4, RunsWhere

LEMMA GoesOnKeepsOrder ==
  ASSUME IInv, NEW c \in BagToSet(cmds), NEW e, NEW y, GoesOn(c, e, y),
         BagToSet(cmds') \subseteq BagToSet(cmds) \cup {y},
         m.profile = "dev-vxrail"
  PROVE  OrderInv' /\ MarkerMeansThresholds'
<1>1. m' = m /\ disk' = e /\ Effect(c, e) /\ ~Persists(c) /\ ~Persists(y)
  BY DEF GoesOn, GoOn
<1>2. m'.alive = TRUE /\ (m'.splash = TRUE => m'.step = "env") /\ m.step \in Late
  BY <1>1, RunsWhere DEF IInv, OrderInv
<1>3. \A z \in BagToSet(cmds') : ~Persists(z)
  BY <1>1, <1>2 DEF IInv, OrderInv
<1>4. OrderInv'
  BY <1>1, <1>2, <1>3, OrderHolds
<1> QED BY <1>1, <1>4, MarkerKept

\* A probe still knows what is enrolled at its site when another command has
\* changed the devices: what was committed meanwhile is marked, and what another
\* probe writes back is what both have read.
LEMMA StaysFaithful ==
  ASSUME DiskInv, ProbeInv, FlightInv, NEW c \in BagToSet(cmds), NEW e,
         DevicesMove(c, e), NEW y \in BagToSet(cmds), y.op = "probe"
  PROVE  Faithful(e, y)
<1>1. Faithful(disk, y) /\ y.n \in Site /\ Command(c)
  BY DEF ProbeInv, FlightInv, Command
<1>2. CASE SameDevices(disk, e)
  BY <1>1, <1>2 DEF SameDevices, Faithful
<1>3. ASSUME NEW s \in Site, NEW new \in SUBSET Device, e = Enroll(disk, s, new)
      PROVE  Faithful(e, y)
  <2>1. CASE y.n = s
    <3>1. Probing(s)
      BY <2>1 DEF Probing
    <3>2. /\ e.enrolled[y.n] = disk.enrolled[y.n] \cup new
          /\ disk.raced[y.n] \subseteq e.raced[y.n] /\ new \subseteq e.raced[y.n]
      BY <1>3, <2>1, <3>1, Enrols DEF DiskInv
    <3> QED BY <1>1, <3>2 DEF Faithful
  <2>2. CASE y.n # s
    <3>1. e.enrolled[y.n] = disk.enrolled[y.n] /\ e.raced[y.n] = disk.raced[y.n]
      BY <1>1, <1>3, <2>2, Enrols DEF DiskInv
    <3> QED BY <1>1, <3>1 DEF Faithful
  <2> QED BY <2>1, <2>2
<1>4. CASE c.op = "probe" /\ e = WriteBack(disk, c)
  <2>1. /\ e.enrolled[c.n] = c.draft /\ e.raced = disk.raced
        /\ \A t \in Site \ {c.n} : e.enrolled[t] = disk.enrolled[t]
    BY <1>1, <1>4, WritesBack DEF DiskInv
  <2>2. Faithful(disk, c)
    BY <1>4 DEF ProbeInv
  <2>3. CASE y.n = c.n
    BY <1>1, <2>1, <2>2, <2>3 DEF Faithful
  <2>4. CASE y.n # c.n
    BY <1>1, <2>1, <2>4 DEF Faithful
  <2> QED BY <2>3, <2>4
<1> QED BY <1>2, <1>3, <1>4 DEF DevicesMove

LEMMA EndsKeep ==
  ASSUME IInv, NEW c \in BagToSet(cmds), NEW e, NEW x, Ends(c, e, x)
  PROVE  IInv'
<1>1. /\ m' = m /\ disk' = e /\ Effect(c, e) /\ Answer(c, x)
      /\ cmds' = cmds (-) SetToBag({c}) /\ msgs' = msgs (+) SetToBag({x})
  BY DEF Ends, Finish
<1>2. ModelInv' /\ DiskInv'
  BY <1>1 DEF IInv, ModelInv, DiskInv, Effect
<1>3. BagToSet(cmds') \subseteq BagToSet(cmds)
  BY <1>1, BagShrinks
<1>4. BagToSet(msgs') = BagToSet(msgs) \cup {x} /\ msgs' # EmptyBag
  BY <1>1, BagGrows
<1>5. FlightInv' /\ LoadingHasWork'
  BY <1>1, <1>3, <1>4 DEF IInv, FlightInv, LoadingHasWork, Answer
<1>6. ProbeInv'
  <2> SUFFICES ASSUME NEW y \in BagToSet(cmds'), y.op = "probe" PROVE Faithful(e, y)
    BY <1>1 DEF ProbeInv
  <2> QED BY <1>1, <1>3, StaysFaithful DEF IInv, Effect
<1>7. OrderInv' /\ MarkerMeansThresholds'
  <2>1. CASE m.profile = "dev-vxrail"
    BY <2>1, EndsKeepOrder
  <2>2. CASE m.profile # "dev-vxrail"
    BY <1>1, <2>2 DEF OrderInv, MarkerMeansThresholds
  <2> QED BY <2>1, <2>2
<1> QED BY <1>2, <1>5, <1>6, <1>7 DEF IInv

LEMMA GoesOnKeeps ==
  ASSUME IInv, NEW c \in BagToSet(cmds), NEW e, NEW y, GoesOn(c, e, y)
  PROVE  IInv'
<1>1. /\ m' = m /\ msgs' = msgs /\ disk' = e /\ Effect(c, e) /\ Command(y)
      /\ cmds' = (cmds (-) SetToBag({c})) (+) SetToBag({y})
  BY DEF GoesOn, GoOn
<1>2. ModelInv' /\ DiskInv'
  BY <1>1 DEF IInv, ModelInv, DiskInv, Effect
<1>3. BagToSet(cmds') \subseteq BagToSet(cmds) \cup {y} /\ cmds' # EmptyBag
  <2> PICK B : B = cmds (-) SetToBag({c})
    OBVIOUS
  <2>1. BagToSet(B) \subseteq BagToSet(cmds)
    BY BagShrinks
  <2>2. cmds' = B (+) SetToBag({y})
    BY <1>1
  <2>3. BagToSet(B (+) SetToBag({y})) = BagToSet(B) \cup {y}
        /\ B (+) SetToBag({y}) # EmptyBag
    BY BagGrows
  <2> QED BY <2>1, <2>2, <2>3
<1>4. FlightInv' /\ LoadingHasWork'
  BY <1>1, <1>3 DEF IInv, FlightInv, LoadingHasWork
<1>5. ProbeInv'
  <2> SUFFICES ASSUME NEW z \in BagToSet(cmds'), z.op = "probe" PROVE Faithful(e, z)
    BY <1>1 DEF ProbeInv
  <2>1. CASE z = y
    BY <2>1 DEF GoesOn
  <2>2. CASE z \in BagToSet(cmds)
    BY <1>1, <2>2, StaysFaithful DEF IInv, Effect
  <2> QED BY <1>3, <2>1, <2>2
<1>6. OrderInv' /\ MarkerMeansThresholds'
  <2>1. CASE m.profile = "dev-vxrail"
    BY <1>3, <2>1, GoesOnKeepsOrder
  <2>2. CASE m.profile # "dev-vxrail"
    BY <1>1, <2>2 DEF OrderInv, MarkerMeansThresholds
  <2> QED BY <2>1, <2>2
<1> QED BY <1>2, <1>4, <1>5, <1>6 DEF IInv

LEMMA RunsKeep ==
  ASSUME IInv, NEW c \in BagToSet(cmds), Run(c)
  PROVE  IInv' /\ DevicesMove(c, disk')
<1>1. Command(c)
  BY DEF IInv, FlightInv
<1>2. (\E e, x : Ends(c, e, x)) \/ (\E e, y : GoesOn(c, e, y))
  BY <1>1, RunFinishes DEF IInv
<1>3. ASSUME NEW e, NEW x, Ends(c, e, x) PROVE IInv' /\ DevicesMove(c, disk')
  <2>1. disk' = e /\ Effect(c, e)
    BY <1>3 DEF Ends, Finish
  <2> QED BY <1>3, <2>1, EndsKeep DEF Effect
<1>4. ASSUME NEW e, NEW y, GoesOn(c, e, y) PROVE IInv' /\ DevicesMove(c, disk')
  <2>1. disk' = e /\ Effect(c, e)
    BY <1>4 DEF GoesOn, GoOn
  <2> QED BY <1>4, <2>1, GoesOnKeeps DEF Effect
<1> QED BY <1>2, <1>3, <1>4

LEMMA DiskAtLaunch ==
  ASSUME NEW d \in Deployments, NEW n \in 1 .. d.sites, NEW devices \in SUBSET d.devices
  PROVE  /\ Sound(FreshDisk) /\ FreshDisk.marker = FALSE
         /\ Sound(ConfiguredDisk(n, devices)) /\ ConfiguredDisk(n, devices).marker = FALSE
<1>1. d.sites \in Nat /\ 1 .. d.sites \subseteq Site
  BY SitesCovered, SetupAssumption
<1>2. n \in Nat /\ n \in Site /\ n \in SiteOrNil /\ 1 .. n \subseteq Site /\ 0 \in SiteOrNil
  BY <1>1 DEF SiteOrNil
<1>3. Sound(FreshDisk)
  <2>1. [s \in Site |-> {}] \in [Site -> SUBSET Device]
    OBVIOUS
  <2>2. FreshDisk \in Disk /\ FreshDisk.compose = 0 /\ FreshDisk.up = {}
    BY <1>2, <2>1 DEF FreshDisk, Disk
  <2>3. 1 .. FreshDisk.compose = {}
    BY <2>2
  <2> QED BY <2>2, <2>3 DEF Sound
<1>4. Sound(ConfiguredDisk(n, devices))
  <2> PICK enrolled, raced :
        /\ enrolled = [s \in Site |-> IF s <= n THEN devices ELSE {}]
        /\ raced = [s \in Site |-> {}]
    OBVIOUS
  <2>1. /\ enrolled \in [Site -> SUBSET Device]
        /\ raced \in [Site -> SUBSET Device]
    BY DEF Device
  <2> PICK k : k = ConfiguredDisk(n, devices)
    OBVIOUS
  <2>3. /\ k.inventory = 1 .. n /\ k.compose = n /\ k.up = 1 .. n /\ k.config = 1 .. n
    BY DEF ConfiguredDisk
  <2>4. k \in Disk
    BY <1>2, <2>1 DEF ConfiguredDisk, Disk
  <2>5. Sound(k)
    BY <2>3, <2>4 DEF Sound, Configured
  <2> QED BY <2>5
<1> QED BY <1>3, <1>4 DEF FreshDisk, ConfiguredDisk

LEMMA InitInv ==
  ASSUME Init
  PROVE  IInv
<1> PICK d \in Deployments, mode \in Modes :
      /\ \/ disk = FreshDisk
         \/ \E n \in 1 .. d.sites, devices \in SUBSET d.devices :
              disk = ConfiguredDisk(n, devices)
      /\ m = NewModel(d, mode)
      /\ cmds = EmptyBag /\ msgs = EmptyBag
  BY DEF Init
<1>1. DiskInv /\ disk.marker = FALSE
  <2>1. CASE disk = FreshDisk
    <3>1. 1 \in 1 .. d.sites
      BY SetupAssumption
    <3> QED BY <2>1, <3>1, DiskAtLaunch DEF DiskInv
  <2>2. CASE \E n \in 1 .. d.sites, devices \in SUBSET d.devices :
               disk = ConfiguredDisk(n, devices)
    BY <2>2, DiskAtLaunch DEF DiskInv
  <2> QED BY <2>1, <2>2
<1>2. m \in Model /\ m.profile = d.profile
  BY <1>1, NewModelTyped DEF DiskInv, Sound, Disk
<1>3. /\ m.limits = d /\ m.loading = FALSE /\ m.step = "env" /\ m.alive = TRUE
  BY DEF NewModel
<1>4. FlightInv /\ ProbeInv
  BY BagOfOne DEF FlightInv, ProbeInv
<1>5. Quiet
  BY DEF Quiet
<1>6. OrderInv
  BY <1>1, <1>3, <1>5 DEF OrderInv, EarlyInv, Early, Late
<1> QED BY <1>1, <1>2, <1>3, <1>4, <1>6
  DEF IInv, ModelInv, Typed, LoadingHasWork, MarkerMeansThresholds

LEMMA NextInv ==
  ASSUME IInv, [Next]_vars
  PROVE  IInv'
<1>1. CASE Keys
  BY <1>1, KeysKeep
<1>2. CASE RunSome
  BY <1>2, RunsKeep DEF RunSome
<1>3. CASE HandleSome
  BY <1>3, HandlersKeep DEF HandleSome
<1>4. CASE UNCHANGED vars
  <2>1. m' = m /\ cmds' = cmds /\ msgs' = msgs /\ disk' = disk
    BY <1>4 DEF vars
  <2>2. ModelInv' /\ DiskInv' /\ FlightInv'
    BY <2>1 DEF IInv, ModelInv, DiskInv, FlightInv
  <2>3. OrderInv'
    BY <2>1 DEF IInv, OrderInv, EarlyInv, OneCommand, OneMessage, Quiet, Persists
  <2>4. LoadingHasWork' /\ MarkerMeansThresholds'
    BY <2>1 DEF IInv, LoadingHasWork, MarkerMeansThresholds
  <2>5. ProbeInv'
    BY <2>1 DEF IInv, ProbeInv
  <2> QED BY <2>2, <2>3, <2>4, <2>5 DEF IInv
<1> QED BY <1>1, <1>2, <1>3, <1>4 DEF Next

\* The inductive invariant above holds in every reachable state: the step the
\* wizard shows, the commands and messages under way and what is on disk agree,
\* however the answers of Update's commands are ordered, fail or are lost.
THEOREM Inductive == Spec => []IInv
<1>1. Init => IInv
  BY InitInv
<1>2. IInv /\ [Next]_vars => IInv'
  BY NextInv
<1> QED BY <1>1, <1>2, PTL DEF Spec

-----------------------------------------------------------------------------
(***************************************************************************)
(* Theorems.                                                               *)
(***************************************************************************)

\* What the commands leave in the deployment directory is sound wherever a
\* persist, a deployment phase or the post-configuration fails and however
\* often it is tried: the compose file never starts a collector whose
\* configuration or inventory is missing, and on the profile without accounts
\* the marker that ends first boot is there only when every site of the manifest
\* has its thresholds.
THEOREM DeploymentSound == Spec => []DeploymentIsSound
<1>1. IInv => DeploymentIsSound
  <2> SUFFICES ASSUME IInv PROVE DeploymentIsSound
    OBVIOUS
  <2>1. TypeOK
    <3>1. /\ m \in Model /\ m.profile = m.limits.profile
          /\ disk \in Disk
      BY DEF IInv, ModelInv, DiskInv, Typed, Sound
    <3>2. /\ disk.manifest \in SiteOrNil /\ disk.compose \in SiteOrNil
          /\ disk.config \subseteq Site /\ disk.up \subseteq Site
          /\ disk.threshold \subseteq Site /\ disk.inventory \subseteq Site
          /\ disk.enrolled \in [Site -> SUBSET Device]
          /\ disk.raced \in [Site -> SUBSET Device]
          /\ disk.env \in BOOLEAN /\ disk.marker \in BOOLEAN
      BY <3>1 DEF Disk
    <3>3. /\ m.limits \in Deployments /\ m.mode \in Modes /\ m.step \in Steps
          /\ m.usersMode \in UserModes
          /\ m.adminPhase \in {"", "loading", "choose", "create"}
          /\ m.reviewPhase \in {"", "pick"}
      BY <3>1 DEF Model
    <3>4. /\ {m.alive, m.splash, m.loading, m.err, m.discoverManual} \subseteq BOOLEAN
          /\ {m.sites, m.deploySites, m.reviewAutoSites, m.discoverSpec} \subseteq SiteOrNil
          /\ m.siteCount \in Site /\ (m.reviewSiteIdx + 1) \in Site
      BY <3>1 DEF Model
    <3> HIDE DEF Model, Disk
    <3> QED BY <3>1, <3>2, <3>3, <3>4 DEF TypeOK, SiteOrNil
  <2>2. StartedSitesAreConfigured
    BY DEF IInv, DiskInv, Sound, Configured, StartedSitesAreConfigured
  <2> QED BY <2>1, <2>2 DEF IInv, DeploymentIsSound
<1> QED BY <1>1, Inductive, PTL

\* A wizard that ignores the keyboard has a command or a message under way that
\* gives it back: every handler of Update clears loading or returns the next
\* command, whatever step its message arrives in.
THEOREM LoadingBusy == Spec => []LoadingHasWork
<1>1. IInv => LoadingHasWork
  BY DEF IInv
<1> QED BY <1>1, Inductive, PTL

\* A device once enrolled at a site stays enrolled whatever the commands do,
\* with one exception: WriteSiteArtifacts seeds an inventory only where there is
\* none and a commit only adds, but the topology enrichment after a commit writes
\* back the devices it had read before it probed them, and so loses a device
\* accepted at that site in between, and no other.
THEOREM EnrolledKept == Spec => KeepsEnrolledDevices
<1>1. IInv /\ [Next]_vars => [OnlyRacedDevicesGo]_vars
  <2> SUFFICES ASSUME IInv, Next PROVE OnlyRacedDevicesGo
    BY DEF vars
  <2> USE DEF OnlyRacedDevicesGo
  <2>1. CASE RunSome
    <3> PICK c \in BagToSet(cmds) : Run(c)
      BY <2>1 DEF RunSome
    <3>1. DevicesMove(c, disk') /\ Command(c) /\ Sound(disk)
      BY RunsKeep DEF IInv, FlightInv, DiskInv
    <3>2. CASE SameDevices(disk, disk')
      BY <3>2 DEF SameDevices
    <3>3. ASSUME NEW s \in Site, NEW new \in SUBSET Device,
                 disk' = Enroll(disk, s, new)
          PROVE  OnlyRacedDevicesGo
      <4>1. /\ disk'.enrolled[s] = disk.enrolled[s] \cup new
            /\ \A t \in Site \ {s} : disk'.enrolled[t] = disk.enrolled[t]
        BY <3>1, <3>3, Enrols
      <4> QED BY <4>1
    <3>4. CASE c.op = "probe" /\ disk' = WriteBack(disk, c)
      <4>1. /\ disk'.enrolled[c.n] = c.draft
            /\ \A t \in Site \ {c.n} : disk'.enrolled[t] = disk.enrolled[t]
        BY <3>1, <3>4, WritesBack
      <4>2. Faithful(disk, c) /\ Probing(c.n)
        BY <3>4 DEF IInv, ProbeInv, Probing
      <4>3. \A t \in Site : disk.enrolled[t] \subseteq Device
        BY <3>1 DEF Sound, Disk
      <4> QED BY <4>1, <4>2, <4>3 DEF Faithful
    <3> QED BY <3>1, <3>2, <3>3, <3>4 DEF DevicesMove
  <2>2. CASE Keys
    <3>1. disk' = disk
      BY <2>2, KeysMove DEF IInv, Exit, KeyMoves
    <3> QED BY <3>1
  <2>3. CASE HandleSome
    <3> PICK msg \in BagToSet(msgs) : Handle(msg)
      BY <2>3 DEF HandleSome
    <3>1. Message(msg)
      BY DEF IInv, FlightInv
    <3>2. disk' = disk
      BY <3>1, HandleMoves DEF IInv, Exit, HandlerMoves
    <3> QED BY <3>2
  <2> QED BY <2>1, <2>2, <2>3 DEF Next
<1> QED BY <1>1, Inductive, PTL DEF Spec, KeepsEnrolledDevices
=============================================================================
