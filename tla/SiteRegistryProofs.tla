-------------------------- MODULE SiteRegistryProofs --------------------------
(***************************************************************************)
(* Proofs about SiteRegistry and SiteTopology, for any sites with any      *)
(* roles, any devices and any number of commands: the graphs of sites that *)
(* are saved and served can be walked, a deletion leaves no ghost, the     *)
(* rows follow the manifest, and the dependency overlay hides no outage.   *)
(***************************************************************************)
EXTENDS SiteRegistry, FiniteSetTheorems, TLAPS

-----------------------------------------------------------------------------
(***************************************************************************)
(* The inductive invariant.                                                *)
(***************************************************************************)
Node == [up : SUBSET Sites, hub : BOOLEAN]

Topology(index) == DOMAIN index \subseteq Sites /\ index \in [DOMAIN index -> Node]

HubsAreCores(index) == \A s \in DOMAIN index : index[s].hub => Role[s] = "core"

\* What may stand in the manifest.
Accepted(index) ==
  /\ Topology(index) /\ HubsAreCores(index) /\ DOMAIN index # {}
  /\ \A s \in DOMAIN index : index[s].up \subseteq DOMAIN index
  /\ Ranked(index)

\* Every foreign key finds its row.
KeysHold(tabs, index) ==
  /\ tabs \in [Sites -> SUBSET Filled]
  /\ \A s \in Sites : \A t \in tabs[s] :
       References(t) \subseteq tabs[s] \cup {x \in {"sites"} : s \in DOMAIN index}

Phases == {"idle", "confirm", "sql", "topology", "write", "generate", "up",
           "sync", "upsert", "prune", "again", "done", "failed"}

Specs == UNION {[names -> Node] : names \in SUBSET Sites}

Job == [pc : Phases, site : Sites \cup {NoSite}, listed : BOOLEAN, specs : Specs,
        step : 0 .. 14, left : SUBSET Sites, alone : BOOLEAN,
        late : SUBSET {"delete", "prune"}]

Suggested(index) ==
  /\ Topology(index) /\ HubsAreCores(index) /\ DOMAIN index # {}
  /\ ValidateSiteTopology(index)

\* The job j of command p.
JobTyped(p, j) ==
  /\ j \in Job
  /\ p = "cli" => j.pc \notin {"topology", "again"}
  /\ p = "wiz" => j.pc \notin {"confirm", "sql"} /\ j.site = NoSite /\ j.listed = FALSE
  /\ j.pc = "idle" => j.listed = FALSE
  /\ j.pc = "topology" => Suggested(j.specs)
  /\ j.pc \notin {"idle", "topology", "done", "failed"} => Accepted(j.specs)
  /\ j.pc = "upsert" => j.step = 0
  /\ j.pc \in {"upsert", "prune"} => j.left \subseteq DOMAIN j.specs

\* A script that no message disturbed has left nothing behind so far.
Undisturbed(j) == (IF j.pc = "sql" THEN "delete" ELSE "prune") \notin j.late

TargetsOf(j, index) ==
  IF j.pc = "sql" THEN {j.site} \cap DOMAIN index ELSE DOMAIN index \ DOMAIN j.specs

SweptOf(j, index, tabs) ==
  j.pc \in {"sql", "prune"} /\ Undisturbed(j) =>
    \A s \in TargetsOf(j, index) : \A i \in Statements :
      i <= j.step => Script[i] \notin tabs[s]

\* A topology in use goes from roles to higher ones.
LayersOf(j, saved) == saved /\ j.pc \in {"upsert", "prune"} => Layered(j.specs)

\* A command that ran alone: what it read or wrote is the manifest, and the rows
\* it has brought up to date are those of the manifest.
SyncOf(j, saved, index) ==
  j.alone =>
    /\ j.pc \in {"generate", "up", "sync", "upsert", "prune", "again", "done"}
         => saved = j.specs
    /\ j.pc \in {"confirm", "sql"} /\ ~j.listed => saved = j.specs
    /\ j.pc = "upsert" =>
         \A s \in DOMAIN j.specs \ j.left : s \in DOMAIN index /\ index[s] = j.specs[s]
    /\ j.pc = "prune" =>
         \A s \in DOMAIN j.specs : s \in DOMAIN index /\ index[s] = j.specs[s]
    /\ j.pc \in {"again", "done"} /\ "prune" \notin j.late => index = saved

\* A deletion that ran alone: first the rows go, then the name in the manifest,
\* then the service and the collector.
DeletionOf(j, saved, services, up, index) ==
  j.alone /\ j.listed =>
    /\ j.pc \in {"confirm", "sql"} => j.site \in DOMAIN saved
    /\ j.pc \notin {"idle", "failed"} => j.site \notin DOMAIN j.specs
    /\ j.pc \in {"up", "sync", "upsert", "prune", "done"} => j.site \notin services
    /\ j.pc \in {"sync", "upsert", "prune", "done"} => j.site \notin up
    /\ "delete" \notin j.late /\ j.pc \notin {"idle", "confirm", "sql", "failed"}
         => j.site \notin DOMAIN index
    /\ "delete" \notin j.late /\ j.pc = "failed"
         => j.site \in DOMAIN saved \/ j.site \notin DOMAIN index

\* The files, the collectors and the rows.
World(saved, services, up, index, tabs, lay) ==
  /\ Accepted(saved) /\ services \subseteq Sites /\ up \subseteq Sites
  /\ Topology(index) /\ HubsAreCores(index) /\ KeysHold(tabs, index)
  /\ lay => Layered(saved) /\ Layered(index)

\* The command p at j, in that world.
Right(p, j, saved, services, up, index, tabs, lay) ==
  /\ JobTyped(p, j) /\ SweptOf(j, index, tabs) /\ LayersOf(j, lay)
  /\ SyncOf(j, saved, index)
  /\ p = "cli" => DeletionOf(j, saved, services, up, index)

IInv ==
  /\ World(manifest, compose, running, rows, tables, layered)
  /\ DOMAIN job = Commands
  /\ \A p \in Commands :
       Right(p, job[p], manifest, compose, running, rows, tables, layered)

-----------------------------------------------------------------------------
(***************************************************************************)
(* Ranks.                                                                  *)
(***************************************************************************)

LEMMA SitesFinite ==
  /\ IsFiniteSet(Sites) /\ Cardinality(Sites) \in Nat \ {0}
  /\ \A S \in SUBSET Sites :
       /\ IsFiniteSet(S) /\ Cardinality(S) \in Nat /\ Cardinality(S) <= Cardinality(Sites)
       /\ S # Sites => Cardinality(S) < Cardinality(Sites)
<1>1. IsFiniteSet(Sites) /\ Sites # {}
  BY SiteAssumption
<1>2. Cardinality(Sites) \in Nat \ {0}
  BY <1>1, FS_CardinalityType, FS_EmptySet
<1>3. ASSUME NEW S \in SUBSET Sites
      PROVE  /\ IsFiniteSet(S) /\ Cardinality(S) \in Nat /\ Cardinality(S) <= Cardinality(Sites)
             /\ S # Sites => Cardinality(S) < Cardinality(Sites)
  BY <1>1, FS_Subset, FS_CardinalityType
<1> QED BY <1>1, <1>2, <1>3

\* A set of sites that has a member has one of least rank.
LEMMA LeastRank ==
  ASSUME NEW S \in SUBSET Sites, S # {}, NEW rank \in [Sites -> Int]
  PROVE  \E s \in S : \A u \in S : ~(rank[u] < rank[s])
<1> DEFINE Below(s) == {u \in S : rank[u] < rank[s]}
           T == {Below(s) : s \in S}
<1>1. T \subseteq FiniteSubsetsOf(S) /\ T # {}
  <2>1. IsFiniteSet(S)
    BY SitesFinite
  <2>2. ASSUME NEW x \in S PROVE Below(x) \in FiniteSubsetsOf(S)
    BY <2>1, FS_Subset DEF FiniteSubsetsOf
  <2> QED BY <2>2
<1>2. PICK A \in T : \A B \in T : <<B, A>> \notin StrictSubsetOrdering(S)
  <2>1. IsWellFoundedOn(StrictSubsetOrdering(S), FiniteSubsetsOf(S))
    BY FS_StrictSubsetOrderingWellFounded
  <2> HIDE DEF T
  <2> QED BY <1>1, <2>1, WFMin
<1>3. PICK s \in S : A = Below(s)
  OBVIOUS
<1>4. \A u \in S : ~(rank[u] < rank[s])
  <2> SUFFICES ASSUME NEW u \in S, rank[u] < rank[s] PROVE FALSE
    OBVIOUS
  <2>1. Below(u) \in SUBSET S /\ Below(s) \in SUBSET S
    OBVIOUS
  <2>2. Below(u) \subseteq Below(s) /\ u \in Below(s) /\ u \notin Below(u)
    OBVIOUS
  <2>3. <<Below(u), Below(s)>> \in StrictSubsetOrdering(S)
    BY <2>1, <2>2 DEF StrictSubsetOrdering
  <2> QED BY <2>3, <1>2, <1>3
<1> QED BY <1>4

\* Ranks of a part of the sites that leads nowhere else.
RanksPart(index, D, rank) ==
  /\ rank \in [Sites -> 1 .. Cardinality(Sites)]
  /\ \A s \in D : rank[s] <= Cardinality(D)
  /\ \A s \in D : index[s].up \cap DOMAIN index \subseteq D
  /\ \A s \in D : \A u \in index[s].up \cap DOMAIN index : rank[u] < rank[s]

\* What the depth-first search accepts can be ranked: the largest ranked part is
\* everything, or what is left of the sites would be a ring.
LEMMA AcyclicIsRanked ==
  ASSUME NEW index, DOMAIN index \subseteq Sites, ~HasCycle(index)
  PROVE  Ranked(index)
<1> DEFINE P == {D \in SUBSET DOMAIN index : \E rank : RanksPart(index, D, rank)}
           T == {DOMAIN index \ D : D \in P}
<1>1. {} \in P
  <2> DEFINE one == [s \in Sites |-> 1]
  <2>1. RanksPart(index, {}, one)
    BY SitesFinite DEF RanksPart
  <2> QED BY <2>1
<1>2. T \subseteq FiniteSubsetsOf(DOMAIN index) /\ T # {}
  <2>1. ASSUME NEW D \in P PROVE DOMAIN index \ D \in FiniteSubsetsOf(DOMAIN index)
    BY SitesFinite DEF FiniteSubsetsOf
  <2> QED BY <1>1, <2>1
<1>3. PICK A \in T : \A B \in T : <<B, A>> \notin StrictSubsetOrdering(DOMAIN index)
  <2>1. IsWellFoundedOn(StrictSubsetOrdering(DOMAIN index), FiniteSubsetsOf(DOMAIN index))
    BY FS_StrictSubsetOrderingWellFounded
  <2> HIDE DEF T
  <2> QED BY <1>2, <2>1, WFMin
<1>4. PICK D \in P : A = DOMAIN index \ D
  OBVIOUS
<1>5. PICK rank : RanksPart(index, D, rank)
  BY <1>4
<1>6. D = DOMAIN index
  <2> SUFFICES ASSUME D # DOMAIN index PROVE FALSE
    OBVIOUS
  <2>1. DOMAIN index \ D \in SUBSET DOMAIN index /\ DOMAIN index \ D # {}
    BY <1>4
  <2>2. PICK s \in DOMAIN index \ D : index[s].up \cap (DOMAIN index \ D) = {}
    BY <2>1 DEF HasCycle
  <2> DEFINE E == D \cup {s}
             next == [x \in Sites |-> IF x = s THEN Cardinality(D) + 1 ELSE rank[x]]
  <2>3. /\ D \in SUBSET Sites /\ s \in Sites /\ s \notin D /\ D # Sites
        /\ E \in SUBSET DOMAIN index
    BY <1>4, <2>2
  <2>4. /\ Cardinality(D) \in Nat /\ Cardinality(D) < Cardinality(Sites)
        /\ Cardinality(E) = Cardinality(D) + 1 /\ Cardinality(Sites) \in Nat
    BY <2>3, SitesFinite, FS_AddElement
  <2>5. next \in [Sites -> 1 .. Cardinality(Sites)]
    BY <1>5, <2>4 DEF RanksPart
  <2>6. /\ next[s] = Cardinality(D) + 1
        /\ \A x \in D : next[x] = rank[x] /\ rank[x] \in Nat /\ rank[x] <= Cardinality(D)
    BY <1>5, <2>3 DEF RanksPart
  <2>7. index[s].up \cap DOMAIN index \subseteq D
    BY <2>2
  <2> HIDE DEF next
  <2>8. \A x \in E : next[x] <= Cardinality(E)
    BY <2>4, <2>6
  <2>9. \A x \in E : index[x].up \cap DOMAIN index \subseteq D
    BY <1>5, <2>7 DEF RanksPart
  <2>10. ASSUME NEW x \in E, NEW u \in index[x].up \cap DOMAIN index
         PROVE  next[u] < next[x]
    <3>1. u \in D
      BY <2>9, <2>10
    <3>2. CASE x = s
      BY <2>4, <2>6, <3>1, <3>2
    <3>3. CASE x \in D
      BY <1>5, <2>6, <2>10, <3>1, <3>3 DEF RanksPart
    <3> QED BY <3>2, <3>3
  <2>11. RanksPart(index, E, next)
    BY <2>5, <2>8, <2>9, <2>10 DEF RanksPart
  <2>12. E \in P
    BY <2>3, <2>11
  <2>13. DOMAIN index \ E \in T
    BY <2>12
  <2>14. <<DOMAIN index \ E, A>> \in StrictSubsetOrdering(DOMAIN index)
    <3>1. /\ DOMAIN index \ E \in SUBSET DOMAIN index
          /\ A \in SUBSET DOMAIN index
          /\ DOMAIN index \ E \subseteq A /\ DOMAIN index \ E # A
      BY <1>4, <2>3
    <3> HIDE DEF E
    <3> QED BY <3>1 DEF StrictSubsetOrdering
  <2> HIDE DEF T
  <2> QED BY <1>3, <2>13, <2>14
<1>7. /\ rank \in [Sites -> 1 .. Cardinality(Sites)]
      /\ \A s \in DOMAIN index : \A u \in index[s].up \cap DOMAIN index : rank[u] < rank[s]
  BY <1>5, <1>6 DEF RanksPart
<1> QED BY <1>7 DEF Ranked

\* The depth-first search of ValidateSiteTopology rejects exactly the graphs whose
\* sites cannot be ranked: the searches for a ring and for an order of the sites are
\* one question.
THEOREM CyclesAreFound ==
  ASSUME NEW index, DOMAIN index \subseteq Sites
  PROVE  HasCycle(index) <=> ~Ranked(index)
<1>1. ASSUME HasCycle(index), Ranked(index) PROVE FALSE
  <2>1. PICK ring \in SUBSET DOMAIN index :
          ring # {} /\ \A s \in ring : index[s].up \cap ring # {}
    BY <1>1 DEF HasCycle
  <2>2. PICK rank \in [Sites -> 1 .. Cardinality(Sites)] :
          \A s \in DOMAIN index : \A u \in index[s].up \cap DOMAIN index : rank[u] < rank[s]
    BY <1>1 DEF Ranked
  <2>3. rank \in [Sites -> Int] /\ ring \in SUBSET Sites
    BY <2>2, SitesFinite
  <2>4. PICK s \in ring : \A u \in ring : ~(rank[u] < rank[s])
    BY <2>1, <2>3, LeastRank
  <2>5. PICK u \in index[s].up \cap ring : TRUE
    BY <2>1
  <2> QED BY <2>2, <2>4, <2>5
<1> QED BY <1>1, AcyclicIsRanked

\* Edges from a role to a higher one are ranked by it.
LEMMA LayeredIsRanked ==
  ASSUME NEW index, DOMAIN index \subseteq Sites, Layered(index)
  PROVE  Ranked(index)
<1> DEFINE Higher(s) == {u \in Sites : RoleRank(u) < RoleRank(s)}
           rank == [s \in Sites |-> Cardinality(Higher(s)) + 1]
<1>1. ASSUME NEW s \in Sites
      PROVE  /\ RoleRank(s) \in Nat /\ Higher(s) \in SUBSET Sites
             /\ s \notin Higher(s) /\ Higher(s) # Sites
  <2>1. RoleRank(s) \in Nat
    BY DEF RoleRank
  <2> QED BY <2>1
<1>2. rank \in [Sites -> 1 .. Cardinality(Sites)]
  <2>1. ASSUME NEW s \in Sites
        PROVE  Cardinality(Higher(s)) + 1 \in 1 .. Cardinality(Sites)
    <3> HIDE DEF Higher
    <3>1. Cardinality(Higher(s)) \in Nat /\ Cardinality(Higher(s)) < Cardinality(Sites)
      BY <1>1, SitesFinite
    <3> QED BY <3>1, SitesFinite
  <2> QED BY <2>1
<1>3. ASSUME NEW s \in DOMAIN index, NEW u \in index[s].up \cap DOMAIN index
      PROVE  rank[u] < rank[s]
  <2>1. u \in Sites /\ s \in Sites /\ RoleRank(u) < RoleRank(s)
    BY DEF Layered
  <2>2. /\ Higher(u) \subseteq Higher(s) /\ u \in Higher(s) /\ u \notin Higher(u)
    <3>1. \A x \in Sites : RoleRank(x) \in Nat
      BY DEF RoleRank
    <3> HIDE DEF RoleRank
    <3> QED BY <2>1, <3>1
  <2> HIDE DEF Higher
  <2>3. Cardinality(Higher(u)) < Cardinality(Higher(s))
    <3>1. IsFiniteSet(Higher(s)) /\ Higher(u) # Higher(s)
      BY <1>1, <2>1, <2>2, SitesFinite
    <3>2. Cardinality(Higher(u)) \in Nat /\ Cardinality(Higher(s)) \in Nat
      BY <1>1, <2>1, SitesFinite
    <3> QED BY <2>2, <3>1, <3>2, FS_Subset
  <2>4. Cardinality(Higher(u)) \in Nat /\ Cardinality(Higher(s)) \in Nat
    BY <1>1, <2>1, SitesFinite
  <2> QED BY <2>1, <2>3, <2>4
<1> HIDE DEF rank
<1> QED BY <1>2, <1>3 DEF Ranked

-----------------------------------------------------------------------------
(***************************************************************************)
(* Topologies the commands build.                                          *)
(***************************************************************************)

LEMMA RolesRanked ==
  /\ \A s \in Sites : Role[s] = "core" => RoleRank(s) = 0
  /\ \A s \in Sites : Role[s] = "mdf" => RoleRank(s) = 1
  /\ \A s \in Sites : Role[s] = "idf" => RoleRank(s) = 2
  /\ \A s \in Sites : RoleRank(s) \in 0 .. 3
BY DEF RoleRank

\* The heuristic names a site of a higher role.
LEMMA NamedIsHigher ==
  ASSUME NEW index, DOMAIN index \subseteq Sites, NEW core \in CoreIDs(index),
         NEW s \in DOMAIN index
  PROVE  \A u \in NamedUpstream(s, DOMAIN index, core) :
           /\ u \in DOMAIN index /\ RoleRank(u) < RoleRank(s)
           /\ Role[u] = "core" \/ (Role[u] = "mdf" /\ Role[s] = "idf")
<1>1. \A u \in SiteOrNone(core) : u \in DOMAIN index /\ Role[u] = "core"
  BY SiteAssumption DEF SiteOrNone, CoreIDs
<1>2. MatchingMDFSiteID(s, DOMAIN index) # NoSite =>
        /\ MatchingMDFSiteID(s, DOMAIN index) \in DOMAIN index
        /\ Role[MatchingMDFSiteID(s, DOMAIN index)] = "mdf"
  BY SiteAssumption DEF MatchingMDFSiteID
<1>3. ASSUME NEW u \in NamedUpstream(s, DOMAIN index, core)
      PROVE  /\ u \in DOMAIN index
             /\ \/ Role[u] = "core" /\ Role[s] \in {"idf", "mdf"}
                \/ Role[u] = "mdf" /\ Role[s] = "idf"
  BY <1>1, <1>2 DEF NamedUpstream
<1>4. ASSUME NEW u \in NamedUpstream(s, DOMAIN index, core)
      PROVE  RoleRank(u) < RoleRank(s)
  BY <1>3, RolesRanked
<1> QED BY <1>3, <1>4

LEMMA NamesOnly ==
  ASSUME NEW names \in SUBSET Sites
  PROVE  /\ DOMAIN BuildSiteSpecs(names) = names
         /\ \A s \in names : BuildSiteSpecs(names)[s] = NoUpstream
         /\ NoUpstream \in Node /\ NoUpstream.up = {} /\ NoUpstream.hub = FALSE
BY DEF BuildSiteSpecs, NoUpstream, Node

\* A topology with the edges the heuristic names, and no others.
NamedOnly(index, names, core) ==
  /\ DOMAIN index = names /\ Topology(index)
  /\ \A s \in names : index[s].hub = TRUE => Role[s] = "core"
  /\ \A s \in names : index[s].up \subseteq NamedUpstream(s, names, core)
  /\ \A s \in names : Role[s] = "core" => index[s].up = {}

LEMMA SuggestionShape ==
  ASSUME NEW names \in SUBSET Sites, NEW core \in CoreIDs(BuildSiteSpecs(names))
  PROVE  NamedOnly(SuggestSiteTopology(BuildSiteSpecs(names), core), names, core)
<1> PICK index : index = SuggestSiteTopology(BuildSiteSpecs(names), core)
  OBVIOUS
<1> DEFINE specs == BuildSiteSpecs(names)
<1>1. DOMAIN specs = names /\ \A s \in names : specs[s] = NoUpstream
  BY NamesOnly
<1>2. \A s \in names : NamedUpstream(s, names, core) \subseteq names
  BY <1>1, NamedIsHigher
<1> HIDE DEF specs
<1>3. ASSUME NEW s \in names
      PROVE  /\ index[s] \in Node /\ (index[s].hub = TRUE => Role[s] = "core")
             /\ index[s].up \subseteq NamedUpstream(s, names, core)
             /\ Role[s] = "core" => index[s].up = {}
  <2>1. CASE Role[s] = "core"
    <3>1. index[s] = [up |-> {}, hub |-> TRUE]
      BY <1>1, <2>1 DEF SuggestSiteTopology, specs
    <3> QED BY <2>1, <3>1 DEF Node
  <2>2. CASE Role[s] # "core" /\ NamedUpstream(s, names, core) = {}
    <3>1. index[s] = NoUpstream
      BY <1>1, <2>2 DEF SuggestSiteTopology, specs
    <3> QED BY <2>2, <3>1 DEF Node, NoUpstream
  <2>3. CASE Role[s] # "core" /\ NamedUpstream(s, names, core) # {}
    <3>1. index[s] = [NoUpstream EXCEPT !.up = NamedUpstream(s, names, core)]
      BY <1>1, <2>3 DEF SuggestSiteTopology, specs
    <3> QED BY <1>2, <2>3, <3>1 DEF Node, NoUpstream
  <2> QED BY <2>1, <2>2, <2>3
<1>4. DOMAIN index = names /\ index = [s \in names |-> index[s]]
  BY <1>1 DEF SuggestSiteTopology, specs
<1> QED BY <1>3, <1>4 DEF Topology, NamedOnly

\* What the topology screen is filled with passes as it stands.
LEMMA SuggestionPasses ==
  ASSUME NEW names \in SUBSET Sites, names # {},
         NEW core \in CoreIDs(BuildSiteSpecs(names)),
         NEW index, index = SuggestSiteTopology(BuildSiteSpecs(names), core)
  PROVE  Suggested(index) /\ Layered(index)
<1>1. /\ DOMAIN index = names /\ Topology(index) /\ HubsAreCores(index)
      /\ \A s \in names : index[s].up \subseteq NamedUpstream(s, names, core)
      /\ \A s \in names : Role[s] = "core" => index[s].up = {}
  <2>1. NamedOnly(index, names, core)
    BY SuggestionShape
  <2>2. \A s \in names : index[s].hub \in BOOLEAN
    BY <2>1 DEF NamedOnly, Topology, Node
  <2> QED BY <2>1, <2>2 DEF HubsAreCores, NamedOnly
<1>2. CoreIDs(BuildSiteSpecs(names)) = CoreIDs(index)
  BY <1>1, NamesOnly DEF CoreIDs
<1>3. \A s \in names : \A u \in index[s].up :
        /\ u \in names /\ RoleRank(u) < RoleRank(s)
        /\ Role[u] = "core" \/ (Role[u] = "mdf" /\ Role[s] = "idf")
  BY <1>1, <1>2, NamedIsHigher
<1>4. ~HasCycle(index)
  <2> SUFFICES ASSUME NEW ring \in SUBSET names, ring # {},
                      \A s \in ring : index[s].up \cap ring # {}
               PROVE  FALSE
    BY <1>1 DEF HasCycle
  <2>1. \A s \in ring : Role[s] # "core"
    BY <1>1
  <2>2. \A s \in ring : Role[s] # "mdf"
    BY <1>3, <2>1
  <2> QED BY <1>3, <2>1, <2>2
<1>5. \A s \in names : s \notin index[s].up /\ index[s].up \subseteq names
  BY <1>3, RolesRanked
<1> QED BY <1>1, <1>3, <1>4, <1>5 DEF Suggested, ValidateSiteTopology, Layered

LEMMA PassedIsAccepted ==
  ASSUME NEW index, Suggested(index)
  PROVE  Accepted(index)
BY AcyclicIsRanked DEF Suggested, Accepted, ValidateSiteTopology, Topology

\* What the operator typed, if it passes.
LEMMA TypedIsAccepted ==
  ASSUME NEW specs, Suggested(specs), NEW typed,
         ValidateSiteTopology(ApplyUpstreamSiteIDs(specs, typed))
  PROVE  Accepted(ApplyUpstreamSiteIDs(specs, typed))
<1> PICK index : index = ApplyUpstreamSiteIDs(specs, typed)
  OBVIOUS
<1>1. /\ DOMAIN index = DOMAIN specs /\ index = [s \in DOMAIN specs |-> index[s]]
      /\ \A s \in DOMAIN specs :
           index[s] = [up |-> typed[s], hub |-> specs[s].hub \/ Role[s] = "core"]
  BY DEF ApplyUpstreamSiteIDs
<1>2. \A s \in DOMAIN specs : index[s].up \subseteq DOMAIN specs
  BY <1>1 DEF ValidateSiteTopology
<1>3. ASSUME NEW s \in DOMAIN specs
      PROVE  index[s] \in Node /\ (index[s].hub = TRUE => Role[s] = "core")
  <2> PICK hub : hub = (specs[s].hub \/ Role[s] = "core")
    OBVIOUS
  <2>1. hub \in BOOLEAN
    BY Zenon
  <2>2. index[s] = [up |-> typed[s], hub |-> hub]
    BY <1>1
  <2>3. typed[s] \subseteq Sites
    BY <1>2, <2>2 DEF Suggested, Topology
  <2>4. specs[s].hub \in BOOLEAN /\ (specs[s].hub = TRUE => Role[s] = "core")
    BY DEF Suggested, Topology, HubsAreCores, Node
  <2>5. hub = TRUE => Role[s] = "core"
    BY <2>4
  <2> QED BY <2>1, <2>2, <2>3, <2>5 DEF Node
<1>4. HubsAreCores(index)
  <2>1. \A s \in DOMAIN specs : index[s].hub \in BOOLEAN
    BY <1>3 DEF Node
  <2> QED BY <1>1, <1>3, <2>1 DEF HubsAreCores
<1>5. Suggested(index)
  BY <1>1, <1>3, <1>4 DEF Suggested, Topology
<1> QED BY <1>5, PassedIsAccepted

\* Taking a site out leaves no dangling upstream and keeps the ranks.
LEMMA RemovalIsAccepted ==
  ASSUME NEW specs, Accepted(specs), NEW site, DOMAIN specs # {site}
  PROVE  /\ Accepted(RemoveSiteFromManifest(specs, site))
         /\ site \notin DOMAIN RemoveSiteFromManifest(specs, site)
<1> PICK index : index = RemoveSiteFromManifest(specs, site)
  OBVIOUS
<1>1. /\ DOMAIN index = DOMAIN specs \ {site}
      /\ index = [s \in DOMAIN specs \ {site} |-> index[s]]
      /\ \A s \in DOMAIN index : index[s] = [specs[s] EXCEPT !.up = specs[s].up \ {site}]
  BY DEF RemoveSiteFromManifest
<1>2. ASSUME NEW s \in DOMAIN index
      PROVE  /\ index[s] \in Node /\ index[s].hub = specs[s].hub
             /\ index[s].up = specs[s].up \ {site}
  <2> PICK node, up : node = specs[s] /\ up = specs[s].up \ {site}
    OBVIOUS
  <2>1. node \in Node
    BY <1>1 DEF Accepted, Topology
  <2>2. up \in SUBSET Sites
    BY <2>1 DEF Node
  <2>3. index[s] = [node EXCEPT !.up = up]
    BY <1>1
  <2> QED BY <2>1, <2>2, <2>3 DEF Node
<1>3. Topology(index) /\ HubsAreCores(index)
  BY <1>1, <1>2 DEF Accepted, Topology, HubsAreCores
<1>4. \A s \in DOMAIN index : index[s].up \subseteq DOMAIN index
  BY <1>1, <1>2 DEF Accepted
<1>5. Ranked(index)
  BY <1>1, <1>2 DEF Accepted, Ranked
<1>6. DOMAIN index # {}
  BY <1>1 DEF Accepted
<1> QED BY <1>1, <1>3, <1>4, <1>5, <1>6 DEF Accepted

\* The edges the dashboard adds go to a higher role, too.
LEMMA CompletionIsLayered ==
  ASSUME NEW index, Topology(index), NEW core \in CoreIDs(index), Layered(index)
  PROVE  Ranked(CompleteMissingSiteUpstreams(index, core))
<1> PICK whole : whole = CompleteMissingSiteUpstreams(index, core)
  OBVIOUS
<1>1. /\ DOMAIN whole = DOMAIN index
      /\ \A s \in DOMAIN index :
           whole[s].up = index[s].up \/ whole[s].up = NamedUpstream(s, DOMAIN index, core)
  BY DEF CompleteMissingSiteUpstreams, Topology, Node
<1>2. Layered(whole)
  BY <1>1, NamedIsHigher DEF Layered, Topology
<1> QED BY <1>1, <1>2, LayeredIsRanked DEF Topology

-----------------------------------------------------------------------------
(***************************************************************************)
(* The script.                                                             *)
(***************************************************************************)

LEMMA ScriptIs ==
  /\ Len(Script) = 15 /\ DOMAIN Script = 1 .. 15
  /\ Script[1] = "device_health_history" /\ Script[2] = "device_health_current"
  /\ Script[3] = "device_temperature_readings" /\ Script[4] = "device_temperature_components"
  /\ Script[5] = "device_power_readings" /\ Script[6] = "device_power_components"
  /\ Script[7] = "interface_samples" /\ Script[8] = "metric_samples"
  /\ Script[9] = "alerts" /\ Script[10] = "interfaces"
  /\ Script[11] = "collector_status_current" /\ Script[12] = "collector_heartbeat_history"
  /\ Script[13] = "collectors" /\ Script[14] = "devices"
  /\ Script[15] = "sites"
BY DEF Script

LEMMA TablesFilled ==
  Filled \subseteq
    {"device_health_history", "device_health_current", "device_temperature_readings",
     "device_temperature_components", "device_power_readings",
     "device_power_components", "interface_samples", "metric_samples",
     "interfaces", "collector_status_current", "collector_heartbeat_history",
     "collectors", "devices"}
<1>1. \A k \in Kinds : k \in {"telemetry", "interface", "health", "heartbeat"}
  BY KindAssumption
<1> QED BY <1>1 DEF Filled, Fills

\* No table is emptied before the tables that point to it.
LEMMA ReferencesLast ==
  ASSUME NEW t \in Filled
  PROVE  \E j \in Statements :
           Script[j] = t /\ \A k \in 1 .. 15 : Script[k] \in References(t) => j < k
<1>1. ASSUME NEW j \in 1 .. 15, Script[j] = t PROVE j \in Statements
  BY <1>1, ScriptIs DEF Statements
<1>2. CASE t = "device_health_history"
  <2>1. References(t) = {"devices", "sites"}
    BY <1>2 DEF References
  <2>2. 1 \in 1 .. 15 /\ Script[1] = t
    BY <1>2, ScriptIs
  <2>3. \A k \in 1 .. 15 : Script[k] \in References(t) => 1 < k
    BY <2>1, ScriptIs
  <2> QED BY <1>1, <2>2, <2>3
<1>3. CASE t = "device_health_current"
  <2>1. References(t) = {"devices", "sites"}
    BY <1>3 DEF References
  <2>2. 2 \in 1 .. 15 /\ Script[2] = t
    BY <1>3, ScriptIs
  <2>3. \A k \in 1 .. 15 : Script[k] \in References(t) => 2 < k
    BY <2>1, ScriptIs
  <2> QED BY <1>1, <2>2, <2>3
<1>4. CASE t = "device_temperature_readings"
  <2>1. References(t) = {"devices"}
    BY <1>4 DEF References
  <2>2. 3 \in 1 .. 15 /\ Script[3] = t
    BY <1>4, ScriptIs
  <2>3. \A k \in 1 .. 15 : Script[k] \in References(t) => 3 < k
    BY <2>1, ScriptIs
  <2> QED BY <1>1, <2>2, <2>3
<1>5. CASE t = "device_temperature_components"
  <2>1. References(t) = {"devices"}
    BY <1>5 DEF References
  <2>2. 4 \in 1 .. 15 /\ Script[4] = t
    BY <1>5, ScriptIs
  <2>3. \A k \in 1 .. 15 : Script[k] \in References(t) => 4 < k
    BY <2>1, ScriptIs
  <2> QED BY <1>1, <2>2, <2>3
<1>6. CASE t = "device_power_readings"
  <2>1. References(t) = {"devices"}
    BY <1>6 DEF References
  <2>2. 5 \in 1 .. 15 /\ Script[5] = t
    BY <1>6, ScriptIs
  <2>3. \A k \in 1 .. 15 : Script[k] \in References(t) => 5 < k
    BY <2>1, ScriptIs
  <2> QED BY <1>1, <2>2, <2>3
<1>7. CASE t = "device_power_components"
  <2>1. References(t) = {"devices"}
    BY <1>7 DEF References
  <2>2. 6 \in 1 .. 15 /\ Script[6] = t
    BY <1>7, ScriptIs
  <2>3. \A k \in 1 .. 15 : Script[k] \in References(t) => 6 < k
    BY <2>1, ScriptIs
  <2> QED BY <1>1, <2>2, <2>3
<1>8. CASE t = "interface_samples"
  <2>1. References(t) = {"interfaces"}
    BY <1>8 DEF References
  <2>2. 7 \in 1 .. 15 /\ Script[7] = t
    BY <1>8, ScriptIs
  <2>3. \A k \in 1 .. 15 : Script[k] \in References(t) => 7 < k
    BY <2>1, ScriptIs
  <2> QED BY <1>1, <2>2, <2>3
<1>9. CASE t = "metric_samples"
  <2>1. References(t) = {"devices"}
    BY <1>9 DEF References
  <2>2. 8 \in 1 .. 15 /\ Script[8] = t
    BY <1>9, ScriptIs
  <2>3. \A k \in 1 .. 15 : Script[k] \in References(t) => 8 < k
    BY <2>1, ScriptIs
  <2> QED BY <1>1, <2>2, <2>3
<1>10. CASE t = "interfaces"
  <2>1. References(t) = {"devices"}
    BY <1>10 DEF References
  <2>2. 10 \in 1 .. 15 /\ Script[10] = t
    BY <1>10, ScriptIs
  <2>3. \A k \in 1 .. 15 : Script[k] \in References(t) => 10 < k
    BY <2>1, ScriptIs
  <2> QED BY <1>1, <2>2, <2>3
<1>11. CASE t = "collector_status_current"
  <2>1. References(t) = {"collectors", "sites"}
    BY <1>11 DEF References
  <2>2. 11 \in 1 .. 15 /\ Script[11] = t
    BY <1>11, ScriptIs
  <2>3. \A k \in 1 .. 15 : Script[k] \in References(t) => 11 < k
    BY <2>1, ScriptIs
  <2> QED BY <1>1, <2>2, <2>3
<1>12. CASE t = "collector_heartbeat_history"
  <2>1. References(t) = {"collectors", "sites"}
    BY <1>12 DEF References
  <2>2. 12 \in 1 .. 15 /\ Script[12] = t
    BY <1>12, ScriptIs
  <2>3. \A k \in 1 .. 15 : Script[k] \in References(t) => 12 < k
    BY <2>1, ScriptIs
  <2> QED BY <1>1, <2>2, <2>3
<1>13. CASE t = "collectors"
  <2>1. References(t) = {"sites"}
    BY <1>13 DEF References
  <2>2. 13 \in 1 .. 15 /\ Script[13] = t
    BY <1>13, ScriptIs
  <2>3. \A k \in 1 .. 15 : Script[k] \in References(t) => 13 < k
    BY <2>1, ScriptIs
  <2> QED BY <1>1, <2>2, <2>3
<1>14. CASE t = "devices"
  <2>1. References(t) = {"sites"}
    BY <1>14 DEF References
  <2>2. 14 \in 1 .. 15 /\ Script[14] = t
    BY <1>14, ScriptIs
  <2>3. \A k \in 1 .. 15 : Script[k] \in References(t) => 14 < k
    BY <2>1, ScriptIs
  <2> QED BY <1>1, <2>2, <2>3
<1> QED
  BY TablesFilled, <1>2, <1>3, <1>4, <1>5, <1>6, <1>7, <1>8, <1>9, <1>10,
     <1>11, <1>12, <1>13, <1>14


-----------------------------------------------------------------------------
(***************************************************************************)
(* A step of one command, seen by the other.                               *)
(***************************************************************************)

\* k is j, but not alone; k is j in another phase.
Beside(j, k) ==
  /\ k \in Job /\ k.alone = FALSE
  /\ k.pc = j.pc /\ k.site = j.site /\ k.listed = j.listed /\ k.specs = j.specs
  /\ k.step = j.step /\ k.left = j.left /\ k.late = j.late

Moved(j, pc, k) ==
  /\ k \in Job /\ k.pc = pc
  /\ k.alone = j.alone /\ k.site = j.site /\ k.listed = j.listed /\ k.specs = j.specs
  /\ k.step = j.step /\ k.left = j.left /\ k.late = j.late

LEMMA BesideIs == \A j \in Job : Beside(j, [j EXCEPT !.alone = FALSE])
BY DEF Beside, Job

LEMMA MovedIs == \A j \in Job : \A pc \in Phases : Moved(j, pc, [j EXCEPT !.pc = pc])
BY DEF Moved, Job

LEMMA BesideTyped ==
  ASSUME NEW p, NEW j, NEW k, JobTyped(p, j), Beside(j, k)
  PROVE  JobTyped(p, k)
BY DEF JobTyped, Beside

LEMMA BesideRight ==
  ASSUME NEW p, NEW j, NEW k, JobTyped(p, j), Beside(j, k),
         NEW saved, NEW services, NEW up, NEW index, NEW tabs, NEW lay,
         SweptOf(j, index, tabs), LayersOf(j, lay)
  PROVE  Right(p, k, saved, services, up, index, tabs, lay)
<1>1. JobTyped(p, k)
  BY BesideTyped
<1>2. SweptOf(k, index, tabs)
  BY DEF SweptOf, Beside, Undisturbed, TargetsOf
<1>3. LayersOf(k, lay)
  BY DEF LayersOf, Beside
<1>4. SyncOf(k, saved, index) /\ DeletionOf(k, saved, services, up, index)
  BY DEF Beside, SyncOf, DeletionOf
<1> QED BY <1>1, <1>2, <1>3, <1>4 DEF Right

\* What a step of p owes the other command and the invariant.
LEMMA AdvanceKeeps ==
  ASSUME IInv, NEW p \in Commands, NEW next, Advance(p, next),
         World(manifest', compose', running', rows', tables', layered'),
         Right(p, next, manifest', compose', running', rows', tables', layered'),
         \A q \in Commands \ {p} : SweptOf(job[q], rows', tables'),
         layered' => layered
  PROVE  IInv'
<1>1. DOMAIN job' = Commands /\ job'[p] = next
  BY DEF Advance
<1>2. ASSUME NEW q \in Commands \ {p}
      PROVE  Right(q, job'[q], manifest', compose', running', rows', tables', layered')
  <2>1. JobTyped(q, job[q]) /\ LayersOf(job[q], layered)
    BY DEF IInv, Right
  <2>2. LayersOf(job[q], layered')
    BY <2>1 DEF LayersOf
  <2>3. job'[q] = [job[q] EXCEPT !.alone = FALSE]
    BY DEF Advance
  <2>4. Beside(job[q], job'[q])
    BY <2>1, <2>3, BesideIs DEF JobTyped
  <2> QED BY <2>1, <2>2, <2>4, BesideRight
<1> QED BY <1>1, <1>2 DEF IInv

\* A step that changes no rows.
LEMMA QuietStep ==
  ASSUME IInv, NEW p \in Commands, NEW next, Advance(p, next), UNCHANGED <<rows, tables>>,
         World(manifest', compose', running', rows, tables, layered'),
         Right(p, next, manifest', compose', running', rows, tables, layered'),
         layered' => layered
  PROVE  IInv'
<1>1. \A q \in Commands \ {p} : SweptOf(job[q], rows', tables')
  BY DEF IInv, Right
<1> QED BY <1>1, AdvanceKeeps

-----------------------------------------------------------------------------
(***************************************************************************)
(* The steps that leave the rows alone.                                    *)
(***************************************************************************)

LEMMA WriteKeeps ==
  ASSUME IInv, NEW p \in Commands, WriteManifest(p)
  PROVE  IInv'
<1> PICK j : j = job[p]
  OBVIOUS
<1> PICK next : next = [j EXCEPT !.pc = "generate"]
  OBVIOUS
<1>1. /\ j.pc = "write" /\ Advance(p, next) /\ manifest' = j.specs
      /\ layered' = (layered /\ Layered(j.specs))
      /\ UNCHANGED <<compose, running, rows, tables>>
  BY DEF WriteManifest
<1>2. /\ JobTyped(p, j) /\ LayersOf(j, layered) /\ SyncOf(j, manifest, rows)
      /\ p = "cli" => DeletionOf(j, manifest, compose, running, rows)
      /\ World(manifest, compose, running, rows, tables, layered)
  BY DEF IInv, Right
<1>3. Moved(j, "generate", next)
  BY <1>2, MovedIs DEF JobTyped, Phases
<1>4. Accepted(j.specs)
  BY <1>1, <1>2 DEF JobTyped
<1>5. World(manifest', compose', running', rows, tables, layered')
  BY <1>1, <1>2, <1>4 DEF World
<1>6. JobTyped(p, next) /\ SweptOf(next, rows, tables) /\ LayersOf(next, layered')
  BY <1>2, <1>3, <1>4 DEF JobTyped, Moved, SweptOf, LayersOf
<1>7. SyncOf(next, manifest', rows)
  BY <1>1, <1>3 DEF SyncOf, Moved
<1>8. p = "cli" => DeletionOf(next, manifest', compose', running', rows)
  BY <1>1, <1>2, <1>3 DEF DeletionOf, Moved
<1>9. Right(p, next, manifest', compose', running', rows, tables, layered')
  BY <1>6, <1>7, <1>8 DEF Right
<1> QED BY <1>1, <1>5, <1>9, QuietStep

LEMMA GenerateKeeps ==
  ASSUME IInv, NEW p \in Commands, GenerateCompose(p)
  PROVE  IInv'
<1> PICK j : j = job[p]
  OBVIOUS
<1> PICK next : next = [j EXCEPT !.pc = "up"]
  OBVIOUS
<1>1. /\ j.pc = "generate" /\ Advance(p, next) /\ compose' = DOMAIN j.specs
      /\ UNCHANGED <<manifest, running, rows, tables, layered>>
  BY DEF GenerateCompose
<1>2. /\ JobTyped(p, j) /\ LayersOf(j, layered) /\ SyncOf(j, manifest, rows)
      /\ p = "cli" => DeletionOf(j, manifest, compose, running, rows)
      /\ World(manifest, compose, running, rows, tables, layered)
  BY DEF IInv, Right
<1>3. Moved(j, "up", next)
  BY <1>2, MovedIs DEF JobTyped, Phases
<1>4. Accepted(j.specs)
  BY <1>1, <1>2 DEF JobTyped
<1>5. World(manifest', compose', running', rows, tables, layered')
  BY <1>1, <1>2, <1>4 DEF World, Accepted, Topology
<1>6. JobTyped(p, next) /\ SweptOf(next, rows, tables) /\ LayersOf(next, layered')
  BY <1>2, <1>3, <1>4 DEF JobTyped, Moved, SweptOf, LayersOf
<1>7. SyncOf(next, manifest', rows)
  BY <1>1, <1>2, <1>3 DEF SyncOf, Moved
<1>8. p = "cli" => DeletionOf(next, manifest', compose', running', rows)
  BY <1>1, <1>2, <1>3 DEF DeletionOf, Moved
<1>9. Right(p, next, manifest', compose', running', rows, tables, layered')
  BY <1>6, <1>7, <1>8 DEF Right
<1> QED BY <1>1, <1>5, <1>9, QuietStep

LEMMA UpKeeps ==
  ASSUME IInv, NEW p \in Commands, ComposeUp(p)
  PROVE  IInv'
<1> PICK j : j = job[p]
  OBVIOUS
<1> PICK next : next = [j EXCEPT !.pc = "sync"]
  OBVIOUS
<1>1. /\ j.pc = "up" /\ Advance(p, next) /\ running' = compose
      /\ UNCHANGED <<manifest, compose, rows, tables, layered>>
  BY DEF ComposeUp, files
<1>2. /\ JobTyped(p, j) /\ LayersOf(j, layered) /\ SyncOf(j, manifest, rows)
      /\ p = "cli" => DeletionOf(j, manifest, compose, running, rows)
      /\ World(manifest, compose, running, rows, tables, layered)
  BY DEF IInv, Right
<1>3. Moved(j, "sync", next)
  BY <1>2, MovedIs DEF JobTyped, Phases
<1>4. World(manifest', compose', running', rows, tables, layered')
  BY <1>1, <1>2 DEF World
<1>5. JobTyped(p, next) /\ SweptOf(next, rows, tables) /\ LayersOf(next, layered')
  BY <1>1, <1>2, <1>3 DEF JobTyped, Moved, SweptOf, LayersOf
<1>6. SyncOf(next, manifest', rows)
  BY <1>1, <1>2, <1>3 DEF SyncOf, Moved
<1>7. p = "cli" => DeletionOf(next, manifest', compose', running', rows)
  BY <1>1, <1>2, <1>3 DEF DeletionOf, Moved
<1>8. Right(p, next, manifest', compose', running', rows, tables, layered')
  BY <1>5, <1>6, <1>7 DEF Right
<1> QED BY <1>1, <1>4, <1>8, QuietStep

LEMMA UpAgainKeeps ==
  ASSUME IInv, ComposeUpAgain
  PROVE  IInv'
<1> PICK j : j = job["wiz"]
  OBVIOUS
<1> PICK next : next = [j EXCEPT !.pc = "done"]
  OBVIOUS
<1>1. /\ j.pc = "again" /\ Advance("wiz", next) /\ running' = compose
      /\ UNCHANGED <<manifest, compose, rows, tables, layered>>
      /\ "wiz" \in Commands
  BY DEF ComposeUpAgain, files, Commands
<1>2. /\ JobTyped("wiz", j) /\ LayersOf(j, layered) /\ SyncOf(j, manifest, rows)
      /\ World(manifest, compose, running, rows, tables, layered)
  BY <1>1 DEF IInv, Right
<1>3. Moved(j, "done", next)
  BY <1>2, MovedIs DEF JobTyped, Phases
<1>4. World(manifest', compose', running', rows, tables, layered')
  BY <1>1, <1>2 DEF World
<1>5. JobTyped("wiz", next) /\ SweptOf(next, rows, tables) /\ LayersOf(next, layered')
  BY <1>1, <1>2, <1>3 DEF JobTyped, Moved, SweptOf, LayersOf
<1>6. SyncOf(next, manifest', rows)
  BY <1>1, <1>2, <1>3 DEF SyncOf, Moved
<1>7. Right("wiz", next, manifest', compose', running', rows, tables, layered')
  BY <1>5, <1>6 DEF Right
<1> QED BY <1>1, <1>4, <1>7, QuietStep

LEMMA FailureKeeps ==
  ASSUME IInv, NEW p \in Commands, Active(p), Advance(p, [job[p] EXCEPT !.pc = "failed"]),
         UNCHANGED <<manifest, compose, running, rows, tables, layered>>
  PROVE  IInv'
<1> PICK j : j = job[p]
  OBVIOUS
<1> PICK next : next = [j EXCEPT !.pc = "failed"]
  OBVIOUS
<1>1. /\ j.pc \notin {"idle", "done", "failed"} /\ Advance(p, next)
  BY DEF Active
<1>2. /\ JobTyped(p, j) /\ LayersOf(j, layered) /\ SyncOf(j, manifest, rows)
      /\ p = "cli" => DeletionOf(j, manifest, compose, running, rows)
      /\ World(manifest, compose, running, rows, tables, layered)
  BY DEF IInv, Right
<1>3. Moved(j, "failed", next)
  BY <1>2, MovedIs DEF JobTyped, Phases
<1>4. World(manifest', compose', running', rows, tables, layered')
  BY <1>2
<1>5. JobTyped(p, next) /\ SweptOf(next, rows, tables) /\ LayersOf(next, layered')
  BY <1>2, <1>3 DEF JobTyped, Moved, SweptOf, LayersOf
<1>6. SyncOf(next, manifest', rows)
  BY <1>3 DEF SyncOf, Moved
<1>7. p = "cli" => DeletionOf(next, manifest', compose', running', rows)
  BY <1>1, <1>2, <1>3 DEF DeletionOf, Moved
<1>8. Right(p, next, manifest', compose', running', rows, tables, layered')
  BY <1>5, <1>6, <1>7 DEF Right
<1> QED BY <1>1, <1>4, <1>8, QuietStep

LEMMA StopKeeps ==
  ASSUME IInv, StopCollector
  PROVE  IInv'
<1> PICK j : j = job["cli"]
  OBVIOUS
<1> PICK next : next = [j EXCEPT !.pc = "sql", !.step = 0, !.late = j.late \ {"delete"}]
  OBVIOUS
<1>1. /\ j.pc = "confirm" /\ Advance("cli", next)
      /\ running' = running \ {j.site} \/ running' = running
      /\ UNCHANGED <<manifest, compose, rows, tables, layered>>
      /\ "cli" \in Commands
  BY DEF StopCollector, files, Commands
<1>2. /\ JobTyped("cli", j) /\ LayersOf(j, layered) /\ SyncOf(j, manifest, rows)
      /\ DeletionOf(j, manifest, compose, running, rows)
      /\ World(manifest, compose, running, rows, tables, layered)
  BY <1>1 DEF IInv, Right
<1>3. /\ next \in Job /\ next.pc = "sql" /\ next.step = 0
      /\ next.alone = j.alone /\ next.site = j.site /\ next.listed = j.listed
      /\ next.specs = j.specs /\ next.left = j.left
  <2>1. j \in Job /\ "sql" \in Phases /\ 0 \in 0 .. 14
    BY <1>2 DEF JobTyped, Phases
  <2>2. j.late \ {"delete"} \in SUBSET {"delete", "prune"}
    BY <2>1 DEF Job
  <2> QED BY <2>1, <2>2 DEF Job
<1>4. World(manifest', compose', running', rows, tables, layered')
  BY <1>1, <1>2 DEF World
<1>5. JobTyped("cli", next) /\ LayersOf(next, layered')
  BY <1>1, <1>2, <1>3 DEF JobTyped, LayersOf
<1>6. SweptOf(next, rows, tables)
  BY <1>3, ScriptIs DEF SweptOf, Statements
<1>7. SyncOf(next, manifest', rows)
  BY <1>1, <1>2, <1>3 DEF SyncOf
<1>8. DeletionOf(next, manifest', compose', running', rows)
  BY <1>1, <1>2, <1>3 DEF DeletionOf
<1>9. Right("cli", next, manifest', compose', running', rows, tables, layered')
  BY <1>5, <1>6, <1>7, <1>8 DEF Right
<1> QED BY <1>1, <1>4, <1>9, QuietStep

LEMMA LoadKeeps ==
  ASSUME IInv, NEW p \in Commands, LoadManifest(p)
  PROVE  IInv'
<1> PICK j : j = job[p]
  OBVIOUS
<1> PICK next : next = [j EXCEPT !.pc = "upsert", !.specs = manifest,
                          !.left = DOMAIN manifest, !.step = 0, !.late = j.late \ {"prune"}]
  OBVIOUS
<1>1. /\ j.pc = "sync" /\ Advance(p, next)
      /\ UNCHANGED <<manifest, compose, running, rows, tables, layered>>
  BY DEF LoadManifest, files
<1>2. /\ JobTyped(p, j) /\ LayersOf(j, layered) /\ SyncOf(j, manifest, rows)
      /\ p = "cli" => DeletionOf(j, manifest, compose, running, rows)
      /\ World(manifest, compose, running, rows, tables, layered)
  BY DEF IInv, Right
<1>3. manifest \in Specs /\ Accepted(manifest) /\ DOMAIN manifest \subseteq Sites
  <2>1. DOMAIN manifest \in SUBSET Sites /\ manifest \in [DOMAIN manifest -> Node]
    BY <1>2 DEF World, Accepted, Topology
  <2> QED BY <1>2, <2>1 DEF Specs, World
<1>4. /\ next \in Job /\ next.pc = "upsert" /\ next.step = 0 /\ next.specs = manifest
      /\ next.alone = j.alone /\ next.site = j.site /\ next.listed = j.listed
      /\ next.left = DOMAIN manifest /\ next.late = j.late \ {"prune"}
  <2>1. j \in Job /\ "upsert" \in Phases /\ 0 \in 0 .. 14 /\ DOMAIN manifest \in SUBSET Sites
    BY <1>2, <1>3 DEF JobTyped, Phases
  <2>2. j.late \ {"prune"} \in SUBSET {"delete", "prune"}
    BY <2>1 DEF Job
  <2> QED BY <1>3, <2>1, <2>2 DEF Job
<1>5. JobTyped(p, next)
  BY <1>1, <1>2, <1>3, <1>4 DEF JobTyped
<1>6. SweptOf(next, rows, tables) /\ LayersOf(next, layered)
  BY <1>2, <1>4 DEF SweptOf, LayersOf, World
<1>7. SyncOf(next, manifest, rows)
  BY <1>4 DEF SyncOf
<1>8. p = "cli" => DeletionOf(next, manifest, compose, running, rows)
  <2> SUFFICES ASSUME p = "cli", j.alone, j.listed
               PROVE  DeletionOf(next, manifest, compose, running, rows)
    BY <1>4 DEF DeletionOf
  <2>1. manifest = j.specs
    BY <1>1, <1>2 DEF SyncOf
  <2>2. "delete" \notin next.late => "delete" \notin j.late
    BY <1>4
  <2> QED BY <1>1, <1>2, <1>4, <2>1, <2>2 DEF DeletionOf
<1>9. Right(p, next, manifest, compose, running, rows, tables, layered)
  BY <1>5, <1>6, <1>7, <1>8 DEF Right
<1> QED BY <1>1, <1>2, <1>9, QuietStep

LEMMA IdleIs ==
  /\ Idle \in Job /\ Idle.pc = "idle" /\ Idle.site = NoSite /\ Idle.listed = FALSE
  /\ Idle.specs = BuildSiteSpecs({}) /\ Idle.step = 0 /\ Idle.left = {}
  /\ Idle.alone = TRUE /\ Idle.late = {}
<1>1. BuildSiteSpecs({}) \in Specs
  <2>1. BuildSiteSpecs({}) \in [{} -> Node]
    BY DEF BuildSiteSpecs
  <2> QED BY <2>1 DEF Specs
<1> HIDE DEF BuildSiteSpecs
<1> QED BY <1>1 DEF Idle, Job, Phases

LEMMA AcceptedIsSpecs ==
  \A index : Topology(index) => index \in Specs
<1> SUFFICES ASSUME NEW index, Topology(index) PROVE index \in Specs
  OBVIOUS
<1>1. DOMAIN index \in SUBSET Sites /\ index \in [DOMAIN index -> Node]
  BY DEF Topology
<1> QED BY <1>1 DEF Specs

LEMMA EnterSitesKeeps ==
  ASSUME IInv, NEW names \in SiteLists, EnterSites(names)
  PROVE  IInv'
<1>1. names \in SUBSET Sites /\ names # {}
  BY KindAssumption
<1>2. PICK core \in CoreIDs(BuildSiteSpecs(names)) :
        Advance("wiz", [Idle EXCEPT !.pc = "topology", !.alone = ~Active("cli"),
                          !.specs = SuggestSiteTopology(BuildSiteSpecs(names), core)])
  BY DEF EnterSites
<1> PICK specs : specs = SuggestSiteTopology(BuildSiteSpecs(names), core)
  OBVIOUS
<1> PICK alone : alone = ~Active("cli")
  OBVIOUS
<1> PICK next : next = [Idle EXCEPT !.pc = "topology", !.alone = alone, !.specs = specs]
  OBVIOUS
<1>3. /\ Advance("wiz", next) /\ "wiz" \in Commands
      /\ UNCHANGED <<manifest, compose, running, rows, tables, layered>>
  BY <1>2 DEF EnterSites, files, Commands
<1>4. Suggested(specs) /\ specs \in Specs
  BY <1>1, SuggestionPasses, AcceptedIsSpecs DEF Suggested
<1>5. /\ next \in Job /\ next.pc = "topology" /\ next.specs = specs
      /\ next.site = NoSite /\ next.listed = FALSE
  <2>1. alone \in BOOLEAN
    BY Zenon
  <2> QED BY <1>4, <2>1, IdleIs DEF Job, Phases
<1>6. JobTyped("wiz", next)
  BY <1>4, <1>5 DEF JobTyped
<1>7. SweptOf(next, rows, tables) /\ LayersOf(next, layered) /\ SyncOf(next, manifest, rows)
  BY <1>5 DEF SweptOf, LayersOf, SyncOf
<1>8. Right("wiz", next, manifest, compose, running, rows, tables, layered)
  BY <1>6, <1>7 DEF Right
<1>9. World(manifest, compose, running, rows, tables, layered)
  BY DEF IInv
<1> QED BY <1>3, <1>8, <1>9, QuietStep

LEMMA EnterTopologyKeeps ==
  ASSUME IInv, NEW typed, EnterTopology(typed)
  PROVE  IInv'
<1> PICK j : j = job["wiz"]
  OBVIOUS
<1> PICK specs : specs = ApplyUpstreamSiteIDs(j.specs, typed)
  OBVIOUS
<1> PICK next : next = [j EXCEPT !.pc = "write", !.specs = specs]
  OBVIOUS
<1>1. /\ j.pc = "topology" /\ Advance("wiz", next) /\ "wiz" \in Commands
      /\ ValidateSiteTopology(ApplyUpstreamSiteIDs(j.specs, typed))
      /\ UNCHANGED <<manifest, compose, running, rows, tables, layered>>
  BY DEF EnterTopology, files, Commands
<1>2. /\ JobTyped("wiz", j)
      /\ World(manifest, compose, running, rows, tables, layered)
  BY <1>1 DEF IInv, Right
<1>3. Accepted(specs) /\ specs \in Specs
  <2>1. Suggested(j.specs)
    BY <1>1, <1>2 DEF JobTyped
  <2>2. Accepted(specs)
    BY <1>1, <2>1, TypedIsAccepted
  <2> QED BY <2>2, AcceptedIsSpecs DEF Accepted
<1>4. /\ next \in Job /\ next.pc = "write" /\ next.specs = specs
      /\ next.site = j.site /\ next.listed = j.listed
  <2>1. j \in Job /\ "write" \in Phases
    BY <1>2 DEF JobTyped, Phases
  <2> QED BY <1>3, <2>1 DEF Job
<1>5. JobTyped("wiz", next)
  BY <1>2, <1>3, <1>4 DEF JobTyped
<1>6. SweptOf(next, rows, tables) /\ LayersOf(next, layered) /\ SyncOf(next, manifest, rows)
  BY <1>4 DEF SweptOf, LayersOf, SyncOf
<1>7. Right("wiz", next, manifest, compose, running, rows, tables, layered)
  BY <1>5, <1>6 DEF Right
<1> QED BY <1>1, <1>2, <1>7, QuietStep

LEMMA StartDeleteKeeps ==
  ASSUME IInv, NEW s \in Sites, StartDelete(s)
  PROVE  IInv'
<1> PICK listed : listed = (s \in DOMAIN manifest)
  OBVIOUS
<1> PICK alone : alone = ~Active("wiz")
  OBVIOUS
<1> PICK specs : specs = IF s \in DOMAIN manifest
                           THEN RemoveSiteFromManifest(manifest, s) ELSE manifest
  OBVIOUS
<1> PICK next : next = [Idle EXCEPT !.pc = "confirm", !.site = s, !.listed = listed,
                          !.alone = alone, !.specs = specs]
  OBVIOUS
<1>1. /\ Advance("cli", next) /\ "cli" \in Commands
      /\ s \in DOMAIN manifest => Cardinality(DOMAIN manifest) > 1
      /\ UNCHANGED <<manifest, compose, running, rows, tables, layered>>
  BY DEF StartDelete, files, Commands
<1>2. World(manifest, compose, running, rows, tables, layered) /\ Accepted(manifest)
  BY DEF IInv, World
<1>3. /\ Accepted(specs) /\ s \notin DOMAIN specs /\ specs \in Specs
      /\ s \notin DOMAIN manifest => specs = manifest
  <2>1. CASE s \in DOMAIN manifest
    <3>1. DOMAIN manifest # {s}
      <4>1. Cardinality({s}) = 1
        BY FS_Singleton
      <4> QED BY <1>1, <2>1, <4>1
    <3>2. Accepted(specs) /\ s \notin DOMAIN specs
      BY <1>2, <2>1, <3>1, RemovalIsAccepted
    <3> QED BY <2>1, <3>2, AcceptedIsSpecs DEF Accepted
  <2>2. CASE s \notin DOMAIN manifest
    BY <1>2, <2>2, AcceptedIsSpecs DEF Accepted
  <2> QED BY <2>1, <2>2
<1>4. /\ next \in Job /\ next.pc = "confirm" /\ next.specs = specs
      /\ next.site = s /\ next.listed = listed
  <2>1. alone \in BOOLEAN
    BY Zenon
  <2>2. listed \in BOOLEAN
    BY SMT
  <2> QED BY <1>3, <2>1, <2>2, IdleIs, ZenonT(30) DEF Job, Phases
<1>5. JobTyped("cli", next)
  BY <1>3, <1>4 DEF JobTyped
<1>6. SweptOf(next, rows, tables) /\ LayersOf(next, layered)
  BY <1>4 DEF SweptOf, LayersOf
<1>7. SyncOf(next, manifest, rows)
  BY <1>3, <1>4 DEF SyncOf
<1>8. DeletionOf(next, manifest, compose, running, rows)
  BY <1>3, <1>4 DEF DeletionOf
<1>9. Right("cli", next, manifest, compose, running, rows, tables, layered)
  BY <1>5, <1>6, <1>7, <1>8 DEF Right
<1> QED BY <1>1, <1>2, <1>9, QuietStep

-----------------------------------------------------------------------------
(***************************************************************************)
(* The steps that change the rows.                                         *)
(***************************************************************************)

\* A site without a row has no other rows.
LEMMA NoRowNoTables ==
  ASSUME NEW tabs, NEW index, KeysHold(tabs, index), NEW s \in Sites \ DOMAIN index
  PROVE  tabs[s] = {}
<1>1. \A t \in tabs[s] : t \in Filled /\ References(t) \subseteq tabs[s]
  BY DEF KeysHold
<1>2. "sites" \notin tabs[s]
  BY <1>1, TablesFilled
<1>3. "devices" \notin tabs[s] /\ "collectors" \notin tabs[s]
  <2>1. References("devices") = {"sites"} /\ References("collectors") = {"sites"}
    BY DEF References
  <2> QED BY <1>1, <1>2, <2>1
<1>4. \A t \in {"device_health_history", "device_health_current",
         "device_temperature_readings", "device_temperature_components",
         "device_power_readings", "device_power_components", "metric_samples",
         "interfaces"} : t \notin tabs[s]
  <2>1. ASSUME NEW t \in {"device_health_history", "device_health_current",
           "device_temperature_readings", "device_temperature_components",
           "device_power_readings", "device_power_components", "metric_samples",
           "interfaces"}
        PROVE  "devices" \in References(t)
    BY DEF References
  <2> QED BY <1>1, <1>3, <2>1
<1>5. "interface_samples" \notin tabs[s]
  <2>1. References("interface_samples") = {"interfaces"}
    BY DEF References
  <2> QED BY <1>1, <1>4, <2>1
<1>6. "collector_status_current" \notin tabs[s] /\ "collector_heartbeat_history" \notin tabs[s]
  <2>1. /\ References("collector_status_current") = {"collectors", "sites"}
        /\ References("collector_heartbeat_history") = {"collectors", "sites"}
    BY DEF References
  <2> QED BY <1>1, <1>3, <2>1
<1>7. ASSUME NEW t \in tabs[s] PROVE FALSE
  <2>1. t \in Filled
    BY <1>1
  <2> QED BY <1>3, <1>4, <1>5, <1>6, <2>1, TablesFilled
<1> QED BY <1>7

\* A new row disturbs no script.
LEMMA RowAddedSwept ==
  ASSUME NEW j, NEW tabs, NEW index, NEW later, NEW s \in Sites,
         KeysHold(tabs, index), SweptOf(j, index, tabs),
         DOMAIN later = DOMAIN index \cup {s}
  PROVE  SweptOf(j, later, tabs)
<1>1. \A x \in TargetsOf(j, later) : x \in TargetsOf(j, index) \/ tabs[x] = {}
  BY NoRowNoTables DEF TargetsOf
<1> QED BY <1>1 DEF SweptOf

LEMMA UpsertKeeps ==
  ASSUME IInv, NEW p \in Commands, NEW s \in Sites, UpsertSite(p, s)
  PROVE  IInv'
<1> PICK j : j = job[p]
  OBVIOUS
<1> PICK left : left = j.left \ {s}
  OBVIOUS
<1> PICK pc : pc = IF j.left = {s} THEN "prune" ELSE "upsert"
  OBVIOUS
<1> PICK next : next = [j EXCEPT !.left = left, !.pc = pc]
  OBVIOUS
<1> PICK index : index = rows'
  OBVIOUS
<1>1. /\ j.pc = "upsert" /\ s \in j.left
      /\ index = [x \in DOMAIN rows \cup {s} |-> IF x = s THEN j.specs[s] ELSE rows[x]]
      /\ UNCHANGED <<manifest, compose, running, tables, layered>>
  BY DEF UpsertSite, files
<1>2. /\ JobTyped(p, j) /\ LayersOf(j, layered) /\ SyncOf(j, manifest, rows)
      /\ p = "cli" => DeletionOf(j, manifest, compose, running, rows)
      /\ World(manifest, compose, running, rows, tables, layered)
  BY DEF IInv, Right
<1>3. j \in Job /\ Accepted(j.specs) /\ s \in DOMAIN j.specs /\ j.step = 0
  BY <1>1, <1>2 DEF JobTyped
<1>4. Advance(p, next)
  BY <1>1, <1>3 DEF UpsertSite
<1>5. /\ next \in Job /\ next.pc = pc /\ next.left = left
      /\ next.site = j.site /\ next.listed = j.listed /\ next.specs = j.specs
      /\ next.step = j.step /\ next.alone = j.alone /\ next.late = j.late
  <2>1. pc \in Phases /\ left \in SUBSET Sites
    BY <1>3 DEF Job, Phases
  <2> QED BY <1>3, <2>1 DEF Job
<1>6. /\ DOMAIN index = DOMAIN rows \cup {s} /\ index[s] = j.specs[s]
      /\ \A x \in DOMAIN rows \ {s} : index[x] = rows[x]
  BY <1>1
<1>7. World(manifest', compose', running', index, tables', layered')
  <2>1. index \in [DOMAIN index -> Node]
    <3>1. j.specs[s] \in Node /\ \A x \in DOMAIN rows : rows[x] \in Node
      BY <1>2, <1>3 DEF World, Accepted, Topology
    <3> QED BY <1>1, <3>1
  <2>2. Topology(index)
    BY <1>2, <1>6, <2>1 DEF World, Topology
  <2>3. HubsAreCores(index)
    BY <1>2, <1>3, <1>6 DEF World, Accepted, HubsAreCores
  <2>4. KeysHold(tables, index)
    BY <1>2, <1>6 DEF World, KeysHold
  <2>5. layered => Layered(index)
    <3> SUFFICES ASSUME layered PROVE Layered(index)
      OBVIOUS
    <3>1. Layered(rows) /\ Layered(j.specs)
      BY <1>1, <1>2 DEF World, LayersOf
    <3> QED BY <1>3, <1>6, <3>1 DEF Layered
  <2> QED BY <1>1, <1>2, <2>2, <2>3, <2>4, <2>5 DEF World
<1>8. JobTyped(p, next) /\ LayersOf(next, layered')
  BY <1>1, <1>2, <1>3, <1>5 DEF JobTyped, LayersOf
<1>9. SweptOf(next, index, tables')
  BY <1>3, <1>5, ScriptIs DEF SweptOf, Statements
<1>10. SyncOf(next, manifest', index)
  <2> SUFFICES ASSUME j.alone PROVE SyncOf(next, manifest', index)
    BY <1>5 DEF SyncOf
  <2>1. /\ manifest = j.specs
        /\ \A x \in DOMAIN j.specs \ j.left : x \in DOMAIN rows /\ rows[x] = j.specs[x]
    BY <1>1, <1>2 DEF SyncOf
  <2>2. \A x \in DOMAIN j.specs \ left : x \in DOMAIN index /\ index[x] = j.specs[x]
    BY <1>6, <2>1
  <2>3. pc = "prune" => left = {}
    OBVIOUS
  <2>4. pc \in {"upsert", "prune"}
    OBVIOUS
  <2> QED BY <1>1, <1>5, <2>1, <2>2, <2>3, <2>4 DEF SyncOf
<1>11. p = "cli" => DeletionOf(next, manifest', compose', running', index)
  <2>1. pc \in {"upsert", "prune"}
    OBVIOUS
  <2> QED BY <1>1, <1>2, <1>3, <1>5, <1>6, <2>1 DEF DeletionOf
<1>12. Right(p, next, manifest', compose', running', index, tables', layered')
  BY <1>8, <1>9, <1>10, <1>11 DEF Right
<1>13. ASSUME NEW q \in Commands \ {p} PROVE SweptOf(job[q], index, tables')
  <2>1. SweptOf(job[q], rows, tables) /\ KeysHold(tables, rows)
    BY DEF IInv, Right, World
  <2> QED BY <1>1, <1>6, <2>1, RowAddedSwept
<1> QED BY <1>1, <1>4, <1>7, <1>12, <1>13, AdvanceKeeps

LEMMA RunKeeps ==
  ASSUME IInv, NEW p \in Commands, RunStatement(p)
  PROVE  IInv'
<1> PICK j : j = job[p]
  OBVIOUS
<1>1. PICK i \in Following(j.step) :
        /\ DeleteRows(p, Script[i])
        /\ Advance(p, IF i < Len(Script)
                        THEN [j EXCEPT !.step = i]
                        ELSE [j EXCEPT !.step = 0, !.pc = AfterScript(p)])
  BY DEF RunStatement
<1>2. /\ j.pc \in {"sql", "prune"} /\ ~Blocked(p)
      /\ UNCHANGED <<manifest, compose, running, layered>>
  BY DEF RunStatement, files
<1>3. /\ JobTyped(p, j) /\ LayersOf(j, layered) /\ SyncOf(j, manifest, rows)
      /\ SweptOf(j, rows, tables)
      /\ p = "cli" => DeletionOf(j, manifest, compose, running, rows)
      /\ World(manifest, compose, running, rows, tables, layered)
  BY DEF IInv, Right
<1>4. /\ i \in 1 .. 15 /\ i \in Statements /\ j.step \in 0 .. 14 /\ i > j.step
      /\ \A k \in Statements : k > j.step => i <= k
      /\ j \in Job /\ Accepted(j.specs)
  BY <1>2, <1>3, ScriptIs DEF Following, Statements, JobTyped, Job
<1>5. Targets(p) = TargetsOf(j, rows) /\ Targets(p) \subseteq DOMAIN rows
  BY DEF Targets, TargetsOf, Deletes
<1>6. \A s \in Targets(p) : \A t \in tables[s] :
        Holds(s, Script[i]) => Script[i] \notin References(t)
  BY <1>1, <1>2 DEF Blocked
<1>7. CASE i < 15
  <2> PICK next : next = [j EXCEPT !.step = i]
    OBVIOUS
  <2>1. Advance(p, next)
    BY <1>1, <1>7, ScriptIs
  <2>2. /\ next \in Job /\ next.step = i /\ next.pc = j.pc /\ next.left = j.left
        /\ next.site = j.site /\ next.listed = j.listed /\ next.specs = j.specs
        /\ next.alone = j.alone /\ next.late = j.late
    <3>1. i \in 0 .. 14
      BY <1>4, <1>7
    <3> QED BY <1>4, <3>1 DEF Job
  <2>3. Script[i] # "sites"
    BY <1>4, <1>7, ScriptIs
  <2>4. /\ rows' = rows
        /\ tables' = [s \in Sites |-> IF s \in Targets(p) THEN tables[s] \ {Script[i]}
                                      ELSE tables[s]]
    BY <1>1, <2>3 DEF DeleteRows
  <2>5. \A s \in Sites : /\ s \in Targets(p) => tables'[s] = tables[s] \ {Script[i]}
                         /\ s \notin Targets(p) => tables'[s] = tables[s]
    BY <2>4
  <2>6. KeysHold(tables', rows)
    <3>1. KeysHold(tables, rows)
      BY <1>3 DEF World
    <3>2. tables' \in [Sites -> SUBSET Filled]
      BY <2>4, <3>1 DEF KeysHold
    <3>3. ASSUME NEW s \in Sites, NEW t \in tables'[s]
          PROVE  References(t) \subseteq tables'[s] \cup {x \in {"sites"} : s \in DOMAIN rows}
      <4>1. /\ t \in tables[s]
            /\ References(t) \subseteq tables[s] \cup {x \in {"sites"} : s \in DOMAIN rows}
        BY <2>5, <3>1, <3>3 DEF KeysHold
      <4>2. CASE s \notin Targets(p)
        BY <2>5, <4>1, <4>2
      <4>3. CASE s \in Targets(p)
        <5>1. Script[i] \notin References(t)
          BY <1>6, <2>3, <4>1, <4>3 DEF Holds
        <5> QED BY <2>5, <4>1, <4>3, <5>1
      <4> QED BY <4>2, <4>3
    <3> QED BY <3>2, <3>3 DEF KeysHold
  <2>7. World(manifest', compose', running', rows', tables', layered')
    BY <1>2, <1>3, <2>4, <2>6 DEF World
  <2>8. JobTyped(p, next) /\ LayersOf(next, layered') /\ SyncOf(next, manifest', rows')
    <3>1. JobTyped(p, next)
      BY <1>2, <1>3, <2>2 DEF JobTyped
    <3> QED BY <1>2, <1>3, <2>2, <2>4, <3>1 DEF LayersOf, SyncOf
  <2>9. p = "cli" => DeletionOf(next, manifest', compose', running', rows')
    BY <1>2, <1>3, <2>2, <2>4 DEF DeletionOf
  <2>10. SweptOf(next, rows', tables')
    <3> SUFFICES ASSUME Undisturbed(next), NEW s \in TargetsOf(next, rows),
                        NEW k \in Statements, k <= i
                 PROVE  Script[k] \notin tables'[s]
      BY <2>2, <2>4, SMTT(30) DEF SweptOf
    <3>1. Undisturbed(j) /\ s \in Targets(p) /\ s \in Sites
      BY <1>3, <1>5, <2>2 DEF Undisturbed, TargetsOf, World, Topology
    <3>2. k \in 1 .. 15
      BY ScriptIs DEF Statements
    <3>3. CASE k <= j.step
      <4>1. Script[k] \notin tables[s]
        BY <1>2, <1>3, <1>5, <3>1, <3>3 DEF SweptOf
      <4> QED BY <2>5, <3>1, <4>1
    <3>4. CASE ~(k <= j.step)
      <4>1. k = i
        BY <1>4, <3>2, <3>4
      <4> QED BY <2>5, <3>1, <4>1
    <3> QED BY <3>3, <3>4
  <2>11. Right(p, next, manifest', compose', running', rows', tables', layered')
    BY <2>8, <2>9, <2>10 DEF Right
  <2>12. ASSUME NEW q \in Commands \ {p} PROVE SweptOf(job[q], rows', tables')
    <3>1. SweptOf(job[q], rows, tables)
      BY DEF IInv, Right
    <3>2. TargetsOf(job[q], rows) \subseteq Sites
      BY <1>3 DEF TargetsOf, World, Topology
    <3> QED BY <2>4, <2>5, <3>1, <3>2 DEF SweptOf
  <2> QED BY <1>2, <2>1, <2>7, <2>11, <2>12, AdvanceKeeps
<1>8. CASE i = 15
  <2> PICK pc : pc = AfterScript(p)
    OBVIOUS
  <2> PICK next : next = [j EXCEPT !.step = 0, !.pc = pc]
    OBVIOUS
  <2> PICK index : index = rows'
    OBVIOUS
  <2>1. Advance(p, next)
    BY <1>1, <1>8, ScriptIs
  <2>2. /\ j.pc = "prune" => pc = IF p = "wiz" THEN "again" ELSE "done"
        /\ j.pc = "sql" => pc = IF j.listed THEN "write" ELSE "up"
    BY DEF AfterScript, Prunes
  <2>3. /\ next \in Job /\ next.step = 0 /\ next.pc = pc /\ next.left = j.left
        /\ next.site = j.site /\ next.listed = j.listed /\ next.specs = j.specs
        /\ next.alone = j.alone /\ next.late = j.late
    <3>1. pc \in Phases /\ 0 \in 0 .. 14
      BY <1>2, <2>2 DEF Phases
    <3> QED BY <1>4, <3>1 DEF Job
  <2>4. Script[i] = "sites"
    BY <1>8, ScriptIs
  <2>5. /\ index = [s \in DOMAIN rows \ Targets(p) |-> rows[s]] /\ tables' = tables
    BY <1>1, <2>4 DEF DeleteRows
  <2>6. DOMAIN index = DOMAIN rows \ Targets(p) /\ \A s \in DOMAIN index : index[s] = rows[s]
    BY <2>5
  <2>7. World(manifest', compose', running', index, tables', layered')
    <3>1. Topology(rows) /\ HubsAreCores(rows) /\ KeysHold(tables, rows)
      BY <1>3 DEF World
    <3>2. Topology(index) /\ HubsAreCores(index)
      BY <2>5, <2>6, <3>1 DEF Topology, HubsAreCores
    <3>3. KeysHold(tables, index)
      <4>1. ASSUME NEW s \in Sites, NEW t \in tables[s]
            PROVE  References(t) \subseteq tables[s] \cup {x \in {"sites"} : s \in DOMAIN index}
        <5>1. References(t) \subseteq tables[s] \cup {x \in {"sites"} : s \in DOMAIN rows}
          BY <3>1, <4>1 DEF KeysHold
        <5>2. CASE s \notin Targets(p)
          BY <2>6, <5>1, <5>2
        <5>3. CASE s \in Targets(p)
          <6>1. "sites" \notin References(t)
            BY <1>6, <2>4, <4>1, <5>3 DEF Holds
          <6> QED BY <5>1, <6>1
        <5> QED BY <5>2, <5>3
      <4> QED BY <3>1, <4>1 DEF KeysHold
    <3>4. layered => Layered(index)
      BY <1>3, <2>6 DEF World, Layered
    <3> QED BY <1>2, <1>3, <2>5, <3>2, <3>3, <3>4 DEF World
  <2>8. JobTyped(p, next)
    <3>1. pc \notin {"idle", "topology", "failed", "upsert", "prune", "confirm", "sql"}
      BY <1>2, <2>2
    <3>2. (p = "cli" => pc # "again") /\ (j.pc = "sql" => p # "wiz")
      BY <1>2, <1>3, <2>2 DEF JobTyped
    <3> QED BY <1>3, <1>4, <2>3, <3>1, <3>2 DEF JobTyped
  <2>9. SweptOf(next, index, tables') /\ LayersOf(next, layered')
    BY <1>2, <2>2, <2>3 DEF SweptOf, LayersOf
  <2>10. SyncOf(next, manifest', index)
    <3> SUFFICES ASSUME j.alone PROVE SyncOf(next, manifest', index)
      BY <2>3 DEF SyncOf
    <3>1. CASE j.pc = "prune"
      <4>1. /\ manifest = j.specs /\ DOMAIN manifest \subseteq DOMAIN rows
            /\ \A s \in DOMAIN manifest : rows[s] = manifest[s]
        BY <1>3, <3>1 DEF SyncOf
      <4>2. Targets(p) = DOMAIN rows \ DOMAIN manifest
        BY <1>5, <3>1, <4>1 DEF TargetsOf
      <4>3. DOMAIN index = DOMAIN manifest
        BY <2>6, <4>1, <4>2
      <4>4. manifest = [s \in DOMAIN manifest |-> manifest[s]]
        BY <1>3 DEF World, Accepted, Topology
      <4>5. index = manifest
        BY <2>5, <4>1, <4>2, <4>4
      <4> QED BY <1>2, <2>2, <2>3, <3>1, <4>1, <4>5 DEF SyncOf
    <3>2. CASE j.pc = "sql"
      <4>1. ~j.listed => manifest = j.specs
        BY <1>3, <3>2 DEF SyncOf
      <4> QED BY <1>2, <2>2, <2>3, <3>2, <4>1 DEF SyncOf
    <3> QED BY <1>2, <3>1, <3>2
  <2>11. p = "cli" => DeletionOf(next, manifest', compose', running', index)
    <3> SUFFICES ASSUME p = "cli", j.alone, j.listed
                 PROVE  DeletionOf(next, manifest', compose', running', index)
      BY <2>3 DEF DeletionOf
    <3>1. DeletionOf(j, manifest, compose, running, rows)
      BY <1>3
    <3>2. CASE j.pc = "prune"
      BY <1>2, <2>2, <2>3, <2>6, <3>1, <3>2 DEF DeletionOf
    <3>3. CASE j.pc = "sql"
      <4>1. j.site \notin DOMAIN index
        BY <1>5, <2>6, <3>3 DEF TargetsOf
      <4> QED BY <1>2, <2>2, <2>3, <3>1, <3>3, <4>1 DEF DeletionOf
    <3> QED BY <1>2, <3>2, <3>3
  <2>12. Right(p, next, manifest', compose', running', index, tables', layered')
    BY <2>8, <2>9, <2>10, <2>11 DEF Right
  <2>13. ASSUME NEW q \in Commands \ {p} PROVE SweptOf(job[q], index, tables')
    <3>1. SweptOf(job[q], rows, tables)
      BY DEF IInv, Right
    <3>2. TargetsOf(job[q], index) \subseteq TargetsOf(job[q], rows)
      BY <2>6 DEF TargetsOf
    <3> QED BY <2>5, <3>1, <3>2 DEF SweptOf
  <2> QED BY <1>2, <2>1, <2>7, <2>12, <2>13, AdvanceKeeps
<1> QED BY <1>4, <1>7, <1>8

\* A message: the row it needs is there, and it spoils no one's claim.
LEMMA FillsKeep ==
  ASSUME NEW kind \in Kinds
  PROVE  Fills(kind) \subseteq Filled /\ \A t \in Fills(kind) : References(t) \subseteq Fills(kind) \cup {"sites"}
<1>1. Fills(kind) \subseteq Filled
  BY DEF Filled
<1>2. kind \in {"telemetry", "interface", "health", "heartbeat"}
  BY KindAssumption
<1>3. CASE kind = "telemetry"
  BY <1>1, <1>3 DEF Fills, References
<1>4. CASE kind = "interface"
  BY <1>1, <1>4 DEF Fills, References
<1>5. CASE kind = "health"
  BY <1>1, <1>5 DEF Fills, References
<1>6. CASE kind = "heartbeat"
  BY <1>1, <1>6 DEF Fills, References
<1> QED BY <1>2, <1>3, <1>4, <1>5, <1>6

\* k is j after a message of site s.
Later(j, s, k) ==
  /\ k \in Job /\ j.late \subseteq k.late
  /\ s = j.site => "delete" \in k.late
  /\ s \notin DOMAIN j.specs => "prune" \in k.late
  /\ k.pc = j.pc /\ k.site = j.site /\ k.listed = j.listed /\ k.specs = j.specs
  /\ k.step = j.step /\ k.left = j.left /\ k.alone = j.alone

LEMMA PersistKeeps ==
  ASSUME IInv, NEW s \in Sites, NEW kind \in Kinds, Persist(s, kind)
  PROVE  IInv'
<1> PICK index : index = rows'
  OBVIOUS
<1> PICK tabs : tabs = tables'
  OBVIOUS
<1>1. /\ index = [x \in DOMAIN rows \cup {s} |-> IF x \in DOMAIN rows THEN rows[x] ELSE NoUpstream]
      /\ tabs = [tables EXCEPT ![s] = tables[s] \cup Fills(kind)]
      /\ UNCHANGED <<manifest, compose, running, layered>>
  BY DEF Persist, files
<1>2. World(manifest, compose, running, rows, tables, layered)
  BY DEF IInv
<1>3. /\ Topology(rows) /\ HubsAreCores(rows) /\ KeysHold(tables, rows)
      /\ DOMAIN rows \subseteq Sites
  BY <1>2 DEF World, Topology
<1>4. /\ DOMAIN index = DOMAIN rows \cup {s}
      /\ \A x \in DOMAIN rows : index[x] = rows[x]
      /\ s \notin DOMAIN rows => index[s] = NoUpstream
  BY <1>1
<1>5. \A x \in Sites : /\ x # s => tabs[x] = tables[x]
                       /\ x = s => tabs[x] = tables[x] \cup Fills(kind)
  BY <1>1, <1>3 DEF KeysHold
<1>6. World(manifest', compose', running', index, tabs, layered')
  <2>1. NoUpstream \in Node /\ NoUpstream.up = {} /\ NoUpstream.hub = FALSE
    BY DEF NoUpstream, Node
  <2>2. index \in [DOMAIN index -> Node]
    BY <1>1, <1>3, <2>1 DEF Topology
  <2>3. Topology(index)
    BY <1>3, <1>4, <2>2 DEF Topology
  <2>4. HubsAreCores(index)
    BY <1>3, <1>4, <2>1 DEF HubsAreCores
  <2>5. KeysHold(tabs, index)
    <3>1. tabs \in [Sites -> SUBSET Filled]
      BY <1>1, <1>3, FillsKeep DEF KeysHold
    <3>2. ASSUME NEW x \in Sites, NEW t \in tabs[x]
          PROVE  References(t) \subseteq tabs[x] \cup {y \in {"sites"} : x \in DOMAIN index}
      <4>1. CASE t \in tables[x]
        <5>1. References(t) \subseteq tables[x] \cup {y \in {"sites"} : x \in DOMAIN rows}
          BY <1>3, <4>1 DEF KeysHold
        <5> QED BY <1>4, <1>5, <5>1
      <4>2. CASE t \notin tables[x]
        <5>1. x = s /\ t \in Fills(kind)
          BY <1>5, <3>2, <4>2
        <5>2. References(t) \subseteq Fills(kind) \cup {"sites"}
          BY <5>1, FillsKeep
        <5> QED BY <1>4, <1>5, <5>1, <5>2
      <4> QED BY <4>1, <4>2
    <3> QED BY <3>1, <3>2 DEF KeysHold
  <2>6. layered => Layered(index)
    BY <1>2, <1>4, <2>1 DEF World, Layered
  <2> QED BY <1>1, <1>2, <2>3, <2>4, <2>5, <2>6 DEF World
<1>7. ASSUME NEW p \in Commands
      PROVE  Right(p, job'[p], manifest', compose', running', index, tabs, layered')
  <2> PICK j, k : j = job[p] /\ k = job'[p]
    OBVIOUS
  <2>1. /\ JobTyped(p, j) /\ LayersOf(j, layered) /\ SyncOf(j, manifest, rows)
        /\ SweptOf(j, rows, tables)
        /\ p = "cli" => DeletionOf(j, manifest, compose, running, rows)
    BY DEF IInv, Right
  <2>2. Later(j, s, k)
    <3> PICK late : late = j.late \cup (IF s = j.site THEN {"delete"} ELSE {})
                                  \cup (IF s \notin DOMAIN j.specs THEN {"prune"} ELSE {})
      OBVIOUS
    <3>1. k = [j EXCEPT !.late = late]
      BY DEF Persist
    <3>2. j \in Job
      BY <2>1 DEF JobTyped
    <3>3. late \in SUBSET {"delete", "prune"}
      BY <3>2 DEF Job
    <3>4. /\ k \in Job /\ k.late = late
          /\ k.pc = j.pc /\ k.site = j.site /\ k.listed = j.listed /\ k.specs = j.specs
          /\ k.step = j.step /\ k.left = j.left /\ k.alone = j.alone
      BY <3>1, <3>2, <3>3 DEF Job
    <3> QED BY <3>4 DEF Later
  <2>3. JobTyped(p, k) /\ LayersOf(k, layered')
    BY <1>1, <2>1, <2>2 DEF JobTyped, LayersOf, Later
  <2>4. SweptOf(k, index, tabs)
    <3> SUFFICES ASSUME k.pc \in {"sql", "prune"}, Undisturbed(k), NEW x \in TargetsOf(k, index),
                        NEW i \in Statements, i <= k.step
                 PROVE  Script[i] \notin tabs[x]
      BY DEF SweptOf
    <3>1. x # s /\ x \in TargetsOf(j, rows) /\ x \in Sites /\ Undisturbed(j)
      BY <1>3, <1>4, <2>2 DEF Later, Undisturbed, TargetsOf
    <3> QED BY <1>5, <2>1, <2>2, <3>1 DEF SweptOf, Later
  <2>5. SyncOf(k, manifest', index)
    <3> SUFFICES ASSUME j.alone PROVE SyncOf(k, manifest', index)
      BY <2>2 DEF SyncOf, Later
    <3>1. /\ k.pc = "upsert" =>
               \A x \in DOMAIN k.specs \ k.left : x \in DOMAIN index /\ index[x] = k.specs[x]
          /\ k.pc = "prune" =>
               \A x \in DOMAIN k.specs : x \in DOMAIN index /\ index[x] = k.specs[x]
      BY <1>4, <2>1, <2>2 DEF SyncOf, Later
    <3>2. ASSUME k.pc \in {"again", "done"}, "prune" \notin k.late PROVE index = manifest
      <4>1. manifest = j.specs /\ rows = manifest /\ s \in DOMAIN rows
        BY <2>1, <2>2, <3>2 DEF SyncOf, Later
      <4>2. rows = [x \in DOMAIN rows |-> rows[x]]
        BY <1>3 DEF Topology
      <4>3. index = rows
        BY <1>1, <4>1, <4>2
      <4> QED BY <4>1, <4>3
    <3> QED BY <1>1, <2>1, <2>2, <3>1, <3>2 DEF SyncOf, Later
  <2>6. p = "cli" => DeletionOf(k, manifest', compose', running', index)
    BY <1>1, <1>4, <2>1, <2>2 DEF DeletionOf, Later
  <2> QED BY <2>3, <2>4, <2>5, <2>6 DEF Right
<1>8. DOMAIN job' = Commands
  BY DEF Persist
<1> QED BY <1>6, <1>7, <1>8 DEF IInv

-----------------------------------------------------------------------------
(***************************************************************************)
(* The invariant holds.                                                    *)
(***************************************************************************)

LEMMA InitHolds == Init => IInv
<1> SUFFICES ASSUME Init PROVE IInv
  OBVIOUS
<1>1. PICK core \in CoreIDs(BuildSiteSpecs(Sites)) :
        manifest = SuggestSiteTopology(BuildSiteSpecs(Sites), core)
  BY DEF Init
<1>2. /\ compose = Sites /\ running = Sites /\ rows = manifest
      /\ tables = [s \in Sites |-> Filled] /\ job = [p \in Commands |-> Idle]
  BY DEF Init
<1>3. Suggested(manifest) /\ Layered(manifest)
  BY <1>1, SuggestionPasses, SiteAssumption
<1>4. Accepted(manifest) /\ Topology(manifest) /\ HubsAreCores(manifest)
  BY <1>3, PassedIsAccepted DEF Accepted
<1>5. DOMAIN rows = Sites
  <2>1. DOMAIN BuildSiteSpecs(Sites) = Sites
    BY NamesOnly
  <2> QED BY <1>1, <1>2, <2>1 DEF SuggestSiteTopology
<1>6. KeysHold(tables, rows)
  <2>1. ASSUME NEW s \in Sites, NEW t \in tables[s]
        PROVE  References(t) \subseteq tables[s] \cup {x \in {"sites"} : s \in DOMAIN rows}
    <3>1. PICK kind \in Kinds : t \in Fills(kind)
      BY <1>2, <2>1 DEF Filled
    <3>2. References(t) \subseteq Filled \cup {"sites"}
      BY <3>1, FillsKeep
    <3> QED BY <1>2, <1>5, <3>2
  <2> QED BY <1>2, <2>1 DEF KeysHold
<1>7. World(manifest, compose, running, rows, tables, layered)
  BY <1>2, <1>3, <1>4, <1>6 DEF World
<1>8. ASSUME NEW p \in Commands
      PROVE  Right(p, job[p], manifest, compose, running, rows, tables, layered)
  <2>1. job[p] = Idle
    BY <1>2
  <2>2. JobTyped(p, Idle)
    BY IdleIs DEF JobTyped
  <2>3. /\ SweptOf(Idle, rows, tables) /\ LayersOf(Idle, layered)
        /\ SyncOf(Idle, manifest, rows) /\ DeletionOf(Idle, manifest, compose, running, rows)
    BY IdleIs DEF SweptOf, LayersOf, SyncOf, DeletionOf
  <2> QED BY <2>1, <2>2, <2>3 DEF Right
<1> QED BY <1>2, <1>7, <1>8 DEF IInv

LEMMA NextKeeps == IInv /\ [Next]_vars => IInv'
<1> SUFFICES ASSUME IInv, [Next]_vars PROVE IInv'
  OBVIOUS
<1>1. ASSUME NEW s \in Sites, NEW kind \in Kinds, Persist(s, kind) PROVE IInv'
  BY <1>1, PersistKeeps
<1>2. ASSUME NEW s \in Sites, StartDelete(s) PROVE IInv'
  BY <1>2, StartDeleteKeeps
<1>3. ASSUME StopCollector PROVE IInv'
  BY <1>3, StopKeeps
<1>4. ASSUME NEW names \in SiteLists, EnterSites(names) PROVE IInv'
  BY <1>4, EnterSitesKeeps
<1>5. ASSUME NEW typed \in Typed, EnterTopology(typed) PROVE IInv'
  BY <1>5, EnterTopologyKeeps
<1>6. ASSUME ComposeUpAgain PROVE IInv'
  BY <1>6, UpAgainKeeps
<1>7. ASSUME NEW p \in Commands, WriteManifest(p) PROVE IInv'
  BY <1>7, WriteKeeps
<1>8. ASSUME NEW p \in Commands, GenerateCompose(p) PROVE IInv'
  BY <1>8, GenerateKeeps
<1>9. ASSUME NEW p \in Commands, ComposeUp(p) PROVE IInv'
  BY <1>9, UpKeeps
<1>10. ASSUME NEW p \in Commands, LoadManifest(p) PROVE IInv'
  BY <1>10, LoadKeeps
<1>11. ASSUME NEW p \in Commands, NEW s \in Sites, UpsertSite(p, s) PROVE IInv'
  BY <1>11, UpsertKeeps
<1>12. ASSUME NEW p \in Commands, RunStatement(p) PROVE IInv'
  BY <1>12, RunKeeps
<1>13. ASSUME NEW p \in Commands, StatementFails(p) PROVE IInv'
  BY <1>13, FailureKeeps DEF StatementFails, Active, files
<1>14. ASSUME NEW p \in Commands, Interrupt(p) PROVE IInv'
  BY <1>14, FailureKeeps DEF Interrupt, files
<1>15. CASE UNCHANGED vars
  BY <1>15 DEF IInv, vars, files
<1>16. CASE Next
  BY <1>16, <1>1, <1>2, <1>3, <1>4, <1>5, <1>6, <1>7, <1>8, <1>9, <1>10, <1>11,
     <1>12, <1>13, <1>14 DEF Next
<1> QED BY <1>15, <1>16

\* The inductive invariant above holds in every reachable state: what is saved passes
\* the validation, every foreign key finds its row, and either command is where its
\* files, collectors and rows are (runSitesDelete, persistTopologyAndSites,
\* sync-site-topology.sh).
THEOREM Inductive == Spec => []IInv
BY InitHolds, NextKeeps, PTL DEF Spec

-----------------------------------------------------------------------------
(***************************************************************************)
(* The two files.                                                          *)
(***************************************************************************)

\* While the files are not torn, whoever is between them has written the one; the
\* site a deletion that runs alone is about is in no list it reads or writes.
AloneOf(jobs) ==
  \A p \in Commands : jobs[p].alone =>
    \A q \in Commands \ {p} : jobs[q].pc \in {"idle", "done", "failed"}

GoneOf(j, services, up) ==
  j.alone /\ j.pc \notin {"idle", "failed"} =>
    /\ j.site \notin DOMAIN j.specs
    /\ j.pc \in {"sync", "upsert", "prune", "done"} => (j.site \in up => j.site \in services)

FilesOf(jobs, saved, services) ==
  /\ \A p \in Commands : jobs[p].pc = "generate" => DOMAIN jobs[p].specs = DOMAIN saved
  /\ (\A p \in Commands : jobs[p].pc # "generate") => services = DOMAIN saved

FilesInv ==
  /\ torn \in BOOLEAN /\ AloneOf(job)
  /\ ~torn => FilesOf(job, manifest, compose)
  /\ GoneOf(job["cli"], compose, running)

\* What a step of p owes this invariant.
LEMMA FilesStep ==
  ASSUME IInv, FilesInv, NEW p \in Commands, NEW next, Advance(p, next), next \in Job,
         next.alone => job[p].alone \/ \A q \in Commands \ {p} : ~Active(q),
         torn' \in BOOLEAN,
         ~torn' => /\ \A q \in Commands \ {p} : job[q].pc = "generate"
                                               => DOMAIN job[q].specs = DOMAIN manifest'
                   /\ next.pc = "generate" => DOMAIN next.specs = DOMAIN manifest'
                   /\ next.pc # "generate" /\ (\A q \in Commands \ {p} : job[q].pc # "generate")
                        => compose' = DOMAIN manifest',
         p = "cli" => GoneOf(next, compose', running')
  PROVE  FilesInv'
<1>1. /\ job' = [q \in Commands |-> IF q = p THEN next ELSE [job[q] EXCEPT !.alone = FALSE]]
      /\ job'[p] = next
  BY DEF Advance
<1>2. ASSUME NEW q \in Commands \ {p}
      PROVE  /\ job'[q].alone = FALSE /\ job'[q].pc = job[q].pc /\ job'[q].specs = job[q].specs
  <2>1. job'[q] = [job[q] EXCEPT !.alone = FALSE] /\ JobTyped(q, job[q])
    BY <1>1 DEF IInv, Right
  <2> QED BY <2>1, BesideIs DEF JobTyped, Beside
<1>3. AloneOf(job)'
  <2> SUFFICES ASSUME NEW q \in Commands, job'[q].alone, NEW o \in Commands \ {q}
               PROVE  job'[o].pc \in {"idle", "done", "failed"}
    BY DEF AloneOf
  <2>1. q = p /\ next.alone
    BY <1>1, <1>2
  <2>2. job'[o].pc = job[o].pc
    BY <1>2, <2>1
  <2> QED BY <2>1, <2>2 DEF FilesInv, AloneOf, Active
<1>4. ~torn' => FilesOf(job', manifest', compose')
  BY <1>1, <1>2 DEF FilesOf
<1>5. GoneOf(job'["cli"], compose', running')
  <2>1. CASE p = "cli"
    BY <1>1, <2>1
  <2>2. CASE p # "cli"
    BY <1>2, <2>2 DEF GoneOf, Commands
  <2> QED BY <2>1, <2>2
<1> QED BY <1>3, <1>4, <1>5 DEF FilesInv

\* A step that touches neither file, of a command that is not between them.
LEMMA FilesQuiet ==
  ASSUME IInv, FilesInv, NEW p \in Commands, NEW next, Advance(p, next), next \in Job,
         next.alone => job[p].alone \/ \A q \in Commands \ {p} : ~Active(q),
         UNCHANGED files, job[p].pc # "generate", next.pc # "generate",
         p = "cli" => GoneOf(next, compose, running')
  PROVE  FilesInv'
<1>1. UNCHANGED <<manifest, compose, torn>>
  BY DEF files
<1>2. ~torn => FilesOf(job, manifest, compose)
  BY DEF FilesInv
<1>3. (\A q \in Commands \ {p} : job[q].pc # "generate") => \A q \in Commands : job[q].pc # "generate"
  OBVIOUS
<1>4. torn' \in BOOLEAN
  BY <1>1 DEF FilesInv
<1>5. ~torn => /\ \A q \in Commands \ {p} : job[q].pc = "generate"
                                        => DOMAIN job[q].specs = DOMAIN manifest
               /\ (\A q \in Commands \ {p} : job[q].pc # "generate") => compose = DOMAIN manifest
  BY <1>2, <1>3 DEF FilesOf
<1> QED BY <1>1, <1>4, <1>5, FilesStep

LEMMA FilesKeep == IInv /\ FilesInv /\ [Next]_vars => FilesInv'
<1> SUFFICES ASSUME IInv, FilesInv, [Next]_vars PROVE FilesInv'
  OBVIOUS
<1>a. \A p \in Commands : job[p] \in Job /\ SyncOf(job[p], manifest, rows)
  BY DEF IInv, Right, JobTyped
<1>b. "cli" \in Commands /\ "wiz" \in Commands /\ Commands \ {"cli"} = {"wiz"}
      /\ Commands \ {"wiz"} = {"cli"}
  BY DEF Commands
<1>c. /\ \A p \in Commands : p = "cli" => GoneOf(job[p], compose, running)
      /\ torn \in BOOLEAN
      /\ ~torn => FilesOf(job, manifest, compose)
  BY DEF FilesInv
<1>1. ASSUME NEW s \in Sites, NEW kind \in Kinds, Persist(s, kind) PROVE FilesInv'
  <2>1. UNCHANGED <<manifest, compose, torn, running>>
    BY <1>1 DEF Persist, files
  <2>2. ASSUME NEW p \in Commands
        PROVE  /\ job'[p].pc = job[p].pc /\ job'[p].specs = job[p].specs
               /\ job'[p].alone = job[p].alone /\ job'[p].site = job[p].site
    <3> PICK late : late = job[p].late \cup (IF s = job[p].site THEN {"delete"} ELSE {})
                             \cup (IF s \notin DOMAIN job[p].specs THEN {"prune"} ELSE {})
      OBVIOUS
    <3>1. job'[p] = [job[p] EXCEPT !.late = late]
      BY <1>1 DEF Persist
    <3> QED BY <1>a, <3>1 DEF Job
  <2>3. AloneOf(job)'
    BY <2>2 DEF FilesInv, AloneOf
  <2>4. ~torn => FilesOf(job', manifest, compose)
    BY <1>c, <2>2 DEF FilesOf
  <2>5. GoneOf(job'["cli"], compose, running)
    BY <1>b, <1>c, <2>2 DEF GoneOf
  <2> QED BY <1>c, <2>1, <2>3, <2>4, <2>5 DEF FilesInv
<1>2. ASSUME NEW s \in Sites, StartDelete(s) PROVE FilesInv'
  <2> PICK listed : listed = (s \in DOMAIN manifest)
    OBVIOUS
  <2> PICK alone : alone = ~Active("wiz")
    OBVIOUS
  <2> PICK specs : specs = IF s \in DOMAIN manifest
                             THEN RemoveSiteFromManifest(manifest, s) ELSE manifest
    OBVIOUS
  <2> PICK next : next = [Idle EXCEPT !.pc = "confirm", !.site = s, !.listed = listed,
                            !.alone = alone, !.specs = specs]
    OBVIOUS
  <2>1. Advance("cli", next) /\ UNCHANGED <<files, running>> /\ ~Active("cli")
    BY <1>2 DEF StartDelete
  <2>2. IInv'
    BY <1>2, StartDeleteKeeps
  <2>3. job'["cli"] = next /\ next \in Job
    BY <1>b, <2>1, <2>2 DEF IInv, Right, JobTyped, Advance
  <2>4. next.pc = "confirm" /\ next.site = s /\ next.alone = alone /\ next.specs = specs
    BY IdleIs DEF Job
  <2>5. s \notin DOMAIN specs
    BY DEF RemoveSiteFromManifest
  <2>6. job["cli"].pc # "generate"
    BY <2>1 DEF Active
  <2>7. next.alone => \A q \in Commands \ {"cli"} : ~Active(q)
    BY <1>b, <2>4
  <2>8. GoneOf(next, compose, running')
    BY <2>4, <2>5 DEF GoneOf
  <2> QED BY <1>b, <2>1, <2>3, <2>4, <2>6, <2>7, <2>8, FilesQuiet
<1>3. ASSUME StopCollector PROVE FilesInv'
  <2> PICK j : j = job["cli"]
    OBVIOUS
  <2> PICK next : next = [j EXCEPT !.pc = "sql", !.step = 0, !.late = j.late \ {"delete"}]
    OBVIOUS
  <2>1. Advance("cli", next) /\ UNCHANGED files /\ j.pc = "confirm"
    BY <1>3 DEF StopCollector
  <2>2. IInv'
    BY <1>3, StopKeeps
  <2>3. job'["cli"] = next /\ next \in Job
    BY <1>b, <2>1, <2>2 DEF IInv, Right, JobTyped, Advance
  <2>4. next.pc = "sql" /\ next.site = j.site /\ next.alone = j.alone /\ next.specs = j.specs
    BY <1>a, <1>b DEF Job
  <2>5. GoneOf(next, compose, running')
    BY <1>b, <1>c, <2>1, <2>4 DEF GoneOf
  <2> QED BY <1>b, <2>1, <2>3, <2>4, <2>5, FilesQuiet
<1>4. ASSUME NEW names \in SiteLists, EnterSites(names) PROVE FilesInv'
  <2>1. PICK core \in CoreIDs(BuildSiteSpecs(names)) :
          Advance("wiz", [Idle EXCEPT !.pc = "topology", !.alone = ~Active("cli"),
                            !.specs = SuggestSiteTopology(BuildSiteSpecs(names), core)])
    BY <1>4 DEF EnterSites
  <2> PICK alone : alone = ~Active("cli")
    OBVIOUS
  <2> PICK specs : specs = SuggestSiteTopology(BuildSiteSpecs(names), core)
    OBVIOUS
  <2> PICK next : next = [Idle EXCEPT !.pc = "topology", !.alone = alone, !.specs = specs]
    OBVIOUS
  <2>2. Advance("wiz", next) /\ UNCHANGED files /\ ~Active("wiz")
    BY <1>4, <2>1 DEF EnterSites
  <2>3. IInv'
    BY <1>4, EnterSitesKeeps
  <2>4. job'["wiz"] = next /\ next \in Job
    BY <1>b, <2>2, <2>3 DEF IInv, Right, JobTyped, Advance
  <2>5. next.pc = "topology" /\ next.alone = alone
    BY IdleIs DEF Job
  <2>6. job["wiz"].pc # "generate"
    BY <2>2 DEF Active
  <2>7. next.alone => \A q \in Commands \ {"wiz"} : ~Active(q)
    BY <1>b, <2>5
  <2> QED BY <1>b, <2>2, <2>4, <2>5, <2>6, <2>7, FilesQuiet
<1>5. ASSUME NEW typed \in Typed, EnterTopology(typed) PROVE FilesInv'
  <2> PICK specs : specs = ApplyUpstreamSiteIDs(job["wiz"].specs, typed)
    OBVIOUS
  <2> PICK next : next = [job["wiz"] EXCEPT !.pc = "write", !.specs = specs]
    OBVIOUS
  <2>1. Advance("wiz", next) /\ UNCHANGED files /\ job["wiz"].pc = "topology"
    BY <1>5 DEF EnterTopology
  <2>2. IInv'
    BY <1>5, EnterTopologyKeeps
  <2>3. job'["wiz"] = next /\ next \in Job
    BY <1>b, <2>1, <2>2 DEF IInv, Right, JobTyped, Advance
  <2>4. next.pc = "write" /\ next.alone = job["wiz"].alone
    BY <1>a, <1>b DEF Job
  <2> QED BY <1>b, <2>1, <2>3, <2>4, FilesQuiet
<1>6. ASSUME ComposeUpAgain PROVE FilesInv'
  <2> PICK next : next = [job["wiz"] EXCEPT !.pc = "done"]
    OBVIOUS
  <2>1. Advance("wiz", next) /\ UNCHANGED files /\ job["wiz"].pc = "again"
    BY <1>6 DEF ComposeUpAgain
  <2>2. next \in Job /\ next.pc = "done" /\ next.alone = job["wiz"].alone
    BY <1>a, <1>b, MovedIs DEF Moved, Phases
  <2> QED BY <1>b, <2>1, <2>2, FilesQuiet
<1>7. ASSUME NEW p \in Commands, WriteManifest(p) PROVE FilesInv'
  <2> PICK next : next = [job[p] EXCEPT !.pc = "generate"]
    OBVIOUS
  <2>1. /\ Advance(p, next) /\ job[p].pc = "write" /\ manifest' = job[p].specs
        /\ torn' = (torn \/ \E q \in Commands \ {p} : Active(q))
        /\ UNCHANGED <<compose, running>>
    BY <1>7 DEF WriteManifest
  <2>2. Moved(job[p], "generate", next)
    BY <1>a, MovedIs DEF Phases
  <2>3. torn' \in BOOLEAN
    BY <2>1, Zenon
  <2>4. ~torn' => \A q \in Commands \ {p} : job[q].pc # "generate"
    BY <2>1 DEF Active
  <2>5. p = "cli" => GoneOf(next, compose, running)
    BY <1>c, <2>1, <2>2 DEF GoneOf, Moved
  <2> QED BY <2>1, <2>2, <2>3, <2>4, <2>5, FilesStep DEF Moved
<1>8. ASSUME NEW p \in Commands, GenerateCompose(p) PROVE FilesInv'
  <2> PICK next : next = [job[p] EXCEPT !.pc = "up"]
    OBVIOUS
  <2>1. /\ Advance(p, next) /\ job[p].pc = "generate" /\ compose' = DOMAIN job[p].specs
        /\ UNCHANGED <<manifest, torn, running>>
    BY <1>8 DEF GenerateCompose
  <2>2. Moved(job[p], "up", next)
    BY <1>a, MovedIs DEF Phases
  <2>3. ~torn => /\ \A q \in Commands : job[q].pc = "generate"
                      => DOMAIN job[q].specs = DOMAIN manifest
                 /\ compose' = DOMAIN manifest
    BY <1>c, <2>1 DEF FilesOf
  <2>4. p = "cli" => GoneOf(next, compose', running)
    BY <1>c, <2>1, <2>2 DEF GoneOf, Moved
  <2> QED BY <1>c, <2>1, <2>2, <2>3, <2>4, FilesStep DEF Moved
<1>9. ASSUME NEW p \in Commands, ComposeUp(p) PROVE FilesInv'
  <2> PICK next : next = [job[p] EXCEPT !.pc = "sync"]
    OBVIOUS
  <2>1. /\ Advance(p, next) /\ job[p].pc = "up" /\ running' = compose /\ UNCHANGED files
    BY <1>9 DEF ComposeUp
  <2>2. Moved(job[p], "sync", next)
    BY <1>a, MovedIs DEF Phases
  <2>3. p = "cli" => GoneOf(next, compose, running')
    BY <1>c, <2>1, <2>2 DEF GoneOf, Moved
  <2> QED BY <2>1, <2>2, <2>3, FilesQuiet DEF Moved
<1>10. ASSUME NEW p \in Commands, LoadManifest(p) PROVE FilesInv'
  <2> PICK j : j = job[p]
    OBVIOUS
  <2> PICK next : next = [j EXCEPT !.pc = "upsert", !.specs = manifest,
                            !.left = DOMAIN manifest, !.step = 0, !.late = j.late \ {"prune"}]
    OBVIOUS
  <2>1. Advance(p, next) /\ UNCHANGED <<files, running>> /\ j.pc = "sync"
    BY <1>10 DEF LoadManifest
  <2>2. IInv'
    BY <1>10, LoadKeeps
  <2>3. job'[p] = next /\ next \in Job
    BY <2>1, <2>2 DEF IInv, Right, JobTyped, Advance
  <2>4. next.pc = "upsert" /\ next.site = j.site /\ next.alone = j.alone /\ next.specs = manifest
    BY <1>a DEF Job
  <2>5. j.alone => manifest = j.specs
    BY <1>a, <2>1 DEF SyncOf
  <2>6. p = "cli" => GoneOf(next, compose, running')
    BY <1>c, <2>1, <2>4, <2>5 DEF GoneOf
  <2> QED BY <2>1, <2>3, <2>4, <2>6, FilesQuiet
<1>11. ASSUME NEW p \in Commands, NEW s \in Sites, UpsertSite(p, s) PROVE FilesInv'
  <2> PICK j : j = job[p]
    OBVIOUS
  <2> PICK pc : pc = IF j.left = {s} THEN "prune" ELSE j.pc
    OBVIOUS
  <2> PICK next : next = [j EXCEPT !.left = j.left \ {s}, !.pc = pc]
    OBVIOUS
  <2>1. Advance(p, next) /\ UNCHANGED <<files, running>> /\ j.pc = "upsert"
    BY <1>11 DEF UpsertSite
  <2>2. IInv'
    BY <1>11, UpsertKeeps
  <2>3. job'[p] = next /\ next \in Job
    BY <2>1, <2>2 DEF IInv, Right, JobTyped, Advance
  <2>4. next.pc = pc /\ next.site = j.site /\ next.alone = j.alone /\ next.specs = j.specs
    BY <1>a DEF Job
  <2>5. pc \in {"upsert", "prune"}
    BY <2>1
  <2>6. p = "cli" => GoneOf(next, compose, running')
    BY <1>c, <2>1, <2>4, <2>5 DEF GoneOf
  <2> QED BY <2>1, <2>3, <2>4, <2>5, <2>6, FilesQuiet
<1>12. ASSUME NEW p \in Commands, RunStatement(p) PROVE FilesInv'
  <2> PICK j : j = job[p]
    OBVIOUS
  <2>1. PICK i \in Following(j.step) :
          Advance(p, IF i < Len(Script) THEN [j EXCEPT !.step = i]
                       ELSE [j EXCEPT !.step = 0, !.pc = AfterScript(p)])
    BY <1>12 DEF RunStatement
  <2> PICK pc : pc = IF i < Len(Script) THEN j.pc ELSE AfterScript(p)
    OBVIOUS
  <2> PICK next : next = IF i < Len(Script) THEN [j EXCEPT !.step = i]
                           ELSE [j EXCEPT !.step = 0, !.pc = AfterScript(p)]
    OBVIOUS
  <2>2. Advance(p, next) /\ UNCHANGED <<files, running>> /\ j.pc \in {"sql", "prune"}
    BY <1>12, <2>1 DEF RunStatement
  <2>3. IInv'
    BY <1>12, RunKeeps
  <2>4. job'[p] = next /\ next \in Job
    BY <2>2, <2>3 DEF IInv, Right, JobTyped, Advance
  <2>5. next.pc = pc /\ next.site = j.site /\ next.alone = j.alone /\ next.specs = j.specs
    BY <1>a DEF Job
  <2>6. /\ pc \in {"sql", "prune", "write", "up", "again", "done"}
        /\ pc = "prune" => j.pc = "prune"
        /\ p = "cli" /\ pc = "done" => j.pc = "prune"
    BY <2>2 DEF AfterScript, Prunes
  <2>7. p = "cli" => GoneOf(next, compose, running')
    BY <1>c, <2>2, <2>5, <2>6 DEF GoneOf
  <2> QED BY <2>2, <2>4, <2>5, <2>6, <2>7, FilesQuiet
<1>13. ASSUME NEW p \in Commands, StatementFails(p) PROVE FilesInv'
  <2> PICK next : next = [job[p] EXCEPT !.pc = "failed"]
    OBVIOUS
  <2>1. /\ Advance(p, next) /\ job[p].pc \in {"sql", "prune"} /\ UNCHANGED <<files, running>>
    BY <1>13 DEF StatementFails
  <2>2. Moved(job[p], "failed", next)
    BY <1>a, MovedIs DEF Phases
  <2>3. p = "cli" => GoneOf(next, compose, running')
    BY <2>2 DEF GoneOf, Moved
  <2> QED BY <2>1, <2>2, <2>3, FilesQuiet DEF Moved
<1>14. ASSUME NEW p \in Commands, Interrupt(p) PROVE FilesInv'
  <2> PICK next : next = [job[p] EXCEPT !.pc = "failed"]
    OBVIOUS
  <2>1. /\ Advance(p, next) /\ torn' = (torn \/ job[p].pc = "generate")
        /\ UNCHANGED <<manifest, compose, running>>
    BY <1>14 DEF Interrupt
  <2>2. Moved(job[p], "failed", next)
    BY <1>a, MovedIs DEF Phases
  <2>3. torn' \in BOOLEAN
    BY <2>1, Zenon
  <2>4. ~torn' => /\ FilesOf(job, manifest, compose) /\ job[p].pc # "generate"
    BY <1>c, <2>1
  <2>5. ~torn' => /\ \A q \in Commands : job[q].pc = "generate" => DOMAIN job[q].specs = DOMAIN manifest
                  /\ (\A q \in Commands \ {p} : job[q].pc # "generate") => compose = DOMAIN manifest
    BY <2>4 DEF FilesOf
  <2>6. p = "cli" => GoneOf(next, compose, running)
    BY <2>2 DEF GoneOf, Moved
  <2> QED BY <2>1, <2>2, <2>3, <2>5, <2>6, FilesStep DEF Moved
<1>15. CASE UNCHANGED vars
  BY <1>15 DEF FilesInv, vars
<1>16. CASE Next
  BY <1>16, <1>1, <1>2, <1>3, <1>4, <1>5, <1>6, <1>7, <1>8, <1>9, <1>10, <1>11,
     <1>12, <1>13, <1>14 DEF Next
<1> QED BY <1>15, <1>16

LEMMA FilesInit == Init => FilesInv
<1> SUFFICES ASSUME Init PROVE FilesInv
  OBVIOUS
<1>1. PICK core \in CoreIDs(BuildSiteSpecs(Sites)) :
        manifest = SuggestSiteTopology(BuildSiteSpecs(Sites), core)
  BY DEF Init
<1>2. DOMAIN manifest = Sites
  BY <1>1 DEF SuggestSiteTopology, BuildSiteSpecs
<1>3. /\ compose = Sites /\ torn = FALSE /\ job = [p \in Commands |-> Idle]
  BY DEF Init
<1>4. \A p \in Commands : job[p].pc = "idle"
  BY <1>3, IdleIs
<1>5. "cli" \in Commands
  BY DEF Commands
<1> QED BY <1>2, <1>3, <1>4, <1>5 DEF FilesInv, AloneOf, FilesOf, GoneOf

\* Unless a command stopped between the manifest and the compose file, or wrote while
\* the other was at work, the two name the same sites whenever no command is between
\* them (WriteManifest, GenerateCompose).
THEOREM FilesAgree == Spec => [](IInv /\ FilesInv)
<1>1. Init => IInv /\ FilesInv
  BY InitHolds, FilesInit
<1>2. IInv /\ FilesInv /\ [Next]_vars => (IInv /\ FilesInv)'
  BY NextKeeps, FilesKeep
<1> QED BY <1>1, <1>2, PTL DEF Spec

LEMMA GraphsFollow == IInv /\ FilesInv => GraphsAreSound
<1> SUFFICES ASSUME IInv, FilesInv PROVE GraphsAreSound
  OBVIOUS
<1>1. /\ Accepted(manifest) /\ compose \subseteq Sites /\ running \subseteq Sites
      /\ Topology(manifest) /\ Topology(rows) /\ KeysHold(tables, rows)
      /\ layered => Layered(rows)
      /\ torn \in BOOLEAN
  BY DEF IInv, World, Accepted, FilesInv
<1>2. TypeOK
  <2>1. ASSUME NEW index, Topology(index)
        PROVE  /\ DOMAIN index \subseteq Sites
               /\ \A s \in DOMAIN index : index[s] \in [up : SUBSET Sites, hub : BOOLEAN]
    BY <2>1 DEF Topology, Node
  <2>2. manifest # BuildSiteSpecs({})
    BY <1>1 DEF Accepted, BuildSiteSpecs
  <2> QED BY <1>1, <2>1, <2>2 DEF TypeOK, KeysHold
<1>3. ManifestIsSound
  BY <1>1 DEF ManifestIsSound, Accepted
<1>4. SuggestionIsAccepted
  <2>1. JobTyped("wiz", job["wiz"])
    BY DEF IInv, Right, Commands
  <2> QED BY <2>1 DEF SuggestionIsAccepted, JobTyped, Suggested
<1>5. NoCycleInRows
  BY <1>1, CompletionIsLayered DEF NoCycleInRows
<1> QED BY <1>2, <1>3, <1>4, <1>5 DEF GraphsAreSound

\* Whatever the two commands do to each other and wherever they stop: the manifest is
\* never a graph ValidateSiteTopology would refuse, the suggested one never is, and
\* while every manifest kept to the roles no mixture of old and new rows and no edge
\* CompleteMissingSiteUpstreams adds closes a ring, so that the walk of
\* collectRootCauseSites ends.
THEOREM GraphsSound == Spec => []GraphsAreSound
BY FilesAgree, GraphsFollow, PTL

LEMMA DeletionFollows == IInv /\ FilesInv => DeletionIsSound
<1> SUFFICES ASSUME IInv, FilesInv PROVE DeletionIsSound
  OBVIOUS
<1> PICK cli : cli = job["cli"]
  OBVIOUS
<1>1. /\ JobTyped("cli", cli) /\ DeletionOf(cli, manifest, compose, running, rows)
      /\ SyncOf(cli, manifest, rows)
  BY DEF IInv, Right, Commands
<1>2. FailureLeavesItListed
  BY <1>1 DEF FailureLeavesItListed, JobTyped, DeletionOf
<1>3. DeletedIsGone
  <2> SUFFICES ASSUME cli.pc = "done", cli.alone
               PROVE  /\ cli.site \notin DOMAIN manifest
                      /\ cli.site \in compose \cup running => ~cli.listed /\ torn
    BY DEF DeletedIsGone
  <2>1. cli.site \notin DOMAIN manifest /\ (cli.site \in running => cli.site \in compose)
    BY <1>1 DEF FilesInv, GoneOf, SyncOf
  <2>2. cli.site \in compose => ~cli.listed
    BY <1>1 DEF DeletionOf
  <2>3. \A p \in Commands : job[p].pc # "generate"
    BY DEF FilesInv, AloneOf, Commands
  <2>4. ~torn => compose = DOMAIN manifest
    BY <2>3 DEF FilesInv, FilesOf
  <2> QED BY <2>1, <2>2, <2>4
<1>4. BlockedByMessagesOnly
  <2> SUFFICES ASSUME NEW p \in Commands, job[p].pc \in {"sql", "prune"}, Blocked(p),
                      Undisturbed(job[p])
               PROVE  FALSE
    BY DEF BlockedByMessagesOnly, Undisturbed
  <2> PICK j : j = job[p]
    OBVIOUS
  <2>1. /\ SweptOf(j, rows, tables) /\ JobTyped(p, j) /\ KeysHold(tables, rows)
        /\ Topology(rows)
    BY DEF IInv, Right, World
  <2>2. PICK i \in Following(j.step), s \in Targets(p) :
          \E t \in tables[s] : Script[i] \in References(t)
    BY DEF Blocked
  <2> PICK t \in tables[s] : Script[i] \in References(t)
    BY <2>2
  <2>3. s \in TargetsOf(j, rows) /\ s \in Sites
    BY <2>1 DEF Targets, TargetsOf, Deletes, Topology
  <2>4. t \in Filled
    BY <2>1, <2>3 DEF KeysHold
  <2>5. PICK k \in Statements : Script[k] = t /\ \A n \in 1 .. 15 : Script[n] \in References(t) => k < n
    BY <2>4, ReferencesLast
  <2>6. /\ i \in 1 .. 15 /\ \A n \in Statements : n > j.step => i <= n
        /\ k \in 1 .. 15 /\ j.step \in 0 .. 14
    BY <2>1, ScriptIs DEF Following, Statements, JobTyped, Job
  <2>7. k < i /\ k <= j.step
    BY <2>2, <2>5, <2>6
  <2> QED BY <2>1, <2>3, <2>5, <2>7 DEF SweptOf
<1> QED BY <1>2, <1>3, <1>4 DEF DeletionIsSound

\* A deletion, failing or interrupted anywhere and tried again, with or without the
\* wizard beside it: only a late message stands in its way, alone it leaves no rows of
\* a site that is no longer listed, and when it reports success the site is out of the
\* manifest, and out of the compose file and the collectors too unless a retry found it
\* unlisted and the files torn (runSitesDelete, SiteDeleteSQL).
THEOREM DeletionSound == Spec => []DeletionIsSound
BY FilesAgree, DeletionFollows, PTL

\* After a command that ran alone and through, and no orphan's message since it read
\* the topology, the table of sites is the manifest (sync-site-topology.sh).
THEOREM RowsFollow == Spec => []RowsFollowManifest
<1>1. IInv => RowsFollowManifest
  BY DEF IInv, Right, SyncOf, RowsFollowManifest
<1> QED BY <1>1, Inductive, PTL

-----------------------------------------------------------------------------
(***************************************************************************)
(* The walk to the root causes.                                            *)
(***************************************************************************)

\* As in Explained, for any set of unavailable sites.
SourcesOf(index, down) == {r \in down : index[r].up \cap down = {}}

Closed(index, down, set) == \A s \in set : index[s].up \cap down \subseteq set

BehindOf(index, down, s) ==
  {r \in down : \A set \in SUBSET DOMAIN index :
                  s \in set /\ Closed(index, down, set) => r \in set}

RootsOf(index, down, s) == SourcesOf(index, down) \cap BehindOf(index, down, s)

\* The roots of a site are itself or those of its unavailable upstreams.
LEMMA RootsStep ==
  ASSUME NEW index, NEW down \in SUBSET DOMAIN index, NEW s \in DOMAIN index
  PROVE  /\ index[s].up \cap down = {} => RootsOf(index, down, s) = {s} \cap down
         /\ index[s].up \cap down # {} =>
              \A r : r \in RootsOf(index, down, s)
                       <=> \E u \in index[s].up \cap down : r \in RootsOf(index, down, u)
<1>1. ASSUME index[s].up \cap down = {}
      PROVE  RootsOf(index, down, s) = {s} \cap down
  <2>1. {s} \in SUBSET DOMAIN index /\ Closed(index, down, {s})
    BY <1>1 DEF Closed
  <2>2. \A r \in RootsOf(index, down, s) : r = s /\ r \in down
    BY <2>1 DEF RootsOf, BehindOf, SourcesOf
  <2>3. s \in down => s \in RootsOf(index, down, s)
    BY <1>1 DEF RootsOf, BehindOf, SourcesOf
  <2> QED BY <2>2, <2>3
<1>2. ASSUME NEW r, NEW u \in index[s].up \cap down, r \in RootsOf(index, down, u)
      PROVE  r \in RootsOf(index, down, s)
  <2>1. \A set \in SUBSET DOMAIN index : s \in set /\ Closed(index, down, set) => u \in set
    BY DEF Closed
  <2> QED BY <1>2, <2>1 DEF RootsOf, BehindOf
<1>3. ASSUME NEW r \in RootsOf(index, down, s), index[s].up \cap down # {},
             \A u \in index[s].up \cap down : r \notin RootsOf(index, down, u)
      PROVE  FALSE
  <2> DEFINE Free == {x \in DOMAIN index : \E set \in SUBSET DOMAIN index :
                        Closed(index, down, set) /\ r \notin set /\ x \in set}
  <2>1. r \in down /\ r \in SourcesOf(index, down) /\ r # s
    BY <1>3 DEF RootsOf, SourcesOf
  <2>2. \A u \in index[s].up \cap down : u \in Free
    BY <1>3, <2>1 DEF RootsOf, BehindOf
  <2>3. Closed(index, down, Free) /\ r \notin Free
    <3>1. ASSUME NEW x \in Free, NEW y \in index[x].up \cap down PROVE y \in Free
      <4>1. PICK set \in SUBSET DOMAIN index :
              Closed(index, down, set) /\ r \notin set /\ x \in set
        OBVIOUS
      <4>2. y \in set
        BY <4>1 DEF Closed
      <4> QED BY <4>1, <4>2
    <3> QED BY <3>1 DEF Closed
  <2>4. {s} \cup Free \in SUBSET DOMAIN index
    OBVIOUS
  <2> HIDE DEF Free
  <2>5. Closed(index, down, {s} \cup Free)
    BY <2>2, <2>3 DEF Closed
  <2>6. r \in {s} \cup Free
    BY <2>4, <2>5 DEF RootsOf, BehindOf
  <2> QED BY <2>1, <2>3, <2>6
<1> QED BY <1>1, <1>2, <1>3

\* Where the sites are ranked, an unavailable site has a root.
LEMMA RootsExist ==
  ASSUME NEW index, DOMAIN index \subseteq Sites, Ranked(index),
         NEW down \in SUBSET DOMAIN index, NEW s \in down
  PROVE  RootsOf(index, down, s) # {}
<1> DEFINE Without == {u \in down : RootsOf(index, down, u) = {}}
<1> SUFFICES ASSUME Without # {} PROVE FALSE
  OBVIOUS
<1>1. PICK rank \in [Sites -> 1 .. Cardinality(Sites)] :
        \A x \in DOMAIN index : \A u \in index[x].up \cap DOMAIN index : rank[u] < rank[x]
  BY DEF Ranked
<1>2. Without \in SUBSET Sites /\ rank \in [Sites -> Int]
  BY <1>1
<1>3. PICK w \in Without : \A u \in Without : ~(rank[u] < rank[w])
  <2> HIDE DEF Without
  <2> QED BY <1>2, LeastRank
<1>4. w \in DOMAIN index /\ w \in down /\ RootsOf(index, down, w) = {}
  OBVIOUS
<1>5. index[w].up \cap down # {}
  <2> SUFFICES ASSUME index[w].up \cap down = {} PROVE FALSE
    OBVIOUS
  <2>1. RootsOf(index, down, w) = {w} \cap down
    BY <1>4, RootsStep, ZenonT(30)
  <2> QED BY <1>4, <2>1
<1>6. PICK u \in index[w].up \cap down : TRUE
  BY <1>5
<1>7. RootsOf(index, down, u) = {}
  <2>1. \A r : r \in RootsOf(index, down, w)
                  <=> \E v \in index[w].up \cap down : r \in RootsOf(index, down, v)
    BY <1>4, <1>5, RootsStep
  <2> QED BY <1>4, <2>1
<1>8. u \in Without /\ rank[u] < rank[w]
  BY <1>1, <1>4, <1>7
<1> QED BY <1>3, <1>8

\* For sites that can be ranked and any of them unavailable, the unguarded recursion of
\* collectRootCauseSites gives the unavailable sites with no unavailable upstream
\* that can be reached through unavailable sites alone.
THEOREM WalkFindsRoots ==
  ASSUME NEW index, Topology(index), Ranked(index), NEW down \in SUBSET DOMAIN index,
         NEW from
  PROVE  CollectRootCauseSites(from, index, down)
           = UNION {RootsOf(index, down, u) : u \in from \cap down}
<1> DEFINE Further(s) == index[s].up \cap down
           Walk(f) == [set \in SUBSET Sites |->
                         UNION {IF Further(s) = {} THEN {s} ELSE f[Further(s)] : s \in set}]
           walk == CHOOSE f : f = Walk(f)
<1>1. CollectRootCauseSites(from, index, down) = walk[from \cap down]
  BY DEF CollectRootCauseSites
<1> HIDE DEF walk
<1>2. walk = Walk(walk)
  <2> DEFINE leaf(s) == IF Further(s) = {} THEN {s}
                        ELSE UNION {RootsOf(index, down, u) : u \in Further(s)}
             sum == [set \in SUBSET Sites |-> UNION {leaf(s) : s \in set}]
  <2>1. ASSUME NEW s \in Sites, Further(s) # {} PROVE sum[Further(s)] = leaf(s)
    <3>1. Further(s) \in SUBSET Sites
      BY DEF Topology
    <3>2. ASSUME NEW u \in Further(s) PROVE leaf(u) = RootsOf(index, down, u)
      <4>1. u \in DOMAIN index /\ u \in down
        OBVIOUS
      <4>2. CASE Further(u) = {}
        <5>1. RootsOf(index, down, u) = {u} \cap down
          BY <4>1, <4>2, RootsStep
        <5> QED BY <4>1, <4>2, <5>1
      <4>3. CASE Further(u) # {}
        <5>1. \A r : r \in RootsOf(index, down, u)
                       <=> \E v \in Further(u) : r \in RootsOf(index, down, v)
          BY <4>1, <4>3, RootsStep
        <5> QED BY <4>3, <5>1
      <4> QED BY <4>2, <4>3
    <3>3. leaf(s) = UNION {RootsOf(index, down, u) : u \in Further(s)}
      BY <2>1
    <3> HIDE DEF leaf
    <3>4. sum[Further(s)] = UNION {leaf(u) : u \in Further(s)}
      BY <3>1
    <3> QED BY <3>2, <3>3, <3>4
  <2>2. sum = Walk(sum)
    <3>1. ASSUME NEW set \in SUBSET Sites
          PROVE  UNION {leaf(s) : s \in set}
                   = UNION {IF Further(s) = {} THEN {s} ELSE sum[Further(s)] : s \in set}
      <4>1. \A s \in set : leaf(s) = IF Further(s) = {} THEN {s} ELSE sum[Further(s)]
        BY <2>1
      <4> HIDE DEF leaf, sum, Further
      <4> QED BY <4>1
    <3> HIDE DEF leaf, Further
    <3> QED BY <3>1
  <2> HIDE DEF sum
  <2> QED BY <2>2 DEF walk
<1> DEFINE Found(s) == IF Further(s) = {} THEN {s} ELSE walk[Further(s)]
<1>3. \A set \in SUBSET Sites : \A r : r \in walk[set] <=> \E s \in set : r \in Found(s)
  <2> SUFFICES ASSUME NEW set \in SUBSET Sites
               PROVE  \A r : r \in walk[set] <=> \E s \in set : r \in Found(s)
    OBVIOUS
  <2>1. walk[set] = UNION {Found(s) : s \in set}
    BY <1>2
  <2> HIDE DEF Found
  <2> QED BY <2>1
<1>4. \A s \in down : Found(s) = RootsOf(index, down, s)
  <2> DEFINE Astray == {s \in down : Found(s) # RootsOf(index, down, s)}
  <2> SUFFICES ASSUME Astray # {} PROVE FALSE
    OBVIOUS
  <2>1. PICK rank \in [Sites -> 1 .. Cardinality(Sites)] :
          \A x \in DOMAIN index : \A u \in index[x].up \cap DOMAIN index : rank[u] < rank[x]
    BY DEF Ranked
  <2>2. Astray \in SUBSET Sites /\ rank \in [Sites -> Int]
    BY <2>1 DEF Topology
  <2>3. PICK s \in Astray : \A u \in Astray : ~(rank[u] < rank[s])
    <3> HIDE DEF Astray
    <3> QED BY <2>2, LeastRank
  <2>4. s \in down /\ s \in DOMAIN index /\ Found(s) # RootsOf(index, down, s)
    OBVIOUS
  <2>5. Further(s) # {}
    <3> SUFFICES ASSUME Further(s) = {} PROVE FALSE
      OBVIOUS
    <3>1. RootsOf(index, down, s) = {s} \cap down
      BY <2>4, RootsStep
    <3> QED BY <2>4, <3>1
  <2>6. \A u \in Further(s) : Found(u) = RootsOf(index, down, u)
    <3> SUFFICES ASSUME NEW u \in Further(s) PROVE u \notin Astray
      OBVIOUS
    <3>1. rank[u] < rank[s]
      BY <2>1, <2>4
    <3> QED BY <2>3, <3>1
  <2>7. Found(s) = walk[Further(s)] /\ Further(s) \in SUBSET Sites
    BY <2>5 DEF Topology
  <2>8. \A r : r \in RootsOf(index, down, s)
                 <=> \E u \in Further(s) : r \in RootsOf(index, down, u)
    BY <2>4, <2>5, RootsStep
  <2> HIDE DEF Found
  <2>9. \A r : r \in Found(s) <=> r \in RootsOf(index, down, s)
    BY <1>3, <2>6, <2>7, <2>8
  <2> QED BY <2>4, <2>9
<1>5. from \cap down \in SUBSET Sites
  BY DEF Topology
<1> HIDE DEF Found
<1>6. \A r : r \in walk[from \cap down]
               <=> r \in UNION {RootsOf(index, down, u) : u \in from \cap down}
  BY <1>3, <1>4, <1>5
<1>7. walk[from \cap down] = UNION {RootsOf(index, down, u) : u \in from \cap down}
  BY <1>6
<1> QED BY <1>1, <1>7

-----------------------------------------------------------------------------
(***************************************************************************)
(* Devices and their counts.                                               *)
(***************************************************************************)

Statuses == {"healthy", "warning", "critical", "unknown"}

\* A device without the state of a site over it.
LEMMA DeviceProjected ==
  ASSUME NEW row \in DeviceRow
  PROVE  /\ ProjectDevice(row).status \in Statuses
         /\ ProjectDevice(row).reason # "upstream_site_unreachable"
         /\ ProjectDevice(row).alerts = row.alerts
         /\ ProjectDevice(row) = [status |-> ProjectDevice(row).status,
                                  reason |-> ProjectDevice(row).reason,
                                  blocked |-> ProjectDevice(row).blocked,
                                  alerts |-> ProjectDevice(row).alerts]
<1>1. row.reason # "upstream_site_unreachable"
  BY DEF DeviceRow
<1>2. CASE row.state = "none"
  <2>1. PICK none : none = ""
    OBVIOUS
  <2>2. ProjectDevice(row) = [status |-> DeviceStatusCode(row.online), reason |-> none,
                              blocked |-> FALSE, alerts |-> row.alerts]
    BY <1>2, <2>1, Zenon DEF ProjectDevice
  <2>3. DeviceStatusCode(row.online) \in Statuses
    BY DEF DeviceStatusCode, Statuses
  <2>4. none # "upstream_site_unreachable"
    BY <2>1
  <2> QED BY <2>2, <2>3, <2>4
<1>3. CASE row.state # "none"
  <2>1. ProjectDevice(row) = [status |-> HealthStatusCode(row.state, row.online),
                              reason |-> row.reason, blocked |-> row.blocked,
                              alerts |-> row.alerts]
    BY <1>3 DEF ProjectDevice
  <2>2. HealthStatusCode(row.state, row.online) \in Statuses
    BY <1>3 DEF HealthStatusCode, DeviceStatusCode, Statuses, DeviceRow
  <2> QED BY <1>1, <2>1, <2>2
<1> QED BY <1>2, <1>3

\* A device as a page shows it, for a site in the given state.
DeviceShown(state, row, dev) ==
  /\ dev.status \in Statuses /\ dev.alerts = row.alerts
  /\ BySite(dev) => dev.status = "unknown"
  /\ state.impacted => ~IsDirectCritical(dev)
  /\ ~state.impacted => dev = ProjectDevice(row) /\ ~BySite(dev)

LEMMA DeviceIs ==
  ASSUME NEW state, NEW row \in DeviceRow
  PROVE  DeviceShown(state, row, GetDevice(state, row))
<1> PICK proj : proj = ProjectDevice(row)
  OBVIOUS
<1>1. /\ proj.status \in Statuses /\ proj.reason # "upstream_site_unreachable"
      /\ proj.alerts = row.alerts
      /\ proj = [status |-> proj.status, reason |-> proj.reason,
                 blocked |-> proj.blocked, alerts |-> proj.alerts]
  BY DeviceProjected
<1> PICK dev : dev = GetDevice(state, row)
  OBVIOUS
<1>2. CASE state.impacted /\ IsDirectCritical(proj)
  <2>1. dev = [proj EXCEPT !.status = "unknown", !.reason = "upstream_site_unreachable"]
    BY <1>2 DEF GetDevice, ApplySiteDependencyOverlay
  <2>2. dev.status = "unknown" /\ dev.alerts = proj.alerts
    BY <1>1, <2>1
  <2> QED BY <1>1, <1>2, <2>2 DEF DeviceShown, Statuses, IsDirectCritical
<1>3. CASE ~(state.impacted /\ IsDirectCritical(proj))
  <2>1. dev = proj
    BY <1>3 DEF GetDevice, ApplySiteDependencyOverlay
  <2> QED BY <1>1, <1>3, <2>1 DEF DeviceShown, BySite
<1> QED BY <1>2, <1>3

\* The devices of one site as they are shown.
Page(page) ==
  /\ DOMAIN page \subseteq {"hub", "other"}
  /\ \A d \in DOMAIN page :
       /\ page[d].status \in Statuses
       /\ BySite(page[d]) => page[d].status = "unknown"

LEMMA SmallSets ==
  ASSUME NEW S, S \subseteq {"hub", "other"}
  PROVE  IsFiniteSet(S) /\ Cardinality(S) \in Nat /\ (S # {} => Cardinality(S) > 0)
<1>1. IsFiniteSet({"hub", "other"})
  <2>1. IsFiniteSet({"hub"})
    BY FS_Singleton
  <2>2. IsFiniteSet({"hub"} \cup {"other"})
    BY <2>1, FS_AddElement
  <2> QED BY <2>2
<1>2. IsFiniteSet(S)
  BY <1>1, FS_Subset
<1> QED BY <1>2, FS_CardinalityType, FS_EmptySet

LEMMA CountsAdd ==
  ASSUME NEW S, NEW T, S \subseteq {"hub", "other"}, T \subseteq {"hub", "other"}, S \cap T = {}
  PROVE  Cardinality(S \cup T) = Cardinality(S) + Cardinality(T)
<1>1. IsFiniteSet(S) /\ IsFiniteSet(T) /\ Cardinality(S) \in Nat /\ Cardinality(T) \in Nat
  BY SmallSets
<1>2. Cardinality(S \cup T) = Cardinality(S) + Cardinality(T) - Cardinality(S \cap T)
  BY <1>1, FS_Union
<1>3. Cardinality(S \cap T) = 0
  BY FS_EmptySet
<1> QED BY <1>1, <1>2, <1>3

LEMMA CountsAreRight ==
  ASSUME NEW page, Page(page)
  PROVE  LET counts == ProjectedSiteHealth(page)
             alerted == {d \in DOMAIN page : page[d].alerts}
         IN  /\ counts.critical = CountOf(page, "critical")
             /\ counts.healthy + counts.warning + counts.critical + counts.unknown
                  = Cardinality(alerted)
             /\ counts.impacted <= counts.unknown
             /\ \A d \in alerted : page[d].status = "critical" => counts.critical > 0
<1> DEFINE alerted == {d \in DOMAIN page : page[d].alerts}
           Having(status) == {d \in alerted : page[d].status = status /\ ~BySite(page[d])}
           overlaid == {d \in alerted : BySite(page[d])}
           blocked == {d \in alerted : page[d].status = "unknown" /\ page[d].blocked}
           H == Having("healthy")  W == Having("warning")
           C == Having("critical") U == Having("unknown")
<1> PICK counts : counts = ProjectedSiteHealth(page)
  OBVIOUS
<1>1. counts = [healthy |-> Cardinality(H), warning |-> Cardinality(W),
                critical |-> Cardinality(C), unknown |-> Cardinality(U) + Cardinality(overlaid),
                impacted |-> Cardinality(overlaid \cup blocked)]
  BY DEF ProjectedSiteHealth
<1>2. /\ counts.healthy = Cardinality(H) /\ counts.warning = Cardinality(W)
      /\ counts.critical = Cardinality(C)
      /\ counts.unknown = Cardinality(U) + Cardinality(overlaid)
      /\ counts.impacted = Cardinality(overlaid \cup blocked)
  <2> HIDE DEF H, W, C, U, overlaid, blocked
  <2> QED BY <1>1
<1>3. \A d \in alerted : page[d].status \in Statuses /\ (BySite(page[d]) => page[d].status = "unknown")
  BY DEF Page
<1>4. alerted \subseteq {"hub", "other"}
  BY DEF Page
<1>5. C = {d \in DOMAIN page : page[d].alerts /\ page[d].status = "critical"}
  BY <1>3
<1>6. /\ H \subseteq alerted /\ W \subseteq alerted /\ C \subseteq alerted /\ U \subseteq alerted
      /\ overlaid \subseteq alerted /\ overlaid \cup blocked \subseteq U \cup overlaid
  OBVIOUS
<1>7. /\ H \cap W = {} /\ (H \cup W) \cap C = {} /\ U \cap overlaid = {}
      /\ (H \cup W \cup C) \cap (U \cup overlaid) = {}
  BY <1>3
<1>8. alerted = (H \cup W \cup C) \cup (U \cup overlaid)
  BY <1>3 DEF Statuses
<1>9. \A d \in alerted : page[d].status = "critical" => d \in C
  BY <1>3
<1> HIDE DEF H, W, C, U, overlaid, blocked, alerted
<1>10. /\ Cardinality(H \cup W) = Cardinality(H) + Cardinality(W)
       /\ Cardinality((H \cup W) \cup C) = Cardinality(H \cup W) + Cardinality(C)
       /\ Cardinality(U \cup overlaid) = Cardinality(U) + Cardinality(overlaid)
  BY <1>4, <1>6, <1>7, CountsAdd
<1>11. Cardinality(alerted) = Cardinality(H \cup W \cup C) + Cardinality(U \cup overlaid)
  BY <1>4, <1>6, <1>7, <1>8, CountsAdd
<1>12. /\ Cardinality(H) \in Nat /\ Cardinality(W) \in Nat /\ Cardinality(C) \in Nat
       /\ Cardinality(U) \in Nat /\ Cardinality(overlaid) \in Nat
  BY <1>4, <1>6, SmallSets
<1>13. Cardinality(overlaid \cup blocked) <= Cardinality(U \cup overlaid)
  <2>1. IsFiniteSet(U \cup overlaid)
    BY <1>4, <1>6, SmallSets
  <2> QED BY <1>6, <2>1, FS_Subset
<1>14. counts.critical = CountOf(page, "critical")
  BY <1>2, <1>5 DEF CountOf
<1>15. \A d \in alerted : page[d].status = "critical" => counts.critical > 0
  <2>1. C # {} => Cardinality(C) > 0
    BY <1>4, <1>6, SmallSets
  <2> QED BY <1>2, <1>9, <2>1
<1> QED BY <1>2, <1>10, <1>11, <1>12, <1>13, <1>14, <1>15 DEF alerted

-----------------------------------------------------------------------------
(***************************************************************************)
(* The overlay.                                                            *)
(***************************************************************************)

LEMMA EvaluationIs ==
  ASSUME NEW index, NEW raw, NEW s \in DOMAIN index,
         EvaluateSiteTopology(index, raw)[s].impacted
  PROVE  /\ index[s].up # {} /\ index[s].up \subseteq UnavailableSites(index, raw)
         /\ EvaluateSiteTopology(index, raw)[s].roots
              = CollectRootCauseSites(index[s].up, index, UnavailableSites(index, raw))
<1> PICK down : down = UnavailableSites(index, raw)
  OBVIOUS
<1> PICK roots : roots = CollectRootCauseSites(index[s].up, index, down)
  OBVIOUS
<1> PICK impacted : impacted = (/\ index[s].up # {} /\ index[s].up \subseteq down
                                /\ SiteShowsCascadeSignature(Projected(raw[s])))
  OBVIOUS
<1> PICK state : state = EvaluateSiteTopology(index, raw)[s]
  OBVIOUS
<1>1. state = [unavailable |-> index[s].up \cap down, impacted |-> impacted,
               roots |-> IF impacted THEN roots ELSE {}]
  BY DEF EvaluateSiteTopology
<1>2. state.impacted = impacted /\ state.roots = IF impacted THEN roots ELSE {}
  BY <1>1
<1>3. impacted
  BY <1>2, Zenon
<1>4. state.roots = roots
  BY <1>2, <1>3
<1> QED BY <1>3, <1>4

LEMMA UnavailableIs ==
  ASSUME NEW index, NEW raw
  PROVE  UnavailableSites(index, raw) \in SUBSET DOMAIN index
BY DEF UnavailableSites

\* The root causes of an impacted site are those of Explained.
LEMMA ImpactedRoots ==
  ASSUME NEW index, Topology(index), Ranked(index), NEW raw, NEW s \in DOMAIN index,
         EvaluateSiteTopology(index, raw)[s].impacted
  PROVE  /\ EvaluateSiteTopology(index, raw)[s].roots
              = RootsOf(index, UnavailableSites(index, raw), s)
         /\ EvaluateSiteTopology(index, raw)[s].roots # {}
<1>0. PICK down : down = UnavailableSites(index, raw)
  OBVIOUS
<1>1. down \in SUBSET DOMAIN index
  BY <1>0, UnavailableIs
<1>2. /\ index[s].up # {} /\ index[s].up \subseteq down
      /\ EvaluateSiteTopology(index, raw)[s].roots
           = CollectRootCauseSites(index[s].up, index, down)
  BY <1>0, EvaluationIs
<1>3. CollectRootCauseSites(index[s].up, index, down)
        = UNION {RootsOf(index, down, u) : u \in index[s].up \cap down}
  BY <1>1, WalkFindsRoots
<1>4. \A r : r \in RootsOf(index, down, s)
               <=> \E u \in index[s].up \cap down : r \in RootsOf(index, down, u)
  <2>1. index[s].up \cap down # {}
    BY <1>2
  <2> QED BY <1>1, <2>1, RootsStep
<1>5. RootsOf(index, down, s) = UNION {RootsOf(index, down, u) : u \in index[s].up \cap down}
  BY <1>4
<1>6. RootsOf(index, down, s) # {}
  <2>1. PICK u \in index[s].up \cap down : TRUE
    BY <1>2
  <2>2. RootsOf(index, down, u) # {}
    BY <1>1, <2>1, RootsExist DEF Topology
  <2> QED BY <1>4, <2>1, <2>2
<1> QED BY <1>0, <1>2, <1>3, <1>5, <1>6

LEMMA ExplainedHolds ==
  ASSUME NEW index, Topology(index), Ranked(index), NEW raw
  PROVE  Explained(index, raw)
<1> DEFINE down == UnavailableSites(index, raw)
<1>1. ASSUME NEW s \in DOMAIN index, EvaluateSiteTopology(index, raw)[s].impacted
      PROVE  EvaluateSiteTopology(index, raw)[s].roots
               = SourcesOf(index, down) \cap BehindOf(index, down, s)
  BY <1>1, ImpactedRoots DEF RootsOf
<1> QED BY <1>1 DEF Explained, SourcesOf, BehindOf, Closed

\* The rows of the devices of the sites.
Rows(raw) ==
  \A s \in Sites : /\ DOMAIN raw[s] \subseteq {"hub", "other"}
                   /\ \A d \in DOMAIN raw[s] : raw[s][d] \in DeviceRow

LEMMA ChoicesAreRows == \A raw \in [Sites -> DeviceChoices] : Rows(raw)
BY KindAssumption DEF Rows

\* The devices of a site with its state over them.
ShownOf(state, devices) == [d \in DOMAIN devices |-> GetDevice(state, devices[d])]

Devices(devices) ==
  /\ DOMAIN devices \subseteq {"hub", "other"}
  /\ \A d \in DOMAIN devices : devices[d] \in DeviceRow

LEMMA ShownIs ==
  ASSUME NEW state, NEW devices, Devices(devices)
  PROVE  /\ DOMAIN ShownOf(state, devices) = DOMAIN devices
         /\ \A d \in DOMAIN devices :
              /\ ShownOf(state, devices)[d] = GetDevice(state, devices[d])
              /\ DeviceShown(state, devices[d], ShownOf(state, devices)[d])
         /\ Page(ShownOf(state, devices))
<1> PICK page : page = ShownOf(state, devices)
  OBVIOUS
<1>1. DOMAIN page = DOMAIN devices /\ \A d \in DOMAIN devices : page[d] = GetDevice(state, devices[d])
  BY DEF ShownOf
<1>2. \A d \in DOMAIN devices : DeviceShown(state, devices[d], page[d])
  BY <1>1, DeviceIs DEF Devices
<1>3. Page(page)
  BY <1>1, <1>2 DEF Page, DeviceShown, Devices
<1> QED BY <1>1, <1>2, <1>3

\* What a map by key keeps has the key.
LEMMA KeptIs ==
  ASSUME NEW devices, NEW k \in DeviceKeys(devices), NEW last
  PROVE  KeptFor(k, devices, last) \in DOMAIN devices /\ devices[KeptFor(k, devices, last)].key = k
<1> DEFINE same == {d \in DOMAIN devices : devices[d].key = k}
<1>1. same # {}
  BY DEF DeviceKeys
<1>2. (CHOOSE d \in same : TRUE) \in same
  BY <1>1
<1>3. KeptFor(k, devices, last) \in same
  BY <1>2 DEF KeptFor
<1> QED BY <1>3

\* The bundle of a site in the given state, whose devices the later read found late.
BundleOf(bundle, state, late, last) ==
  /\ bundle.state = state
  /\ bundle.counts = ProjectedSiteHealth(ShownOf(state, late))
  /\ DOMAIN bundle.devices = DeviceKeys(late)
  /\ \A k \in DeviceKeys(late) :
       bundle.devices[k]
         = ProjectedDevice(KeptFor(k, late, last), state, late[KeptFor(k, late, last)])

LEMMA ProjectionIs ==
  ASSUME NEW index, DOMAIN index \subseteq Sites, NEW raw, NEW last, NEW s \in DOMAIN index
  PROVE  LET bundles == BuildSiteProjections(index, raw, last)
             state   == EvaluateSiteTopology(index, raw)[s]
             site    == ListSites(bundles)[s]
         IN  /\ s \in DOMAIN bundles /\ BundleOf(bundles[s], state, raw[s], last)
             /\ site.state = state /\ site.counts = bundles[s].counts
             /\ site.status = SiteStatusFromHealth(site.counts)
<1> PICK state : state = EvaluateSiteTopology(index, raw)[s]
  OBVIOUS
<1> PICK page : page = ShownOf(state, raw[s])
  OBVIOUS
<1> PICK kept : kept = [k \in DeviceKeys(raw[s]) |->
                          ProjectedDevice(KeptFor(k, raw[s], last), state,
                                          raw[s][KeptFor(k, raw[s], last)])]
  OBVIOUS
<1> PICK bundles : bundles = BuildSiteProjections(index, raw, last)
  OBVIOUS
<1>1. /\ DOMAIN bundles = DOMAIN index
      /\ bundles[s] = [state |-> state, devices |-> kept, counts |-> ProjectedSiteHealth(page)]
  BY DEF BuildSiteProjections, ShownOf
<1>2. BundleOf(bundles[s], state, raw[s], last)
  BY <1>1 DEF BundleOf
<1>3. ListSites(bundles)[s] = [state |-> bundles[s].state, counts |-> bundles[s].counts,
                               status |-> SiteStatusFromHealth(bundles[s].counts)]
  BY <1>1 DEF ListSites
<1> QED BY <1>1, <1>2, <1>3

\* An unavailable site none of whose upstreams is down raises its own alarm.
LEMMA SourceAlarms ==
  ASSUME NEW index, Topology(index), NEW raw, Rows(raw),
         NEW r \in SourcesOf(index, UnavailableSites(index, raw))
  PROVE  LET site == ListSites(BuildSiteProjections(index, raw, "hub"))[r]
         IN  /\ ~site.state.impacted
             /\ site.status = "alert" \/ (index[r].hub /\ ~raw[r]["hub"].alerts)
<1> PICK site : site = ListSites(BuildSiteProjections(index, raw, "hub"))[r]
  OBVIOUS
<1> PICK state : state = EvaluateSiteTopology(index, raw)[r]
  OBVIOUS
<1> PICK page : page = ShownOf(state, raw[r])
  OBVIOUS
<1> PICK projs : projs = Projected(raw[r])
  OBVIOUS
<1>1. /\ r \in DOMAIN index /\ r \in Sites /\ SiteUnavailable(index[r], projs)
      /\ index[r].up \cap UnavailableSites(index, raw) = {}
  BY DEF SourcesOf, UnavailableSites, Topology
<1>2. ~state.impacted
  <2> SUFFICES ASSUME state.impacted PROVE FALSE
    OBVIOUS
  <2>1. index[r].up # {} /\ index[r].up \subseteq UnavailableSites(index, raw)
    BY <1>1, EvaluationIs
  <2> QED BY <1>1, <2>1
<1>3. /\ site.state = state /\ site.counts = ProjectedSiteHealth(page)
      /\ site.status = SiteStatusFromHealth(site.counts)
      /\ DOMAIN page = DOMAIN raw[r] /\ Page(page)
      /\ \A d \in DOMAIN raw[r] : DeviceShown(state, raw[r][d], page[d])
  <2>1. Devices(raw[r])
    BY <1>1 DEF Rows, Devices
  <2>2. /\ site.state = state /\ site.counts = ProjectedSiteHealth(page)
        /\ site.status = SiteStatusFromHealth(site.counts)
    BY <1>1, ProjectionIs DEF Topology, BundleOf
  <2> QED BY <2>1, <2>2, ShownIs
<1>4. /\ DOMAIN projs = DOMAIN raw[r]
      /\ \A d \in DOMAIN raw[r] : projs[d] = ProjectDevice(raw[r][d])
  BY DEF Projected
<1>5. \A d \in DOMAIN raw[r] : page[d] = projs[d] /\ page[d].alerts = raw[r][d].alerts
  BY <1>2, <1>3, <1>4 DEF DeviceShown
<1>6. ASSUME NEW d \in DOMAIN page, page[d].alerts, page[d].status = "critical"
      PROVE  site.status = "alert"
  <2>1. site.counts.critical > 0
    BY <1>3, <1>6, CountsAreRight
  <2> QED BY <1>3, <2>1 DEF SiteStatusFromHealth
<1>7. CASE index[r].hub
  <2>1. "hub" \in DOMAIN raw[r] /\ projs["hub"].status = "critical"
    BY <1>1, <1>4, <1>7 DEF SiteUnavailable, IsDirectCritical
  <2>2. CASE raw[r]["hub"].alerts
    BY <1>2, <1>3, <1>5, <1>6, <2>1, <2>2
  <2> QED BY <1>2, <1>3, <1>7, <2>2
<1>8. CASE ~index[r].hub
  <2>1. CountOf(projs, "critical") > 0
    BY <1>1, <1>8 DEF SiteUnavailable
  <2>2. PICK d \in DOMAIN projs : projs[d].alerts /\ projs[d].status = "critical"
    <3> DEFINE critical == {d \in DOMAIN projs : projs[d].alerts /\ projs[d].status = "critical"}
    <3>1. critical # {}
      <4> SUFFICES ASSUME critical = {} PROVE FALSE
        OBVIOUS
      <4>1. CountOf(projs, "critical") = Cardinality({})
        BY DEF CountOf
      <4> QED BY <2>1, <4>1, FS_EmptySet
    <3> QED BY <3>1
  <2>3. site.status = "alert"
    BY <1>3, <1>4, <1>5, <1>6, <2>2
  <2> QED BY <1>2, <1>3, <2>3
<1> QED BY <1>7, <1>8

LEMMA AlarmedHolds ==
  ASSUME NEW index, Topology(index), Ranked(index), NEW raw, Rows(raw)
  PROVE  Alarmed(index, raw)
<1> PICK list : list = ListSites(BuildSiteProjections(index, raw, "hub"))
  OBVIOUS
<1>1. ASSUME NEW s \in DOMAIN index, list[s].state.impacted
      PROVE  /\ list[s].state.roots # {}
             /\ \A r \in list[s].state.roots :
                  /\ ~list[r].state.impacted
                  /\ list[r].status = "alert" \/ (index[r].hub /\ ~raw[r]["hub"].alerts)
  <2>1. list[s].state = EvaluateSiteTopology(index, raw)[s]
    BY ProjectionIs DEF Topology
  <2>2. /\ list[s].state.roots # {}
        /\ list[s].state.roots \subseteq SourcesOf(index, UnavailableSites(index, raw))
    BY <1>1, <2>1, ImpactedRoots DEF RootsOf
  <2> QED BY <2>2, SourceAlarms
<1> QED BY <1>1 DEF Alarmed

LEMMA CountsAllHolds ==
  ASSUME NEW page, Page(page)
  PROVE  CountsAll(ProjectedSiteHealth(page), page)
BY CountsAreRight DEF CountsAll

LEMMA PagesHold ==
  ASSUME NEW bundle, NEW state, NEW early, NEW late, NEW last,
         Devices(early), Devices(late), BundleOf(bundle, state, late, last)
  PROVE  PagesMatch(bundle, early, late, last)
<1> PICK list : list = ListSiteDevices(bundle, early)
  OBVIOUS
<1> PICK page : page = GetSite(bundle, early, last).devices
  OBVIOUS
<1>1. /\ DOMAIN list = DOMAIN early
      /\ \A d \in DOMAIN early :
           list[d] = IF early[d].key \in DeviceKeys(late)
                       THEN ProjectedDevice(KeptFor(early[d].key, late, last), state,
                                            late[KeptFor(early[d].key, late, last)])
                       ELSE ProjectedDevice(d, state, early[d])
  BY DEF ListSiteDevices, BundleOf
<1>2. \A d, row : ProjectedDevice(d, state, row).proj = GetDevice(state, row)
  BY DEF ProjectedDevice
<1>3. ASSUME state.impacted, NEW d \in DOMAIN list
      PROVE  ~IsDirectCritical(list[d].proj)
  <2>1. PICK row \in DeviceRow : list[d].proj = GetDevice(state, row)
    <3>1. CASE early[d].key \in DeviceKeys(late)
      <4>1. late[KeptFor(early[d].key, late, last)] \in DeviceRow
        BY <3>1, KeptIs DEF Devices
      <4> QED BY <1>1, <1>2, <1>3, <3>1, <4>1
    <3>2. CASE early[d].key \notin DeviceKeys(late)
      <4>1. early[d] \in DeviceRow
        BY <1>1, <1>3 DEF Devices
      <4> QED BY <1>1, <1>2, <1>3, <3>2, <4>1
    <3> QED BY <3>1, <3>2
  <2>2. DeviceShown(state, row, GetDevice(state, row))
    BY DeviceIs
  <2> QED BY <1>3, <2>1, <2>2 DEF DeviceShown
<1>4. ASSUME KeysAgree(early, late), NEW d \in DOMAIN early \cap DOMAIN late
      PROVE  /\ list[d] = ProjectedDevice(d, state, late[d])
             /\ KeptFor(early[d].key, early, last) = d
  <2>1. early[d].key = late[d].key /\ early[d].key \in DeviceKeys(late)
        /\ early[d].key \in DeviceKeys(early)
    BY <1>4 DEF KeysAgree, DeviceKeys
  <2>2. KeptFor(early[d].key, late, last) = d
    BY <1>4, <2>1, KeptIs DEF KeysAgree
  <2>3. KeptFor(early[d].key, early, last) = d
    BY <1>4, <2>1, KeptIs DEF KeysAgree
  <2> QED BY <1>1, <2>1, <2>2, <2>3
<1>5. ASSUME KeysAgree(early, late), DOMAIN early = DOMAIN late
      PROVE  /\ \A d \in DOMAIN early : page[early[d].key] = list[d]
             /\ CountsAll(bundle.counts, [d \in DOMAIN list |-> list[d].proj])
  <2>1. ASSUME NEW d \in DOMAIN early
        PROVE  page[early[d].key] = list[d] /\ list[d].proj = GetDevice(state, late[d])
    <3>1. /\ list[d] = ProjectedDevice(d, state, late[d])
          /\ KeptFor(early[d].key, early, last) = d
      BY <1>4, <1>5
    <3>2. early[d].key \in DeviceKeys(early)
      BY DEF DeviceKeys
    <3>3. page = [k \in DeviceKeys(early) |-> list[KeptFor(k, early, last)]]
      BY DEF GetSite
    <3> QED BY <1>2, <3>1, <3>2, <3>3
  <2>2. [d \in DOMAIN list |-> list[d].proj] = ShownOf(state, late)
    BY <1>1, <1>5, <2>1 DEF ShownOf
  <2>3. CountsAll(bundle.counts, ShownOf(state, late))
    BY ShownIs, CountsAllHolds DEF BundleOf
  <2> QED BY <2>1, <2>2, <2>3
<1>6. bundle.state = state
  BY DEF BundleOf
<1> QED BY <1>1, <1>3, <1>4, <1>5, <1>6 DEF PagesMatch

LEMMA SearchHolds ==
  ASSUME NEW state, NEW row
  PROVE  SearchMatches(state, row)
<1> PICK proj : proj = ProjectDevice(row)
  OBVIOUS
<1> PICK dev : dev = GetDevice(state, row)
  OBVIOUS
<1>1. CASE state.impacted /\ IsDirectCritical(proj)
  <2>1. dev = [proj EXCEPT !.status = "unknown", !.reason = "upstream_site_unreachable"]
    BY <1>1 DEF GetDevice, ApplySiteDependencyOverlay
  <2>2. BySite(dev)
    BY <2>1 DEF BySite, ProjectDevice
  <2> QED BY <1>1, <2>2 DEF SearchMatches, SearchHit
<1>2. CASE ~(state.impacted /\ IsDirectCritical(proj))
  BY <1>2 DEF SearchMatches, SearchHit, GetDevice, ApplySiteDependencyOverlay
<1> QED BY <1>1, <1>2

LEMMA TalliedHolds ==
  ASSUME NEW index, Topology(index), NEW raw, Rows(raw)
  PROVE  Tallied(index, raw)
<1> SUFFICES ASSUME NEW last \in {"hub", "other"}, NEW s \in DOMAIN index
             PROVE  LET bundles == BuildSiteProjections(index, raw, last)
                        bundle  == BundleForSite(bundles, s)
                    IN  /\ CountsAll(bundle.counts, [d \in DOMAIN raw[s] |->
                                                       GetDevice(bundle.state, raw[s][d])])
                        /\ bundle.counts = ListSites(bundles)[s].counts
                        /\ \A early \in DeviceChoices : PagesMatch(bundle, early, raw[s], last)
                        /\ \A d \in DOMAIN raw[s] : SearchMatches(bundle.state, raw[s][d])
  BY DEF Tallied
<1> PICK bundles : bundles = BuildSiteProjections(index, raw, last)
  OBVIOUS
<1> PICK bundle : bundle = BundleForSite(bundles, s)
  OBVIOUS
<1> PICK state : state = EvaluateSiteTopology(index, raw)[s]
  OBVIOUS
<1>1. /\ s \in DOMAIN bundles /\ BundleOf(bundles[s], state, raw[s], last)
      /\ ListSites(bundles)[s].counts = bundles[s].counts
  BY ProjectionIs DEF Topology
<1>2. bundle = bundles[s]
  BY <1>1 DEF BundleForSite
<1>3. Devices(raw[s])
  BY DEF Rows, Topology, Devices
<1>4. \A early \in DeviceChoices : Devices(early)
  BY KindAssumption DEF Devices
<1>5. CountsAll(bundle.counts, ShownOf(state, raw[s]))
  BY <1>1, <1>2, <1>3, ShownIs, CountsAllHolds DEF BundleOf
<1>6. bundle.state = state
  BY <1>1, <1>2 DEF BundleOf
<1>7. \A early \in DeviceChoices : PagesMatch(bundle, early, raw[s], last)
  BY <1>1, <1>2, <1>3, <1>4, PagesHold
<1> QED BY <1>1, <1>2, <1>5, <1>6, <1>7, SearchHolds DEF ShownOf

LEMMA TopologiesAre ==
  \A index : index \in Topologies <=> Topology(index) /\ HubsAreCores(index) /\ Ranked(index)
<1>1. ASSUME NEW index, Topology(index), HubsAreCores(index), Ranked(index)
      PROVE  index \in Topologies
  <2>1. index \in Specs
    BY <1>1, AcceptedIsSpecs
  <2> QED BY <1>1, <2>1 DEF Topologies, Specs, Node, HubsAreCores
<1>2. ASSUME NEW index \in Topologies
      PROVE  Topology(index) /\ HubsAreCores(index) /\ Ranked(index)
  <2>1. index \in Specs /\ HubsAreCores(index) /\ Ranked(index)
    BY DEF Topologies, Specs, Node, HubsAreCores
  <2>2. PICK names \in SUBSET Sites : index \in [names -> Node]
    BY <2>1 DEF Specs
  <2> QED BY <2>1, <2>2 DEF Topology
<1> QED BY <1>1, <1>2

\* The rows as the dashboard completes them.
LEMMA CompletionIsTopology ==
  ASSUME NEW index, Topology(index), HubsAreCores(index), NEW core \in CoreIDs(index)
  PROVE  /\ Topology(CompleteMissingSiteUpstreams(index, core))
         /\ HubsAreCores(CompleteMissingSiteUpstreams(index, core))
<1> PICK whole : whole = CompleteMissingSiteUpstreams(index, core)
  OBVIOUS
<1>1. /\ DOMAIN whole = DOMAIN index
      /\ whole = [s \in DOMAIN index |-> whole[s]]
      /\ \A s \in DOMAIN index :
           \/ whole[s] = index[s]
           \/ whole[s] = [index[s] EXCEPT !.up = NamedUpstream(s, DOMAIN index, core)]
  BY DEF CompleteMissingSiteUpstreams
<1>2. ASSUME NEW s \in DOMAIN index
      PROVE  whole[s] \in Node /\ whole[s].hub = index[s].hub
  <2>1. index[s] \in Node
    BY DEF Topology
  <2>2. NamedUpstream(s, DOMAIN index, core) \in SUBSET Sites
    BY NamedIsHigher DEF Topology
  <2> QED BY <1>1, <2>1, <2>2 DEF Node
<1> QED BY <1>1, <1>2 DEF Topology, HubsAreCores

LEMMA OverlayFollows == IInv => OverlayIsSound
<1> SUFFICES ASSUME IInv PROVE OverlayIsSound
  OBVIOUS
<1>1. Topology(rows) /\ HubsAreCores(rows)
  BY DEF IInv, World
<1>2. \A index \in Topologies : \A raw \in [Sites -> DeviceChoices] :
        Alarmed(index, raw) /\ Explained(index, raw) /\ Tallied(index, raw)
  BY TopologiesAre, ChoicesAreRows, AlarmedHolds, ExplainedHolds, TalliedHolds
<1>3. /\ AlarmedTopologies = Topologies /\ ExplainedTopologies = Topologies
      /\ TalliedTopologies = Topologies
  BY <1>2 DEF AlarmedTopologies, ExplainedTopologies, TalliedTopologies, Judged
<1>4. ASSUME NEW core \in CoreIDs(rows), Ranked(CompleteMissingSiteUpstreams(rows, core))
      PROVE  CompleteMissingSiteUpstreams(rows, core) \in Topologies
  BY <1>1, <1>4, CompletionIsTopology, TopologiesAre
<1> QED
  BY <1>3, <1>4 DEF OverlayIsSound, AlarmSurvives, RootsAreSources, CountsMatchPages, Shown

\* For every topology the rows can hold and whatever devices its sites have: a site
\* whose alarms are laid to others names at least one, each raises its own alarm, the
\* root causes are the sources it depends on through unavailable sites alone, and the
\* counts of the overview are those of the devices shown (EvaluateSiteTopology,
\* collectRootCauseSites, ApplySiteDependencyOverlay, buildSiteProjections).
THEOREM OverlaySound == Spec => []OverlayIsSound
BY Inductive, OverlayFollows, PTL

=============================================================================
