------------------------- MODULE ControlPlaneProofs -------------------------
(***************************************************************************)
(* Proofs about ControlPlane for any devices, hosts, operators and         *)
(* mutations: the type invariant, tokens that are used once, which commits *)
(* are kept, the revision a commit is bound to, dependencies and hosts of  *)
(* the document, and reloads that never go back.                           *)
(***************************************************************************)
EXTENDS ControlPlane, TLAPS

-----------------------------------------------------------------------------
(***************************************************************************)
(* Documents.                                                              *)
(***************************************************************************)

\* The fields of a document, one by one.
LEMMA DocumentFields ==
  ASSUME NEW d, IsDocument(d)
  PROVE  /\ d = [temp |-> d.temp, cidrs |-> d.cidrs, limits |-> d.limits,
                 devices |-> d.devices]
         /\ d.temp \in Temps \cup {Nil} /\ d.cidrs \in Cidrs \cup {Nil}
         /\ d.limits \in Limits \cup {Nil}
         /\ DOMAIN d.devices \subseteq DeviceIds
         /\ d.devices \in [DOMAIN d.devices -> Entry]
BY DEF IsDocument

\* And back.
LEMMA DocumentOf ==
  ASSUME NEW temp \in Temps \cup {Nil}, NEW cidrs \in Cidrs \cup {Nil},
         NEW limits \in Limits \cup {Nil}, NEW D \in SUBSET DeviceIds,
         NEW devices \in [D -> Entry]
  PROVE  IsDocument([temp |-> temp, cidrs |-> cidrs, limits |-> limits,
                     devices |-> devices])
BY DEF IsDocument

\* The entry of an ID, found or blank.
LEMMA EntryIs ==
  ASSUME NEW d, IsDocument(d), NEW x
  PROVE  EntryOf(d, x) \in Entry
BY DocumentFields DEF EntryOf, BlankEntry, Entry

\* The one entry replaced or added.
LEMMA WithEntryIs ==
  ASSUME NEW d, IsDocument(d), NEW x \in DeviceIds, NEW e \in Entry
  PROVE  /\ IsDocument(WithEntry(d, x, e))
         /\ WithEntry(d, x, e).temp = d.temp
         /\ WithEntry(d, x, e).cidrs = d.cidrs
         /\ WithEntry(d, x, e).limits = d.limits
         /\ DOMAIN WithEntry(d, x, e).devices = DOMAIN d.devices \cup {x}
         /\ WithEntry(d, x, e).devices
              = [y \in DOMAIN d.devices \cup {x} |->
                   IF y = x THEN e ELSE d.devices[y]]
<1> DEFINE new == [y \in DOMAIN d.devices \cup {x} |->
                     IF y = x THEN e ELSE d.devices[y]]
<1>1. With(d.devices, x, e) = new
  BY DEF With
<1>2. new \in [DOMAIN d.devices \cup {x} -> Entry]
  BY DocumentFields
<1>3. WithEntry(d, x, e) = [temp |-> d.temp, cidrs |-> d.cidrs,
                            limits |-> d.limits, devices |-> new]
  <2> HIDE DEF new
  <2> QED BY <1>1, DocumentFields DEF WithEntry
<1>4. DOMAIN d.devices \cup {x} \in SUBSET DeviceIds
  BY DocumentFields
<1> HIDE DEF new
<1>5. IsDocument(WithEntry(d, x, e))
  BY <1>2, <1>3, <1>4, DocumentFields, DocumentOf
<1>6. DOMAIN new = DOMAIN d.devices \cup {x}
  BY DEF new
<1> QED BY <1>3, <1>5, <1>6 DEF new

\* What the encoder leaves of a document.
LEMMA EncodedIs ==
  ASSUME NEW d, IsDocument(d)
  PROVE  /\ IsDocument(Encoded(d))
         /\ Encoded(d) = [temp |-> d.temp, cidrs |-> d.cidrs,
                          limits |-> d.limits, devices |-> Encoded(d).devices]
         /\ DOMAIN Encoded(d).devices = DOMAIN d.devices
         /\ \A x \in DOMAIN d.devices :
              Encoded(d).devices[x] = [d.devices[x] EXCEPT !.up = Or(@, {})]
<1> DEFINE new == [x \in DOMAIN d.devices |->
                     [d.devices[x] EXCEPT !.up = Or(@, {})]]
<1>1. Encoded(d) = [temp |-> d.temp, cidrs |-> d.cidrs,
                    limits |-> d.limits, devices |-> new]
  BY DocumentFields DEF Encoded
<1>2. ASSUME NEW x \in DOMAIN d.devices
      PROVE  [d.devices[x] EXCEPT !.up = Or(@, {})] \in Entry
  <2>1. d.devices[x] \in Entry
    BY DocumentFields
  <2> QED BY <2>1 DEF Entry, Or
<1>3. new \in [DOMAIN d.devices -> Entry]
  BY <1>2
<1>4. IsDocument(Encoded(d))
  <2> HIDE DEF new
  <2> QED BY <1>1, <1>3, DocumentFields, DocumentOf
<1> QED BY <1>1, <1>4

\* No mutation makes anything but a document.
LEMMA ApplyIs ==
  ASSUME NEW d, IsDocument(d), NEW m \in Mutation
  PROVE  IsDocument(Apply(d, m))
<1>1. CASE m.method = "thresholds"
  <2>1. m.id \in DeviceIds \cup {Nil} /\ m.temp \in Temps
    BY <1>1 DEF Mutation
  <2>2. Apply(d, m) = SetThreshold(d, m.id, m.temp)
    BY <1>1 DEF Apply
  <2>3. CASE m.id = Nil
    <3>1. Apply(d, m) = [temp |-> m.temp, cidrs |-> d.cidrs,
                         limits |-> d.limits, devices |-> d.devices]
      BY <2>2, <2>3, DocumentFields DEF SetThreshold
    <3> QED BY <2>1, <3>1, DocumentFields, DocumentOf
  <2>4. CASE m.id # Nil
    <3> DEFINE e == [EntryOf(d, m.id) EXCEPT !.temp = m.temp]
    <3>1. e \in Entry
      BY <2>1, EntryIs DEF Entry
    <3>2. Apply(d, m) = WithEntry(d, m.id, e)
      BY <2>2, <2>4 DEF SetThreshold
    <3> HIDE DEF e
    <3>3. IsDocument(WithEntry(d, m.id, e))
      BY <2>1, <2>4, <3>1, WithEntryIs
    <3> QED BY <3>2, <3>3
  <2> QED BY <2>3, <2>4
<1>2. CASE m.method = "dependencies"
  <2>1. m.id \in DeviceIds /\ m.up \in SUBSET DeviceIds
    BY <1>2 DEF Mutation
  <2>2. Apply(d, m) = SetUpstreams(d, m.id, m.up)
    BY <1>2 DEF Apply
  <2> DEFINE e == [EntryOf(d, m.id) EXCEPT !.up = m.up]
  <2>3. e \in Entry
    BY <2>1, EntryIs DEF Entry
  <2>4. Apply(d, m) = WithEntry(d, m.id, e)
    BY <2>2 DEF SetUpstreams
  <2> HIDE DEF e
  <2>5. IsDocument(WithEntry(d, m.id, e))
    BY <2>1, <2>3, WithEntryIs
  <2> QED BY <2>4, <2>5
<1>3. CASE m.method = "device.alerting"
  <2>1. m.id \in DeviceIds /\ m.enabled \in BOOLEAN
    BY <1>3 DEF Mutation
  <2>2. Apply(d, m) = SetAlerting(d, m.id, m.enabled)
    BY <1>3 DEF Apply
  <2> DEFINE e == [EntryOf(d, m.id) EXCEPT !.alerts = m.enabled]
  <2>3. e \in Entry
    BY <2>1, EntryIs DEF Entry
  <2>4. Apply(d, m) = WithEntry(d, m.id, e)
    BY <2>2 DEF SetAlerting
  <2> HIDE DEF e
  <2>5. IsDocument(WithEntry(d, m.id, e))
    BY <2>1, <2>3, WithEntryIs
  <2> QED BY <2>4, <2>5
<1>4. CASE m.method = "discovery.policy"
  <2>1. m.cidrs \in Cidrs /\ m.limits \in Limits \cup {Nil}
    BY <1>4 DEF Mutation
  <2>2. Apply(d, m) = [temp |-> d.temp, cidrs |-> m.cidrs,
                       limits |-> Or(m.limits, d.limits), devices |-> d.devices]
    <3>1. Apply(d, m) = SetPolicy(d, m.cidrs, m.limits)
      BY <1>4 DEF Apply
    <3>2. PICK t, c, l, f : d = [temp |-> t, cidrs |-> c, limits |-> l,
                                 devices |-> f]
      BY DocumentFields
    <3> QED BY <3>1, <3>2 DEF SetPolicy
  <2>3. Or(m.limits, d.limits) \in Limits \cup {Nil}
    BY <2>1, DocumentFields DEF Or
  <2> QED BY <2>1, <2>2, <2>3, DocumentFields, DocumentOf
<1>5. CASE m.method = "discovery.accept"
  <2> DEFINE new == filterNewManagedAppends(d, m.reviews)
             ids == {r.id : r \in new}
             accepted(x) ==
               [BlankEntry EXCEPT !.host = (CHOOSE r \in new : r.id = x).host]
             devices == [x \in DOMAIN d.devices \cup ids |->
                           IF x \in ids THEN accepted(x) ELSE d.devices[x]]
  <2>1. m.reviews \in SUBSET Review
    BY <1>5 DEF Mutation
  <2>2. new \in SUBSET Review
    BY <2>1 DEF filterNewManagedAppends
  <2>3. ids \in SUBSET DeviceIds
    BY <2>2 DEF Review
  <2>4. ASSUME NEW x \in ids
        PROVE  accepted(x) \in Entry
    <3>1. PICK r \in new : r.id = x
      OBVIOUS
    <3>2. (CHOOSE s \in new : s.id = x) \in new
      BY <3>1
    <3>3. (CHOOSE s \in new : s.id = x).host \in Hosts
      BY <2>2, <3>2 DEF Review
    <3> QED BY <3>3 DEF BlankEntry, Entry
  <2>5. devices \in [DOMAIN d.devices \cup ids -> Entry]
    BY <2>4, DocumentFields
  <2>6. Apply(d, m) = [temp |-> d.temp, cidrs |-> d.cidrs,
                       limits |-> d.limits, devices |-> devices]
    BY <1>5, DocumentFields DEF Apply, AcceptReviewed
  <2>7. DOMAIN d.devices \cup ids \in SUBSET DeviceIds
    BY <2>3, DocumentFields
  <2> HIDE DEF devices, ids, new, accepted
  <2>8. IsDocument([temp |-> d.temp, cidrs |-> d.cidrs,
                    limits |-> d.limits, devices |-> devices])
    BY <2>5, <2>7, DocumentFields, DocumentOf
  <2> QED BY <2>6, <2>8
<1> QED BY <1>1, <1>2, <1>3, <1>4, <1>5 DEF Mutation

\* Entries and documents that the encoder cannot tell apart.
SameEntry(e, f) ==
  /\ e.host = f.host /\ e.temp = f.temp /\ e.alerts = f.alerts
  /\ Or(e.up, {}) = Or(f.up, {})

Same(d, e) ==
  /\ d.temp = e.temp /\ d.cidrs = e.cidrs /\ d.limits = e.limits
  /\ DOMAIN d.devices = DOMAIN e.devices
  /\ \A x \in DOMAIN d.devices : SameEntry(d.devices[x], e.devices[x])

LEMMA SameEntryEncoded ==
  ASSUME NEW e \in Entry, NEW f \in Entry, SameEntry(e, f)
  PROVE  [e EXCEPT !.up = Or(@, {})] = [f EXCEPT !.up = Or(@, {})]
<1>1. PICK h, u, t, a : e = [host |-> h, up |-> u, temp |-> t, alerts |-> a]
  BY DEF Entry
<1>2. PICK v : f = [host |-> h, up |-> v, temp |-> t, alerts |-> a]
  <2>1. f = [host |-> f.host, up |-> f.up, temp |-> f.temp, alerts |-> f.alerts]
    BY DEF Entry
  <2>2. f.host = h /\ f.temp = t /\ f.alerts = a
    BY <1>1 DEF SameEntry
  <2> QED BY <2>1, <2>2
<1>3. Or(u, {}) = Or(v, {})
  BY <1>1, <1>2 DEF SameEntry
<1> QED BY <1>1, <1>2, <1>3

LEMMA SameEncoded ==
  ASSUME NEW d, NEW e, IsDocument(d), IsDocument(e), Same(d, e)
  PROVE  Encoded(d) = Encoded(e)
<1>1. Encoded(d).devices = Encoded(e).devices
  <2>1. ASSUME NEW x \in DOMAIN d.devices
        PROVE  Encoded(d).devices[x] = Encoded(e).devices[x]
    <3>1. d.devices[x] \in Entry /\ e.devices[x] \in Entry
      BY DocumentFields DEF Same
    <3>2. [d.devices[x] EXCEPT !.up = Or(@, {})]
            = [e.devices[x] EXCEPT !.up = Or(@, {})]
      BY <3>1, SameEntryEncoded DEF Same
    <3>3. Encoded(d).devices[x] = [d.devices[x] EXCEPT !.up = Or(@, {})]
      BY EncodedIs
    <3>4. x \in DOMAIN e.devices
      BY DEF Same
    <3>5. Encoded(e).devices[x] = [e.devices[x] EXCEPT !.up = Or(@, {})]
      BY <3>4, EncodedIs
    <3> QED BY <3>2, <3>3, <3>5
  <2>2. /\ Encoded(d).devices \in [DOMAIN d.devices -> Entry]
        /\ Encoded(e).devices \in [DOMAIN d.devices -> Entry]
    BY EncodedIs, DocumentFields DEF Same
  <2> QED BY <2>1, <2>2
<1> QED BY <1>1, EncodedIs DEF Same

LEMMA EncodedSame ==
  ASSUME NEW d, IsDocument(d)
  PROVE  Same(Encoded(d), d)
<1>1. ASSUME NEW x \in DOMAIN d.devices
      PROVE  SameEntry(Encoded(d).devices[x], d.devices[x])
  <2>1. d.devices[x] \in Entry
    BY DocumentFields
  <2>2. Encoded(d).devices[x] = [d.devices[x] EXCEPT !.up = Or(@, {})]
    BY EncodedIs
  <2> QED BY <2>1, <2>2 DEF SameEntry, Entry, Or
<1>2. /\ Encoded(d).temp = d.temp /\ Encoded(d).cidrs = d.cidrs
      /\ Encoded(d).limits = d.limits
  BY EncodedIs
<1> QED BY <1>1, <1>2, EncodedIs DEF Same

LEMMA SameEntryOf ==
  ASSUME NEW d, NEW e, IsDocument(d), IsDocument(e), Same(d, e), NEW x
  PROVE  SameEntry(EntryOf(d, x), EntryOf(e, x))
BY DEF EntryOf, Same, SameEntry

LEMMA SameWithEntry ==
  ASSUME NEW d, NEW e, IsDocument(d), IsDocument(e), Same(d, e),
         NEW x \in DeviceIds, NEW f \in Entry, NEW g \in Entry, SameEntry(f, g)
  PROVE  Same(WithEntry(d, x, f), WithEntry(e, x, g))
<1> DEFINE dd == WithEntry(d, x, f)
           ee == WithEntry(e, x, g)
<1>1. /\ dd.temp = d.temp /\ dd.cidrs = d.cidrs /\ dd.limits = d.limits
      /\ dd.devices = [y \in DOMAIN d.devices \cup {x} |->
                         IF y = x THEN f ELSE d.devices[y]]
  BY WithEntryIs
<1>2. /\ ee.temp = e.temp /\ ee.cidrs = e.cidrs /\ ee.limits = e.limits
      /\ ee.devices = [y \in DOMAIN e.devices \cup {x} |->
                         IF y = x THEN g ELSE e.devices[y]]
  BY WithEntryIs
<1> HIDE DEF dd, ee
<1>3. Same(dd, ee)
  BY <1>1, <1>2 DEF Same
<1> QED BY <1>3 DEF dd, ee

\* A mutation cannot tell them apart either.
LEMMA SameApply ==
  ASSUME NEW d, NEW e, IsDocument(d), IsDocument(e), Same(d, e),
         NEW m \in Mutation
  PROVE  Same(Apply(d, m), Apply(e, m))
<1> DEFINE f == EntryOf(d, m.id)
           g == EntryOf(e, m.id)
<1>1. f \in Entry /\ g \in Entry /\ SameEntry(f, g)
  BY EntryIs, SameEntryOf
<1>2. CASE m.method = "thresholds"
  <2>1. m.id \in DeviceIds \cup {Nil} /\ m.temp \in Temps
    BY <1>2 DEF Mutation
  <2>2. /\ Apply(d, m) = SetThreshold(d, m.id, m.temp)
        /\ Apply(e, m) = SetThreshold(e, m.id, m.temp)
    BY <1>2 DEF Apply
  <2>3. CASE m.id = Nil
    <3>1. /\ Apply(d, m) = [d EXCEPT !.temp = m.temp]
          /\ Apply(e, m) = [e EXCEPT !.temp = m.temp]
      BY <2>2, <2>3 DEF SetThreshold
    <3>2. PICK t, c, l, v : d = [temp |-> t, cidrs |-> c, limits |-> l,
                                 devices |-> v]
      BY DocumentFields
    <3>3. PICK t2, c2, l2, v2 : e = [temp |-> t2, cidrs |-> c2, limits |-> l2,
                                     devices |-> v2]
      BY DocumentFields
    <3> QED BY <3>1, <3>2, <3>3 DEF Same
  <2>4. CASE m.id # Nil
    <3> DEFINE ff == [f EXCEPT !.temp = m.temp]
               gg == [g EXCEPT !.temp = m.temp]
    <3>1. ff \in Entry /\ gg \in Entry
      BY <1>1, <2>1 DEF Entry
    <3>2. SameEntry(ff, gg)
      BY <1>1 DEF SameEntry, Entry
    <3>3. Apply(d, m) = WithEntry(d, m.id, ff) /\ Apply(e, m) = WithEntry(e, m.id, gg)
      BY <2>2, <2>4 DEF SetThreshold
    <3> HIDE DEF ff, gg
    <3>4. Same(WithEntry(d, m.id, ff), WithEntry(e, m.id, gg))
      BY <2>1, <2>4, <3>1, <3>2, SameWithEntry
    <3> QED BY <3>3, <3>4
  <2> QED BY <2>3, <2>4
<1>3. CASE m.method = "dependencies"
  <2> DEFINE ff == [f EXCEPT !.up = m.up]
             gg == [g EXCEPT !.up = m.up]
  <2>1. m.id \in DeviceIds /\ m.up \in SUBSET DeviceIds
    BY <1>3 DEF Mutation
  <2>2. ff \in Entry /\ gg \in Entry
    BY <1>1, <2>1 DEF Entry
  <2>3. SameEntry(ff, gg)
    BY <1>1 DEF SameEntry, Entry
  <2>4. Apply(d, m) = WithEntry(d, m.id, ff) /\ Apply(e, m) = WithEntry(e, m.id, gg)
    BY <1>3 DEF Apply, SetUpstreams
  <2> HIDE DEF ff, gg
  <2>5. Same(WithEntry(d, m.id, ff), WithEntry(e, m.id, gg))
    BY <2>1, <2>2, <2>3, SameWithEntry
  <2> QED BY <2>4, <2>5
<1>4. CASE m.method = "device.alerting"
  <2> DEFINE ff == [f EXCEPT !.alerts = m.enabled]
             gg == [g EXCEPT !.alerts = m.enabled]
  <2>1. m.id \in DeviceIds /\ m.enabled \in BOOLEAN
    BY <1>4 DEF Mutation
  <2>2. ff \in Entry /\ gg \in Entry
    BY <1>1, <2>1 DEF Entry
  <2>3. SameEntry(ff, gg)
    BY <1>1, <2>1 DEF SameEntry, Entry
  <2>4. Apply(d, m) = WithEntry(d, m.id, ff) /\ Apply(e, m) = WithEntry(e, m.id, gg)
    BY <1>4 DEF Apply, SetAlerting
  <2> HIDE DEF ff, gg
  <2>5. Same(WithEntry(d, m.id, ff), WithEntry(e, m.id, gg))
    BY <2>1, <2>2, <2>3, SameWithEntry
  <2> QED BY <2>4, <2>5
<1>5. CASE m.method = "discovery.policy"
  <2>1. /\ Apply(d, m) = SetPolicy(d, m.cidrs, m.limits)
        /\ Apply(e, m) = SetPolicy(e, m.cidrs, m.limits)
    BY <1>5 DEF Apply
  <2>2. PICK t, c, l, v : d = [temp |-> t, cidrs |-> c, limits |-> l,
                               devices |-> v]
    BY DocumentFields
  <2>3. PICK t2, c2, l2, v2 : e = [temp |-> t2, cidrs |-> c2, limits |-> l2,
                                   devices |-> v2]
    BY DocumentFields
  <2> QED BY <2>1, <2>2, <2>3 DEF Same, SetPolicy
<1>6. CASE m.method = "discovery.accept"
  <2> DEFINE new == filterNewManagedAppends(d, m.reviews)
  <2>1. new = filterNewManagedAppends(e, m.reviews)
    <3>1. \A r \in m.reviews : ClashesWith(r, d.devices) <=> ClashesWith(r, e.devices)
      BY DEF ClashesWith, Same, SameEntry
    <3> QED BY <3>1 DEF filterNewManagedAppends
  <2> DEFINE ids == {r.id : r \in new}
             accepted(x) ==
               [BlankEntry EXCEPT !.host = (CHOOSE r \in new : r.id = x).host]
             with(devices) == [x \in DOMAIN devices \cup ids |->
                                 IF x \in ids THEN accepted(x) ELSE devices[x]]
  <2>2. /\ Apply(d, m) = [d EXCEPT !.devices = with(d.devices)]
        /\ Apply(e, m) = [e EXCEPT !.devices = with(e.devices)]
    BY <1>6, <2>1 DEF Apply, AcceptReviewed
  <2>3. /\ DOMAIN with(d.devices) = DOMAIN with(e.devices)
        /\ \A x \in DOMAIN with(d.devices) :
             SameEntry(with(d.devices)[x], with(e.devices)[x])
    BY DEF Same, SameEntry
  <2>4. PICK t, c, l, v : d = [temp |-> t, cidrs |-> c, limits |-> l,
                               devices |-> v]
    BY DocumentFields
  <2>5. PICK t2, c2, l2, v2 : e = [temp |-> t2, cidrs |-> c2, limits |-> l2,
                                   devices |-> v2]
    BY DocumentFields
  <2> HIDE DEF with
  <2> QED BY <2>2, <2>3, <2>4, <2>5 DEF Same
<1> QED BY <1>2, <1>3, <1>4, <1>5, <1>6 DEF Mutation

\* What an inference leaves of a document.
LEMMA EnrichIs ==
  ASSUME NEW d, IsDocument(d), NEW parent \in Parents(d.devices)
  PROVE  /\ IsDocument(Enrich(d, parent))
         /\ Enrich(d, parent).temp = d.temp
         /\ Enrich(d, parent).cidrs = d.cidrs
         /\ Enrich(d, parent).limits = d.limits
         /\ DOMAIN Enrich(d, parent).devices = DOMAIN d.devices
         /\ \A x \in DOMAIN d.devices :
              Enrich(d, parent).devices[x]
                = [d.devices[x] EXCEPT
                     !.up = IF parent[x] = Nil THEN Nil ELSE {parent[x]}]
<1> DEFINE new == [x \in DOMAIN d.devices |->
                     [d.devices[x] EXCEPT
                        !.up = IF parent[x] = Nil THEN Nil ELSE {parent[x]}]]
<1>1. Enrich(d, parent) = [temp |-> d.temp, cidrs |-> d.cidrs,
                           limits |-> d.limits, devices |-> new]
  <2>1. PICK t, c, l, v : d = [temp |-> t, cidrs |-> c, limits |-> l,
                               devices |-> v]
    BY DocumentFields
  <2>2. Enrich(d, parent) = [d EXCEPT !.devices = new]
    BY DEF Enrich
  <2> HIDE DEF new
  <2> QED BY <2>1, <2>2
<1>2. ASSUME NEW x \in DOMAIN d.devices
      PROVE  new[x] \in Entry
  <2>1. d.devices[x] \in Entry
    BY DocumentFields
  <2>2. PICK up : up = IF parent[x] = Nil THEN Nil ELSE {parent[x]}
    OBVIOUS
  <2>3. up \in (SUBSET DeviceIds) \cup {Nil}
    BY <2>2, DocumentFields DEF Parents
  <2>4. [d.devices[x] EXCEPT !.up = up] \in Entry
    BY <2>1, <2>3 DEF Entry
  <2> QED BY <2>2, <2>4
<1>3. new \in [DOMAIN d.devices -> Entry]
  BY <1>2
<1>4. IsDocument(Enrich(d, parent))
  <2> HIDE DEF new
  <2> QED BY <1>1, <1>3, DocumentFields, DocumentOf
<1> QED BY <1>1, <1>4

LEMMA SameEnrich ==
  ASSUME NEW d, NEW e, IsDocument(d), IsDocument(e), Same(d, e),
         NEW parent \in Parents(d.devices)
  PROVE  Same(Enrich(d, parent), Enrich(e, parent))
<1> DEFINE a == Enrich(d, parent)
           b == Enrich(e, parent)
<1>0. parent \in Parents(e.devices)
  BY DEF Same, Parents
<1>1. /\ a.temp = b.temp /\ a.cidrs = b.cidrs /\ a.limits = b.limits
      /\ DOMAIN a.devices = DOMAIN d.devices /\ DOMAIN b.devices = DOMAIN d.devices
  BY <1>0, EnrichIs DEF Same
<1>2. ASSUME NEW x \in DOMAIN d.devices
      PROVE  SameEntry(a.devices[x], b.devices[x])
  <2>1. PICK up : up = IF parent[x] = Nil THEN Nil ELSE {parent[x]}
    OBVIOUS
  <2>2. a.devices[x] = [d.devices[x] EXCEPT !.up = up]
    BY <2>1, EnrichIs
  <2>3. b.devices[x] = [e.devices[x] EXCEPT !.up = up]
    BY <1>0, <2>1, EnrichIs DEF Same
  <2>4. d.devices[x] \in Entry /\ e.devices[x] \in Entry
    BY DocumentFields DEF Same
  <2>5. SameEntry(d.devices[x], e.devices[x])
    BY DEF Same
  <2> HIDE DEF a, b
  <2> QED BY <2>2, <2>3, <2>4, <2>5 DEF SameEntry, Entry
<1> HIDE DEF a, b
<1>3. Same(a, b)
  BY <1>1, <1>2 DEF Same
<1> QED BY <1>3 DEF a, b

-----------------------------------------------------------------------------
(***************************************************************************)
(* The inventory a document makes.                                         *)
(***************************************************************************)

\* Hosts and upstreams come from the static file, then from the document.
StaticUp(x) == IF x \in StaticDevices THEN StaticInventory[x].up ELSE {}
HostIn(d, x) == IF x \in StaticDevices THEN StaticInventory[x].host
                                       ELSE EntryOf(d, x).host

LEMMA MergeFields ==
  ASSUME NEW d, IsDocument(d)
  PROVE  /\ DOMAIN mergeInventories(d) = StaticDevices \cup DOMAIN d.devices
         /\ \A x \in StaticDevices \cup DOMAIN d.devices :
              /\ mergeInventories(d)[x].host = HostIn(d, x)
              /\ mergeInventories(d)[x].up = Or(EntryOf(d, x).up, StaticUp(x))
<1>1. DOMAIN mergeInventories(d) = StaticDevices \cup DOMAIN d.devices
  BY DEF mergeInventories
<1>2. ASSUME NEW x \in StaticDevices
      PROVE  /\ mergeInventories(d)[x].host = HostIn(d, x)
             /\ mergeInventories(d)[x].up = Or(EntryOf(d, x).up, StaticUp(x))
  <2>1. mergeInventories(d)[x] = applyDeviceOverlay(StaticInventory[x], EntryOf(d, x))
    BY DEF mergeInventories
  <2> QED BY <2>1 DEF applyDeviceOverlay, HostIn, StaticUp
<1>3. ASSUME NEW x \in DOMAIN d.devices, x \notin StaticDevices
      PROVE  /\ mergeInventories(d)[x].host = HostIn(d, x)
             /\ mergeInventories(d)[x].up = Or(EntryOf(d, x).up, StaticUp(x))
  <2>1. mergeInventories(d)[x] = [d.devices[x] EXCEPT !.up = Or(@, {})]
    BY <1>3 DEF mergeInventories
  <2>2. PICK h, u, t, a : d.devices[x] = [host |-> h, up |-> u, temp |-> t,
                                          alerts |-> a]
    <3>1. d.devices[x] \in Entry
      BY DocumentFields
    <3> QED BY <3>1 DEF Entry
  <2> QED BY <1>3, <2>1, <2>2 DEF HostIn, StaticUp, EntryOf
<1> QED BY <1>1, <1>2, <1>3

\* A document that loads makes a configuration.
LEMMA MergeIsConfig ==
  ASSUME NEW d, IsDocument(d), Loadable(d)
  PROVE  /\ IsConfig(Merge(d))
         /\ Merge(d) # Nil
<1>1. ASSUME NEW x \in StaticDevices
      PROVE  mergeInventories(d)[x] \in Device
  <2>1. mergeInventories(d)[x] = applyDeviceOverlay(StaticInventory[x], EntryOf(d, x))
    BY DEF mergeInventories
  <2>2. StaticInventory[x] \in Device
    BY StaticFileLoads
  <2>3. EntryOf(d, x) \in Entry
    BY EntryIs
  <2>4. PICK e : e = EntryOf(d, x)
    OBVIOUS
  <2>5. PICK b : b = StaticInventory[x]
    OBVIOUS
  <2>6. applyDeviceOverlay(b, e) \in Device
    <3>1. b \in Device /\ e \in Entry
      BY <2>2, <2>3, <2>4, <2>5
    <3>2. /\ Or(e.up, b.up) \in SUBSET DeviceIds
          /\ Or(e.temp, b.temp) \in Temps \cup {Nil}
          /\ b.host \in Hosts
      BY <3>1 DEF Or, Entry, Device
    <3>3. Or(e.alerts, b.alerts) \in BOOLEAN \cup {Nil}
      BY <3>1 DEF Or, Entry, Device
    <3>4. applyDeviceOverlay(b, e)
            = [host |-> b.host, up |-> Or(e.up, b.up), temp |-> Or(e.temp, b.temp),
               alerts |-> Or(e.alerts, b.alerts)]
      BY DEF applyDeviceOverlay
    <3> QED BY <3>2, <3>3, <3>4 DEF Device
  <2> QED BY <2>1, <2>4, <2>5, <2>6
<1>2. ASSUME NEW x \in DOMAIN d.devices, x \notin StaticDevices
      PROVE  mergeInventories(d)[x] \in Device
  <2>1. mergeInventories(d)[x] = [d.devices[x] EXCEPT !.up = Or(@, {})]
    BY <1>2 DEF mergeInventories
  <2>2. d.devices[x] \in Entry /\ d.devices[x].host # Nil
    BY <1>2, DocumentFields DEF Loadable
  <2>3. PICK e : e = d.devices[x]
    OBVIOUS
  <2>4. [e EXCEPT !.up = Or(@, {})] \in Device
    BY <2>2, <2>3 DEF Or, Entry, Device
  <2> QED BY <2>1, <2>3, <2>4
<1>3. mergeInventories(d) \in [StaticDevices \cup DOMAIN d.devices -> Device]
  <2>1. mergeInventories(d) = [x \in StaticDevices \cup DOMAIN d.devices |->
                                 mergeInventories(d)[x]]
    BY DEF mergeInventories
  <2>2. \A x \in StaticDevices \cup DOMAIN d.devices :
           mergeInventories(d)[x] \in Device
    BY <1>1, <1>2
  <2> QED BY <2>1, <2>2
<1>4. StaticDevices \cup DOMAIN d.devices \in SUBSET DeviceIds
  BY DocumentFields, StaticFileLoads
<1>5. Or(d.temp, StaticTemp) \in Temps
  BY DocumentFields, StaticFileLoads DEF Or
<1>6. IsConfig(Merge(d))
  BY <1>3, <1>4, <1>5, DocumentFields DEF IsConfig, Merge
<1> QED BY <1>6, ControlAssumption

-----------------------------------------------------------------------------
(***************************************************************************)
(* Dependencies.                                                           *)
(***************************************************************************)

\* Edges removed and devices without upstreams added leave a graph valid.
LEMMA FewerEdges ==
  ASSUME NEW D, NEW E, validateDependencies(D), DOMAIN D \subseteq DOMAIN E,
         \A x \in DOMAIN E :
           E[x].up \subseteq (IF x \in DOMAIN D THEN D[x].up ELSE {})
  PROVE  validateDependencies(E)
<1>1. \A x \in DOMAIN E : E[x].up \subseteq DOMAIN E \ {x}
  BY DEF validateDependencies
<1>2. ASSUME NEW S \in SUBSET DOMAIN E, S # {}
      PROVE  \E x \in S : E[x].up \cap S = {}
  <2>1. CASE S \subseteq DOMAIN D
    <3>1. PICK x \in S : D[x].up \cap S = {}
      BY <1>2, <2>1 DEF validateDependencies, Acyclic
    <3> QED BY <2>1, <3>1
  <2>2. CASE ~(S \subseteq DOMAIN D)
    BY <2>2
  <2> QED BY <2>1, <2>2
<1> QED BY <1>1, <1>2 DEF validateDependencies, Acyclic

\* What the encoder does to the upstreams: an entry that had none set has none.
LEMMA EncodedDependencies ==
  ASSUME NEW d, IsDocument(d), validateDependencies(mergeInventories(d))
  PROVE  validateDependencies(mergeInventories(Encoded(d)))
<1> DEFINE D == mergeInventories(d)
           E == mergeInventories(Encoded(d))
<1>1. DOMAIN D = DOMAIN E
  BY MergeFields, EncodedIs
<1>2. ASSUME NEW x \in DOMAIN E
      PROVE  E[x].up \subseteq D[x].up
  <2>1. x \in StaticDevices \cup DOMAIN d.devices
    BY <1>2, MergeFields, EncodedIs
  <2>2. /\ D[x].up = Or(EntryOf(d, x).up, StaticUp(x))
        /\ E[x].up = Or(EntryOf(Encoded(d), x).up, StaticUp(x))
    BY <2>1, MergeFields, EncodedIs
  <2>3. CASE x \in DOMAIN d.devices
    <3>1. Encoded(d).devices[x] = [d.devices[x] EXCEPT !.up = Or(@, {})]
      BY <2>3, EncodedIs
    <3>2. d.devices[x] \in Entry
      BY <2>3, DocumentFields
    <3>3. EntryOf(Encoded(d), x).up = Or(EntryOf(d, x).up, {})
      BY <2>3, <3>1, <3>2, EncodedIs DEF EntryOf, Entry
    <3> QED BY <2>2, <3>3 DEF Or
  <2>4. CASE x \notin DOMAIN d.devices
    <3>1. EntryOf(Encoded(d), x) = EntryOf(d, x)
      BY <2>4, EncodedIs DEF EntryOf
    <3> QED BY <2>2, <3>1
  <2> QED BY <2>3, <2>4
<1> HIDE DEF D, E
<1>3. validateDependencies(D)
  BY DEF D
<1>4. validateDependencies(E)
  BY <1>1, <1>2, <1>3, FewerEdges
<1> QED BY <1>4 DEF E
-----------------------------------------------------------------------------
(***************************************************************************)
(* The inductive invariant.                                                *)
(***************************************************************************)
Phases == {"idle", "take", "validate", "lock", "write", "store"}
Committing(c) == pc[c] \in {"take", "validate", "lock", "write"}
Holding(c) == pc[c] \in {"validate", "lock", "write"}
Ready(c) == pc[c] \in {"lock", "write"}

\* Types, the locks, and the versions a connection may have read.
Shape ==
  /\ TypeOK
  /\ pc \in [Conns -> Phases] /\ seen \in [Conns -> Nat]
  /\ DOMAIN req = Conns /\ DOMAIN job = Conns
  /\ DOMAIN cfg = Conns /\ DOMAIN doc = Conns
  /\ DOMAIN wiz = Wizards /\ DOMAIN draft = Wizards
  /\ \A c \in Conns :
       /\ ~Running => pc[c] = "idle"
       /\ seen[c] <= version
       /\ pc[c] = "store" => loaded <= seen[c]

\* A commit that holds a prepared mutation is the only one to hold it, and
\* nobody has written it.
TokensInv ==
  /\ \A c \in Conns : Holding(c) =>
       req[c].token \notin DOMAIN items /\ writes[req[c].token] = 0
  /\ \A c, e \in Conns :
       Holding(c) /\ Holding(e) /\ req[c].token = req[e].token => c = e
  /\ \A t \in Tokens : t \in DOMAIN items \/ t > issued => writes[t] = 0
  /\ SingleUse

\* A reload knows the document of the version it has seen, a commit that of the
\* version it was checked on if nothing was written since.
VersionsInv ==
  /\ Running /\ loaded = version => current = Merge(managed)
  /\ \A c \in Conns :
       /\ pc[c] \in {"write", "store"} /\ seen[c] = version => doc[c] = managed
       /\ pc[c] = "store" /\ seen[c] = loaded => current = Merge(doc[c])
       /\ Committing(c) =>
            /\ req[c].since \in 0 .. loaded
            /\ req[c].since = loaded => req[c].revision = activeRevision
       /\ Holding(c) => job[c].revision = req[c].revision

\* Who was not overtaken works on the document that is on disk.
SerialInv ==
  /\ SerialCommits
  /\ \A c \in Conns \ overtaken : pc[c] = "write" => doc[c] = managed
  /\ \A w \in Probing \ overtaken : draft[w] = managed

Inventory(d) == StaticDevices \cup DOMAIN d.devices

KeepsStatic(devices) ==
  \A x \in StaticDevices :
    x \in DOMAIN devices /\ devices[x].host = StaticInventory[x].host

\* What the checks of Load find in order in a document.
Sound(d) ==
  /\ UniqueHosts(mergeInventories(d))
  /\ unchecked \/ validateDependencies(mergeInventories(d))

\* The documents that somebody may write back are as sound as the one on disk.
\* What a commit may rely on after the document has moved on since it was
\* checked: static devices keep their hosts.
ContentInv ==
  /\ Sound(managed)
  /\ Running => KeepsStatic(current.devices)
  /\ \A c \in Conns :
       /\ pc[c] = "write" => Sound(doc[c])
       /\ Ready(c) =>
            /\ KeepsStatic(cfg[c])
            /\ job[c].mutation.method = "dependencies" /\ seen[c] = version =>
                 ValidatePendingDependencyMutation(job[c].mutation.id,
                                                   job[c].mutation.up)
  /\ \A w \in Probing : UniqueHosts(mergeInventories(draft[w]))

IInv == Shape /\ TokensInv /\ VersionsInv /\ SerialInv /\ ContentInv

-----------------------------------------------------------------------------
(***************************************************************************)
(* Types, locks and versions.                                              *)
(***************************************************************************)

LEMMA InitDocument ==
  /\ IsDocument(NoDocument)
  /\ Encoded(NoDocument) = NoDocument
<1>1. IsDocument(NoDocument)
  <2> DEFINE none == [d \in {} |-> BlankEntry]
  <2>1. none \in [{} -> Entry]
    OBVIOUS
  <2>2. {} \in SUBSET DeviceIds
    OBVIOUS
  <2> HIDE DEF none
  <2>3. IsDocument([temp |-> Nil, cidrs |-> Nil, limits |-> Nil, devices |-> none])
    BY <2>1, <2>2, DocumentOf
  <2> QED BY <2>3 DEF NoDocument, none
<1>2. Encoded(NoDocument).devices = NoDocument.devices
  BY DEF NoDocument, Encoded
<1>3. Encoded(NoDocument) = NoDocument
  BY <1>1, <1>2, EncodedIs, DocumentFields DEF NoDocument
<1> QED BY <1>1, <1>3

LEMMA ShapeInit == Init => Shape
<1> SUFFICES ASSUME Init PROVE Shape
  OBVIOUS
<1> USE DEF Init
<1>1. IsDocument(managed) /\ IsDocument(serial)
  BY InitDocument
<1>2. IsConfig(current) /\ current # Nil
  BY InitDocument, MergeIsConfig, StaticFileLoads
<1>3. TypeOK
  BY <1>1, <1>2, ControlAssumption DEF TypeOK
<1> QED BY <1>2, <1>3 DEF Shape, Running, Phases

LEMMA ShapeStep == Shape /\ SerialInv /\ [Next]_vars => Shape'
<1> SUFFICES ASSUME Shape, SerialInv, [Next]_vars PROVE Shape'
  OBVIOUS
<1>1. ASSUME NEW c \in Conns, NEW m \in Mutations, Prepare(c, m)
      PROVE  Shape'
  <2> DEFINE item == [mutation |-> m, revision |-> activeRevision, expired |-> FALSE]
  <2>1. IsItem(item)
    BY <1>1 DEF Shape, TypeOK, IsItem, IsConfig, activeRevision, ConfigRevision,
                Prepare, Running
  <2>2. /\ items' = [t \in DOMAIN items \cup {issued + 1} |->
                       IF t = issued + 1 THEN item ELSE items[t]]
        /\ issued' = issued + 1
        /\ issued < MaxTokens
    BY <1>1 DEF Prepare, put, With
  <2> HIDE DEF item
  <2>3. /\ DOMAIN items' \subseteq 1 .. issued' /\ issued' \in 0 .. MaxTokens
        /\ \A t \in DOMAIN items' : IsItem(items'[t])
    BY <2>1, <2>2, ControlAssumption DEF Shape, TypeOK
  <2>4. UNCHANGED <<managed, current, conn, locks, crashes, wizard, history>>
    BY <1>1 DEF Prepare
  <2>5. UNCHANGED <<managed, current, pc, req, job, cfg, doc, seen, mutationMu,
                    reloadMu, wiz, draft, serial, version, loaded, writes, overtaken>>
    BY <2>4 DEF conn, locks, wizard, history
  <2>6. \A e \in Conns : pc[e] \in {"take", "validate", "lock", "write"} =>
          req[e].token \in 1 .. issued'
    BY <2>2, <2>3 DEF Shape, TypeOK
  <2>7. TypeOK'
    BY <2>3, <2>5, <2>6 DEF Shape, TypeOK
  <2> QED BY <2>5, <2>7 DEF Shape, Running
<1>2. ASSUME NEW t \in Tokens, Expire(t)
      PROVE  Shape'
  <2>1. /\ t \in DOMAIN items
        /\ items' = [items EXCEPT ![t].expired = TRUE]
        /\ UNCHANGED <<managed, current, issued, conn, locks, crashes, wizard, history>>
    BY <1>2 DEF Expire
  <2>2. IsItem(items'[t])
    <3>1. PICK D \in SUBSET DeviceIds :
            items[t] \in [mutation : Mutations, expired : BOOLEAN,
                          revision : [temp : Temps, devices : [D -> Device]]]
      BY <2>1 DEF Shape, TypeOK, IsItem
    <3>2. items'[t] = [items[t] EXCEPT !.expired = TRUE]
      BY <2>1
    <3> QED BY <3>1, <3>2 DEF IsItem
  <2>3. DOMAIN items' = DOMAIN items /\ \A u \in DOMAIN items' : IsItem(items'[u])
    BY <2>1, <2>2 DEF Shape, TypeOK
  <2>4. TypeOK'
    BY <2>1, <2>3 DEF Shape, TypeOK, conn, locks, wizard, history
  <2> QED BY <2>1, <2>4 DEF Shape, conn, locks, wizard, history, Running
<1>3. ASSUME NEW c \in Conns, NEW t \in Tokens, NEW method \in Methods,
             Commit(c, t, method)
      PROVE  Shape'
  <2>1. TypeOK'
    BY <1>3 DEF Commit, Shape, TypeOK, locks, wizard, history, server, Tokens
  <2> QED BY <1>3, <2>1 DEF Commit, Shape, locks, wizard, history, server, Running, Phases
<1>4. ASSUME NEW c \in Conns, BeginReload(c)
      PROVE  Shape'
  <2>1. TypeOK'
    BY <1>4, ControlAssumption
    DEF BeginReload, Shape, TypeOK, wizard, history, server, ReadManagedDocument
  <2> QED BY <1>4, <2>1
          DEF BeginReload, Shape, TypeOK, wizard, history, server, Running, Phases,
              ReadManagedDocument
<1>5. ASSUME NEW c \in Conns, take(c)
      PROVE  Shape'
  <2>1. TypeOK'
    BY <1>5 DEF take, Shape, TypeOK, Answer, locks, wizard, history
  <2> QED BY <1>5, <2>1 DEF take, Shape, TypeOK, Answer, locks, wizard, history, Running, Phases
<1>6. ASSUME NEW c \in Conns, Validate(c)
      PROVE  Shape'
  <2>1. Running
    BY <1>6 DEF Validate, Shape
  <2>2. IsInventory(current.devices, Device)
    BY <2>1 DEF Shape, TypeOK, IsConfig, IsInventory, Running
  <2>3. TypeOK'
    BY <1>6, <2>2 DEF Validate, Shape, TypeOK, Answer, server, locks, wizard, history
  <2> QED BY <1>6, <2>3
          DEF Validate, Shape, TypeOK, Answer, server, locks, wizard, history, Running, Phases
<1>7. ASSUME NEW c \in Conns, LockMutations(c)
      PROVE  Shape'
  <2>1. TypeOK'
    BY <1>7, ControlAssumption
    DEF LockMutations, ReadManagedDocument, Shape, TypeOK, server, wizard, history
  <2> QED BY <1>7, <2>1
          DEF LockMutations, ReadManagedDocument, Shape, server, wizard, history, Running, Phases
<1>8. ASSUME NEW c \in Conns, WriteManagedDocument(c)
      PROVE  Shape'
  <2> DEFINE m == job[c].mutation
  <2>1. m \in Mutation
    BY <1>8, ControlAssumption DEF WriteManagedDocument, Shape, TypeOK, IsItem
  <2>2. IsDocument(doc[c]) /\ IsDocument(serial)
    BY <1>8 DEF WriteManagedDocument, Shape, TypeOK
  <2>3. IsDocument(Apply(doc[c], m)) /\ IsDocument(Apply(serial, m))
    BY <2>1, <2>2, ApplyIs
  <2>4. IsDocument(Encoded(Apply(doc[c], m)))
    BY <2>3, EncodedIs
  <2>5. /\ pc[c] = "write"
        /\ managed' = Encoded(Apply(doc[c], m))
        /\ serial' \in {Apply(doc[c], m), Apply(serial, m)}
        /\ mutationMu' = Nil
        /\ Answer(c)
        /\ overtaken' = (overtaken \ {c}) \cup Probing
        /\ version' = version + 1
        /\ writes' = [writes EXCEPT ![req[c].token] = @ + 1]
        /\ UNCHANGED <<current, server, reloadMu, crashes, loaded, draft>>
        /\ wiz' = wiz \/ \E w \in Wizards : /\ wiz[w] = "idle"
                                            /\ wiz' = [wiz EXCEPT ![w] = "due"]
    BY <1>8 DEF WriteManagedDocument, MayEnrich, wizard
  <2> HIDE DEF m
  <2>6. IsDocument(managed') /\ IsDocument(serial')
    BY <2>3, <2>4, <2>5
  <2>7. writes' \in [Tokens -> Nat]
    BY <2>5, ControlAssumption DEF Shape, TypeOK, Tokens
  <2>8. /\ DOMAIN wiz' = Wizards /\ DOMAIN draft' = Wizards
        /\ \A w \in Wizards : /\ wiz'[w] \in {"idle", "due", "probing"}
                             /\ wiz'[w] = "probing" => IsDocument(draft'[w])
        /\ overtaken' \subseteq Conns \cup Wizards
    BY <2>5 DEF Shape, TypeOK, Probing
  <2>9. TypeOK'
    BY <2>5, <2>6, <2>7, <2>8, ControlAssumption DEF Shape, TypeOK, Answer, server
  <2> QED BY <2>5, <2>8, <2>9 DEF Shape, TypeOK, Answer, Running, Phases
<1>9. ASSUME NEW c \in Conns, WriteFails(c)
      PROVE  Shape'
  <2>1. TypeOK'
    BY <1>9, ControlAssumption DEF WriteFails, Shape, TypeOK, Answer, server, wizard
  <2> QED BY <1>9, <2>1
          DEF WriteFails, Shape, TypeOK, Answer, server, wizard, Running, Phases
<1>10. ASSUME NEW c \in Conns, EndReload(c)
       PROVE  Shape'
  <2>1. /\ IsConfig(current') \/ current' = current
        /\ Running'
        /\ loaded' \in {seen[c], loaded}
    <3>1. IsDocument(doc[c]) /\ Running
      BY <1>10 DEF EndReload, Shape, TypeOK
    <3> QED BY <1>10, <3>1, MergeIsConfig DEF EndReload, Running
  <2>2. /\ pc[c] = "store"
        /\ reloadMu' = Nil
        /\ Answer(c)
        /\ UNCHANGED <<managed, server, mutationMu, wiz, draft, crashes, serial,
                       version, writes, overtaken>>
    BY <1>10 DEF EndReload, wizard
  <2>3. TypeOK'
    BY <2>1, <2>2, ControlAssumption DEF Shape, TypeOK, Answer, server
  <2> QED BY <2>1, <2>2, <2>3 DEF Shape, TypeOK, Answer, Running, Phases
<1>11. CASE Crash
  <2>1. TypeOK'
    BY <1>11, ControlAssumption DEF Crash, Shape, TypeOK, wizard, history
  <2> QED BY <1>11, <2>1 DEF Crash, Shape, TypeOK, Running, Phases, wizard, history
<1>12. CASE Restart
  <2>1. IsConfig(current')
    BY <1>12, MergeIsConfig DEF Restart, Shape, TypeOK
  <2>2. TypeOK'
    BY <1>12, <2>1 DEF Restart, Shape, TypeOK, server, conn, locks, wizard
  <2> QED BY <1>12, <2>1, <2>2 DEF Restart, Shape, TypeOK, conn, wizard, Running
<1>13. CASE UNCHANGED vars
  <2>1. TypeOK'
    BY <1>13 DEF vars, Shape, TypeOK, server, conn, locks, wizard, history
  <2> QED BY <1>13, <2>1 DEF vars, Shape, conn, wizard, history, Running
<1>14. ASSUME NEW w \in Wizards, BeginEnrich(w)
       PROVE  Shape'
  <2>1. TypeOK'
    BY <1>14 DEF BeginEnrich, EnrichEnds, Shape, TypeOK, server, conn, locks, history
  <2> QED BY <1>14, <2>1
          DEF BeginEnrich, EnrichEnds, Shape, conn, history, Running
<1>15. ASSUME NEW w \in Wizards, EndEnrich(w)
       PROVE  Shape'
  <2>1. PICK parent \in Parents(draft[w].devices) :
          /\ managed' = Encoded(Enrich(draft[w], parent))
          /\ serial' = IF w \in overtaken THEN Enrich(draft[w], parent)
                                         ELSE Enrich(serial, parent)
    BY <1>15 DEF EndEnrich
  <2>2. /\ wiz[w] = "probing" /\ EnrichEnds(w)
        /\ overtaken' = (overtaken \ {w}) \cup (Probing \ {w})
                          \cup {c \in Conns : pc[c] = "write"}
        /\ version' = version + 1
        /\ UNCHANGED <<current, server, conn, locks, crashes, loaded, writes>>
    BY <1>15 DEF EndEnrich
  <2>3. IsDocument(draft[w])
    BY <2>2 DEF Shape, TypeOK
  <2>4. IsDocument(managed')
    BY <2>1, <2>3, EnrichIs, EncodedIs
  <2>5. IsDocument(serial')
    <3>1. CASE w \in overtaken
      BY <2>1, <2>3, <3>1, EnrichIs
    <3>2. CASE w \notin overtaken
      <4>1. Same(draft[w], serial)
        BY <2>2, <3>2, EncodedSame DEF SerialInv, SerialCommits, Shape, TypeOK, Probing
      <4>2. parent \in Parents(serial.devices)
        BY <2>1, <4>1 DEF Parents, Same
      <4> QED BY <2>1, <3>2, <4>2, EnrichIs DEF Shape, TypeOK
    <3> QED BY <3>1, <3>2
  <2>6. overtaken' \subseteq Conns \cup Wizards
    BY <2>2 DEF Shape, TypeOK, Probing
  <2>7. TypeOK'
    BY <2>2, <2>4, <2>5, <2>6, ControlAssumption
    DEF Shape, TypeOK, EnrichEnds, server, conn, locks
  <2> QED BY <2>2, <2>7 DEF Shape, TypeOK, EnrichEnds, conn, Running
<1>16. ASSUME NEW w \in Wizards, EnrichFails(w)
       PROVE  Shape'
  <2>1. TypeOK'
    BY <1>16 DEF EnrichFails, EnrichEnds, Shape, TypeOK, server, conn, locks
  <2> QED BY <1>16, <2>1 DEF EnrichFails, EnrichEnds, Shape, conn, Running
<1> QED BY <1>1, <1>2, <1>3, <1>4, <1>5, <1>6, <1>7, <1>8, <1>9, <1>10, <1>11,
           <1>12, <1>13, <1>14, <1>15, <1>16 DEF Next, Handle

-----------------------------------------------------------------------------
(***************************************************************************)
(* Tokens.                                                                 *)
(***************************************************************************)

LEMMA TokensStep == Shape /\ TokensInv /\ [Next]_vars => TokensInv'
<1> SUFFICES ASSUME Shape, TokensInv, [Next]_vars PROVE TokensInv'
  OBVIOUS
<1>0. /\ issued \in Nat /\ DOMAIN items \subseteq 1 .. issued
      /\ pc \in [Conns -> Phases]
      /\ writes \in [Tokens -> Nat]
      /\ DOMAIN req = Conns
      /\ \A c \in Conns : Committing(c) =>
           req[c].token \in Tokens /\ req[c].token <= issued
  BY ControlAssumption DEF Shape, TypeOK, Committing, Tokens
<1>1. ASSUME NEW c \in Conns, NEW m \in Mutations, Prepare(c, m)
      PROVE  TokensInv'
  <2>1. /\ DOMAIN items' = DOMAIN items \cup {issued + 1}
        /\ issued' = issued + 1
        /\ UNCHANGED <<pc, req, writes>>
    BY <1>1 DEF Prepare, put, With, conn, wizard, history
  <2> QED BY <1>0, <2>1 DEF TokensInv, Holding, Committing, SingleUse, Tokens
<1>2. ASSUME NEW t \in Tokens, Expire(t)
      PROVE  TokensInv'
  <2>1. DOMAIN items' = DOMAIN items /\ UNCHANGED <<issued, pc, req, writes>>
    BY <1>2 DEF Expire, conn, wizard, history
  <2> QED BY <2>1 DEF TokensInv, Holding, SingleUse
<1>3. ASSUME NEW c \in Conns, NEW t \in Tokens, NEW method \in Methods,
             Commit(c, t, method)
      PROVE  TokensInv'
  <2>1. /\ pc' = [pc EXCEPT ![c] = "take"]
        /\ \A e \in Conns \ {c} : req'[e] = req[e]
        /\ UNCHANGED <<items, issued, writes>>
    BY <1>0, <1>3 DEF Commit, server, wizard, history
  <2> QED BY <1>0, <2>1 DEF TokensInv, Holding, SingleUse
<1>4. ASSUME NEW c \in Conns, BeginReload(c)
      PROVE  TokensInv'
  <2>1. pc' = [pc EXCEPT ![c] = "store"] /\ UNCHANGED <<items, issued, req, writes>>
    BY <1>4 DEF BeginReload, server, wizard, history
  <2> QED BY <1>0, <2>1 DEF TokensInv, Holding, SingleUse
<1>5. ASSUME NEW c \in Conns, take(c)
      PROVE  TokensInv'
  <2>1. /\ DOMAIN items' = DOMAIN items \ {req[c].token}
        /\ pc[c] = "take"
        /\ UNCHANGED <<issued, writes>>
    BY <1>5 DEF take, wizard, history
  <2>2. CASE req[c].token \in DOMAIN items /\ Takes(items[req[c].token], req[c])
    <3>1. pc' = [pc EXCEPT ![c] = "validate"] /\ UNCHANGED req
      BY <1>5, <2>2 DEF take
    <3>2. writes[req[c].token] = 0
      BY <1>0, <2>1, <2>2 DEF TokensInv, Committing
    <3> QED BY <1>0, <2>1, <2>2, <3>1, <3>2 DEF TokensInv, Holding, SingleUse
  <2>3. CASE ~(req[c].token \in DOMAIN items /\ Takes(items[req[c].token], req[c]))
    <3>1. /\ pc' = [pc EXCEPT ![c] = "idle"]
          /\ \A e \in Conns \ {c} : req'[e] = req[e]
      BY <1>0, <1>5, <2>3 DEF take, Answer
    <3> QED BY <1>0, <2>1, <3>1 DEF TokensInv, Holding, SingleUse
  <2> QED BY <2>2, <2>3
<1>6. ASSUME NEW c \in Conns, Validate(c)
      PROVE  TokensInv'
  <2>1. /\ pc[c] = "validate"
        /\ \A e \in Conns \ {c} : req'[e] = req[e] /\ pc'[e] = pc[e]
        /\ \/ pc'[c] = "lock" /\ req'[c] = req[c]
           \/ pc'[c] = "idle"
        /\ UNCHANGED <<items, issued, writes>>
    BY <1>0, <1>6 DEF Validate, Answer, server, wizard, history
  <2> QED BY <1>0, <2>1 DEF TokensInv, Holding, SingleUse
<1>7. ASSUME NEW c \in Conns, LockMutations(c)
      PROVE  TokensInv'
  <2>1. /\ pc[c] = "lock" /\ pc' = [pc EXCEPT ![c] = "write"]
        /\ UNCHANGED <<items, issued, req, writes>>
    BY <1>7 DEF LockMutations, server, wizard, history
  <2> QED BY <1>0, <2>1 DEF TokensInv, Holding, SingleUse
<1>8. ASSUME NEW c \in Conns, WriteManagedDocument(c)
      PROVE  TokensInv'
  <2>1. /\ pc[c] = "write" /\ pc' = [pc EXCEPT ![c] = "idle"]
        /\ \A e \in Conns \ {c} : req'[e] = req[e]
        /\ writes' = [writes EXCEPT ![req[c].token] = @ + 1]
        /\ UNCHANGED <<items, issued>>
    BY <1>0, <1>8 DEF WriteManagedDocument, Answer, server
  <2>2. /\ writes'[req[c].token] = 1
        /\ \A t \in Tokens \ {req[c].token} : writes'[t] = writes[t]
    BY <1>0, <2>1 DEF TokensInv, Holding, Committing
  <2>3. req[c].token \in Tokens /\ req[c].token <= issued
        /\ req[c].token \notin DOMAIN items
    BY <1>0, <2>1 DEF TokensInv, Holding, Committing
  <2>4. ASSUME NEW e \in Conns, Holding(e)'
        PROVE  e # c /\ Holding(e) /\ req'[e] = req[e]
               /\ req[e].token \in Tokens \ {req[c].token}
    BY <1>0, <2>1, <2>4 DEF TokensInv, Holding, Committing
  <2>5. \A t \in Tokens : t \in DOMAIN items \/ t > issued => writes'[t] = 0
    BY <1>0, <2>2, <2>3 DEF TokensInv, Tokens
  <2>6. \A t \in Tokens : writes'[t] <= 1
    BY <2>2 DEF TokensInv, SingleUse
  <2> QED BY <2>1, <2>2, <2>4, <2>5, <2>6 DEF TokensInv, SingleUse
<1>9. ASSUME NEW c \in Conns, WriteFails(c) \/ EndReload(c)
      PROVE  TokensInv'
  <2>1. /\ pc' = [pc EXCEPT ![c] = "idle"]
        /\ \A e \in Conns \ {c} : req'[e] = req[e]
        /\ UNCHANGED <<items, issued, writes>>
    BY <1>0, <1>9 DEF WriteFails, EndReload, Answer, server
  <2> QED BY <1>0, <2>1 DEF TokensInv, Holding, SingleUse
<1>10. CASE Crash
  <2>1. /\ DOMAIN items' = {} /\ \A c \in Conns : pc'[c] = "idle"
        /\ UNCHANGED <<issued, writes>>
    BY <1>10 DEF Crash
  <2> QED BY <1>0, <2>1 DEF TokensInv, Holding, SingleUse
<1>11. CASE Restart \/ UNCHANGED vars \/ \E w \in Wizards :
              BeginEnrich(w) \/ EndEnrich(w) \/ EnrichFails(w)
  <2>1. UNCHANGED <<items, issued, pc, req, writes>>
    BY <1>11 DEF Restart, BeginEnrich, EndEnrich, EnrichFails, vars, server, conn,
                 history
  <2> QED BY <2>1 DEF TokensInv, Holding, SingleUse
<1> QED BY <1>1, <1>2, <1>3, <1>4, <1>5, <1>6, <1>7, <1>8, <1>9, <1>10, <1>11
        DEF Next, Handle

-----------------------------------------------------------------------------
(***************************************************************************)
(* Versions and revisions.                                                 *)
(***************************************************************************)

LEMMA VersionsStep == Shape /\ VersionsInv /\ [Next]_vars => VersionsInv'
<1> SUFFICES ASSUME Shape, VersionsInv, [Next]_vars PROVE VersionsInv'
  OBVIOUS
<1>0. /\ version \in Nat /\ loaded \in Nat /\ loaded <= version
      /\ pc \in [Conns -> Phases] /\ seen \in [Conns -> Nat]
      /\ DOMAIN req = Conns /\ DOMAIN job = Conns /\ DOMAIN doc = Conns
      /\ \A c \in Conns : seen[c] <= version
      /\ \A c \in Conns : pc[c] = "store" => loaded <= seen[c] /\ reloadMu = c
      /\ \A c \in Conns : ~Running => pc[c] = "idle"
  BY DEF Shape, TypeOK
<1> USE DEF Running, activeRevision, Committing, Holding
<1>1. ASSUME NEW c \in Conns, NEW m \in Mutations, Prepare(c, m)
      PROVE  VersionsInv'
  BY <1>1 DEF Prepare, conn, wizard, history, VersionsInv
<1>2. ASSUME NEW t \in Tokens, Expire(t)
      PROVE  VersionsInv'
  BY <1>2 DEF Expire, conn, wizard, history, VersionsInv
<1>3. ASSUME NEW c \in Conns, NEW t \in Tokens, NEW method \in Methods,
             Commit(c, t, method)
      PROVE  VersionsInv'
  BY <1>0, <1>3 DEF Commit, wizard, history, VersionsInv
<1>4. ASSUME NEW c \in Conns, BeginReload(c)
      PROVE  VersionsInv'
  BY <1>0, <1>4 DEF BeginReload, ReadManagedDocument, wizard, history, VersionsInv
<1>5. ASSUME NEW c \in Conns, take(c)
      PROVE  VersionsInv'
  <2>1. pc[c] = "take" /\ UNCHANGED <<managed, current, wizard, history>>
    BY <1>5 DEF take
  <2>2. CASE req[c].token \in DOMAIN items /\ Takes(items[req[c].token], req[c])
    <3>1. /\ pc' = [pc EXCEPT ![c] = "validate"]
          /\ job' = [job EXCEPT ![c] = items[req[c].token]]
          /\ UNCHANGED <<req, doc, seen>>
      BY <1>5, <2>2 DEF take
    <3>2. items[req[c].token].revision = req[c].revision
      BY <2>2 DEF Takes
    <3> QED BY <1>0, <2>1, <3>1, <3>2 DEF VersionsInv, wizard, history
  <2>3. CASE ~(req[c].token \in DOMAIN items /\ Takes(items[req[c].token], req[c]))
    <3>1. Answer(c)
      BY <1>5, <2>3 DEF take
    <3> QED BY <1>0, <2>1, <3>1 DEF Answer, VersionsInv, wizard, history
  <2> QED BY <2>2, <2>3
<1>6. ASSUME NEW c \in Conns, Validate(c)
      PROVE  VersionsInv'
  BY <1>0, <1>6 DEF Validate, Answer, wizard, history, VersionsInv
<1>7. ASSUME NEW c \in Conns, LockMutations(c)
      PROVE  VersionsInv'
  BY <1>0, <1>7 DEF LockMutations, ReadManagedDocument, wizard, history, VersionsInv
<1>8. ASSUME NEW c \in Conns, WriteManagedDocument(c)
      PROVE  VersionsInv'
  <2>1. Answer(c) /\ version' = version + 1 /\ UNCHANGED <<current, loaded>>
    BY <1>8 DEF WriteManagedDocument
  <2> QED BY <1>0, <2>1 DEF Answer, VersionsInv
<1>9. ASSUME NEW c \in Conns, WriteFails(c)
      PROVE  VersionsInv'
  BY <1>0, <1>9 DEF WriteFails, Answer, VersionsInv
<1>10. ASSUME NEW c \in Conns, EndReload(c)
       PROVE  VersionsInv'
  <2>1. /\ pc[c] = "store"
        /\ Answer(c)
        /\ UNCHANGED <<managed, version>>
        /\ \A e \in Conns : pc'[e] # "store"
    BY <1>0, <1>10 DEF EndReload, Answer
  <2>2. CASE UNCHANGED <<current, loaded>>
    BY <1>0, <2>1, <2>2 DEF Answer, VersionsInv
  <2>3. CASE current' = Merge(doc[c]) /\ loaded' = seen[c]
    <3>1. loaded' = version' => current' = Merge(managed')
      BY <1>0, <2>1, <2>3 DEF VersionsInv
    <3>2. /\ loaded' \in Nat /\ loaded <= loaded'
          /\ loaded' = loaded => current' = current
      BY <1>0, <2>1, <2>3 DEF VersionsInv
    <3>3. ASSUME NEW e \in Conns, Committing(e)'
          PROVE  /\ (req[e].since \in 0 .. loaded)'
                 /\ (req[e].since = loaded => req[e].revision = activeRevision)'
      <4>1. Committing(e) /\ req'[e] = req[e]
        BY <1>0, <2>1, <3>3 DEF Answer
      <4>2. req[e].since \in 0 .. loaded
        BY <4>1 DEF VersionsInv
      <4> QED BY <1>0, <3>2, <4>1, <4>2 DEF VersionsInv
    <3>4. ASSUME NEW e \in Conns, Holding(e)'
          PROVE  (job[e].revision = req[e].revision)'
      BY <1>0, <2>1, <3>4 DEF Answer, VersionsInv
    <3>5. ASSUME NEW e \in Conns, pc'[e] \in {"write", "store"}, (seen[e] = version)'
          PROVE  (doc[e] = managed)'
      BY <1>0, <2>1, <3>5 DEF Answer, VersionsInv
    <3> QED BY <2>1, <3>1, <3>3, <3>4, <3>5 DEF VersionsInv
  <2> QED BY <1>10, <2>2, <2>3 DEF EndReload
<1>11. CASE Crash
  BY <1>11 DEF Crash, VersionsInv
<1>12. CASE Restart
  <2>1. \A c \in Conns : pc'[c] = "idle"
    BY <1>0, <1>12 DEF Restart, conn
  <2> QED BY <1>12, <2>1 DEF Restart, VersionsInv
<1>13. CASE UNCHANGED vars
  BY <1>13 DEF vars, conn, history, VersionsInv
<1>14. ASSUME NEW w \in Wizards, BeginEnrich(w) \/ EnrichFails(w)
       PROVE  VersionsInv'
  BY <1>14 DEF BeginEnrich, EnrichFails, conn, history, VersionsInv
<1>15. ASSUME NEW w \in Wizards, EndEnrich(w)
       PROVE  VersionsInv'
  <2>1. version' = version + 1 /\ UNCHANGED <<current, conn, loaded>>
    BY <1>15 DEF EndEnrich
  <2> QED BY <1>0, <2>1 DEF conn, VersionsInv
<1> QED BY <1>1, <1>2, <1>3, <1>4, <1>5, <1>6, <1>7, <1>8, <1>9, <1>10, <1>11,
           <1>12, <1>13, <1>14, <1>15 DEF Next, Handle

-----------------------------------------------------------------------------
(***************************************************************************)
(* The document on disk.                                                   *)
(***************************************************************************)

\* It does not matter whether a mutation finds a document or its encoding.
LEMMA EncodedApply ==
  ASSUME NEW d, IsDocument(d), NEW m \in Mutation
  PROVE  Encoded(Apply(Encoded(d), m)) = Encoded(Apply(d, m))
<1> DEFINE e == Encoded(d)
<1>1. IsDocument(e) /\ Same(e, d)
  BY EncodedIs, EncodedSame
<1> HIDE DEF e
<1>2. Same(Apply(e, m), Apply(d, m))
  BY <1>1, SameApply
<1>3. IsDocument(Apply(e, m)) /\ IsDocument(Apply(d, m))
  BY <1>1, ApplyIs
<1>4. Encoded(Apply(e, m)) = Encoded(Apply(d, m))
  BY <1>2, <1>3, SameEncoded
<1> QED BY <1>4 DEF e

\* Nor does it to an inference.
LEMMA EncodedEnrich ==
  ASSUME NEW d, IsDocument(d), NEW parent \in Parents(Encoded(d).devices)
  PROVE  Encoded(Enrich(Encoded(d), parent)) = Encoded(Enrich(d, parent))
<1> DEFINE e == Encoded(d)
<1>1. IsDocument(e) /\ Same(e, d)
  BY EncodedIs, EncodedSame
<1> HIDE DEF e
<1>2. parent \in Parents(e.devices) /\ parent \in Parents(d.devices)
  BY <1>1 DEF e, Parents, Same
<1>3. Same(Enrich(e, parent), Enrich(d, parent))
  BY <1>1, <1>2, SameEnrich
<1>4. IsDocument(Enrich(e, parent)) /\ IsDocument(Enrich(d, parent))
  BY <1>1, <1>2, EnrichIs
<1>5. Encoded(Enrich(e, parent)) = Encoded(Enrich(d, parent))
  BY <1>3, <1>4, SameEncoded
<1> QED BY <1>5 DEF e

LEMMA SerialStep == Shape /\ SerialInv /\ [Next]_vars => SerialInv'
<1> SUFFICES ASSUME Shape, SerialInv, [Next]_vars PROVE SerialInv'
  OBVIOUS
<1>0. /\ pc \in [Conns -> Phases] /\ DOMAIN doc = Conns
      /\ DOMAIN wiz = Wizards /\ DOMAIN draft = Wizards
      /\ \A c \in Conns : pc[c] = "write" <=> mutationMu = c
      /\ Conns \cap Wizards = {}
      /\ overtaken \subseteq Conns \cup Wizards
  BY ControlAssumption DEF Shape, TypeOK
<1>1. ASSUME NEW c \in Conns, WriteManagedDocument(c)
      PROVE  SerialInv'
  <2> DEFINE m == job[c].mutation
  <2>1. /\ pc[c] = "write" /\ pc' = [pc EXCEPT ![c] = "idle"]
        /\ managed' = Encoded(Apply(doc[c], m))
        /\ serial' = IF c \in overtaken THEN Apply(doc[c], m) ELSE Apply(serial, m)
        /\ overtaken' = (overtaken \ {c}) \cup Probing
    BY <1>1 DEF WriteManagedDocument, Answer
  <2>2. m \in Mutation /\ IsDocument(serial)
    BY <2>1, ControlAssumption DEF Shape, TypeOK, IsItem
  <2>3. c \notin overtaken => doc[c] = Encoded(serial)
    BY <2>1 DEF SerialInv, SerialCommits
  <2> HIDE DEF m
  <2>4. managed' = Encoded(serial')
    BY <2>1, <2>2, <2>3, EncodedApply
  <2>5. \A e \in Conns : pc'[e] # "write"
    BY <1>0, <2>1
  <2>6. Probing' \subseteq Probing /\ Probing \subseteq Probing'
    <3>1. wiz' = wiz \/ \E w \in Wizards : /\ wiz[w] = "idle"
                                          /\ wiz' = [wiz EXCEPT ![w] = "due"]
      BY <1>1 DEF WriteManagedDocument, MayEnrich, wizard
    <3> QED BY <1>0, <3>1 DEF Probing
  <2>7. overtaken' \subseteq Probing'
    BY <1>0, <2>1, <2>6 DEF SerialInv, SerialCommits
  <2> QED BY <2>1, <2>4, <2>5, <2>6, <2>7 DEF SerialInv, SerialCommits
<1>2. ASSUME NEW c \in Conns, LockMutations(c)
      PROVE  SerialInv'
  <2>1. /\ pc[c] = "lock" /\ pc' = [pc EXCEPT ![c] = "write"]
        /\ doc' = [doc EXCEPT ![c] = managed]
        /\ UNCHANGED <<managed, serial, overtaken, wiz, draft>>
    BY <1>2 DEF LockMutations, ReadManagedDocument, wizard, history
  <2>2. Probing' = Probing
    BY <2>1 DEF Probing
  <2>3. \A e \in Conns : pc[e] = "write" => pc'[e] = "write"
    BY <1>0, <2>1
  <2>4. ASSUME NEW e \in Conns, pc'[e] = "write"
        PROVE  doc'[e] = managed \/ (pc[e] = "write" /\ doc'[e] = doc[e])
    BY <1>0, <2>1, <2>4
  <2> QED BY <2>1, <2>2, <2>3, <2>4 DEF SerialInv, SerialCommits
<1>3. ASSUME NEW c \in Conns,
             \/ \E m \in Mutations : Prepare(c, m)
             \/ \E t \in Tokens, method \in Methods : Commit(c, t, method)
             \/ BeginReload(c) \/ take(c) \/ Validate(c) \/ EndReload(c)
      PROVE  SerialInv'
  <2>1. UNCHANGED <<managed, serial, overtaken, wiz, draft>>
    BY <1>3 DEF Prepare, Commit, BeginReload, take, Validate, EndReload, wizard,
                history
  <2>2. \A e \in Conns : /\ pc'[e] = "write" <=> pc[e] = "write"
                         /\ pc'[e] = "write" => doc'[e] = doc[e]
    BY <1>0, <1>3 DEF Prepare, Commit, BeginReload, take, Validate,
                      EndReload, Answer, ReadManagedDocument, conn
  <2>3. Probing' = Probing
    BY <2>1 DEF Probing
  <2> QED BY <2>1, <2>2, <2>3 DEF SerialInv, SerialCommits
<1>4. ASSUME NEW c \in Conns, WriteFails(c)
      PROVE  SerialInv'
  <2>1. /\ overtaken' = overtaken \ {c} /\ pc' = [pc EXCEPT ![c] = "idle"]
        /\ UNCHANGED <<managed, serial, wiz, draft>>
        /\ \A e \in Conns \ {c} : doc'[e] = doc[e]
    BY <1>0, <1>4 DEF WriteFails, Answer, wizard
  <2>2. /\ Probing' = Probing
        /\ \A e \in Conns \ {c} : pc'[e] = pc[e]
        /\ pc'[c] # "write" /\ c \notin Wizards
    BY <1>0, <2>1 DEF Probing
  <2> QED BY <2>1, <2>2 DEF SerialInv, SerialCommits, Probing
<1>5. (\E t \in Tokens : Expire(t)) \/ Restart \/ UNCHANGED vars => SerialInv'
  <2>1. (\E t \in Tokens : Expire(t)) \/ Restart \/ UNCHANGED vars
          => UNCHANGED <<managed, serial, overtaken, wiz, draft, pc, doc>>
    BY DEF Expire, Restart, vars, conn, wizard, history
  <2> QED BY <2>1 DEF SerialInv, SerialCommits, Probing
<1>6. CASE Crash
  <2>1. /\ overtaken' = overtaken \ Conns
        /\ \A c \in Conns : pc'[c] = "idle"
        /\ UNCHANGED <<managed, serial, wiz, draft>>
    BY <1>6 DEF Crash, wizard
  <2>2. Probing' = Probing /\ Probing \subseteq Wizards
    BY <2>1 DEF Probing
  <2> QED BY <1>0, <2>1, <2>2 DEF SerialInv, SerialCommits
<1>7. ASSUME NEW w \in Wizards, BeginEnrich(w) \/ EnrichFails(w)
      PROVE  SerialInv'
  <2>1. UNCHANGED <<managed, serial, pc, doc>>
    BY <1>7 DEF BeginEnrich, EnrichFails, conn, history
  <2>2. \A v \in Wizards \ {w} : wiz'[v] = wiz[v] /\ draft'[v] = draft[v]
    BY <1>0, <1>7 DEF BeginEnrich, EnrichFails, EnrichEnds
  <2>3. CASE BeginEnrich(w)
    <3>1. wiz[w] = "due" /\ UNCHANGED overtaken
          /\ (wiz'[w] = "probing" => draft'[w] = managed)
      BY <1>0, <2>3 DEF BeginEnrich, EnrichEnds, history
    <3>2. Probing \subseteq Probing' /\ Probing' \subseteq Probing \cup {w}
      BY <2>2, <3>1 DEF Probing
    <3> QED BY <2>1, <2>2, <3>1, <3>2 DEF SerialInv, SerialCommits, Probing
  <2>4. CASE EnrichFails(w)
    <3>1. wiz'[w] = "idle" /\ overtaken' = overtaken \ {w}
      BY <1>0, <2>4 DEF EnrichFails, EnrichEnds
    <3>2. Probing' = Probing \ {w}
      BY <2>2, <3>1 DEF Probing
    <3> QED BY <1>0, <2>1, <2>2, <3>1, <3>2 DEF SerialInv, SerialCommits, Probing
  <2> QED BY <1>7, <2>3, <2>4
<1>8. ASSUME NEW w \in Wizards, EndEnrich(w)
      PROVE  SerialInv'
  <2>1. PICK parent \in Parents(draft[w].devices) :
          /\ managed' = Encoded(Enrich(draft[w], parent))
          /\ serial' = IF w \in overtaken THEN Enrich(draft[w], parent)
                                         ELSE Enrich(serial, parent)
    BY <1>8 DEF EndEnrich
  <2>2. /\ wiz[w] = "probing" /\ EnrichEnds(w)
        /\ overtaken' = (overtaken \ {w}) \cup (Probing \ {w})
                          \cup {c \in Conns : pc[c] = "write"}
        /\ UNCHANGED <<pc, doc>>
    BY <1>8 DEF EndEnrich, conn
  <2>3. managed' = Encoded(serial')
    <3>1. CASE w \in overtaken
      BY <2>1, <3>1
    <3>2. CASE w \notin overtaken
      <4>1. draft[w] = Encoded(serial) /\ IsDocument(serial)
        BY <2>2, <3>2 DEF SerialInv, SerialCommits, Shape, TypeOK, Probing
      <4> QED BY <2>1, <3>2, <4>1, EncodedEnrich
    <3> QED BY <3>1, <3>2
  <2>4. Probing' = Probing \ {w}
    BY <1>0, <2>2 DEF EnrichEnds, Probing
  <2>5. overtaken' \subseteq Probing' \cup {c \in Conns : pc'[c] = "write"}
    BY <1>0, <2>2, <2>4 DEF SerialInv, SerialCommits
  <2>6. /\ \A c \in Conns \ overtaken' : pc'[c] # "write"
        /\ \A v \in Probing' : v \in overtaken'
    BY <2>2, <2>4
  <2> QED BY <2>3, <2>5, <2>6 DEF SerialInv, SerialCommits
<1> QED BY <1>1, <1>2, <1>3, <1>4, <1>5, <1>6, <1>7, <1>8 DEF Next, Handle

-----------------------------------------------------------------------------
(***************************************************************************)
(* Hosts and dependencies of the document.                                 *)
(***************************************************************************)

\* What a mutation leaves of an entry, and the devices it adds: only an accept
\* adds devices or sets hosts, only a change of dependencies sets upstreams.
LEMMA WithEntryOf ==
  ASSUME NEW d, IsDocument(d), NEW x \in DeviceIds, NEW e \in Entry
  PROVE  /\ DOMAIN WithEntry(d, x, e).devices = DOMAIN d.devices \cup {x}
         /\ \A y : EntryOf(WithEntry(d, x, e), y) = IF y = x THEN e ELSE EntryOf(d, y)
<1> DEFINE w == WithEntry(d, x, e)
<1>1. w.devices = [y \in DOMAIN d.devices \cup {x} |->
                     IF y = x THEN e ELSE d.devices[y]]
  BY WithEntryIs
<1> HIDE DEF w
<1>2. /\ DOMAIN w.devices = DOMAIN d.devices \cup {x}
      /\ \A y : EntryOf(w, y) = IF y = x THEN e ELSE EntryOf(d, y)
  BY <1>1 DEF EntryOf
<1> QED BY <1>2 DEF w

LEMMA ApplyEntries ==
  ASSUME NEW d, IsDocument(d), NEW m \in Mutation, m.method # "discovery.accept"
  PROVE  /\ DOMAIN d.devices \subseteq DOMAIN Apply(d, m).devices
         /\ \A x : EntryOf(Apply(d, m), x).host = EntryOf(d, x).host
         /\ m.method # "dependencies" =>
              \A x : EntryOf(Apply(d, m), x).up = EntryOf(d, x).up
<1> DEFINE a == Apply(d, m)
           f == EntryOf(d, m.id)
<1>1. f \in Entry
  BY EntryIs
<1>2. ASSUME NEW g \in Entry, g.host = f.host,
             m.method # "dependencies" => g.up = f.up,
             m.id \in DeviceIds, a = WithEntry(d, m.id, g)
      PROVE  /\ DOMAIN d.devices \subseteq DOMAIN a.devices
             /\ \A x : EntryOf(a, x).host = EntryOf(d, x).host
             /\ m.method # "dependencies" =>
                  \A x : EntryOf(a, x).up = EntryOf(d, x).up
  <2>1. /\ DOMAIN a.devices = DOMAIN d.devices \cup {m.id}
        /\ \A y : EntryOf(a, y) = IF y = m.id THEN g ELSE EntryOf(d, y)
    BY <1>2, WithEntryOf
  <2> HIDE DEF a
  <2> QED BY <1>2, <2>1
<1>3. CASE m.method = "thresholds"
  <2>1. m.id \in DeviceIds \cup {Nil} /\ m.temp \in Temps
    BY <1>3 DEF Mutation
  <2>2. a = SetThreshold(d, m.id, m.temp)
    BY <1>3 DEF Apply
  <2>3. CASE m.id = Nil
    <3>1. a = [d EXCEPT !.temp = m.temp]
      BY <2>2, <2>3 DEF SetThreshold
    <3>2. PICK t, c, l, v : d = [temp |-> t, cidrs |-> c, limits |-> l,
                                 devices |-> v]
      BY DocumentFields
    <3>3. a.devices = d.devices
      BY <3>1, <3>2
    <3> HIDE DEF a
    <3>4. /\ DOMAIN d.devices \subseteq DOMAIN a.devices
          /\ \A x : EntryOf(a, x) = EntryOf(d, x)
      BY <3>3 DEF EntryOf
    <3> QED BY <3>4 DEF a
  <2>4. CASE m.id # Nil
    <3> DEFINE g == [f EXCEPT !.temp = m.temp]
    <3>1. g \in Entry /\ g.host = f.host /\ g.up = f.up
      BY <1>1, <2>1 DEF Entry
    <3>2. a = WithEntry(d, m.id, g)
      BY <2>2, <2>4 DEF SetThreshold
    <3> HIDE DEF g, f, a
    <3>4. /\ DOMAIN d.devices \subseteq DOMAIN a.devices
          /\ \A x : EntryOf(a, x).host = EntryOf(d, x).host
          /\ m.method # "dependencies" =>
               \A x : EntryOf(a, x).up = EntryOf(d, x).up
      BY <1>2, <2>1, <2>4, <3>1, <3>2
    <3> QED BY <3>4 DEF a
  <2> QED BY <2>3, <2>4
<1>4. CASE m.method = "dependencies"
  <2> DEFINE g == [f EXCEPT !.up = m.up]
  <2>1. m.id \in DeviceIds /\ m.up \in SUBSET DeviceIds
    BY <1>4 DEF Mutation
  <2>2. g \in Entry /\ g.host = f.host
    BY <1>1, <2>1 DEF Entry
  <2>3. a = WithEntry(d, m.id, g)
    BY <1>4 DEF Apply, SetUpstreams
  <2> HIDE DEF g, f, a
  <2>5. /\ DOMAIN d.devices \subseteq DOMAIN a.devices
        /\ \A x : EntryOf(a, x).host = EntryOf(d, x).host
    BY <1>2, <1>4, <2>1, <2>2, <2>3
  <2> QED BY <1>4, <2>5 DEF a
<1>5. CASE m.method = "device.alerting"
  <2> DEFINE g == [f EXCEPT !.alerts = m.enabled]
  <2>1. m.id \in DeviceIds /\ m.enabled \in BOOLEAN
    BY <1>5 DEF Mutation
  <2>2. g \in Entry /\ g.host = f.host /\ g.up = f.up
    BY <1>1, <2>1 DEF Entry
  <2>3. a = WithEntry(d, m.id, g)
    BY <1>5 DEF Apply, SetAlerting
  <2> HIDE DEF g, f, a
  <2>5. /\ DOMAIN d.devices \subseteq DOMAIN a.devices
        /\ \A x : EntryOf(a, x).host = EntryOf(d, x).host
        /\ m.method # "dependencies" =>
             \A x : EntryOf(a, x).up = EntryOf(d, x).up
    BY <1>2, <2>1, <2>2, <2>3
  <2> QED BY <2>5 DEF a
<1>6. CASE m.method = "discovery.policy"
  <2>1. a = SetPolicy(d, m.cidrs, m.limits)
    BY <1>6 DEF Apply
  <2>2. PICK t, c, l, v : d = [temp |-> t, cidrs |-> c, limits |-> l,
                               devices |-> v]
    BY DocumentFields
  <2>3. a.devices = d.devices
    BY <2>1, <2>2 DEF SetPolicy
  <2> HIDE DEF a
  <2>4. /\ DOMAIN d.devices \subseteq DOMAIN a.devices
        /\ \A x : EntryOf(a, x) = EntryOf(d, x)
    BY <2>3 DEF EntryOf
  <2> QED BY <2>4 DEF a
<1> QED BY <1>3, <1>4, <1>5, <1>6 DEF Mutation

LEMMA AcceptEntries ==
  ASSUME NEW d, IsDocument(d), NEW m \in Mutation, m.method = "discovery.accept",
         NEW new, new = filterNewManagedAppends(d, m.reviews)
  PROVE  /\ DOMAIN Apply(d, m).devices = DOMAIN d.devices \cup {r.id : r \in new}
         /\ \A x : EntryOf(Apply(d, m), x).up = EntryOf(d, x).up
         /\ \A x \in DOMAIN d.devices : EntryOf(Apply(d, m), x) = EntryOf(d, x)
         /\ \A x \in {r.id : r \in new} :
              \E r \in new : r.id = x /\ EntryOf(Apply(d, m), x).host = r.host
<1> DEFINE a == Apply(d, m)
           ids == {r.id : r \in new}
           accepted(x) ==
             [BlankEntry EXCEPT !.host = (CHOOSE r \in new : r.id = x).host]
<1>1. /\ DOMAIN a.devices = DOMAIN d.devices \cup ids
      /\ \A x \in DOMAIN d.devices \cup ids :
           a.devices[x] = IF x \in ids THEN accepted(x) ELSE d.devices[x]
  BY DocumentFields DEF Apply, AcceptReviewed
<1>2. \A x \in DOMAIN d.devices : x \notin ids
  BY DEF filterNewManagedAppends, ClashesWith
<1>3. ASSUME NEW x \in ids
      PROVE  /\ accepted(x).up = Nil
             /\ \E r \in new : r.id = x /\ accepted(x).host = r.host
  <2>1. PICK r \in new : r.id = x
    OBVIOUS
  <2>2. PICK s : s = CHOOSE q \in new : q.id = x
    OBVIOUS
  <2>3. s \in new /\ s.id = x
    BY <2>1, <2>2
  <2>4. accepted(x) = [host |-> s.host, up |-> Nil, temp |-> Nil, alerts |-> Nil]
    BY <2>2 DEF BlankEntry
  <2> HIDE DEF accepted
  <2> QED BY <2>3, <2>4
<1> HIDE DEF a, ids, accepted
<1>4. /\ \A x : EntryOf(a, x).up = EntryOf(d, x).up
      /\ \A x \in DOMAIN d.devices : EntryOf(a, x) = EntryOf(d, x)
      /\ \A x \in ids : \E r \in new : r.id = x /\ EntryOf(a, x).host = r.host
  <2>1. ASSUME NEW x \in ids
        PROVE  /\ EntryOf(a, x).up = EntryOf(d, x).up
               /\ \E r \in new : r.id = x /\ EntryOf(a, x).host = r.host
    <3>1. EntryOf(a, x) = accepted(x)
      BY <1>1 DEF EntryOf
    <3>2. EntryOf(d, x).up = Nil
      BY <1>2 DEF EntryOf, BlankEntry
    <3> QED BY <1>3, <3>1, <3>2
  <2>2. ASSUME NEW x, x \notin ids
        PROVE  EntryOf(a, x) = EntryOf(d, x)
    BY <1>1, <2>2 DEF EntryOf
  <2> QED BY <1>2, <2>1, <2>2
<1> QED BY <1>1, <1>4 DEF a, ids

\* A mutation removes no device.
LEMMA ApplyGrows ==
  ASSUME NEW d, IsDocument(d), NEW m \in Mutation
  PROVE  Inventory(d) \subseteq Inventory(Apply(d, m))
<1>1. CASE m.method = "discovery.accept"
  BY <1>1, AcceptEntries DEF Inventory
<1>2. CASE m.method # "discovery.accept"
  BY <1>2, ApplyEntries DEF Inventory
<1> QED BY <1>1, <1>2

\* Only a change of dependencies can make dependencies invalid.
LEMMA ApplyDependencies ==
  ASSUME NEW d, IsDocument(d), NEW m \in Mutation, m.method # "dependencies",
         validateDependencies(mergeInventories(d))
  PROVE  validateDependencies(mergeInventories(Apply(d, m)))
<1> DEFINE a == Apply(d, m)
           D == mergeInventories(d)
           E == mergeInventories(a)
<1>1. IsDocument(a)
  BY ApplyIs
<1>2. \A x : EntryOf(a, x).up = EntryOf(d, x).up
  BY ApplyEntries, AcceptEntries
<1>3. Inventory(d) \subseteq Inventory(a)
  BY ApplyGrows
<1> HIDE DEF a
<1>4. /\ DOMAIN D = Inventory(d) /\ DOMAIN E = Inventory(a)
      /\ \A x \in Inventory(d) : D[x].up = Or(EntryOf(d, x).up, StaticUp(x))
      /\ \A x \in Inventory(a) : E[x].up = Or(EntryOf(a, x).up, StaticUp(x))
  BY <1>1, MergeFields DEF Inventory
<1>5. ASSUME NEW x \in DOMAIN E
      PROVE  E[x].up \subseteq (IF x \in DOMAIN D THEN D[x].up ELSE {})
  <2>1. CASE x \in DOMAIN D
    <3>1. E[x].up = D[x].up
      BY <1>2, <1>4, <2>1
    <3> QED BY <2>1, <3>1
  <2>2. CASE x \notin DOMAIN D
    <3>1. EntryOf(d, x).up = Nil /\ StaticUp(x) = {}
      BY <1>4, <2>2 DEF EntryOf, BlankEntry, StaticUp, Inventory
    <3>2. E[x].up = {}
      BY <1>2, <1>4, <3>1 DEF Or
    <3> QED BY <2>2, <3>2
  <2> QED BY <2>1, <2>2
<1>6. validateDependencies(D) /\ DOMAIN D \subseteq DOMAIN E
  BY <1>3, <1>4
<1> HIDE DEF D, E
<1>7. validateDependencies(E)
  BY <1>5, <1>6, FewerEdges
<1> QED BY <1>7 DEF a, E

\* Hosts are unique if the hosts of the static file and of the document are.
LEMMA HostsOf ==
  ASSUME NEW d, IsDocument(d)
  PROVE  UniqueHosts(mergeInventories(d))
           <=> \A x, y \in Inventory(d) :
                 HostIn(d, x) # Nil /\ HostIn(d, x) = HostIn(d, y) => x = y
<1> DEFINE D == mergeInventories(d)
<1>1. DOMAIN D = Inventory(d) /\ \A x \in Inventory(d) : D[x].host = HostIn(d, x)
  BY MergeFields DEF Inventory
<1> HIDE DEF D
<1>2. UniqueHosts(D)
        <=> \A x, y \in Inventory(d) :
              HostIn(d, x) # Nil /\ HostIn(d, x) = HostIn(d, y) => x = y
  BY <1>1 DEF UniqueHosts
<1> QED BY <1>2 DEF D

\* The reviews that an accept adds clash with no device, whether it is in the
\* configuration the commit has read or only in the document.
LEMMA ApplyHosts ==
  ASSUME NEW d, IsDocument(d), NEW m \in Mutation, NEW devices,
         KeepsStatic(devices), Acceptable(m, devices, d),
         UniqueHosts(mergeInventories(d))
  PROVE  UniqueHosts(mergeInventories(Apply(d, m)))
<1> DEFINE a == Apply(d, m)
<1>1. IsDocument(a)
  BY ApplyIs
<1>2. \A x, y \in Inventory(d) :
        HostIn(d, x) # Nil /\ HostIn(d, x) = HostIn(d, y) => x = y
  BY HostsOf
<1>3. CASE m.method # "discovery.accept"
  <2>1. \A x : EntryOf(a, x).host = EntryOf(d, x).host
    BY <1>3, ApplyEntries
  <2> HIDE DEF a
  <2>2. \A x : HostIn(a, x) = HostIn(d, x)
    BY <2>1 DEF HostIn
  <2>3. \A x : HostIn(d, x) # Nil => x \in Inventory(d)
    BY DEF HostIn, EntryOf, BlankEntry, Inventory
  <2>4. \A x, y \in Inventory(a) :
          HostIn(a, x) # Nil /\ HostIn(a, x) = HostIn(a, y) => x = y
    BY <1>2, <2>2, <2>3
  <2>5. UniqueHosts(mergeInventories(a))
    BY <1>1, <2>4, HostsOf
  <2> QED BY <2>5 DEF a
<1>4. CASE m.method = "discovery.accept"
  <2> DEFINE new == filterNewManagedAppends(d, m.reviews)
             ids == {r.id : r \in new}
  <2>1. /\ DOMAIN a.devices = DOMAIN d.devices \cup ids
        /\ \A x \in DOMAIN d.devices : EntryOf(a, x) = EntryOf(d, x)
        /\ \A x \in ids : \E r \in new : r.id = x /\ EntryOf(a, x).host = r.host
    BY <1>4, AcceptEntries
  <2>2. /\ Distinct(m.reviews)
        /\ \A r \in m.reviews : ~ClashesWith(r, devices)
    BY <1>4 DEF Acceptable, approvedDevices, rejectActiveDuplicates
  <2>3. \A r \in new : r \in m.reviews /\ ~ClashesWith(r, d.devices)
    BY DEF filterNewManagedAppends
  <2> HIDE DEF a, new
  <2>4. ASSUME NEW x \in Inventory(d)
        PROVE  HostIn(a, x) = HostIn(d, x)
    <3>1. CASE x \in StaticDevices
      BY <3>1 DEF HostIn
    <3>2. CASE x \notin StaticDevices
      <4>1. x \in DOMAIN d.devices
        BY <3>2 DEF Inventory
      <4> QED BY <2>1, <3>2, <4>1 DEF HostIn
    <3> QED BY <3>1, <3>2
  <2>5. ASSUME NEW x \in ids
        PROVE  /\ x \notin Inventory(d)
               /\ \E r \in new : r.id = x /\ HostIn(a, x) = r.host
               /\ \A y \in Inventory(d) : HostIn(a, x) # HostIn(d, y)
    <3>1. PICK r \in new : r.id = x /\ EntryOf(a, x).host = r.host
      BY <2>1
    <3>2. ~ClashesWith(r, devices) /\ ~ClashesWith(r, d.devices)
      BY <2>2, <2>3
    <3>3. x \notin StaticDevices /\ x \notin DOMAIN d.devices
      BY <3>1, <3>2 DEF ClashesWith, KeepsStatic
    <3>4. HostIn(a, x) = r.host
      BY <3>1, <3>3 DEF HostIn
    <3>5. ASSUME NEW y \in Inventory(d)
          PROVE  r.host # HostIn(d, y)
      <4>1. CASE y \in StaticDevices
        BY <3>2, <4>1 DEF ClashesWith, KeepsStatic, HostIn
      <4>2. CASE y \notin StaticDevices
        <5>1. y \in DOMAIN d.devices
          BY <4>2 DEF Inventory
        <5> QED BY <3>2, <4>2, <5>1 DEF ClashesWith, HostIn, EntryOf
      <4> QED BY <4>1, <4>2
    <3> QED BY <3>1, <3>3, <3>4, <3>5 DEF Inventory
  <2>6. Inventory(a) = Inventory(d) \cup ids
    BY <2>1 DEF Inventory
  <2>7. ASSUME NEW x \in Inventory(a), NEW y \in Inventory(a),
               HostIn(a, x) # Nil, HostIn(a, x) = HostIn(a, y)
        PROVE  x = y
    <3>1. CASE x \in ids /\ y \in ids
      <4>1. PICK r \in new : r.id = x /\ HostIn(a, x) = r.host
        BY <2>5, <3>1
      <4>2. PICK q \in new : q.id = y /\ HostIn(a, y) = q.host
        BY <2>5, <3>1
      <4> QED BY <2>2, <2>3, <2>7, <4>1, <4>2 DEF Distinct
    <3>2. CASE x \in ids /\ y \in Inventory(d)
      BY <2>4, <2>5, <2>7, <3>2
    <3>3. CASE x \in Inventory(d) /\ y \in ids
      BY <2>4, <2>5, <2>7, <3>3
    <3>4. CASE x \in Inventory(d) /\ y \in Inventory(d)
      BY <1>2, <2>4, <2>7, <3>4
    <3> QED BY <2>6, <3>1, <3>2, <3>3, <3>4
  <2>8. UniqueHosts(mergeInventories(a))
    BY <1>1, <2>7, HostsOf
  <2> QED BY <2>8 DEF a
<1> QED BY <1>3, <1>4

\* The encoder keeps devices and hosts.
LEMMA EncodedHosts ==
  ASSUME NEW d, IsDocument(d)
  PROVE  /\ Inventory(Encoded(d)) = Inventory(d)
         /\ UniqueHosts(mergeInventories(d))
              => UniqueHosts(mergeInventories(Encoded(d)))
<1> DEFINE e == Encoded(d)
<1>1. IsDocument(e) /\ Same(e, d)
  BY EncodedIs, EncodedSame
<1> HIDE DEF e
<1>2. Inventory(e) = Inventory(d)
  BY <1>1 DEF Same, Inventory
<1>3. ASSUME NEW x
      PROVE  HostIn(e, x) = HostIn(d, x)
  BY <1>1, SameEntryOf DEF SameEntry, HostIn
<1>4. UniqueHosts(mergeInventories(d)) => UniqueHosts(mergeInventories(e))
  BY <1>1, <1>2, <1>3, HostsOf
<1> QED BY <1>2, <1>4 DEF e

\* So does an inference.
LEMMA EnrichHosts ==
  ASSUME NEW d, IsDocument(d), NEW parent \in Parents(d.devices),
         UniqueHosts(mergeInventories(d))
  PROVE  UniqueHosts(mergeInventories(Enrich(d, parent)))
<1> DEFINE e == Enrich(d, parent)
<1>1. IsDocument(e) /\ DOMAIN e.devices = DOMAIN d.devices
  BY EnrichIs
<1>2. ASSUME NEW x \in DOMAIN d.devices
      PROVE  e.devices[x].host = d.devices[x].host
  <2>1. PICK up : up = IF parent[x] = Nil THEN Nil ELSE {parent[x]}
    OBVIOUS
  <2>2. e.devices[x] = [d.devices[x] EXCEPT !.up = up]
    BY <2>1, EnrichIs
  <2>3. d.devices[x] \in Entry
    BY DocumentFields
  <2> HIDE DEF e
  <2> QED BY <2>2, <2>3 DEF Entry
<1> HIDE DEF e
<1>3. ASSUME NEW x
      PROVE  HostIn(e, x) = HostIn(d, x)
  BY <1>1, <1>2 DEF HostIn, EntryOf
<1>4. Inventory(e) = Inventory(d)
  BY <1>1 DEF Inventory
<1>5. UniqueHosts(mergeInventories(e))
  BY <1>1, <1>3, <1>4, HostsOf
<1> QED BY <1>5 DEF e

\* Whatever upstreams a document had, those that an inference writes are trees of
\* its devices, next to the static file's own upstreams of the devices that the
\* document leaves alone.
LEMMA EnrichDependencies ==
  ASSUME NEW d, IsDocument(d), NEW parent \in Parents(d.devices)
  PROVE  validateDependencies(mergeInventories(Encoded(Enrich(d, parent))))
<1> DEFINE e == Enrich(d, parent)
           f == Encoded(e)
           F == mergeInventories(f)
           S0 == mergeInventories(NoDocument)
<1>1. /\ IsDocument(e) /\ IsDocument(f)
      /\ DOMAIN e.devices = DOMAIN d.devices /\ DOMAIN f.devices = DOMAIN d.devices
  BY EnrichIs, EncodedIs
<1>2. ASSUME NEW x \in DOMAIN d.devices
      PROVE  f.devices[x].up = (IF parent[x] = Nil THEN {} ELSE {parent[x]})
  <2>1. PICK up : up = IF parent[x] = Nil THEN Nil ELSE {parent[x]}
    OBVIOUS
  <2>2. e.devices[x] = [d.devices[x] EXCEPT !.up = up]
    BY <2>1, EnrichIs
  <2>3. d.devices[x] \in Entry /\ e.devices[x] \in Entry
    BY <1>1, DocumentFields
  <2>4. f.devices[x] = [e.devices[x] EXCEPT !.up = Or(@, {})]
    BY <1>1, EncodedIs
  <2> HIDE DEF e, f
  <2>5. e.devices[x].up = up
    BY <2>2, <2>3 DEF Entry
  <2>6. f.devices[x].up = Or(up, {})
    BY <2>3, <2>4, <2>5 DEF Entry
  <2>7. parent[x] # Nil => {parent[x]} # Nil
    BY DocumentFields, ControlAssumption DEF Parents
  <2> QED BY <2>1, <2>6, <2>7 DEF Or
<1> HIDE DEF e, f
<1>3. /\ DOMAIN F = StaticDevices \cup DOMAIN d.devices
      /\ \A x \in DOMAIN F : F[x].up = Or(EntryOf(f, x).up, StaticUp(x))
  BY <1>1, MergeFields
<1>4. /\ DOMAIN S0 = StaticDevices
      /\ \A x \in StaticDevices : S0[x].up = StaticUp(x)
  <2>1. DOMAIN NoDocument.devices = {}
    BY DEF NoDocument
  <2>2. \A x : EntryOf(NoDocument, x).up = Nil
    BY <2>1 DEF EntryOf, BlankEntry
  <2> QED BY <2>1, <2>2, InitDocument, MergeFields DEF Or
<1>5. validateDependencies(S0)
  BY StaticFileLoads DEF Loadable
<1> HIDE DEF F, S0
<1>6. ASSUME NEW x \in DOMAIN d.devices
      PROVE  F[x].up = (IF parent[x] = Nil THEN {} ELSE {parent[x]})
  <2>1. EntryOf(f, x).up = (IF parent[x] = Nil THEN {} ELSE {parent[x]})
    BY <1>1, <1>2 DEF EntryOf
  <2>2. {} # Nil /\ (parent[x] # Nil => {parent[x]} # Nil)
    BY DocumentFields, ControlAssumption DEF Parents
  <2> QED BY <1>3, <2>1, <2>2 DEF Or
<1>7. ASSUME NEW x \in StaticDevices \ DOMAIN d.devices
      PROVE  F[x].up = S0[x].up
  BY <1>1, <1>3, <1>4 DEF EntryOf, BlankEntry, Or
<1>8. \A x \in DOMAIN F : F[x].up \subseteq DOMAIN F \ {x}
  <2>1. ASSUME NEW x \in DOMAIN d.devices
        PROVE  F[x].up \subseteq DOMAIN F \ {x}
    <3>1. parent[x] \in DOMAIN d.devices \cup {Nil}
      BY DEF Parents
    <3>2. parent[x] # x
      <4>1. {x} \in SUBSET DOMAIN d.devices /\ {x} # {}
        OBVIOUS
      <4>2. \E y \in {x} : parent[y] \notin {x}
        BY <4>1 DEF Parents
      <4> QED BY <4>2
    <3> QED BY <1>3, <1>6, <3>1, <3>2
  <2>2. ASSUME NEW x \in StaticDevices \ DOMAIN d.devices
        PROVE  F[x].up \subseteq DOMAIN F \ {x}
    BY <1>3, <1>4, <1>5, <1>7 DEF validateDependencies
  <2> QED BY <1>3, <2>1, <2>2
<1>9. ASSUME NEW S \in SUBSET DOMAIN F, S # {}
      PROVE  \E x \in S : F[x].up \cap S = {}
  <2> DEFINE T == S \cap DOMAIN d.devices
  <2>1. CASE T # {}
    <3>1. PICK x \in T : parent[x] \notin T
      BY <2>1 DEF Parents
    <3>2. parent[x] \in DOMAIN d.devices \cup {Nil}
      BY DEF Parents
    <3>3. F[x].up \cap S = {}
      BY <1>6, <3>1, <3>2
    <3> QED BY <3>1, <3>3
  <2>2. CASE T = {}
    <3>1. S \in SUBSET StaticDevices
      BY <1>3, <2>2
    <3>2. PICK x \in S : S0[x].up \cap S = {}
      BY <1>4, <1>5, <1>9, <3>1 DEF validateDependencies, Acyclic
    <3>3. x \in StaticDevices \ DOMAIN d.devices
      BY <2>2, <3>1
    <3> QED BY <1>7, <3>2, <3>3
  <2> QED BY <2>1, <2>2
<1>10. validateDependencies(F)
  BY <1>8, <1>9 DEF validateDependencies, Acyclic
<1> QED BY <1>10 DEF F, f, e

\* The configuration a document makes has the static devices at their hosts.
LEMMA MergeKeeps ==
  ASSUME NEW d, IsDocument(d)
  PROVE  KeepsStatic(Merge(d).devices)
<1>1. Merge(d).devices = mergeInventories(d)
  BY DEF Merge
<1> QED BY <1>1, MergeFields DEF KeepsStatic, HostIn

LEMMA ContentInit == Init => ContentInv
<1> SUFFICES ASSUME Init PROVE ContentInv
  OBVIOUS
<1>1. /\ managed = NoDocument /\ current = Merge(NoDocument)
      /\ \A c \in Conns : pc[c] = "idle"
      /\ Probing = {}
  BY DEF Init, Probing
<1>2. Sound(managed)
  BY <1>1, StaticFileLoads DEF Loadable, Sound
<1>3. KeepsStatic(current.devices)
  BY <1>1, InitDocument, MergeKeeps
<1> QED BY <1>1, <1>2, <1>3 DEF ContentInv, Ready

\* A step that writes nothing and brings nobody nearer to a write keeps it.
LEMMA ContentFrame ==
  ASSUME ContentInv,
         UNCHANGED <<managed, version, unchecked>>,
         current' = current \/ ~Running' \/ KeepsStatic(current'.devices),
         \A c \in Conns :
           /\ pc'[c] = "write" => pc[c] = "write" /\ doc'[c] = doc[c]
           /\ Ready(c)' => /\ Ready(c) /\ cfg'[c] = cfg[c]
                           /\ job'[c] = job[c] /\ seen'[c] = seen[c],
         \A w \in Probing' : w \in Probing /\ draft'[w] = draft[w]
  PROVE  ContentInv'
<1>1. Sound(managed)'
  BY DEF ContentInv, Sound
<1>2. Running' => KeepsStatic(current'.devices)
  BY DEF ContentInv, Running
<1>3. ASSUME NEW c \in Conns, pc'[c] = "write"
      PROVE  Sound(doc[c])'
  BY <1>3 DEF ContentInv, Sound
<1>4. ASSUME NEW c \in Conns, Ready(c)'
      PROVE  /\ KeepsStatic(cfg[c])'
             /\ (job[c].mutation.method = "dependencies" /\ seen[c] = version =>
                  ValidatePendingDependencyMutation(job[c].mutation.id,
                                                    job[c].mutation.up))'
  BY <1>4 DEF ContentInv, ValidatePendingDependencyMutation, KeepsStatic
<1>5. \A w \in Probing' : UniqueHosts(mergeInventories(draft'[w]))
  BY DEF ContentInv
<1> QED BY <1>1, <1>2, <1>3, <1>4, <1>5 DEF ContentInv

\* What a writer needs of the document it writes.  Whoever may write after it was
\* checked against an older one.
LEMMA ContentWrite ==
  ASSUME Shape, ContentInv,
         NEW next, IsDocument(next),
         managed' = Encoded(next),
         UniqueHosts(mergeInventories(next)),
         unchecked => unchecked',
         unchecked' \/ validateDependencies(mergeInventories(managed')),
         version' = version + 1,
         UNCHANGED current,
         \A c \in Conns :
           /\ pc'[c] = "write" => pc[c] = "write" /\ doc'[c] = doc[c]
           /\ Ready(c)' => /\ Ready(c) /\ cfg'[c] = cfg[c] /\ seen'[c] = seen[c],
         \A w \in Probing' : w \in Probing /\ draft'[w] = draft[w]
  PROVE  ContentInv'
<1>1. Sound(managed)'
  BY EncodedHosts DEF Sound
<1>2. ASSUME NEW c \in Conns, pc'[c] = "write"
      PROVE  Sound(doc[c])'
  BY <1>2 DEF ContentInv, Sound
<1>3. ASSUME NEW c \in Conns, Ready(c)'
      PROVE  KeepsStatic(cfg[c])' /\ seen'[c] # version'
  BY <1>3 DEF ContentInv, Shape, TypeOK, KeepsStatic
<1>4. Running' => KeepsStatic(current'.devices)
  BY DEF ContentInv, Running
<1>5. \A w \in Probing' : UniqueHosts(mergeInventories(draft'[w]))
  BY DEF ContentInv
<1> QED BY <1>1, <1>2, <1>3, <1>4, <1>5 DEF ContentInv

LEMMA ContentStep ==
  Shape /\ VersionsInv /\ ContentInv /\ [Next]_vars => ContentInv'
<1> SUFFICES ASSUME Shape, VersionsInv, ContentInv, [Next]_vars PROVE ContentInv'
  OBVIOUS
<1>0. /\ pc \in [Conns -> Phases] /\ seen \in [Conns -> Nat]
      /\ DOMAIN job = Conns /\ DOMAIN cfg = Conns /\ DOMAIN doc = Conns
      /\ DOMAIN wiz = Wizards /\ DOMAIN draft = Wizards
      /\ \A c \in Conns : ~Running => pc[c] = "idle"
      /\ \A c \in Conns : pc[c] = "write" <=> mutationMu = c
      /\ IsDocument(managed)
      /\ \A c \in Conns : pc[c] \in {"write", "store"} => IsDocument(doc[c])
      /\ \A w \in Probing : IsDocument(draft[w])
      /\ \A c \in Conns : Holding(c) => job[c].mutation \in Mutation
  BY ControlAssumption DEF Shape, TypeOK, Holding, IsItem, Probing
<1>1. ASSUME NEW c \in Conns,
             \/ \E m \in Mutations : Prepare(c, m)
             \/ \E t \in Tokens, method \in Methods : Commit(c, t, method)
             \/ take(c) \/ WriteFails(c) \/ BeginReload(c)
      PROVE  ContentInv'
  <2>1. UNCHANGED <<managed, current, version, unchecked, wiz, draft>>
    BY <1>1 DEF Prepare, Commit, take, WriteFails, BeginReload, wizard, history
  <2>2. \A e \in Conns :
          /\ pc'[e] = "write" => pc[e] = "write" /\ doc'[e] = doc[e]
          /\ Ready(e)' => /\ Ready(e)
                          /\ cfg'[e] = cfg[e] /\ job'[e] = job[e]
                          /\ seen'[e] = seen[e]
    BY <1>0, <1>1 DEF Prepare, Commit, take, WriteFails, BeginReload,
                      ReadManagedDocument, Answer, conn, Ready
  <2>3. Probing' = Probing
    BY <2>1 DEF Probing
  <2> QED BY <2>1, <2>2, <2>3, ContentFrame
<1>2. ASSUME NEW c \in Conns, Validate(c)
      PROVE  ContentInv'
  <2> DEFINE m == job[c].mutation
  <2>1. UNCHANGED <<managed, current, version, unchecked, wiz, draft>>
    BY <1>2 DEF Validate, wizard, history
  <2>2. Probing' = Probing
    BY <2>1 DEF Probing
  <2>3. CASE Answer(c)
    <3>1. \A e \in Conns :
            /\ pc'[e] = "write" => pc[e] = "write" /\ doc'[e] = doc[e]
            /\ Ready(e)' => /\ Ready(e)
                            /\ cfg'[e] = cfg[e] /\ job'[e] = job[e]
                            /\ seen'[e] = seen[e]
      BY <1>0, <2>3 DEF Answer, Ready
    <3> QED BY <2>1, <2>2, <3>1, ContentFrame
  <2>4. CASE /\ Valid(m)
             /\ pc' = [pc EXCEPT ![c] = "lock"]
             /\ cfg' = [cfg EXCEPT ![c] = current.devices]
             /\ seen' = [seen EXCEPT ![c] = version]
             /\ UNCHANGED <<job, doc>>
    <3>1. Running
      BY <1>0, <1>2 DEF Validate
    <3>2. m.method = "dependencies" => ValidatePendingDependencyMutation(m.id, m.up)
      BY <2>4 DEF Valid
    <3>3. KeepsStatic(current.devices)
      BY <3>1 DEF ContentInv
    <3>4. ASSUME NEW e \in Conns, pc'[e] = "write"
          PROVE  Sound(doc[e])'
      <4>1. pc[e] = "write"
        BY <1>0, <2>4, <3>4
      <4> QED BY <2>1, <2>4, <4>1 DEF ContentInv, Sound
    <3>5. ASSUME NEW e \in Conns, Ready(e)'
          PROVE  /\ KeepsStatic(cfg[e])'
                 /\ (job[e].mutation.method = "dependencies" /\ seen[e] = version =>
                      ValidatePendingDependencyMutation(job[e].mutation.id,
                                                        job[e].mutation.up))'
      <4>1. CASE e = c
        <5>1. cfg'[c] = current.devices /\ job' = job
          BY <1>0, <2>4
        <5> QED BY <2>1, <3>2, <3>3, <4>1, <5>1
                DEF ValidatePendingDependencyMutation, KeepsStatic
      <4>2. CASE e # c
        <5>1. Ready(e) /\ cfg'[e] = cfg[e] /\ seen'[e] = seen[e] /\ job' = job
          BY <1>0, <2>4, <3>5, <4>2 DEF Ready
        <5> QED BY <2>1, <5>1
                DEF ContentInv, ValidatePendingDependencyMutation, KeepsStatic
      <4> QED BY <4>1, <4>2
    <3> HIDE DEF m
    <3>6. Sound(managed)' /\ (Running' => KeepsStatic(current'.devices))
      BY <2>1, <3>3 DEF ContentInv, Sound
    <3>7. \A w \in Probing' : UniqueHosts(mergeInventories(draft'[w]))
      BY <2>1, <2>2 DEF ContentInv
    <3> QED BY <3>4, <3>5, <3>6, <3>7 DEF ContentInv
  <2> QED BY <1>2, <2>3, <2>4 DEF Validate
<1>3. ASSUME NEW c \in Conns, LockMutations(c)
      PROVE  ContentInv'
  <2>1. /\ pc[c] = "lock" /\ pc' = [pc EXCEPT ![c] = "write"]
        /\ doc' = [doc EXCEPT ![c] = managed]
        /\ UNCHANGED <<managed, current, version, unchecked, cfg, job, seen, wiz,
                       draft>>
    BY <1>0, <1>3 DEF LockMutations, ReadManagedDocument, wizard, history
  <2>2. Probing' = Probing
    BY <2>1 DEF Probing
  <2>3. ASSUME NEW e \in Conns, pc'[e] = "write"
        PROVE  Sound(doc[e])'
    <3>1. CASE e = c
      <4>1. doc'[e] = managed
        BY <1>0, <2>1, <3>1
      <4> QED BY <2>1, <4>1 DEF ContentInv, Sound
    <3>2. CASE e # c
      <4>1. pc[e] = "write" /\ doc'[e] = doc[e]
        BY <1>0, <2>1, <2>3, <3>2
      <4> QED BY <2>1, <4>1 DEF ContentInv, Sound
    <3> QED BY <3>1, <3>2
  <2>4. ASSUME NEW e \in Conns, Ready(e)'
        PROVE  /\ KeepsStatic(cfg[e])'
               /\ (job[e].mutation.method = "dependencies" /\ seen[e] = version =>
                    ValidatePendingDependencyMutation(job[e].mutation.id,
                                                      job[e].mutation.up))'
    <3>1. Ready(e)
      BY <1>0, <2>1, <2>4 DEF Ready
    <3> QED BY <2>1, <3>1
            DEF ContentInv, ValidatePendingDependencyMutation, KeepsStatic
  <2>5. Sound(managed)' /\ (Running' => KeepsStatic(current'.devices))
    BY <2>1 DEF ContentInv, Sound, Running
  <2>6. \A w \in Probing' : UniqueHosts(mergeInventories(draft'[w]))
    BY <2>1, <2>2 DEF ContentInv
  <2> QED BY <2>3, <2>4, <2>5, <2>6 DEF ContentInv
<1>4. ASSUME NEW c \in Conns, WriteManagedDocument(c)
      PROVE  ContentInv'
  <2> DEFINE m == job[c].mutation
             d == doc[c]
             a == Apply(d, m)
  <2>1. /\ pc[c] = "write"
        /\ Acceptable(m, cfg[c], d)
        /\ managed' = Encoded(a)
        /\ Answer(c)
        /\ version' = version + 1
        /\ unchecked' = (unchecked \/ (m.method = "dependencies" /\ seen[c] # version))
        /\ UNCHANGED <<current, draft>>
    BY <1>4 DEF WriteManagedDocument, MayEnrich, wizard
  <2>2. /\ m \in Mutation /\ IsDocument(d)
        /\ KeepsStatic(cfg[c])
        /\ m.method = "dependencies" /\ seen[c] = version =>
             ValidatePendingDependencyMutation(m.id, m.up)
        /\ Sound(d)
        /\ seen[c] = version => d = managed
    BY <1>0, <2>1 DEF ContentInv, VersionsInv, Ready, Holding
  <2> HIDE DEF d, m
  <2>3. IsDocument(a)
    BY <2>2, ApplyIs
  <2>4. UniqueHosts(mergeInventories(a))
    BY <2>1, <2>2, ApplyHosts DEF Sound
  <2>5. ASSUME ~unchecked'
        PROVE  validateDependencies(mergeInventories(managed'))
    <3>1. validateDependencies(mergeInventories(d))
      BY <2>1, <2>2, <2>5 DEF Sound
    <3>2. validateDependencies(mergeInventories(a))
      <4>1. CASE m.method = "dependencies"
        <5>1. ValidatePendingDependencyMutation(m.id, m.up) /\ d = managed
          BY <2>1, <2>2, <2>5, <4>1
        <5>2. a = SetUpstreams(managed, m.id, m.up)
          BY <4>1, <5>1 DEF Apply
        <5> QED BY <5>1, <5>2 DEF ValidatePendingDependencyMutation
      <4>2. CASE m.method # "dependencies"
        BY <2>2, <3>1, <4>2, ApplyDependencies
      <4> QED BY <4>1, <4>2
    <3> HIDE DEF a
    <3> QED BY <2>1, <2>3, <3>2, EncodedDependencies
  <2>6. \A e \in Conns :
          /\ pc'[e] = "write" => pc[e] = "write" /\ doc'[e] = doc[e]
          /\ Ready(e)' => /\ Ready(e) /\ cfg'[e] = cfg[e] /\ seen'[e] = seen[e]
    BY <1>0, <2>1 DEF Answer, Ready
  <2>7. \A w \in Probing' : w \in Probing
    <3>1. wiz' = wiz \/ \E w \in Wizards : wiz' = [wiz EXCEPT ![w] = "due"]
      BY <1>4 DEF WriteManagedDocument, MayEnrich, wizard
    <3> QED BY <1>0, <3>1 DEF Probing
  <2>8. unchecked => unchecked'
    BY <2>1
  <2> HIDE DEF a
  <2> QED BY <2>1, <2>3, <2>4, <2>5, <2>6, <2>7, <2>8, ContentWrite
<1>5. ASSUME NEW c \in Conns, EndReload(c)
      PROVE  ContentInv'
  <2>1. /\ pc[c] = "store" /\ Answer(c)
        /\ UNCHANGED <<managed, version, unchecked, wiz, draft>>
        /\ current' = current \/ current' = Merge(doc[c])
    BY <1>5 DEF EndReload, wizard
  <2>2. current' = current \/ KeepsStatic(current'.devices)
    BY <1>0, <2>1, MergeKeeps
  <2>3. \A e \in Conns :
          /\ pc'[e] = "write" => pc[e] = "write" /\ doc'[e] = doc[e]
          /\ Ready(e)' => /\ Ready(e)
                          /\ cfg'[e] = cfg[e] /\ job'[e] = job[e]
                          /\ seen'[e] = seen[e]
    BY <1>0, <2>1 DEF Answer, Ready
  <2>4. Probing' = Probing
    BY <2>1 DEF Probing
  <2> QED BY <2>1, <2>2, <2>3, <2>4, ContentFrame
<1>6. CASE Crash
  <2>1. /\ ~Running' /\ \A c \in Conns : pc'[c] = "idle"
        /\ UNCHANGED <<managed, version, unchecked, wiz, draft>>
    BY <1>6 DEF Crash, Running, wizard
  <2>2. Probing' = Probing
    BY <2>1 DEF Probing
  <2> QED BY <2>1, <2>2, ContentFrame DEF Ready
<1>7. CASE Restart
  <2>1. /\ current' = Merge(managed) /\ \A c \in Conns : pc'[c] = "idle"
        /\ UNCHANGED <<managed, version, unchecked, wiz, draft>>
    BY <1>0, <1>7 DEF Restart, conn, wizard
  <2>2. KeepsStatic(current'.devices)
    BY <1>0, <2>1, MergeKeeps
  <2>3. Probing' = Probing
    BY <2>1 DEF Probing
  <2> QED BY <2>1, <2>2, <2>3, ContentFrame DEF Ready
<1>8. CASE (\E t \in Tokens : Expire(t)) \/ UNCHANGED vars
  <2>1. UNCHANGED <<managed, current, version, unchecked, pc, doc, cfg, job, seen,
                    wiz, draft>>
    BY <1>8 DEF Expire, vars, conn, wizard, history
  <2>2. Probing' = Probing
    BY <2>1 DEF Probing
  <2> QED BY <2>1, <2>2, ContentFrame DEF Ready
<1>9. ASSUME NEW w \in Wizards, BeginEnrich(w) \/ EnrichFails(w)
      PROVE  ContentInv'
  <2>1. UNCHANGED <<managed, current, version, unchecked, pc, doc, cfg, job, seen>>
    BY <1>9 DEF BeginEnrich, EnrichFails, conn, history
  <2>2. \A v \in Wizards \ {w} : wiz'[v] = wiz[v] /\ draft'[v] = draft[v]
    BY <1>0, <1>9 DEF BeginEnrich, EnrichFails, EnrichEnds
  <2>3. wiz'[w] = "probing" => draft'[w] = managed
    BY <1>0, <1>9 DEF BeginEnrich, EnrichFails, EnrichEnds
  <2>4. \A v \in Probing' : UniqueHosts(mergeInventories(draft'[v]))
    BY <2>2, <2>3 DEF Probing, ContentInv, Sound
  <2>5. /\ Sound(managed)' /\ (Running' => KeepsStatic(current'.devices))
        /\ \A c \in Conns : pc'[c] = "write" => Sound(doc[c])'
    BY <2>1 DEF ContentInv, Sound, Running
  <2>6. ASSUME NEW c \in Conns, Ready(c)'
        PROVE  /\ KeepsStatic(cfg[c])'
               /\ (job[c].mutation.method = "dependencies" /\ seen[c] = version =>
                    ValidatePendingDependencyMutation(job[c].mutation.id,
                                                      job[c].mutation.up))'
    BY <2>1, <2>6 DEF Ready, ContentInv, ValidatePendingDependencyMutation, KeepsStatic
  <2> QED BY <2>4, <2>5, <2>6 DEF ContentInv
<1>10. ASSUME NEW w \in Wizards, EndEnrich(w)
       PROVE  ContentInv'
  <2>1. PICK parent \in Parents(draft[w].devices) :
          managed' = Encoded(Enrich(draft[w], parent))
    BY <1>10 DEF EndEnrich
  <2>2. /\ w \in Probing /\ EnrichEnds(w)
        /\ version' = version + 1
        /\ UNCHANGED <<current, conn, unchecked>>
    BY <1>10 DEF EndEnrich, Probing
  <2> DEFINE e == Enrich(draft[w], parent)
  <2>3. IsDocument(e)
    BY <1>0, <2>2, EnrichIs
  <2>4. UniqueHosts(mergeInventories(e))
    BY <1>0, <2>2, EnrichHosts DEF ContentInv
  <2>5. validateDependencies(mergeInventories(managed'))
    BY <1>0, <2>1, <2>2, EnrichDependencies
  <2>6. \A v \in Probing' : v \in Probing /\ draft'[v] = draft[v]
    BY <1>0, <2>2 DEF EnrichEnds, Probing
  <2>7. \A c \in Conns :
          /\ pc'[c] = "write" => pc[c] = "write" /\ doc'[c] = doc[c]
          /\ Ready(c)' => /\ Ready(c) /\ cfg'[c] = cfg[c] /\ seen'[c] = seen[c]
    BY <2>2 DEF conn, Ready
  <2>8. managed' = Encoded(e) /\ version' = version + 1 /\ UNCHANGED <<current, unchecked>>
    BY <2>1, <2>2
  <2> HIDE DEF e
  <2> QED BY <2>3, <2>4, <2>5, <2>6, <2>7, <2>8, ContentWrite
<1> QED BY <1>1, <1>2, <1>3, <1>4, <1>5, <1>6, <1>7, <1>8, <1>9, <1>10
        DEF Next, Handle

-----------------------------------------------------------------------------
(***************************************************************************)
(* Theorems.                                                               *)
(***************************************************************************)

LEMMA IInvInit == Init => IInv
<1> SUFFICES ASSUME Init PROVE IInv
  OBVIOUS
<1>1. Shape /\ ContentInv
  BY ShapeInit, ContentInit
<1>2. TokensInv
  BY DEF Init, TokensInv, Holding, SingleUse
<1>3. VersionsInv
  BY DEF Init, VersionsInv, Committing, Holding
<1>4. SerialInv
  BY InitDocument DEF Init, SerialInv, SerialCommits, Probing
<1> QED BY <1>1, <1>2, <1>3, <1>4 DEF IInv

LEMMA IInvStep == IInv /\ [Next]_vars => IInv'
BY ShapeStep, TokensStep, VersionsStep, SerialStep, ContentStep DEF IInv

THEOREM Inductive == Spec => []IInv
BY IInvInit, IInvStep, PTL DEF Spec

\* Whatever connections commit at the same time, and wherever the process stops,
\* a prepared mutation is written at most once.
THEOREM TokensSingleUse == Spec => []SingleUse
<1>1. IInv => SingleUse
  BY DEF IInv, TokensInv
<1> QED BY <1>1, Inductive, PTL

\* The document is what its writers make of an empty one, in the order of their
\* writes: commits lose nothing of each other.  What was written while a wizard
\* asked the devices is lost at its write; a commit that read before that write
\* and writes after it loses the inference; nothing else is ever lost.
THEOREM CommitsSerial == Spec => []SerialCommits
<1>1. IInv => SerialCommits
  BY DEF IInv, SerialInv
<1> QED BY <1>1, Inductive, PTL

\* A commit writes only what was prepared for the configuration that was active
\* when it began, unless a reload finished in between.
THEOREM RevisionHeld == Spec => []RevisionBound
<1>1. IInv => RevisionBound
  BY DEF IInv, VersionsInv, RevisionBound, Committing, Holding
<1> QED BY <1>1, Inductive, PTL

\* Every variable has its type, and the document has neither two devices with
\* one host nor, unless a dependency was written over a document it was not
\* checked on, dependencies that Load refuses.
THEOREM DocumentValid == Spec => []DocumentIsValid
<1>1. IInv => DocumentIsValid
  BY DEF IInv, Shape, ContentInv, Sound, DocumentIsValid, DependenciesSound,
         UniqueInventory
<1> QED BY <1>1, Inductive, PTL

\* No reload and no restart brings an older document back.
THEOREM ReloadForward == Spec => ReloadNeverRegresses
<1>1. Shape /\ [Next]_vars => [loaded' >= loaded]_vars
  <2> SUFFICES ASSUME Shape, Next PROVE loaded' >= loaded \/ UNCHANGED vars
    OBVIOUS
  <2>0. /\ loaded \in Nat /\ version \in Nat /\ loaded <= version
        /\ seen \in [Conns -> Nat]
        /\ \A c \in Conns : pc[c] = "store" => loaded <= seen[c]
    BY DEF Shape, TypeOK
  <2>1. ASSUME NEW c \in Conns, EndReload(c)
        PROVE  loaded' >= loaded
    BY <2>0, <2>1 DEF EndReload
  <2>2. CASE Restart
    BY <2>0, <2>2 DEF Restart
  <2>3. CASE UNCHANGED loaded
    BY <2>0, <2>3
  <2>4. \/ \E c \in Conns : EndReload(c)
        \/ Restart
        \/ UNCHANGED loaded
    BY DEF Next, Handle, Prepare, Commit, BeginReload, take, Validate, LockMutations,
           WriteManagedDocument, WriteFails, BeginEnrich, EndEnrich, EnrichFails,
           Expire, Crash, history
  <2> QED BY <2>1, <2>2, <2>3, <2>4
<1>2. IInv => Shape
  BY DEF IInv
<1> QED BY <1>1, <1>2, Inductive, PTL DEF Spec, ReloadNeverRegresses
=============================================================================
