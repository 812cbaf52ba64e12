------------------------ MODULE AddressManager_proofs ------------------------
(***************************************************************************)
(* Proofs about AddressManager, for every set of addresses, prefixes,      *)
(* prefix lengths and metrics.                                             *)
(***************************************************************************)
EXTENDS AddressManager, TLAPS

\* A function whose domain is a set of keys is a partial map.
LEMMA MapIntro ==
  ASSUME NEW K, NEW V, NEW S \in SUBSET K, NEW f \in [S -> V]
  PROVE  f \in Map(K, V)
BY DEF Map

\* What membership in a partial map's type says.
LEMMA MapElim ==
  ASSUME NEW K, NEW V, NEW f \in Map(K, V)
  PROVE  /\ DOMAIN f \subseteq K
         /\ f \in [DOMAIN f -> V]
         /\ \A x \in DOMAIN f : f[x] \in V
BY DEF Map

\* The empty map has every partial-map type.
LEMMA EmptyMapType ==
  ASSUME NEW K, NEW V
  PROVE  EmptyMap \in Map(K, V)
<1>1. EmptyMap \in [{} -> V] BY DEF EmptyMap
<1>2. QED BY <1>1, MapIntro

\* HashMap::insert keeps the type.
LEMMA WithType ==
  ASSUME NEW K, NEW V, NEW f \in Map(K, V), NEW k \in K, NEW v \in V
  PROVE  With(f, k, v) \in Map(K, V)
<1>1. DOMAIN f \cup {k} \in SUBSET K BY MapElim
<1>2. With(f, k, v) \in [DOMAIN f \cup {k} -> V] BY MapElim DEF With
<1>3. QED BY <1>1, <1>2, MapIntro

\* HashMap::remove keeps the type.
LEMMA WithoutType ==
  ASSUME NEW K, NEW V, NEW f \in Map(K, V), NEW k
  PROVE  Without(f, k) \in Map(K, V)
<1>1. DOMAIN f \ {k} \in SUBSET K BY MapElim
<1>2. Without(f, k) \in [DOMAIN f \ {k} -> V] BY MapElim DEF Without
<1>3. QED BY <1>1, <1>2, MapIntro

\* A snapshot lists keys of the table, and the last value listed for a key
\* is one of the values listed for it.
LEMMA SnapshotFacts ==
  ASSUME NEW K, NEW V, NEW s \in Snapshots(K, V)
  PROVE  /\ DOMAIN s \subseteq K
         /\ \A k \in DOMAIN s : s[k].last \in V /\ s[k].vals \subseteq V
                                /\ s[k].last \in s[k].vals
<1>1. s \in Map(K, [vals : SUBSET V, last : V]) BY DEF Snapshots
<1>2. DOMAIN s \subseteq K /\ \A k \in DOMAIN s : s[k] \in [vals : SUBSET V, last : V]
  <2> DEFINE E == [vals : SUBSET V, last : V]
  <2> HIDE DEF E
  <2>1. s \in Map(K, E) BY <1>1 DEF E
  <2>2. DOMAIN s \subseteq K /\ \A k \in DOMAIN s : s[k] \in E BY <2>1, MapElim
  <2>3. QED BY <2>2 DEF E
<1>3. QED BY <1>2 DEF Snapshots

\* The kernel table after a batch holds old pairs and pairs the batch mentions.
LEMMA ApplyTunOpsType ==
  ASSUME NEW old, NEW new, NEW add, NEW del, NEW listed, NEW P,
         tun_ok \in BOOLEAN, old \subseteq P,
         add \subseteq P, del \subseteq P, listed \subseteq P,
         ApplyTunOps(old, new, add, del, listed)
  PROVE  new \subseteq P /\ tun_ok' \in BOOLEAN
BY DEF ApplyTunOps

\* If no operation has failed at the end, the batch took effect in full and
\* none had failed before.
LEMMA ApplyTunOpsOK ==
  ASSUME NEW old, NEW new, NEW add, NEW del, NEW listed,
         ApplyTunOps(old, new, add, del, listed), tun_ok'
  PROVE  tun_ok /\ new = (old \ del) \cup add
BY DEF ApplyTunOps
-----------------------------------------------------------------------------
(***************************************************************************)
(* What one snapshot does to one table, stated once for the four tables.   *)
(***************************************************************************)
\* Where the keys of a snapshot end up.
LEMMA DiffFacts ==
  ASSUME NEW s, NEW m
  PROVE  /\ Changed(s, m) \subseteq DOMAIN s
         /\ DOMAIN s \ Changed(s, m) \subseteq DOMAIN m
         /\ Stale(s, m) \subseteq DOMAIN m
         /\ Stale(s, m) \cap DOMAIN s = {}
         /\ \A k \in DOMAIN m \ Stale(s, m) : m[k].origin = "Ncp" => k \in DOMAIN s
BY DEF Changed, Stale

\* The merged table: its keys, its values, and the origin of what it keeps.
LEMMA MergedFacts ==
  ASSUME NEW s, NEW m
  PROVE  /\ DOMAIN Merged(s, m) = (DOMAIN m \ Stale(s, m)) \cup DOMAIN s
         /\ \A k \in Changed(s, m) : Merged(s, m)[k].value = s[k].last
         /\ \A k \in DOMAIN Merged(s, m) :
              k \notin Changed(s, m) => Merged(s, m)[k].value = m[k].value
         /\ \A k \in DOMAIN Merged(s, m) :
              Merged(s, m)[k].origin = "Ncp" => k \in DOMAIN s
<1>1. DOMAIN Merged(s, m) = (DOMAIN m \ Stale(s, m)) \cup DOMAIN s
  BY DEF Merged
<1>2. \A k \in Changed(s, m) :
        Merged(s, m)[k] = [origin |-> "Ncp", value |-> s[k].last]
  BY DiffFacts DEF Merged
<1>3. \A k \in DOMAIN Merged(s, m) : k \notin Changed(s, m) => Merged(s, m)[k] = m[k]
  BY <1>1 DEF Merged
<1>4. \A k \in Changed(s, m) : Merged(s, m)[k].value = s[k].last
  <2> TAKE k \in Changed(s, m)
  <2>1. Merged(s, m)[k] = [origin |-> "Ncp", value |-> s[k].last] BY <1>2
  <2>2. QED BY <2>1
<1>5. \A k \in DOMAIN Merged(s, m) : Merged(s, m)[k].origin = "Ncp" => k \in DOMAIN s
  BY <1>1, <1>3, DiffFacts
<1>6. QED BY <1>1, <1>3, <1>4, <1>5

\* A merged table keeps its type.
LEMMA MergedType ==
  ASSUME NEW K, NEW V, NEW m \in Map(K, Entry(V)), NEW s \in Snapshots(K, V)
  PROVE  Merged(s, m) \in Map(K, Entry(V))
<1> DEFINE keep == (DOMAIN m \ Stale(s, m)) \cup DOMAIN s
           New(k) == IF k \in Changed(s, m)
                       THEN [origin |-> "Ncp", value |-> s[k].last] ELSE m[k]
<1>1. keep \in SUBSET K BY MapElim, SnapshotFacts
<1>2. \A k \in keep : New(k) \in Entry(V)
  <2>1. \A k \in DOMAIN m : m[k] \in Entry(V) BY MapElim
  <2>2. \A k \in Changed(s, m) : s[k].last \in V BY DiffFacts, SnapshotFacts
  <2>3. \A k \in keep \ Changed(s, m) : k \in DOMAIN m BY DiffFacts
  <2>4. QED BY <2>1, <2>2, <2>3 DEF Entry, Origin
<1>3. Merged(s, m) = [k \in keep |-> New(k)] BY DEF Merged
<1>4. Merged(s, m) \in [keep -> Entry(V)] BY <1>2, <1>3
<1>5. QED BY <1>1, <1>4, MapIntro

\* Every pair added on the way is a pair of a key and a value of the table.
LEMMA ListedType ==
  ASSUME NEW K, NEW V, NEW m, NEW s \in Snapshots(K, V)
  PROVE  Listed(s, m) \subseteq K \X V
BY DiffFacts, SnapshotFacts DEF Listed

\* The kernel side of a unicast or multicast snapshot: the type of the kernel
\* table, and its agreement with the merged table up to pairs of others (extra)
\* that were there before.
LEMMA ApplyEntryOpsFacts ==
  ASSUME NEW K, NEW V, NEW m \in Map(K, Entry(V)), NEW s \in Snapshots(K, V),
         NEW old \in SUBSET (K \X V), NEW new, NEW extra, tun_ok \in BOOLEAN,
         ApplyEntryOps(s, m, old, new)
  PROVE  /\ new \subseteq K \X V /\ tun_ok' \in BOOLEAN
         /\ tun_ok' => tun_ok
         /\ tun_ok' /\ EntryPairs(m) \subseteq old /\ old \subseteq EntryPairs(m) \cup extra
              => /\ EntryPairs(Merged(s, m)) \subseteq new
                 /\ new \subseteq EntryPairs(Merged(s, m)) \cup extra
<1> DEFINE add == {<<k, s[k].last>> : k \in Changed(s, m)}
           del == {<<k, m[k].value>> : k \in (Changed(s, m) \cap DOMAIN m) \cup Stale(s, m)}
<1>1. ApplyTunOps(old, new, add, del, Listed(s, m)) BY DEF ApplyEntryOps
<1>2. add \subseteq K \X V BY DiffFacts, SnapshotFacts
<1>3. del \subseteq K \X V
  <2>0. \A k \in DOMAIN m : k \in K /\ m[k] \in Entry(V) BY MapElim
  <2>1. \A k \in DOMAIN m : k \in K /\ m[k].value \in V BY <2>0 DEF Entry
  <2>2. (Changed(s, m) \cap DOMAIN m) \cup Stale(s, m) \subseteq DOMAIN m BY DiffFacts
  <2>3. QED BY <2>1, <2>2
<1>4. new \subseteq K \X V /\ tun_ok' \in BOOLEAN
  <2> HIDE DEF add, del
  <2>1. Listed(s, m) \subseteq K \X V BY ListedType
  <2>2. QED BY <1>1, <1>2, <1>3, <2>1 DEF ApplyTunOps
<1>5. ASSUME tun_ok'
      PROVE  tun_ok /\ new = (old \ del) \cup add
  <2> HIDE DEF add, del
  <2>1. QED BY <1>1, <1>5, ApplyTunOpsOK
<1>6. ASSUME tun_ok', EntryPairs(m) \subseteq old, old \subseteq EntryPairs(m) \cup extra
      PROVE  /\ EntryPairs(Merged(s, m)) \subseteq new
             /\ new \subseteq EntryPairs(Merged(s, m)) \cup extra
  <2> DEFINE M == Merged(s, m)
             C == Changed(s, m)
             S == Stale(s, m)
  <2>1. new = (old \ del) \cup add BY <1>5, <1>6
  <2>2. /\ DOMAIN M = (DOMAIN m \ S) \cup DOMAIN s
        /\ \A k \in C : M[k].value = s[k].last
        /\ \A k \in DOMAIN M : k \notin C => M[k].value = m[k].value
    <3>1. DOMAIN M = (DOMAIN m \ S) \cup DOMAIN s BY MergedFacts
    <3>2. \A k \in C : M[k].value = s[k].last BY MergedFacts, ZenonT(30)
    <3>3. \A k \in DOMAIN M : k \notin C => M[k] = m[k] BY DEF Merged
    <3>4. QED BY <3>1, <3>2, <3>3
  <2>3. C \subseteq DOMAIN s /\ DOMAIN s \ C \subseteq DOMAIN m /\ S \subseteq DOMAIN m
        /\ S \cap DOMAIN s = {}
    BY DiffFacts
  <2> HIDE DEF M, C, S
  <2>4. EntryPairs(m) \ del = {<<k, m[k].value>> : k \in DOMAIN m \ (C \cup S)}
    BY DEF EntryPairs, del, C, S
  <2>5. DOMAIN M = C \cup (DOMAIN m \ (C \cup S)) BY <2>2, <2>3
  <2>6. EntryPairs(M) = {<<k, s[k].last>> : k \in C}
                        \cup {<<k, m[k].value>> : k \in DOMAIN m \ (C \cup S)}
    BY <2>2, <2>5 DEF EntryPairs
  <2>7. EntryPairs(M) = (EntryPairs(m) \ del) \cup add BY <2>4, <2>6 DEF add, C
  <2> HIDE DEF add, del
  <2>8. QED BY <1>6, <2>1, <2>7 DEF M
<1>7. QED BY <1>4, <1>5, <1>6
-----------------------------------------------------------------------------
(***************************************************************************)
(* The inductive invariant.  Its four parts are inductive together: every  *)
(* step needs the types, and per action NoRouteLeak, TunInSync and         *)
(* NcpEntriesReported follow from the same description of the diff.        *)
(***************************************************************************)
IInv == TypeOK /\ NoRouteLeak /\ TunInSync /\ NcpEntriesReported

ReportedType == [unicast : SUBSET Addrs, multicast : SUBSET Addrs,
                 on_mesh : SUBSET Nets, off_mesh : SUBSET Nets]

\* A snapshot of the unicast table preserves the invariant.
LEMMA AddressTableStep ==
  ASSUME IInv, NEW s \in Snapshots(Addrs, PrefixLens), apply_ncp_address_table(s)
  PROVE  IInv'
<1>1. /\ unicast' = Merged(s, unicast)
      /\ ApplyEntryOps(s, unicast, tun_addrs, tun_addrs')
      /\ reported' = [reported EXCEPT !.unicast = DOMAIN s]
      /\ UNCHANGED <<multicast, on_mesh, off_mesh, interface_routes,
                     tun_groups, tun_routes>>
  BY DEF apply_ncp_address_table
<1>2. /\ unicast \in Map(Addrs, Entry(PrefixLens))
      /\ tun_addrs \in SUBSET (Addrs \X PrefixLens)
      /\ tun_ok \in BOOLEAN
      /\ reported \in ReportedType
  BY DEF IInv, TypeOK, ReportedType
<1>3. /\ tun_addrs' \subseteq Addrs \X PrefixLens /\ tun_ok' \in BOOLEAN
      /\ tun_ok' => tun_ok
      /\ tun_ok' /\ EntryPairs(unicast) \subseteq tun_addrs
              /\ tun_addrs \subseteq EntryPairs(unicast) \cup GlobalPairs
           => /\ EntryPairs(Merged(s, unicast)) \subseteq tun_addrs'
              /\ tun_addrs' \subseteq EntryPairs(Merged(s, unicast)) \cup GlobalPairs
  BY <1>1, <1>2, ApplyEntryOpsFacts
<1>4. TypeOK'
  <2>1. unicast' \in Map(Addrs, Entry(PrefixLens)) BY <1>1, <1>2, MergedType
  <2>2. reported' \in ReportedType BY <1>1, <1>2, SnapshotFacts DEF ReportedType
  <2>3. QED BY <1>1, <1>3, <2>1, <2>2 DEF IInv, TypeOK, ReportedType
<1>5. NoRouteLeak' BY <1>1 DEF IInv, NoRouteLeak
<1>6. TunInSync' BY <1>1, <1>3 DEF IInv, TunInSync
<1>7. NcpEntriesReported'
  <2>1. \A a \in DOMAIN unicast' : unicast'[a].origin = "Ncp" => a \in DOMAIN s
    BY <1>1, MergedFacts
  <2>2. /\ reported'.unicast = DOMAIN s
        /\ reported'.multicast = reported.multicast
        /\ reported'.on_mesh = reported.on_mesh
        /\ reported'.off_mesh = reported.off_mesh
    BY <1>1, <1>2 DEF ReportedType
  <2>3. QED BY <1>1, <2>1, <2>2 DEF IInv, NcpEntriesReported
<1>8. QED BY <1>4, <1>5, <1>6, <1>7 DEF IInv

\* A snapshot of the multicast table preserves the invariant.
LEMMA MulticastTableStep ==
  ASSUME IInv, NEW s \in Snapshots(Addrs, Member), apply_ncp_multicast_table(s)
  PROVE  IInv'
<1>1. /\ multicast' = Merged(s, multicast)
      /\ ApplyEntryOps(s, multicast, tun_groups, tun_groups')
      /\ reported' = [reported EXCEPT !.multicast = DOMAIN s]
      /\ UNCHANGED <<unicast, on_mesh, off_mesh, interface_routes,
                     tun_addrs, tun_routes>>
  BY DEF apply_ncp_multicast_table
<1>2. /\ multicast \in Map(Addrs, Entry(Member))
      /\ tun_groups \in SUBSET (Addrs \X Member)
      /\ tun_ok \in BOOLEAN
      /\ reported \in ReportedType
  BY DEF IInv, TypeOK, ReportedType
<1>3. /\ tun_groups' \subseteq Addrs \X Member /\ tun_ok' \in BOOLEAN
      /\ tun_ok' => tun_ok
      /\ tun_ok' /\ tun_groups = EntryPairs(multicast)
           => tun_groups' = EntryPairs(Merged(s, multicast))
  <2>1. ApplyEntryOps(s, multicast, tun_groups, tun_groups') BY <1>1
  <2>2. /\ multicast \in Map(Addrs, Entry(Member))
        /\ tun_groups \in SUBSET (Addrs \X Member) /\ tun_ok \in BOOLEAN
    BY <1>2
  <2>3. tun_ok' /\ EntryPairs(multicast) \subseteq tun_groups
                /\ tun_groups \subseteq EntryPairs(multicast) \cup {}
          => /\ EntryPairs(Merged(s, multicast)) \subseteq tun_groups'
             /\ tun_groups' \subseteq EntryPairs(Merged(s, multicast)) \cup {}
    BY <2>1, <2>2, ApplyEntryOpsFacts
  <2>4. /\ tun_groups' \subseteq Addrs \X Member /\ tun_ok' \in BOOLEAN
        /\ tun_ok' => tun_ok
    BY <2>1, <2>2, ApplyEntryOpsFacts
  <2>5. QED BY <2>3, <2>4
<1>4. TypeOK'
  <2>1. multicast' \in Map(Addrs, Entry(Member)) BY <1>1, <1>2, MergedType
  <2>2. reported' \in ReportedType BY <1>1, <1>2, SnapshotFacts DEF ReportedType
  <2>3. QED BY <1>1, <1>3, <2>1, <2>2 DEF IInv, TypeOK, ReportedType
<1>5. NoRouteLeak' BY <1>1 DEF IInv, NoRouteLeak
<1>6. TunInSync' BY <1>1, <1>3 DEF IInv, TunInSync
<1>7. NcpEntriesReported'
  <2>1. \A a \in DOMAIN multicast' : multicast'[a].origin = "Ncp" => a \in DOMAIN s
    BY <1>1, MergedFacts
  <2>2. /\ reported'.multicast = DOMAIN s
        /\ reported'.unicast = reported.unicast
        /\ reported'.on_mesh = reported.on_mesh
        /\ reported'.off_mesh = reported.off_mesh
    BY <1>1, <1>2 DEF ReportedType
  <2>3. QED BY <1>1, <2>1, <2>2 DEF IInv, NcpEntriesReported
<1>8. QED BY <1>4, <1>5, <1>6, <1>7 DEF IInv
-----------------------------------------------------------------------------
(***************************************************************************)
(* The route actions.                                                      *)
(***************************************************************************)
\* Moving routes keeps the types and the agreement with the kernel.
LEMMA MoveRoutesFacts ==
  ASSUME NEW new \in Map(Nets, Metrics), NEW gone,
         NEW listed \in SUBSET (Nets \X Metrics),
         DOMAIN new \cap gone = {},
         interface_routes \in Map(Nets, Metrics),
         tun_routes \subseteq Nets \X Metrics,
         tun_ok \in BOOLEAN,
         MoveRoutes(new, gone, listed)
  PROVE  /\ interface_routes' \in Map(Nets, Metrics)
         /\ DOMAIN interface_routes' = (DOMAIN interface_routes \cup DOMAIN new) \ gone
         /\ tun_routes' \subseteq Nets \X Metrics /\ tun_ok' \in BOOLEAN
         /\ tun_ok' => tun_ok
         /\ tun_ok' /\ tun_routes = RoutePairs(interface_routes)
              => tun_routes' = RoutePairs(interface_routes')
<1> DEFINE I == interface_routes
           moved == DOMAIN new
           keep == (DOMAIN I \cup moved) \ gone
           add == RoutePairs(new)
           del == {<<n, I[n]>> : n \in (moved \cup gone) \cap DOMAIN I}
<1>1. /\ interface_routes' = [n \in keep |-> IF n \in moved THEN new[n] ELSE I[n]]
      /\ ApplyTunOps(tun_routes, tun_routes', add, del, listed)
  BY DEF MoveRoutes
<1>2. /\ DOMAIN I \subseteq Nets /\ \A n \in DOMAIN I : I[n] \in Metrics
      /\ moved \subseteq Nets /\ \A n \in moved : new[n] \in Metrics
  BY MapElim
<1>3. interface_routes' \in Map(Nets, Metrics)
  <2>1. keep \in SUBSET Nets BY <1>2
  <2>2. interface_routes' \in [keep -> Metrics] BY <1>1, <1>2
  <2>3. QED BY <2>1, <2>2, MapIntro
<1>4. add \subseteq Nets \X Metrics /\ del \subseteq Nets \X Metrics
  BY <1>2 DEF RoutePairs
<1>5. tun_routes' \subseteq Nets \X Metrics /\ tun_ok' \in BOOLEAN
  <2> HIDE DEF add, del
  <2>1. QED BY <1>1, <1>4 DEF ApplyTunOps
<1>6. ASSUME tun_ok' PROVE tun_ok /\ tun_routes' = (tun_routes \ del) \cup add
  <2> HIDE DEF add, del
  <2>1. QED BY <1>1, <1>6, ApplyTunOpsOK
<1>7. ASSUME tun_ok', tun_routes = RoutePairs(I)
      PROVE  tun_routes' = RoutePairs(interface_routes')
  <2>1. tun_routes' = (RoutePairs(I) \ del) \cup add BY <1>6, <1>7
  <2>2. RoutePairs(I) \ del = {<<n, I[n]>> : n \in DOMAIN I \ (moved \cup gone)}
    BY DEF RoutePairs
  <2>3. keep = moved \cup (DOMAIN I \ (moved \cup gone)) OBVIOUS
  <2>4. RoutePairs(interface_routes') =
          add \cup {<<n, I[n]>> : n \in DOMAIN I \ (moved \cup gone)}
    BY <1>1, <2>3 DEF RoutePairs
  <2>5. QED BY <2>1, <2>2, <2>4
<1>8. QED BY <1>1, <1>3, <1>5, <1>6, <1>7

\* A constant route for some nets is a map of routes.
LEMMA RouteMapType ==
  ASSUME NEW S \in SUBSET Nets, NEW f \in [S -> Metrics]
  PROVE  f \in Map(Nets, Metrics)
BY MapIntro

\* A snapshot of the on-mesh table preserves the invariant.
LEMMA OnMeshTableStep ==
  ASSUME IInv, NEW s \in Snapshots(Nets, BOOLEAN), apply_ncp_on_mesh_table(s)
  PROVE  IInv'
<1> DEFINE vacant == Changed(s, on_mesh) \ DOMAIN interface_routes
           new == [n \in vacant |-> DefaultMetric]
           gone == Stale(s, on_mesh)
<1>1. /\ on_mesh' = Merged(s, on_mesh)
      /\ MoveRoutes(new, gone, {})
      /\ reported' = [reported EXCEPT !.on_mesh = DOMAIN s]
      /\ UNCHANGED <<unicast, multicast, off_mesh, tun_addrs, tun_groups>>
  BY DEF apply_ncp_on_mesh_table
<1>2. /\ on_mesh \in Map(Nets, Entry(BOOLEAN))
      /\ interface_routes \in Map(Nets, Metrics)
      /\ tun_routes \subseteq Nets \X Metrics
      /\ tun_ok \in BOOLEAN
      /\ reported \in ReportedType
  BY DEF IInv, TypeOK, ReportedType
<1>3. /\ Changed(s, on_mesh) \subseteq DOMAIN s
      /\ gone \cap DOMAIN s = {}
      /\ DOMAIN s \subseteq Nets
  BY DiffFacts, SnapshotFacts
<1>4. new \in Map(Nets, Metrics) /\ DOMAIN new = vacant
  <2>1. vacant \in SUBSET Nets BY <1>3
  <2>2. new \in [vacant -> Metrics] BY MetricsAssumption
  <2> HIDE DEF new, vacant
  <2>3. QED BY <2>1, <2>2, RouteMapType
<1>5. DOMAIN new \cap gone = {} BY <1>3, <1>4
<1>6. /\ interface_routes' \in Map(Nets, Metrics)
      /\ DOMAIN interface_routes' = (DOMAIN interface_routes \cup vacant) \ gone
      /\ tun_routes' \subseteq Nets \X Metrics /\ tun_ok' \in BOOLEAN
      /\ tun_ok' => tun_ok
      /\ tun_ok' /\ tun_routes = RoutePairs(interface_routes)
           => tun_routes' = RoutePairs(interface_routes')
  <2> HIDE DEF new, gone, vacant
  <2>1. {} \in SUBSET (Nets \X Metrics) OBVIOUS
  <2>2. QED BY <1>1, <1>2, <1>4, <1>5, <2>1, MoveRoutesFacts
<1> HIDE DEF new
<1>7. TypeOK'
  <2>1. on_mesh' \in Map(Nets, Entry(BOOLEAN)) BY <1>1, <1>2, MergedType
  <2>2. reported' \in ReportedType BY <1>1, <1>2, <1>3 DEF ReportedType
  <2>3. QED BY <1>1, <1>6, <2>1, <2>2 DEF IInv, TypeOK, ReportedType
<1>8. NoRouteLeak'
  <2>1. DOMAIN on_mesh' = (DOMAIN on_mesh \ gone) \cup DOMAIN s BY <1>1, MergedFacts
  <2>2. DOMAIN interface_routes \subseteq DOMAIN on_mesh \cup DOMAIN off_mesh
    BY DEF IInv, NoRouteLeak
  <2>3. QED BY <1>1, <1>3, <1>6, <2>1, <2>2 DEF NoRouteLeak
<1>9. TunInSync' BY <1>1, <1>6 DEF IInv, TunInSync
<1>10. NcpEntriesReported'
  <2>1. \A n \in DOMAIN on_mesh' : on_mesh'[n].origin = "Ncp" => n \in DOMAIN s
    BY <1>1, MergedFacts
  <2>2. /\ reported'.on_mesh = DOMAIN s
        /\ reported'.unicast = reported.unicast
        /\ reported'.multicast = reported.multicast
        /\ reported'.off_mesh = reported.off_mesh
    BY <1>1, <1>2 DEF ReportedType
  <2>3. QED BY <1>1, <2>1, <2>2 DEF IInv, NcpEntriesReported
<1>11. QED BY <1>7, <1>8, <1>9, <1>10 DEF IInv

\* A snapshot of the off-mesh table preserves the invariant.
LEMMA OffMeshTableStep ==
  ASSUME IInv, NEW s \in Snapshots(Nets, Metrics), apply_ncp_off_mesh_table(s)
  PROVE  IInv'
<1> DEFINE moved == {n \in Changed(s, off_mesh) :
                      n \in DOMAIN interface_routes => interface_routes[n] # s[n].last}
           new == [n \in moved |-> s[n].last]
           gone == Stale(s, off_mesh)
<1>1. /\ off_mesh' = Merged(s, off_mesh)
      /\ MoveRoutes(new, gone, Listed(s, off_mesh))
      /\ reported' = [reported EXCEPT !.off_mesh = DOMAIN s]
      /\ UNCHANGED <<unicast, multicast, on_mesh, tun_addrs, tun_groups>>
  BY DEF apply_ncp_off_mesh_table
<1>2. /\ off_mesh \in Map(Nets, Entry(Metrics))
      /\ interface_routes \in Map(Nets, Metrics)
      /\ tun_routes \subseteq Nets \X Metrics
      /\ tun_ok \in BOOLEAN
      /\ reported \in ReportedType
  BY DEF IInv, TypeOK, ReportedType
<1>3. /\ Changed(s, off_mesh) \subseteq DOMAIN s
      /\ gone \cap DOMAIN s = {}
      /\ DOMAIN s \subseteq Nets
      /\ \A n \in DOMAIN s : s[n].last \in Metrics
  BY DiffFacts, SnapshotFacts
<1>4. new \in Map(Nets, Metrics) /\ DOMAIN new = moved /\ moved \subseteq DOMAIN s
  <2>1. moved \in SUBSET Nets /\ moved \subseteq DOMAIN s BY <1>3
  <2> HIDE DEF moved
  <2>2. new \in [moved -> Metrics] BY <1>3, <2>1
  <2>3. DOMAIN new = moved OBVIOUS
  <2> HIDE DEF new
  <2>4. QED BY <2>1, <2>2, <2>3, RouteMapType
<1>5. DOMAIN new \cap gone = {} BY <1>3, <1>4
<1>6. /\ interface_routes' \in Map(Nets, Metrics)
      /\ DOMAIN interface_routes' = (DOMAIN interface_routes \cup moved) \ gone
      /\ tun_routes' \subseteq Nets \X Metrics /\ tun_ok' \in BOOLEAN
      /\ tun_ok' => tun_ok
      /\ tun_ok' /\ tun_routes = RoutePairs(interface_routes)
           => tun_routes' = RoutePairs(interface_routes')
  <2> HIDE DEF new, gone, moved
  <2>1. Listed(s, off_mesh) \in SUBSET (Nets \X Metrics) BY ListedType
  <2>2. QED BY <1>1, <1>2, <1>4, <1>5, <2>1, MoveRoutesFacts
<1> HIDE DEF new, moved
<1>7. TypeOK'
  <2>1. off_mesh' \in Map(Nets, Entry(Metrics)) BY <1>1, <1>2, MergedType
  <2>2. reported' \in ReportedType BY <1>1, <1>2, <1>3 DEF ReportedType
  <2>3. QED BY <1>1, <1>6, <2>1, <2>2 DEF IInv, TypeOK, ReportedType
<1>8. NoRouteLeak'
  <2>1. DOMAIN off_mesh' = (DOMAIN off_mesh \ gone) \cup DOMAIN s BY <1>1, MergedFacts
  <2>2. DOMAIN interface_routes \subseteq DOMAIN on_mesh \cup DOMAIN off_mesh
    BY DEF IInv, NoRouteLeak
  <2>3. QED BY <1>1, <1>4, <1>6, <2>1, <2>2 DEF NoRouteLeak
<1>9. TunInSync' BY <1>1, <1>6 DEF IInv, TunInSync
<1>10. NcpEntriesReported'
  <2>1. \A n \in DOMAIN off_mesh' : off_mesh'[n].origin = "Ncp" => n \in DOMAIN s
    BY <1>1, MergedFacts
  <2>2. /\ reported'.off_mesh = DOMAIN s
        /\ reported'.unicast = reported.unicast
        /\ reported'.multicast = reported.multicast
        /\ reported'.on_mesh = reported.on_mesh
    BY <1>1, <1>2 DEF ReportedType
  <2>3. QED BY <1>1, <2>1, <2>2 DEF IInv, NcpEntriesReported
<1>11. QED BY <1>7, <1>8, <1>9, <1>10 DEF IInv

\* A user insert into on_mesh preserves the invariant.
LEMMA InsertOnMeshStep ==
  ASSUME IInv, NEW n \in Nets, insert_on_mesh(n)
  PROVE  IInv'
<1> DEFINE is_new == n \notin DOMAIN on_mesh \/ ~on_mesh[n].value
           new == [k \in {k \in {n} : is_new /\ k \notin DOMAIN interface_routes} |-> DefaultMetric]
           entry == [origin |-> "User", value |-> TRUE]
<1>1. /\ on_mesh' = IF is_new THEN With(on_mesh, n, entry) ELSE on_mesh
      /\ MoveRoutes(new, {}, {})
      /\ UNCHANGED <<unicast, multicast, off_mesh, tun_addrs, tun_groups, reported>>
  BY DEF insert_on_mesh
<1>2. /\ on_mesh \in Map(Nets, Entry(BOOLEAN))
      /\ interface_routes \in Map(Nets, Metrics)
      /\ tun_routes \subseteq Nets \X Metrics
      /\ tun_ok \in BOOLEAN
  BY DEF IInv, TypeOK
<1>3. new \in Map(Nets, Metrics) /\ DOMAIN new \subseteq {n} /\ (n \in DOMAIN new => is_new)
  <2>1. {k \in {n} : is_new /\ k \notin DOMAIN interface_routes} \in SUBSET Nets OBVIOUS
  <2>2. new \in [{k \in {n} : is_new /\ k \notin DOMAIN interface_routes} -> Metrics] BY MetricsAssumption
  <2>3. QED BY <2>1, <2>2, RouteMapType
<1>4. entry \in Entry(BOOLEAN) BY MetricsAssumption DEF Entry, Origin
<1> HIDE DEF new, entry, is_new
<1>5. /\ interface_routes' \in Map(Nets, Metrics)
      /\ DOMAIN interface_routes' = (DOMAIN interface_routes \cup DOMAIN new) \ {}
      /\ tun_routes' \subseteq Nets \X Metrics /\ tun_ok' \in BOOLEAN
      /\ tun_ok' => tun_ok
      /\ tun_ok' /\ tun_routes = RoutePairs(interface_routes)
           => tun_routes' = RoutePairs(interface_routes')
  <2>1. {} \in SUBSET (Nets \X Metrics) /\ DOMAIN new \cap {} = {} OBVIOUS
  <2>2. QED BY <1>1, <1>2, <1>3, <2>1, MoveRoutesFacts
<1>6. on_mesh' \in Map(Nets, Entry(BOOLEAN)) BY <1>1, <1>2, <1>4, WithType
<1>7. /\ DOMAIN on_mesh \subseteq DOMAIN on_mesh'
      /\ is_new => n \in DOMAIN on_mesh'
      /\ \A k \in DOMAIN on_mesh' :
           (k \in DOMAIN on_mesh /\ on_mesh'[k] = on_mesh[k]) \/ on_mesh'[k] = entry
  BY <1>1 DEF With
<1>8. TypeOK' BY <1>1, <1>5, <1>6 DEF IInv, TypeOK
<1>9. NoRouteLeak' BY <1>1, <1>3, <1>5, <1>7 DEF IInv, NoRouteLeak
<1>10. TunInSync' BY <1>1, <1>5 DEF IInv, TunInSync
<1>11. NcpEntriesReported'
  <2>1. entry.origin = "User" BY DEF entry
  <2>2. \A k \in DOMAIN on_mesh' : on_mesh'[k].origin = "Ncp" => k \in reported.on_mesh
    BY <1>7, <2>1 DEF IInv, NcpEntriesReported
  <2>3. QED BY <1>1, <2>2 DEF IInv, NcpEntriesReported
<1>12. QED BY <1>8, <1>9, <1>10, <1>11 DEF IInv

\* A user insert into off_mesh preserves the invariant.
LEMMA InsertOffMeshStep ==
  ASSUME IInv, NEW n \in Nets, insert_off_mesh(n)
  PROVE  IInv'
<1> DEFINE is_new == n \notin DOMAIN off_mesh \/ off_mesh[n].value # DefaultMetric
           new == [k \in {k \in {n} : is_new /\ (k \in DOMAIN interface_routes
                                     => interface_routes[k] # DefaultMetric)} |-> DefaultMetric]
           entry == [origin |-> "User", value |-> DefaultMetric]
<1>1. /\ off_mesh' = IF is_new THEN With(off_mesh, n, entry) ELSE off_mesh
      /\ MoveRoutes(new, {}, {})
      /\ UNCHANGED <<unicast, multicast, on_mesh, tun_addrs, tun_groups, reported>>
  BY DEF insert_off_mesh
<1>2. /\ off_mesh \in Map(Nets, Entry(Metrics))
      /\ interface_routes \in Map(Nets, Metrics)
      /\ tun_routes \subseteq Nets \X Metrics
      /\ tun_ok \in BOOLEAN
  BY DEF IInv, TypeOK
<1>3. new \in Map(Nets, Metrics) /\ DOMAIN new \subseteq {n} /\ (n \in DOMAIN new => is_new)
  <2>1. {k \in {n} : is_new /\ (k \in DOMAIN interface_routes
                                     => interface_routes[k] # DefaultMetric)} \in SUBSET Nets OBVIOUS
  <2>2. new \in [{k \in {n} : is_new /\ (k \in DOMAIN interface_routes
                                     => interface_routes[k] # DefaultMetric)} -> Metrics] BY MetricsAssumption
  <2>3. QED BY <2>1, <2>2, RouteMapType
<1>4. entry \in Entry(Metrics) BY MetricsAssumption DEF Entry, Origin
<1> HIDE DEF new, entry, is_new
<1>5. /\ interface_routes' \in Map(Nets, Metrics)
      /\ DOMAIN interface_routes' = (DOMAIN interface_routes \cup DOMAIN new) \ {}
      /\ tun_routes' \subseteq Nets \X Metrics /\ tun_ok' \in BOOLEAN
      /\ tun_ok' => tun_ok
      /\ tun_ok' /\ tun_routes = RoutePairs(interface_routes)
           => tun_routes' = RoutePairs(interface_routes')
  <2>1. {} \in SUBSET (Nets \X Metrics) /\ DOMAIN new \cap {} = {} OBVIOUS
  <2>2. QED BY <1>1, <1>2, <1>3, <2>1, MoveRoutesFacts
<1>6. off_mesh' \in Map(Nets, Entry(Metrics)) BY <1>1, <1>2, <1>4, WithType
<1>7. /\ DOMAIN off_mesh \subseteq DOMAIN off_mesh'
      /\ is_new => n \in DOMAIN off_mesh'
      /\ \A k \in DOMAIN off_mesh' :
           (k \in DOMAIN off_mesh /\ off_mesh'[k] = off_mesh[k]) \/ off_mesh'[k] = entry
  BY <1>1 DEF With
<1>8. TypeOK' BY <1>1, <1>5, <1>6 DEF IInv, TypeOK
<1>9. NoRouteLeak' BY <1>1, <1>3, <1>5, <1>7 DEF IInv, NoRouteLeak
<1>10. TunInSync' BY <1>1, <1>5 DEF IInv, TunInSync
<1>11. NcpEntriesReported'
  <2>1. entry.origin = "User" BY DEF entry
  <2>2. \A k \in DOMAIN off_mesh' : off_mesh'[k].origin = "Ncp" => k \in reported.off_mesh
    BY <1>7, <2>1 DEF IInv, NcpEntriesReported
  <2>3. QED BY <1>1, <2>2 DEF IInv, NcpEntriesReported
<1>12. QED BY <1>8, <1>9, <1>10, <1>11 DEF IInv

\* Dropping the route of one net keeps the types and the kernel's agreement.
LEMMA DropRouteFacts ==
  ASSUME IInv, NEW n, DropRoute(n)
  PROVE  /\ interface_routes' \in Map(Nets, Metrics)
         /\ DOMAIN interface_routes' = DOMAIN interface_routes \ {n}
         /\ tun_routes' \subseteq Nets \X Metrics /\ tun_ok' \in BOOLEAN
         /\ tun_ok' => tun_ok
         /\ tun_ok' => tun_routes' = RoutePairs(interface_routes')
<1>1. EmptyMap \in Map(Nets, Metrics) /\ DOMAIN EmptyMap = {}
  BY EmptyMapType DEF EmptyMap
<1>2. MoveRoutes(EmptyMap, {n}, {}) BY DEF DropRoute
<1>3. {} \in SUBSET (Nets \X Metrics) /\ DOMAIN EmptyMap \cap {n} = {} BY <1>1
<1>4. /\ interface_routes \in Map(Nets, Metrics)
      /\ tun_routes \subseteq Nets \X Metrics /\ tun_ok \in BOOLEAN
      /\ tun_ok => tun_routes = RoutePairs(interface_routes)
  BY DEF IInv, TypeOK, TunInSync
<1>5. QED BY <1>1, <1>2, <1>3, <1>4, MoveRoutesFacts

\* A user removal from on_mesh preserves the invariant.
LEMMA RemoveOnMeshStep ==
  ASSUME IInv, NEW n \in Nets, remove_on_mesh(n)
  PROVE  IInv'
<1>1. /\ on_mesh' = Without(on_mesh, n)
      /\ DropRoute(n)
      /\ UNCHANGED <<unicast, multicast, off_mesh, tun_addrs, tun_groups, reported>>
  BY DEF remove_on_mesh
<1>2. on_mesh' \in Map(Nets, Entry(BOOLEAN)) BY <1>1, WithoutType DEF IInv, TypeOK
<1>3. /\ DOMAIN on_mesh' = DOMAIN on_mesh \ {n}
      /\ \A k \in DOMAIN on_mesh' : on_mesh'[k] = on_mesh[k]
  BY <1>1 DEF Without
<1>4. TypeOK' BY <1>1, <1>2, DropRouteFacts DEF IInv, TypeOK
<1>5. NoRouteLeak' BY <1>1, <1>3, DropRouteFacts DEF IInv, NoRouteLeak
<1>6. TunInSync' BY <1>1, DropRouteFacts DEF IInv, TunInSync
<1>7. NcpEntriesReported' BY <1>1, <1>3 DEF IInv, NcpEntriesReported
<1>8. QED BY <1>4, <1>5, <1>6, <1>7 DEF IInv

\* A user removal from off_mesh preserves the invariant.
LEMMA RemoveOffMeshStep ==
  ASSUME IInv, NEW n \in Nets, remove_off_mesh(n)
  PROVE  IInv'
<1>1. /\ off_mesh' = Without(off_mesh, n)
      /\ DropRoute(n)
      /\ UNCHANGED <<unicast, multicast, on_mesh, tun_addrs, tun_groups, reported>>
  BY DEF remove_off_mesh
<1>2. off_mesh' \in Map(Nets, Entry(Metrics)) BY <1>1, WithoutType DEF IInv, TypeOK
<1>3. /\ DOMAIN off_mesh' = DOMAIN off_mesh \ {n}
      /\ \A k \in DOMAIN off_mesh' : off_mesh'[k] = off_mesh[k]
  BY <1>1 DEF Without
<1>4. TypeOK' BY <1>1, <1>2, DropRouteFacts DEF IInv, TypeOK
<1>5. NoRouteLeak' BY <1>1, <1>3, DropRouteFacts DEF IInv, NoRouteLeak
<1>6. TunInSync' BY <1>1, DropRouteFacts DEF IInv, TunInSync
<1>7. NcpEntriesReported' BY <1>1, <1>3 DEF IInv, NcpEntriesReported
<1>8. QED BY <1>4, <1>5, <1>6, <1>7 DEF IInv

\* Bringing the TUN up and adding the global address preserves the invariant.
LEMMA SetTunUpStep ==
  ASSUME IInv, set_tun_up
  PROVE  IInv'
<1>1. /\ tun_addrs' = tun_addrs \/ tun_addrs' = tun_addrs \cup GlobalPairs
      /\ UNCHANGED <<unicast, multicast, on_mesh, off_mesh, interface_routes,
                     tun_groups, tun_routes, tun_ok, reported>>
  BY DEF set_tun_up, amVars
<1>2. GlobalPairs \subseteq Addrs \X PrefixLens BY GlobalAssumption DEF GlobalPairs
<1>3. TypeOK' BY <1>1, <1>2 DEF IInv, TypeOK
<1>4. NoRouteLeak' /\ NcpEntriesReported'
  BY <1>1 DEF IInv, NoRouteLeak, NcpEntriesReported
<1>5. TunInSync' BY <1>1 DEF IInv, TunInSync
<1>6. QED BY <1>3, <1>4, <1>5 DEF IInv

\* Taking the TUN down preserves the invariant: what the kernel
\* drops clears tun_ok.
LEMMA SetTunDownStep ==
  ASSUME IInv, set_tun_down
  PROVE  IInv'
<1>1. /\ tun_addrs' \subseteq tun_addrs /\ tun_routes' \subseteq tun_routes
      /\ \/ tun_ok' = FALSE
         \/ UNCHANGED <<tun_addrs, tun_routes, tun_ok>>
      /\ UNCHANGED <<unicast, multicast, on_mesh, off_mesh, interface_routes,
                     tun_groups, reported>>
  BY DEF set_tun_down, amVars, tunVars
<1>2. TypeOK' BY <1>1 DEF IInv, TypeOK
<1>3. NoRouteLeak' /\ NcpEntriesReported'
  BY <1>1 DEF IInv, NoRouteLeak, NcpEntriesReported
<1>4. TunInSync' BY <1>1 DEF IInv, TunInSync
<1>5. QED BY <1>2, <1>3, <1>4 DEF IInv
-----------------------------------------------------------------------------
\* Every reachable state of the manager satisfies the inductive invariant, for
\* any addresses, prefixes and metrics, any failing TUN operations and any
\* changes of the NCP state.
THEOREM Invariance == Spec => []IInv
<1>1. Init => IInv
  <2> SUFFICES ASSUME Init PROVE IInv OBVIOUS
  <2>1. TypeOK BY EmptyMapType DEF Init, TypeOK
  <2>2. NoRouteLeak /\ NcpEntriesReported
    BY DEF Init, NoRouteLeak, NcpEntriesReported, EmptyMap
  <2>3. TunInSync BY DEF Init, TunInSync, RoutePairs, EntryPairs, EmptyMap
  <2>4. QED BY <2>1, <2>2, <2>3 DEF IInv
<1>2. IInv /\ [Next]_vars => IInv'
  <2> SUFFICES ASSUME IInv, [Next]_vars PROVE IInv' OBVIOUS
  <2>1. CASE handle_address_frame
    BY <2>1, AddressTableStep, MulticastTableStep, OnMeshTableStep, OffMeshTableStep
       DEF handle_address_frame
  <2>2. CASE address_prop_insert
    BY <2>2, InsertOnMeshStep, InsertOffMeshStep DEF address_prop_insert
  <2>3. CASE address_prop_remove
    BY <2>3, RemoveOnMeshStep, RemoveOffMeshStep DEF address_prop_remove
  <2>4. CASE UNCHANGED vars
    BY <2>4 DEF IInv, TypeOK, NoRouteLeak, TunInSync, NcpEntriesReported,
                vars, amVars, tunVars
  <2>5. CASE set_ncp_state
    BY <2>5, SetTunUpStep, SetTunDownStep DEF set_ncp_state
  <2>6. QED BY <2>1, <2>2, <2>3, <2>4, <2>5 DEF Next
<1>3. QED BY <1>1, <1>2, PTL DEF Spec

\* Type correctness of every map and kernel table (addresses.rs).
THEOREM TypeCorrect == Spec => []TypeOK
BY Invariance, PTL DEF IInv

\* No route outlives the prefixes and routes it was installed for.
THEOREM RoutesDoNotLeak == Spec => []NoRouteLeak
BY Invariance, PTL DEF IInv

\* The kernel's tables equal the manager's, up to the configured global address,
\* while no TUN operation fails and the kernel drops nothing.
THEOREM TunStaysInSync == Spec => []TunInSync
BY Invariance, PTL DEF IInv

\* NCP-origin entries are exactly entries of the latest snapshot.
THEOREM SnapshotsConverge == Spec => []NcpEntriesReported
BY Invariance, PTL DEF IInv
=============================================================================
