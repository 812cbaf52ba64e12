--------------------------- MODULE AddressManager ---------------------------
(***************************************************************************)
(* The address / prefix / route manager of the daemon                      *)
(* (crates/dcu-tunnel-daemon/src/instance/addresses.rs) and the handlers   *)
(* of instance/base.rs that drive it.                                      *)
(*                                                                         *)
(* The HashMaps of AddressManager are functions whose domain is the set of *)
(* keys present.  An entry is its origin and its value: the prefix length  *)
(* of a unicast address, the stable flag of an on-mesh prefix, the metric  *)
(* of an off-mesh route (a multicast entry has only an origin, so its      *)
(* value is a constant).  on_mesh and off_mesh BOTH program the kernel     *)
(* through the single map interface_routes.  tun_addrs, tun_groups and     *)
(* tun_routes are what the kernel holds for the TUN interface (external:   *)
(* the effect of the ioctls behind dcu-tun/src/interface.rs).              *)
(*                                                                         *)
(* handle_address_frame, address_prop_insert and address_prop_remove run   *)
(* to completion in the main task under the address_manager write lock, so *)
(* each is one action.  set_ncp_state changes the TUN behind the manager's *)
(* back, without an await between the two ioctls: it is an action too.     *)
(***************************************************************************)
EXTENDS Integers

CONSTANTS Addrs,       \* IPv6 addresses
          PrefixLens,  \* prefix lengths of unicast addresses
          Global,      \* config.ipv6_wfantund_global_address: empty, or one address
          Nets,        \* IPv6 prefixes
          Metrics      \* route metrics the NCP may report (1, 256, 512)

DefaultMetric == 256   \* metric of every on-mesh and every user route

ASSUME MetricsAssumption == DefaultMetric \in Metrics
ASSUME GlobalAssumption  == Global \subseteq Addrs /\ 64 \in PrefixLens

VARIABLES unicast, multicast, on_mesh, off_mesh, interface_routes,
          tun_addrs, tun_groups, tun_routes,
          tun_ok,      \* no TUN operation has failed and no entry was dropped so far
          reported     \* per table, the keys of the last NCP snapshot (history)

amVars  == <<unicast, multicast, on_mesh, off_mesh, interface_routes>>
tunVars == <<tun_addrs, tun_groups, tun_routes, tun_ok>>
vars    == <<amVars, tunVars, reported>>

Member == {"member"}   \* the value of a multicast entry

Origin   == {"Ncp", "User"}
Entry(V) == [origin : Origin, value : V]

\* A partial map from K to V, the type of a HashMap<K, V>.
Map(K, V) == UNION {[S -> V] : S \in SUBSET K}
EmptyMap  == [k \in {} |-> k]

\* HashMap::remove and HashMap::insert.
Without(m, k) == [x \in DOMAIN m \ {k} |-> m[x]]
With(m, k, v) == [x \in DOMAIN m \cup {k} |-> IF x = k THEN v ELSE m[x]]

\* The kernel's view of a map of entries and of the route map.
EntryPairs(m) == {<<k, m[k].value>> : k \in DOMAIN m}
RoutePairs(m) == {<<n, m[n]>> : n \in DOMAIN m}
GlobalPairs   == Global \X {64}
-----------------------------------------------------------------------------
(***************************************************************************)
(* Snapshots.  A table frame is a list of entries in which a key may occur *)
(* several times with different values (two routers may advertise the same *)
(* prefix).  Entries of different keys do not interact, so the list is     *)
(* represented per key by the set of values listed for it and the value    *)
(* listed last.  Entries that do not parse, and entries with is_local set, *)
(* are skipped by the parser and are simply not in the snapshot.           *)
(***************************************************************************)
Snapshots(K, V) ==
  {s \in Map(K, [vals : SUBSET V, last : V]) :
      \A k \in DOMAIN s : s[k].last \in s[k].vals}

\* Keys whose entry the loop over the list replaces at least once: an entry is
\* replaced when it is absent or differs from the value listed.  The entry is
\* then left with the value listed last.
Changed(s, m) ==
  {k \in DOMAIN s : k \notin DOMAIN m \/ s[k].vals # {m[k].value}}

\* Mutant of Stale: the origin test is inverted.
Stale_UserInstead(s, m) ==
  {k \in DOMAIN m : m[k].origin = "User" /\ k \notin DOMAIN s}

\* Keys dropped after the loop: NCP-origin and not in the snapshot.
Stale(s, m) == {k \in DOMAIN m : m[k].origin = "Ncp" /\ k \notin DOMAIN s}

\* The table after the snapshot.
Merged(s, m) ==
  [k \in (DOMAIN m \ Stale(s, m)) \cup DOMAIN s |->
     IF k \in Changed(s, m) THEN [origin |-> "Ncp", value |-> s[k].last] ELSE m[k]]

\* The pairs the loop may add and remove again: those of a key listed with
\* several values.
Listed(s, m) ==
  UNION {{<<k, v>> : v \in s[k].vals} : k \in {j \in Changed(s, m) : s[j].vals # {s[j].last}}}

\* apply_tun_ops on one kernel table: del is removed, add is added.  An
\* operation that fails is only logged; then any of the pairs the operations
\* mention (listed: the ones added and removed again on the way) may be there.
ApplyTunOps(old, new, add, del, listed) ==
  LET touched == add \cup del \cup listed IN
  \/ new = (old \ del) \cup add /\ tun_ok' = tun_ok
  \/ /\ touched # {} /\ tun_ok' = FALSE
     /\ \E t \in SUBSET touched : new = (old \ touched) \cup t

\* The kernel side of a unicast or multicast snapshot: a replaced entry is
\* removed with its old value and added with the new one.
ApplyEntryOps(s, m, old, new) ==
  ApplyTunOps(old, new,
              {<<k, s[k].last>> : k \in Changed(s, m)},
              {<<k, m[k].value>> : k \in (Changed(s, m) \cap DOMAIN m) \cup Stale(s, m)},
              Listed(s, m))

\* Changes to interface_routes with the matching AddRoute / RemoveRoute
\* operations: the nets in DOMAIN new get that metric (replacing the route
\* they had), the nets in gone lose their route.
MoveRoutes(new, gone, listed) ==
  /\ interface_routes' =
       [n \in (DOMAIN interface_routes \cup DOMAIN new) \ gone |->
          IF n \in DOMAIN new THEN new[n] ELSE interface_routes[n]]
  /\ ApplyTunOps(tun_routes, tun_routes', RoutePairs(new),
                 {<<n, interface_routes[n]>> :
                    n \in (DOMAIN new \cup gone) \cap DOMAIN interface_routes},
                 listed)
-----------------------------------------------------------------------------
Init ==
  /\ unicast = EmptyMap /\ multicast = EmptyMap
  /\ on_mesh = EmptyMap /\ off_mesh = EmptyMap
  /\ interface_routes = EmptyMap
  /\ tun_addrs = {} /\ tun_groups = {} /\ tun_routes = {}
  /\ tun_ok = TRUE
  /\ reported = [unicast |-> {}, multicast |-> {}, on_mesh |-> {}, off_mesh |-> {}]

\* PROP_IPV6_ADDRESS_TABLE.
apply_ncp_address_table(s) ==
  /\ unicast' = Merged(s, unicast)
  /\ ApplyEntryOps(s, unicast, tun_addrs, tun_addrs')
  /\ reported' = [reported EXCEPT !.unicast = DOMAIN s]
  /\ UNCHANGED <<multicast, on_mesh, off_mesh, interface_routes, tun_groups, tun_routes>>

\* PROP_IPV6_MULTICAST_ADDRESS_TABLE.
apply_ncp_multicast_table(s) ==
  /\ multicast' = Merged(s, multicast)
  /\ ApplyEntryOps(s, multicast, tun_groups, tun_groups')
  /\ reported' = [reported EXCEPT !.multicast = DOMAIN s]
  /\ UNCHANGED <<unicast, on_mesh, off_mesh, interface_routes, tun_addrs, tun_routes>>

\* PROP_THREAD_ON_MESH_NETS.  A replaced entry only gets a route if the net
\* has none; a stale entry takes the net's route with it, whoever put it there.
apply_ncp_on_mesh_table(s) ==
  LET vacant == Changed(s, on_mesh) \ DOMAIN interface_routes
  IN  /\ on_mesh' = Merged(s, on_mesh)
      /\ MoveRoutes([n \in vacant |-> DefaultMetric], Stale(s, on_mesh), {})
      /\ reported' = [reported EXCEPT !.on_mesh = DOMAIN s]
      /\ UNCHANGED <<unicast, multicast, off_mesh, tun_addrs, tun_groups>>

\* PROP_THREAD_OFF_MESH_ROUTES.  A replaced entry moves the net's route to
\* the new metric; a stale entry takes the net's route with it.
apply_ncp_off_mesh_table(s) ==
  LET moved == {n \in Changed(s, off_mesh) :
                  n \in DOMAIN interface_routes => interface_routes[n] # s[n].last}
  IN  /\ off_mesh' = Merged(s, off_mesh)
      /\ MoveRoutes([n \in moved |-> s[n].last], Stale(s, off_mesh), Listed(s, off_mesh))
      /\ reported' = [reported EXCEPT !.off_mesh = DOMAIN s]
      /\ UNCHANGED <<unicast, multicast, on_mesh, tun_addrs, tun_groups>>

\* PropInsert "Thread:OnMeshPrefixes": insert_on_mesh(net, true).  Nothing
\* happens, not even to the origin, when the entry is already stable.
insert_on_mesh(n) ==
  LET is_new == n \notin DOMAIN on_mesh \/ ~on_mesh[n].value
      vacant == {k \in {n} : is_new /\ k \notin DOMAIN interface_routes}
  IN  /\ on_mesh' = IF is_new
                      THEN With(on_mesh, n, [origin |-> "User", value |-> TRUE])
                      ELSE on_mesh
      /\ MoveRoutes([k \in vacant |-> DefaultMetric], {}, {})
      /\ UNCHANGED <<unicast, multicast, off_mesh, tun_addrs, tun_groups, reported>>

\* PropInsert "Thread:OffMeshRoutes": insert_off_mesh(net, 256).
insert_off_mesh(n) ==
  LET is_new == n \notin DOMAIN off_mesh \/ off_mesh[n].value # DefaultMetric
      moved  == {k \in {n} : is_new /\ (k \in DOMAIN interface_routes
                                          => interface_routes[k] # DefaultMetric)}
  IN  /\ off_mesh' = IF is_new
                       THEN With(off_mesh, n, [origin |-> "User", value |-> DefaultMetric])
                       ELSE off_mesh
      /\ MoveRoutes([k \in moved |-> DefaultMetric], {}, {})
      /\ UNCHANGED <<unicast, multicast, on_mesh, tun_addrs, tun_groups, reported>>

\* Mutants of DropRoute: the map keeps the route; the metric is zeroed instead
\* of the entry being removed; the kernel keeps the route.
DropRoute_KeepsMap(n) == UNCHANGED <<interface_routes, tun_routes, tun_ok>>
DropRoute_KeepsKernel(n) ==
  interface_routes' = Without(interface_routes, n) /\ UNCHANGED <<tun_routes, tun_ok>>

\* The route of n goes with the entry, whichever table put it there.
DropRoute(n) == MoveRoutes(EmptyMap, {n}, {})

\* PropRemove "Thread:OnMeshPrefixes".
remove_on_mesh(n) ==
  /\ n \in DOMAIN on_mesh
  /\ on_mesh' = Without(on_mesh, n)
  /\ DropRoute(n)
  /\ UNCHANGED <<unicast, multicast, off_mesh, tun_addrs, tun_groups, reported>>

\* PropRemove "Thread:OffMeshRoutes".
remove_off_mesh(n) ==
  /\ n \in DOMAIN off_mesh
  /\ off_mesh' = Without(off_mesh, n)
  /\ DropRoute(n)
  /\ UNCHANGED <<unicast, multicast, on_mesh, tun_addrs, tun_groups, reported>>

\* A table frame forwarded by the frame task.
handle_address_frame ==
  \/ \E s \in Snapshots(Addrs, PrefixLens) : apply_ncp_address_table(s)
  \/ \E s \in Snapshots(Addrs, Member) : apply_ncp_multicast_table(s)
  \/ \E s \in Snapshots(Nets, BOOLEAN) : apply_ncp_on_mesh_table(s)
  \/ \E s \in Snapshots(Nets, Metrics) : apply_ncp_off_mesh_table(s)

address_prop_insert == \E n \in Nets : insert_on_mesh(n) \/ insert_off_mesh(n)
address_prop_remove == \E n \in Nets : remove_on_mesh(n) \/ remove_off_mesh(n)

\* set_ncp_state to an associated state: set_up(true), then the configured
\* global address is added, outside the tables; a failure is only logged.
set_tun_up ==
  /\ tun_addrs' \in {tun_addrs, tun_addrs \cup GlobalPairs}
  /\ UNCHANGED <<amVars, tun_groups, tun_routes, tun_ok, reported>>

\* set_ncp_state to any other state: set_up(false).  The kernel (external) may
\* drop addresses and routes of an interface that goes down; the manager's maps
\* are not told.
set_tun_down ==
  /\ \/ UNCHANGED tunVars
     \/ /\ tun_addrs' \in SUBSET tun_addrs
        /\ tun_routes' \in SUBSET tun_routes
        /\ tun_ok' = FALSE
        /\ UNCHANGED tun_groups
  /\ UNCHANGED <<amVars, reported>>

set_ncp_state == set_tun_up \/ set_tun_down

Next == handle_address_frame \/ address_prop_insert \/ address_prop_remove \/ set_ncp_state

Spec == Init /\ [][Next]_vars
-----------------------------------------------------------------------------
(***************************************************************************)
(* Properties                                                              *)
(***************************************************************************)
\* Every map has keys and entries of its type; the kernel tables hold pairs
\* the daemon can have programmed (the maps of addresses.rs).
TypeOK ==
  /\ unicast \in Map(Addrs, Entry(PrefixLens))
  /\ multicast \in Map(Addrs, Entry(Member))
  /\ on_mesh \in Map(Nets, Entry(BOOLEAN))
  /\ off_mesh \in Map(Nets, Entry(Metrics))
  /\ interface_routes \in Map(Nets, Metrics)
  /\ tun_addrs \subseteq Addrs \X PrefixLens
  /\ tun_groups \subseteq Addrs \X Member
  /\ tun_routes \subseteq Nets \X Metrics
  /\ tun_ok \in BOOLEAN
  /\ reported \in [unicast : SUBSET Addrs, multicast : SUBSET Addrs,
                   on_mesh : SUBSET Nets, off_mesh : SUBSET Nets]

\* No route leak: a route the daemon keeps on the TUN belongs to a prefix or
\* route still listed in one of the two tables, whatever mixture of snapshots,
\* metric changes, user inserts and user removals led here ("P1 route leak
\* fix", addresses.rs).
NoRouteLeak == DOMAIN interface_routes \subseteq DOMAIN on_mesh \cup DOMAIN off_mesh

\* While no TUN operation fails and the kernel drops nothing, the kernel holds
\* exactly what the manager believes, and at most the configured global address
\* besides: the incremental add/remove operations computed by the diffs never
\* drift from the maps (one route per net, with the current metric; one entry
\* per address, with the current prefix length; the groups joined).
TunInSync ==
  tun_ok => /\ tun_routes = RoutePairs(interface_routes)
            /\ EntryPairs(unicast) \subseteq tun_addrs
            /\ tun_addrs \subseteq EntryPairs(unicast) \cup GlobalPairs
            /\ tun_groups = EntryPairs(multicast)

\* Snapshots converge: an entry tagged as NCP-origin is one the NCP listed in
\* its latest table of that kind; nothing the NCP withdrew survives, even after
\* the user inserted or removed the same prefix in between (the stale filters
\* of the apply_ncp_* functions).
NcpEntriesReported ==
  /\ \A a \in DOMAIN unicast : unicast[a].origin = "Ncp" => a \in reported.unicast
  /\ \A a \in DOMAIN multicast : multicast[a].origin = "Ncp" => a \in reported.multicast
  /\ \A n \in DOMAIN on_mesh : on_mesh[n].origin = "Ncp" => n \in reported.on_mesh
  /\ \A n \in DOMAIN off_mesh : off_mesh[n].origin = "Ncp" => n \in reported.off_mesh

=============================================================================
