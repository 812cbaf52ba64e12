-------------------------------- MODULE WfNet --------------------------------
(***************************************************************************)
(* The addresses, prefixes, routes and services of wfantund, and the       *)
(* tunnel interface they are put on: the tables of NCPInstanceBase, each   *)
(* entry with its origin (the NCP, the interface, the user); the tunnel's  *)
(* list of the addresses it waits for; the kernel's addresses, groups and  *)
(* routes (external); and the netlink and MLD events by which the kernel   *)
(* tells the tunnel what became of them, long after the call.              *)
(*                                                                         *)
(* An address is named by its prefix: "P1", "G1" and "M2" are in P, G and  *)
(* M, "ll" is link-local.  P1 is the SLAAC address of P, M2 an RLOC        *)
(* address, which is filtered once M is known to be the mesh-local prefix. *)
(* All addresses have prefix length 64, the length that                    *)
(* netif_mgmt_remove_ipv6_address always passes to the kernel.             *)
(***************************************************************************)
EXTENDS Naturals, Sequences, FiniteSets, FiniteSetsExt, TLC

CONSTANTS
    MaxNetSteps,  \* bound on the steps of clients, administrator and NCP
    MaxNetEvents  \* bound on the events that wait to be read

NetAddrs == {"P1", "G1", "M2", "ll"}
PrefixOf == [P1 |-> "P", G1 |-> "G", M2 |-> "M", ll |-> "L"]
NetGroups == {"m"}
NetServices == {"s"}

\* What the NCP may report: on-mesh prefixes and off-mesh routes of others.
NcpPrefixes ==
    {[p |-> "P", origin |-> "ncp", flags |-> "slaac", rloc |-> 1],
     [p |-> "P", origin |-> "ncp", flags |-> "onmesh", rloc |-> 2]}
NcpRoutes ==
    {[p |-> "P", origin |-> "ncp", pref |-> 3, rloc |-> 1, host |-> FALSE],
     [p |-> "Q", origin |-> "ncp", pref |-> 1, rloc |-> 1, host |-> FALSE],
     [p |-> "Q", origin |-> "ncp", pref |-> 2, rloc |-> 2, host |-> TRUE],
     [p |-> "Q", origin |-> "ncp", pref |-> 2, rloc |-> 2, host |-> FALSE]}

VARIABLES
    net,       \* the daemon's tables, the tunnel and the kernel: see NetInit
    netKinds,  \* the kinds of steps of this behaviour
    netSteps   \* how many more of them

netvars == <<net, netKinds, netSteps>>

NetInit(kinds, defaults, filters) ==
    /\ net \in [uni : {<<>>}, multi : {<<>>}, prefixes : {{}}, routes : {{}},
                services : {<<>>}, ifroutes : {<<>>}, refresh : {FALSE},
                pend : {<<>>}, pendM : {{}}, seen : {FALSE},  \* the tunnel
                kern : {{}}, groups : {{}}, kroutes : {{}},   \* the kernel
                running : {FALSE}, events : {<<>>},
                online : {FALSE}, meshlocal : {FALSE},
                waits : {{}},              \* multicast joins not yet answered
                told : {{}},               \* what the NCP was asked to hold
                \* Ghosts: addresses the administrator took away or an old
                \* event stopped from being added, interface routes left
                \* over, prefixes removed under another's entry.
                taken : {{}}, stale : {{}}, clash : {{}},
                global : defaults,         \* mDefaultGlobalAddress or ""
                filterself : filters]      \* mFilterSelfAutoAddedOffMeshRoutes
    /\ netKinds \in kinds
    /\ netSteps = MaxNetSteps

Without(f, S) == [x \in DOMAIN f \ S |-> f[x]]

-----------------------------------------------------------------------------
(* The kernel: netif-mgmt and the events it causes.                        *)

netif_remove(s, a) ==
    IF a \notin s.kern THEN s
    ELSE [s EXCEPT !.kern = @ \ {a}, !.events = Append(@, <<"del", a>>)]

\* The address is removed before it is added.
netif_add(s, a) ==
    LET t == netif_remove(s, a)
    IN  [t EXCEPT !.kern = @ \cup {a}, !.taken = @ \ {a},
                  !.events = Append(@, <<"new", a>>)]

netif_join(s, m) ==
    IF m \in s.groups THEN s
    ELSE [s EXCEPT !.groups = @ \cup {m}, !.events = Append(@, <<"join", m>>)]

netif_leave(s, m) ==
    IF m \notin s.groups THEN s
    ELSE [s EXCEPT !.groups = @ \ {m}, !.events = Append(@, <<"leave", m>>)]

netif_add_routes(s, R) == [s EXCEPT !.kroutes = @ \cup R]
netif_remove_routes(s, R) == [s EXCEPT !.kroutes = @ \ R]

set_running(s, b) ==
    IF s.running = b THEN s
    ELSE [s EXCEPT !.running = b, !.events = Append(@, <<"link", b>>)]

-----------------------------------------------------------------------------
(* The tunnel.                                                             *)

add_address(s, a) ==
    IF a \in DOMAIN s.pend THEN s
    ELSE IF s.running
         THEN [netif_add(s, a) EXCEPT !.pend = (a :> "confirm") @@ @]
         ELSE [s EXCEPT !.pend = (a :> "toAdd") @@ @]

remove_address(s, a) == netif_remove([s EXCEPT !.pend = Without(@, {a})], a)

join_multicast_address(s, m) ==
    IF s.running THEN netif_join(s, m) ELSE [s EXCEPT !.pendM = @ \cup {m}]

leave_multicast_address(s, m) == netif_leave([s EXCEPT !.pendM = @ \ {m}], m)

\* With a default address the tunnel asks for it whenever its state is set.
tunnel_set_online(s, b) ==
    LET t == set_running(s, b)
    IN  IF t.global = "" THEN t ELSE add_address(t, t.global)

-----------------------------------------------------------------------------
(* The unicast addresses.                                                  *)

Tell(s, what) ==
    [s EXCEPT !.told = @ \cup {what},
              !.clash = IF what[1] = "prefix" THEN @ \ {what[2]} ELSE @]
Untell(s, what) == [s EXCEPT !.told = @ \ {what}]

unicast_address_was_added(s, origin, a) ==
    IF a \in DOMAIN s.uni \/ (origin = "intface" /\ a = "ll") THEN s
    ELSE LET t == [s EXCEPT !.uni = (a :> origin) @@ @]
         IN  IF origin = "ncp" THEN add_address(t, a) ELSE t

\* A mutant: whoever added the entry.
SameEntry_AnyOrigin(x, e) == x.p = e.p

\* Two entries for one prefix are the same if their origin is, and for the
\* NCP's what it says of them too, except for a route whether the next hop is
\* this host: that changes with the RLOC16 of the device.
Compared(x) == Without(x, {"host"})
SameEntry(x, e) ==
    /\ x.p = e.p /\ x.origin = e.origin
    /\ x.origin = "ncp" => Compared(x) = Compared(e)

has_address_with_prefix(s, p) == \E a \in DOMAIN s.uni : PrefixOf[a] = p

Slaac(p) == CHOOSE a \in NetAddrs : PrefixOf[a] = p

on_mesh_prefix_was_added(s, e) ==
    LET known == \E x \in s.prefixes : SameEntry(x, e)
        told  == IF e.origin = "ncp" THEN s ELSE Tell(s, <<"prefix", e.p>>)
        t == IF known THEN s
             ELSE [told EXCEPT !.prefixes = @ \cup {e}, !.refresh = TRUE]
    IN  IF e.flags = "slaac" /\ ~has_address_with_prefix(t, e.p)
        THEN unicast_address_was_added(Tell(t, <<"addr", Slaac(e.p)>>),
                                       "ncp", Slaac(e.p))
        ELSE t

\* The address on a prefix from which the device has its own, unless the
\* prefix is the mesh-local one.
OwnPrefix(s, a) == a # "ll" /\ ~(s.meshlocal /\ PrefixOf[a] = "M")
InterfacePrefix(a) ==
    [p |-> PrefixOf[a], origin |-> "intface", flags |-> "onmesh", rloc |-> 0]

add_address_on_ncp_and_update_prefixes(s, a) ==
    LET t == Tell(s, <<"addr", a>>)
    IN  IF OwnPrefix(s, a)
        THEN on_mesh_prefix_was_added(t, InterfacePrefix(a)) ELSE t

SlaacPrefixLeft(s, p) == \E x \in s.prefixes : x.p = p /\ x.flags = "slaac"

NcpAddressRemoved(s, a) ==
    remove_address([s EXCEPT !.uni = Without(@, {a})], a)

\* What the prefix is looked up by is not what it was added with: the user
\* removes it with no flags at all.  So `e' and not the entry decides whether
\* the SLAAC address goes too.
on_mesh_prefix_was_removed(s, e) ==
    LET found == {x \in s.prefixes : SameEntry(x, e)}
        left  == s.prefixes \ found
        others == \E x \in left : x.p = e.p /\ x.origin # "ncp"
        u == IF e.origin = "ncp" THEN s
             ELSE [Untell(s, <<"prefix", e.p>>) EXCEPT
                     !.clash = IF others THEN @ \cup {e.p} ELSE @]
        t == [u EXCEPT !.prefixes = left, !.refresh = TRUE]
        own == {a \in DOMAIN t.uni : PrefixOf[a] = e.p /\ t.uni[a] = "ncp"}
    IN  IF found = {} THEN s
        ELSE IF e.flags = "slaac" /\ ~SlaacPrefixLeft(t, e.p) /\ own # {}
             THEN LET a == CHOOSE x \in own : TRUE
                  IN  NcpAddressRemoved(Untell(t, <<"addr", a>>), a)
             ELSE t

unicast_address_was_removed(s, origin, a) ==
    IF a \notin DOMAIN s.uni \/ s.uni[a] # origin THEN s
    ELSE LET t == [s EXCEPT !.uni = Without(@, {a})]
             u == Untell(t, <<"addr", a>>)
         IN  IF origin = "ncp" THEN NcpAddressRemoved(s, a)
             ELSE IF OwnPrefix(s, a)
                  THEN on_mesh_prefix_was_removed(u, InterfacePrefix(a))
                  ELSE u

-----------------------------------------------------------------------------
(* Multicast addresses, off-mesh routes and services.                      *)

multicast_address_was_joined(s, origin, m) ==
    IF m \in DOMAIN s.multi THEN s
    ELSE LET t == join_multicast_address(
                      [s EXCEPT !.multi = (m :> origin) @@ @], m)
         IN  IF origin = "ncp" THEN t
             ELSE [Tell(t, <<"group", m>>) EXCEPT !.waits = @ \cup {m}]

multicast_address_was_left(s, origin, m) ==
    IF m \notin DOMAIN s.multi \/ origin \notin {"user", s.multi[m]} THEN s
    ELSE LET t == [s EXCEPT !.multi = Without(@, {m})]
             u == IF origin = "intface" THEN t ELSE leave_multicast_address(t, m)
         IN  IF origin = "ncp" THEN u ELSE Untell(u, <<"group", m>>)

route_was_added(s, e) ==
    IF \E x \in s.routes : SameEntry(x, e) THEN s
    ELSE LET t == [s EXCEPT !.routes = @ \cup {e}, !.refresh = TRUE]
         IN  IF e.origin = "ncp" THEN t ELSE Tell(t, <<"route", e.p>>)

route_was_removed(s, e) ==
    LET found == {x \in s.routes : SameEntry(x, e)}
        t == [s EXCEPT !.routes = @ \ found, !.refresh = TRUE]
    IN  IF found = {} THEN s
        ELSE IF e.origin = "ncp" THEN t ELSE Untell(t, <<"route", e.p>>)

\* Services are compared by number and data only, whoever added them.
service_was_added(s, origin, v) ==
    IF v \in DOMAIN s.services THEN s
    ELSE LET t == [s EXCEPT !.services = (v :> origin) @@ @]
         IN  IF origin = "ncp" THEN t ELSE Tell(t, <<"service", v>>)

service_was_removed(s, origin, v) ==
    IF v \notin DOMAIN s.services THEN s
    ELSE LET t == [s EXCEPT !.services = Without(@, {v})]
         IN  IF origin = "ncp" THEN t ELSE Untell(t, <<"service", v>>)

-----------------------------------------------------------------------------
(* Routes on the interface.                                                *)

\* Routes of others are added unless the device has the route itself; with
\* the self filter off, theirs may still win by preference.
ByDevice(s, p) ==
    {r \in s.routes : r.p = p /\ (r.origin # "ncp" \/ r.host)}
ByOthers(s, p) == {r \in s.routes : r.p = p} \ ByDevice(s, p)
Preference(rs) == Max({r.pref : r \in rs} \cup {1})

OffMeshRoute(s, p) ==
    /\ ByOthers(s, p) # {}
    /\ \/ ByDevice(s, p) = {}
       \/ /\ ~s.filterself
          /\ Preference(ByOthers(s, p)) > Preference(ByDevice(s, p))
OnMeshRoute(s, p) ==
    \E x \in s.prefixes :
        x.p = p /\ x.origin = "ncp" /\ x.flags \in {"onmesh", "slaac"}

should_add_route_on_interface(s, p) == OffMeshRoute(s, p) \/ OnMeshRoute(s, p)
metric(s, p) == IF OffMeshRoute(s, p) THEN Preference(ByOthers(s, p)) ELSE 2

refresh_routes_on_interface(s) ==
    LET kept == {p \in DOMAIN s.ifroutes :
                   /\ should_add_route_on_interface(s, p)
                   /\ metric(s, p) = s.ifroutes[p]}
        new == {p \in {x.p : x \in s.routes} \cup {x.p : x \in s.prefixes} :
                   should_add_route_on_interface(s, p)} \ kept
        gone == {<<p, s.ifroutes[p]>> : p \in DOMAIN s.ifroutes \ kept}
    IN  netif_add_routes(
            netif_remove_routes(
                [s EXCEPT !.ifroutes = [p \in kept \cup new |-> metric(s, p)]],
                gone),
            {<<p, metric(s, p)>> : p \in new})

-----------------------------------------------------------------------------
(* Resets and the interface's state.                                       *)

RemoveAddresses(s, S) == FoldSet(LAMBDA a, t : remove_address(t, a), s, S)
LeaveGroups(s, S) == FoldSet(LAMBDA m, t : leave_multicast_address(t, m), s, S)

\* A mutant: the routes of the NCP go without a refresh being asked for.
Refreshes_Never(s) == s.refresh

\* Only an off-mesh route asks for a refresh here, not an on-mesh prefix.
Refreshes(s) == s.refresh \/ \E r \in s.routes : r.origin = "ncp"

remove_ncp_originated_address_prefix_route_entries(s) ==
    LET addrs == {a \in DOMAIN s.uni : s.uni[a] = "ncp"}
        grps  == {m \in DOMAIN s.multi : s.multi[m] = "ncp"}
        dead  == {e \in s.prefixes : e.origin = "ncp"}
        t == LeaveGroups(RemoveAddresses(s, addrs), grps)
    IN  [t EXCEPT
            !.uni = Without(@, addrs), !.multi = Without(@, grps),
            !.prefixes = @ \ dead,
            !.routes = {r \in @ : r.origin # "ncp"},
            !.refresh = Refreshes(s),
            !.stale = @ \cup {e.p : e \in dead},
            !.services = Without(@, {v \in DOMAIN @ : @[v] = "ncp"})]

remove_all_address_prefix_route_entries(s) ==
    LET t == LeaveGroups(RemoveAddresses(s, DOMAIN s.uni), DOMAIN s.multi)
        gone == {<<p, s.ifroutes[p]>> : p \in DOMAIN s.ifroutes}
    IN  [netif_remove_routes(t, gone) EXCEPT
            !.uni = <<>>, !.multi = <<>>, !.prefixes = {}, !.routes = {},
            !.services = <<>>, !.ifroutes = <<>>, !.stale = {}]

restore_address_prefix_route_entries_on_ncp(s) ==
    LET own == {a \in DOMAIN s.uni : s.uni[a] = "intface"}
        t == FoldSet(LAMBDA a, u : add_address_on_ncp_and_update_prefixes(u, a),
                     s, own)
        all == {<<"group", m>> : m \in {x \in DOMAIN t.multi : t.multi[x] # "ncp"}}
               \cup {<<"prefix", e.p>> : e \in {x \in t.prefixes : x.origin # "ncp"}}
               \cup {<<"route", e.p>> : e \in {x \in t.routes : x.origin # "ncp"}}
               \cup {<<"service", v>> :
                       v \in {x \in DOMAIN t.services : t.services[x] # "ncp"}}
    IN  FoldSet(LAMBDA w, u : Tell(u, w), t, all)


set_online(s, b) ==
    IF s.online = b THEN s
    ELSE LET t == tunnel_set_online([s EXCEPT !.online = b], b)
         IN  IF b THEN restore_address_prefix_route_entries_on_ncp(t) ELSE t

-----------------------------------------------------------------------------
(* The steps.  `kind' tells which behaviours have the step.                *)

Step(kind, t) ==
    /\ kind \in netKinds /\ netSteps > 0 /\ Len(net.events) < MaxNetEvents
    /\ net' = t /\ netSteps' = netSteps - 1
    /\ UNCHANGED netKinds

\* The administrator, or another program, changes the interface.
AdminAdds(a) == a \notin net.kern /\ Step("admin", netif_add(net, a))
AdminRemoves(a) ==
    /\ a \in net.kern
    /\ Step("admin", [netif_remove(net, a) EXCEPT !.taken = @ \cup {a}])

should_filter_address(s, a) == a = "M2" /\ s.meshlocal

AddressInserted(s, a) ==
    IF s.global = "" /\ ~should_filter_address(s, a)
    THEN unicast_address_was_added(s, "ncp", a) ELSE s

\* IPV6_ADDRESS_TABLE inserted: one address.  And the table as a whole: its
\* addresses are inserted, and those of the NCP that it lacks are removed.
NcpInsertsAddress(a) == Step("addrs", AddressInserted(net, a))
NcpAddressTable(S) ==
    LET t == FoldSet(LAMBDA a, u : AddressInserted(u, a), net, S)
        left == {a \in DOMAIN net.uni \ S : net.uni[a] = "ncp"}
    IN  Step("addrs",
             FoldSet(LAMBDA a, u : unicast_address_was_removed(u, "ncp", a),
                     t, left))

\* The mesh-local prefix: the addresses it makes superfluous are removed.
update_mesh_local_prefix ==
    /\ ~net.meshlocal
    /\ LET t == [net EXCEPT !.meshlocal = TRUE]
           out == {a \in DOMAIN t.uni :
                     t.uni[a] = "ncp" /\ should_filter_address(t, a)}
       IN  Step("addrs",
                FoldSet(LAMBDA a, u : unicast_address_was_removed(u, "ncp", a),
                        t, out))

NcpMulticastTable(S) ==
    LET t == FoldSet(LAMBDA m, u : multicast_address_was_joined(u, "ncp", m),
                     net, S)
        left == {m \in DOMAIN net.multi \ S : net.multi[m] = "ncp"}
    IN  Step("groups",
             FoldSet(LAMBDA m, u : multicast_address_was_left(u, "ncp", m),
                     t, left))

handle_ncp_spinel_value_is_ON_MESH_NETS(S) ==
    LET t == FoldSet(LAMBDA e, u : on_mesh_prefix_was_added(u, e), net, S)
        left == {e \in net.prefixes \ S : e.origin = "ncp"}
    IN  Step("nets",
             FoldSet(LAMBDA e, u : on_mesh_prefix_was_removed(u, e), t, left))

handle_ncp_spinel_value_is_OFF_MESH_ROUTES(S) ==
    LET t == FoldSet(LAMBDA e, u : route_was_added(u, e), net, S)
        left == {e \in net.routes :
                   e.origin = "ncp" /\ ~\E x \in S : SameEntry(x, e)}
    IN  Step("nets", FoldSet(LAMBDA e, u : route_was_removed(u, e), t, left))

handle_ncp_spinel_value_is_SERVICES(S) ==
    LET t == FoldSet(LAMBDA v, u : service_was_added(u, "ncp", v), net, S)
        left == {v \in DOMAIN net.services \ S : net.services[v] = "ncp"}
    IN  Step("services",
             FoldSet(LAMBDA v, u : service_was_removed(u, "ncp", v), t, left))

UserPrefix(flags) ==
    [p |-> "P", origin |-> "user", flags |-> flags, rloc |-> 0]
UserRoute(pref) ==
    [p |-> "P", origin |-> "user", pref |-> pref, rloc |-> 0, host |-> TRUE]

UserAdds ==
    \/ \E f \in {"onmesh", "slaac"} :
           Step("users", on_mesh_prefix_was_added(net, UserPrefix(f)))
    \/ \E r \in {1, 3} : Step("users", route_was_added(net, UserRoute(r)))
    \/ \E v \in NetServices :
           Step("services", service_was_added(net, "user", v))
    \/ \E m \in NetGroups :
           Step("groups", multicast_address_was_joined(net, "user", m))

UserRemoves ==
    \/ Step("users", on_mesh_prefix_was_removed(net, UserPrefix("none")))
    \/ Step("users", route_was_removed(net, UserRoute(2)))
    \/ \E v \in NetServices :
           Step("services", service_was_removed(net, "user", v))
    \/ \E m \in NetGroups :
           Step("groups", multicast_address_was_left(net, "user", m))

\* The NCP's answer to a user's join: a refusal takes the group back.  (The
\* refusal of anything else resets the NCP.)
check_multicast_address_add_status ==
    \E m \in net.waits, ok \in BOOLEAN :
        LET t == [net EXCEPT !.waits = @ \ {m}]
        IN  Step("groups",
                 IF ok THEN t ELSE multicast_address_was_left(t, "user", m))

\* The tasks end with an error, and with them the joins not yet answered.
reset_tasks(s) ==
    FoldSet(LAMBDA m, u : multicast_address_was_left(u, "user", m),
            [s EXCEPT !.waits = {}], s.waits)

\* The NCP has reset: unless that was expected the tasks are reset; the
\* interface goes down, what came from the NCP goes, and the NCP has forgotten
\* what it was asked to hold.
NcpReset ==
    \E expected \in BOOLEAN :
        LET t == IF expected THEN net ELSE reset_tasks(net)
            u == remove_ncp_originated_address_prefix_route_entries(
                     set_online(t, FALSE))
        IN  Step("reset", [u EXCEPT !.told = {}, !.clash = {},
                                    !.meshlocal = FALSE])

\* reset_interface: the tunnel goes down, not mIsInterfaceOnline.
ResetInterface ==
    Step("reset", remove_all_address_prefix_route_entries(
                      tunnel_set_online(net, FALSE)))

SetOnline(b) == net.online # b /\ Step("online", set_online(net, b))

refresh_address_route_prefix_entries ==
    /\ net.refresh
    /\ net' = refresh_routes_on_interface(
                  [net EXCEPT !.refresh = FALSE, !.stale = {}])
    /\ UNCHANGED <<netKinds, netSteps>>

\* The tunnel has come up: what waited for it is added.
on_link_state_changed(s, b) ==
    LET waiting == {a \in DOMAIN s.pend : s.pend[a] = "toAdd"}
        t == FoldSet(LAMBDA a, u :
                        [netif_add(u, a) EXCEPT !.pend[a] = "confirm"],
                     s, waiting)
        j == FoldSet(LAMBDA m, u : netif_join(u, m), t, s.pendM)
    IN  IF b = s.seen THEN s
        ELSE IF b THEN [j EXCEPT !.pendM = {}, !.seen = b]
        ELSE [s EXCEPT !.seen = b]

\* An address stops waiting even if the event is that of an earlier addition
\* that was undone since, and then nothing adds it any more.
on_address_added(s, a) ==
    LET lost == IF a \in DOMAIN s.pend \ s.kern THEN {a} ELSE {}
    IN  unicast_address_was_added(
            [s EXCEPT !.pend = Without(@, {a}), !.taken = @ \cup lost],
            "intface", a)

on_address_removed(s, a) ==
    IF a \in DOMAIN s.pend THEN s
    ELSE unicast_address_was_removed(s, "intface", a)

\* Joins seen on the interface are not reported: the signal is commented out.
on_multicast_address_joined(s, m) == [s EXCEPT !.pendM = @ \ {m}]

on_multicast_address_left(s, m) ==
    IF m \in s.pendM THEN s ELSE multicast_address_was_left(s, "intface", m)

\* One message is read in each turn of the main loop.
Unread == [net EXCEPT !.events = Tail(@)]
NextEvent(kinds) == net.events # <<>> /\ Head(net.events)[1] \in kinds

processNetlinkFD ==
    /\ NextEvent({"new", "del", "link"})
    /\ LET e == Head(net.events)
       IN  net' = CASE e[1] = "new"  -> on_address_added(Unread, e[2])
                    [] e[1] = "del"  -> on_address_removed(Unread, e[2])
                    [] e[1] = "link" -> on_link_state_changed(Unread, e[2])
    /\ UNCHANGED <<netKinds, netSteps>>

processMLDMonitorFD ==
    /\ NextEvent({"join", "leave"})
    /\ LET e == Head(net.events)
       IN  net' = IF e[1] = "join" THEN on_multicast_address_joined(Unread, e[2])
                  ELSE on_multicast_address_left(Unread, e[2])
    /\ UNCHANGED <<netKinds, netSteps>>

\* What the NCP says.
RouteTables ==
    {S \in SUBSET NcpRoutes : \A x, y \in S : SameEntry(x, y) => x = y}
NcpFrame ==
    \/ \E a \in NetAddrs \ {"G1"} : NcpInsertsAddress(a)
    \/ \E S \in SUBSET {"P1", "M2"} : NcpAddressTable(S)
    \/ update_mesh_local_prefix
    \/ \E S \in SUBSET NetGroups : NcpMulticastTable(S)
    \/ \E S \in SUBSET NcpPrefixes : handle_ncp_spinel_value_is_ON_MESH_NETS(S)
    \/ \E S \in RouteTables : handle_ncp_spinel_value_is_OFF_MESH_ROUTES(S)
    \/ \E S \in SUBSET NetServices : handle_ncp_spinel_value_is_SERVICES(S)

NetNext ==
    \/ NcpFrame \/ UserAdds \/ UserRemoves
    \/ check_multicast_address_add_status
    \/ \E a \in {"P1", "ll"} : AdminAdds(a)
    \/ \E a \in NetAddrs : AdminRemoves(a)
    \/ NcpReset \/ ResetInterface
    \/ \E b \in BOOLEAN : SetOnline(b)
    \/ refresh_address_route_prefix_entries
    \/ processNetlinkFD \/ processMLDMonitorFD

-----------------------------------------------------------------------------
\* The table and the interface agree up to what is under way: an address of
\* the NCP's in mUnicastAddresses is on the interface or the tunnel waits to
\* add it (unless the administrator took it away, or the event of an earlier
\* addition ended the wait); and an address on the interface is in the table,
\* or the event that puts it there is on its way (link-local addresses of the
\* interface are left out on purpose).
AddressesAgree ==
    /\ \A a \in DOMAIN net.uni : net.uni[a] = "ncp" =>
           a \in net.kern \cup DOMAIN net.pend \cup net.taken
    /\ \A a \in net.kern \ {"ll"} :
           \/ a \in DOMAIN net.uni
           \/ \E i \in DOMAIN net.events : net.events[i] = <<"new", a>>

\* Once no refresh is due, the routes on the interface are those the tables
\* call for, with the metric they call for, in the kernel too.  The routes of
\* on-mesh prefixes that went with a reset of the NCP stay until something
\* else asks for a refresh.
RoutesFollowTables ==
    /\ net.kroutes = {<<p, net.ifroutes[p]>> : p \in DOMAIN net.ifroutes}
    /\ ~net.refresh =>
          /\ \A p \in {"P", "Q"} : should_add_route_on_interface(net, p) =>
                p \in DOMAIN net.ifroutes
          /\ \A p \in DOMAIN net.ifroutes \ net.stale :
                /\ should_add_route_on_interface(net, p)
                /\ net.ifroutes[p] = metric(net, p)

\* The interface carries what the tables say (NCPInstanceBase-Addresses.cpp,
\* TunnelIPv6Interface.cpp).
InterfaceAgrees == AddressesAgree /\ RoutesFollowTables


\* What the user added stays, whatever the NCP and the kernel report, until
\* the user removes it or the interface is reset.  Only a group whose join the
\* NCP has not answered may go without that: when the NCP refuses it, and with
\* an unexpected reset, which the callback of the join takes for a refusal.
UserEntries(s) ==
    {e \in s.prefixes \cup s.routes : e.origin = "user"}
    \cup {v \in DOMAIN s.services : s.services[v] = "user"}
    \cup {m \in DOMAIN s.multi : s.multi[m] = "user"}
UserEntriesSurvive ==
    [][LET lost == UserEntries(net) \ UserEntries(net')
       IN  lost # {} => \/ UserRemoves \/ ResetInterface
                        \/ /\ NcpReset \/ check_multicast_address_add_status
                           /\ lost \subseteq net.waits]_net
=============================================================================
