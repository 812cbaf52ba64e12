-------------------------- MODULE MCAddressManager --------------------------
(***************************************************************************)
(* Instances of AddressManager.  The route tables (on_mesh, off_mesh,      *)
(* interface_routes) and the address tables (unicast, multicast) share no  *)
(* state but tun_ok, so each half is explored with the other one empty:    *)
(* HalvesApart is an action constraint.                                    *)
(***************************************************************************)
EXTENDS AddressManager, TLC

CONSTANTS a, g,    \* addresses; g is the configured global one
          k1, k2   \* prefixes

MCAddrs      == {a, g}
MCGlobal     == {g}
MCNets       == {k1, k2}
MCMetrics    == {1, DefaultMetric}
MCPrefixLens == {64, 128}
NetSymmetry  == Permutations(MCNets)

HalvesApart ==
  \/ /\ DOMAIN unicast' = {} /\ DOMAIN multicast' = {}
     /\ reported'.unicast = {} /\ reported'.multicast = {}
     /\ tun_addrs' \subseteq GlobalPairs /\ tun_groups' = {}
  \/ /\ DOMAIN on_mesh' = {} /\ DOMAIN off_mesh' = {}
     /\ reported'.on_mesh = {} /\ reported'.off_mesh = {}
     /\ tun_routes' = {}
=============================================================================
