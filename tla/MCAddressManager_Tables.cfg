CONSTANTS
  a = a
  g = g
  k1 = k1
  k2 = k2
  Addrs <- MCAddrs
  Global <- MCGlobal
  Nets <- MCNets
  PrefixLens <- MCPrefixLens
  Metrics <- MCMetrics
SYMMETRY NetSymmetry
SPECIFICATION Spec
INVARIANTS NoRouteLeak TunInSync NcpEntriesReported
ACTION_CONSTRAINT HalvesApart
