---------------------------- MODULE WfPropTable ----------------------------
(***************************************************************************)
(* The properties wfantund offers over D-Bus and the handlers registered   *)
(* for them, first by NCPInstanceBase and then by SpinelNCPInstance.  A    *)
(* table gives, per Spinel data type or per capability the NCP must have,  *)
(* the properties registered with one register_*_handler function.  Row(n) *)
(* joins them: how property n is read and written.                         *)
(***************************************************************************)
EXTENDS Naturals

LOCAL INSTANCE TLC

-----------------------------------------------------------------------------
(* Get handlers of SpinelNCPInstance.                                      *)

\* Asked of the NCP, whatever it is capable of.
GetSimple ==
    [INT8 |-> {"NCPCCAThreshold", "NCPTXPower", "NCPRSSI"},
     INT32 |-> {"NCPFrequency"},
     DATA |-> {"NetworkKey", "NetworkPSKc", "ThreadStableNetworkData",
             "ThreadLeaderNetworkData", "ThreadStableLeaderNetworkData"},
     EUI64 |-> {"NCPExtendedAddress"},
     UINT32 |-> {"NetworkKeyIndex", "NetworkKeySwitchGuardTime",
             "NetworkPartitionId"},
     UINT8 |-> {"NetworkRole", "ThreadRouterUpgradeThreshold",
             "ThreadRouterDowngradeThreshold", "ThreadRouterSelectionJitter",
             "ThreadStableNetworkDataVersion", "ThreadDeviceMode",
             "OpenThreadLogLevel"},
     BOOL |-> {"ThreadRouterRoleEnabled", "OpenThreadDebugTestAssert",
             "OpenThreadDebugTestWatchdog", "TmfProxyEnabled",
             "OpenThreadTrelTestModeEnable"},
     UINT16 |-> {"NCPCCAFailureRate"},
     UINT64 |-> {"OpenThreadLogTimestampBase"}]

\* Asked of an NCP that has the capability.
GetCapability ==
    [ROLE_SLEEPY |-> [NCPSleepyPollInterval |-> "UINT32"],
     THREAD_COMMISSIONER |->
         [CommissionerProvisioningUrl |-> "UTF8",
          CommissionerSessionId |-> "UINT16"],
     MAC_ALLOWLIST |->
         [MACAllowlistEnabled |-> "BOOL", MACDenylistEnabled |-> "BOOL"],
     JAM_DETECT |->
         [JamDetectionStatus |-> "BOOL", JamDetectionEnable |-> "BOOL",
          JamDetectionRssiThreshold |-> "INT8",
          JamDetectionWindow |-> "UINT8", JamDetectionBusyPeriod |-> "UINT8",
          JamDetectionDebugHistoryBitmap |-> "UINT64"],
     CHILD_SUPERVISION |->
         [ChildSupervisionInterval |-> "UINT16",
          ChildSupervisionCheckTimeout |-> "UINT16"],
     CHANNEL_MONITOR |->
         [ChannelMonitorSampleInterval |-> "UINT32",
          ChannelMonitorRssiThreshold |-> "INT8",
          ChannelMonitorSampleWindow |-> "UINT32",
          ChannelMonitorSampleCount |-> "UINT32"],
     CHANNEL_MANAGER |->
         [ChannelManagerNewChannel |-> "UINT8",
          ChannelManagerDelay |-> "UINT16",
          ChannelManagerAutoSelectEnabled |-> "BOOL",
          ChannelManagerAutoSelectInterval |-> "UINT32",
          ChannelManagerChannelSelect |-> "BOOL"],
     NEST_LEGACY_INTERFACE |-> [NestLabs_LegacyMeshLocalPrefix |-> "DATA"],
     TIME_SYNC |->
         [TimeSync_Period |-> "UINT16", TimeSync_XtalThreshold |-> "UINT16"]]
GetCapabilityNewer ==
    [POSIX |-> [POSIXAppRCPVersion |-> "UTF8"],
     SLAAC |-> [OpenThreadSLAACEnabled |-> "BOOL"],
     RADIO_COEX |-> [NCPCoexEnable |-> "BOOL"],
     NET_THREAD_1_2 |-> [ThreadDomainName |-> "UTF8"],
     THREAD_CSL_RECEIVER |->
         [ThreadCslPeriod |-> "UINT16", ThreadCslTimeout |-> "UINT32",
          ThreadCslChannel |-> "UINT8"],
     THREAD_BACKBONE_ROUTER |->
         [ThreadBackboneRouterLocalJitter |-> "UINT8"]]

\* The 43 packet and error counters.
GetMacCounters ==
    {"NCPCounter_TX_PKT_TOTAL", "NCPCounter_TX_PKT_UNICAST",
     "NCPCounter_TX_PKT_BROADCAST", "NCPCounter_TX_PKT_ACK_REQ",
     "NCPCounter_TX_PKT_ACKED", "NCPCounter_TX_PKT_NO_ACK_REQ",
     "NCPCounter_TX_PKT_DATA", "NCPCounter_TX_PKT_DATA_POLL",
     "NCPCounter_TX_PKT_BEACON", "NCPCounter_TX_PKT_BEACON_REQ",
     "NCPCounter_TX_PKT_OTHER", "NCPCounter_TX_PKT_RETRY",
     "NCPCounter_TX_ERR_CCA", "NCPCounter_TX_ERR_ABORT",
     "NCPCounter_RX_PKT_TOTAL", "NCPCounter_RX_PKT_UNICAST",
     "NCPCounter_RX_PKT_BROADCAST", "NCPCounter_RX_PKT_DATA",
     "NCPCounter_RX_PKT_DATA_POLL", "NCPCounter_RX_PKT_BEACON",
     "NCPCounter_RX_PKT_BEACON_REQ", "NCPCounter_RX_PKT_OTHER",
     "NCPCounter_RX_PKT_FILT_WL", "NCPCounter_RX_PKT_FILT_DA",
     "NCPCounter_RX_ERR_EMPTY", "NCPCounter_RX_ERR_UKWN_NBR",
     "NCPCounter_RX_ERR_NVLD_SADDR", "NCPCounter_RX_ERR_SECURITY",
     "NCPCounter_RX_ERR_BAD_FCS", "NCPCounter_RX_ERR_OTHER"}
GetIpCounters ==
    {"NCPCounter_TX_IP_SEC_TOTAL", "NCPCounter_TX_IP_INSEC_TOTAL",
     "NCPCounter_TX_IP_DROPPED", "NCPCounter_RX_IP_SEC_TOTAL",
     "NCPCounter_RX_IP_INSEC_TOTAL", "NCPCounter_RX_IP_DROPPED",
     "NCPCounter_TX_SPINEL_TOTAL", "NCPCounter_RX_SPINEL_TOTAL",
     "NCPCounter_RX_SPINEL_ERR", "NCPCounter_IP_TX_SUCCESS",
     "NCPCounter_IP_RX_SUCCESS", "NCPCounter_IP_TX_FAILURE",
     "NCPCounter_IP_RX_FAILURE"}
GetCounters == GetMacCounters \cup GetIpCounters

\* Asked of the NCP and unpacked by a function of their own.
GetUnpacked ==
    {"DodagRouteDest", "DodagRoute", "ConnectedDevices",
     "NumConnectedDevices", "NCPChannelMask", "NCPPreferredChannelMask",
     "ThreadActiveDataset", "ThreadActiveDatasetAsValMap",
     "ThreadPendingDataset", "ThreadPendingDatasetAsValMap",
     "ThreadAddressCacheTable", "ThreadAddressCacheTableAsValMap",
     "OpenThreadSupportedRadioLinks"}
GetCapabilityUnpacked ==
    [MCU_POWER_STATE |-> {"NCPMCUPowerState"},
     THREAD_JOINER |-> {"JoinerState", "JoinerDiscernerValue"},
     THREAD_COMMISSIONER |-> {"CommissionerState", "CommissionerJoiners"},
     MAC_ALLOWLIST |->
         {"MACAllowlistEntries", "MACAllowlistEntriesAsValMap",
          "MACDenylistEntries", "MACDenylistEntriesAsValMap",
          "MACFilterEntries", "MACFilterEntriesAsValMap"},
     CHANNEL_MONITOR |->
         {"ChannelMonitorChannelQuality",
          "ChannelMonitorChannelQualityAsValMap"},
     CHANNEL_MANAGER |->
         {"ChannelManagerSupportedChannelMask",
          "ChannelManagerFavoredChannelMask"},
     COUNTERS |->
         {"NCPCounterAllMac", "NCPCounterAllMacAsValMap",
          "NCPCounterThreadMle", "NCPCounterThreadMleAsValMap",
          "NCPCounterAllIPv6", "NCPCounterAllIPv6AsValMap"},
     TIME_SYNC |-> {"TimeSync_NetworkTime", "TimeSync_NetworkTimeAsValMap"},
     THREAD_SERVICE |->
         {"ThreadLeaderServices", "ThreadLeaderServicesAsValMap"},
     RADIO_COEX |-> {"NCPCoexMetrics", "NCPCoexMetricsAsValMap"},
     MULTI_RADIO |-> {"OpenThreadNeighborTableMultiRadioInfo"},
     DUA |-> {"ThreadDUAInterfaceIdentifier"},
     NET_THREAD_1_2 |-> {"ThreadBackboneRouterPrimary"},
     THREAD_BACKBONE_ROUTER |->
         {"ThreadBackboneRouterLocalState",
          "ThreadBackboneRouterLocalConfig"}]

\* Answered by a handler of SpinelNCPInstance: from the daemon's own state,
\* from what the NCP has reported, or by a task.
GetOwn ==
    {"ConfigNCPDriverName", "NCPCapabilities", "NetworkIsCommissioned",
     "ThreadConfigFilterRLOCAddresses", "ThreadConfigFilterALOCAddresses",
     "OpenThreadSteeringDataSetWhenJoinable",
     "OpenThreadSteeringDataAddress", "DatasetCommand",
     "DaemonTickleOnHostDidWake"}
GetDataset ==
    {"DatasetActiveTimestamp", "DatasetPendingTimestamp", "DatasetMasterKey",
     "DatasetNetworkName", "DatasetExtendedPanId", "DatasetMeshLocalPrefix",
     "DatasetDelay", "DatasetPanId", "DatasetChannel", "DatasetPSKc",
     "DatasetChannelMaskPage0", "DatasetSecPolicyKeyRotation",
     "DatasetSecPolicyFlags", "DatasetRawTlvs", "DatasetDestIpAddress"}
GetDatasetAll ==
    {"DatasetAllFileds", "DatasetAllFileds_AltString",
     "DatasetAllFiledsAsValMap"}
GetServers ==
    {"ExternalDHCPServerEnabled", "ExternalDHCPServerAddr",
     "ExternalAuthServerEnabled", "ExternalAuthServerAddr"}
GetCachedAddress == {"IPv6MeshLocalPrefix", "IPv6LinkLocalAddress"}
GetByTask ==
    {"ThreadChildTable", "ThreadChildTableAsValMap",
     "ThreadChildTableAddresses", "ThreadNeighborTable",
     "ThreadNeighborTableAsValMap", "ThreadRouterTable",
     "ThreadRouterTableAsValMap", "OpenThreadMsgBufferCounters",
     "OpenThreadMsgBufferCountersAsString"}
GetOwnRegistered ==
    GetOwn \cup GetDataset \cup GetDatasetAll \cup GetServers
      \cup GetCachedAddress \cup GetByTask
GetCapabilityOwn ==
    [THREAD_JOINER |-> {"JoinerDiscernerBitLength"},
     THREAD_COMMISSIONER |->
         {"CommissionerEnergyScanResult", "CommissionerPanIdConflictResult"},
     THREAD_LINK_METRICS |->
         {"CommissionerLinkMetricsQueryResult",
          "CommissionerLinkMetricsMgmtResponse",
          "CommissionerLinkMetricsLastEnhAckIe"},
     NET_THREAD_1_2 |-> {"ThreadMlrResponse"},
     ERROR_RATE_TRACKING |->
         {"ThreadNeighborTableErrorRates",
          "ThreadNeighborTableErrorRatesAsValMap"},
     POSIX |-> {"POSIXAppRCPVersionCached"},
     MAC_ALLOWLIST |-> {"MACFilterFixedRssi"}]

-----------------------------------------------------------------------------
(* Set handlers of SpinelNCPInstance.                                      *)

SetSimple ==
    [UINT8 |-> {"NCPChannel", "BCInterval", "UCDwellInterval",
             "BCDwellInterval", "UCChFunction", "BCChFunction",
             "NetworkRole", "NCPPhyRegion", "NCPModeID", "OperatingClass",
             "NumChannels", "ThreadPreferredRouterID",
             "ThreadRouterSelectionJitter", "ThreadRouterUpgradeThreshold",
             "ThreadRouterDowngradeThreshold"},
     UINT16 |-> {"NetworkPANID", "ChSpacing"},
     DATA |-> {"NetworkPSKc"},
     UINT32 |-> {"NetworkPartitionId", "NetworkKeyIndex",
             "NetworkKeySwitchGuardTime", "MacFilterMode", "Ch0CenterFreq"},
     EUI64 |-> {"NCPMACAddress", "NCPExtendedAddress"},
     UTF8 |-> {"NetworkName"},
     BOOL |-> {"ThreadRouterRoleEnabled", "OpenThreadTrelTestModeEnable"}]
SetPersist ==
    [INT8 |-> {"NCPCCAThreshold", "NCPTXPower"},
     UINT8 |-> {"ThreadDeviceMode", "OpenThreadLogLevel"},
     DATA |-> {"NCPChannelMask", "DodagRouteDest", "UnicastChList",
             "BroadcastChList", "AsyncChList", "RegulationChList"}]
SetCapability ==
    [MAC_ALLOWLIST |->
         [MACAllowlistEnabled |-> "BOOL", MACDenylistEnabled |-> "BOOL"],
     THREAD_COMMISSIONER |->
         [CommissionerProvisioningUrl |-> "UTF8",
          CommissionerSendMgmtGet |-> "DATA_WLEN",
          CommissionerSendMgmtSet |-> "DATA_WLEN"],
     CHANNEL_MANAGER |-> [ChannelManagerChannelSelect |-> "BOOL"],
     TIME_SYNC |->
         [TimeSync_Period |-> "UINT16", TimeSync_XtalThreshold |-> "UINT16"],
     OPENTHREAD_LOG_METADATA |-> [OpenThreadLogTimestampBase |-> "UINT64"],
     NET_THREAD_1_2 |-> [ThreadDomainName |-> "UTF8"],
     THREAD_CSL_RECEIVER |->
         [ThreadCslPeriod |-> "UINT16", ThreadCslTimeout |-> "UINT32",
          ThreadCslChannel |-> "UINT8"],
     THREAD_BACKBONE_ROUTER |->
         [ThreadBackboneRouterLocalJitter |-> "UINT8"]]
SetCapabilityConverted ==
    [THREAD_COMMISSIONER |-> [CommissionerState |-> "UINT8"],
     COUNTERS |->
         [NCPCounterAllReset |-> "UINT8", NCPCounterAllMac |-> "UINT8",
          NCPCounterThreadMle |-> "UINT8", NCPCounterAllIPv6 |-> "UINT8"],
     DUA |-> [ThreadDUAInterfaceIdentifier |-> "DATA"],
     THREAD_BACKBONE_ROUTER |->
         [ThreadBackboneRouterLocalState |-> "UINT8",
          ThreadBackboneRouterLocalRegister |-> "UINT8"]]
SetCapabilityPersist ==
    [ROLE_SLEEPY |-> [NCPSleepyPollInterval |-> "UINT32"],
     THREAD_TMF_PROXY |-> [TmfProxyEnabled |-> "BOOL"],
     JAM_DETECT |->
         [JamDetectionEnable |-> "BOOL",
          JamDetectionRssiThreshold |-> "INT8",
          JamDetectionWindow |-> "UINT8", JamDetectionBusyPeriod |-> "UINT8"],
     NEST_LEGACY_INTERFACE |-> [NestLabs_LegacyMeshLocalPrefix |-> "DATA"],
     CHILD_SUPERVISION |->
         [ChildSupervisionInterval |-> "UINT16",
          ChildSupervisionCheckTimeout |-> "UINT16"],
     CHANNEL_MANAGER |->
         [ChannelManagerNewChannel |-> "UINT8",
          ChannelManagerDelay |-> "UINT16",
          ChannelManagerAutoSelectEnabled |-> "BOOL",
          ChannelManagerAutoSelectInterval |-> "UINT32",
          ChannelManagerSupportedChannelMask |-> "DATA",
          ChannelManagerFavoredChannelMask |-> "DATA"],
     SLAAC |-> [OpenThreadSLAACEnabled |-> "BOOL"],
     RADIO_COEX |-> [NCPCoexEnable |-> "BOOL"],
     MCU_POWER_STATE |-> [NCPMCUPowerState |-> "UINT8"]]

\* Written to the NCP by a handler of their own; NetworkKey first becomes the
\* daemon's own key when it is not joining or joined.
SetOwnNcp ==
    [NetworkKey |-> "DATA", InterfaceUp |-> "BOOL", NetworkXPANID |-> "DATA",
     IPv6MeshLocalPrefix |-> "IPv6"]
SetOwnStreams ==
    [TmfProxyStream |-> "DATA_WLEN", UdpForwardStream |-> "DATA_WLEN"]
SetOwnLocal ==
    {"ThreadConfigFilterRLOCAddresses", "ThreadConfigFilterALOCAddresses",
     "OpenThreadSteeringDataSetWhenJoinable",
     "OpenThreadSteeringDataAddress", "DaemonTickleOnHostDidWake"}
SetDataset == GetDataset
SetOwnCapabilityLocal ==
    [MAC_ALLOWLIST |-> {"MACFilterFixedRssi"},
     THREAD_JOINER |-> {"JoinerDiscernerBitLength"}]
SetOwnCapabilityNcp == [THREAD_JOINER |-> [JoinerDiscernerValue |-> "UINT64"]]
SetOwnRegistered ==
    DOMAIN SetOwnNcp \cup DOMAIN SetOwnStreams \cup SetOwnLocal
      \cup SetDataset \cup {"DatasetCommand"}
      \cup UNION {SetOwnCapabilityLocal[c] :
                   c \in DOMAIN SetOwnCapabilityLocal}
      \cup UNION {DOMAIN SetOwnCapabilityNcp[c] :
                   c \in DOMAIN SetOwnCapabilityNcp}

-----------------------------------------------------------------------------
(* NCPInstanceBase: copies of values the NCP reports, with the data type   *)
(* handle_ncp_spinel_value_is unpacks them with, and the daemon's own.     *)

ValueIsVersion == [NCPVersion |-> "UTF8", NCPInterfaceType |-> "UINT_PACKED"]
ValueIsRadio ==
    [ChSpacing |-> "UINT16", BCInterval |-> "UINT32",
     UCDwellInterval |-> "UINT8", BCDwellInterval |-> "UINT8",
     UCChFunction |-> "UINT8", BCChFunction |-> "UINT8",
     MacFilterMode |-> "UINT8", Ch0CenterFreq |-> "UINT32"]
ValueIsLists ==
    [MacFilterList |-> "EUI64", UnicastChList |-> "DATA",
     BroadcastChList |-> "DATA", AsyncChList |-> "DATA",
     RegulationChList |-> "DATA"]
ValueIsPhy ==
    [OperatingClass |-> "UINT8", NumChannels |-> "UINT8",
     NCPProtocolVersion |-> "UINT_PACKED", NCPPhyRegion |-> "UINT8",
     NCPModeID |-> "UINT8", NetworkName |-> "UTF8"]
ValueIsNetwork ==
    [NCPHardwareAddress |-> "EUI64", NCPMACAddress |-> "EUI64",
     NetworkPANID |-> "UINT16", NetworkXPANID |-> "DATA",
     NCPChannel |-> "UINT8"]
ValueIsUp == [StackUp |-> "BOOL", InterfaceUp |-> "BOOL"]
ValueIsJoinable == [NestLabs_NetworkAllowingJoin |-> "any"]
BaseMirror ==
    ValueIsVersion @@ ValueIsRadio @@ ValueIsLists @@ ValueIsPhy
      @@ ValueIsNetwork @@ ValueIsUp @@ ValueIsJoinable
\* Kept by SpinelNCPInstance, which answers from its copy.
ValueIsResults ==
    {"CommissionerLinkMetricsQueryResult",
     "CommissionerLinkMetricsMgmtResponse",
     "CommissionerLinkMetricsLastEnhAckIe", "ThreadMlrResponse"}
ValueIsCachedVersion == {"POSIXAppRCPVersionCached"}
\* Kept, but a read asks the NCP.
ValueIsUnread ==
    {"NetworkPSKc", "NetworkKey", "NetworkKeyIndex", "NCPTXPower",
     "NCPCCAThreshold", "NumConnectedDevices", "NCPChannelMask",
     "NCPPreferredChannelMask"}
\* The keys that a read of the empty property lists.
get_supported_property_keys ==
    {"NCPProtocolVersion", "NCPVersion", "NCPInterfaceType",
     "NCPHardwareAddress", "NCPCCAThreshold", "NCPTXPower", "OperatingClass",
     "NumChannels", "NCPPhyRegion", "NCPModeID", "UnicastChList",
     "BroadcastChList", "AsyncChList", "RegulationChList", "ChSpacing",
     "Ch0CenterFreq", "NetworkPANID", "UCDwellInterval", "BCDwellInterval",
     "BCInterval", "UCChFunction", "BCChFunction", "MacFilterList",
     "MacFilterMode", "InterfaceUp", "StackUp", "NetworkRole", "NetworkName",
     "DodagRouteDest", "DodagRoute", "NumConnectedDevices",
     "ConnectedDevices", "IPv6AllAddresses"}
\* Registered by the base and replaced by SpinelNCPInstance.
BaseReplaced ==
    {"DodagRouteDest", "NCPCCAThreshold", "NCPTXPower", "NCPFrequency",
     "ConnectedDevices", "NumConnectedDevices", "NetworkIsCommissioned",
     "IPv6MeshLocalPrefix", "IPv6LinkLocalAddress",
     "NestLabs_LegacyMeshLocalPrefix"}
BaseTables ==
    {"ThreadOnMeshPrefixes", "ThreadOffMeshRoutes", "ThreadServices",
     "ThreadServicesAsValMap", "IPv6AllAddresses", "IPv6MulticastAddresses",
     "IPv6InterfaceRoutes"}
BaseOwn ==
    {"ConfigTUNInterfaceName", "DaemonReadyForHostSleep", "DaemonVersion",
     "NestLabs_LegacyEnabled", "NestLabs_LegacyMeshLocalAddress", "NCPState",
     "NetworkNodeType"}
BaseFlags ==
    {"DaemonEnabled", "DaemonAutoAssociateAfterReset", "DaemonAutoDeepSleep",
     "DaemonAutoFirmwareUpdate", "DaemonTerminateOnFault",
     "DaemonIPv6AutoUpdateIntfaceAddrOnNCP",
     "DaemonIPv6FilterUserAddedLinkLocal", "DaemonIPv6AutoAddSLAACAddress",
     "DaemonSetDefRouteForAutoAddedPrefix", "NestLabs_NetworkPassthruPort",
     "IPv6SetSLAACForAutoAddedPrefix", "DaemonOffMeshRouteAutoAddOnInterface",
     "DaemonOffMeshRouteFilterSelfAutoAdded",
     "DaemonOnMeshPrefixAutoAddAsIfaceRoute", "DaemonSyslogMask"}
BaseGet ==
    DOMAIN BaseMirror \cup BaseReplaced \cup BaseTables \cup BaseOwn
      \cup BaseFlags
\* Set handlers of the base that only change the daemon's copy.
BaseSetsCopy ==
    {"MacFilterMode", "BCInterval", "UCDwellInterval", "BCDwellInterval",
     "UCChFunction", "BCChFunction", "UnicastChList", "BroadcastChList",
     "AsyncChList", "RegulationChList", "OperatingClass", "NumChannels",
     "NCPPhyRegion", "NCPModeID", "Ch0CenterFreq", "ChSpacing"}
BaseSet == BaseSetsCopy \cup BaseFlags

-----------------------------------------------------------------------------
(* What is asked of the NCP without a client's doing.                      *)

\* props_to_fetch: read again whenever the NCP is initialised.
props_to_fetch ==
    {"NCPProtocolVersion", "NCPVersion", "NCPInterfaceType",
     "NCPHardwareAddress", "NCPCCAThreshold", "NCPTXPower", "OperatingClass",
     "NumChannels", "NCPPhyRegion", "NCPModeID", "UnicastChList",
     "BroadcastChList", "AsyncChList", "RegulationChList", "ChSpacing",
     "Ch0CenterFreq", "NetworkPANID", "UCDwellInterval", "BCDwellInterval",
     "BCInterval", "UCChFunction", "BCChFunction", "MacFilterList",
     "InterfaceUp", "StackUp", "NetworkRole", "NetworkName"}
\* Read when the NCP becomes associated.
ReadOnAssociation ==
    {"NCPMACAddress", "NetworkXPANID", "NetworkPANID", "NCPChannel"}

-----------------------------------------------------------------------------
(* The handler that answers: registering replaces what was registered      *)
(* before under the same name, so that SpinelNCPInstance wins.             *)

Names(table) == UNION {table[k] : k \in DOMAIN table}
Keys(table) == UNION {DOMAIN table[k] : k \in DOMAIN table}
InWhich(table, n) == CHOOSE k \in DOMAIN table : n \in table[k]
UnderWhich(table, n) == CHOOSE k \in DOMAIN table : n \in DOMAIN table[k]

How(from, cap, type) == [from |-> from, cap |-> cap, type |-> type]
GetHandler(n) ==
    CASE n \in Names(GetSimple) -> How("ncp", "-", InWhich(GetSimple, n))
      [] n \in Keys(GetCapability) ->
           LET c == UnderWhich(GetCapability, n)
           IN  How("ncp", c, GetCapability[c][n])
      [] n \in Keys(GetCapabilityNewer) ->
           LET c == UnderWhich(GetCapabilityNewer, n)
           IN  How("ncp", c, GetCapabilityNewer[c][n])
      [] n \in GetCounters -> How("ncp", "COUNTERS", "UINT32")
      [] n \in GetUnpacked \cup GetServers \cup GetByTask ->
           How("ncp", "-", "any")
      [] n \in Names(GetCapabilityUnpacked) ->
           How("ncp", InWhich(GetCapabilityUnpacked, n), "any")
      [] n \in GetCachedAddress -> How("cached", "-", "any")
      [] n \in Names(GetCapabilityOwn) ->
           How(IF n \in ValueIsResults \cup ValueIsCachedVersion THEN "mirror"
               ELSE "own", InWhich(GetCapabilityOwn, n), "any")
      [] n \in GetOwn \cup GetDataset \cup GetDatasetAll ->
           How("own", "-", "any")
      [] n \in DOMAIN BaseMirror -> How("mirror", "-", BaseMirror[n])
      [] n \in BaseOwn \cup BaseFlags \cup BaseTables -> How("own", "-", "any")
      [] OTHER -> How("none", "-", "any")

Writes(to, cap, type, saved) ==
    [to |-> to, cap |-> cap, type |-> type, saved |-> saved]
SetHandler(n) ==
    CASE n \in Names(SetSimple) ->
           Writes("ncp", "-", InWhich(SetSimple, n), FALSE)
      [] n \in Names(SetPersist) ->
           Writes("ncp", "-", InWhich(SetPersist, n), TRUE)
      [] n \in Keys(SetCapability) ->
           LET c == UnderWhich(SetCapability, n)
           IN  Writes("ncp", c, SetCapability[c][n], FALSE)
      [] n \in Keys(SetCapabilityConverted) ->
           LET c == UnderWhich(SetCapabilityConverted, n)
           IN  Writes("ncp", c, SetCapabilityConverted[c][n], FALSE)
      [] n \in Keys(SetCapabilityPersist) ->
           LET c == UnderWhich(SetCapabilityPersist, n)
           IN  Writes("ncp", c, SetCapabilityPersist[c][n], TRUE)
      [] n \in DOMAIN SetOwnStreams ->
           Writes("ncp", "-", SetOwnStreams[n], FALSE)
      [] n \in DOMAIN SetOwnNcp -> Writes("ncp", "-", SetOwnNcp[n], FALSE)
      [] n \in Keys(SetOwnCapabilityNcp) ->
           LET c == UnderWhich(SetOwnCapabilityNcp, n)
           IN  Writes("ncp", c, SetOwnCapabilityNcp[c][n], FALSE)
      [] n \in Names(SetOwnCapabilityLocal) ->
           Writes("own", InWhich(SetOwnCapabilityLocal, n), "any", FALSE)
      [] n \in SetOwnLocal \cup SetDataset \cup BaseFlags ->
           Writes("own", "-", "any", FALSE)
      [] n \in BaseSetsCopy -> Writes("own", "-", "any", FALSE)
      [] OTHER -> Writes("none", "-", "any", FALSE)

AllProperties ==
    Names(GetSimple) \cup Keys(GetCapability)
      \cup Keys(GetCapabilityNewer) \cup GetCounters
      \cup GetUnpacked \cup Names(GetCapabilityUnpacked) \cup GetOwnRegistered
      \cup Names(GetCapabilityOwn) \cup BaseGet
      \cup Names(SetSimple) \cup Names(SetPersist) \cup Keys(SetCapability)
      \cup Keys(SetCapabilityConverted) \cup Keys(SetCapabilityPersist)
      \cup SetOwnRegistered \cup BaseSet

Row(n) ==
    [name |-> n, get |-> GetHandler(n), set |-> SetHandler(n),
     fetched |-> n \in props_to_fetch,
     associated |-> n \in ReadOnAssociation]
=============================================================================
