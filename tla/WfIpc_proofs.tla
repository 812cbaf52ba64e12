---------------------------- MODULE WfIpc_proofs ----------------------------
(***************************************************************************)
(* Proofs about WfIpc: for any number of tools, any daemon and any number  *)
(* of crashes, the exit code 0 tells the truth, every call of a tool is    *)
(* understood, and the references on messages balance.                     *)
(***************************************************************************)
EXTENDS WfIpc, SequenceTheorems, TLAPS

-----------------------------------------------------------------------------
(* What the handlers may answer.                                           *)

Statuses ==
    {"Ok", "InvalidWhenDisabled", "FeatureNotSupported", "FeatureNotImplemented",
     "Already", "InvalidArgument", "Failure", "PropertyEmpty",
     "PropertyNotFound", "InvalidForCurrentState"}

\* The callback runs once, now or at the end of a task.
Ordinary == {Outcome("now", s, 1) : s \in Statuses} \cup Task

\* What the parser of each method asks of a message.
Parsed(m) ==
    /\ m.method \in {"PropSet", "PropInsert", "PropRemove"} => Reads(m, <<"s">>)
    /\ m.method = "ConfigGateway" =>
          /\ Reads(m, <<"b", "ay", "u", "u">>)
          /\ m.n <= 16 /\ GatewayBits(m) > 0 /\ GatewayBits(m) <= 64
          /\ GatewayBits(m) <= 8 * m.n
    /\ m.method = "ServiceAdd" => Reads(m, <<"u", "ay", "b", "ay">>)
    /\ m.method = "ServiceRemove" => Reads(m, <<"u", "ay">>)
    /\ m.method = "RouteAdd" => Reads(m, <<"ay", "q", "n">>) /\ m.n <= 16
    /\ m.method = "RouteRemove" => Reads(m, <<"ay", "q">>) /\ m.n <= 16
    /\ m.method = "JoinerAdd" => Reads(m, <<"s", "u">>) /\ Eui64(m, <<"s", "u">>)
    /\ m.method = "JoinerRemove" => Reads(m, <<"u">>) /\ Eui64(m, <<"u">>)
    /\ m.method = "AnnounceBegin" => Reads(m, <<"u", "y", "q", "ay">>) /\ m.n = 16
    /\ m.method = "EnergyScanQuery" => Reads(m, <<"u", "y", "q", "q", "ay">>) /\ m.n = 16
    /\ m.method = "PanIdQuery" => Reads(m, <<"q", "u", "ay">>) /\ m.n = 16
    /\ m.method = "GeneratePSKc" => Reads(m, <<"s", "s", "ay">>) /\ m.n = 8
    /\ m.method = "Peek" => Reads(m, <<"u", "q">>)
    /\ m.method = "Poke" => Reads(m, <<"u", "ay">>)
    /\ m.method \in {"LinkMetricsQuery", "LinkMetricsProbe", "LinkMetricsMgmtEnhAck"} =>
          Reads(m, <<"ay", "y", "y">>) /\ m.n = 16
    /\ m.method = "LinkMetricsMgmtForward" => Reads(m, <<"ay", "y", "y", "y">>) /\ m.n = 16
    /\ m.method = "MlrRequest" => Reads(m, <<"aay", "b", "u">>)
    /\ m.method = "BackboneRouterConfig" => Reads(m, <<"q", "u", "y">>)

\* The methods of the callback table.
Handled ==
    {"ResetNCP", "Status", "Join", "Form", "Leave", "Attach", "RouteAdd", "RouteRemove",
     "ServiceAdd", "ServiceRemove", "DataPoll", "ConfigGateway", "BeginLowPower",
     "HostDidWake", "NetScanStart", "DiscoverScanStart", "EnergyScanStart", "Mfg",
     "PropGet", "PropSet", "PropInsert", "PropRemove", "PcapToFd", "JoinerAttach",
     "JoinerStart", "JoinerStop", "JoinerAdd", "JoinerRemove", "AnnounceBegin",
     "EnergyScanQuery", "PanIdQuery", "GeneratePSKc", "Peek", "Poke", "LinkMetricsQuery",
     "LinkMetricsProbe", "LinkMetricsMgmtForward", "LinkMetricsMgmtEnhAck", "MlrRequest",
     "BackboneRouterConfig"}

\* The exceptions.
PrefixOutcomes == {Outcome("now", "InvalidArgument", 2)}

Outcomes(m) ==
    Ordinary
    \cup (IF m.method \in Handled /\ Parsed(m) THEN {} ELSE Refused)
    \cup (IF m.key = "MeshLocalPrefix" THEN PrefixOutcomes ELSE {})
    \cup (IF m.key = "InterfaceUp" THEN Never ELSE {})

\* A status of the control interface is an ordinary outcome.
LEMMA NowIsOrdinary == \A s \in Statuses : Now(s) \subseteq Ordinary
  BY DEF Now, Ordinary

\* So is a task, and what a detached NCP gets in its place.
LEMMA TaskIsOrdinary ==
    \A d : start_new_task(d) \subseteq Ordinary
  BY NowIsOrdinary DEF start_new_task, Ordinary, Statuses

\* A guard before an ordinary outcome adds ordinary ones.
LEMMA GuardIsOrdinary ==
    \A d, cap, o : o \subseteq Ordinary =>
        IfEnabled(d, o) \subseteq Ordinary /\ IfCapable(d, cap, o) \subseteq Ordinary
  BY NowIsOrdinary DEF IfEnabled, IfCapable, Statuses

\* Every operation of the control interface has ordinary outcomes, but for
\* the reset and the setting of properties.
LEMMA ControlIsOrdinary ==
    ASSUME NEW d, NEW m
    PROVE  /\ join(d) \subseteq Ordinary /\ form(d) \subseteq Ordinary
           /\ leave(d) \subseteq Ordinary /\ attach(d) \subseteq Ordinary
           /\ host_did_wake(d) \subseteq Ordinary /\ refresh_state(d) \subseteq Ordinary
           /\ data_poll(d) \subseteq Ordinary /\ mfg(d) \subseteq Ordinary
           /\ joiner_attach(d) \subseteq Ordinary
           /\ joiner_commissioning(d) \subseteq Ordinary
           /\ netscan_start(d) \subseteq Ordinary /\ energyscan_start(d) \subseteq Ordinary
           /\ add_on_mesh_prefix(d, m) \subseteq Ordinary
           /\ remove_on_mesh_prefix(d) \subseteq Ordinary
           /\ IfRoute(d, m) \subseteq Ordinary
           /\ add_service(d) \subseteq Ordinary /\ remove_service(d) \subseteq Ordinary
           /\ Commissioner(d) \subseteq Ordinary
           /\ commissioner_generate_pskc(d) \subseteq Ordinary
           /\ LinkMetrics(d) \subseteq Ordinary /\ mlr_request(d) \subseteq Ordinary
           /\ backbone_router_config(d) \subseteq Ordinary
           /\ peek(d) \subseteq Ordinary /\ poke(d) \subseteq Ordinary
           /\ pcap_to_fd(d) \subseteq Ordinary
           /\ \A key : property_get_value(d, key) \subseteq Ordinary
           /\ begin_low_power(d) \subseteq Ordinary /\ Update(d) \subseteq Ordinary
  <1>1. \A s \in Statuses : Now(s) \subseteq Ordinary
    BY NowIsOrdinary
  <1>2. start_new_task(d) \subseteq Ordinary
    BY TaskIsOrdinary
  <1>3. \A cap, o : o \subseteq Ordinary =>
            IfEnabled(d, o) \subseteq Ordinary /\ IfCapable(d, cap, o) \subseteq Ordinary
    BY GuardIsOrdinary
  <1>4. /\ Now("Ok") \subseteq Ordinary /\ Now("Already") \subseteq Ordinary
        /\ Now("InvalidArgument") \subseteq Ordinary /\ Now("Failure") \subseteq Ordinary
        /\ Now("PropertyEmpty") \subseteq Ordinary /\ Now("PropertyNotFound") \subseteq Ordinary
        /\ Now("FeatureNotImplemented") \subseteq Ordinary
    BY <1>1 DEF Statuses
  <1>5. Now("Ok") \cup start_new_task(d) \subseteq Ordinary
    BY <1>2, <1>4
  <1>6. (IF d.domain /\ Len(m.sig) = 14 THEN Now("Already") ELSE {})
            \cup Now("Ok") \cup start_new_task(d) \subseteq Ordinary
    BY <1>2, <1>4
  <1>7. Now("Ok") \cup Now("InvalidArgument") \cup start_new_task(d) \subseteq Ordinary
    BY <1>2, <1>4
  <1>8. /\ join(d) \subseteq Ordinary /\ form(d) \subseteq Ordinary
        /\ leave(d) \subseteq Ordinary /\ attach(d) \subseteq Ordinary
        /\ host_did_wake(d) \subseteq Ordinary /\ refresh_state(d) \subseteq Ordinary
        /\ data_poll(d) \subseteq Ordinary /\ mfg(d) \subseteq Ordinary
        /\ joiner_attach(d) \subseteq Ordinary
        /\ joiner_commissioning(d) \subseteq Ordinary
        /\ netscan_start(d) \subseteq Ordinary /\ energyscan_start(d) \subseteq Ordinary
    BY <1>2 DEF join, form, leave, attach, host_did_wake, refresh_state, data_poll,
        mfg, joiner_attach, joiner_commissioning, netscan_start, energyscan_start
  <1>9. add_on_mesh_prefix(d, m) \subseteq Ordinary
    BY <1>3, <1>6 DEF add_on_mesh_prefix
  <1>10. /\ remove_on_mesh_prefix(d) \subseteq Ordinary /\ IfRoute(d, m) \subseteq Ordinary
    BY <1>3, <1>4, <1>5 DEF remove_on_mesh_prefix, IfRoute
  <1>11. add_service(d) \subseteq Ordinary /\ remove_service(d) \subseteq Ordinary
    <2>1. IfEnabled(d, Now("Ok") \cup start_new_task(d)) \subseteq Ordinary
      BY <1>3, <1>5
    <2>. QED
      BY <2>1, <1>4 DEF add_service, remove_service
  <1>12. /\ Commissioner(d) \subseteq Ordinary
         /\ commissioner_generate_pskc(d) \subseteq Ordinary
         /\ LinkMetrics(d) \subseteq Ordinary /\ mlr_request(d) \subseteq Ordinary
         /\ backbone_router_config(d) \subseteq Ordinary
    BY <1>2, <1>3 DEF Commissioner, commissioner_generate_pskc, LinkMetrics, mlr_request,
        backbone_router_config
  <1>13. /\ peek(d) \subseteq Ordinary /\ poke(d) \subseteq Ordinary
         /\ pcap_to_fd(d) \subseteq Ordinary
         /\ \A key : property_get_value(d, key) \subseteq Ordinary
    BY <1>2, <1>3, <1>4 DEF peek, poke, pcap_to_fd, property_get_value
  <1>14. begin_low_power(d) \subseteq Ordinary /\ Update(d) \subseteq Ordinary
    BY <1>2, <1>3, <1>4, <1>7 DEF begin_low_power, Update
  <1>. QED
    BY <1>8, <1>9, <1>10, <1>11, <1>12, <1>13, <1>14

\* Setting a property may also run the callback twice or forget it.
LEMMA SettingOutcomes ==
    ASSUME NEW d, NEW m
    PROVE  property_set_value(d, m) \subseteq Outcomes(m)
  <1>1. \A s \in Statuses : Now(s) \subseteq Ordinary
    BY NowIsOrdinary
  <1>2. start_new_task(d) \subseteq Ordinary
    BY TaskIsOrdinary
  <1>3. /\ Now("Ok") \subseteq Ordinary /\ Now("InvalidForCurrentState") \subseteq Ordinary
        /\ Now("InvalidArgument") \subseteq Ordinary
        /\ Now("PropertyNotFound") \subseteq Ordinary
        /\ Now("InvalidWhenDisabled") \subseteq Ordinary
    BY <1>1 DEF Statuses
  <1>4. m.key = "InterfaceUp" => set_prop_InterfaceUp(d) \subseteq Outcomes(m)
    BY <1>2, <1>3 DEF set_prop_InterfaceUp, attach, Outcomes
  <1>5. m.key = "MeshLocalPrefix" => set_prop_IPv6MeshLocalPrefix(d, m) \subseteq Outcomes(m)
    BY <1>3 DEF set_prop_IPv6MeshLocalPrefix, PrefixOutcomes, Outcomes
  <1>6. Ordinary \subseteq Outcomes(m)
    BY DEF Outcomes
  <1>7. Now("Ok") \cup Now("InvalidArgument") \cup Now("PropertyNotFound")
            \cup start_new_task(d) \subseteq Outcomes(m)
    BY <1>2, <1>3, <1>6
  <1>8. Now("InvalidWhenDisabled") \subseteq Outcomes(m)
    BY <1>3, <1>6
  <1>. QED
    BY <1>4, <1>5, <1>7, <1>8 DEF property_set_value, IfEnabled

\* A reset of a detached NCP is answered before the message is held.
LEMMA ResetOutcomes ==
    ASSUME NEW d, NEW m, NEW o \in interface_reset_NCP_handler(d, m)
    PROVE  \/ o.how = "now" /\ o.status = "Ok" /\ o.early
           \/ o.how = "task" /\ o.status = "-"
  <1>1. PICK p \in reset_NCP(d) : o = [p EXCEPT !.early = (p.how = "now")]
    BY DEF interface_reset_NCP_handler
  <1>2. CASE d.detached
    <2>1. PICK q \in Now("Ok") : p = [q EXCEPT !.did = FALSE]
      BY <1>2 DEF reset_NCP
    <2>2. q = [how |-> "now", status |-> "Ok", calls |-> 1, early |-> FALSE,
               did |-> "Ok" = "Ok"]
      BY DEF Now, Outcome
    <2>3. p.how = "now" /\ p.status = "Ok" /\ DOMAIN p = DOMAIN q
      BY <2>1, <2>2
    <2>. QED
      BY <1>1, <2>2, <2>3
  <1>3. CASE ~d.detached
    <2>1. p = [how |-> "task", status |-> "-", calls |-> 1, early |-> FALSE,
               did |-> "-" = "Ok"]
      BY <1>3 DEF reset_NCP, Task, Outcome
    <2>. QED
      BY <1>1, <2>1
  <1>. QED
    BY <1>2, <1>3

\* Whatever the message, its handler has one of these outcomes.
LEMMA HandlerOutcomes ==
    ASSUME NEW d, NEW m
    PROVE  message_handler(d, m) \subseteq
              Outcomes(m) \cup (IF m.method = "ResetNCP"
                               THEN interface_reset_NCP_handler(d, m) ELSE {})
  <1>1. Ordinary \subseteq Outcomes(m)
    BY DEF Outcomes
  <1>2. \A ok, o : o \subseteq Ordinary /\ (Parsed(m) => ok) => Accept(ok, o) \subseteq Outcomes(m)
    BY DEF Accept, Outcomes
  <1>3. \A ok : (Parsed(m) => ok) => Accept(ok, property_set_value(d, m)) \subseteq Outcomes(m)
    BY SettingOutcomes DEF Accept, Outcomes
  <1>5. Now("Ok") \subseteq Ordinary
    BY NowIsOrdinary DEF Statuses
  <1>6. interface_status_handler(d, m) \subseteq Ordinary
    BY <1>5, ControlIsOrdinary DEF interface_status_handler
  <1>7. /\ interface_status_handler(d, m) \subseteq Outcomes(m)
        /\ interface_join_handler(d, m) \subseteq Outcomes(m)
        /\ interface_form_handler(d, m) \subseteq Outcomes(m)
        /\ interface_leave_handler(d, m) \subseteq Outcomes(m)
        /\ interface_attach_handler(d, m) \subseteq Outcomes(m)
        /\ interface_begin_low_power_handler(d, m) \subseteq Outcomes(m)
        /\ interface_host_did_wake_handler(d, m) \subseteq Outcomes(m)
        /\ interface_data_poll_handler(d, m) \subseteq Outcomes(m)
    BY <1>1, <1>6, ControlIsOrdinary DEF interface_join_handler, interface_form_handler,
        interface_leave_handler, interface_attach_handler, interface_begin_low_power_handler,
        interface_host_did_wake_handler, interface_data_poll_handler
  <1>8. /\ interface_net_scan_start_handler(d, m) \subseteq Outcomes(m)
        /\ interface_discover_scan_start_handler(d, m) \subseteq Outcomes(m)
        /\ interface_energy_scan_start_handler(d, m) \subseteq Outcomes(m)
        /\ interface_pcap_to_fd_handler(d, m) \subseteq Outcomes(m)
        /\ interface_joiner_attach_handler(d, m) \subseteq Outcomes(m)
        /\ interface_joiner_start_handler(d, m) \subseteq Outcomes(m)
        /\ interface_joiner_stop_handler(d, m) \subseteq Outcomes(m)
    BY <1>1, ControlIsOrdinary DEF interface_net_scan_start_handler,
        interface_discover_scan_start_handler, interface_energy_scan_start_handler,
        interface_pcap_to_fd_handler, interface_joiner_attach_handler,
        interface_joiner_start_handler, interface_joiner_stop_handler
  <1>9. /\ m.method = "Mfg" => interface_mfg_handler(d, m) \subseteq Outcomes(m)
        /\ m.method = "PropGet" => interface_prop_get_handler(d, m) \subseteq Outcomes(m)
        /\ m.method = "PropSet" => interface_prop_set_handler(d, m) \subseteq Outcomes(m)
        /\ m.method = "PropInsert" => interface_prop_insert_handler(d, m) \subseteq Outcomes(m)
        /\ m.method = "PropRemove" => interface_prop_remove_handler(d, m) \subseteq Outcomes(m)
    BY <1>1, <1>2, <1>3, ControlIsOrdinary DEF Parsed, interface_mfg_handler, interface_prop_get_handler,
        interface_prop_set_handler, interface_prop_insert_handler,
        interface_prop_remove_handler, property_insert_value, property_remove_value
  <1>10. m.method = "ConfigGateway" =>
            interface_config_gateway_handler(d, m) \subseteq Outcomes(m)
    BY <1>2, ControlIsOrdinary DEF Parsed, interface_config_gateway_handler
  <1>11. /\ m.method = "ServiceAdd" => service_add_handler(d, m) \subseteq Outcomes(m)
         /\ m.method = "ServiceRemove" => service_remove_handler(d, m) \subseteq Outcomes(m)
         /\ m.method = "RouteAdd" => interface_route_add_handler(d, m) \subseteq Outcomes(m)
         /\ m.method = "RouteRemove" => interface_route_remove_handler(d, m) \subseteq Outcomes(m)
    BY <1>2, ControlIsOrdinary DEF Parsed, service_add_handler, service_remove_handler,
        interface_route_add_handler, interface_route_remove_handler, add_external_route,
        remove_external_route
  <1>12. /\ m.method = "JoinerAdd" => interface_joiner_add_handler(d, m) \subseteq Outcomes(m)
         /\ m.method = "JoinerRemove" => interface_joiner_remove_handler(d, m) \subseteq Outcomes(m)
         /\ m.method = "AnnounceBegin" => interface_announce_begin_handler(d, m) \subseteq Outcomes(m)
         /\ m.method = "EnergyScanQuery" => interface_energy_scan_query_handler(d, m) \subseteq Outcomes(m)
         /\ m.method = "PanIdQuery" => interface_pan_id_query_handler(d, m) \subseteq Outcomes(m)
         /\ m.method = "GeneratePSKc" => interface_generate_pskc(d, m) \subseteq Outcomes(m)
    BY <1>2, ControlIsOrdinary DEF Parsed, interface_joiner_add_handler,
        interface_joiner_remove_handler, interface_announce_begin_handler,
        interface_energy_scan_query_handler, interface_pan_id_query_handler,
        interface_generate_pskc, commissioner_add_joiner, commissioner_remove_joiner,
        commissioner_send_announce_begin, commissioner_send_energy_scan_query,
        commissioner_send_pan_id_query
  <1>13. /\ m.method = "Peek" => interface_peek_handler(d, m) \subseteq Outcomes(m)
         /\ m.method = "Poke" => interface_poke_handler(d, m) \subseteq Outcomes(m)
         /\ m.method = "LinkMetricsQuery" => interface_link_metrics_query_handler(d, m) \subseteq Outcomes(m)
         /\ m.method = "LinkMetricsProbe" => interface_link_metrics_probe_handler(d, m) \subseteq Outcomes(m)
         /\ m.method = "LinkMetricsMgmtForward" => interface_link_metrics_mgmt_forward_handler(d, m) \subseteq Outcomes(m)
         /\ m.method = "LinkMetricsMgmtEnhAck" => interface_link_metrics_mgmt_enh_ack_handler(d, m) \subseteq Outcomes(m)
         /\ m.method = "MlrRequest" => interface_mlr_request_handler(d, m) \subseteq Outcomes(m)
         /\ m.method = "BackboneRouterConfig" => interface_backbone_router_config_handler(d, m) \subseteq Outcomes(m)
    BY <1>2, ControlIsOrdinary DEF Parsed, interface_peek_handler, interface_poke_handler,
        interface_link_metrics_query_handler, interface_link_metrics_probe_handler,
        interface_link_metrics_mgmt_forward_handler,
        interface_link_metrics_mgmt_enh_ack_handler, interface_mlr_request_handler,
        interface_backbone_router_config_handler, link_metrics_query, link_metrics_probe,
        link_metrics_mgmt_forward, link_metrics_mgmt_enh_ack
  <1>. QED
    <2>1. m.method \notin Handled => Refused \subseteq Outcomes(m)
      BY DEF Outcomes
    <2>. QED
      BY <2>1, <1>7, <1>8, <1>9, <1>10, <1>11, <1>12, <1>13 DEF message_handler, Handled

\* What the daemon's books rest on: the callback of a message that is not
\* left to a task runs exactly once unless it is one of the exceptions, and
\* Ok is said only of what has been done, except of a reset.
LEMMA OutcomeFacts ==
    ASSUME NEW d, NEW m, NEW o \in message_handler(d, m)
    PROVE  /\ o.how \in {"now", "task", "refused", "never"}
           /\ o.how = "refused" <=> o.status = "refused"
           /\ o.how = "never" => m.key = "InterfaceUp"
           /\ o.how = "now" => \/ o.early /\ m.method = "ResetNCP"
                               \/ ~o.early /\ o.calls = 1
                               \/ ~o.early /\ o.calls = 2 /\ m.key = "MeshLocalPrefix"
           /\ o.status # "OK"
           /\ o.how = "now" /\ o.status = "Ok" /\ m.method # "ResetNCP" => o.did
  <1>1. \/ o \in Outcomes(m)
        \/ m.method = "ResetNCP" /\ o \in interface_reset_NCP_handler(d, m)
    BY HandlerOutcomes
  <1>2. CASE o \in Ordinary
    <2>1. ASSUME NEW s \in Statuses, o = Outcome("now", s, 1)
          PROVE  /\ o.how = "now" /\ o.status = s /\ o.calls = 1
                 /\ ~o.early
                 /\ s = "Ok" => o.did
      BY <2>1 DEF Outcome
    <2>2. ASSUME o \in Task
          PROVE  o.how = "task" /\ o.status = "-"
      BY <2>2 DEF Task, Outcome
    <2>3. "OK" \notin Statuses /\ "refused" \notin Statuses
      BY DEF Statuses
    <2>4. o \in Task \/ \E s \in Statuses : o = Outcome("now", s, 1)
      BY <1>2 DEF Ordinary
    <2>. QED
      BY ONLY <2>1, <2>2, <2>3, <2>4
  <1>3. CASE o \in Refused
    BY <1>3 DEF Refused, Outcome
  <1>4. CASE m.method = "ResetNCP" /\ o \in interface_reset_NCP_handler(d, m)
    BY <1>4, ResetOutcomes
  <1>5. CASE m.key = "MeshLocalPrefix" /\ o \in PrefixOutcomes
    BY <1>5 DEF PrefixOutcomes, Outcome
  <1>6. CASE m.key = "InterfaceUp" /\ o \in Never
    BY <1>6 DEF Never, Outcome
  <1>. QED
    BY <1>1, <1>2, <1>3, <1>4, <1>5, <1>6 DEF Outcomes

\* A message that its method's parser takes is not refused.
LEMMA AcceptedIsNotRefused ==
    ASSUME NEW d, NEW m, m.method \in Handled, Parsed(m), NEW o \in message_handler(d, m)
    PROVE  o.status # "refused"
  <1>1. \/ o \in Outcomes(m)
        \/ m.method = "ResetNCP" /\ o \in interface_reset_NCP_handler(d, m)
    BY HandlerOutcomes
  <1>2. CASE o \in Ordinary
    <2>1. "refused" \notin Statuses
      BY DEF Statuses
    <2>2. o \in Task \/ \E s \in Statuses : o = Outcome("now", s, 1)
      BY <1>2 DEF Ordinary
    <2>3. \A s \in Statuses : Outcome("now", s, 1).status = s
      BY DEF Outcome
    <2>4. o \in Task => o.status = "-"
      BY DEF Task, Outcome
    <2>. QED
      BY ONLY <2>1, <2>2, <2>3, <2>4
  <1>3. CASE m.method = "ResetNCP" /\ o \in interface_reset_NCP_handler(d, m)
    BY <1>3, ResetOutcomes
  <1>4. CASE o \in PrefixOutcomes
    BY <1>4 DEF PrefixOutcomes, Outcome
  <1>5. CASE o \in Never
    BY <1>5 DEF Never, Outcome
  <1>. QED
    BY <1>1, <1>2, <1>3, <1>4, <1>5 DEF Outcomes

-----------------------------------------------------------------------------
(* What the tools send.                                                    *)

DbusTypes == {"b", "y", "n", "q", "i", "u", "t", "s", "h", "ay", "aay", "a{sv}"}

\* The daemon understands m and reads all of its dictionary, with the
\* exceptions that ToolsAreUnderstood names.
Understood(m) ==
    /\ Ignored(m) \subseteq (IF m.method = "Form" THEN {"NodeType"} ELSE {})
    /\ \/ m.method \in Handled /\ Parsed(m)
       \/ m.method \in {"GetInterfaces", "PermitJoin", "BeginNetWake"}
       \/ /\ m.method = "ConfigGateway"
          /\ m.sig = <<"b">> \/ (Len(m.sig) >= 12 /\ m.bits \notin 1..64)

\* What the invariant needs to know of a tool.
ToolOK(t) ==
    /\ t.more \in 0..1
    /\ t.failed # "OK"
    /\ \A m \in t.sends : /\ Understood(m)
                          /\ t.reads = "status" => m.method # "GetInterfaces"

\* The messages without arguments or with arguments that nobody checks.
LEMMA PlainMessages ==
    ASSUME NEW method, NEW sig,
           method \in {"Leave", "Attach", "DataPoll", "HostDidWake", "BeginLowPower",
                       "ResetNCP", "Status", "GetInterfaces", "PermitJoin", "BeginNetWake",
                       "NetScanStart", "DiscoverScanStart", "EnergyScanStart", "PcapToFd",
                       "JoinerStop"}
    PROVE  Understood(Msg(method, sig))
  BY DEF Understood, Msg, Handled, Parsed, Ignored

\* A property is named by a string, whatever else the call carries.
LEMMA PropertyMessages ==
    ASSUME NEW method \in {"PropGet", "PropSet", "PropInsert", "PropRemove"},
           NEW sig \in {<<"s">>, <<"s", "s">>, <<"s", "ay">>, <<"s", "y">>}, NEW key
    PROVE  Understood(Property(method, sig, key))
  <1>. SUFFICES ASSUME NEW m, m.method = method, m.sig = sig, m.dict = {}
                PROVE  Understood(m)
    BY DEF Property, Msg
  <1>1. Reads(m, <<"s">>)
    BY SMTT(30) DEF Reads, IsPrefix
  <1>. QED
    BY <1>1 DEF Understood, Handled, Parsed, Ignored

\* The dictionaries are read whole, but for the node type of a network that
\* is formed.
LEMMA DictionaryMessages ==
    /\ Understood(Dictionary("Form", form_dictionary))
    /\ Understood(Dictionary("Join", join_dictionary))
    /\ \A m \in joiner_attach_call \cup joiner_start_call : Understood(m)
  <1>1. \A method, dict :
            /\ Dictionary(method, dict).method = method
            /\ Dictionary(method, dict).dict = dict
    BY DEF Dictionary, Msg
  <1>2. Understood(Dictionary("Form", form_dictionary))
    BY <1>1 DEF Understood, Handled, Parsed, Ignored, form_dictionary, FormReads
  <1>3. Understood(Dictionary("Join", join_dictionary))
    BY <1>1 DEF Understood, Handled, Parsed, Ignored, join_dictionary, JoinReads
  <1>4. \A m \in joiner_attach_call \cup joiner_start_call : Understood(m)
    BY <1>1 DEF Understood, Handled, Parsed, Ignored, joiner_attach_call,
        joiner_start_call, JoinerReads
  <1>. QED
    BY <1>2, <1>3, <1>4

\* The calls with arguments that are checked.
LEMMA CheckedMessages ==
    /\ Understood(Msg("Mfg", <<"s">>))
    /\ Understood(Msg("ServiceAdd", <<"u", "ay", "b", "ay">>))
    /\ Understood(Msg("ServiceRemove", <<"u", "ay">>))
    /\ Understood(Msg("Peek", <<"u", "q">>))
    /\ Understood(Msg("Poke", <<"u", "ay">>))
    /\ Understood(Msg("MlrRequest", <<"aay", "b", "u">>))
    /\ Understood(Msg("BackboneRouterConfig", <<"q", "u", "y">>))
    /\ Understood(Address("AnnounceBegin", <<"u", "y", "q", "ay">>, 16))
    /\ Understood(Address("EnergyScanQuery", <<"u", "y", "q", "q", "ay">>, 16))
    /\ Understood(Address("PanIdQuery", <<"q", "u", "ay">>, 16))
    /\ Understood(Address("GeneratePSKc", <<"s", "s", "ay">>, 8))
    /\ Understood(Address("LinkMetricsQuery", <<"ay", "y", "y">>, 16))
    /\ Understood(Address("LinkMetricsProbe", <<"ay", "y", "y">>, 16))
    /\ Understood(Address("LinkMetricsMgmtEnhAck", <<"ay", "y", "y">>, 16))
    /\ Understood(Address("LinkMetricsMgmtForward", <<"ay", "y", "y", "y">>, 16))
    /\ Understood(Address("JoinerAdd", <<"s", "u", "ay">>, 8))
    /\ Understood(Address("JoinerAdd", <<"s", "u", "ay", "y", "t">>, 8))
    /\ Understood(Address("JoinerRemove", <<"u", "ay">>, 8))
    /\ Understood(Address("JoinerRemove", <<"u", "ay", "y", "t">>, 8))
    /\ Understood(Msg("JoinerAdd", <<"s", "u">>))
    /\ Understood(Msg("JoinerRemove", <<"u">>))
  <1>. DEFINE Is(m, method, sig, n) ==
           m.method = method /\ m.sig = sig /\ m.n = n /\ m.dict = {}
  <1>1. \A method, sig, n : /\ Is(Msg(method, sig), method, sig, 0)
                            /\ Is(Address(method, sig, n), method, sig, n)
    BY DEF Msg, Address
  <1>2. ASSUME NEW m, Is(m, "Mfg", <<"s">>, 0)
        PROVE  Understood(m)
    <2>1. Reads(m, <<"s">>)
      BY <1>2 DEF Reads, IsPrefix
    <2>. QED
      BY <1>2, <2>1 DEF Understood, Handled, Parsed, Ignored
  <1>3. ASSUME NEW m, Is(m, "ServiceAdd", <<"u", "ay", "b", "ay">>, 0)
        PROVE  Understood(m)
    <2>1. Reads(m, <<"u", "ay", "b", "ay">>)
      BY <1>3 DEF Reads, IsPrefix
    <2>. QED
      BY <1>3, <2>1 DEF Understood, Handled, Parsed, Ignored
  <1>4. ASSUME NEW m, Is(m, "ServiceRemove", <<"u", "ay">>, 0)
        PROVE  Understood(m)
    <2>1. Reads(m, <<"u", "ay">>)
      BY <1>4 DEF Reads, IsPrefix
    <2>. QED
      BY <1>4, <2>1 DEF Understood, Handled, Parsed, Ignored
  <1>5. ASSUME NEW m, Is(m, "Peek", <<"u", "q">>, 0)
        PROVE  Understood(m)
    <2>1. Reads(m, <<"u", "q">>)
      BY <1>5 DEF Reads, IsPrefix
    <2>. QED
      BY <1>5, <2>1 DEF Understood, Handled, Parsed, Ignored
  <1>6. ASSUME NEW m, Is(m, "Poke", <<"u", "ay">>, 0)
        PROVE  Understood(m)
    <2>1. Reads(m, <<"u", "ay">>)
      BY <1>6 DEF Reads, IsPrefix
    <2>. QED
      BY <1>6, <2>1 DEF Understood, Handled, Parsed, Ignored
  <1>7. ASSUME NEW m, Is(m, "MlrRequest", <<"aay", "b", "u">>, 0)
        PROVE  Understood(m)
    <2>1. Reads(m, <<"aay", "b", "u">>)
      BY <1>7 DEF Reads, IsPrefix
    <2>. QED
      BY <1>7, <2>1 DEF Understood, Handled, Parsed, Ignored
  <1>8. ASSUME NEW m, Is(m, "BackboneRouterConfig", <<"q", "u", "y">>, 0)
        PROVE  Understood(m)
    <2>1. Reads(m, <<"q", "u", "y">>)
      BY <1>8 DEF Reads, IsPrefix
    <2>. QED
      BY <1>8, <2>1 DEF Understood, Handled, Parsed, Ignored
  <1>9. ASSUME NEW m, Is(m, "AnnounceBegin", <<"u", "y", "q", "ay">>, 16)
        PROVE  Understood(m)
    <2>1. Reads(m, <<"u", "y", "q", "ay">>)
      BY <1>9 DEF Reads, IsPrefix
    <2>. QED
      BY <1>9, <2>1 DEF Understood, Handled, Parsed, Ignored
  <1>10. ASSUME NEW m, Is(m, "EnergyScanQuery", <<"u", "y", "q", "q", "ay">>, 16)
        PROVE  Understood(m)
    <2>1. Reads(m, <<"u", "y", "q", "q", "ay">>)
      BY <1>10 DEF Reads, IsPrefix
    <2>. QED
      BY <1>10, <2>1 DEF Understood, Handled, Parsed, Ignored
  <1>11. ASSUME NEW m, Is(m, "PanIdQuery", <<"q", "u", "ay">>, 16)
        PROVE  Understood(m)
    <2>1. Reads(m, <<"q", "u", "ay">>)
      BY <1>11 DEF Reads, IsPrefix
    <2>. QED
      BY <1>11, <2>1 DEF Understood, Handled, Parsed, Ignored
  <1>12. ASSUME NEW m, Is(m, "GeneratePSKc", <<"s", "s", "ay">>, 8)
        PROVE  Understood(m)
    <2>1. Reads(m, <<"s", "s", "ay">>)
      BY <1>12 DEF Reads, IsPrefix
    <2>. QED
      BY <1>12, <2>1 DEF Understood, Handled, Parsed, Ignored
  <1>13. ASSUME NEW m, Is(m, "LinkMetricsQuery", <<"ay", "y", "y">>, 16)
        PROVE  Understood(m)
    <2>1. Reads(m, <<"ay", "y", "y">>)
      BY <1>13 DEF Reads, IsPrefix
    <2>. QED
      BY <1>13, <2>1 DEF Understood, Handled, Parsed, Ignored
  <1>14. ASSUME NEW m, Is(m, "LinkMetricsProbe", <<"ay", "y", "y">>, 16)
        PROVE  Understood(m)
    <2>1. Reads(m, <<"ay", "y", "y">>)
      BY <1>14 DEF Reads, IsPrefix
    <2>. QED
      BY <1>14, <2>1 DEF Understood, Handled, Parsed, Ignored
  <1>15. ASSUME NEW m, Is(m, "LinkMetricsMgmtEnhAck", <<"ay", "y", "y">>, 16)
        PROVE  Understood(m)
    <2>1. Reads(m, <<"ay", "y", "y">>)
      BY <1>15 DEF Reads, IsPrefix
    <2>. QED
      BY <1>15, <2>1 DEF Understood, Handled, Parsed, Ignored
  <1>16. ASSUME NEW m, Is(m, "LinkMetricsMgmtForward", <<"ay", "y", "y", "y">>, 16)
        PROVE  Understood(m)
    <2>1. Reads(m, <<"ay", "y", "y", "y">>)
      BY <1>16 DEF Reads, IsPrefix
    <2>. QED
      BY <1>16, <2>1 DEF Understood, Handled, Parsed, Ignored
  <1>17. ASSUME NEW m, Is(m, "JoinerAdd", <<"s", "u", "ay">>, 8)
        PROVE  Understood(m)
    <2>1. Reads(m, <<"s", "u">>)
      BY <1>17 DEF Reads, IsPrefix
    <2>. QED
      BY <1>17, <2>1 DEF Understood, Handled, Parsed, Ignored, Eui64
  <1>18. ASSUME NEW m, Is(m, "JoinerAdd", <<"s", "u", "ay", "y", "t">>, 8)
        PROVE  Understood(m)
    <2>1. Reads(m, <<"s", "u">>)
      BY <1>18 DEF Reads, IsPrefix
    <2>. QED
      BY <1>18, <2>1 DEF Understood, Handled, Parsed, Ignored, Eui64
  <1>19. ASSUME NEW m, Is(m, "JoinerRemove", <<"u", "ay">>, 8)
        PROVE  Understood(m)
    <2>1. Reads(m, <<"u">>)
      BY <1>19 DEF Reads, IsPrefix
    <2>. QED
      BY <1>19, <2>1 DEF Understood, Handled, Parsed, Ignored, Eui64
  <1>20. ASSUME NEW m, Is(m, "JoinerRemove", <<"u", "ay", "y", "t">>, 8)
        PROVE  Understood(m)
    <2>1. Reads(m, <<"u">>)
      BY <1>20 DEF Reads, IsPrefix
    <2>. QED
      BY <1>20, <2>1 DEF Understood, Handled, Parsed, Ignored, Eui64
  <1>21. ASSUME NEW m, Is(m, "JoinerAdd", <<"s", "u">>, 0)
        PROVE  Understood(m)
    <2>1. Reads(m, <<"s", "u">>)
      BY <1>21 DEF Reads, IsPrefix
    <2>2. Len(<<"s", "u">> \o <<"ay">>) = 3
      <3>1. <<"s", "u">> \in Seq(DbusTypes) /\ <<"ay">> \in Seq(DbusTypes)
        BY DEF DbusTypes
      <3>. QED
        BY <3>1, ConcatProperties
    <2>3. ~Reads(m, <<"s", "u">> \o <<"ay">>)
      BY <1>21, <2>2 DEF Reads, IsPrefix
    <2>. QED
      BY <1>21, <2>1, <2>3 DEF Understood, Handled, Parsed, Ignored, Eui64
  <1>22. ASSUME NEW m, Is(m, "JoinerRemove", <<"u">>, 0)
        PROVE  Understood(m)
    <2>1. Reads(m, <<"u">>)
      BY <1>22 DEF Reads, IsPrefix
    <2>2. Len(<<"u">> \o <<"ay">>) = 2
      <3>1. <<"u">> \in Seq(DbusTypes) /\ <<"ay">> \in Seq(DbusTypes)
        BY DEF DbusTypes
      <3>. QED
        BY <3>1, ConcatProperties
    <2>3. ~Reads(m, <<"u">> \o <<"ay">>)
      BY <1>22, <2>2 DEF Reads, IsPrefix
    <2>. QED
      BY <1>22, <2>1, <2>3 DEF Understood, Handled, Parsed, Ignored, Eui64
  <1>. HIDE DEF Is
  <1>. QED
    BY <1>1, <1>2, <1>3, <1>4, <1>5, <1>6, <1>7, <1>8, <1>9, <1>10, <1>11, <1>12,
       <1>13, <1>14, <1>15, <1>16, <1>17, <1>18, <1>19, <1>20, <1>21, <1>22

\* A route is cut to at most 16 bytes.
LEMMA RouteMessages ==
    /\ \A m \in Routes("RouteAdd", <<"ay", "q", "n", "y", "b">>) : Understood(m)
    /\ \A m \in Routes("RouteRemove", <<"ay", "q", "y">>) : Understood(m)
  <1>1. \A b \in PrefixBits : RouteBytes(b) <= 16
    BY DEF PrefixBits, RouteBytes
  <1>2. ASSUME NEW method, NEW sig, NEW m \in Routes(method, sig)
        PROVE  m.method = method /\ m.sig = sig /\ m.n <= 16 /\ m.dict = {}
    BY <1>1 DEF Routes, Msg
  <1>3. ASSUME NEW m \in Routes("RouteAdd", <<"ay", "q", "n", "y", "b">>)
        PROVE  Understood(m)
    <2>1. Reads(m, <<"ay", "q", "n">>)
      BY <1>2 DEF Reads, IsPrefix
    <2>. QED
      BY <1>2, <2>1 DEF Understood, Handled, Parsed, Ignored
  <1>4. ASSUME NEW m \in Routes("RouteRemove", <<"ay", "q", "y">>)
        PROVE  Understood(m)
    <2>1. Reads(m, <<"ay", "q">>)
      BY <1>2 DEF Reads, IsPrefix
    <2>. QED
      BY <1>2, <2>1 DEF Understood, Handled, Parsed, Ignored
  <1>. QED
    BY <1>3, <1>4

\* A gateway of 8 arguments has a length of 64 bits.
LEMMA ShortGateways ==
    ASSUME NEW m, m.method = "ConfigGateway", m.sig = GatewayArgs, m.n = 16, m.dict = {}
    PROVE  Understood(m)
  <1>1. Reads(m, <<"b", "ay", "u", "u">>) /\ ~Reads(m, GatewayLong)
    BY DEF Reads, IsPrefix, GatewayArgs, GatewayLong
  <1>2. GatewayBits(m) = 64
    BY <1>1 DEF GatewayBits
  <1>. QED
    BY <1>1, <1>2 DEF Understood, Handled, Parsed, Ignored

\* The types of those arguments.
LEMMA GatewayTypes == GatewayArgs \in Seq(DbusTypes) /\ Len(GatewayArgs) = 8
  BY DEF GatewayArgs, DbusTypes

\* With more arguments behind them the first ones stay in place.
LEMMA GatewayBegins ==
    ASSUME NEW t \in Seq(DbusTypes)
    PROVE  /\ GatewayArgs \o t \in Seq(DbusTypes)
           /\ Len(GatewayArgs \o t) = 8 + Len(t)
           /\ \A i \in 1 .. 4 : (GatewayArgs \o t)[i] = GatewayArgs[i]
  <1>1. ASSUME NEW s \in Seq(DbusTypes)
        PROVE  /\ s \o t \in Seq(DbusTypes) /\ Len(s \o t) = Len(s) + Len(t)
               /\ \A i \in 1 .. Len(s) : (s \o t)[i] = s[i]
    OBVIOUS
  <1>2. \A i \in 1 .. 4 : i \in 1 .. 8
    OBVIOUS
  <1>3. /\ GatewayArgs \o t \in Seq(DbusTypes)
        /\ Len(GatewayArgs \o t) = Len(GatewayArgs) + Len(t)
        /\ \A i \in 1 .. Len(GatewayArgs) : (GatewayArgs \o t)[i] = GatewayArgs[i]
    BY <1>1, GatewayTypes, Zenon
  <1>. QED
    BY ONLY <1>2, <1>3, GatewayTypes

\* One of more arguments is understood if the length it gives is one.
LEMMA LongGateways ==
    ASSUME NEW m, NEW t \in Seq(DbusTypes), Len(t) >= 4, m.method = "ConfigGateway",
           m.sig = GatewayArgs \o t, m.n = 16, m.bits \in Nat, m.dict = {}
    PROVE  Understood(m)
  <1>1. /\ m.sig \in Seq(DbusTypes) /\ Len(m.sig) >= 12
        /\ \A i \in 1 .. 4 : m.sig[i] = GatewayArgs[i]
    BY GatewayBegins
  <1>2. Reads(m, <<"b", "ay", "u", "u">>)
    BY <1>1 DEF Reads, IsPrefix, GatewayArgs
  <1>3. m.bits \in 1..64 => /\ GatewayBits(m) > 0 /\ GatewayBits(m) <= 64
                            /\ GatewayBits(m) <= 8 * m.n
    <2>1. m.bits \in 1..64 => GatewayBits(m) \in 1..64
      BY DEF GatewayBits
    <2>2. \A g \in 1..64 : g > 0 /\ g <= 64 /\ g <= 8 * 16
      OBVIOUS
    <2>. QED
      BY <2>1, <2>2, Zenon
  <1>4. m.bits \in 1..64 => Parsed(m)
    BY <1>2, <1>3 DEF Parsed
  <1>. QED
    BY <1>1, <1>4 DEF Understood, Handled, Ignored

\* The tools without arguments.
LEMMA SimpleTools ==
    /\ ToolOK(tool_cmd_leave) /\ ToolOK(tool_cmd_resume) /\ ToolOK(tool_cmd_poll)
    /\ ToolOK(tool_cmd_host_did_wake) /\ ToolOK(tool_cmd_begin_low_power)
    /\ ToolOK(tool_cmd_reset) /\ ToolOK(tool_cmd_status) /\ ToolOK(tool_cmd_list)
    /\ ToolOK(tool_cmd_mfg) /\ ToolOK(tool_cmd_permit_join)
    /\ ToolOK(tool_cmd_begin_net_wake) /\ ToolOK(tool_cmd_cd)
  <1>1. \A method, sig : Msg(method, sig).method = method
    BY DEF Msg
  <1>2. \A method \in {"Leave", "Attach", "DataPoll", "HostDidWake", "BeginLowPower",
                       "ResetNCP", "Status"} : ToolOK(Simple(method)) /\ ToolOK(Forgiving(method))
    BY <1>1, PlainMessages DEF ToolOK, Simple, Forgiving, Tool
  <1>3. /\ ToolOK(tool_cmd_leave) /\ ToolOK(tool_cmd_resume) /\ ToolOK(tool_cmd_poll)
        /\ ToolOK(tool_cmd_host_did_wake) /\ ToolOK(tool_cmd_begin_low_power)
        /\ ToolOK(tool_cmd_reset)
    BY <1>2 DEF tool_cmd_leave, tool_cmd_resume, tool_cmd_poll, tool_cmd_host_did_wake,
        tool_cmd_begin_low_power, tool_cmd_reset
  <1>4. ToolOK(tool_cmd_status)
    BY <1>1, PlainMessages DEF ToolOK, tool_cmd_status, Simple, Tool
  <1>5. ToolOK(tool_cmd_list)
    BY <1>1, PlainMessages DEF ToolOK, tool_cmd_list, Simple, Tool
  <1>6. ToolOK(tool_cmd_mfg)
    BY <1>1, CheckedMessages DEF ToolOK, tool_cmd_mfg, Tool
  <1>7. ToolOK(tool_cmd_permit_join) /\ ToolOK(tool_cmd_begin_net_wake)
    BY <1>1, PlainMessages DEF ToolOK, tool_cmd_permit_join, tool_cmd_begin_net_wake, Tool
  <1>8. ToolOK(tool_cmd_cd)
    BY DEF ToolOK, tool_cmd_cd, Tool
  <1>. QED
    BY <1>3, <1>4, <1>5, <1>6, <1>7, <1>8

\* The tools for properties.
LEMMA PropertyTools ==
    /\ ToolOK(tool_cmd_getprop) /\ ToolOK(tool_cmd_setprop)
    /\ ToolOK(tool_cmd_insertprop) /\ ToolOK(tool_cmd_removeprop)
    /\ ToolOK(tool_cmd_dataset)
  <1>1. \A method, sig, key : Property(method, sig, key).method = method
    BY DEF Property, Msg
  <1>2. ToolOK(tool_cmd_getprop)
    BY <1>1, PropertyMessages DEF ToolOK, tool_cmd_getprop, Tool, parse_connected_devices_output
  <1>3. \A method \in {"PropSet", "PropInsert", "PropRemove"} : ToolOK(tool_updateprop(method))
    BY <1>1, PropertyMessages DEF ToolOK, tool_updateprop, Tool
  <1>4. ToolOK(tool_cmd_dataset)
    BY <1>1, PropertyMessages DEF ToolOK, tool_cmd_dataset, Tool, SetProperty
  <1>. QED
    BY <1>2, <1>3, <1>4 DEF tool_cmd_setprop, tool_cmd_insertprop, tool_cmd_removeprop

\* The tools for prefixes, routes and services.
LEMMA PrefixTools ==
    /\ ToolOK(tool_cmd_add_route) /\ ToolOK(tool_cmd_remove_route)
    /\ ToolOK(tool_cmd_config_gateway) /\ ToolOK(tool_cmd_add_prefix)
    /\ ToolOK(tool_cmd_remove_prefix) /\ ToolOK(tool_cmd_add_service)
    /\ ToolOK(tool_cmd_remove_service)
  <1>1. \A method, sig : Msg(method, sig).method = method
    BY DEF Msg
  <1>2. \A method, sig : \A m \in Routes(method, sig) : m.method = method
    BY DEF Routes, Msg
  <1>3. ToolOK(tool_cmd_add_route) /\ ToolOK(tool_cmd_remove_route)
    BY <1>2, RouteMessages DEF ToolOK, tool_cmd_add_route, tool_cmd_remove_route, Tool
  <1>4. ToolOK(tool_cmd_config_gateway)
    <2>1. Understood(Msg("ConfigGateway", <<"b">>))
      BY DEF Understood, Msg, Ignored
    <2>2. ASSUME NEW m, NEW l, m = [Address("ConfigGateway", GatewayArgs, 16) EXCEPT !.key = l]
          PROVE  Understood(m) /\ m.method # "GetInterfaces"
      <3>1. m.method = "ConfigGateway" /\ m.sig = GatewayArgs /\ m.n = 16 /\ m.dict = {}
        BY <2>2 DEF Address, Msg
      <3>. QED
        BY <3>1, ShortGateways
    <2>3. tool_cmd_config_gateway.more = 0 /\ tool_cmd_config_gateway.failed = "TIMEOUT"
      BY DEF tool_cmd_config_gateway, Tool
    <2>4. tool_cmd_config_gateway.sends =
                {Msg("ConfigGateway", <<"b">>)}
                \cup {[Address("ConfigGateway", GatewayArgs, 16) EXCEPT !.key = l] :
                         l \in {"for ever", "none"}}
      BY DEF tool_cmd_config_gateway, Tool
    <2>5. \A m \in tool_cmd_config_gateway.sends : Understood(m) /\ m.method # "GetInterfaces"
      BY <1>1, <2>1, <2>2, <2>4, Zenon
    <2>. QED
      BY <2>3, <2>5 DEF ToolOK
  <1>5. ASSUME NEW t \in Seq(DbusTypes), Len(t) >= 4, NEW l, NEW m \in Gateways(GatewayArgs \o t, l)
        PROVE  Understood(m) /\ m.method # "GetInterfaces"
    <2>1. /\ m.method = "ConfigGateway" /\ m.sig = GatewayArgs \o t /\ m.n = 16
          /\ m.bits \in PrefixBits /\ m.dict = {}
      BY DEF Gateways, Msg
    <2>2. m.bits \in Nat
      BY <2>1 DEF PrefixBits
    <2>. QED
      BY <1>5, <2>1, <2>2, LongGateways
  <1>6. <<"b", "b", "b", "q", "b", "b">> \in Seq(DbusTypes)
        /\ Len(<<"b", "b", "b", "q", "b", "b">>) >= 4
    BY DEF DbusTypes
  <1>7. <<"b", "b", "b", "q">> \in Seq(DbusTypes) /\ Len(<<"b", "b", "b", "q">>) >= 4
    BY DEF DbusTypes
  <1>8. ToolOK(tool_cmd_add_prefix)
    <2>1. \A m \in Gateways(GatewayArgs \o <<"b", "b", "b", "q", "b", "b">>, "for ever") :
              Understood(m) /\ m.method # "GetInterfaces"
      BY <1>5, <1>6
    <2>2. tool_cmd_add_prefix.more = 0 /\ tool_cmd_add_prefix.failed = "TIMEOUT"
      BY DEF tool_cmd_add_prefix, Tool
    <2>3. tool_cmd_add_prefix.sends =
                Gateways(GatewayArgs \o <<"b", "b", "b", "q", "b", "b">>, "for ever")
      BY DEF tool_cmd_add_prefix, Tool
    <2>4. \A m \in tool_cmd_add_prefix.sends : Understood(m) /\ m.method # "GetInterfaces"
      BY <2>1, <2>3, Zenon
    <2>. QED
      BY <2>2, <2>4 DEF ToolOK
  <1>9. ToolOK(tool_cmd_remove_prefix)
    <2>1. \A m \in Gateways(GatewayArgs \o <<"b", "b", "b", "q">>, "none") :
              Understood(m) /\ m.method # "GetInterfaces"
      BY <1>5, <1>7
    <2>. QED
      BY <2>1 DEF ToolOK, tool_cmd_remove_prefix, Tool
  <1>10. ToolOK(tool_cmd_add_service) /\ ToolOK(tool_cmd_remove_service)
    BY <1>1, CheckedMessages DEF ToolOK, tool_cmd_add_service, tool_cmd_remove_service, Tool
  <1>. QED
    BY <1>3, <1>4, <1>8, <1>9, <1>10

\* The tools for networks, memory and the backbone router.
LEMMA NetworkTools ==
    /\ ToolOK(tool_cmd_form) /\ ToolOK(tool_cmd_join) /\ ToolOK(tool_cmd_scan)
    /\ ToolOK(tool_cmd_pcap) /\ ToolOK(tool_cmd_peek) /\ ToolOK(tool_cmd_poke)
    /\ ToolOK(tool_cmd_mlr) /\ ToolOK(tool_cmd_bbr)
  <1>1. /\ \A method, sig : Msg(method, sig).method = method
        /\ \A method, dict : Dictionary(method, dict).method = method
        /\ \A method, sig, key : Property(method, sig, key).method = method
    BY DEF Msg, Dictionary, Property
  <1>2. ToolOK(tool_cmd_form) /\ ToolOK(tool_cmd_join)
    BY <1>1, DictionaryMessages DEF ToolOK, tool_cmd_form, tool_cmd_join, Tool
  <1>3. ToolOK(tool_cmd_scan)
    BY <1>1, PlainMessages DEF ToolOK, tool_cmd_scan, Tool
  <1>4. ToolOK(tool_cmd_pcap)
    BY <1>1, PlainMessages DEF ToolOK, tool_cmd_pcap, do_pcap_to_fd, Tool
  <1>5. ToolOK(tool_cmd_peek) /\ ToolOK(tool_cmd_poke) /\ ToolOK(tool_cmd_mlr)
    BY <1>1, CheckedMessages DEF ToolOK, tool_cmd_peek, tool_cmd_poke, tool_cmd_mlr, Tool
  <1>6. ToolOK(tool_cmd_bbr)
    BY <1>1, CheckedMessages, PropertyMessages DEF ToolOK, tool_cmd_bbr, bbr_config,
        SetProperty, Tool
  <1>. QED
    BY <1>2, <1>3, <1>4, <1>5, <1>6

\* The tools for commissioning.
LEMMA CommissioningTools ==
    /\ ToolOK(tool_cmd_commissioner) /\ ToolOK(tool_cmd_joiner)
    /\ ToolOK(tool_cmd_commr) /\ ToolOK(tool_cmd_linkmetrics)
  <1>. DEFINE Fine(m) == Understood(m) /\ m.method # "GetInterfaces"
  <1>1. /\ \A method, sig : Msg(method, sig).method = method
        /\ \A method, dict : Dictionary(method, dict).method = method
        /\ \A method, sig, key : Property(method, sig, key).method = method
        /\ \A method, sig, n : Address(method, sig, n).method = method
    BY DEF Msg, Dictionary, Property, Address
  <1>2. \A method \in {"PropGet", "PropSet"} : \A key :
            /\ Fine(Property(method, <<"s">>, key)) /\ Fine(Property(method, <<"s", "s">>, key))
            /\ Fine(Property(method, <<"s", "ay">>, key))
    BY <1>1, PropertyMessages
  <1>3. \A m \in JoinerAdd \cup commr_joiner_add \cup commr_joiner_remove : Fine(m)
    BY <1>1, CheckedMessages DEF JoinerAdd, commr_joiner_add, commr_joiner_remove
  <1>4. \A m \in commr_announce \cup commr_energy \cup commr_panid \cup commr_pskc : Fine(m)
    BY <1>1, CheckedMessages DEF commr_announce, commr_energy, commr_panid, commr_pskc
  <1>5. \A m \in lm_query \cup lm_probe \cup lm_mgmt : Fine(m)
    BY <1>1, CheckedMessages DEF lm_query, lm_probe, lm_mgmt
  <1>6. \A m \in commissioner_state \cup commissioner_start_stop \cup joiner_state
                \cup commr_start_stop \cup commr_mgmt : Fine(m)
    BY <1>2 DEF commissioner_state, commissioner_start_stop, joiner_state, commr_start_stop,
        commr_mgmt, SetProperty
  <1>7. \A m \in joiner_attach_call \cup joiner_start_call \cup {Msg("JoinerStop", <<>>)} : Fine(m)
    BY <1>1, DictionaryMessages, PlainMessages DEF joiner_attach_call, joiner_start_call
  <1>8. ToolOK(tool_cmd_commissioner)
    BY <1>3, <1>6 DEF ToolOK, tool_cmd_commissioner, Tool
  <1>9. ToolOK(tool_cmd_joiner)
    BY <1>6, <1>7 DEF ToolOK, tool_cmd_joiner, Tool
  <1>10. ToolOK(tool_cmd_commr)
    BY <1>3, <1>4, <1>6 DEF ToolOK, tool_cmd_commr, Tool
  <1>11. ToolOK(tool_cmd_linkmetrics)
    BY <1>5 DEF ToolOK, tool_cmd_linkmetrics, Tool
  <1>. QED
    BY <1>8, <1>9, <1>10, <1>11

\* So every tool is.
LEMMA EveryTool == \A t \in DOMAIN Tools : ToolOK(Tools[t])
  <1>. HIDE DEF ToolOK
  <1>. QED
    BY SimpleTools, PropertyTools, PrefixTools, NetworkTools, CommissioningTools DEF Tools

-----------------------------------------------------------------------------
(* The inductive invariant.                                                *)

BusNames == {Peer} \cup ({"wfantund"} \X Nat)
Sent == {GetInterfaces} \cup UNION {Tools[t].sends : t \in DOMAIN Tools}
Letters == [key : Keys, to : BusNames, msg : Sent]

\* How many messages a tool may still send before it gets the next property.
Room(pc) == IF pc = "idle" THEN 2 ELSE IF pc \in {"lookup", "looked"} THEN 1 ELSE 0

\* Each tool: it is in one place, sends at most four messages, and has no exit
\* code before its end.
ClientOK(x) ==
    /\ DOMAIN x = {"pc", "tool", "name", "msg", "to", "serial", "left", "again", "code"}
    /\ x.pc \in Pcs /\ x.tool \in DOMAIN Tools /\ x.to \in BusNames
    /\ x.serial \in 0..4 /\ x.left \in 0..1
    /\ x.serial + 2 * x.left + Room(x.pc) <= 4
    /\ x.pc # "done" => x.code = "-"
    /\ x.pc = "sent" => x.msg \in Tools[x.tool].sends
    /\ x.pc = "sent" /\ Tools[x.tool].lookup => x.serial >= 2
    /\ x.pc \in {"lookup", "looked"} => x.serial >= 1
ClientsOK == DOMAIN client = Clients /\ \A c \in Clients : ClientOK(client[c])

\* What is on the bus and in the daemon.
Shapes ==
    /\ daemon \in Daemons
    /\ inbox \in Seq(Letters)
    /\ \A n \in DOMAIN known : known[n] = Peer
    /\ \A t \in tasks : t.key \in Keys /\ t.msg \in Sent \ {GetInterfaces}
    /\ \A r \in replies :
          r.key \in Keys /\ r.status # "OK" /\ \A n \in DOMAIN r.names : r.names[n] \in BusNames
    /\ \A s \in served : s.key \in Keys
    /\ held \in [Keys -> -1..1]

\* A key is not used before its tool has counted up to it.
Counted(k) == k[2] <= client[k[1]].serial
Fresh ==
    /\ \A i \in 1 .. Len(inbox) : Counted(inbox[i].key)
    /\ \A t \in tasks : Counted(t.key)
    /\ \A r \in replies : Counted(r.key)
    /\ \A s \in served : Counted(s.key)

\* A call is in one place only: on its way, with a task, or served.  Its
\* answer is the only one, and comes when the daemon is done with it.
Once ==
    /\ \A i, j \in 1 .. Len(inbox) : inbox[i].key = inbox[j].key => i = j
    /\ \A i \in 1 .. Len(inbox) :
          /\ \A t \in tasks : t.key # inbox[i].key
          /\ \A s \in served : s.key # inbox[i].key
    /\ \A t \in tasks : /\ \A u \in tasks : t.key = u.key => t = u
                        /\ \A s \in served : s.key # t.key
    /\ \A r \in replies : /\ \A i \in 1 .. Len(inbox) : inbox[i].key # r.key
                          /\ \A t \in tasks : t.key # r.key
                          /\ \A q \in replies : q.key = r.key => q = r

\* Nothing is left of a lookup that was answered, so that its key can be used
\* again (More_Devices).
Settled(k) ==
    /\ \A i \in 1 .. Len(inbox) : inbox[i].key # k
    /\ \A t \in tasks : t.key # k
    /\ \A r \in replies : r.key # k
    /\ \A s \in served : s.key # k
Asks(c) ==
    /\ \A i \in 1 .. Len(inbox) : inbox[i].key = Key(c) =>
          inbox[i].msg.method = "GetInterfaces"
    /\ \A t \in tasks : t.key # Key(c)
    /\ \A s \in served : s.key # Key(c)
Lookup(c) ==
    /\ client[c].pc = "lookup" => Asks(c)
    /\ client[c].pc = "looked" => Settled(Key(c))
    /\ client[c].pc = "sent" /\ ToolOf(c).lookup =>
          Settled(<<c, client[c].serial - 1>>)
Lookups == \A c \in Clients : Lookup(c)

\* What is known of the call that a tool waits for: its message has not
\* changed, and a status that comes back is the one the daemon has served.
Answered(k, r) ==
    \E s \in served : /\ s.key = k /\ s.status = r.status
                      /\ r.status = "Ok" => s.did
Awaited(c) ==
    client[c].pc = "sent" =>
        /\ \A i \in 1 .. Len(inbox) : inbox[i].key = Key(c) =>
              inbox[i].to = client[c].to /\ inbox[i].msg = client[c].msg
        /\ \A t \in tasks : t.key = Key(c) => t.msg = client[c].msg
        /\ \A s \in served : s.key = Key(c) => s.msg = client[c].msg
        /\ \A r \in replies : r.key = Key(c) /\ r.how # "error" =>
              \/ client[c].to = Peer
              \/ client[c].msg.method \in {"ResetNCP", "GetInterfaces"}
              \/ Answered(Key(c), r)
Truth == \A c \in Clients : Awaited(c)

IpcInv ==
    /\ ClientsOK /\ Shapes /\ Fresh /\ Once /\ Lookups /\ Truth
    /\ ToolsAreUnderstood /\ ReferencesBalance /\ ZeroMeansDone

\* What the lemmas on tools say of a tool in this state.
LEMMA ToolOfClient ==
    ASSUME NEW t \in DOMAIN Tools
    PROVE  /\ Tools[t].more \in 0..1 /\ Tools[t].failed # "OK"
           /\ Tools[t].sends \subseteq Sent
           /\ \A m \in Tools[t].sends :
                 Tools[t].reads = "status" => m.method # "GetInterfaces"
  BY EveryTool DEF ToolOK, Sent

\* Every message that is sent is understood.
LEMMA SentIsUnderstood ==
    /\ \A m \in Sent : Understood(m)
    /\ \A m \in Sent : m.method = "GetInterfaces" \/ m # GetInterfaces
    /\ GetInterfaces.method = "GetInterfaces"
  <1>1. Understood(GetInterfaces)
    BY PlainMessages DEF GetInterfaces
  <1>2. GetInterfaces.method = "GetInterfaces"
    BY DEF GetInterfaces, Msg
  <1>. QED
    BY <1>1, <1>2, EveryTool DEF ToolOK, Sent

\* The tools start.
LEMMA IpcStarts == IpcInit => IpcInv
  <1>. SUFFICES ASSUME IpcInit PROVE IpcInv
    OBVIOUS
  <1>1. PICK plan \in Plans, cfg \in Configs :
          /\ client = [c \in Clients |->
                [pc |-> IF c <= Len(plan) THEN "idle" ELSE "done",
                 tool |-> IF c <= Len(plan) THEN plan[c] ELSE "cd",
                 name |-> Own, msg |-> NoMsg, to |-> Peer, serial |-> 0,
                 left |-> IF c <= Len(plan) THEN Tools[plan[c]].more ELSE 0,
                 again |-> FALSE, code |-> "-"]]
          /\ daemon = cfg
    BY DEF IpcInit
  <1>2. /\ known = NoNames /\ inbox = <<>> /\ tasks = {} /\ replies = {} /\ served = {}
        /\ held = [k \in Keys |-> 0]
    BY DEF IpcInit
  <1>3. plan \in Seq(DOMAIN Tools) /\ cfg \in Daemons
    BY IpcAssumption
  <1>4. "cd" \in DOMAIN Tools
    BY DEF Tools
  <1>5. ASSUME NEW c \in Clients
        PROVE  ClientOK(client[c]) /\ client[c].code = "-" /\ client[c].pc \in {"idle", "done"}
    <2>1. c \in Nat \ {0}
      BY IpcAssumption DEF Clients
    <2>2. client[c] = [pc |-> IF c <= Len(plan) THEN "idle" ELSE "done",
                       tool |-> IF c <= Len(plan) THEN plan[c] ELSE "cd",
                       name |-> Own, msg |-> NoMsg, to |-> Peer, serial |-> 0,
                       left |-> IF c <= Len(plan) THEN Tools[plan[c]].more ELSE 0,
                       again |-> FALSE, code |-> "-"]
      BY <1>1
    <2>3. CASE c <= Len(plan)
      <3>1. plan[c] \in DOMAIN Tools
        BY <1>3, <2>1, <2>3
      <3>2. Tools[plan[c]].more \in 0..1
        BY <3>1, ToolOfClient
      <3>3. client[c] = [pc |-> "idle", tool |-> plan[c], name |-> Own, msg |-> NoMsg,
                         to |-> Peer, serial |-> 0, left |-> Tools[plan[c]].more,
                         again |-> FALSE, code |-> "-"]
        BY <2>2, <2>3
      <3>. QED
        BY <3>1, <3>2, <3>3 DEF ClientOK, Pcs, BusNames, Room
    <2>4. CASE ~(c <= Len(plan))
      <3>1. client[c] = [pc |-> "done", tool |-> "cd", name |-> Own, msg |-> NoMsg,
                         to |-> Peer, serial |-> 0, left |-> 0, again |-> FALSE, code |-> "-"]
        BY <2>2, <2>4
      <3>. QED
        BY <3>1, <1>4 DEF ClientOK, Pcs, BusNames, Room
    <2>. QED
      BY <2>3, <2>4
  <1>6. ClientsOK
    BY <1>1, <1>5 DEF ClientsOK
  <1>7. Shapes
    <2>1. inbox \in Seq(Letters)
      BY <1>2
    <2>2. held \in [Keys -> -1..1]
      BY <1>2
    <2>3. DOMAIN known = {}
      BY <1>2 DEF NoNames
    <2>4. daemon \in Daemons
      BY <1>1, <1>3
    <2>. QED
      BY <1>2, <2>1, <2>2, <2>3, <2>4 DEF Shapes
  <1>8. Len(inbox) = 0
    BY <1>2
  <1>9. Fresh /\ Once /\ Truth /\ Lookups
    BY <1>2, <1>5, <1>8 DEF Fresh, Once, Truth, Awaited, Lookups, Lookup
  <1>10. ToolsAreUnderstood /\ ReferencesBalance
    BY <1>2 DEF ToolsAreUnderstood, ReferencesBalance
  <1>11. ZeroMeansDone
    BY <1>5 DEF ZeroMeansDone
  <1>. QED
    BY <1>6, <1>7, <1>9, <1>10, <1>11 DEF IpcInv

-----------------------------------------------------------------------------
(* The steps of the tools.                                                 *)

\* wfanctl get sends nothing but PropGet.
LEMMA GettersGet == \A m \in Tools["get"].sends : m.method = "PropGet"
  <1>1. Tools["get"].sends = {Property("PropGet", <<"s">>, k) :
                                k \in {"ordinary", "unset", "connecteddevices"}}
    BY DEF Tools, tool_cmd_getprop, Tool
  <1>. QED
    BY <1>1 DEF Property, Msg

\* x exits with 0 and claims more than it knows.
Claims(x) ==
    /\ x.code = "OK" /\ x.to # Peer
    /\ x.msg.method \notin {"-", "ResetNCP"}
    /\ Tools[x.tool].reads = "status"

\* Only tool c moves, and only it uses the keys it has counted.
Alone(c) ==
    /\ DOMAIN client' = Clients
    /\ \A x \in Clients \ {c} : client'[x] = client[x]

\* Where keys are found.
LEMMA KeysOfCalls ==
    ASSUME Shapes
    PROVE  /\ \A i \in 1 .. Len(inbox) : inbox[i] \in Letters /\ inbox[i].key \in Keys
           /\ \A t \in tasks : t.key \in Keys
           /\ \A r \in replies : r.key \in Keys
           /\ \A s \in served : s.key \in Keys
           /\ inbox \in Seq(Letters) /\ Len(inbox) \in Nat
  <1>1. inbox \in Seq(Letters)
    BY DEF Shapes
  <1>2. \A l \in Letters : l.key \in Keys
    BY DEF Letters
  <1>3. \A i \in 1 .. Len(inbox) : inbox[i] \in Letters
    BY <1>1
  <1>. QED
    BY <1>1, <1>2, <1>3 DEF Shapes

\* A tool that sends nothing, and does not come to wait for its call, keeps
\* the invariant if what it claims at its end is true.
LEMMA ToolMoves ==
    ASSUME IpcInv, NEW c \in Clients, Alone(c),
           ClientOK(client'[c]), client'[c].serial = client[c].serial,
           client'[c].pc \notin {"lookup", "sent"},
           client'[c].pc = "looked" => Settled(Key(c))',
           Claims(client'[c]) =>
              \E s \in served : /\ s.key = <<c, client[c].serial>>
                                /\ s.did \/ s.status \in Tools[client'[c].tool].forgives,
           replies' \subseteq replies,
           UNCHANGED <<daemon, known, inbox, tasks, held, served, faults>>
    PROVE  IpcInv'
  <1>1. ClientsOK'
    BY DEF IpcInv, ClientsOK, Alone
  <1>2. Shapes'
    BY DEF IpcInv, Shapes
  <1>3. \A x \in Clients : client'[x].serial = client[x].serial
    BY DEF Alone
  <1>4. Fresh'
    <2>1. \A k \in Keys : k[1] \in Clients
      BY DEF Keys
    <2>2. \A k \in Keys : Counted(k) => Counted(k)'
      BY <1>3, <2>1 DEF Counted
    <2>3. /\ \A i \in 1 .. Len(inbox) : inbox[i].key \in Keys
          /\ \A t \in tasks : t.key \in Keys
          /\ \A r \in replies : r.key \in Keys
          /\ \A s \in served : s.key \in Keys
      BY KeysOfCalls DEF IpcInv
    <2>4. Fresh
      BY DEF IpcInv
    <2>. QED
      BY ONLY <2>2, <2>3, <2>4, replies' \subseteq replies,
           UNCHANGED <<daemon, known, inbox, tasks, held, served, faults>> DEF Fresh
  <1>5. Once'
    BY DEF IpcInv, Once
  <1>6. Truth'
    <2>1. Truth
      BY DEF IpcInv
    <2>2. ASSUME NEW x \in Clients, x # c PROVE Awaited(x)'
      <3>1. Key(x)' = Key(x) /\ client'[x] = client[x]
        BY <2>2 DEF Key, Alone
      <3>2. \A k, r : Answered(k, r)' <=> Answered(k, r)
        BY DEF Answered
      <3>3. Awaited(x)
        BY <2>1 DEF Truth
      <3>. QED
        BY <3>1, <3>2, <3>3 DEF Awaited
    <2>3. Awaited(c)'
      BY DEF Awaited
    <2>. QED
      BY <2>2, <2>3 DEF Truth
  <1>7. ToolsAreUnderstood' /\ ReferencesBalance'
    BY DEF IpcInv, ToolsAreUnderstood, ReferencesBalance
  <1>8. ZeroMeansDone'
    <2>1. ZeroMeansDone
      BY DEF IpcInv
    <2>2. ASSUME NEW x \in Clients, Claims(client'[x])
          PROVE  \E s \in served : /\ s.key = <<x, client'[x].serial>>
                                   /\ s.did \/ s.status \in Tools[client'[x].tool].forgives
      <3>1. CASE x = c
        BY <2>2, <3>1, <1>3
      <3>2. CASE x # c
        BY <2>1, <2>2, <3>2 DEF ZeroMeansDone, Claims, Alone, Key, ToolOf
      <3>. QED
        BY <3>1, <3>2
    <2>. QED
      BY <2>2 DEF ZeroMeansDone, Claims, Key, ToolOf
  <1>9. Lookups'
    <2>1. \A k : Settled(k) => Settled(k)'
      BY DEF Settled
    <2>2. ASSUME NEW x \in Clients, x # c PROVE Lookup(x)'
      <3>1. Key(x)' = Key(x) /\ client'[x] = client[x]
        BY <2>2 DEF Key, Alone
      <3>2. Lookup(x)
        BY DEF IpcInv, Lookups
      <3>. QED
        BY <2>1, <3>1, <3>2 DEF Lookup, Asks, ToolOf
    <2>3. Lookup(c)'
      BY DEF Lookup
    <2>. QED
      BY <2>2, <2>3 DEF Lookups
  <1>. QED
    BY <1>1, <1>2, <1>4, <1>5, <1>6, <1>7, <1>8, <1>9 DEF IpcInv

\* A tool that sends a message uses a new key.
LEMMA ToolPosts ==
    ASSUME IpcInv, NEW c \in Clients, Alone(c), NEW l \in Letters,
           ClientOK(client'[c]), client'[c].serial = client[c].serial + 1,
           client'[c].pc \in {"lookup", "sent"}, client'[c].tool = client[c].tool,
           client'[c].pc = "lookup" => l.msg.method = "GetInterfaces",
           client'[c].pc = "sent" /\ ToolOf(c).lookup => client[c].pc = "looked",
           l.key = <<c, client[c].serial + 1>>,
           l.to = client'[c].to, l.msg = client'[c].msg,
           inbox' = Append(inbox, l),
           UNCHANGED <<daemon, known, tasks, replies, held, served, faults>>
    PROVE  IpcInv'
  <1>1. ClientsOK'
    BY DEF IpcInv, ClientsOK, Alone
  <1>2. Shapes'
    BY DEF IpcInv, Shapes
  <1>3. /\ \A x \in Clients \ {c} : client'[x].serial = client[x].serial
        /\ client[c].serial \in Nat
    BY DEF Alone, IpcInv, ClientsOK, ClientOK
  <1>4. \A x \in Clients : client[x].serial \in Nat /\ client'[x].serial \in Nat
                           /\ client[x].serial <= client'[x].serial
    BY <1>1 DEF ClientsOK, ClientOK, IpcInv, Alone
  <1>5. \A k \in Keys : k[1] \in Clients /\ k[2] \in Nat
    BY DEF Keys
  <1>6. \A k \in Keys : Counted(k) => Counted(k)' /\ k # l.key
    BY <1>3, <1>4, <1>5 DEF Counted
  <1>7. l.key \in Keys /\ Counted(l.key)'
    <2>1. l.key \in Keys
      BY DEF Letters
    <2>. QED
      BY <1>3, <2>1 DEF Counted
  <1>8. /\ \A i \in 1 .. Len(inbox) : inbox[i].key \in Keys
        /\ \A t \in tasks : t.key \in Keys
        /\ \A r \in replies : r.key \in Keys
        /\ \A s \in served : s.key \in Keys
        /\ inbox \in Seq(Letters)
    BY KeysOfCalls DEF IpcInv
  <1>9. /\ Len(inbox') = Len(inbox) + 1 /\ Len(inbox) \in Nat
        /\ \A i \in 1 .. Len(inbox) : inbox'[i] = inbox[i]
        /\ inbox'[Len(inbox) + 1] = l
    BY <1>8
  <1>10. \A i \in 1 .. Len(inbox') : i \in 1 .. Len(inbox) \/ i = Len(inbox) + 1
    BY <1>9
  <1>11. /\ \A i \in 1 .. Len(inbox) : inbox[i].key # l.key
         /\ \A t \in tasks : t.key # l.key
         /\ \A r \in replies : r.key # l.key
         /\ \A s \in served : s.key # l.key
    BY <1>6, <1>8 DEF IpcInv, Fresh
  <1>12. Fresh'
    <2>1. Fresh
      BY DEF IpcInv
    <2>. QED
      BY ONLY <1>6, <1>7, <1>8, <1>9, <1>10, <2>1,
           UNCHANGED <<daemon, known, tasks, replies, held, served, faults>> DEF Fresh
  <1>13. Once'
    <2>1. Once
      BY DEF IpcInv
    <2>. QED
      BY ONLY <1>9, <1>10, <1>11, <2>1,
           UNCHANGED <<daemon, known, tasks, replies, held, served, faults>> DEF Once
  <1>14. Truth'
    <2>1. Truth
      BY DEF IpcInv
    <2>2. ASSUME NEW x \in Clients, x # c PROVE Awaited(x)'
      <3>1. Key(x)' = Key(x) /\ client'[x] = client[x]
        BY <2>2 DEF Key, Alone
      <3>2. Key(x) # l.key
        BY <2>2 DEF Key
      <3>3. \A k, r : Answered(k, r)' <=> Answered(k, r)
        BY DEF Answered
      <3>4. Awaited(x)
        BY <2>1 DEF Truth
      <3>5. \A i \in 1 .. Len(inbox') : inbox'[i].key = Key(x) =>
                i \in 1 .. Len(inbox) /\ inbox'[i] = inbox[i]
        BY <1>9, <1>10, <3>2
      <3>. QED
        BY <3>1, <3>3, <3>4, <3>5 DEF Awaited
    <2>3. Awaited(c)'
      <3>1. Key(c)' = l.key
        BY DEF Key
      <3>. QED
        BY <3>1, <1>9, <1>10, <1>11 DEF Awaited
    <2>. QED
      BY <2>2, <2>3 DEF Truth
  <1>15. ToolsAreUnderstood' /\ ReferencesBalance'
    BY DEF IpcInv, ToolsAreUnderstood, ReferencesBalance
  <1>16. ZeroMeansDone'
    <2>1. ZeroMeansDone
      BY DEF IpcInv
    <2>2. client'[c].code = "-"
      BY DEF ClientOK
    <2>. QED
      BY <2>1, <2>2, ZenonT(30) DEF ZeroMeansDone, Alone, Key, ToolOf
  <1>17. Lookups'
    <2>1. ASSUME NEW k, Settled(k), k # l.key PROVE Settled(k)'
      <3>1. \A i \in 1 .. Len(inbox') : inbox'[i].key # k
        BY <1>9, <1>10, <2>1 DEF Settled
      <3>. QED
        BY <2>1, <3>1 DEF Settled
    <2>2. ASSUME NEW x \in Clients, x # c PROVE Lookup(x)'
      <3>1. Key(x)' = Key(x) /\ client'[x] = client[x] /\ ToolOf(x)' = ToolOf(x)
        BY <2>2 DEF Key, Alone, ToolOf
      <3>2. Key(x) # l.key /\ <<x, client[x].serial - 1>> # l.key
        BY <2>2 DEF Key
      <3>3. Lookup(x)
        BY DEF IpcInv, Lookups
      <3>4. client[x].pc = "lookup" => Asks(x)'
        <4>1. \A i \in 1 .. Len(inbox') : inbox'[i].key = Key(x) =>
                  i \in 1 .. Len(inbox) /\ inbox'[i] = inbox[i]
          BY <1>9, <1>10, <3>2
        <4>. QED
          BY <3>1, <3>3, <4>1 DEF Lookup, Asks
      <3>. QED
        BY <2>1, <3>1, <3>2, <3>3, <3>4 DEF Lookup
    <2>3. Lookup(c)'
      <3>1. Key(c)' = l.key /\ ToolOf(c)' = ToolOf(c)
        BY DEF Key, ToolOf
      <3>2. client'[c].pc = "lookup" => Asks(c)'
        <4>1. \A i \in 1 .. Len(inbox') : inbox'[i].key = l.key => inbox'[i] = l
          BY <1>9, <1>10, <1>11
        <4>. QED
          BY <1>11, <3>1, <4>1 DEF Asks
      <3>3. ASSUME client'[c].pc = "sent", ToolOf(c)'.lookup
            PROVE  \A k : k = <<c, client'[c].serial - 1>> => Settled(k)'
        <4>1. Settled(Key(c))
          BY <3>1, <3>3 DEF IpcInv, Lookups, Lookup
        <4>2. client'[c].serial - 1 = client[c].serial
          BY <1>3
        <4>3. Key(c) = <<c, client[c].serial>> /\ Key(c) # l.key
          BY <1>3 DEF Key
        <4>. QED
          BY <2>1, <4>1, <4>2, <4>3
      <3>. QED
        BY <3>2, <3>3 DEF Lookup
    <2>. QED
      BY <2>2, <2>3 DEF Lookups
  <1>. QED
    BY <1>1, <1>2, <1>12, <1>13, <1>14, <1>15, <1>16, <1>17 DEF IpcInv

\* A tool that exits.
LEMMA Exits ==
    ASSUME ClientsOK, NEW c \in Clients, NEW code, Exit(c, code)
    PROVE  /\ Alone(c) /\ ClientOK(client'[c])
           /\ client'[c].pc = "done" /\ client'[c].code = code
           /\ client'[c].serial = client[c].serial /\ client'[c].tool = client[c].tool
           /\ client'[c].to = client[c].to /\ client'[c].msg = client[c].msg
  <1>1. DOMAIN client = Clients /\ ClientOK(client[c])
    BY DEF ClientsOK
  <1>2. /\ Alone(c)
        /\ DOMAIN client'[c] = DOMAIN client[c]
        /\ client'[c].pc = "done" /\ client'[c].code = code
        /\ client'[c].serial = client[c].serial /\ client'[c].tool = client[c].tool
        /\ client'[c].to = client[c].to /\ client'[c].msg = client[c].msg
        /\ client'[c].left = client[c].left
    BY <1>1 DEF Exit, Alone, ClientOK
  <1>. QED
    BY <1>1, <1>2 DEF ClientOK, Pcs, Room

\* A tool that is done with its call, or goes on to the next property.
LEMMA Finishes ==
    ASSUME ClientsOK, NEW c \in Clients, NEW code, client[c].pc = "sent", Finish(c, code)
    PROVE  /\ Alone(c) /\ ClientOK(client'[c])
           /\ client'[c].pc \in {"idle", "done"} /\ client'[c].code \in {"-", code}
           /\ client'[c].serial = client[c].serial /\ client'[c].tool = client[c].tool
           /\ client'[c].to = client[c].to /\ client'[c].msg = client[c].msg
  <1>1. DOMAIN client = Clients /\ ClientOK(client[c])
    BY DEF ClientsOK
  <1>2. CASE /\ client[c].left > 0
             /\ client' = [client EXCEPT ![c].pc = "idle", ![c].left = @ - 1,
                                         ![c].again = FALSE]
    <2>1. client' = [client EXCEPT ![c].pc = "idle", ![c].left = client[c].left - 1,
                                   ![c].again = FALSE]
      BY <1>1, <1>2 DEF ClientOK
    <2>2. /\ Alone(c)
          /\ DOMAIN client'[c] = DOMAIN client[c]
          /\ client'[c].pc = "idle" /\ client'[c].code = client[c].code
          /\ client'[c].serial = client[c].serial /\ client'[c].tool = client[c].tool
          /\ client'[c].to = client[c].to /\ client'[c].msg = client[c].msg
          /\ client'[c].left = client[c].left - 1
      BY <1>1, <2>1 DEF Alone, ClientOK
    <2>. QED
      BY <1>1, <1>2, <2>2 DEF ClientOK, Pcs, Room
  <1>3. CASE Exit(c, code)
    BY <1>3, Exits
  <1>. QED
    BY <1>2, <1>3 DEF Finish

\* The arguments are refused.
LEMMA InvokeEndsKeeps ==
    ASSUME IpcInv, NEW c \in Clients, Invoke_Ends(c)
    PROVE  IpcInv'
  <1>1. DOMAIN client = Clients /\ ClientOK(client[c])
    BY DEF IpcInv, ClientsOK
  <1>2. PICK code : client' = [client EXCEPT ![c].pc = "done", ![c].code = code,
                                             ![c].msg = NoMsg]
    BY DEF Invoke_Ends
  <1>3. /\ Alone(c)
        /\ DOMAIN client'[c] = DOMAIN client[c]
        /\ client'[c].pc = "done" /\ client'[c].msg = NoMsg
        /\ client'[c].serial = client[c].serial /\ client'[c].tool = client[c].tool
        /\ client'[c].to = client[c].to /\ client'[c].left = client[c].left
    BY <1>1, <1>2 DEF Alone, ClientOK
  <1>4. ClientOK(client'[c])
    BY <1>1, <1>3 DEF ClientOK, Pcs, Room
  <1>5. ~Claims(client'[c])
    BY <1>3 DEF Claims, NoMsg, Msg
  <1>. QED
    BY <1>3, <1>4, <1>5, ToolMoves DEF Invoke_Ends

\* What a tool that posts looks like.
LEMMA Posting ==
    ASSUME IpcInv, NEW c \in Clients, NEW to \in BusNames, NEW m \in Sent, NEW pc,
           Post(c, to, m, pc),
           UNCHANGED <<daemon, known, tasks, replies, held, served, faults>>,
           \/ client[c].pc = "idle" /\ pc = "lookup" /\ m = GetInterfaces
           \/ client[c].pc = "idle" /\ ~ToolOf(c).lookup /\ pc = "sent" /\ m \in ToolOf(c).sends
           \/ client[c].pc = "looked" /\ pc = "sent" /\ m \in ToolOf(c).sends
    PROVE  IpcInv'
  <1>1. DOMAIN client = Clients /\ ClientOK(client[c])
    BY DEF IpcInv, ClientsOK
  <1>2. client' = [client EXCEPT ![c].pc = pc, ![c].to = to, ![c].msg = m,
                                 ![c].serial = client[c].serial + 1]
    BY <1>1 DEF Post, ClientOK
  <1>3. /\ Alone(c)
        /\ DOMAIN client'[c] = DOMAIN client[c]
        /\ client'[c].pc = pc /\ client'[c].msg = m /\ client'[c].to = to
        /\ client'[c].serial = client[c].serial + 1 /\ client'[c].tool = client[c].tool
        /\ client'[c].code = client[c].code /\ client'[c].left = client[c].left
    BY <1>1, <1>2 DEF Alone, ClientOK
  <1>4. client[c].serial + 1 \in 1..4
    BY <1>1 DEF ClientOK, Room
  <1>5. ClientOK(client'[c])
    BY <1>1, <1>3, <1>4 DEF ClientOK, Pcs, Room, ToolOf
  <1>. DEFINE l == [key |-> <<c, client[c].serial + 1>>, to |-> to, msg |-> m]
  <1>6. l \in Letters
    BY <1>4 DEF Letters, Keys
  <1>7. inbox' = Append(inbox, l)
    BY DEF Post
  <1>8. /\ client'[c].pc \in {"lookup", "sent"}
        /\ client'[c].pc = "lookup" => m.method = "GetInterfaces"
        /\ client'[c].pc = "sent" /\ ToolOf(c).lookup => client[c].pc = "looked"
    BY <1>3, SentIsUnderstood
  <1>9. /\ l.key = <<c, client[c].serial + 1>>
        /\ l.to = client'[c].to /\ l.msg = client'[c].msg /\ l.msg = m
    BY <1>3
  <1>. HIDE DEF l
  <1>. QED
    BY <1>3, <1>5, <1>6, <1>7, <1>8, <1>9, ToolPosts

\* Every tool sends to a bus name, and what Sent holds.
LEMMA InvokesKeep ==
    ASSUME IpcInv, NEW c \in Clients, Invoke(c) \/ Invoke_List(c) \/ Call(c)
    PROVE  IpcInv'
  <1>1. ClientOK(client[c])
    BY DEF IpcInv, ClientsOK
  <1>2. Bus \in BusNames
    BY DEF IpcInv, Shapes, Daemons, Bus, BusNames
  <1>3. ToolOf(c).sends \subseteq Sent
    BY <1>1, ToolOfClient DEF ClientOK, ToolOf
  <1>4. client[c].to \in BusNames
    BY <1>1 DEF ClientOK
  <1>5. GetInterfaces \in Sent
    BY DEF Sent
  <1>6. CASE Invoke(c)
    BY <1>2, <1>5, <1>6, Posting DEF Invoke
  <1>7. CASE Invoke_List(c)
    <2>1. PICK m \in ToolOf(c).sends : Post(c, Bus, m, "sent")
      BY <1>7 DEF Invoke_List
    <2>. QED
      BY <1>2, <1>3, <1>7, <2>1, Posting DEF Invoke_List
  <1>8. CASE Call(c)
    <2>1. PICK m \in ToolOf(c).sends : Post(c, client[c].to, m, "sent")
      BY <1>8 DEF Call
    <2>. QED
      BY <1>4, <1>3, <1>8, <2>1, Posting DEF Call
  <1>. QED
    BY <1>6, <1>7, <1>8

\* The interface is looked up.
LEMMA LookupKeeps ==
    ASSUME IpcInv, NEW c \in Clients, Lookup_Replied(c)
    PROVE  IpcInv'
  <1>1. DOMAIN client = Clients /\ ClientOK(client[c]) /\ ClientsOK
    BY DEF IpcInv, ClientsOK
  <1>2. PICK r \in replies, name \in Names :
          /\ r.key = Key(c)
          /\ replies' = replies \ {r}
          /\ IF r.how = "error" THEN Exit(c, "TIMEOUT")
             ELSE IF lookup_dbus_name_from_interface(r.names, name) = {}
             THEN Exit(c, "InterfaceNotFound")
             ELSE client' = [client EXCEPT ![c].pc = "looked", ![c].name = name,
                                           ![c].to = r.names[name]]
    BY DEF Lookup_Replied
  <1>3. /\ replies' \subseteq replies
        /\ UNCHANGED <<daemon, known, inbox, tasks, held, served, faults>>
    BY <1>2 DEF Lookup_Replied
  <1>4. ASSUME NEW code, code # "OK", Exit(c, code) PROVE IpcInv'
    <2>1. ~Claims(client'[c])
      BY <1>1, <1>4, Exits DEF Claims
    <2>. QED
      BY <1>1, <1>3, <1>4, <2>1, Exits, ToolMoves
  <1>5. CASE /\ lookup_dbus_name_from_interface(r.names, name) # {}
             /\ client' = [client EXCEPT ![c].pc = "looked", ![c].name = name,
                                         ![c].to = r.names[name]]
    <2>1. r.names[name] \in BusNames
      BY <1>5 DEF lookup_dbus_name_from_interface, IpcInv, Shapes
    <2>2. /\ Alone(c)
          /\ DOMAIN client'[c] = DOMAIN client[c]
          /\ client'[c].pc = "looked" /\ client'[c].to = r.names[name]
          /\ client'[c].serial = client[c].serial /\ client'[c].tool = client[c].tool
          /\ client'[c].code = client[c].code /\ client'[c].left = client[c].left
      BY <1>1, <1>5 DEF Alone, ClientOK
    <2>3. client[c].pc = "lookup" /\ r.key = Key(c)
      BY <1>2 DEF Lookup_Replied
    <2>4. ClientOK(client'[c]) /\ client'[c].code = "-"
      BY <1>1, <2>1, <2>2, <2>3 DEF ClientOK, Pcs, Room
    <2>5. Settled(Key(c))'
      <3>1. Key(c)' = Key(c)
        BY <2>2 DEF Key
      <3>2. Asks(c)
        BY <2>3 DEF IpcInv, Lookups, Lookup
      <3>3. /\ \A i \in 1 .. Len(inbox) : inbox[i].key # Key(c)
            /\ \A q \in replies' : q.key # Key(c)
        BY <1>2, <2>3 DEF IpcInv, Once
      <3>. QED
        BY <1>3, <3>1, <3>2, <3>3 DEF Settled, Asks
    <2>. QED
      BY <1>3, <2>2, <2>4, <2>5, ToolMoves DEF Claims
  <1>. QED
    BY <1>2, <1>4, <1>5

\* The reply to the call is read: 0 is returned for a status that the daemon
\* has served.
LEMMA ReadReplyKeeps ==
    ASSUME IpcInv, NEW c \in Clients, Read_Reply(c)
    PROVE  IpcInv'
  <1>1. ClientsOK /\ ClientOK(client[c]) /\ client[c].pc = "sent"
    BY DEF IpcInv, ClientsOK, Read_Reply
  <1>2. PICK r \in replies : /\ r.key = Key(c) /\ Finish(c, CodeOf(ToolOf(c), r))
                             /\ replies' = replies \ {r}
    BY DEF Read_Reply
  <1>3. /\ replies' \subseteq replies
        /\ UNCHANGED <<daemon, known, inbox, tasks, held, served, faults>>
    BY <1>2 DEF Read_Reply
  <1>. DEFINE code == CodeOf(ToolOf(c), r)
  <1>4. /\ Alone(c) /\ ClientOK(client'[c])
        /\ client'[c].pc \in {"idle", "done"} /\ client'[c].code \in {"-", code}
        /\ client'[c].serial = client[c].serial /\ client'[c].tool = client[c].tool
        /\ client'[c].to = client[c].to /\ client'[c].msg = client[c].msg
    BY <1>1, <1>2, Finishes
  <1>5. ASSUME Claims(client'[c])
        PROVE  \E s \in served : /\ s.key = <<c, client[c].serial>>
                                 /\ s.did \/ s.status \in Tools[client'[c].tool].forgives
    <2>1. /\ code = "OK" /\ client[c].to # Peer
          /\ client[c].msg.method # "ResetNCP" /\ ToolOf(c).reads = "status"
      BY <1>4, <1>5 DEF Claims, ToolOf
    <2>2. ToolOf(c).failed # "OK" /\ client[c].msg.method # "GetInterfaces"
      BY <1>1, <2>1, ToolOfClient DEF ClientOK, ToolOf
    <2>3. r.status # "OK"
      BY DEF IpcInv, Shapes
    <2>4. r.how # "error" /\ r.status \in ToolOf(c).forgives \cup {"Ok"}
      BY <2>1, <2>2, <2>3 DEF CodeOf
    <2>5. Answered(Key(c), r)
      BY <1>1, <1>2, <2>1, <2>2, <2>4 DEF IpcInv, Truth, Awaited
    <2>. QED
      BY <1>4, <2>4, <2>5 DEF Answered, Key, ToolOf
  <1>. HIDE DEF code
  <1>. QED
    BY <1>3, <1>4, <1>5, ToolMoves

\* The tool asks for the connected devices again, with the keys of the round
\* that is over: nothing of it is left.
LEMMA MoreDevicesKeep ==
    ASSUME IpcInv, NEW c \in Clients, More_Devices(c)
    PROVE  IpcInv'
  <1>1. /\ DOMAIN client = Clients /\ ClientOK(client[c]) /\ client[c].pc = "sent"
        /\ client[c].tool = "get" /\ client[c].msg.key = "connecteddevices"
        /\ client[c].serial \in 0..4 /\ ToolOf(c).lookup
    <2>1. Tools["get"].lookup
      BY DEF Tools, tool_cmd_getprop, Tool
    <2>. QED
      BY <2>1 DEF IpcInv, ClientsOK, More_Devices, ClientOK, ToolOf
  <1>2. PICK r \in replies : r.key = Key(c) /\ replies' = replies \ {r}
    BY DEF More_Devices
  <1>3. /\ UNCHANGED <<daemon, known, inbox, tasks, held, faults>>
        /\ served' = {s \in served : s.key # Key(c)}
    BY DEF More_Devices
  <1>4. client' = [client EXCEPT ![c].pc = "idle", ![c].again = TRUE,
                                 ![c].serial = client[c].serial - 2]
    BY <1>1 DEF More_Devices, ClientOK
  <1>5. /\ Alone(c)
        /\ DOMAIN client'[c] = DOMAIN client[c]
        /\ client'[c].pc = "idle" /\ client'[c].serial = client[c].serial - 2
        /\ client'[c].tool = client[c].tool /\ client'[c].to = client[c].to
        /\ client'[c].code = client[c].code /\ client'[c].left = client[c].left
    BY <1>1, <1>4 DEF Alone, ClientOK
  <1>6. client[c].serial >= 2
    BY <1>1 DEF ClientOK, ToolOf
  <1>7. ClientOK(client'[c]) /\ client'[c].code = "-"
    BY <1>1, <1>5, <1>6 DEF ClientOK, Pcs, Room
  <1>8. ClientsOK'
    BY <1>5, <1>7 DEF IpcInv, ClientsOK, Alone
  <1>9. Shapes'
    BY <1>2, <1>3 DEF IpcInv, Shapes
  <1>10. Settled(<<c, client[c].serial - 1>>)
    BY <1>1 DEF IpcInv, Lookups, Lookup
  <1>11. /\ \A i \in 1 .. Len(inbox) : inbox[i].key # Key(c)
         /\ \A t \in tasks : t.key # Key(c)
         /\ \A q \in replies' : q.key # Key(c)
         /\ \A s \in served' : s.key # Key(c)
    BY <1>2, <1>3 DEF IpcInv, Once
  <1>12. \A k : k \in Keys /\ Counted(k) /\ k # Key(c) /\ k # <<c, client[c].serial - 1>>
            => Counted(k)'
    <2>. SUFFICES ASSUME NEW k \in Keys, Counted(k), k # Key(c),
                         k # <<c, client[c].serial - 1>>
                  PROVE  k[2] <= client'[k[1]].serial
      BY DEF Counted
    <2>1. k[1] \in Clients /\ k[2] \in 1..4 /\ k = <<k[1], k[2]>>
      BY DEF Keys
    <2>2. CASE k[1] # c
      BY <1>5, <2>1, <2>2 DEF Counted, Alone
    <2>3. CASE k[1] = c
      <3>1. k[2] <= client[c].serial
        BY <2>3 DEF Counted
      <3>2. k[2] # client[c].serial /\ k[2] # client[c].serial - 1
        BY <2>1, <2>3 DEF Key
      <3>3. k[2] <= client[c].serial - 2
        BY <1>1, <2>1, <3>1, <3>2
      <3>. QED
        BY <1>5, <2>3, <3>3
    <2>. QED
      BY <2>2, <2>3
  <1>13. Fresh'
    <2>1. Fresh
      BY DEF IpcInv
    <2>2. /\ \A i \in 1 .. Len(inbox) : inbox[i].key \in Keys
          /\ \A t \in tasks : t.key \in Keys
          /\ \A q \in replies : q.key \in Keys
          /\ \A s \in served : s.key \in Keys
      BY KeysOfCalls DEF IpcInv
    <2>. DEFINE new(k) == k # Key(c) /\ k # <<c, client[c].serial - 1>>
    <2>3. /\ \A i \in 1 .. Len(inbox) : new(inbox[i].key)
          /\ \A t \in tasks : new(t.key)
          /\ \A q \in replies' : new(q.key)
          /\ \A s \in served' : new(s.key)
      BY <1>2, <1>3, <1>10, <1>11 DEF Settled
    <2>4. \A k \in Keys : Counted(k) /\ new(k) => Counted(k)'
      BY <1>12
    <2>. HIDE DEF new
    <2>5. replies' \subseteq replies /\ served' \subseteq served
      BY <1>2, <1>3
    <2>. QED
      BY ONLY <1>3, <2>1, <2>2, <2>3, <2>4, <2>5 DEF Fresh
  <1>14. replies' \subseteq replies /\ served' \subseteq served
    BY <1>2, <1>3
  <1>15. Once'
    BY <1>3, <1>14 DEF IpcInv, Once
  <1>16. ASSUME NEW x \in Clients, x # c
         PROVE  Key(x)' = Key(x) /\ client'[x] = client[x] /\ ToolOf(x)' = ToolOf(x)
                /\ Key(x) # Key(c)
    BY <1>5, <1>16 DEF Key, Alone, ToolOf
  <1>17. Lookups'
    <2>1. \A k : Settled(k) => Settled(k)'
      BY <1>3, <1>14 DEF Settled
    <2>2. ASSUME NEW x \in Clients, x # c PROVE Lookup(x)'
      <3>1. Lookup(x)
        BY DEF IpcInv, Lookups
      <3>2. Asks(x) => Asks(x)'
        BY <1>3, <1>14, <1>16, <2>2 DEF Asks
      <3>. QED
        BY <1>16, <2>1, <2>2, <3>1, <3>2 DEF Lookup
    <2>3. Lookup(c)'
      BY <1>5 DEF Lookup
    <2>. QED
      BY <2>2, <2>3 DEF Lookups
  <1>18. Truth'
    <2>1. ASSUME NEW x \in Clients, x # c PROVE Awaited(x)'
      <3>1. Awaited(x)
        BY DEF IpcInv, Truth
      <3>2. \A q : Answered(Key(x), q) => Answered(Key(x), q)'
        BY <1>3, <1>16, <2>1 DEF Answered
      <3>. QED
        BY <1>3, <1>14, <1>16, <2>1, <3>1, <3>2 DEF Awaited
    <2>2. Awaited(c)'
      BY <1>5 DEF Awaited
    <2>. QED
      BY <2>1, <2>2 DEF Truth
  <1>19. ToolsAreUnderstood'
    BY <1>14 DEF IpcInv, ToolsAreUnderstood
  <1>20. ReferencesBalance'
    <2>1. ReferencesBalance
      BY DEF IpcInv
    <2>2. \A s \in served : s.key = Key(c) => s.msg = client[c].msg
      BY <1>1 DEF IpcInv, Truth, Awaited
    <2>3. client[c].msg.method # "ResetNCP"
      BY <1>1, GettersGet DEF ClientOK
    <2>4. \A s \in served : s.key = Key(c) => held[s.key] \notin {-1, 1}
      BY <1>1, <2>1, <2>2, <2>3 DEF ReferencesBalance
    <2>5. \A k \in Keys : held[k] \in -1..1
      BY DEF IpcInv, Shapes
    <2>6. \A s \in served : s.key \in Keys
      BY DEF IpcInv, Shapes
    <2>7. \A s \in served : s.key = Key(c) => held[s.key] = 0
      BY <2>4, <2>5, <2>6
    <2>. QED
      BY <1>3, <1>14, <2>1, <2>7 DEF ReferencesBalance
  <1>21. ZeroMeansDone'
    <2>1. ASSUME NEW x \in Clients, x # c, Claims(client[x])
          PROVE  \E s \in served' : /\ s.key = Key(x)
                                    /\ s.did \/ s.status \in ToolOf(x).forgives
      <3>1. PICK s \in served : s.key = Key(x) /\ (s.did \/ s.status \in ToolOf(x).forgives)
        BY <2>1 DEF IpcInv, ZeroMeansDone, Claims, ToolOf
      <3>2. s \in served'
        BY <1>3, <1>16, <2>1, <3>1
      <3>. QED
        BY <3>1, <3>2
    <2>. SUFFICES ASSUME NEW x \in Clients, Claims(client'[x])
                  PROVE  (\E s \in served : /\ s.key = Key(x)
                                            /\ s.did \/ s.status \in ToolOf(x).forgives)'
      BY DEF ZeroMeansDone, Claims, ToolOf
    <2>2. x # c
      BY <1>7 DEF Claims
    <2>. QED
      BY <1>16, <2>1, <2>2
  <1>. QED
    BY <1>8, <1>9, <1>13, <1>15, <1>17, <1>18, <1>19, <1>20, <1>21 DEF IpcInv

\* A call times out.
LEMMA ReadTimeoutKeeps ==
    ASSUME IpcInv, NEW c \in Clients, Read_Timeout(c)
    PROVE  IpcInv'
  <1>1. ClientsOK /\ ClientOK(client[c])
    BY DEF IpcInv, ClientsOK
  <1>2. /\ replies' \subseteq replies
        /\ UNCHANGED <<daemon, known, inbox, tasks, held, served, faults>>
    BY DEF Read_Timeout
  <1>3. PICK code : /\ code # "OK"
                    /\ Alone(c) /\ ClientOK(client'[c])
                    /\ client'[c].pc \in {"idle", "done"} /\ client'[c].code \in {"-", code}
                    /\ client'[c].serial = client[c].serial
    <2>1. CASE client[c].pc = "lookup"
      <3>1. Exit(c, "TIMEOUT")
        BY <2>1 DEF Read_Timeout
      <3>. QED
        BY <1>1, <3>1, Exits
    <2>2. CASE client[c].pc # "lookup"
      <3>1. client[c].pc = "sent" /\ Finish(c, ToolOf(c).failed)
        BY <2>2 DEF Read_Timeout
      <3>2. ToolOf(c).failed # "OK"
        BY <1>1, ToolOfClient DEF ClientOK, ToolOf
      <3>. QED
        BY <1>1, <3>1, <3>2, Finishes
    <2>. QED
      BY <2>1, <2>2
  <1>4. ~Claims(client'[c])
    BY <1>3 DEF Claims
  <1>. QED
    BY <1>2, <1>3, <1>4, ToolMoves

-----------------------------------------------------------------------------
(* The steps of the daemon and of the bus.                                 *)

\* What remains when the first message is read.
LEMMA FirstIsRead ==
    ASSUME Shapes, inbox # <<>>, inbox' = Tail(inbox)
    PROVE  /\ Head(inbox) = inbox[1] /\ Head(inbox) \in Letters
           /\ Len(inbox) \in Nat /\ Len(inbox) >= 1 /\ Len(inbox') = Len(inbox) - 1
           /\ inbox' \in Seq(Letters)
           /\ \A i \in 1 .. Len(inbox') : i + 1 \in 1 .. Len(inbox) /\ inbox'[i] = inbox[i + 1]
  <1>1. inbox \in Seq(Letters)
    BY DEF Shapes
  <1>2. Len(inbox) \in Nat /\ Len(inbox) >= 1
    BY <1>1
  <1>3. Head(inbox) = inbox[1] /\ Head(inbox) \in Letters
    BY <1>1, <1>2
  <1>4. Len(inbox') = Len(inbox) - 1 /\ inbox' \in Seq(Letters)
    BY <1>1, <1>2
  <1>. QED
    BY <1>1, <1>2, <1>3, <1>4

\* The first message is in no other place.
LEMMA FirstIsAlone ==
    ASSUME IpcInv, inbox # <<>>, inbox' = Tail(inbox)
    PROVE  /\ Head(inbox).key \in Keys /\ Counted(Head(inbox).key)
           /\ Head(inbox).to \in BusNames /\ Head(inbox).msg \in Sent
           /\ \A i \in 1 .. Len(inbox') : inbox'[i].key # Head(inbox).key
           /\ \A t \in tasks : t.key # Head(inbox).key
           /\ \A s \in served : s.key # Head(inbox).key
           /\ \A c \in Clients : client[c].pc = "sent" /\ Head(inbox).key = Key(c) =>
                 Head(inbox).to = client[c].to /\ Head(inbox).msg = client[c].msg
  <1>1. /\ Head(inbox) = inbox[1] /\ Head(inbox) \in Letters
        /\ Len(inbox) \in Nat /\ Len(inbox) >= 1 /\ Len(inbox') = Len(inbox) - 1
        /\ \A i \in 1 .. Len(inbox') : i + 1 \in 1 .. Len(inbox) /\ inbox'[i] = inbox[i + 1]
    BY FirstIsRead DEF IpcInv
  <1>2. 1 \in 1 .. Len(inbox) /\ \A i \in 1 .. Len(inbox') : i + 1 # 1
    BY <1>1
  <1>3. Head(inbox).key \in Keys /\ Head(inbox).to \in BusNames /\ Head(inbox).msg \in Sent
    BY <1>1 DEF Letters
  <1>4. Counted(Head(inbox).key)
    BY <1>1, <1>2 DEF IpcInv, Fresh
  <1>5. /\ \A t \in tasks : t.key # inbox[1].key
        /\ \A s \in served : s.key # inbox[1].key
        /\ \A i \in 1 .. Len(inbox) : inbox[i].key = inbox[1].key => i = 1
    BY <1>2 DEF IpcInv, Once
  <1>6. \A i \in 1 .. Len(inbox') : inbox'[i].key # inbox[1].key
    BY <1>1, <1>2, <1>5
  <1>7. \A c \in Clients : client[c].pc = "sent" /\ inbox[1].key = Key(c) =>
            inbox[1].to = client[c].to /\ inbox[1].msg = client[c].msg
    BY <1>2 DEF IpcInv, Truth, Awaited
  <1>. QED
    BY <1>1, <1>3, <1>4, <1>5, <1>6, <1>7

\* No message on its way has been answered.
LEMMA FirstReplies ==
    ASSUME IpcInv, inbox # <<>>, inbox' = Tail(inbox)
    PROVE  /\ ~Settled(Head(inbox).key)
           /\ \A q \in replies : q.key # Head(inbox).key
           /\ \A q \in replies, i \in 1 .. Len(inbox') : inbox'[i].key # q.key
           /\ \A i \in 1 .. Len(inbox') : \E j \in 1 .. Len(inbox) : inbox'[i] = inbox[j]
           /\ \A c \in Clients : client[c].pc = "lookup" /\ Head(inbox).key = Key(c) =>
                 Head(inbox).msg.method = "GetInterfaces"
  <1>1. /\ Head(inbox) = inbox[1] /\ Len(inbox) \in Nat /\ Len(inbox) >= 1
        /\ \A i \in 1 .. Len(inbox') : i + 1 \in 1 .. Len(inbox) /\ inbox'[i] = inbox[i + 1]
    BY FirstIsRead DEF IpcInv
  <1>2. 1 \in 1 .. Len(inbox)
    BY <1>1
  <1>3. \A q \in replies, i \in 1 .. Len(inbox) : inbox[i].key # q.key
    BY DEF IpcInv, Once
  <1>4. ~Settled(Head(inbox).key)
    BY <1>1, <1>2 DEF Settled
  <1>5. \A c \in Clients : client[c].pc = "lookup" /\ inbox[1].key = Key(c) =>
            inbox[1].msg.method = "GetInterfaces"
    BY <1>2 DEF IpcInv, Lookups, Lookup, Asks
  <1>. QED
    BY <1>1, <1>2, <1>3, <1>4, <1>5

\* The rest of the messages keeps the invariant.
LEMMA RestKeeps ==
    ASSUME IpcInv, inbox # <<>>, inbox' = Tail(inbox), UNCHANGED client
    PROVE  /\ \A i \in 1 .. Len(inbox') : Counted(inbox'[i].key)
           /\ \A i, j \in 1 .. Len(inbox') : inbox'[i].key = inbox'[j].key => i = j
           /\ \A i \in 1 .. Len(inbox') :
                 /\ \A t \in tasks : t.key # inbox'[i].key
                 /\ \A s \in served : s.key # inbox'[i].key
           /\ \A c \in Clients : client[c].pc = "sent" =>
                 \A i \in 1 .. Len(inbox') : inbox'[i].key = Key(c) =>
                    inbox'[i].to = client[c].to /\ inbox'[i].msg = client[c].msg
  <1>1. /\ Len(inbox) \in Nat /\ Len(inbox') \in Nat
        /\ \A i \in 1 .. Len(inbox') : i + 1 \in 1 .. Len(inbox) /\ inbox'[i] = inbox[i + 1]
    BY FirstIsRead DEF IpcInv
  <1>2. Fresh /\ Once /\ Truth
    BY DEF IpcInv
  <1>3. \A i \in 1 .. Len(inbox') : Counted(inbox'[i].key)
    BY <1>1, <1>2 DEF Fresh, Counted
  <1>4. \A i, j \in 1 .. Len(inbox') : inbox'[i].key = inbox'[j].key => i = j
    <2>1. \A i, j \in 1 .. Len(inbox') : inbox'[i].key = inbox'[j].key => i + 1 = j + 1
      BY <1>1, <1>2 DEF Once
    <2>. QED
      BY <1>1, <2>1
  <1>5. \A i \in 1 .. Len(inbox') :
            /\ \A t \in tasks : t.key # inbox'[i].key
            /\ \A s \in served : s.key # inbox'[i].key
    BY <1>1, <1>2 DEF Once
  <1>6. \A c \in Clients : client[c].pc = "sent" =>
            \A i \in 1 .. Len(inbox') : inbox'[i].key = Key(c) =>
                inbox'[i].to = client[c].to /\ inbox'[i].msg = client[c].msg
    BY <1>1, <1>2 DEF Truth, Awaited
  <1>. QED
    BY <1>3, <1>4, <1>5, <1>6

\* What the daemon and the bus do with a message leaves the lookups alone that
\* were answered before, and those that it is not about.
LEMMA LookupsKept ==
    ASSUME Lookups, UNCHANGED client,
           \A i \in 1 .. Len(inbox') : \E j \in 1 .. Len(inbox) : inbox'[i] = inbox[j],
           \A t \in tasks' \ tasks : ~Settled(t.key),
           \A r \in replies' \ replies : ~Settled(r.key),
           \A s \in served' \ served : ~Settled(s.key),
           \A c \in Clients : client[c].pc = "lookup" =>
              /\ \A t \in tasks' \ tasks : t.key # Key(c)
              /\ \A s \in served' \ served : s.key # Key(c)
    PROVE  Lookups'
  <1>1. ASSUME NEW k, Settled(k) PROVE Settled(k)'
    <2>1. \A i \in 1 .. Len(inbox') : inbox'[i].key # k
      BY <1>1 DEF Settled
    <2>2. /\ \A t \in tasks' : t.key # k
          /\ \A r \in replies' : r.key # k
          /\ \A s \in served' : s.key # k
      <3>1. /\ \A t \in tasks : t.key # k
            /\ \A r \in replies : r.key # k
            /\ \A s \in served : s.key # k
        BY <1>1 DEF Settled
      <3>. QED
        BY <1>1, <3>1
    <2>. QED
      BY <2>1, <2>2 DEF Settled
  <1>2. ASSUME NEW c \in Clients PROVE Lookup(c)'
    <2>1. Lookup(c) /\ Key(c)' = Key(c) /\ ToolOf(c)' = ToolOf(c)
      BY DEF Lookups, Key, ToolOf
    <2>2. client[c].pc = "lookup" => Asks(c)'
      <3>1. SUFFICES ASSUME client[c].pc = "lookup" PROVE Asks(c)'
        OBVIOUS
      <3>2. Asks(c)
        BY <2>1, <3>1 DEF Lookup
      <3>3. \A i \in 1 .. Len(inbox') : inbox'[i].key = Key(c) =>
                inbox'[i].msg.method = "GetInterfaces"
        BY <3>2 DEF Asks
      <3>4. /\ \A t \in tasks' : t.key # Key(c)
            /\ \A s \in served' : s.key # Key(c)
        BY <3>1, <3>2 DEF Asks
      <3>. QED
        BY <2>1, <3>3, <3>4 DEF Asks
    <2>. QED
      BY <1>1, <2>1, <2>2 DEF Lookup
  <1>. QED
    BY <1>2 DEF Lookups

\* A message that is answered on the spot, without a trace in the daemon.
LEMMA AnswerKeeps ==
    ASSUME IpcInv, inbox # <<>>, inbox' = Tail(inbox), NEW r,
           replies' = replies \cup {r},
           r.key = Head(inbox).key, r.status # "OK",
           \A n \in DOMAIN r.names : r.names[n] \in BusNames,
           r.how # "error" => \/ Head(inbox).to = Peer
                              \/ Head(inbox).msg.method = "GetInterfaces",
           UNCHANGED <<client, daemon, known, tasks, held, served, faults>>
    PROVE  IpcInv'
  <1>1. ClientsOK' /\ ToolsAreUnderstood' /\ ReferencesBalance' /\ ZeroMeansDone'
    BY DEF IpcInv, ClientsOK, ToolsAreUnderstood, ReferencesBalance, ZeroMeansDone, Key, ToolOf
  <1>2. Shapes'
    <2>1. inbox' \in Seq(Letters)
      BY FirstIsRead DEF IpcInv
    <2>2. r.key \in Keys
      BY FirstIsAlone
    <2>. QED
      BY <2>1, <2>2 DEF IpcInv, Shapes
  <1>3. Fresh'
    <2>1. \A k : Counted(k)' <=> Counted(k)
      BY DEF Counted
    <2>2. Counted(r.key)
      BY FirstIsAlone
    <2>3. \A i \in 1 .. Len(inbox') : Counted(inbox'[i].key)
      BY RestKeeps
    <2>. QED
      BY <2>1, <2>2, <2>3 DEF IpcInv, Fresh, Counted
  <1>4. Once'
    <2>1. Once /\ \A i \in 1 .. Len(inbox') : inbox'[i].key # r.key
      BY FirstIsAlone DEF IpcInv
    <2>2. /\ \A t \in tasks : t.key # r.key
          /\ \A q \in replies : q.key # r.key
          /\ \A q \in replies, i \in 1 .. Len(inbox') : inbox'[i].key # q.key
      BY <2>1, FirstIsAlone, FirstReplies
    <2>. QED
      BY <2>1, <2>2, RestKeeps DEF Once
  <1>5. Truth'
    <2>. SUFFICES ASSUME NEW c \in Clients PROVE Awaited(c)'
      BY DEF Truth
    <2>1. Awaited(c)
      BY DEF IpcInv, Truth
    <2>2. \A k, q : Answered(k, q)' <=> Answered(k, q)
      BY DEF Answered
    <2>3. Key(c)' = Key(c)
      BY DEF Key
    <2>4. client[c].pc = "sent" =>
            \A i \in 1 .. Len(inbox') : inbox'[i].key = Key(c) =>
                inbox'[i].to = client[c].to /\ inbox'[i].msg = client[c].msg
      BY RestKeeps
    <2>5. client[c].pc = "sent" /\ r.key = Key(c) /\ r.how # "error" =>
            client[c].to = Peer \/ client[c].msg.method = "GetInterfaces"
      BY FirstIsAlone
    <2>. QED
      BY <2>1, <2>2, <2>3, <2>4, <2>5 DEF Awaited
  <1>6. Lookups'
    BY FirstReplies, LookupsKept DEF IpcInv
  <1>. QED
    BY <1>1, <1>2, <1>3, <1>4, <1>5, <1>6 DEF IpcInv

\* The interface list, and what the bus or another daemon answers.
LEMMA AnswersKeep ==
    ASSUME IpcInv,
           \/ Dispatch /\ Head(inbox).msg.method = "GetInterfaces"
           \/ Bus_Answers
    PROVE  IpcInv'
  <1>1. ASSUME Dispatch, Head(inbox).msg.method = "GetInterfaces" PROVE IpcInv'
    <2>. DEFINE names == [n \in {Own} \cup DOMAIN known |-> IF n = Own THEN Bus ELSE known[n]]
                r == [Reply(Head(inbox).key, "names", "Ok") EXCEPT !.names = names]
    <2>1. GetInterfaces_Handler
      BY <1>1 DEF Dispatch
    <2>2. replies' = replies \cup {r} /\ UNCHANGED <<tasks, held, served>>
      BY <2>1 DEF GetInterfaces_Handler
    <2>3. r.key = Head(inbox).key /\ r.status = "Ok" /\ r.names = names
      BY DEF Reply
    <2>4. Bus \in BusNames
      BY DEF IpcInv, Shapes, Daemons, Bus, BusNames
    <2>5. \A n \in DOMAIN names : names[n] \in BusNames
      BY <2>4 DEF IpcInv, Shapes, BusNames
    <2>. HIDE DEF names, r
    <2>. QED
      BY <1>1, <2>2, <2>3, <2>5, AnswerKeeps DEF Dispatch
  <1>2. ASSUME Bus_Answers PROVE IpcInv'
    <2>. DEFINE how == IF Head(inbox).to = Peer THEN "status" ELSE "error"
                r == Reply(Head(inbox).key, how, "Ok")
    <2>1. replies' = replies \cup {r}
      BY <1>2 DEF Bus_Answers
    <2>2. /\ r.key = Head(inbox).key /\ r.status = "Ok" /\ r.how = how
          /\ DOMAIN r.names = {}
      BY DEF Reply, NoNames
    <2>3. r.how # "error" => Head(inbox).to = Peer
      BY <2>2
    <2>. HIDE DEF how, r
    <2>. QED
      BY <1>2, <2>1, <2>2, <2>3, AnswerKeeps DEF Bus_Answers
  <1>. QED
    BY <1>1, <1>2

\* The references that are left on a message once its handler has returned.
LEMMA HeldAfter ==
    ASSUME IpcInv, NEW k \in Keys, NEW m, NEW o \in message_handler(daemon, m),
           Method_Handler(k, m, o)
    PROVE  /\ held' \in [Keys -> -1..1]
           /\ \A x \in Keys \ {k} : held'[x] = held[x]
           /\ o.how = "task" => held'[k] = 1
           /\ o.how # "task" => /\ held'[k] = 1 => m.key = "InterfaceUp"
                                /\ held'[k] = -1 => \/ m.method = "ResetNCP"
                                                   \/ m.key = "MeshLocalPrefix"
  <1>. DEFINE h == CASE o.how = "refused" -> 0
                     [] o.how = "now" -> IF o.early THEN -1 ELSE 1 - o.calls
                     [] OTHER -> 1
  <1>1. held' = [held EXCEPT ![k] = h]
    BY DEF Method_Handler
  <1>2. held \in [Keys -> -1..1]
    BY DEF IpcInv, Shapes
  <1>3. /\ o.how \in {"now", "task", "refused", "never"}
        /\ o.how = "never" => m.key = "InterfaceUp"
        /\ o.how = "now" => \/ o.early /\ m.method = "ResetNCP"
                            \/ ~o.early /\ o.calls = 1
                            \/ ~o.early /\ o.calls = 2 /\ m.key = "MeshLocalPrefix"
    BY OutcomeFacts
  <1>4. /\ h \in -1..1
        /\ o.how = "task" => h = 1
        /\ o.how # "task" => /\ h = 1 => m.key = "InterfaceUp"
                             /\ h = -1 => m.method = "ResetNCP" \/ m.key = "MeshLocalPrefix"
    BY <1>3
  <1>. HIDE DEF h
  <1>. QED
    BY <1>1, <1>2, <1>4

\* A method call, whatever its handler does with it.
LEMMA MethodKeeps ==
    ASSUME IpcInv, Dispatch, Head(inbox).msg.method # "GetInterfaces"
    PROVE  IpcInv'
  <1>. DEFINE k == Head(inbox).key
              m == Head(inbox).msg
  <1>1. /\ inbox # <<>> /\ inbox' = Tail(inbox)
        /\ UNCHANGED <<client, daemon, known, faults>>
    BY DEF Dispatch
  <1>2. PICK o \in message_handler(daemon, m) : Method_Handler(k, m, o)
    BY DEF Dispatch
  <1>3. /\ k \in Keys /\ Counted(k) /\ m \in Sent
        /\ \A i \in 1 .. Len(inbox') : inbox'[i].key # k
        /\ \A t \in tasks : t.key # k
        /\ \A s \in served : s.key # k
        /\ \A c \in Clients : client[c].pc = "sent" /\ k = Key(c) =>
              Head(inbox).to = client[c].to /\ m = client[c].msg
    BY <1>1, FirstIsAlone
  <1>4. /\ held' \in [Keys -> -1..1]
        /\ \A x \in Keys \ {k} : held'[x] = held[x]
        /\ o.how = "task" => held'[k] = 1
        /\ o.how # "task" => /\ held'[k] = 1 => m.key = "InterfaceUp"
                             /\ held'[k] = -1 => \/ m.method = "ResetNCP"
                                                \/ m.key = "MeshLocalPrefix"
    BY <1>2, <1>3, HeldAfter
  <1>5. /\ o.how = "refused" <=> o.status = "refused"
        /\ o.status # "OK"
        /\ o.how = "now" /\ o.status = "Ok" /\ m.method # "ResetNCP" => o.did
    BY OutcomeFacts
  <1>6. Understood(m) /\ m # GetInterfaces /\ m.method # "GetInterfaces"
    BY <1>3, SentIsUnderstood
  <1>7. o.status = "refused" =>
            \/ m.method \in {"PermitJoin", "BeginNetWake"}
            \/ m.method = "ConfigGateway"
               /\ (\/ m.sig = <<"b">>
                   \/ Len(m.sig) >= 12 /\ m.bits \notin 1..64)
    <2>1. m.method \in Handled /\ Parsed(m) => o.status # "refused"
      BY AcceptedIsNotRefused
    <2>. QED
      BY <1>6, <2>1 DEF Understood
  <1>. DEFINE new == [key |-> k, msg |-> m, status |-> o.status, did |-> o.did]
              task == [key |-> k, msg |-> m]
  <1>8. \/ o.how = "task" /\ tasks' = tasks \cup {task} /\ served' = served
        \/ o.how # "task" /\ tasks' = tasks /\ served' = served \cup {new}
    BY <1>2 DEF Method_Handler, Served
  <1>9. \A r \in replies' : \/ r \in replies
                            \/ /\ r.key = k /\ r.status # "OK" /\ DOMAIN r.names = {}
                               /\ r.how # "error" =>
                                     o.how = "now" /\ r.status = o.status
    <2>1. \A how, s : /\ Reply(k, how, s).key = k /\ Reply(k, how, s).how = how
                      /\ Reply(k, how, s).status = s /\ DOMAIN Reply(k, how, s).names = {}
      BY DEF Reply, NoNames
    <2>2. replies' \subseteq replies \cup
            (CASE o.how = "now" -> {Reply(k, "status", o.status)}
               [] o.how = "refused" -> {Reply(k, "error", "-")}
               [] OTHER -> {})
      BY <1>2 DEF Method_Handler
    <2>. QED
      BY <1>5, <2>1, <2>2
  <1>18. \A r, q \in replies' \ replies : r = q
    BY <1>2 DEF Method_Handler
  <1>19. /\ ~Settled(k)
         /\ \A q \in replies : q.key # k
         /\ \A q \in replies, i \in 1 .. Len(inbox') : inbox'[i].key # q.key
         /\ \A i \in 1 .. Len(inbox') : \E j \in 1 .. Len(inbox) : inbox'[i] = inbox[j]
         /\ \A c \in Clients : client[c].pc = "lookup" => k # Key(c)
    BY <1>1, FirstReplies
  <1>20. replies \subseteq replies' /\ (replies' = replies \/ o.how # "task")
    BY <1>2 DEF Method_Handler
  <1>10. /\ new.key = k /\ new.msg = m /\ new.status = o.status
         /\ o.did => new.did
         /\ task.key = k /\ task.msg = m
    OBVIOUS
  <1>. HIDE DEF new, task, k, m
  <1>11. ClientsOK' /\ ZeroMeansDone'
    <2>1. served \subseteq served'
      BY <1>8
    <2>. QED
      BY <1>1, <2>1 DEF IpcInv, ClientsOK, ZeroMeansDone, Key, ToolOf
  <1>12. Shapes'
    <2>1. inbox' \in Seq(Letters)
      BY <1>1, FirstIsRead DEF IpcInv
    <2>. QED
      BY <1>1, <1>3, <1>4, <1>6, <1>8, <1>9, <1>10, <2>1 DEF IpcInv, Shapes
  <1>13. Fresh'
    <2>1. \A x : Counted(x)' <=> Counted(x)
      BY <1>1 DEF Counted
    <2>2. \A i \in 1 .. Len(inbox') : Counted(inbox'[i].key)
      BY <1>1, RestKeeps
    <2>3. \A i \in 1 .. Len(inbox') : Counted(inbox[i].key)'
      BY <1>1, <2>2 DEF Counted
    <2>4. Fresh
      BY DEF IpcInv
    <2>5. /\ \A t \in tasks' : Counted(t.key)
          /\ \A r \in replies' : Counted(r.key)
          /\ \A s \in served' : Counted(s.key)
      BY <1>3, <1>8, <1>9, <1>10, <2>4 DEF Fresh
    <2>. QED
      BY <2>1, <2>3, <2>5 DEF Fresh
  <1>14. Once'
    <2>1. Once
      BY DEF IpcInv
    <2>2. /\ \A i, j \in 1 .. Len(inbox') : inbox'[i].key = inbox'[j].key => i = j
          /\ \A i \in 1 .. Len(inbox') :
                 /\ \A t \in tasks : t.key # inbox'[i].key
                 /\ \A s \in served : s.key # inbox'[i].key
      BY <1>1, RestKeeps
    <2>3. /\ \A i \in 1 .. Len(inbox') : \A t \in tasks' : t.key # inbox'[i].key
          /\ \A i \in 1 .. Len(inbox') : \A s \in served' : s.key # inbox'[i].key
          /\ \A t \in tasks' : /\ \A u \in tasks' : t.key = u.key => t = u
                               /\ \A s \in served' : s.key # t.key
      BY ONLY <1>3, <1>8, <1>10, <2>1, <2>2 DEF Once
    <2>4. ASSUME NEW r \in replies'
          PROVE  /\ \A i \in 1 .. Len(inbox') : inbox'[i].key # r.key
                 /\ \A t \in tasks' : t.key # r.key
                 /\ \A q \in replies' : q.key = r.key => q = r
      <3>1. CASE r \in replies
        BY ONLY <1>8, <1>9, <1>10, <1>19, <2>1, <2>4, <3>1 DEF Once
      <3>2. CASE r \notin replies
        <4>1. r.key = k /\ tasks' = tasks
          BY ONLY <1>8, <1>9, <1>20, <2>4, <3>2
        <4>. QED
          BY ONLY <1>3, <1>18, <1>19, <2>4, <3>2, <4>1
      <3>. QED
        BY <3>1, <3>2
    <2>. QED
      BY ONLY <2>2, <2>3, <2>4 DEF Once
  <1>15. Truth'
    <2>. SUFFICES ASSUME NEW c \in Clients, client[c].pc = "sent" PROVE Awaited(c)'
      BY <1>1 DEF Truth, Awaited
    <2>1. Awaited(c) /\ Key(c)' = Key(c)
      BY <1>1 DEF IpcInv, Truth, Key
    <2>2. \A x, q : Answered(x, q) => Answered(x, q)'
      BY <1>8 DEF Answered
    <2>3. \A i \in 1 .. Len(inbox') : inbox'[i].key = Key(c) =>
              inbox'[i].to = client[c].to /\ inbox'[i].msg = client[c].msg
      BY <1>1, RestKeeps
    <2>4. \A t \in tasks' : t.key = Key(c) => t.msg = client[c].msg
      BY <1>3, <1>8, <1>10, <2>1 DEF Awaited
    <2>5. ASSUME NEW r \in replies', r.key = Key(c), r.how # "error"
          PROVE  \/ client[c].to = Peer
                 \/ client[c].msg.method \in {"ResetNCP", "GetInterfaces"}
                 \/ Answered(Key(c), r)'
      <3>1. CASE r \in replies
        BY <2>1, <2>2, <2>5, <3>1 DEF Awaited
      <3>2. CASE r \notin replies
        <4>1. r.key = k /\ o.how = "now" /\ r.status = o.status
          BY <1>9, <2>5, <3>2
        <4>2. new \in served' /\ m = client[c].msg
          BY <1>3, <1>8, <2>5, <4>1
        <4>3. CASE m.method # "ResetNCP"
          <5>1. r.status = "Ok" => new.did
            BY <1>5, <1>10, <4>1, <4>3
          <5>. QED
            BY <1>10, <2>1, <2>5, <4>1, <4>2, <5>1 DEF Answered
        <4>. QED
          BY <4>2, <4>3
      <3>. QED
        BY <3>1, <3>2
    <2>6. \A s \in served' : s.key = Key(c) => s.msg = client[c].msg
      BY <1>3, <1>8, <1>10, <2>1 DEF Awaited
    <2>. QED
      BY <1>1, <2>1, <2>3, <2>4, <2>5, <2>6 DEF Awaited
  <1>16. ToolsAreUnderstood'
    BY <1>6, <1>7, <1>8, <1>10 DEF IpcInv, ToolsAreUnderstood, Understood
  <1>17. ReferencesBalance'
    <2>1. ReferencesBalance
      BY DEF IpcInv
    <2>2. /\ \A t \in tasks : t.key \in Keys \ {k}
          /\ \A s \in served : s.key \in Keys \ {k}
      BY <1>3 DEF IpcInv, Shapes
    <2>. QED
      BY ONLY <1>4, <1>8, <1>10, <2>1, <2>2 DEF ReferencesBalance
  <1>21. Lookups'
    <2>1. /\ \A t \in tasks' \ tasks : t.key = k
          /\ \A r \in replies' \ replies : r.key = k
          /\ \A s \in served' \ served : s.key = k
      BY <1>8, <1>9, <1>10
    <2>2. Lookups
      BY DEF IpcInv
    <2>. QED
      BY <1>1, <1>19, <2>1, <2>2, LookupsKept
  <1>. QED
    BY <1>11, <1>12, <1>13, <1>14, <1>15, <1>16, <1>17, <1>21 DEF IpcInv

\* A task that ends leaves its call answered, in no other place.
LEMMA OnceAfter ==
    ASSUME Once, NEW task \in tasks, NEW ans, NEW did,
           inbox' = inbox, tasks' = tasks \ {task},
           replies' = replies \cup {ans}, served' = served \cup {did},
           ans.key = task.key, did.key = task.key
    PROVE  Once'
  <1>1. /\ \A u \in tasks : u.key = task.key => u = task
        /\ \A i \in 1 .. Len(inbox) : inbox[i].key # task.key
        /\ \A x \in served : x.key # task.key
        /\ \A r \in replies : r.key # task.key
    BY DEF Once
  <1>2. \A i \in 1 .. Len(inbox) : /\ \A u \in tasks' : u.key # inbox[i].key
                                   /\ \A x \in served' : x.key # inbox[i].key
    BY <1>1 DEF Once
  <1>3. \A u \in tasks' : /\ \A w \in tasks' : u.key = w.key => u = w
                          /\ \A x \in served' : x.key # u.key
    BY <1>1 DEF Once
  <1>4. \A r \in replies' : /\ \A i \in 1 .. Len(inbox) : inbox[i].key # r.key
                            /\ \A u \in tasks' : u.key # r.key
                            /\ \A q \in replies' : q.key = r.key => q = r
    BY <1>1 DEF Once
  <1>. QED
    BY <1>2, <1>3, <1>4 DEF Once

\* A task ends and runs its callback.
LEMMA TaskEndsKeeps ==
    ASSUME IpcInv, NEW t \in tasks, Task_Ends(t)
    PROVE  IpcInv'
  <1>1. /\ UNCHANGED <<client, daemon, known, inbox, faults>>
        /\ tasks' = tasks \ {t}
        /\ held' = [held EXCEPT ![t.key] = held[t.key] - 1]
    BY DEF Task_Ends, IpcInv, Shapes
  <1>2. PICK s \in {"Ok", "Timeout", "InProgress"} :
          LET told == IF t.msg.method = "ResetNCP" THEN "Ok" ELSE s
          IN  /\ replies' = replies \cup {Reply(t.key, "status", told)}
              /\ Served(t.key, t.msg, told, s = "Ok")
    BY DEF Task_Ends
  <1>. DEFINE told == IF t.msg.method = "ResetNCP" THEN "Ok" ELSE s
              new == [key |-> t.key, msg |-> t.msg, status |-> told, did |-> s = "Ok"]
              ans == Reply(t.key, "status", told)
  <1>3. replies' = replies \cup {ans} /\ served' = served \cup {new}
    BY <1>2 DEF Served
  <1>4. /\ new.key = t.key /\ new.msg = t.msg /\ new.status = told
        /\ told = "Ok" /\ t.msg.method # "ResetNCP" => new.did
    OBVIOUS
  <1>5. ans.key = t.key /\ ans.status = told /\ DOMAIN ans.names = {}
    BY DEF Reply, NoNames
  <1>6. told \in {"Ok", "Timeout", "InProgress"}
    OBVIOUS
  <1>7. /\ t.key \in Keys /\ t.msg \in Sent /\ Counted(t.key) /\ held[t.key] = 1
        /\ held \in [Keys -> -1..1]
    BY DEF IpcInv, Shapes, Fresh, ReferencesBalance
  <1>8. /\ \A u \in tasks : u.key = t.key => u = t
        /\ \A i \in 1 .. Len(inbox) : inbox[i].key # t.key
        /\ \A x \in served : x.key # t.key
    BY DEF IpcInv, Once
  <1>9. /\ held' \in [Keys -> -1..1] /\ held'[t.key] = 0
        /\ \A x \in Keys \ {t.key} : held'[x] = held[x]
    BY <1>1, <1>7
  <1>. HIDE DEF new, ans, told
  <1>10. ClientsOK' /\ ZeroMeansDone'
    <2>1. served \subseteq served'
      BY <1>3
    <2>. QED
      BY <1>1, <2>1 DEF IpcInv, ClientsOK, ZeroMeansDone, Key, ToolOf
  <1>11. Shapes'
    BY <1>1, <1>3, <1>4, <1>5, <1>6, <1>7, <1>9 DEF IpcInv, Shapes
  <1>12. Fresh'
    <2>1. \A x : Counted(x)' <=> Counted(x)
      BY <1>1 DEF Counted
    <2>2. \A i \in 1 .. Len(inbox') : Counted(inbox[i].key)'
      BY <1>1 DEF IpcInv, Fresh, Counted
    <2>. QED
      BY <1>1, <1>3, <1>4, <1>5, <1>7, <2>1, <2>2 DEF IpcInv, Fresh
  <1>13. Once'
    <2>1. Once /\ inbox' = inbox
      BY <1>1 DEF IpcInv
    <2>. QED
      BY ONLY <1>1, <1>3, <1>4, <1>5, <2>1, OnceAfter
  <1>14. Truth'
    <2>. SUFFICES ASSUME NEW c \in Clients, client[c].pc = "sent" PROVE Awaited(c)'
      BY <1>1 DEF Truth, Awaited
    <2>1. Awaited(c) /\ Key(c)' = Key(c)
      BY <1>1 DEF IpcInv, Truth, Key
    <2>2. \A x, q : Answered(x, q) => Answered(x, q)'
      BY <1>3 DEF Answered
    <2>3. ASSUME NEW r \in replies', r.key = Key(c), r.how # "error"
          PROVE  \/ client[c].to = Peer
                 \/ client[c].msg.method \in {"ResetNCP", "GetInterfaces"}
                 \/ Answered(Key(c), r)'
      <3>1. CASE r \in replies
        BY <2>1, <2>2, <2>3, <3>1 DEF Awaited
      <3>2. CASE r = ans
        <4>1. t.msg = client[c].msg /\ new \in served'
          BY <1>3, <1>5, <2>1, <2>3, <3>2 DEF Awaited
        <4>2. CASE t.msg.method # "ResetNCP"
          BY <1>4, <1>5, <2>1, <2>3, <3>2, <4>1, <4>2 DEF Answered
        <4>. QED
          BY <4>1, <4>2
      <3>. QED
        BY <1>3, <3>1, <3>2
    <2>4. \A x \in served' : x.key = Key(c) => x.msg = client[c].msg
      BY <1>3, <1>4, <2>1 DEF Awaited
    <2>. QED
      BY <1>1, <2>1, <2>3, <2>4 DEF Awaited
  <1>15. ToolsAreUnderstood'
    BY <1>3, <1>4, <1>6, <1>7, SentIsUnderstood DEF IpcInv, ToolsAreUnderstood, Understood
  <1>16. ReferencesBalance'
    <2>1. ReferencesBalance
      BY DEF IpcInv
    <2>2. /\ \A u \in tasks' : u \in tasks /\ u.key \in Keys \ {t.key}
          /\ \A x \in served : x.key \in Keys \ {t.key}
          /\ \A u \in tasks : u.key = t.key \/ u \in tasks'
      BY <1>1, <1>8 DEF IpcInv, Shapes
    <2>. QED
      BY ONLY <1>3, <1>4, <1>9, <2>1, <2>2 DEF ReferencesBalance
  <1>17. Lookups'
    <2>1. Lookups /\ ~Settled(t.key)
      BY DEF IpcInv, Settled
    <2>2. \A c \in Clients : client[c].pc = "lookup" => t.key # Key(c)
      BY <2>1 DEF Lookups, Lookup, Asks
    <2>. QED
      BY <1>1, <1>3, <1>4, <1>5, <2>1, <2>2, LookupsKept
  <1>. QED
    BY <1>10, <1>11, <1>12, <1>13, <1>14, <1>15, <1>16, <1>17 DEF IpcInv

\* Other daemons come and go, and this one loses its NCP or starts again.
LEMMA DaemonKeeps ==
    ASSUME IpcInv, UNCHANGED <<client, inbox, tasks, replies, held, served>>,
           daemon' \in Daemons, \A n \in DOMAIN known' : known'[n] = Peer
    PROVE  IpcInv'
  <1>1. ClientsOK' /\ ZeroMeansDone' /\ ToolsAreUnderstood' /\ ReferencesBalance'
    BY DEF IpcInv, ClientsOK, ZeroMeansDone, ToolsAreUnderstood, ReferencesBalance, Key, ToolOf
  <1>2. Shapes' /\ Once'
    BY DEF IpcInv, Shapes, Once
  <1>3. Fresh'
    BY DEF IpcInv, Fresh, Counted
  <1>4. Truth'
    BY DEF IpcInv, Truth, Awaited, Answered, Key
  <1>5. Lookups'
    BY LookupsKept DEF IpcInv
  <1>. QED
    BY <1>1, <1>2, <1>3, <1>4, <1>5 DEF IpcInv

\* The other daemon on the bus, a lost NCP and a restart leave the calls alone.
LEMMA RestsKeep ==
    ASSUME IpcInv,
           \/ \E n \in Names : InterfaceAdded(n) \/ InterfaceRemoved(n)
           \/ Detach \/ Restart
    PROVE  IpcInv'
  <1>1. daemon \in Daemons /\ \A n \in DOMAIN known : known[n] = Peer
    BY DEF IpcInv, Shapes
  <1>2. ASSUME NEW n \in Names, InterfaceAdded(n) PROVE IpcInv'
    BY <1>1, <1>2, DaemonKeeps DEF InterfaceAdded
  <1>3. ASSUME NEW n \in Names, InterfaceRemoved(n) PROVE IpcInv'
    BY <1>1, <1>3, DaemonKeeps DEF InterfaceRemoved
  <1>4. ASSUME Detach PROVE IpcInv'
    <2>1. daemon' \in Daemons
      BY <1>1, <1>4 DEF Detach, Daemons
    <2>. QED
      BY <1>1, <1>4, <2>1, DaemonKeeps DEF Detach
  <1>5. ASSUME Restart PROVE IpcInv'
    <2>1. daemon.epoch + 1 \in Nat
      BY <1>1 DEF Daemons
    <2>2. daemon' = [daemon EXCEPT !.up = TRUE, !.detached = FALSE,
                                   !.epoch = daemon.epoch + 1]
      BY <1>1, <1>5 DEF Restart, Daemons
    <2>3. daemon' \in Daemons
      BY <1>1, <2>1, <2>2 DEF Daemons
    <2>. QED
      BY <1>1, <1>5, <2>3, DaemonKeeps DEF Restart
  <1>. QED
    BY <1>2, <1>3, <1>4, <1>5

\* After a crash the bus answers the calls of the tasks.
LEMMA CrashKeeps ==
    ASSUME IpcInv, Crash
    PROVE  IpcInv'
  <1>1. /\ UNCHANGED <<client, inbox, served>> /\ tasks' = {}
        /\ held' = [k \in Keys |-> 0] /\ DOMAIN known' = {}
    BY DEF Crash, NoNames
  <1>2. daemon' \in Daemons
    BY DEF Crash, IpcInv, Shapes, Daemons
  <1>3. \A r \in replies' : \/ r \in replies
                            \/ /\ r.how = "error" /\ r.status = "-" /\ DOMAIN r.names = {}
                               /\ \E t \in tasks : r.key = t.key
    BY DEF Crash, Reply, NoNames
  <1>4. ClientsOK' /\ ZeroMeansDone' /\ ToolsAreUnderstood'
    BY <1>1 DEF IpcInv, ClientsOK, ZeroMeansDone, ToolsAreUnderstood, Key, ToolOf
  <1>5. Shapes'
    BY <1>1, <1>2, <1>3 DEF IpcInv, Shapes
  <1>6. Fresh'
    BY <1>1, <1>3 DEF IpcInv, Fresh, Counted
  <1>7. Once'
    <2>1. Once
      BY DEF IpcInv
    <2>2. \A r \in replies', q \in replies' : q.key = r.key => q = r
      <3>1. \A r \in replies' : \/ r \in replies
                                \/ \E t \in tasks : r = Reply(t.key, "error", "-")
        BY DEF Crash
      <3>2. \A t : Reply(t.key, "error", "-").key = t.key
        BY DEF Reply
      <3>. QED
        BY ONLY <2>1, <3>1, <3>2 DEF Once
    <2>3. \A r \in replies', i \in 1 .. Len(inbox) : inbox[i].key # r.key
      BY ONLY <1>3, <2>1 DEF Once
    <2>. QED
      BY ONLY <1>1, <2>1, <2>2, <2>3 DEF Once
  <1>10. Lookups'
    <2>1. Lookups
      BY DEF IpcInv
    <2>2. \A r \in replies' \ replies : ~Settled(r.key)
      BY <1>3 DEF Settled
    <2>. QED
      BY <1>1, <2>1, <2>2, LookupsKept
  <1>8. Truth'
    BY <1>1, <1>3 DEF IpcInv, Truth, Awaited, Answered, Key
  <1>9. ReferencesBalance'
    BY <1>1 DEF ReferencesBalance, IpcInv, Shapes
  <1>. QED
    BY <1>4, <1>5, <1>6, <1>7, <1>8, <1>9, <1>10 DEF IpcInv

-----------------------------------------------------------------------------
(* The theorems.                                                           *)

\* Every step keeps the invariant.
LEMMA IpcStepKeeps == IpcInv /\ [IpcNext]_ipcVars => IpcInv'
  <1>. SUFFICES ASSUME IpcInv, [IpcNext]_ipcVars PROVE IpcInv'
    OBVIOUS
  <1>1. ASSUME NEW c \in Clients, ToolStep(c) PROVE IpcInv'
    BY <1>1, InvokeEndsKeeps, InvokesKeep, LookupKeeps, ReadReplyKeeps,
       MoreDevicesKeep, ReadTimeoutKeeps DEF ToolStep
  <1>2. ASSUME Dispatch PROVE IpcInv'
    BY <1>2, AnswersKeep, MethodKeeps
  <1>3. ASSUME NEW t \in tasks, Task_Ends(t) PROVE IpcInv'
    BY <1>3, TaskEndsKeeps
  <1>4. CASE UNCHANGED ipcVars
    <2>1. daemon' \in Daemons /\ \A n \in DOMAIN known' : known'[n] = Peer
      BY <1>4 DEF IpcInv, Shapes, ipcVars
    <2>. QED
      BY <1>4, <2>1, DaemonKeeps DEF ipcVars
  <1>. QED
    BY <1>1, <1>2, <1>3, <1>4, RestsKeep, AnswersKeep, CrashKeeps DEF IpcNext

\* The invariant holds throughout.
LEMMA IpcInvariant == IpcSpec => []IpcInv
  BY IpcStarts, IpcStepKeeps, PTL DEF IpcSpec

\* Tools and daemon speak the same language and keep count of what they hold:
\* every message that a tool can send is understood, with the exceptions the
\* property names, and no message is released more often than it was taken
\* (DBusIPCAPI.cpp, tool-cmd-*.c).
THEOREM ToolsAndDaemonAgree == IpcSpec => []IpcConsistent
  <1>1. IpcInv => IpcConsistent
    BY DEF IpcInv, IpcConsistent, IpcTypeOK, ClientsOK, ClientOK, Shapes
  <1>. QED
    BY <1>1, IpcInvariant, PTL

\* A tool that exits with 0 tells the truth, whatever crashes, restarts and
\* late answers came between (wfanctl, DBusIPCAPI::CallbackWithStatus_Helper).
THEOREM ZeroIsTrue == IpcSpec => []ZeroMeansDone
  <1>1. IpcInv => ZeroMeansDone
    BY DEF IpcInv
  <1>. QED
    BY <1>1, IpcInvariant, PTL

=============================================================================
