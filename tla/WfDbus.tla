------------------------------- MODULE WfDbus -------------------------------
(***************************************************************************)
(* The D-Bus side of wfantund: which messages the handlers of DBusIPCAPI   *)
(* accept, what the control interface of the instance does with them, and  *)
(* when the callback that answers the caller is run.  A handler gives the  *)
(* set of things that may happen to a message in daemon state d:           *)
(*   now      the callback runs, with a status, before the handler returns *)
(*   task     a task is queued that will run the callback later            *)
(*   refused  the handler leaves the message to libdbus, which answers     *)
(*            with an error                                                *)
(*   never    nobody will run the callback                                 *)
(* calls is how often the callback runs, early says that it runs before    *)
(* the handler has taken its reference on the message, and did that what   *)
(* the caller asked for has been done.  d is                               *)
(* [detached, enabled, caps, domain, busy]: the NCP is given up or is      *)
(* being upgraded, Daemon:Enabled, the capabilities of the NCP, a domain   *)
(* prefix is configured, the interface is not in the state asked for.      *)
(***************************************************************************)
EXTENDS Naturals, Sequences, SequencesExt

Outcome(how, s, calls) ==
    [how |-> how, status |-> s, calls |-> calls, early |-> FALSE,
     did |-> s = "Ok"]
Now(s) == {Outcome("now", s, 1)}
Task == {Outcome("task", "-", 1)}
Refused == {Outcome("refused", "refused", 0)}
Never == {Outcome("never", "-", 0)}

\* start_new_task: a task for a detached NCP is finished at once.
start_new_task(d) == IF d.detached THEN Now("InvalidWhenDisabled") ELSE Task

IfEnabled(d, outcome) ==
    IF d.enabled THEN outcome ELSE Now("InvalidWhenDisabled")
IfCapable(d, cap, outcome) ==
    IF cap \in d.caps THEN outcome ELSE Now("FeatureNotSupported")

-----------------------------------------------------------------------------
(* SpinelNCPControlInterface.                                              *)

join(d) == start_new_task(d)
form(d) == start_new_task(d)
leave(d) == start_new_task(d)
attach(d) == start_new_task(d)
host_did_wake(d) == start_new_task(d)
refresh_state(d) == start_new_task(d)
data_poll(d) == start_new_task(d)
mfg(d) == start_new_task(d)
joiner_attach(d) == start_new_task(d)
joiner_commissioning(d) == start_new_task(d)
netscan_start(d) == start_new_task(d)
energyscan_start(d) == start_new_task(d)

\* Whatever the task ends with, its callback is bound to Ok.
reset_NCP(d) ==
    IF d.detached THEN {[o EXCEPT !.did = FALSE] : o \in Now("Ok")} ELSE Task

add_on_mesh_prefix(d, m) ==
    IfEnabled(d, (IF d.domain /\ Len(m.sig) = 14 THEN Now("Already") ELSE {})
                 \cup Now("Ok") \cup start_new_task(d))
remove_on_mesh_prefix(d) ==
    IfEnabled(d, Now("Ok") \cup start_new_task(d))

\* The routes of the user are kept while the NCP is not associated.
IfRoute(d, m) ==
    IF m.bits > 128 THEN Now("InvalidArgument")
    ELSE IfEnabled(d, Now("Ok") \cup start_new_task(d))
add_external_route(d, m) == IfRoute(d, m)
remove_external_route(d, m) == IfRoute(d, m)
add_service(d) == Now("InvalidArgument")
                  \cup IfEnabled(d, Now("Ok") \cup start_new_task(d))
remove_service(d) == Now("InvalidArgument")
                     \cup IfEnabled(d, Now("Ok") \cup start_new_task(d))

Commissioner(d) ==
    IfEnabled(d, IfCapable(d, "THREAD_COMMISSIONER", start_new_task(d)))
commissioner_add_joiner(d) == Commissioner(d)
commissioner_remove_joiner(d) == Commissioner(d)
commissioner_send_announce_begin(d) == Commissioner(d)
commissioner_send_energy_scan_query(d) == Commissioner(d)
commissioner_send_pan_id_query(d) == Commissioner(d)
commissioner_generate_pskc(d) ==
    IfCapable(d, "THREAD_COMMISSIONER", start_new_task(d))

LinkMetrics(d) == IfCapable(d, "THREAD_LINK_METRICS", start_new_task(d))
link_metrics_query(d) == LinkMetrics(d)
link_metrics_probe(d) == LinkMetrics(d)
link_metrics_mgmt_forward(d) == LinkMetrics(d)
link_metrics_mgmt_enh_ack(d) == LinkMetrics(d)
mlr_request(d) == IfCapable(d, "NET_THREAD_1_2", start_new_task(d))
backbone_router_config(d) ==
    IfCapable(d, "THREAD_BACKBONE_ROUTER", start_new_task(d))
peek(d) == IfCapable(d, "PEEK_POKE", start_new_task(d))
poke(d) == IF "PEEK_POKE" \in d.caps THEN start_new_task(d)
           ELSE Now("FeatureNotImplemented")
pcap_to_fd(d) == Now("Ok") \cup Now("Failure")

\* The keys the tasks look for in the dictionary of the call.
FormReads ==
    {"NetworkName", "Channel", "ChannelMask", "PANID", "XPANID", "Key",
     "KeyIndex", "MeshLocalPrefix", "MeshLocalAddress",
     "LegacyMeshLocalPrefix"}
JoinReads ==
    {"NetworkName", "NodeType", "Channel", "PANID", "XPANID", "Key",
     "KeyIndex", "MeshLocalPrefix", "MeshLocalAddress"}
JoinerReads ==
    {"PSKd", "ReturnOnStart", "ProvisioningUrl", "VendorName", "VendorModel",
     "VendorSwVersion", "VendorData", "DiscernerValue", "DiscernerBitLength"}
Ignored(m) ==
    m.dict \ (CASE m.method = "Form" -> FormReads
                [] m.method = "Join" -> JoinReads
                [] OTHER -> JoinerReads)

-----------------------------------------------------------------------------
(* Properties.  The value of an ordinary property is known to the daemon   *)
(* or is asked of the NCP; a value that is missing gives PropertyEmpty.    *)

property_get_value(d, key) ==
    CASE key = "unset" -> Now("PropertyEmpty") \cup Now("PropertyNotFound")
      [] OTHER -> Now("Ok") \cup start_new_task(d)

\* Taking the interface or the stack down resets the NCP and forgets the
\* callback; a mesh-local prefix of less than 8 bytes runs it twice.
set_prop_InterfaceUp(d) ==
    IF d.busy THEN attach(d) \cup Never ELSE Now("Ok")
set_prop_IPv6MeshLocalPrefix(d, m) ==
    Now("InvalidForCurrentState") \cup Now("InvalidArgument") \cup Now("Ok")
    \cup (IF m.sig = <<"s", "ay">>
          THEN {Outcome("now", "InvalidArgument", 2)} ELSE {})

property_set_value(d, m) ==
    IfEnabled(d,
        CASE m.key = "InterfaceUp" -> set_prop_InterfaceUp(d)
          [] m.key = "MeshLocalPrefix" -> set_prop_IPv6MeshLocalPrefix(d, m)
          [] OTHER -> Now("Ok") \cup Now("InvalidArgument")
                      \cup Now("PropertyNotFound") \cup start_new_task(d))
begin_low_power(d) ==
    IfEnabled(d, Now("Ok") \cup Now("InvalidArgument") \cup start_new_task(d))

\* Inserting and removing are not refused by a disabled daemon.
Update(d) == Now("Ok") \cup Now("PropertyNotFound")
             \cup Now("InvalidArgument") \cup start_new_task(d)
property_insert_value(d) == Update(d)
property_remove_value(d) == Update(d)

-----------------------------------------------------------------------------
(* DBusIPCAPI.  dbus_message_get_args() accepts a message whose arguments  *)
(* begin with the types asked for.                                         *)

Reads(m, sig) == IsPrefix(sig, m.sig)
Accept(ok, outcome) == IF ok THEN outcome ELSE Refused

interface_reset_NCP_handler(d, m) ==
    {[o EXCEPT !.early = (o.how = "now")] : o \in reset_NCP(d)}
interface_status_handler(d, m) ==
    IF d.detached THEN Now("Ok") ELSE Now("Ok") \cup refresh_state(d)
interface_join_handler(d, m) == join(d)
interface_form_handler(d, m) == form(d)
\* Mutant: the reference is taken after the call.
leave_before_reference(d, m) ==
    {[o EXCEPT !.early = (o.how = "now")] : o \in leave(d)}

interface_leave_handler(d, m) == leave(d)
interface_attach_handler(d, m) == attach(d)
interface_begin_low_power_handler(d, m) == begin_low_power(d)
interface_host_did_wake_handler(d, m) == host_did_wake(d)

\* These two do not look at the result of the parsing: without a name there
\* is a command or a property with an empty one, which is the list of all.
interface_mfg_handler(d, m) == mfg(d)
interface_prop_get_handler(d, m) ==
    property_get_value(d, IF Reads(m, <<"s">>) THEN m.key ELSE "all")
interface_prop_set_handler(d, m) ==
    Accept(Reads(m, <<"s">>), property_set_value(d, m))
interface_prop_insert_handler(d, m) ==
    Accept(Reads(m, <<"s">>), property_insert_value(d))
interface_prop_remove_handler(d, m) ==
    Accept(Reads(m, <<"s">>), property_remove_value(d))

\* The scan and capture handlers do not look at the result of the parsing.
interface_net_scan_start_handler(d, m) == netscan_start(d)
interface_discover_scan_start_handler(d, m) == netscan_start(d)
interface_energy_scan_start_handler(d, m) == energyscan_start(d)
interface_pcap_to_fd_handler(d, m) == pcap_to_fd(d)
interface_data_poll_handler(d, m) == data_poll(d)

\* The short forms have no bit length: all of the bytes count, to at most 64.
GatewayLong == <<"b", "ay", "u", "u", "b", "b", "b", "n", "b", "b", "b", "q">>
GatewayBits(m) ==
    IF Reads(m, GatewayLong) THEN m.bits
    ELSE IF 8 * m.n > 64 THEN 64 ELSE 8 * m.n
interface_config_gateway_handler(d, m) ==
    LET bits == GatewayBits(m)
    IN  Accept(/\ Reads(m, <<"b", "ay", "u", "u">>)
               /\ m.n <= 16 /\ bits > 0 /\ bits <= 64 /\ bits <= 8 * m.n,
               IF m.key = "none" THEN remove_on_mesh_prefix(d)
               ELSE add_on_mesh_prefix(d, m))
service_add_handler(d, m) ==
    Accept(Reads(m, <<"u", "ay", "b", "ay">>), add_service(d))
service_remove_handler(d, m) ==
    Accept(Reads(m, <<"u", "ay">>), remove_service(d))
interface_route_add_handler(d, m) ==
    Accept(Reads(m, <<"ay", "q", "n">>) /\ m.n <= 16, add_external_route(d, m))

interface_route_remove_handler(d, m) ==
    Accept(Reads(m, <<"ay", "q">>) /\ m.n <= 16, remove_external_route(d, m))

interface_joiner_attach_handler(d, m) == joiner_attach(d)
interface_joiner_start_handler(d, m) == joiner_commissioning(d)
interface_joiner_stop_handler(d, m) == joiner_commissioning(d)

\* An address without a discerner must have eight bytes.
Eui64(m, sig) ==
    (Reads(m, sig \o <<"ay">>) /\ ~Reads(m, sig \o <<"ay", "y", "t">>))
        => m.n = 8
interface_joiner_add_handler(d, m) ==
    Accept(Reads(m, <<"s", "u">>) /\ Eui64(m, <<"s", "u">>),
           commissioner_add_joiner(d))
interface_joiner_remove_handler(d, m) ==
    Accept(Reads(m, <<"u">>) /\ Eui64(m, <<"u">>),
           commissioner_remove_joiner(d))
interface_announce_begin_handler(d, m) ==
    Accept(Reads(m, <<"u", "y", "q", "ay">>) /\ m.n = 16,
           commissioner_send_announce_begin(d))
interface_energy_scan_query_handler(d, m) ==
    Accept(Reads(m, <<"u", "y", "q", "q", "ay">>) /\ m.n = 16,
           commissioner_send_energy_scan_query(d))
interface_pan_id_query_handler(d, m) ==
    Accept(Reads(m, <<"q", "u", "ay">>) /\ m.n = 16,
           commissioner_send_pan_id_query(d))
interface_generate_pskc(d, m) ==
    Accept(Reads(m, <<"s", "s", "ay">>) /\ m.n = 8,
           commissioner_generate_pskc(d))
interface_peek_handler(d, m) == Accept(Reads(m, <<"u", "q">>), peek(d))
interface_poke_handler(d, m) == Accept(Reads(m, <<"u", "ay">>), poke(d))
interface_link_metrics_query_handler(d, m) ==
    Accept(Reads(m, <<"ay", "y", "y">>) /\ m.n = 16, link_metrics_query(d))
interface_link_metrics_probe_handler(d, m) ==
    Accept(Reads(m, <<"ay", "y", "y">>) /\ m.n = 16, link_metrics_probe(d))
interface_link_metrics_mgmt_forward_handler(d, m) ==
    Accept(Reads(m, <<"ay", "y", "y", "y">>) /\ m.n = 16,
           link_metrics_mgmt_forward(d))
interface_link_metrics_mgmt_enh_ack_handler(d, m) ==
    Accept(Reads(m, <<"ay", "y", "y">>) /\ m.n = 16,
           link_metrics_mgmt_enh_ack(d))
interface_mlr_request_handler(d, m) ==
    Accept(Reads(m, <<"aay", "b", "u">>), mlr_request(d))
interface_backbone_router_config_handler(d, m) ==
    Accept(Reads(m, <<"q", "u", "y">>), backbone_router_config(d))

\* The callback table: a method that is not in it is refused.
message_handler(d, m) ==
    CASE m.method = "ResetNCP" -> interface_reset_NCP_handler(d, m)
      [] m.method = "Status" -> interface_status_handler(d, m)
      [] m.method = "Join" -> interface_join_handler(d, m)
      [] m.method = "Form" -> interface_form_handler(d, m)
      [] m.method = "Leave" -> interface_leave_handler(d, m)
      [] m.method = "Attach" -> interface_attach_handler(d, m)
      [] m.method = "RouteAdd" -> interface_route_add_handler(d, m)
      [] m.method = "RouteRemove" -> interface_route_remove_handler(d, m)
      [] m.method = "ServiceAdd" -> service_add_handler(d, m)
      [] m.method = "ServiceRemove" -> service_remove_handler(d, m)
      [] m.method = "DataPoll" -> interface_data_poll_handler(d, m)
      [] m.method = "ConfigGateway" -> interface_config_gateway_handler(d, m)
      [] m.method = "BeginLowPower" -> interface_begin_low_power_handler(d, m)
      [] m.method = "HostDidWake" -> interface_host_did_wake_handler(d, m)
      [] m.method = "NetScanStart" -> interface_net_scan_start_handler(d, m)
      [] m.method = "DiscoverScanStart" ->
            interface_discover_scan_start_handler(d, m)
      [] m.method = "EnergyScanStart" ->
            interface_energy_scan_start_handler(d, m)
      [] m.method = "Mfg" -> interface_mfg_handler(d, m)
      [] m.method = "PropGet" -> interface_prop_get_handler(d, m)
      [] m.method = "PropSet" -> interface_prop_set_handler(d, m)
      [] m.method = "PropInsert" -> interface_prop_insert_handler(d, m)
      [] m.method = "PropRemove" -> interface_prop_remove_handler(d, m)
      [] m.method = "PcapToFd" -> interface_pcap_to_fd_handler(d, m)
      [] m.method = "JoinerAttach" -> interface_joiner_attach_handler(d, m)
      [] m.method = "JoinerStart" -> interface_joiner_start_handler(d, m)
      [] m.method = "JoinerStop" -> interface_joiner_stop_handler(d, m)
      [] m.method = "JoinerAdd" -> interface_joiner_add_handler(d, m)
      [] m.method = "JoinerRemove" -> interface_joiner_remove_handler(d, m)
      [] m.method = "AnnounceBegin" -> interface_announce_begin_handler(d, m)
      [] m.method = "EnergyScanQuery" ->
            interface_energy_scan_query_handler(d, m)
      [] m.method = "PanIdQuery" -> interface_pan_id_query_handler(d, m)
      [] m.method = "GeneratePSKc" -> interface_generate_pskc(d, m)
      [] m.method = "Peek" -> interface_peek_handler(d, m)
      [] m.method = "Poke" -> interface_poke_handler(d, m)
      [] m.method = "LinkMetricsQuery" ->
            interface_link_metrics_query_handler(d, m)
      [] m.method = "LinkMetricsProbe" ->
            interface_link_metrics_probe_handler(d, m)
      [] m.method = "LinkMetricsMgmtForward" ->
            interface_link_metrics_mgmt_forward_handler(d, m)
      [] m.method = "LinkMetricsMgmtEnhAck" ->
            interface_link_metrics_mgmt_enh_ack_handler(d, m)
      [] m.method = "MlrRequest" -> interface_mlr_request_handler(d, m)
      [] m.method = "BackboneRouterConfig" ->
            interface_backbone_router_config_handler(d, m)
      [] OTHER -> Refused
=============================================================================
