------------------------------ MODULE Wfanctl ------------------------------
(***************************************************************************)
(* The tools of wfanctl.  They all have one shape: parse the arguments,    *)
(* find the bus name of the daemon that owns the interface, send one       *)
(* method call, block until the reply or the timeout, and return an exit   *)
(* code.  A tool is the record of what it does at each of these steps:     *)
(*   refuses   the codes it may return for its arguments alone             *)
(*   silent    a prefix it cannot parse makes it return 0, nothing sent    *)
(*   nobus     what it returns when the bus cannot be reached              *)
(*   lookup    it asks for the bus name of the interface first             *)
(*   sends     the messages it may send, as [method, sig, n, bits, key,    *)
(*             dict]: the D-Bus types of the arguments, the bytes of the   *)
(*             address or prefix among them, the prefix length given, the  *)
(*             property, the keys of the dictionary                        *)
(*   reads     how it reads the reply: the status, or nothing of it        *)
(*   forgives  the statuses it turns into 0                                *)
(*   failed    what it returns for an error in place of a reply            *)
(*   more      how many further calls of the same kind it may make; the    *)
(*             exit code is that of the last one                           *)
(***************************************************************************)
EXTENDS Naturals, Sequences

\* The bit lengths a prefix may be given on the command line.
PrefixBits == {0, 48, 64, 128, 200}

Msg(method, sig) ==
    [method |-> method, sig |-> sig, n |-> 0, bits |-> 0, key |-> "-",
     dict |-> {}]
Address(method, sig, n) == [Msg(method, sig) EXCEPT !.n = n]
Property(method, sig, key) == [Msg(method, sig) EXCEPT !.key = key]
Dictionary(method, dict) == [Msg(method, <<"a{sv}">>) EXCEPT !.dict = dict]

\* A -h, an unknown option, a missing argument or one too many.
Usage == {"HELP", "BADARG"}

Tool(sends) ==
    [refuses |-> Usage, silent |-> FALSE, nobus |-> "OK",
     lookup |-> TRUE, sends |-> sends, reads |-> "status", forgives |-> {},
     failed |-> "TIMEOUT", more |-> 0]

Simple(method) == Tool({Msg(method, <<>>)})
Forgiving(method) == [Simple(method) EXCEPT !.forgives = {"InvalidRange"}]
SetProperty(key) == Property("PropSet", <<"s", "s">>, key)

-----------------------------------------------------------------------------
(* Tools without arguments.                                                *)

tool_cmd_leave == Simple("Leave")
tool_cmd_resume == Simple("Attach")
tool_cmd_poll == Forgiving("DataPoll")
tool_cmd_host_did_wake == Forgiving("HostDidWake")
tool_cmd_begin_low_power == Forgiving("BeginLowPower")
tool_cmd_reset == Forgiving("ResetNCP")
tool_cmd_status == [Simple("Status") EXCEPT !.reads = "nothing"]
tool_cmd_list == [Simple("GetInterfaces") EXCEPT !.reads = "nothing",
                                                 !.lookup = FALSE]
tool_cmd_mfg == [Tool({Msg("Mfg", <<"s">>)}) EXCEPT !.refuses = {"BADARG"}]
tool_cmd_permit_join == Tool({Msg("PermitJoin", <<"i", "b", "q", "y">>)})
tool_cmd_begin_net_wake == Tool({Msg("BeginNetWake", <<"y", "u">>)})
tool_cmd_cd == [Tool({}) EXCEPT !.refuses = {"HELP", "OK"}]

-----------------------------------------------------------------------------
(* Properties.  Several names, or all of them, are got one after another.  *)
(* The connected devices come in batches: unless one says "Last IPs", the  *)
(* tool calls itself again, however many came before.                      *)

\* Whether more devices are to be asked for depends on the answer alone.
parse_connected_devices_output == BOOLEAN

getprop_options == Usage
tool_cmd_getprop ==
    [Tool({Property("PropGet", <<"s">>, k) :
              k \in {"ordinary", "unset", "connecteddevices"}}) EXCEPT
        !.more = 1, !.refuses = getprop_options]

\* The value comes from -v, from the arguments or, with -d, as hex digits.
updateprop_options == Usage
tool_updateprop(method) ==
    [Tool({Property(method, sig, k) :
              sig \in {<<"s", "s">>, <<"s", "ay">>},
              k \in {"ordinary", "InterfaceUp", "MeshLocalPrefix"}}) EXCEPT
        !.refuses = updateprop_options]
tool_cmd_setprop == tool_updateprop("PropSet")
tool_cmd_insertprop == tool_updateprop("PropInsert")
tool_cmd_removeprop == tool_updateprop("PropRemove")
dataset_commands == {"Dataset:Command"}
tool_cmd_dataset == Tool({SetProperty(k) : k \in dataset_commands})

-----------------------------------------------------------------------------
(* Prefixes, routes and services.  A route prefix is cut to the whole      *)
(* bytes its length needs and is left out when the length exceeds 128; a   *)
(* gateway prefix always has 16 bytes.                                     *)

RouteBytes(bits) == IF bits <= 128 THEN (bits + 7) \div 8 ELSE 0

Routes(method, sig) ==
    {[Msg(method, sig) EXCEPT !.n = RouteBytes(b), !.bits = b] :
        b \in PrefixBits}
add_route_options == Usage
tool_cmd_add_route ==
    [Tool(Routes("RouteAdd", <<"ay", "q", "n", "y", "b">>)) EXCEPT
        !.refuses = add_route_options, !.silent = TRUE]
remove_route_options == Usage
tool_cmd_remove_route ==
    [Tool(Routes("RouteRemove", <<"ay", "q", "y">>)) EXCEPT
        !.refuses = remove_route_options, !.silent = TRUE]

GatewayArgs == <<"b", "ay", "u", "u", "b", "b", "b", "n">>
Gateways(sig, lifetime) ==
    {[Msg("ConfigGateway", sig) EXCEPT !.n = 16, !.bits = b, !.key = lifetime] :
        b \in PrefixBits}
config_gateway_options == Usage
tool_cmd_config_gateway ==
    [Tool({Msg("ConfigGateway", <<"b">>)}
          \cup {[Address("ConfigGateway", GatewayArgs, 16) EXCEPT !.key = l] :
                   l \in {"for ever", "none"}})
     EXCEPT !.refuses = config_gateway_options, !.silent = TRUE]
add_prefix_options == Usage
tool_cmd_add_prefix ==
    [Tool(Gateways(GatewayArgs \o <<"b", "b", "b", "q", "b", "b">>, "for ever"))
     EXCEPT !.refuses = add_prefix_options, !.silent = TRUE, !.nobus = "ALLOC"]
remove_prefix_options == Usage
tool_cmd_remove_prefix ==
    [Tool(Gateways(GatewayArgs \o <<"b", "b", "b", "q">>, "none"))
     EXCEPT !.refuses = remove_prefix_options, !.silent = TRUE,
            !.nobus = "ALLOC"]
add_service_options == Usage
tool_cmd_add_service ==
    [Tool({Msg("ServiceAdd", <<"u", "ay", "b", "ay">>)}) EXCEPT
        !.refuses = add_service_options]
remove_service_options == Usage
tool_cmd_remove_service ==
    [Tool({Msg("ServiceRemove", <<"u", "ay">>)}) EXCEPT
        !.refuses = remove_service_options]

-----------------------------------------------------------------------------
(* Networks: forming, joining, scanning and capturing.                     *)

form_options == Usage
form_dictionary ==
    {"NetworkName", "NodeType", "Channel", "ChannelMask", "PANID", "XPANID",
     "Key", "KeyIndex", "MeshLocalPrefix", "LegacyMeshLocalPrefix"}
tool_cmd_form ==
    [Tool({Dictionary("Form", form_dictionary)}) EXCEPT
        !.refuses = form_options]

join_options == Usage
join_dictionary ==
    {"NetworkName", "NodeType", "Channel", "PANID", "XPANID", "Key"}

\* An association in progress counts as success.
tool_cmd_join ==
    [Tool({Dictionary("Join", join_dictionary)}) EXCEPT
        !.refuses = join_options, !.forgives = {"InProgress"}]

scan_options == Usage
tool_cmd_scan ==
    [Tool({Msg("NetScanStart", <<"u">>),
           Msg("DiscoverScanStart", <<"u", "b", "b", "q">>),
           Msg("EnergyScanStart", <<"u">>)}) EXCEPT
        !.refuses = scan_options, !.failed = "UNKNOWN"]

\* A capture to a terminal is refused unless it is forced.
pcap_refuses_terminal == {"REFUSED"}
do_pcap_to_fd == {Msg("PcapToFd", <<"h">>)}
tool_cmd_pcap ==
    [Tool(do_pcap_to_fd) EXCEPT
        !.refuses = Usage \cup pcap_refuses_terminal, !.nobus = "UNKNOWN"]

-----------------------------------------------------------------------------
(* Memory, multicast listeners and the backbone router.                    *)

peek_options == Usage
tool_cmd_peek ==
    [Tool({Msg("Peek", <<"u", "q">>)}) EXCEPT !.refuses = peek_options]
poke_options == Usage
tool_cmd_poke ==
    [Tool({Msg("Poke", <<"u", "ay">>)}) EXCEPT !.refuses = poke_options]
tool_cmd_mlr == Tool({Msg("MlrRequest", <<"aay", "b", "u">>)})
bbr_config == {Msg("BackboneRouterConfig", <<"q", "u", "y">>)}
tool_cmd_bbr ==
    Tool(bbr_config \cup {SetProperty("bbr"),
                          Property("PropSet", <<"s", "y">>, "bbr")})

-----------------------------------------------------------------------------
(* Commissioning.                                                          *)

JoinerAdd == {Msg("JoinerAdd", <<"s", "u">>),
              Address("JoinerAdd", <<"s", "u", "ay">>, 8)}
commissioner_state == {Property("PropGet", <<"s">>, "ordinary")}
commissioner_start_stop == {SetProperty("ordinary")}
tool_cmd_commissioner ==
    [Tool(commissioner_state \cup commissioner_start_stop \cup JoinerAdd)
     EXCEPT !.refuses = {"HELP", "BADARG", "NOT_IMPLEMENTED"}]
joiner_state == {Property("PropGet", <<"s">>, "ordinary")}
joiner_attach_call == {Dictionary("JoinerAttach", {"ReturnOnStart"})}
joiner_start_call ==
    {Dictionary("JoinerStart",
        {"PSKd", "ReturnOnStart", "ProvisioningUrl", "VendorName",
         "VendorModel", "VendorSwVersion", "VendorData"})}
tool_cmd_joiner ==
    Tool(joiner_state \cup joiner_attach_call \cup joiner_start_call
         \cup {Msg("JoinerStop", <<>>)})

commr_start_stop == {SetProperty("ordinary")}
commr_joiner_add ==
    JoinerAdd \cup {Address("JoinerAdd", <<"s", "u", "ay", "y", "t">>, 8)}
commr_joiner_remove ==
    {Msg("JoinerRemove", <<"u">>), Address("JoinerRemove", <<"u", "ay">>, 8),
     Address("JoinerRemove", <<"u", "ay", "y", "t">>, 8)}
commr_announce == {Address("AnnounceBegin", <<"u", "y", "q", "ay">>, 16)}
commr_energy ==
    {Address("EnergyScanQuery", <<"u", "y", "q", "q", "ay">>, 16)}
commr_panid == {Address("PanIdQuery", <<"q", "u", "ay">>, 16)}
commr_mgmt == {Property("PropSet", <<"s", "ay">>, "ordinary"),
               SetProperty("ordinary")}
commr_pskc == {Address("GeneratePSKc", <<"s", "s", "ay">>, 8)}
tool_cmd_commr ==
    Tool(commr_start_stop \cup commr_joiner_add \cup commr_joiner_remove
         \cup commr_announce \cup commr_energy \cup commr_panid
         \cup commr_mgmt \cup commr_pskc)

lm_query == {Address("LinkMetricsQuery", <<"ay", "y", "y">>, 16)}
lm_probe == {Address("LinkMetricsProbe", <<"ay", "y", "y">>, 16)}
lm_mgmt == {Address("LinkMetricsMgmtEnhAck", <<"ay", "y", "y">>, 16),
            Address("LinkMetricsMgmtForward", <<"ay", "y", "y", "y">>, 16)}
tool_cmd_linkmetrics == Tool(lm_query \cup lm_probe \cup lm_mgmt)

-----------------------------------------------------------------------------
(* The tools by their names.  The command list of the program has get,     *)
(* set, status, reset, add and remove; the others are compiled and can be  *)
(* put into it.                                                            *)

Tools == [leave |-> tool_cmd_leave, resume |-> tool_cmd_resume,
    poll |-> tool_cmd_poll, host_did_wake |-> tool_cmd_host_did_wake,
    begin_low_power |-> tool_cmd_begin_low_power, reset |-> tool_cmd_reset,
    status |-> tool_cmd_status, list |-> tool_cmd_list, mfg |-> tool_cmd_mfg,
    permit_join |-> tool_cmd_permit_join, cd |-> tool_cmd_cd,
    begin_net_wake |-> tool_cmd_begin_net_wake, get |-> tool_cmd_getprop,
    set |-> tool_cmd_setprop, add |-> tool_cmd_insertprop,
    remove |-> tool_cmd_removeprop, dataset |-> tool_cmd_dataset,
    add_route |-> tool_cmd_add_route, remove_route |-> tool_cmd_remove_route,
    config_gateway |-> tool_cmd_config_gateway,
    add_prefix |-> tool_cmd_add_prefix,
    remove_prefix |-> tool_cmd_remove_prefix,
    add_service |-> tool_cmd_add_service,
    remove_service |-> tool_cmd_remove_service, form |-> tool_cmd_form,
    join |-> tool_cmd_join, scan |-> tool_cmd_scan, pcap |-> tool_cmd_pcap,
    peek |-> tool_cmd_peek, poke |-> tool_cmd_poke, mlr |-> tool_cmd_mlr,
    bbr |-> tool_cmd_bbr, commissioner |-> tool_cmd_commissioner,
    joiner |-> tool_cmd_joiner, commr |-> tool_cmd_commr,
    linkmetrics |-> tool_cmd_linkmetrics]
=============================================================================
