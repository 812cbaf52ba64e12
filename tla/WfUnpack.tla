------------------------------ MODULE WfUnpack ------------------------------
(***************************************************************************)
(* wfantund's decoders of the values the NCP answers with: what each of    *)
(* them expects, call of spinel_datatype_unpack() by call, and what it     *)
(* does when the value is shorter than that (an older NCP, a cut frame),   *)
(* longer (a newer NCP) or holds a code it does not know.                  *)
(*                                                                         *)
(* Only lengths matter: an entry is the number of bytes that the NCP sent  *)
(* for it and whether it knows the code in it.                             *)
(***************************************************************************)
EXTENDS Naturals, Sequences

LOCAL INSTANCE SequencesExt
LOCAL INSTANCE TLC

CONSTANT MaxEntries   \* bound on the entries of a list that the NCP sends

\* Bytes of a field; the shortest for a field of variable length.
SizeOf ==
    [BOOL |-> 1, UINT8 |-> 1, INT8 |-> 1, UINT16 |-> 2, UINT32 |-> 4,
     UINT64 |-> 8, EUI64 |-> 8, IPv6 |-> 16, UINT_PACKED |-> 1, UTF8 |-> 1,
     DATA |-> 0, DATA_WLEN |-> 2]

Bytes(fields) == FoldLeft(LAMBDA n, f : n + SizeOf[f], 0, fields)

\* What an entry is made of: the bytes each call of spinel_datatype_unpack
\* reads, and what is done with a result below 0.
\*   fail      the decoder fails
\*   stop      the decoder returns what it has read so far
\*   ignore    the variables keep the values they were initialised with
\*   unsigned  the result is kept in an unsigned variable, where -1 is a
\*             large number: the pointer leaves the value
\*   blind     the result is not looked at and the bytes are read
Part(calls, short) == [calls |-> calls, short |-> short]
One(fields) == Part(<<Bytes(fields)>>, "fail")
Each(n, field, short) == Part([i \in 1 .. n |-> SizeOf[field]], short)

\* A value of fixed parts, or a list of entries of one kind; whether each is
\* sent with its length; whether a code that the decoder does not know makes
\* it fail.
Layout(list, parts, framed, strict) ==
    [list |-> list, parts |-> parts, framed |-> framed, strict |-> strict]
Fixed(parts) == Layout(FALSE, parts, TRUE, FALSE)
Coded(field, strict) == Layout(FALSE, <<One(<<field>>)>>, TRUE, strict)
Listed(part) == Layout(TRUE, <<part>>, TRUE, FALSE)
ListOfCodes(field, strict) ==
    Layout(TRUE, <<One(<<field>>)>>, FALSE, strict)

-----------------------------------------------------------------------------
(* The decoders of SpinelNCPInstance.                                      *)

unpack_commissioner_state == Coded("UINT8", TRUE)
unpack_commissioner_joiners ==
    Listed(One(<<"DATA_WLEN", "UINT32", "UTF8">>))
unpack_channel_mask == ListOfCodes("UINT8", TRUE)
\* A cost, and an address for the root and for each hop: here one hop.
unpack_dodag_route == Fixed(<<Part(<<1 + 16 * 2>>, "blind")>>)
unpack_dodag_route_dest == Fixed(<<Part(<<16>>, "blind")>>)
unpack_num_connected == Fixed(<<Part(<<2>>, "ignore")>>)
\* A byte of flags, and then as many addresses as were sent.
unpack_connected_devices == Fixed(<<Part(<<1>>, "blind")>>)
unpack_mac_allowlist_entries == Listed(One(<<"EUI64", "INT8">>))
unpack_mac_denylist_entries == Listed(One(<<"EUI64">>))
unpack_channel_occupancy == Listed(One(<<"UINT8", "UINT16">>))
unpack_ncp_counters_all_mac ==
    Fixed(<<Each(15, "UINT32", "unsigned"), Each(17, "UINT32", "unsigned")>>)
unpack_ncp_counters_mle == Fixed(<<Each(9, "UINT16", "fail")>>)
unpack_ncp_counters_ipv6 ==
    Fixed(<<Each(2, "UINT32", "unsigned"), Each(2, "UINT32", "unsigned")>>)
unpack_coex_metrics ==
    Fixed(<<Each(8, "UINT32", "unsigned"), Each(9, "UINT32", "unsigned"),
            Part(<<SizeOf.BOOL, SizeOf.UINT32>>, "fail")>>)
unpack_mcu_power_state == Coded("UINT8", FALSE)
unpack_parent_info ==
    Fixed(<<One(<<"EUI64", "UINT16", "UINT32", "INT8", "INT8", "UINT8",
                  "UINT8">>)>>)
\* Cached entries and the others have a second part of about one size.
unpack_address_cache_table ==
    Listed(Part(<<Bytes(<<"IPv6", "UINT16", "UINT8", "UINT8", "DATA_WLEN",
                          "DATA_WLEN">>),
                  Bytes(<<"BOOL", "UINT16", "UINT16">>)>>, "fail"))
unpack_supported_radio_links == ListOfCodes("UINT_PACKED", FALSE)
unpack_neighbor_table_multi_radio_info ==
    Listed(Part(<<Bytes(<<"EUI64", "UINT16">>),
                  Bytes(<<"DATA_WLEN", "UINT_PACKED", "UINT8">>)>>, "fail"))
unpack_mesh_local_prefix == Fixed(<<One(<<"IPv6", "UINT8">>)>>)
unpack_dataset == Listed(One(<<"UINT_PACKED", "DATA">>))
unpack_server_leader_services ==
    Listed(Part(<<Bytes(<<"UINT8", "UINT32", "DATA_WLEN", "BOOL",
                          "DATA_WLEN", "UINT16">>)>>, "stop"))
unpack_meshcop_joiner_state == Coded("UINT8", FALSE)
unpack_meshcop_joiner_discerner_value ==
    Layout(FALSE, <<One(<<"UINT8">>), Part(<<SizeOf.UINT64>>, "ignore")>>,
           FALSE, FALSE)
unpack_thread_network_time == Fixed(<<One(<<"UINT64", "INT8">>)>>)
unpack_link_metrics ==
    Layout(TRUE, <<One(<<"UINT8", "DATA">>)>>, TRUE, TRUE)
unpack_backbone_router_primary ==
    Fixed(<<One(<<"UINT16", "UINT16", "UINT32", "UINT8">>)>>)
unpack_backbone_router_config ==
    Fixed(<<One(<<"UINT16", "UINT32", "UINT8">>)>>)
unpack_backbone_router_state == Coded("UINT8", TRUE)

(* Those of the tasks.  GetNetworkTopology does not look at the result of  *)
(* parse_table(): the entries before a bad one are the answer.             *)
simple_unpacker == Fixed(<<Part(<<SizeOf.UINT32>>, "ignore")>>)
MsgBufferCounters == Fixed(<<One([i \in 1 .. 16 |-> "UINT16"])>>)
parse_child_entry ==
    Listed(Part(<<Bytes(<<"EUI64", "UINT16", "UINT32", "UINT32", "UINT8",
                          "UINT8", "INT8", "UINT8", "INT8">>)>>, "stop"))
parse_child_addresses_entry ==
    Listed(Part(<<Bytes(<<"EUI64", "UINT16">>), SizeOf.IPv6>>, "stop"))
parse_neighbor_entry ==
    Listed(Part(<<Bytes(<<"EUI64", "UINT16", "UINT32", "UINT8", "INT8",
                          "UINT8", "BOOL", "UINT32", "UINT32", "INT8">>)>>,
                "stop"))
parse_neighbor_error_rates_entry ==
    Listed(Part(<<Bytes(<<"EUI64", "UINT16", "UINT16", "UINT16", "INT8",
                          "INT8">>)>>, "stop"))
parse_router_entry ==
    Listed(Part(<<Bytes(<<"EUI64", "UINT16", "UINT8", "UINT8", "UINT8",
                          "UINT8", "UINT8", "UINT8", "BOOL">>)>>, "stop"))

Decoders ==
    {unpack_commissioner_state, unpack_commissioner_joiners,
     unpack_channel_mask, unpack_dodag_route, unpack_dodag_route_dest,
     unpack_num_connected, unpack_connected_devices,
     unpack_mac_allowlist_entries, unpack_mac_denylist_entries,
     unpack_channel_occupancy, unpack_ncp_counters_all_mac,
     unpack_ncp_counters_mle, unpack_ncp_counters_ipv6, unpack_coex_metrics,
     unpack_mcu_power_state, unpack_parent_info, unpack_address_cache_table,
     unpack_supported_radio_links, unpack_neighbor_table_multi_radio_info,
     unpack_mesh_local_prefix, unpack_dataset, unpack_server_leader_services,
     unpack_meshcop_joiner_state, unpack_meshcop_joiner_discerner_value,
     unpack_thread_network_time,
     unpack_link_metrics, unpack_backbone_router_primary,
     unpack_backbone_router_config, unpack_backbone_router_state,
     simple_unpacker, MsgBufferCounters, parse_child_entry,
     parse_child_addresses_entry, parse_neighbor_entry,
     parse_neighbor_error_rates_entry, parse_router_entry}

-----------------------------------------------------------------------------
VARIABLES
    uFn,      \* the decoder
    uSent,    \* the entries that the NCP sent
    uIn,      \* those still to be decoded
    uCall,    \* the next call of spinel_datatype_unpack for the first of them
    uLeft,    \* the bytes that the decoder thinks are left of it
    uOut,     \* the decoded entries: whole, or not
    uAway,    \* the pointer has left the value
    uOutside, \* bytes outside the value have been read
    uRet      \* running, then the status

uvars == <<uFn, uSent, uIn, uCall, uLeft, uOut, uAway, uOutside, uRet>>

PartOf(fn, i) == fn.parts[IF fn.list THEN 1 ELSE i]
Need(part) == FoldLeft(LAMBDA n, c : n + c, 0, part.calls)

\* Nothing, one byte or one field too few, all, more than that; what has no
\* length of its own ends where the next begins.
Sizes(fn, i) ==
    LET part == PartOf(fn, i)
        n == Need(part)
    IN  IF fn.framed \/ (~fn.list /\ i = Len(fn.parts))
        THEN {0, n - 1, n - part.calls[Len(part.calls)], n, n + 1, n + 4}
        ELSE {n}

EntriesOf(fn, i) ==
    [size : Sizes(fn, i), known : IF fn.strict THEN BOOLEAN ELSE {TRUE}]
Lists(fn) ==
    LET most == IF fn.list THEN MaxEntries ELSE Len(fn.parts)
        all == UNION {EntriesOf(fn, i) : i \in DOMAIN fn.parts}
    IN  {s \in UNION {[1 .. n -> all] : n \in 0 .. most} :
           \A i \in DOMAIN s : s[i] \in EntriesOf(fn, i)}

SizeAt(entries) == IF entries = <<>> THEN 0 ELSE Head(entries).size

UnpackInit(decoders) ==
    /\ uFn \in decoders
    /\ uSent \in Lists(uFn)
    /\ uIn = uSent /\ uCall = 1 /\ uLeft = SizeAt(uSent)
    /\ uOut = <<>> /\ uAway = FALSE /\ uOutside = FALSE
    /\ uRet = "running"

\* The entry in work, by its number.
At == Len(uSent) - Len(uIn) + 1
PartNow == PartOf(uFn, At)
NeedNow == PartNow.calls[uCall]

\* On to the next call, or with the last one to the next entry.
Advance(left, whole) ==
    IF uCall < Len(PartNow.calls)
    THEN /\ uCall' = uCall + 1 /\ uLeft' = left
         /\ UNCHANGED <<uIn, uOut>>
    ELSE /\ uCall' = 1
         /\ uIn' = Tail(uIn) /\ uLeft' = SizeAt(Tail(uIn))
         /\ uOut' = Append(uOut, whole)

\* The call finds its bytes: where the pointer is, inside the value or not.
UnpackField ==
    /\ uRet = "running" /\ uIn # <<>> /\ uLeft >= NeedNow
    /\ uFn.strict => Head(uIn).known
    /\ Advance(uLeft - NeedNow, ~uAway)
    /\ uAway' = IF uCall = Len(PartNow.calls) THEN FALSE ELSE uAway
    /\ uOutside' = (uOutside \/ uAway)
    /\ UNCHANGED <<uFn, uSent, uRet>>

UnknownCode ==
    /\ uRet = "running" /\ uIn # <<>> /\ uLeft >= NeedNow
    /\ uFn.strict /\ ~Head(uIn).known
    /\ uRet' = "Failure"
    /\ UNCHANGED <<uFn, uSent, uIn, uCall, uLeft, uOut, uAway, uOutside>>

\* A mutant: the length is kept in a spinel_size_t.
Detects_Unsigned(part) == FALSE

\* require(len > 0): a result below 0 is seen as such.
Detects(part) == part.short = "fail"

Short == uRet = "running" /\ uIn # <<>> /\ uLeft < NeedNow

ShortFails ==
    /\ Short /\ Detects(PartNow)
    /\ uRet' = "Failure"
    /\ UNCHANGED <<uFn, uSent, uIn, uCall, uLeft, uOut, uAway, uOutside>>

ShortStops ==
    /\ Short /\ PartNow.short = "stop"
    /\ uRet' = "Ok"
    /\ UNCHANGED <<uFn, uSent, uIn, uCall, uLeft, uOut, uAway, uOutside>>

\* len is 2^32 - 1: taking it from the bytes that are left adds one.
ShortUnseen ==
    /\ Short /\ ~Detects(PartNow) /\ PartNow.short \in {"fail", "unsigned"}
    /\ Advance(uLeft + 1, FALSE)
    /\ uAway' = (uCall < Len(PartNow.calls))
    /\ UNCHANGED <<uFn, uSent, uOutside, uRet>>

ShortIgnored ==
    /\ Short /\ PartNow.short \in {"ignore", "blind"}
    /\ Advance(0, FALSE)
    /\ uOutside' = (uOutside \/ PartNow.short = "blind")
    /\ UNCHANGED <<uFn, uSent, uAway, uRet>>

\* The end of the value: parts may be missing.
UnpackEnd ==
    /\ uRet = "running" /\ uIn = <<>>
    /\ uRet' = IF uFn.list \/ Len(uSent) = Len(uFn.parts) THEN "Ok"
               ELSE IF \A i \in Len(uSent) + 1 .. Len(uFn.parts) :
                         uFn.parts[i].short \in {"ignore", "blind"}
                    THEN "Ok" ELSE "Failure"
    /\ UNCHANGED <<uFn, uSent, uIn, uCall, uLeft, uOut, uAway, uOutside>>

UnpackNext ==
    \/ UnpackField \/ UnknownCode \/ ShortFails \/ ShortStops \/ ShortUnseen
    \/ ShortIgnored \/ UnpackEnd

-----------------------------------------------------------------------------
WholeEntry(i) ==
    /\ uSent[i].size >= Need(PartOf(uFn, i))
    /\ uFn.strict => uSent[i].known
Complete ==
    /\ uFn.list \/ Len(uSent) = Len(uFn.parts)
    /\ \A i \in DOMAIN uSent : WholeEntry(i)
Trusting ==
    \E i \in DOMAIN uFn.parts :
       uFn.parts[i].short \in {"unsigned", "blind", "ignore"}
Partial == \E i \in DOMAIN uFn.parts : uFn.parts[i].short = "stop"

\* A decoder given all it expects, or more, returns every entry and reads
\* nothing else.  Given less it fails, or where it may return a part of a
\* list, returns exactly the entries before the bad one.  The decoders that
\* trust the NCP (the MAC, IPv6 and coexistence counters, whose check of the
\* length is on an unsigned variable, and the DODAG values) are held only to
\* the first half.
UnpackFaithful ==
    /\ uRet # "running" /\ Complete =>
         /\ uRet = "Ok" /\ ~uOutside
         /\ Len(uOut) = Len(uSent) /\ \A i \in DOMAIN uOut : uOut[i]
    /\ uRet = "Ok" /\ ~Complete /\ ~Trusting =>
         /\ Partial /\ ~uOutside
         /\ \A i \in DOMAIN uOut : uOut[i] /\ WholeEntry(i)
         /\ ~WholeEntry(Len(uOut) + 1)
=============================================================================
