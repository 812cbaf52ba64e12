------------------------------- MODULE LhApiMac -------------------------------
(***************************************************************************)
(* linux-host's MAC interface (api_mac.c) on top of the MT messages: which *)
(* callback an incoming message reaches, and what a request puts on the    *)
(* wire.  A message is its command, the values of its count fields and the *)
(* length of its payload; a field is its number of bytes and whether it is *)
(* read byte by byte or as a block, which fail differently at the end of a *)
(* message.                                                                *)
(*                                                                         *)
(* The application has made the interface with MT_MSG_interfaceCreate().   *)
(* mt_msg_rx_thread() frees responses and MT_MSG_txrx() does not wait for  *)
(* one, so pSrsp is always NULL and MT_MSG_txrx() never returns 2: what    *)
(* the requests do with a response is unreachable and left out.            *)
(***************************************************************************)
EXTENDS Integers, Sequences, SequencesExt

CONSTANT MacCapacity        \* bytes of mt_msg.iobuf behind the header

VARIABLES
    macChksum,      \* mt_msg_interface.include_chksum
    macCallbacks,   \* pApiMac_callbacks: "null", "none" of them or "all" set
    macIn,          \* the message at the head of rx_list, or NoMsg
    macLast,        \* the callback called or request sent in the last step
    macResult       \* what the last request returned

macvars == <<macChksum, macCallbacks, macIn, macLast, macResult>>

NoMsg == [cmd |-> ""]
NoEvent == [kind |-> ""]

-----------------------------------------------------------------------------
(* Fields.                                                                 *)

U(n) == <<[block |-> FALSE, n |-> n]>>
Buf(n) == <<[block |-> TRUE, n |-> n]>>
Sec == Buf(8) \o U(1) \o U(1) \o U(1)
Addr == U(1) \o U(8)
panDesc == Addr \o U(2) \o U(2) \o U(1) \o U(1) \o U(1) \o U(1) \o U(4)
                \o U(1) \o Sec
Times(fields, n) == FlattenSeq([i \in 1 .. n |-> fields])
BytesOf(fields) == FoldLeft(LAMBDA sum, f : sum + f.n, 0, fields)

Lesser(a, b) == IF a < b THEN a ELSE b

\* iobuf_nvalid without the header: the checksum is in the buffer as well.
Valid(m) == m.len + (IF macChksum THEN 1 ELSE 0)

\* A number is read byte by byte and no further than the message goes: that
\* it was too short is not an error.
rdUX(m, r, n) ==
    IF r.error \/ r.idx > Valid(m) THEN r
    ELSE [r EXCEPT !.idx = Lesser(@ + n, Valid(m))]

\* A block may go as far as the buffer does.
rdBuf(m, r, n) ==
    CASE r.error \/ n = 0 -> r
      [] ~r.error /\ n > 0 /\ r.idx + n > MacCapacity
           -> [r EXCEPT !.error = TRUE]
      [] OTHER -> [r EXCEPT !.idx = @ + n]

Reading == [idx |-> 0, error |-> FALSE]
Read(m, r, fields) ==
    FoldLeft(LAMBDA s, f : IF f.block THEN rdBuf(m, s, f.n)
                           ELSE rdUX(m, s, f.n), r, fields)

\* The value v of a count of n bytes: all ones at the end of the message,
\* 0 after an error.
Count(m, r, n, v) ==
    CASE r.error -> 0
      [] ~r.error /\ r.idx + n > Valid(m) -> 256 ^ n - 1
      [] OTHER -> v

\* (mutant) Only a message that is not read to its end is refused.
parseComplete_Longer(m, r) == ~r.error /\ r.idx >= m.len

parseComplete(m, r) == ~r.error /\ r.idx = m.len

-----------------------------------------------------------------------------
(* The handlers of incoming messages: how far they read, and is_error.     *)

associate_ind(m) == Read(m, Reading, Buf(8) \o U(1) \o Sec)
sync_loss_ind(m) ==
    Read(m, Reading, U(1) \o U(2) \o U(1) \o U(1) \o U(1) \o Sec)
data_cnf(m) ==
    Read(m, Reading, U(1) \o U(1) \o U(4) \o U(2) \o Times(U(1), 4) \o U(4))

DataHead == Addr \o Addr \o U(4) \o U(2) \o U(2) \o U(2) \o Times(U(1), 4)
                 \o Sec \o U(4)
DataTail(m, head) ==
    LET msdu == Count(m, head, 2, m.counts[1])
        second == Read(m, head, U(2))
        ies == Count(m, second, 2, m.counts[2])
    IN  Read(m, second, U(2) \o Buf(msdu) \o Buf(ies))
data_ind(m) == DataTail(m, Read(m, Reading, DataHead))
ws_async_ind(m) == DataTail(m, Read(m, Reading, DataHead \o U(1)))

purge_cnf(m) == Read(m, Reading, U(1) \o U(1))
orphan_ind(m) == Read(m, Reading, Buf(8) \o Sec)
associate_cnf(m) == Read(m, Reading, U(1) \o U(2) \o Sec)

\* A beacon's lists are read twice, over the same bytes: first to find out
\* whether the message is whole.
BeaconHead == U(1) \o U(1) \o U(4) \o Addr \o U(2) \o U(2) \o Times(U(1), 5)
                   \o Sec
beacon_notify(m) ==
    LET head == Read(m, Reading, BeaconHead)
        short == Count(m, head, 1, m.counts[1])
        r1 == Read(m, head, U(1))
        extended == Count(m, r1, 1, m.counts[2])
        r2 == Read(m, r1, U(1))
        sdu == Count(m, r2, 1, m.counts[3])
    IN  Read(m, r2, U(1) \o Buf(2 * short) \o Buf(8 * extended) \o Buf(sdu))
beacon_enhanced(m) ==
    Read(m, Reading, U(1) \o U(1) \o Times(U(1), 6) \o U(2))
beacon_unknown(m) == [Reading EXCEPT !.error = TRUE]

disassociate_ind(m) == Read(m, Reading, Buf(8) \o U(1) \o Sec)
disassociate_cnf(m) == Read(m, Reading, U(1) \o Addr \o U(2))
poll_cnf(m) == Read(m, Reading, U(1) \o U(1))

ScanHead == Times(U(1), 4) \o Buf(17)
ScanResults(m) == Count(m, Read(m, Reading, ScanHead), 1, m.counts[1])
scan_orphan(m) == Read(m, Reading, ScanHead \o U(1))
scan_energy(m) == Read(m, scan_orphan(m), Buf(ScanResults(m)))
\* Past the end of a message every descriptor takes idx 8 bytes further, so
\* MaxResults of them are as wrong as 255.
MaxResults == 3
scan_beacons(m) ==
    Read(m, scan_orphan(m), Times(panDesc, Lesser(ScanResults(m), MaxResults)))
scan_unknown(m) == [scan_orphan(m) EXCEPT !.error = TRUE]

comm_status_ind(m) ==
    Read(m, Reading, U(1) \o Addr \o Addr \o U(2) \o U(1) \o Sec)
start_cnf(m) == Read(m, Reading, U(1))
ws_async_cnf(m) == Read(m, Reading, U(1))
poll_ind(m) == Read(m, Reading, Addr \o U(2) \o U(1))
reset_ind(m) == Read(m, Reading, Times(U(1), 6))

\* The number of count fields of each command of process_areq()'s table; a
\* beacon and a scan confirmation stand once for each of their types.
Counts ==
    [sync_loss_ind |-> 0, associate_ind |-> 0, associate_cnf |-> 0,
     beacon_notify |-> 3, beacon_enhanced |-> 0, beacon_unknown |-> 0,
     data_cnf |-> 0, data_ind |-> 2, disassociate_ind |-> 0,
     disassociate_cnf |-> 0, orphan_ind |-> 0, poll_cnf |-> 0,
     scan_orphan |-> 1, scan_energy |-> 1, scan_beacons |-> 1,
     scan_unknown |-> 1, comm_status_ind |-> 0, start_cnf |-> 0,
     purge_cnf |-> 0, poll_ind |-> 0, ws_async_cnf |-> 0,
     ws_async_ind |-> 2, reset_ind |-> 0]

Handle(m) ==
    CASE m.cmd = "sync_loss_ind" -> sync_loss_ind(m)
      [] m.cmd = "associate_ind" -> associate_ind(m)
      [] m.cmd = "associate_cnf" -> associate_cnf(m)
      [] m.cmd = "beacon_notify" -> beacon_notify(m)
      [] m.cmd = "beacon_enhanced" -> beacon_enhanced(m)
      [] m.cmd = "beacon_unknown" -> beacon_unknown(m)
      [] m.cmd = "data_cnf" -> data_cnf(m)
      [] m.cmd = "data_ind" -> data_ind(m)
      [] m.cmd = "disassociate_ind" -> disassociate_ind(m)
      [] m.cmd = "disassociate_cnf" -> disassociate_cnf(m)
      [] m.cmd = "orphan_ind" -> orphan_ind(m)
      [] m.cmd = "poll_cnf" -> poll_cnf(m)
      [] m.cmd = "scan_orphan" -> scan_orphan(m)
      [] m.cmd = "scan_energy" -> scan_energy(m)
      [] m.cmd = "scan_beacons" -> scan_beacons(m)
      [] m.cmd = "scan_unknown" -> scan_unknown(m)
      [] m.cmd = "comm_status_ind" -> comm_status_ind(m)
      [] m.cmd = "start_cnf" -> start_cnf(m)
      [] m.cmd = "purge_cnf" -> purge_cnf(m)
      [] m.cmd = "poll_ind" -> poll_ind(m)
      [] m.cmd = "ws_async_cnf" -> ws_async_cnf(m)
      [] m.cmd = "ws_async_ind" -> ws_async_ind(m)
      [] m.cmd = "reset_ind" -> reset_ind(m)

\* What the handler of m reads of a message that goes on for ever.
LayoutBytes(m) == Handle([m EXCEPT !.len = MacCapacity]).idx

Callback(cb, m) == macLast' = [kind |-> "called", cb |-> cb, msg |-> m]
NoCallback == macLast' = NoEvent

process_areq(m) ==
    CASE macCallbacks = "null" -> NoCallback
      [] macCallbacks = "all" /\ m.cmd \notin DOMAIN Counts
           -> Callback("Unprocessed", m)
      [] macCallbacks = "all" /\ m.cmd \in DOMAIN Counts
           -> IF parseComplete(m, Handle(m)) THEN Callback(m.cmd, m)
              ELSE NoCallback
      [] macCallbacks = "none" -> NoCallback

\* Polls and requests are in rx_list too.
ApiMac_processIncoming ==
    /\ macIn # NoMsg
    /\ macIn' = NoMsg
    /\ IF macIn.areq THEN process_areq(macIn)
       ELSE IF macCallbacks = "all" THEN Callback("Unprocessed", macIn)
       ELSE NoCallback
    /\ UNCHANGED <<macChksum, macCallbacks, macResult>>

ApiMac_registerCallbacks(callbacks) ==
    /\ macCallbacks' = callbacks
    /\ NoCallback
    /\ UNCHANGED <<macChksum, macIn, macResult>>

-----------------------------------------------------------------------------
(* Requests.  "announced" is the length given to api_new_msg(), -1 when it *)
(* is to be found out; MT_MSG_format_msg() sends that many bytes whatever  *)
(* was written.  "ends" is what the function makes of the missing          *)
(* response: API_MAC_TxRx_Status() reads it all the same.                  *)

Request(announced, fields, ends) ==
    [announced |-> announced, wrote |-> BytesOf(fields), ends |-> ends,
     truncated |-> FALSE]
StatusRequest(announced, fields) == Request(announced, fields, "undefined")

mcpsDataReq(msdu, ies) ==
    StatusRequest(35 + msdu + ies,
                  Addr \o U(2) \o Times(U(1), 5) \o Sec \o U(4)
                  \o U(2) \o U(2) \o Buf(msdu) \o Buf(ies))
mcpsPurgeReq == StatusRequest(1, U(1))
mlmeAssociateReq ==
    StatusRequest(26, Times(U(1), 3) \o Addr \o U(2) \o U(1) \o Sec)
mlmeDisassociateReq ==
    StatusRequest(24, Addr \o U(2) \o U(1) \o U(1) \o Sec)
mlmeOrphanRsp == StatusRequest(22, Buf(8) \o U(2) \o U(1) \o Sec)
mlmePollReq == StatusRequest(22, Addr \o U(2) \o Sec)
mlmeResetReq == StatusRequest(1, U(1))
mlmeScanReq ==
    StatusRequest(23 + 17, Times(U(1), 10) \o U(2) \o Sec \o Buf(17))
mlmeStartReq(ies) ==
    StatusRequest(42 + ies,
                  U(4) \o U(2) \o Times(U(1), 8) \o Sec \o Sec
                  \o Times(U(1), 3) \o U(2) \o U(1) \o Buf(ies))
mlmeSyncReq == StatusRequest(4, Times(U(1), 4))
updatePanId == StatusRequest(2, U(2))
srcMatchEnable == StatusRequest(0, <<>>)
mlmeWSAsyncReq == StatusRequest(13 + 17, U(1) \o U(1) \o Sec \o Buf(17))
startFH == StatusRequest(0, <<>>)
enableFH == StatusRequest(0, <<>>)
mlmeAssociateRsp == StatusRequest(22, Buf(8) \o U(2) \o U(1) \o Sec)
secAddDevice ==
    StatusRequest(29, U(2) \o U(2) \o Buf(8) \o U(4) \o Times(U(1), 4)
                      \o Buf(9))
secDeleteDevice == StatusRequest(8, Buf(8))
secDeleteKeyAndAssocDevices == StatusRequest(1, U(1))
secDeleteAllDevices == StatusRequest(0, <<>>)
secGetDefaultSourceKey == Request(1, U(1), "badState")
secAddKeyInitFrameCounter ==
    StatusRequest(33, U(1) \o U(2) \o Buf(16) \o U(4) \o U(1) \o Buf(9))

\* Attributes: "mac" and "security" have a number of one byte, "fh" of two.
IdBytes(pib) == IF pib = "fh" THEN 2 ELSE 1
SecurityIndex(pib) == IF pib = "security" THEN U(2) \o U(2) ELSE <<>>

\* The index of a security attribute is written and not announced.
Get_Common(pib) ==
    [Request(IdBytes(pib), U(IdBytes(pib)) \o SecurityIndex(pib), "badState")
         EXCEPT !.truncated = pib = "security"]

\* Filled up to the length that was announced.
Set_Common(pib, size) ==
    LET len == 1 + (IF pib = "fh" THEN 1 ELSE 16) + size
        wrote == IdBytes(pib) + size
    IN  StatusRequest(len, U(IdBytes(pib)) \o U(size)
                           \o Times(U(1), len - wrote))

SetArray_Common(pib, size) ==
    StatusRequest(IdBytes(pib) + BytesOf(SecurityIndex(pib)) + size,
                  U(IdBytes(pib)) \o SecurityIndex(pib) \o Buf(size))
SetSecurity_Common(size) ==
    Request(-1, U(1) \o U(2) \o U(2) \o U(size), "badState")

mlmeGetReq == {Get_Common("mac")}
mlmeGetFhReq == {Get_Common("fh")}
mlmeGetSecurityReq == {Get_Common("security")}
mlmeSetReq == {Set_Common("mac", size) : size \in {1, 2, 4}}
mlmeSetFhReq == {Set_Common("fh", size) : size \in {1, 2, 4}}
mlmeSetSecurityReq == {SetSecurity_Common(size) : size \in {1, 2}}
mlmeSetReqArray == {SetArray_Common("mac", size) : size \in {8, 16}}
mlmeSetFhReqArray == {SetArray_Common("fh", size) : size \in {8, 32}}
mlmeSetSecurityReqArray == {SetArray_Common("security", 8)}

\* The structures of the security PIB: what a get sends, and a set adds.
StructRequest(fields) == Request(-1, fields, "badState")
keyTable == U(1) \o U(2) \o U(2)
keyIdLookupEntry == [get |-> U(1) \o U(2) \o U(1), set |-> Buf(9) \o U(1)]
keyDeviceEntry ==
    [get |-> U(1) \o U(2) \o U(2), set |-> U(2) \o U(1) \o U(1)]
keyUsageEntry == [get |-> U(1) \o U(2) \o U(1), set |-> U(1) \o U(1)]
keyEntry == [get |-> U(1) \o U(2) \o U(1), set |-> Buf(16) \o U(4)]
deviceEntry == [get |-> Times(U(1), 3),
                set |-> U(2) \o U(2) \o Buf(8) \o U(1) \o U(4) \o U(2)]
securityLevelEntry ==
    [get |-> Times(U(1), 3) \o U(2), set |-> Times(U(1), 4)]
mlmeGetSetSecurityReqStruct ==
    LET entries == {keyIdLookupEntry, keyDeviceEntry, keyUsageEntry,
                    keyEntry, deviceEntry, securityLevelEntry}
    IN  {StructRequest(keyTable)}
            \cup {StructRequest(e.get) : e \in entries}
            \cup {StructRequest(e.get \o e.set) : e \in entries}

Requests(sizes) ==
    {mcpsDataReq(msdu, ies) : msdu \in sizes, ies \in sizes}
    \cup {mlmeStartReq(ies) : ies \in sizes}
    \cup {mcpsPurgeReq, mlmeAssociateReq, mlmeDisassociateReq, mlmeOrphanRsp,
          mlmePollReq, mlmeResetReq, mlmeScanReq, mlmeSyncReq, updatePanId,
          srcMatchEnable, mlmeWSAsyncReq, startFH, enableFH,
          mlmeAssociateRsp, secAddDevice, secDeleteDevice,
          secDeleteKeyAndAssocDevices, secDeleteAllDevices,
          secGetDefaultSourceKey, secAddKeyInitFrameCounter}
    \cup mlmeGetReq \cup mlmeGetFhReq \cup mlmeGetSecurityReq
    \cup mlmeSetReq \cup mlmeSetFhReq \cup mlmeSetSecurityReq
    \cup mlmeSetReqArray \cup mlmeSetFhReqArray
    \cup mlmeSetSecurityReqArray \cup mlmeGetSetSecurityReqStruct

\* MT_MSG_format_msg() and the transmission.
format_msg(request) ==
    /\ macLast' = [kind |-> "sent", request |-> request,
                   bytes |-> IF request.announced < 0 THEN request.wrote
                             ELSE request.announced]
    /\ macResult' = request.ends
    /\ UNCHANGED <<macChksum, macCallbacks, macIn>>

\* An array attribute that is not known, and a keyTable that is read or has
\* a value, are refused before anything is sent.
RefusedRequest ==
    /\ macResult' \in {"unsupportedAttribute", "badState"}
    /\ NoCallback
    /\ UNCHANGED <<macChksum, macCallbacks, macIn>>

-----------------------------------------------------------------------------
MacInit ==
    /\ macChksum \in BOOLEAN
    /\ macCallbacks = "null"
    /\ macIn = NoMsg
    /\ macLast = NoEvent
    /\ macResult = ""

\* mt_msg_rx_thread() has put a message on the list: a poll, a request, or
\* an indication of any command, with counts from the set and up to slack
\* bytes more or less than it should have.
MacReceive(counts, slack) ==
    /\ macIn = NoMsg
    /\ \E cmd \in DOMAIN Counts \cup {"unknown"}, areq \in BOOLEAN :
          /\ cmd \in DOMAIN Counts => areq
          /\ \E c \in IF areq /\ cmd # "unknown"
                        THEN [1 .. Counts[cmd] -> counts] ELSE {<<>>} :
                LET m == [cmd |-> cmd, areq |-> areq, counts |-> c,
                          len |-> 0]
                    size == IF cmd = "unknown" THEN 0 ELSE LayoutBytes(m)
                IN  \E len \in {0} \cup (size - slack) .. (size + slack) :
                        /\ len >= 0
                        /\ macIn' = [m EXCEPT !.len = len]
    /\ NoCallback
    /\ UNCHANGED <<macChksum, macCallbacks, macResult>>

MacNext(counts, slack, requests) ==
    /\ macResult # "undefined"
    /\ \/ MacReceive(counts, slack)
       \/ ApiMac_processIncoming
       \/ \E callbacks \in {"null", "none", "all"} :
              ApiMac_registerCallbacks(callbacks)
       \/ \E request \in requests : format_msg(request)
       \/ RefusedRequest

-----------------------------------------------------------------------------
\* Messages are whole.  A callback is called only with a message that is as
\* long as what was read of it: never with one that goes on behind what was
\* read and, where the line has a checksum, never with one that ends before
\* it, although reading past the end is no error of its own (MT_MSG_rdUX_DBG,
\* MT_MSG_rdBuf_DBG, MT_MSG_parseComplete).  A request sends the bytes it has
\* written: the length announced to api_new_msg() is the sum of its fields,
\* and only the index behind a security attribute that is read is cut off.
MessagesWhole ==
    /\ macLast.kind = "called" /\ macLast.cb # "Unprocessed"
         => LET m == macLast.msg
            IN  /\ m.len <= LayoutBytes(m)
                /\ macChksum => m.len = LayoutBytes(m)
    /\ macLast.kind = "sent"
         => IF macLast.request.truncated
            THEN macLast.bytes < macLast.request.wrote
            ELSE macLast.bytes = macLast.request.wrote
=============================================================================
