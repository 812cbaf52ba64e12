------------------------------ MODULE WfStats ------------------------------
(***************************************************************************)
(* The statistics of wfantund (src/src/wfantund/StatCollector.cpp): the    *)
(* counters and histories of packets, of NCP states and of blocked host    *)
(* sleep, the table of nodes with its pool of entries, the stat            *)
(* properties and the periodic log; with the ring buffer and the pool they *)
(* are kept in (src/src/util/RingBuffer.h, ObjectPool.h).                  *)
(*                                                                         *)
(* A time stamp is a wrapping clock of StatWrap values in which 0 stands   *)
(* for "never".  A packet is [type, node, len, dir]; an address is a pair  *)
(* of its first word and the rest, for the table compares only the rest.   *)
(* The table of links has no one that fills it and is left out.            *)
(***************************************************************************)
EXTENDS Integers, Sequences, FiniteSets

LOCAL INSTANCE FiniteSetsExt
LOCAL INSTANCE SequencesExt

CONSTANTS
    StatWrap,       \* the range of the clock
    HistorySize,    \* STAT_COLLECTOR_RX_HISTORY_SIZE and its like
    NodeHistory,    \* STAT_COLLECTOR_PER_NODE_RX_HISTORY_SIZE
    MaxNodes,       \* STAT_COLLECTOR_MAX_NODES
    MaxStatEvents   \* bound on the packets, changes and calls

ASSUME StatAssumption ==
    /\ StatWrap \in Nat /\ StatWrap > 2
    /\ {HistorySize, NodeHistory, MaxNodes} \subseteq Nat \ {0}

VARIABLES
    sClock,    \* time_ms()
    sCount,    \* packets and kilobytes in each direction, by type
    sRings,    \* mRxHistory, mTxHistory, mNCPStateHistory, mReadyForSleepHistory
    sNodes,    \* mNodeInfoMap: the pool entry of each known address
    sFree,     \* mFreeElementList of mNodeInfoPool
    sPool,     \* its entries: NodeInfo
    sSleep,    \* mLastReadyForHostSleepState and mLastBlockingHostSleepTime
    sLog,      \* mAutoLogState, mAutoLogPeriod, the levels and the two timers
    sReply,    \* the last answer of the stat properties
    sSeen,     \* history: all that was recorded, oldest first
    sAge,      \* history: how long ago each known node was last heard of
    sKind      \* what this behaviour is about: "packets", "changes" or "settings"

svars == <<sClock, sCount, sRings, sNodes, sFree, sPool, sSleep, sLog, sReply, sSeen, sAge, sKind>>

(***************************************************************************)
(* RingBuffer                                                              *)
(***************************************************************************)
Ring(size) == [buffer |-> [i \in 0 .. size - 1 |-> <<>>], read |-> 0, write |-> 0, count |-> 0]

RingSize(r) == Cardinality(DOMAIN r.buffer)

\* force_write: when the ring is full the oldest value is overwritten.
force_write(r, v) ==
    LET next == (r.write + 1) % RingSize(r)
    IN  [buffer |-> [r.buffer EXCEPT ![r.write] = v],
         write  |-> next,
         read   |-> IF r.count = RingSize(r) THEN next ELSE r.read,
         count  |-> IF r.count = RingSize(r) THEN r.count ELSE r.count + 1]

\* back(): the newest value; the callers ask only of a ring that has one.
RingBack(r) == r.buffer[IF r.write = 0 THEN RingSize(r) - 1 ELSE r.write - 1]

\* What ReverseIterator goes through: from back() until it has been at mReadIdx.
Newest(r) ==
    LET size == RingSize(r)
        at(i) == (r.write - i + size) % size
        n == IF r.count = 0 THEN 0 ELSE Min({i \in 1 .. size : at(i) = r.read})
    IN  [i \in 1 .. n |-> r.buffer[at(i)]]

(***************************************************************************)
(* TimeStamp                                                               *)
(***************************************************************************)
\* set_to_now: the time 0 would mean "never", so it becomes the one before.
set_to_now == IF sClock = 0 THEN StatWrap - 1 ELSE sClock

Never == 0

\* operator<
StampBefore(a, b) == 2 * ((a - b) % StatWrap) >= StatWrap

(***************************************************************************)
(* NodeStat: nodes by address, in entries of a pool.                       *)
(***************************************************************************)
\* ObjectPool::free_all
AllFree == [i \in 1 .. MaxNodes |-> MaxNodes - i + 1]

\* NodeInfo::clear
NewNodeInfo == [rx |-> 0, tx |-> 0, rxs |-> Ring(NodeHistory), txs |-> Ring(NodeHistory)]

\* IPAddress::operator< leaves the first word of the address out.
SameNode(a, b) == a[2] = b[2]

last_time(ring) == IF ring.count = 0 THEN Never ELSE RingBack(ring).at

last_rx_or_tx_time_RxOnly(info) == last_time(info.rxs)

\* get_last_rx_or_tx_time
last_rx_or_tx_time(info) ==
    LET rx == last_time(info.rxs)
        tx == last_time(info.txs)
    IN  IF rx = Never THEN tx
        ELSE IF tx = Never \/ ~StampBefore(rx, tx) THEN rx ELSE tx

\* remove_oldest_node_info looks for it in the order of the map.
OldestNode ==
    LET stamp(a) == last_rx_or_tx_time(sPool[sNodes[a]])
        inOrder == SetToSortSeq(DOMAIN sNodes, LAMBDA a, b : a[2] < b[2])
    IN  FoldLeft(LAMBDA oldest, a : IF StampBefore(stamp(a), stamp(oldest)) THEN a ELSE oldest,
                 Head(inOrder), Tail(inOrder))

(***************************************************************************)
(* find_node_info, or create_new_node_info: the entry of an address, the   *)
(* table without the node that had to make room, and the free list.        *)
(***************************************************************************)
NodeEntry(addr) ==
    LET known == {a \in DOMAIN sNodes : SameNode(a, addr)}
        full == sFree = <<>>
        old == OldestNode
        kept == IF full THEN [a \in DOMAIN sNodes \ {old} |-> sNodes[a]] ELSE sNodes
        free == IF full THEN <<sNodes[old]>> ELSE sFree
    IN  IF known # {}
        THEN [key |-> CHOOSE a \in known : TRUE, nodes |-> sNodes, free |-> sFree, fresh |-> FALSE]
        ELSE [key |-> addr,
              nodes |-> [a \in DOMAIN kept \cup {addr} |->
                             IF a = addr THEN Head(free) ELSE kept[a]],
              free |-> Tail(free), fresh |-> TRUE]

\* PacketInfo::update_from_packet
PacketInfo(p) == [type |-> p.type, node |-> p.node, len |-> p.len, at |-> set_to_now]

\* BytesTotal::add, in bytes and in 1024 of them.
AddBytes(c, len) ==
    [c EXCEPT !.bytes = (@ + len) % 1024, !.kilo = @ + ((c.bytes + len) \div 1024)]

\* update_from_inbound_packet and update_from_outbound_packet of NodeStat.
UpdateNode(was, dir, info) ==
    IF dir = "rx"
    THEN [was EXCEPT !.rx = @ + 1, !.rxs = force_write(@, info)]
    ELSE [was EXCEPT !.tx = @ + 1, !.txs = force_write(@, info)]

(***************************************************************************)
(* record_inbound_packet and record_outbound_packet: of an IPv6 packet,    *)
(* the counters, the history of the direction and the node are updated.    *)
(* Time passes between packets.                                            *)
(***************************************************************************)
record_packet(p) ==
    LET info == PacketInfo(p)
        e == NodeEntry(p.node)
        slot == e.nodes[e.key]
        was == IF e.fresh THEN NewNodeInfo ELSE sPool[slot]
        counted == [sCount[p.dir] EXCEPT !.total = @ + 1, ![p.type] = @ + 1]
    IN  /\ sKind = "packets" /\ Len(sSeen) < MaxStatEvents
        /\ sCount' = [sCount EXCEPT ![p.dir] = AddBytes(counted, p.len)]
        /\ sRings' = [sRings EXCEPT ![p.dir] = force_write(@, info)]
        /\ sNodes' = e.nodes
        /\ sFree' = e.free
        /\ sPool' = [sPool EXCEPT ![slot] = UpdateNode(was, p.dir, info)]
        /\ sSeen' = Append(sSeen, <<p.dir, info>>)
        /\ sAge' = [a \in DOMAIN e.nodes |-> IF a = e.key THEN 0 ELSE sAge[a]]
        /\ UNCHANGED <<sClock, sSleep, sLog, sReply, sKind>>

StatTick(d) ==
    /\ Len(sSeen) < MaxStatEvents
    /\ sSeen # <<>> /\ \E a \in DOMAIN sAge : sAge[a] = 0
    /\ sClock' = (sClock + d) % StatWrap
    /\ sAge' = [a \in DOMAIN sAge |-> sAge[a] + d]
    /\ UNCHANGED <<sCount, sRings, sNodes, sFree, sPool, sSleep, sLog, sReply, sSeen, sKind>>

(***************************************************************************)
(* property_changed: the NCP's state, and whether the host may sleep.      *)
(***************************************************************************)
record_ncp_state_change(s) ==
    /\ sRings' = [sRings EXCEPT !["ncp"] = force_write(@, s)]
    /\ sSeen' = Append(sSeen, <<"ncp", s>>)
    /\ UNCHANGED sSleep

record_ncp_ready_for_host_sleep_state(ready) ==
    LET period == [from |-> sSleep.since, to |-> set_to_now]
    IN  /\ ready # sSleep.ready   \* otherwise it returns at once
        /\ sSleep' = [ready |-> ready, since |-> IF ready THEN sSleep.since ELSE set_to_now]
        /\ IF ready
           THEN /\ sRings' = [sRings EXCEPT !["sleep"] = force_write(@, period)]
                /\ sSeen' = Append(sSeen, <<"sleep", period>>)
           ELSE UNCHANGED <<sRings, sSeen>>

property_changed ==
    /\ sKind = "changes" /\ Len(sSeen) < MaxStatEvents
    /\ sClock' = (sClock + 1) % StatWrap
    /\ \/ \E s \in {"offline", "associated"} : record_ncp_state_change(s)
       \/ \E r \in BOOLEAN : record_ncp_ready_for_host_sleep_state(r)
    /\ UNCHANGED <<sCount, sNodes, sFree, sPool, sLog, sReply, sAge, sKind>>

(***************************************************************************)
(* The stat properties.  get_stat_property lists histories, newest first:  *)
(* the short version the ten newest entries, the long one all of them; and *)
(* nodes, with their counts or their packets.                              *)
(***************************************************************************)
ShortCount == 10

ListOf ==
    [Short |-> [rings |-> {"tx", "rx", "ncp"}, count |-> ShortCount, nodes |-> "counts"],
     Long |-> [rings |-> {"tx", "rx", "ncp"}, count |-> 0, nodes |-> "packets"],
     RX |-> [rings |-> {}, count |-> 0, nodes |-> "none"],
     TX |-> [rings |-> {}, count |-> 0, nodes |-> "none"],
     RXHistory |-> [rings |-> {"rx"}, count |-> 0, nodes |-> "none"],
     TXHistory |-> [rings |-> {"tx"}, count |-> 0, nodes |-> "none"],
     History |-> [rings |-> {"rx", "tx"}, count |-> 0, nodes |-> "none"],
     NCP |-> [rings |-> {"ncp"}, count |-> 0, nodes |-> "none"],
     BlockingHostSleep |-> [rings |-> {"sleep"}, count |-> 0, nodes |-> "none"],
     Node |-> [rings |-> {}, count |-> 0, nodes |-> "counts"],
     NodeHistory |-> [rings |-> {}, count |-> 0, nodes |-> "packets"]]

\* The loops of add_tx_history and its like: count entries, all for 0.
Listing(l) ==
    [r \in l.rings |->
        LET all == Newest(sRings[r])
            n == IF l.count = 0 \/ l.count > Len(all) THEN Len(all) ELSE l.count
        IN  SubSeq(all, 1, n)]

\* add_node_info, and add_tx_stat and add_rx_stat of a node.
NodeReport(a, what) ==
    LET info == sPool[sNodes[a]]
    IN  [rx |-> info.rx, tx |-> info.tx,
         packets |-> IF what = "packets" THEN Newest(info.txs) \o Newest(info.rxs) ELSE <<>>]

\* add_node_stat and add_node_stat_history
NodeListing(what) ==
    [a \in IF what = "none" THEN {} ELSE DOMAIN sNodes |-> NodeReport(a, what)]

get_stat_property(key) ==
    IF key \in DOMAIN ListOf
    THEN [status |-> "Ok", list |-> Listing(ListOf[key]), nodes |-> NodeListing(ListOf[key].nodes)]
    ELSE [status |-> "PropertyNotFound", list |-> <<>>, nodes |-> <<>>]

\* property_get_value: the settings of the log, or a list.
GetStat(key) ==
    /\ sReply' = IF key \in DOMAIN sLog
                 THEN [status |-> "Ok", list |-> <<sLog[key]>>, nodes |-> <<>>]
                 ELSE get_stat_property(key)
    /\ UNCHANGED <<sClock, sCount, sRings, sNodes, sFree, sPool, sSleep, sLog, sSeen, sAge, sKind>>

\* update_auto_log_timer: the timer runs unless the log is disabled.
update_auto_log_timer(log) ==
    [log EXCEPT !.timer = IF log.AutoLogState = "disabled" THEN 0 ELSE log.AutoLogPeriod]

\* The values of a setting that property_set_value takes.
Settings ==
    [AutoLogState |-> {"disabled", "short", "long"}, AutoLogPeriod |-> {1, 30},
     AutoLogLevel |-> {"info", "debug"}, UserLevel |-> {"info", "debug"},
     LinkQualityPeriod |-> {0, 60}]

\* update_link_stat_timer: a timer that is cancelled keeps the interval that is read back.
update_link_stat_timer(interval) == IF interval = 0 THEN sLog.LinkQualityPeriod ELSE interval

(***************************************************************************)
(* property_set_value: a setting, when its value is right; a new state or  *)
(* period of the log restarts its timer, the same state does not.  A list  *)
(* that is set is written to the log.                                      *)
(***************************************************************************)
SetStat(key, value) ==
    LET set == [sLog EXCEPT ![key] =
                   IF key = "LinkQualityPeriod" THEN update_link_stat_timer(value) ELSE value]
    IN  /\ sLog' = IF key = "AutoLogPeriod" \/ (key = "AutoLogState" /\ sLog[key] # value)
                   THEN update_auto_log_timer(set)
                   ELSE set
        /\ sReply' = [status |-> "Ok", list |-> <<>>, nodes |-> <<>>]
        /\ UNCHANGED <<sClock, sCount, sRings, sNodes, sFree, sPool, sSleep, sSeen, sAge, sKind>>

RefuseStat ==
    /\ sReply' = [status |-> "InvalidArgument", list |-> <<>>, nodes |-> <<>>]
    /\ UNCHANGED <<sClock, sCount, sRings, sNodes, sFree, sPool, sSleep, sLog, sSeen, sAge, sKind>>

\* auto_log_timer_did_fire: the long or the short list is written to the log.
auto_log_timer_did_fire ==
    /\ sLog.timer # 0 /\ sKind # "packets"
    /\ sReply' = get_stat_property(IF sLog.AutoLogState = "long" THEN "Long" ELSE "Short")
    /\ UNCHANGED <<sClock, sCount, sRings, sNodes, sFree, sPool, sSleep, sLog, sSeen, sAge, sKind>>

StatCall ==
    \/ sKind = "changes" /\ \E k \in DOMAIN ListOf \cup {"Unknown"} : GetStat(k)
    \/ sKind = "settings" /\ \E k \in DOMAIN Settings : GetStat(k)
    \/ sKind = "settings" /\ \E k \in DOMAIN Settings : \E v \in Settings[k] : SetStat(k, v)
    \/ sKind = "settings" /\ RefuseStat
    \/ auto_log_timer_did_fire

\* StatCollector::StatCollector
StatInit(kinds, starts) ==
    /\ sKind \in kinds
    /\ sClock \in starts
    /\ sCount = [d \in {"rx", "tx"} |-> [total |-> 0, udp |-> 0, tcp |-> 0, icmp |-> 0, bytes |-> 0, kilo |-> 0]]
    /\ sRings = [r \in {"rx", "tx", "ncp", "sleep"} |-> Ring(HistorySize)]
    /\ sNodes = <<>>
    /\ sFree = AllFree
    /\ sPool = [i \in 1 .. MaxNodes |-> NewNodeInfo]
    /\ sSleep = [ready |-> TRUE, since |-> Never]
    /\ sLog = update_auto_log_timer(
                 [AutoLogState |-> "short", AutoLogPeriod |-> 30, AutoLogLevel |-> "info",
                  UserLevel |-> "info", LinkQualityPeriod |-> 0, timer |-> 0])
    /\ sReply = [status |-> "Ok", list |-> <<>>, nodes |-> <<>>]
    /\ sSeen = <<>>
    /\ sAge = <<>>

StatNext(packets, delays) ==
    \/ \E p \in packets : record_packet(p)
    \/ \E d \in delays : StatTick(d)
    \/ property_changed
    \/ StatCall

\* The last n that were recorded under key, newest first.
LatestOf(key, n) ==
    LET all == SelectSeq(sSeen, LAMBDA e : e[1] = key)
        m == IF Len(all) < n THEN Len(all) ELSE n
    IN  [i \in 1 .. m |-> all[Len(all) - i + 1][2]]

(***************************************************************************)
(* What a client reads is the end of what happened: each history lists,    *)
(* newest first, exactly the last entries that were recorded, the ring     *)
(* having gone round or not; every entry of the pool is free or belongs to *)
(* one node, never both, so no two nodes share their counts; the bytes of  *)
(* a direction add up to those of its packets; and the log has a timer     *)
(* exactly when it is enabled.                                             *)
(***************************************************************************)
HistoriesAreLatest ==
    /\ \A r \in DOMAIN sRings : Newest(sRings[r]) = LatestOf(r, HistorySize)
    /\ \A d \in DOMAIN sCount :
           LET all == LatestOf(d, Len(sSeen))
           IN  1024 * sCount[d].kilo + sCount[d].bytes
                   = FoldLeft(LAMBDA sum, p : sum + p.len, 0, all)
    /\ \A a, b \in DOMAIN sNodes : a # b => sNodes[a] # sNodes[b]
    /\ Len(sFree) + Cardinality(DOMAIN sNodes) = MaxNodes
    /\ Range(sFree) \cap {sNodes[a] : a \in DOMAIN sNodes} = {}
    /\ (sLog.timer = 0) <=> (sLog.AutoLogState = "disabled")

(***************************************************************************)
(* A full table makes room by forgetting the node that was quiet for the   *)
(* longest, as long as no node was quiet for half of the clock's range; a  *)
(* millisecond may be wrong, for the stamp 0 is not used.                  *)
(***************************************************************************)
ForgetsTheQuietest ==
    [][\A a \in DOMAIN sNodes \ DOMAIN sNodes' :
           (\A b \in DOMAIN sNodes : 2 * (sAge[b] + 1) < StatWrap)
               => \A b \in DOMAIN sNodes : sAge[b] <= sAge[a] + 1]_svars

\* The statistics are those of what happened, within the memory they have
\* (StatCollector.cpp).
StatsFaithful == []HistoriesAreLatest /\ ForgetsTheQuietest
=============================================================================
