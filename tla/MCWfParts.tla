----------------------------- MODULE MCWfParts -----------------------------
(***************************************************************************)
(* The parts of wfantund beside the instance and its tasks, each on its    *)
(* own: a behaviour is one of the part that its first state picks, and     *)
(* the others rest.                                                        *)
(***************************************************************************)
EXTENDS WfProps, WfUnpack, WfDataset, WfNet, WfTimer, WfPump, WfStats,
        WfFirewall, WfCapture, WfUpgrade

VARIABLE focus

Parts == {"props", "unpack", "dataset", "net", "timer", "pump", "stats",
          "firewall", "capture", "upgrade"}

\* The inputs S for the part a behaviour is about, any one of them otherwise.
For(p, S) == IF focus = p THEN S ELSE {CHOOSE x \in S : TRUE}

-----------------------------------------------------------------------------
(* Inputs.                                                                 *)

\* Properties that the code treats alike are represented by one; one that needs
\* no capability is like one whose capability the NCP has.
Shape(r) ==
    [get |-> r.get.from, set |-> r.set.to, saved |-> r.set.saved,
     fetched |-> r.fetched, associated |-> r.associated,
     agree |-> \/ 0 \in {Width(r.get.type), Width(r.set.type)}
               \/ Width(r.get.type) = Width(r.set.type),
     command |-> r.name \in DOMAIN SetCapabilityConverted.COUNTERS]
Caps(r) == <<r.get.cap # "-", r.set.cap # "-", r.get.cap = r.set.cap>>
Like(r) == {q \in AllRows : Shape(q) = Shape(r)}
Representatives ==
    {CHOOSE q \in Like(r) : Caps(q) = Caps(r) :
        r \in {q \in AllRows : Needs(q) # {} \/ \A o \in Like(q) : Needs(o) = {}}}

\* What the NCP holds at first.
Datasets ==
    {[active |-> [PSKc |-> "a", RawTlvs |-> "b"], pending |-> Empty],
     [active |-> Empty, pending |-> [NetworkName |-> "b"]]}

\* The kinds of steps that are mixed; the settings matter with some only.
NetKinds ==
    {{"addrs", "admin", "online", "reset"}, {"nets", "users", "online", "reset"},
     {"groups", "services", "online", "reset"}, {"nets", "admin", "users", "online"}}
NetInputs ==
    /\ net.global = "G1" => focus = "net" /\ "addrs" \in netKinds
    /\ ~net.filterself => focus = "net" /\ "nets" \in netKinds

\* A timer of each type, one of which is also scheduled once.
TimersAs == [permit |-> {"OneShot"}, links |-> {"PeriodicFixedDelay"},
             log |-> {"PeriodicFixedRate", "OneShot"}]

\* Packets of three nodes, of which the tables hold two.
StatPackets ==
    [type : {"udp"}, node : {<<1, 1>>, <<1, 2>>}, len : {700}, dir : {"rx", "tx"}]
    \cup [type : {"icmp"}, node : {<<1, 3>>}, len : {700}, dir : {"rx", "tx"}]
    \cup [type : {"tcp"}, node : {<<2, 1>>}, len : {700}, dir : {"rx"}]

\* A joiner that asks over UDP and by echo, and what is sent to it.
Me   == <<"link", "me">>
Peer == <<"link", "peer">>
Inbound(type, subtype, sport, dport) ==
    [type |-> type, subtype |-> subtype, src |-> Peer, dst |-> Me,
     sport |-> sport, dport |-> dport]
Outbound(type, subtype, sport, dport) ==
    [type |-> type, subtype |-> subtype, src |-> Me, dst |-> Peer,
     sport |-> sport, dport |-> dport]
FwIn  == {Inbound("udp", "", 9, 7), Inbound("icmp", "EchoReq", 0, 0)}
FwOut == {Outbound("udp", "", 7, 9), Outbound("icmp", "EchoRep", 0, 0),
          Outbound("icmp", "NeighborSol", 0, 0)}
FwStates == {"FAULT", "OFFLINE", "CREDENTIALS_NEEDED", "ASSOCIATED"}

Captured == {"whole", "metadata too long", "too short"}

-----------------------------------------------------------------------------

MCInit ==
    /\ focus \in Parts
    /\ PropsInit(For("props", Representatives)) /\ (focus # "props" => pCaps = {})
    /\ UnpackInit(For("unpack", Decoders)) /\ (focus # "unpack" => uSent = <<>>)
    /\ DatasetInit(For("dataset", Datasets))
    /\ NetInit(For("net", NetKinds), {"", "G1"}, BOOLEAN) /\ NetInputs
    /\ TimerInit({0})
    /\ PumpInit(For("pump", {"in", "out"}))
    /\ StatInit(For("stats", {"packets", "changes", "settings"}), For("stats", {1, 14}))
    /\ FirewallInit({7})
    /\ CaptureInit
    /\ UpgradeInit /\ (focus # "upgrade" => ~(fw.upgradeFD \/ fw.checkFD \/ fw.auto))

MCNext ==
    /\ UNCHANGED focus
    /\ \/ focus = "props"    /\ PropsNext
       \/ focus = "unpack"   /\ UnpackNext
       \/ focus = "dataset"  /\ DatasetNext
       \/ focus = "net"      /\ NetNext
       \/ focus = "timer"    /\ TimerNext(TimersAs)
       \/ focus = "pump"     /\ PumpNext
       \/ focus = "stats"    /\ StatNext(StatPackets, {1, 3})
       \/ focus = "firewall" /\ FirewallNext(FwStates, {7}, {"udp"}, FwIn, FwOut)
       \/ focus = "capture"  /\ CaptureNext(Captured)
       \/ focus = "upgrade"  /\ UpgradeNext
    /\ focus # "props"    => UNCHANGED pvars
    /\ focus # "unpack"   => UNCHANGED uvars
    /\ focus # "dataset"  => UNCHANGED dvars
    /\ focus # "net"      => UNCHANGED netvars
    /\ focus # "timer"    => UNCHANGED tvars
    /\ focus # "pump"     => UNCHANGED pumpvars
    /\ focus # "stats"    => UNCHANGED svars
    /\ focus # "firewall" => UNCHANGED fwvars
    /\ focus # "capture"  => UNCHANGED capvars
    /\ focus # "upgrade"  => UNCHANGED upvars

MCSpec ==
    MCInit /\ [][MCNext]_<<focus, pvars, uvars, dvars, netvars, tvars, pumpvars,
                           svars, fwvars, capvars, upvars>>

\* The identifier of a frame matters only as that of the running task, those of
\* later tasks are new, and the accepted values are interchangeable: the first
\* that occurs is shown as 1.
PropsView ==
    LET todo == [i \in DOMAIN pTodo |-> pTodo[i].value]
        down == [i \in DOMAIN pDown |-> pDown[i].value]
        up   == [i \in DOMAIN pUp |-> pUp[i].value]
        used == SelectSeq(<<pNcp, pCopy, pSaved>> \o todo \o down \o up,
                          LAMBDA v : v \in Accepted)
        Shown(v) == IF v \in Accepted THEN IF v = used[1] THEN 1 ELSE 2 ELSE v
        FrameView(f) == <<f.cmd, Shown(f.value), Answers(f)>>
        TaskView(t)  == <<t.op, Shown(t.value), t.sent, t.client>>
    IN  <<pRow.name, pCaps, Shown(pNcp), Shown(pCopy), Shown(pSaved),
          [i \in DOMAIN pTodo |-> TaskView(pTodo[i])],
          [i \in DOMAIN pDown |-> FrameView(pDown[i])],
          [i \in DOMAIN pUp |-> FrameView(pUp[i])],
          pStage, pExpected, pIgnored, pAssoc, pTouched, pOwed,
          <<pLeft.calls, pLeft.resets, pLeft.changes>>>>

\* Two states of a behaviour differ in the variables of its part only.
View ==
    <<focus, CASE focus = "props"    -> PropsView
               [] focus = "unpack"   -> uvars
               [] focus = "dataset"  -> dvars
               [] focus = "net"      -> netvars
               [] focus = "timer"    -> tvars
               [] focus = "pump"     -> pumpvars
               [] focus = "stats"    -> svars
               [] focus = "firewall" -> fwvars
               [] focus = "capture"  -> capvars
               [] focus = "upgrade"  -> upvars>>
=============================================================================
