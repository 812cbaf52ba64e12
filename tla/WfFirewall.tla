----------------------------- MODULE WfFirewall -----------------------------
(***************************************************************************)
(* The filter of wfantund between the tunnel interface and the NCP         *)
(* (src/src/wfantund/NCPInstanceBase-NetInterface.cpp, with the packet     *)
(* rules of src/src/util/IPv6PacketMatcher.cpp): which IPv6 packets pass   *)
(* in either direction, and on which of the NCP's two channels one leaves. *)
(* While commissioning is permitted the filter tracks the connections that *)
(* came in on the insecure channel, and answers them there.                *)
(*                                                                         *)
(* An address is <<scope, name>>.  A packet is [type, subtype, src, dst,   *)
(* sport, dport]; type "none" is a packet that is not IPv6.  In this build *)
(* no NCP state counts as joining or sleeping and no frame is a legacy     *)
(* one.  Nothing in the repository calls permit_join but its own timeout:  *)
(* it is modelled as the call that the control interface offers.           *)
(***************************************************************************)
EXTENDS WfTypes, Integers

CONSTANTS
    TicksPerSecond,  \* the timer counts these, mCommissioningExpiration seconds
    MaxFwTime        \* bound on the ticks

ASSUME FirewallAssumption == TicksPerSecond \in Nat \ {0} /\ MaxFwTime \in Nat

VARIABLES
    fwTime,        \* time, in ticks
    fwState,       \* mNCPState
    fwEnabled,     \* mEnabled
    fwPort,        \* mCommissionerPort
    fwExpiration,  \* mCommissioningExpiration
    fwRule,        \* mCommissioningRule
    fwInsecure,    \* mInsecureFirewall
    fwTimer,       \* when mPermitJoinTimer fires, 0 while it does not run
    fwAsked,       \* the assisting port that the NCP was last asked to open, or 0
    fwMissed,      \* history: mPermitJoinTimer fired while the daemon was disabled
    fwHeard,       \* history: the channel each tracked connection was last heard on
    fwSent         \* the last packet for the NCP: channel, and what was heard before

fwvars == <<fwTime, fwState, fwEnabled, fwPort, fwExpiration, fwRule, fwInsecure,
            fwTimer, fwAsked, fwMissed, fwHeard, fwSent>>

(***************************************************************************)
(* IPv6PacketMatcherRule                                                   *)
(***************************************************************************)
AnyAddress == <<"any", "">>
LinkLocal == <<"link", "">>   \* fe80::/10
NoPort == 0

\* IPv6PacketMatcherRule::clear
AnyRule ==
    [type |-> "all", subtype |-> "all", lport |-> NoPort, laddr |-> AnyAddress,
     rport |-> NoPort, raddr |-> AnyAddress]

HasPorts(type) == type \in {"udp", "tcp"}

update_from_inbound_packet(p) ==
    IF p.type = "none" THEN AnyRule
    ELSE [type    |-> p.type,
          subtype |-> IF p.type = "icmp" THEN p.subtype ELSE "all",
          lport   |-> IF HasPorts(p.type) THEN p.dport ELSE NoPort,
          rport   |-> IF HasPorts(p.type) THEN p.sport ELSE NoPort,
          laddr   |-> IF p.dst[1] = "multicast" THEN AnyAddress ELSE p.dst,
          raddr   |-> p.src]

update_from_outbound_packet(p) ==
    IF p.type = "none" THEN AnyRule
    ELSE [type    |-> p.type,
          subtype |-> IF p.type = "icmp" THEN p.subtype ELSE "all",
          lport   |-> IF HasPorts(p.type) THEN p.sport ELSE NoPort,
          rport   |-> IF HasPorts(p.type) THEN p.dport ELSE NoPort,
          laddr   |-> p.src,
          raddr   |-> p.dst]

\* in6_addr_apply_mask of the address, compared with that of the rule.
InMask(wanted, a) ==
    CASE wanted = AnyAddress -> TRUE
      [] wanted = LinkLocal -> a[1] = "link"
      [] OTHER -> a = wanted

\* What match_inbound and match_outbound have in common.
MatchesHeader(rule, p) ==
    /\ p.type # "none"
    /\ rule.type # "all" => p.type = rule.type
                            /\ (rule.subtype # "all" => p.subtype = rule.subtype)

match_inbound(rule, p) ==
    /\ MatchesHeader(rule, p)
    /\ rule.lport \in {NoPort, p.dport} /\ rule.rport \in {NoPort, p.sport}
    /\ InMask(rule.laddr, p.dst) /\ InMask(rule.raddr, p.src)

match_outbound(rule, p) ==
    /\ MatchesHeader(rule, p)
    /\ rule.lport \in {NoPort, p.sport} /\ rule.rport \in {NoPort, p.dport}
    /\ InMask(rule.laddr, p.src) /\ InMask(rule.raddr, p.dst)

\* mDropFirewall: what the host says to its link is not for the mesh.
mDropFirewall ==
    {[AnyRule EXCEPT !.type = "hopbyhop", !.raddr = <<"multicast", "ff02::16">>]}
    \cup {[AnyRule EXCEPT !.type = "icmp", !.subtype = s, !.raddr = <<"multicast", "ff02::2">>]
             : s \in {"RouterAdv", "RouterSol"}}
    \cup {[AnyRule EXCEPT !.type = "icmp", !.subtype = s]
             : s \in {"NeighborAdv", "NeighborSol", "Redirect"}}

\* mInsecureFirewall.count(rule); the set is ordered by all that a rule has.
Tracked(rule) == rule \in fwInsecure

(***************************************************************************)
(* The commissioning window.                                               *)
(***************************************************************************)
Seconds == fwTime \div TicksPerSecond

CloseWindow ==
    /\ fwExpiration' = 0
    /\ fwInsecure' = {}
    /\ fwHeard' = [flow \in {} |-> ""]

(***************************************************************************)
(* set_commissioniner: without a port the window is not opened; one that   *)
(* was open stays so, with the rule cleared.                               *)
(***************************************************************************)
set_commissioniner(seconds, type, port) ==
    IF seconds > 0 /\ port = NoPort
    THEN /\ fwRule' = AnyRule
         /\ UNCHANGED <<fwExpiration, fwInsecure, fwHeard>>
    ELSE IF seconds > 0
    THEN /\ fwExpiration' = Seconds + seconds
         /\ fwRule' = [AnyRule EXCEPT !.type = type, !.lport = port, !.laddr = LinkLocal]
         /\ UNCHANGED <<fwInsecure, fwHeard>>
    ELSE /\ fwRule' = AnyRule
         /\ CloseWindow

(***************************************************************************)
(* permit_join: refused while the daemon is disabled, and without a port;  *)
(* otherwise the window, the timer that ends it and the NCP's assisting    *)
(* port change together.  The command to the NCP is a task of its own, and *)
(* tasks run in the order in which they were started.                      *)
(***************************************************************************)
permit_join(seconds, type, port) ==
    LET thePort == IF port = NoPort THEN fwPort ELSE port
    IN  IF ~fwEnabled
        THEN UNCHANGED <<fwExpiration, fwRule, fwInsecure, fwHeard, fwTimer, fwAsked>>
        ELSE /\ set_commissioniner(seconds, type, thePort)
             /\ IF seconds > 0 /\ thePort = NoPort
                THEN UNCHANGED <<fwTimer, fwAsked>>
                ELSE /\ fwAsked' = IF seconds > 0 THEN thePort ELSE 0
                     /\ fwTimer' = IF seconds > 0 THEN fwTime + seconds * TicksPerSecond ELSE 0

PermitJoin(seconds, type, port) ==
    /\ permit_join(seconds, type, port)
    /\ fwMissed' = (fwMissed /\ fwAsked' # 0 /\ fwTimer' = 0)
    /\ UNCHANGED <<fwTime, fwState, fwEnabled, fwPort, fwSent>>

\* The timer takes itself off the list, then handle_permit_join_timeout calls permit_join(0).
handle_permit_join_timeout ==
    /\ fwTimer # 0 /\ fwTime >= fwTimer
    /\ IF fwEnabled
       THEN permit_join(0, "all", NoPort) /\ UNCHANGED fwMissed
       ELSE /\ fwTimer' = 0
            /\ fwMissed' = (fwAsked # 0)
            /\ UNCHANGED <<fwExpiration, fwRule, fwInsecure, fwHeard, fwAsked>>
    /\ UNCHANGED <<fwTime, fwState, fwEnabled, fwPort, fwSent>>

\* The properties NestLabs:...:PassthruPort and Daemon:Enabled are set.
SetCommissionerPort(port) ==
    /\ fwPort' = port
    /\ UNCHANGED <<fwTime, fwState, fwEnabled, fwExpiration, fwRule, fwInsecure,
                   fwTimer, fwAsked, fwMissed, fwHeard, fwSent>>

SetEnabled ==
    /\ fwEnabled' = ~fwEnabled
    /\ UNCHANGED <<fwTime, fwState, fwPort, fwExpiration, fwRule, fwInsecure,
                   fwTimer, fwAsked, fwMissed, fwHeard, fwSent>>

(***************************************************************************)
(* handle_ncp_state_change, as far as the window goes: it is closed when   *)
(* the network is left and when the interface goes down, but not when the  *)
(* NCP is lost, nor when the daemon will resume by itself.  mAutoResume is *)
(* left at its default, true.                                              *)
(***************************************************************************)
ClosesWindow(old, new) ==
    LET up(s) == ncp_state_is_interface_up(s)
        resumes == up(old) /\ new = "COMMISSIONED" /\ fwEnabled
    IN  /\ ~(~ncp_state_is_detached_from_ncp(old) /\ ncp_state_is_detached_from_ncp(new))
        /\ ~(~up(old) /\ up(new))
        /\ ~resumes
        /\ \/ /\ ncp_state_is_commissioned(old) /\ ~ncp_state_is_commissioned(new)
              /\ ~ncp_state_is_joining(new) /\ ~ncp_state_is_sleeping(new)
              /\ new # "UNINITIALIZED"
           \/ old = "UNINITIALIZED" /\ new = "OFFLINE"
           \/ up(old) /\ ~up(new) /\ new # "NET_WAKE_WAKING"

FwStateChange(new) ==
    /\ new # fwState
    /\ fwState' = new
    /\ IF ClosesWindow(fwState, new)
       THEN set_commissioniner(0, "none", NoPort)
       ELSE UNCHANGED <<fwExpiration, fwRule, fwInsecure, fwHeard>>
    /\ UNCHANGED <<fwTime, fwEnabled, fwPort, fwTimer, fwAsked, fwMissed, fwSent>>

(***************************************************************************)
(* A packet from the NCP: should_forward_hostbound_frame, which changes    *)
(* the filter whether or not the interface is up.  What passes is written  *)
(* to the tunnel interface and counted by WfStats.                         *)
(***************************************************************************)
Hear(flow, channel) == [f \in DOMAIN fwHeard \cup {flow} |-> IF f = flow THEN channel ELSE fwHeard[f]]

\* The connection a rule belongs to, whatever the subtype.
FlowOf(rule) == [rule EXCEPT !.subtype = "all"]

InsecureFrame(p) ==
    LET rule == update_from_inbound_packet(p)
        track == IF match_inbound(fwRule, p) THEN {FlowOf(rule)}
                 ELSE IF rule.type = "icmp" THEN {rule}
                 ELSE {}
    IN  CASE fwExpiration > Seconds ->
               /\ fwInsecure' = IF Tracked(rule) THEN fwInsecure ELSE fwInsecure \cup track
               /\ fwHeard' = IF Tracked(rule) \/ track # {}
                             THEN Hear(FlowOf(rule), "insecure")
                             ELSE fwHeard
               /\ UNCHANGED fwExpiration
          [] fwExpiration # 0 /\ fwExpiration <= Seconds -> CloseWindow
          [] OTHER -> UNCHANGED <<fwExpiration, fwInsecure, fwHeard>>

SecureFrame_Keeps(p) ==
    LET rule == update_from_inbound_packet(p)
    IN  /\ fwHeard' = IF fwInsecure = {} THEN fwHeard ELSE Hear(FlowOf(rule), "secure")
        /\ UNCHANGED <<fwInsecure, fwExpiration>>

\* A connection that is heard on the secure channel is tracked no more.
SecureFrame(p) ==
    LET rule == update_from_inbound_packet(p)
    IN  /\ fwInsecure' = fwInsecure \ {rule}
        /\ fwHeard' = IF fwInsecure = {} THEN fwHeard ELSE Hear(FlowOf(rule), "secure")
        /\ UNCHANGED fwExpiration

should_forward_hostbound_frame(p, channel) ==
    /\ IF channel = "insecure" THEN InsecureFrame(p) ELSE SecureFrame(p)
    /\ UNCHANGED <<fwTime, fwState, fwEnabled, fwPort, fwRule, fwTimer, fwAsked, fwMissed, fwSent>>

\* The packets that do not pass, and leave the filter as it is.
DropsOutbound(p) ==
    \/ ~ncp_state_is_interface_up(fwState)
    \/ p.type = "none"
    \/ \E rule \in mDropFirewall : match_outbound(rule, p)

(***************************************************************************)
(* A packet from the tunnel interface: should_forward_ncpbound_frame, and  *)
(* the channel that driver_to_ncp_pump gives it.  The rule is looked up    *)
(* before the end of the window is noticed.                                *)
(***************************************************************************)
should_forward_ncpbound_frame(p) ==
    LET flow == FlowOf(update_from_outbound_packet(p))
        tracked == Tracked(flow)
    IN  /\ ~DropsOutbound(p)
        /\ fwSent' = [type    |-> p.type,
                      channel |-> IF tracked \/ fwState = "CREDENTIALS_NEEDED"
                                  THEN "insecure" ELSE "secure",
                      heard   |-> IF flow \in DOMAIN fwHeard THEN fwHeard[flow] ELSE "",
                      joining |-> fwState = "CREDENTIALS_NEEDED"]
        /\ IF fwExpiration # 0 /\ fwExpiration < Seconds
           THEN CloseWindow
           ELSE UNCHANGED <<fwExpiration, fwInsecure, fwHeard>>
    /\ UNCHANGED <<fwTime, fwState, fwEnabled, fwPort, fwRule, fwTimer, fwAsked, fwMissed>>

FwTick ==
    /\ fwTime < MaxFwTime
    /\ fwTime' = fwTime + 1
    /\ UNCHANGED <<fwState, fwEnabled, fwPort, fwExpiration, fwRule, fwInsecure,
                   fwTimer, fwAsked, fwMissed, fwHeard, fwSent>>

FirewallInit(ports) ==
    /\ fwTime = 0
    /\ fwState = "UNINITIALIZED"
    /\ fwEnabled = TRUE
    /\ fwPort \in ports
    /\ fwExpiration = 0
    /\ fwRule = AnyRule
    /\ fwInsecure = {}
    /\ fwTimer = 0
    /\ fwAsked = 0
    /\ fwMissed = FALSE
    /\ fwHeard = [flow \in {} |-> ""]
    /\ fwSent = [type |-> "none", channel |-> "secure", heard |-> "", joining |-> FALSE]

FirewallNext(states, ports, types, inbound, outbound) ==
    \/ \E s \in {0, 1}, t \in types, p \in ports \cup {NoPort} : PermitJoin(s, t, p)
    \/ handle_permit_join_timeout
    \/ \E p \in ports \cup {NoPort} : SetCommissionerPort(p)
    \/ SetEnabled
    \/ \E s \in states : FwStateChange(s)
    \/ \E p \in inbound, c \in {"secure", "insecure"} : should_forward_hostbound_frame(p, c)
    \/ \E p \in outbound : should_forward_ncpbound_frame(p)
    \/ FwTick

FirewallSpec(states, ports, types, inbound, outbound) ==
    FirewallInit(ports) /\ [][FirewallNext(states, ports, types, inbound, outbound)]_fwvars

(***************************************************************************)
(* A connection is answered where it spoke: a packet leaves on the         *)
(* insecure channel only when the last packet of its connection came in    *)
(* there, in the window that is open or has just ended, and never after    *)
(* one on the secure channel.  ICMP is excepted: a subtype of its own      *)
(* hides a tracked rule.  While the NCP needs credentials all is insecure. *)
(***************************************************************************)
AnsweredWhereHeard ==
    /\ \A rule \in fwInsecure :
           rule.type # "icmp" =>
               FlowOf(rule) \in DOMAIN fwHeard /\ fwHeard[FlowOf(rule)] = "insecure"
    /\ fwSent.channel = "insecure" =>
           \/ fwSent.heard = "insecure"
           \/ fwSent.type = "icmp"
           \/ fwSent.joining

(***************************************************************************)
(* The window needs no traffic to end: while it is open its timer runs and *)
(* fires no earlier than the window expires; and the NCP is asked to close *)
(* its assisting port then, unless the daemon was disabled at that time.   *)
(***************************************************************************)
WindowEnds ==
    /\ fwExpiration > Seconds => fwTimer >= fwExpiration * TicksPerSecond
    /\ fwAsked # 0 => fwTimer # 0 \/ fwMissed

\* The insecure channel is used for what was asked for and no longer
\* (NCPInstanceBase-NetInterface.cpp, SpinelNCPControlInterface::permit_join).
InsecureOnlyWhenAsked == AnsweredWhereHeard /\ WindowEnds
=============================================================================
