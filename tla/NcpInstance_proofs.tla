------------------------ MODULE NcpInstance_proofs ------------------------
(***************************************************************************)
(* Proofs about NcpInstance: the daemon's books agree with one another,    *)
(* for every number of reset attempts and of frames from the NCP, whether  *)
(* or not it is reliable.                                                  *)
(***************************************************************************)
EXTENDS NcpInstance, TLAPS

-----------------------------------------------------------------------------
(* Scripts are sequences of instructions.                                  *)

\* What is sent, and what is needed.
Sent == {"CONFIGURE", "IF_UP", "STACK_UP", "REQUIRE_JOIN_EXISTING", "STACK_DOWN", "IF_DOWN",
         "NET_CLEAR", "RESET", "LOW_POWER", "PROMISCUOUS_OFF", "COMMISSIONING", "SCAN_MASK",
         "SCAN_STATE", "SCAN_RESULTS", "NOOP", "COMMISSIONING_OFF", "PROP", "CAPS"}
Needed == Capabilities \cup {"PSKd"}

Instructions ==
    [op : {"send"}, arg : Sent]
    \cup [op : {"try"}, arg : {"INIT_PROPERTIES"}]
    \cup [op : {"wait"}, arg : SUBSET NcpStates]
    \cup [op : {"need"}, arg : Needed]
    \cup [op : {"set"}, arg : NcpStates]
    \cup [op : {"ready", "drive"}, arg : {"NormalOperation"}]
    \cup [op : {"firmware"}, arg : {"check"}]

\* An instruction is of a known kind, and those that set a state have one.
LEMMA InstructionFields ==
    ASSUME NEW t \in Instructions
    PROVE  /\ t.op \in Ops
           /\ t.op = "set" => t.arg \in NcpStates
           /\ t.op = "drive" => t.arg = "NormalOperation"
BY DEF Instructions, Ops

\* The instructions of which scripts are made.
LEMMA MadeOf ==
    /\ \A w \in Sent : Send(w) \in Instructions
    /\ Try("INIT_PROPERTIES") \in Instructions
    /\ \A S \in SUBSET NcpStates : Wait(S) \in Instructions
    /\ \A c \in Needed : Need(c) \in Instructions
    /\ \A s \in NcpStates : Become(s) \in Instructions
    /\ Ready \in Instructions /\ Drive("NormalOperation") \in Instructions
    /\ Firmware \in Instructions
BY DEF Send, Try, Wait, Need, Become, Ready, Drive, Firmware, Instructions

\* Scripts of up to eight instructions.
LEMMA Tuples ==
    ASSUME NEW S, NEW a \in S, NEW b \in S, NEW c \in S, NEW d \in S,
           NEW e \in S, NEW f \in S, NEW g \in S, NEW h \in S
    PROVE  /\ <<a>> \in Seq(S) /\ <<a, b>> \in Seq(S) /\ <<a, b, c>> \in Seq(S)
           /\ <<a, b, c, d>> \in Seq(S) /\ <<a, b, c, d, e>> \in Seq(S)
           /\ <<a, b, c, d, e, f>> \in Seq(S) /\ <<a, b, c, d, e, f, g>> \in Seq(S)
           /\ <<a, b, c, d, e, f, g, h>> \in Seq(S)
OBVIOUS

\* Every command, and the initialisation, is a script.
LEMMA ScriptsAreScripts ==
    /\ <<>> \in Seq(Instructions)
    /\ <<Become("Fault")>> \in Seq(Instructions)
    /\ initialise \in Seq(Instructions)
    /\ \A cmd \in Commands : handle(cmd) \in Seq(Instructions)
<1>1. /\ Settled \in Instructions /\ Wait(NcpStates \ AssociatedStates) \in Instructions
      /\ Wait(Initializing) \in Instructions
      /\ Wait(AssociatedStates \cup {"CredentialsNeeded"}) \in Instructions
      /\ Wait(NcpStates \ (Initializing \cup {"Associating", "CredentialsNeeded"})) \in Instructions
  BY MadeOf DEF Settled, Initializing, AssociatedStates, NcpStates
<1>2. /\ Need("ROLE_ROUTER") \in Instructions /\ Need("MCU_POWER_STATE") \in Instructions
      /\ Need("PSKd") \in Instructions
      /\ Become("Associating") \in Instructions /\ Become("Associated") \in Instructions
      /\ Become("DeepSleep") \in Instructions /\ Become("Fault") \in Instructions
      /\ Become("Offline") \in Instructions /\ Become("Uninitialized") \in Instructions
  BY MadeOf DEF Needed, Capabilities, NcpStates
<1>3. \A w \in Sent : Send(w) \in Instructions
  BY MadeOf
<1>4. /\ Send("CONFIGURE") \in Instructions /\ Send("IF_UP") \in Instructions
      /\ Send("STACK_UP") \in Instructions /\ Send("REQUIRE_JOIN_EXISTING") \in Instructions
      /\ Send("STACK_DOWN") \in Instructions /\ Send("IF_DOWN") \in Instructions
      /\ Send("NET_CLEAR") \in Instructions /\ Send("RESET") \in Instructions
      /\ Send("LOW_POWER") \in Instructions /\ Send("PROMISCUOUS_OFF") \in Instructions
      /\ Send("COMMISSIONING") \in Instructions /\ Send("SCAN_MASK") \in Instructions
      /\ Send("SCAN_STATE") \in Instructions /\ Send("SCAN_RESULTS") \in Instructions
      /\ Send("NOOP") \in Instructions /\ Send("COMMISSIONING_OFF") \in Instructions
      /\ Send("PROP") \in Instructions /\ Send("CAPS") \in Instructions
  BY <1>3 DEF Sent
<1>5. /\ Ready \in Instructions /\ Drive("NormalOperation") \in Instructions
      /\ Firmware \in Instructions /\ Try("INIT_PROPERTIES") \in Instructions
  BY MadeOf
<1>6. <<>> \in Seq(Instructions) /\ <<Become("Fault")>> \in Seq(Instructions)
  BY <1>2, Tuples
<1>7. initialise \in Seq(Instructions)
  BY <1>2, <1>4, <1>5, Tuples DEF initialise
<1>8. form \in Seq(Instructions)
  BY <1>1, <1>2, <1>4, Tuples DEF form
<1>9. join \in Seq(Instructions)
  BY <1>1, <1>2, <1>4, Tuples DEF join
<1>10. leave \in Seq(Instructions)
  BY <1>1, <1>4, <1>5, Tuples DEF leave
<1>11. deep_sleep \in Seq(Instructions)
  <2>1. <<Ready>> \in Seq(Instructions)
    BY <1>5, Tuples
  <2>2. <<Ready, Need("MCU_POWER_STATE"), Send("LOW_POWER"), Become("DeepSleep")>>
           \in Seq(Instructions)
    BY <1>2, <1>4, <1>5, Tuples
  <2> QED
    BY <2>1, <2>2 DEF deep_sleep
<1>12. joiner_start \in Seq(Instructions)
  BY <1>1, <1>2, <1>4, Tuples DEF joiner_start
<1>13. scan \in Seq(Instructions)
  BY <1>1, <1>4, Tuples DEF scan
<1>14. /\ <<Become("Uninitialized"), Send("RESET"), Settled>> \in Seq(Instructions)
       /\ <<Settled, Send("NOOP")>> \in Seq(Instructions)
       /\ <<Settled, Send("STACK_UP")>> \in Seq(Instructions)
       /\ <<Settled, Send("IF_DOWN"), Send("COMMISSIONING_OFF")>> \in Seq(Instructions)
       /\ <<Send("PROP")>> \in Seq(Instructions)
  BY <1>1, <1>2, <1>4, Tuples
<1>15. ASSUME NEW cmd \in Commands PROVE handle(cmd) \in Seq(Instructions)
  BY <1>8, <1>9, <1>10, <1>11, <1>12, <1>13, <1>14 DEF handle, Commands
<1> QED
  BY <1>6, <1>7, <1>15

-----------------------------------------------------------------------------
(* The inductive invariant.                                                *)

\* Every frame is on its way, in the frame task, or forwarded; and none was
\* forwarded after the retry loop but the one the frame task held at its end.
InTask == IF forwarding THEN 1 ELSE 0
Counted ==
    /\ status + InTask + notify <= emitted
    /\ status + InTask + late <= emitted
    /\ late + InTask <= 1
    /\ mode \in {"reset", "waiting"} => late = 0
    /\ reset_expected => mode = "waiting"

\* Inside set_ncp_state() the main task is at an instruction to set the state
\* it has just taken; before the initialisation and after the end it has
\* nothing to do.
Placed ==
    /\ script \in Seq(Instructions)
    /\ at # "start" => Doing("set") /\ ncp_state = Arg /\ old # ncp_state
    /\ mode \in {"reset", "waiting", "stopped", "exited"} => script = <<>>

\* What D-Bus clients read follows ncp_state from the second step of
\* set_ncp_state() on, the interface from the third.
SharedAgrees ==
    /\ shared.ncp_state = ncp_state
    /\ ncp_state = "Associated" => shared.is_connected
    /\ ncp_state \in {"Offline", "Uninitialized"} => ~shared.is_connected
TunAgrees == tun_ok => (tun_up <=> ncp_state \in AssociatedStates)
Mirroring ==
    mode # "exited" =>
        /\ at # "mirror" => SharedAgrees
        /\ at \in {"start", "finish"} => TunAgrees

\* The tickle timer is that of the state before set_ncp_state() to its end.
TickleOf(state) == tickle # "none" <=> state = "DeepSleep" /\ config.auto_deep_sleep
Tickling ==
    ~Over => /\ at = "start" => TickleOf(ncp_state)
             /\ at # "start" => TickleOf(old)

NcpInv == TypeOK /\ Counted /\ Placed /\ Mirroring /\ Tickling

-----------------------------------------------------------------------------
(* Every step keeps it.                                                    *)

\* The script and the instruction at its head.
LEMMA AtHead ==
    ASSUME Placed, script # <<>>
    PROVE  /\ Head(script) \in Instructions /\ Tail(script) \in Seq(Instructions)
           /\ Head(script).op \in Ops
           /\ Doing("set") => Arg \in NcpStates
           /\ Doing("drive") => Arg = "NormalOperation"
           /\ mode \notin {"reset", "waiting", "stopped", "exited"} /\ ~Over
           /\ at = "start" \/ Doing("set")
<1>1. Head(script) \in Instructions /\ Tail(script) \in Seq(Instructions)
  BY DEF Placed
<1> QED
  BY <1>1, InstructionFields DEF Placed, Doing, Arg, Over

\* A script is made of instructions of known kinds.
LEMMA KindsOf ==
    ASSUME NEW s \in Seq(Instructions) PROVE \A i \in 1 .. Len(s) : s[i].op \in Ops
<1>1. \A i \in 1 .. Len(s) : s[i] \in Instructions
  OBVIOUS
<1> QED
  BY <1>1, InstructionFields

\* An instruction other than to set the state.
Simple == send \/ try \/ wait_for_state \/ need \/ wait_for_driver_ready
          \/ set_driver_state \/ firmware_check

\* It leaves the books alone and goes on, or ends the script.
LEMMA SimpleDoes ==
    ASSUME NcpInv, Simple
    PROVE  /\ UNCHANGED <<config, at, old, ncp_state, shared, tun_up, tun_ok, sleeping,
                          resetting, cancelled>>
           /\ mode' \in {mode, "ending"} /\ mode \in {"init", "loop", "ending"}
           /\ at = "start" /\ script' \in Seq(Instructions)
           /\ driver_state' \in {"Initializing", "NormalOperation"}
           /\ capabilities' \subseteq Capabilities /\ net_up' \in BOOLEAN
<1>1. script # <<>> /\ ~Doing("set") /\ Placed
  BY DEF NcpInv, Simple, send, try, wait_for_state, need, wait_for_driver_ready,
         set_driver_state, firmware_check, Doing
<1>2. at = "start" /\ mode \in {"init", "loop", "ending"}
  BY <1>1, AtHead DEF NcpInv, TypeOK
<1>3. Tail(script) \in Seq(Instructions) /\ <<>> \in Seq(Instructions)
      /\ <<Become("Fault")>> \in Seq(Instructions)
  BY <1>1, AtHead, ScriptsAreScripts
<1>4. Doing("drive") => Arg = "NormalOperation"
  BY <1>1, AtHead
<1>5. /\ driver_state \in {"Initializing", "NormalOperation"}
      /\ capabilities \subseteq Capabilities /\ net_up \in BOOLEAN
  BY DEF NcpInv, TypeOK
<1>6. CASE send
  <2>1. NetEffect(Arg) \in BOOLEAN
    BY <1>5 DEF NetEffect
  <2>2. net_up' \in BOOLEAN
    BY <1>5, <1>6, <2>1 DEF send
  <2>3. capabilities' \subseteq Capabilities
    BY <1>5, <1>6 DEF send
  <2>4. mode' \in {mode, "ending"} /\ script' \in Seq(Instructions)
    BY <1>3, <1>6 DEF send, Advance, Fail
  <2> QED
    BY <1>2, <1>5, <1>6, <2>2, <2>3, <2>4 DEF send
<1>7. CASE try \/ wait_for_state \/ need \/ wait_for_driver_ready \/ set_driver_state
            \/ firmware_check
  <2>1. mode' \in {mode, "ending"} /\ script' \in Seq(Instructions)
    BY <1>3, <1>7 DEF try, wait_for_state, need, wait_for_driver_ready, set_driver_state,
                      firmware_check, Advance, Fail
  <2>2. /\ UNCHANGED <<config, at, old, ncp_state, shared, tun_up, tun_ok, sleeping,
                       resetting, cancelled, capabilities, net_up>>
    BY <1>7 DEF try, wait_for_state, need, wait_for_driver_ready, set_driver_state,
                firmware_check, driver
  <2>3. driver_state' \in {driver_state, "NormalOperation"}
    BY <1>4, <1>7 DEF try, wait_for_state, need, wait_for_driver_ready, set_driver_state,
                      firmware_check, driver
  <2> QED
    BY <1>2, <1>5, <2>1, <2>2, <2>3
<1> QED
  BY <1>6, <1>7 DEF Simple

\* Such an instruction keeps the invariant.
LEMMA SimpleKeeps ==
    ASSUME NcpInv, Simple PROVE NcpInv'
<1>1. /\ UNCHANGED <<config, at, old, ncp_state, shared, tun_up, tun_ok, tickle, tickle_reset,
                     cancelled>>
      /\ UNCHANGED <<attempt, reset_expected, notify, late, forwarding, status, emitted>>
      /\ mode' \in {mode, "ending"} /\ mode \in {"init", "loop", "ending"}
      /\ at = "start" /\ script' \in Seq(Instructions)
      /\ driver_state' \in {"Initializing", "NormalOperation"}
      /\ capabilities' \subseteq Capabilities /\ net_up' \in BOOLEAN
  BY SimpleDoes DEF sleeping, resetting
<1>2. mode' \in {"init", "loop", "ending"}
  BY <1>1
<1>3. \A i \in 1 .. Len(script') : script'[i].op \in Ops
  BY <1>1, KindsOf
<1>4. TypeOK'
  BY <1>1, <1>2, <1>3 DEF NcpInv, TypeOK
<1>5. Counted'
  BY <1>1, <1>2 DEF NcpInv, Counted, InTask
<1>6. Placed'
  BY <1>1, <1>2 DEF Placed
<1>7. Mirroring'
  BY <1>1, <1>2 DEF NcpInv, Mirroring, SharedAgrees, TunAgrees
<1>8. Tickling'
  BY <1>1, <1>2 DEF NcpInv, Tickling, TickleOf, Over
<1> QED
  BY <1>4, <1>5, <1>6, <1>7, <1>8 DEF NcpInv

\* set_ncp_state() keeps it: the state is taken first, the copies follow.
LEMMA SetKeeps ==
    ASSUME NcpInv, set_start \/ set_mirror \/ set_effects \/ set_finish PROVE NcpInv'
<1>0. Doing("set") /\ script # <<>> /\ Placed
  BY DEF set_start, set_mirror, set_effects, set_finish, Doing, NcpInv
<1>1. /\ Arg \in NcpStates /\ Tail(script) \in Seq(Instructions) /\ script \in Seq(Instructions)
      /\ mode \notin {"reset", "waiting", "stopped", "exited"} /\ ~Over
  BY <1>0, AtHead DEF Placed
<1>2. /\ UNCHANGED <<config, driver_state, capabilities, tickle_reset, cancelled>>
      /\ UNCHANGED <<attempt, reset_expected, notify, late, forwarding, status, emitted>>
  BY DEF set_start, set_mirror, set_effects, set_finish, driver, sleeping, resetting
<1>e. <<>> \in Seq(Instructions)
  BY ScriptsAreScripts
<1>3. script' \in Seq(Instructions) /\ mode' \in {mode, "exited"}
      /\ (mode' = "exited" => script' = <<>>)
  BY <1>1, <1>e DEF set_start, set_mirror, set_effects, set_finish, Advance
<1>4. \A i \in 1 .. Len(script') : script'[i].op \in Ops
  BY <1>3, KindsOf
<1>5. Counted'
  BY <1>1, <1>2, <1>3 DEF NcpInv, Counted, InTask
<1>6. /\ ncp_state \in NcpStates /\ old \in NcpStates /\ shared \in [ncp_state : NcpStates, is_connected : BOOLEAN]
      /\ tun_up \in BOOLEAN /\ tun_ok \in BOOLEAN /\ net_up \in BOOLEAN
      /\ tickle \in {"none", "armed", "done"} /\ at \in {"start", "mirror", "effects", "finish"}
      /\ mode \in {"init", "loop", "ending"}
  BY <1>1 DEF NcpInv, TypeOK
<1>t. ASSUME /\ ncp_state' \in NcpStates /\ old' \in NcpStates
             /\ shared' \in [ncp_state : NcpStates, is_connected : BOOLEAN]
             /\ tun_up' \in BOOLEAN /\ tun_ok' \in BOOLEAN /\ net_up' \in BOOLEAN
             /\ tickle' \in {"none", "armed", "done"}
             /\ at' \in {"start", "mirror", "effects", "finish"}
      PROVE  TypeOK'
  BY <1>2, <1>3, <1>4, <1>6, <1>t DEF NcpInv, TypeOK
<1>7. CASE set_start /\ ncp_state = Arg
  <2>1. /\ UNCHANGED <<at, old, ncp_state, shared, tun_up, tun_ok, tickle, net_up, mode>>
        /\ at = "start"
    BY <1>7 DEF set_start, sleeping
  <2>2. TypeOK'
    BY <1>6, <1>t, <2>1
  <2>3. Placed'
    BY <1>1, <1>3, <2>1 DEF Placed
  <2>4. Mirroring'
    BY <2>1 DEF NcpInv, Mirroring, SharedAgrees, TunAgrees
  <2>5. Tickling'
    BY <1>2, <2>1 DEF NcpInv, Tickling, TickleOf, Over
  <2> QED
    BY <1>5, <2>2, <2>3, <2>4, <2>5 DEF NcpInv
<1>8. CASE set_start /\ ncp_state # Arg
  <2>1. /\ UNCHANGED <<shared, tun_up, tun_ok, tickle, net_up, mode, script>>
        /\ at = "start" /\ at' = "mirror" /\ old' = ncp_state /\ ncp_state' = Arg
    BY <1>8 DEF set_start, sleeping
  <2>2. TypeOK'
    BY <1>1, <1>6, <1>t, <2>1
  <2>3. Placed'
    BY <1>0, <1>1, <1>3, <1>8, <2>1 DEF Placed, Doing, Arg
  <2>4. Mirroring'
    BY <2>1 DEF Mirroring
  <2>5. Tickling'
    BY <1>1, <1>2, <2>1 DEF NcpInv, Tickling, TickleOf, Over
  <2> QED
    BY <1>5, <2>2, <2>3, <2>4, <2>5 DEF NcpInv
<1>9. CASE set_mirror
  <2>1. /\ UNCHANGED <<old, ncp_state, tun_up, tun_ok, tickle, net_up>>
        /\ at = "mirror" /\ shared' = Mirrored(Arg) /\ ncp_state = Arg /\ old # ncp_state
    BY <1>0, <1>9 DEF set_mirror, sleeping, Placed
  <2>2. shared.is_connected \in BOOLEAN
    BY <1>6
  <2>3. /\ shared' \in [ncp_state : NcpStates, is_connected : BOOLEAN]
        /\ shared'.ncp_state = Arg
        /\ Arg = "Associated" => shared'.is_connected
        /\ Arg \in {"Offline", "Uninitialized"} => ~shared'.is_connected
    BY <1>1, <2>1, <2>2 DEF Mirrored
  <2>4. SharedAgrees'
    BY <2>1, <2>3 DEF SharedAgrees
  <2>5. CASE mode' = "exited" /\ script' = <<>> /\ at' = "start"
    <3>1. TypeOK'
      BY <1>6, <1>t, <2>1, <2>3, <2>5
    <3>2. Placed'
      BY <1>3, <2>5 DEF Placed
    <3>3. Mirroring' /\ Tickling'
      BY <2>5 DEF Mirroring, Tickling, Over
    <3> QED
      BY <1>5, <3>1, <3>2, <3>3 DEF NcpInv
  <2>6. CASE at' = "effects" /\ UNCHANGED <<mode, script>>
    <3>1. TypeOK'
      BY <1>6, <1>t, <2>1, <2>3, <2>6
    <3>2. Placed'
      BY <1>0, <1>1, <2>1, <2>6 DEF Placed, Doing, Arg
    <3>3. Mirroring'
      BY <2>4, <2>6 DEF Mirroring
    <3>4. Tickling'
      BY <1>1, <1>2, <2>1, <2>6 DEF NcpInv, Tickling, TickleOf, Over
    <3> QED
      BY <1>5, <3>1, <3>2, <3>3, <3>4 DEF NcpInv
  <2> QED
    BY <1>9, <2>5, <2>6 DEF set_mirror
<1>10. CASE set_effects
  <2>1. /\ UNCHANGED <<old, ncp_state, shared, tickle, mode, script>>
        /\ at = "effects" /\ at' = "finish" /\ ncp_state = Arg
        /\ net_up' \in {net_up, TRUE}
    BY <1>0, <1>10 DEF set_effects, sleeping, Placed
  <2>2. TunTarget(Arg) \in BOOLEAN
    BY DEF TunTarget
  <2>3. tun_up' \in BOOLEAN /\ tun_ok' \in BOOLEAN
    BY <1>6, <1>10, <2>2 DEF set_effects
  <2>4. TunAgrees'
    BY <1>10, <2>1 DEF set_effects, TunAgrees, TunTarget
  <2>5. TypeOK'
    BY <1>6, <1>t, <2>1, <2>3
  <2>6. Placed'
    BY <1>0, <1>1, <2>1 DEF Placed, Doing, Arg
  <2>7. Mirroring'
    BY <1>1, <2>1, <2>4 DEF NcpInv, Mirroring, SharedAgrees
  <2>8. Tickling'
    BY <1>1, <1>2, <2>1 DEF NcpInv, Tickling, TickleOf, Over
  <2> QED
    BY <1>5, <2>5, <2>6, <2>7, <2>8 DEF NcpInv
<1>11. CASE set_finish
  <2>1. /\ UNCHANGED <<old, ncp_state, shared, tun_up, tun_ok, mode, net_up>>
        /\ at = "finish" /\ at' = "start" /\ ncp_state = Arg /\ old # ncp_state
        /\ tickle' = Retickle(Arg)
    BY <1>0, <1>11 DEF set_finish, driver, Placed
  <2>2. tickle' \in {"none", "armed", "done"}
    BY <1>6, <2>1 DEF Retickle
  <2>3. tickle # "none" <=> old = "DeepSleep" /\ config.auto_deep_sleep
    BY <1>1, <2>1 DEF NcpInv, Tickling, TickleOf
  <2>4. tickle' # "none" <=> ncp_state = "DeepSleep" /\ config.auto_deep_sleep
    BY <2>1, <2>3 DEF Retickle
  <2>5. TypeOK'
    BY <1>6, <1>t, <2>1, <2>2
  <2>6. Placed'
    BY <1>1, <1>3, <2>1 DEF Placed
  <2>7. Mirroring'
    BY <1>1, <2>1 DEF NcpInv, Mirroring, SharedAgrees, TunAgrees
  <2>8. Tickling'
    BY <1>2, <2>1, <2>4 DEF Tickling, TickleOf
  <2> QED
    BY <1>5, <2>5, <2>6, <2>7, <2>8 DEF NcpInv
<1> QED
  BY <1>7, <1>8, <1>9, <1>10, <1>11

\* The retry loop, and run() around the scripts.
Running == send_reset \/ reset_acknowledged \/ reset_timeout \/ resets_exhausted
           \/ enter_loop \/ (\E cmd \in Commands : handle_command(cmd)) \/ stop

\* They keep the invariant: they have nothing to do when they begin.
LEMMA RunningKeeps ==
    ASSUME NcpInv, Running PROVE NcpInv'
<1>0. /\ MaxResets \in Nat \ {0} /\ MaxStatus \in Nat
      /\ attempt \in 0 .. MaxResets /\ notify \in 0 .. MaxStatus
      /\ mode \in {"reset", "waiting", "init", "loop", "ending", "stopped", "exited"}
      /\ at \in {"start", "mirror", "effects", "finish"}
  BY ConstantsAssumption DEF NcpInv, TypeOK
<1>1. script = <<>> /\ at = "start" /\ mode \notin {"stopped", "exited"}
  <2>1. script = <<>> /\ mode \notin {"stopped", "exited"}
    BY DEF Running, send_reset, reset_acknowledged, reset_timeout, resets_exhausted, enter_loop,
           handle_command, stop, Idle, NcpInv, Placed
  <2> QED
    BY <2>1 DEF NcpInv, Placed, Doing
<1>2. /\ UNCHANGED <<config, at, old, ncp_state, driver_state, capabilities, shared, tun_up, tun_ok>>
      /\ UNCHANGED <<tickle_reset, late, forwarding, status, emitted, cancelled>>
  BY DEF Running, send_reset, reset_acknowledged, reset_timeout, resets_exhausted, enter_loop,
         handle_command, stop, driver, sleeping, resetting
<1>3. /\ script' \in Seq(Instructions)
      /\ mode' \in {"reset", "waiting", "stopped", "exited"} => script' = <<>>
  <2>1. /\ <<>> \in Seq(Instructions) /\ <<Become("Fault")>> \in Seq(Instructions)
        /\ initialise \in Seq(Instructions) /\ \A cmd \in Commands : handle(cmd) \in Seq(Instructions)
    BY ScriptsAreScripts
  <2>2. CASE send_reset \/ reset_acknowledged \/ reset_timeout \/ resets_exhausted
             \/ enter_loop \/ stop
    BY <1>1, <2>1, <2>2 DEF send_reset, reset_acknowledged, reset_timeout,
         resets_exhausted, enter_loop, stop, GiveUp
  <2>3. CASE \E cmd \in Commands : handle_command(cmd)
    <3>1. PICK cmd \in Commands : handle_command(cmd)
      BY <2>3
    <3> QED
      BY <2>1, <3>1 DEF handle_command, Idle
  <2> QED
    BY <2>2, <2>3 DEF Running
<1>4. \A i \in 1 .. Len(script') : script'[i].op \in Ops
  BY <1>3, KindsOf
<1>5. /\ mode' \in {"reset", "waiting", "init", "loop", "ending", "stopped"}
      /\ mode' \in {"reset", "waiting"} => mode \in {"reset", "waiting"}
      /\ mode' # "stopped" => tickle' = tickle
      /\ tickle' \in {tickle, "none"}
  BY <1>0, <1>1 DEF Running, send_reset, reset_acknowledged, reset_timeout, resets_exhausted, enter_loop,
         handle_command, stop, Idle, GiveUp, sleeping
<1>6. attempt' \in 0 .. MaxResets
  BY <1>0 DEF Running, send_reset, reset_acknowledged, reset_timeout, resets_exhausted, enter_loop,
         handle_command, stop, RetriesLeft, CountAttempt, resetting
<1>7. notify' \in 0 .. MaxStatus /\ notify' <= notify
  BY <1>0 DEF Running, send_reset, reset_acknowledged, reset_timeout, resets_exhausted, enter_loop,
         handle_command, stop, resetting
<1>8. reset_expected' \in BOOLEAN /\ net_up' \in BOOLEAN
  BY DEF Running, send_reset, reset_acknowledged, reset_timeout, resets_exhausted, enter_loop,
         handle_command, stop, resetting, ClearExpected, NcpInv, TypeOK
<1>9. reset_expected' => mode' = "waiting"
  <2>1. reset_expected => mode = "waiting"
    BY DEF NcpInv, Counted
  <2> QED
    BY <1>1, <2>1 DEF Running, send_reset, reset_acknowledged, reset_timeout, resets_exhausted,
         enter_loop, handle_command, stop, resetting, ClearExpected, Idle
<1>10. TypeOK'
  BY <1>2, <1>4, <1>5, <1>6, <1>7, <1>8 DEF NcpInv, TypeOK
<1>11. Counted'
  <2>1. /\ status \in Nat /\ InTask \in Nat /\ notify \in Nat /\ emitted \in Nat
        /\ notify' \in Nat /\ InTask' = InTask
    BY <1>0, <1>2, <1>7 DEF NcpInv, TypeOK, InTask
  <2>2. status + InTask + notify <= emitted
    BY DEF NcpInv, Counted
  <2>a. \A a, b, c, d, e \in Nat : a + b + c <= d /\ e <= c => a + b + e <= d
    OBVIOUS
  <2>3. status + InTask + notify' <= emitted
    BY <1>7, <2>1, <2>2, <2>a
  <2> QED
    BY <1>2, <1>5, <1>9, <2>1, <2>3 DEF NcpInv, Counted
<1>12. Placed'
  BY <1>1, <1>2, <1>3 DEF Placed
<1>13. Mirroring'
  BY <1>1, <1>2 DEF NcpInv, Mirroring, SharedAgrees, TunAgrees
<1>14. Tickling'
  BY <1>1, <1>2, <1>5 DEF NcpInv, Tickling, TickleOf, Over
<1> QED
  BY <1>10, <1>11, <1>12, <1>13, <1>14 DEF NcpInv

\* The other tasks and the environment keep it.
LEMMA OthersKeep ==
    ASSUME NcpInv, frame_task_read \/ frame_task_forward \/ tickle_fires \/ tickle_sends
                   \/ NcpStatus \/ cancel
    PROVE  NcpInv'
<1>0. MaxStatus \in Nat
  BY ConstantsAssumption
<1>1. UNCHANGED <<config, mode, script, at, old>> /\ UNCHANGED <<attempt, reset_expected>>
      /\ UNCHANGED <<ncp_state, driver_state, capabilities, shared, tun_up, tun_ok>>
  BY DEF frame_task_read, frame_task_forward, tickle_fires, tickle_sends, NcpStatus, cancel,
         main, driver, resetting
<1>2. /\ status \in 0 .. MaxStatus /\ emitted \in 0 .. MaxStatus /\ notify \in 0 .. MaxStatus
      /\ late \in 0 .. MaxStatus /\ forwarding \in BOOLEAN /\ reset_expected \in BOOLEAN
  BY DEF NcpInv, TypeOK
<1>3. /\ status + InTask + notify <= emitted /\ status + InTask + late <= emitted
      /\ late + InTask <= 1
      /\ mode \in {"reset", "waiting"} => late = 0
      /\ reset_expected => mode = "waiting"
  BY DEF NcpInv, Counted
<1>4. /\ status' \in 0 .. MaxStatus /\ emitted' \in 0 .. MaxStatus /\ notify' \in 0 .. MaxStatus
      /\ late' \in 0 .. MaxStatus /\ forwarding' \in BOOLEAN /\ Counted'
  <2>1. CASE frame_task_read
    <3>1. /\ status > 0 /\ ~forwarding /\ status' = status - 1 /\ forwarding' = reset_expected
          /\ UNCHANGED <<notify, late, emitted>>
      BY <2>1 DEF frame_task_read
    <3>2. InTask = 0 /\ InTask' \in {0, 1} /\ (InTask' = 1 => mode = "waiting")
      BY <1>3, <3>1 DEF InTask
    <3>3. forwarding' \in BOOLEAN
      BY <1>2, <3>1
    <3>a. \A a \in 0 .. MaxStatus, b \in {0, 1}, c, d \in 0 .. MaxStatus :
             a > 0 /\ a + 0 + c <= d => a - 1 \in 0 .. MaxStatus /\ a - 1 + b + c <= d
      BY <1>0
    <3>4. /\ status' \in 0 .. MaxStatus /\ status' + InTask' + notify <= emitted
          /\ status' + InTask' + late <= emitted
      BY <1>2, <1>3, <3>1, <3>2, <3>a
    <3>b. late <= 1 /\ (InTask' = 1 => late = 0)
      BY <1>2, <1>3, <3>2
    <3>c. \A a \in Nat, b \in {0, 1} : a <= 1 /\ (b = 1 => a = 0) => a + b <= 1
      OBVIOUS
    <3>d. late \in Nat /\ InTask' \in {0, 1}
      BY <1>0, <1>2, <3>2
    <3>5. late + InTask' <= 1
      BY <3>b, <3>c, <3>d, Zenon
    <3> QED
      BY <1>1, <1>2, <1>3, <3>1, <3>3, <3>4, <3>5 DEF Counted
  <2>2. CASE frame_task_forward
    <3>1. /\ forwarding /\ ~forwarding' /\ forwarding' \in BOOLEAN /\ notify' = notify + 1
          /\ late' = IF mode \in {"reset", "waiting"} THEN late ELSE late + 1
          /\ UNCHANGED <<status, emitted>>
      BY <2>2 DEF frame_task_forward
    <3>2. InTask = 1 /\ InTask' = 0
      BY <3>1 DEF InTask
    <3>3. /\ notify' \in 0 .. MaxStatus /\ late' \in 0 .. MaxStatus
          /\ status + 0 + notify' <= emitted /\ status + 0 + late' <= emitted
          /\ late' + 0 <= 1
      BY <1>0, <1>2, <1>3, <3>1, <3>2
    <3> QED
      BY <1>1, <1>2, <1>3, <3>1, <3>2, <3>3 DEF Counted
  <2>3. CASE tickle_fires \/ tickle_sends \/ cancel
    <3>1. UNCHANGED <<notify, late, forwarding, status, emitted>>
      BY <2>3 DEF tickle_fires, tickle_sends, cancel, resetting
    <3> QED
      BY <1>1, <1>2, <1>3, <3>1 DEF Counted, InTask
  <2>4. CASE NcpStatus
    <3>1. /\ emitted < MaxStatus /\ emitted' = emitted + 1 /\ status' = status + 1
          /\ UNCHANGED <<notify, late, forwarding>>
      BY <2>4 DEF NcpStatus
    <3>2. InTask' = InTask /\ InTask \in {0, 1}
      BY <3>1 DEF InTask
    <3>3. /\ status' + InTask + notify <= emitted' /\ status' + InTask + late <= emitted'
          /\ emitted' \in 0 .. MaxStatus /\ status' \in 0 .. MaxStatus
      BY <1>0, <1>2, <1>3, <3>1, <3>2
    <3> QED
      BY <1>1, <1>2, <1>3, <3>1, <3>2, <3>3 DEF Counted
  <2> QED
    BY <2>1, <2>2, <2>3, <2>4
<1>5. /\ tickle' \in {"none", "armed", "done"}
      /\ tickle' # "none" <=> tickle # "none"
      /\ tickle_reset' \in BOOLEAN /\ cancelled' \in BOOLEAN /\ net_up' \in BOOLEAN
  BY DEF frame_task_read, frame_task_forward, tickle_fires, tickle_sends, NcpStatus, cancel,
         sleeping, NcpInv, TypeOK
<1>6. TypeOK'
  BY <1>1, <1>4, <1>5 DEF NcpInv, TypeOK
<1>7. Placed'
  BY <1>1 DEF NcpInv, Placed, Doing, Arg
<1>8. Mirroring'
  BY <1>1 DEF NcpInv, Mirroring, SharedAgrees, TunAgrees
<1>9. Tickling'
  BY <1>1, <1>5 DEF NcpInv, Tickling, TickleOf, Over
<1> QED
  BY <1>4, <1>6, <1>7, <1>8, <1>9 DEF NcpInv

-----------------------------------------------------------------------------

\* The daemon's books agree with one another (instance/base.rs, tasks/):
\* outside set_ncp_state() what D-Bus clients read and the host interface
\* follow ncp_state, between commands a tickle timer exists exactly while the
\* daemon sleeps with AutoDeepSleep, and at most one reset notification slips
\* through after the retry loop; for every number of reset attempts and of
\* frames, in whatever order commands, failures and frames come.
THEOREM BooksAgree == Spec => []NcpConsistent
<1>1. Init => NcpInv
  <2> SUFFICES ASSUME Init PROVE NcpInv
    OBVIOUS
  <2>1. MaxResets \in Nat /\ MaxStatus \in Nat
    BY ConstantsAssumption
  <2>2. <<>> \in Seq(Instructions) /\ Len(<<>>) = 0
    OBVIOUS
  <2>3. TypeOK
    <3>1. shared \in [ncp_state : NcpStates, is_connected : BOOLEAN] /\ ncp_state \in NcpStates
          /\ old \in NcpStates
      BY DEF Init, NcpStates
    <3>2. \A i \in 1 .. Len(script) : script[i].op \in Ops
      BY <2>2 DEF Init
    <3>3. 0 \in 0 .. MaxResets /\ 0 \in 0 .. MaxStatus
      BY <2>1
    <3> QED
      BY <3>1, <3>2, <3>3 DEF Init, TypeOK
  <2>4. Counted
    BY DEF Init, Counted, InTask
  <2>5. Placed
    BY <2>2 DEF Init, Placed
  <2>6. Mirroring
    BY DEF Init, Mirroring, SharedAgrees, TunAgrees, AssociatedStates
  <2>7. Tickling
    BY DEF Init, Tickling, TickleOf
  <2> QED
    BY <2>3, <2>4, <2>5, <2>6, <2>7 DEF NcpInv
<1>2. NcpInv /\ [Next]_vars => NcpInv'
  <2>1. ASSUME NcpInv, Next PROVE NcpInv'
    <3>1. \/ Simple \/ set_start \/ set_mirror \/ set_effects \/ set_finish \/ Running
          \/ frame_task_read \/ frame_task_forward \/ tickle_fires \/ tickle_sends
          \/ NcpStatus \/ cancel
      BY <2>1 DEF Next, Proceed, Simple, Running
    <3> QED
      BY <2>1, <3>1, SimpleKeeps, SetKeeps, RunningKeeps, OthersKeep
  <2>2. ASSUME NcpInv, UNCHANGED vars PROVE NcpInv'
    <3>1. UNCHANGED <<config, mode, script, at, old>> /\ UNCHANGED <<attempt, reset_expected, notify, late>>
          /\ UNCHANGED <<ncp_state, driver_state, capabilities, shared, tun_up, tun_ok>>
          /\ UNCHANGED <<forwarding, status, emitted, cancelled, net_up, tickle, tickle_reset>>
      BY <2>2 DEF vars, main, driver, sleeping, resetting
    <3>2. TypeOK'
      BY <2>2, <3>1 DEF NcpInv, TypeOK
    <3>3. Counted'
      BY <2>2, <3>1 DEF NcpInv, Counted, InTask
    <3>4. Placed'
      BY <2>2, <3>1 DEF NcpInv, Placed, Doing, Arg
    <3>5. Mirroring'
      BY <2>2, <3>1 DEF NcpInv, Mirroring, SharedAgrees, TunAgrees
    <3>6. Tickling'
      BY <2>2, <3>1 DEF NcpInv, Tickling, TickleOf, Over
    <3> QED
      BY <3>2, <3>3, <3>4, <3>5, <3>6 DEF NcpInv
  <2> QED
    BY <2>1, <2>2
<1>3. NcpInv => NcpConsistent
  <2> SUFFICES ASSUME NcpInv PROVE NcpConsistent
    OBVIOUS
  <2>1. MirrorsAgree
    BY DEF NcpInv, Mirroring, MirrorsAgree, SharedAgrees, TunAgrees
  <2>2. TickleMatchesState
    <3> SUFFICES ASSUME Idle PROVE tickle # "none" <=> ncp_state = "DeepSleep" /\ config.auto_deep_sleep
      BY DEF TickleMatchesState
    <3>1. at = "start" /\ ~Over
      BY DEF Idle, NcpInv, Placed, Doing, Over
    <3> QED
      BY <3>1 DEF NcpInv, Tickling, TickleOf
  <2>3. AtMostOneLate
    BY DEF NcpInv, Counted, InTask, AtMostOneLate, TypeOK
  <2> QED
    BY <2>1, <2>2, <2>3 DEF NcpInv, NcpConsistent
<1> QED
  BY <1>1, <1>2, <1>3, PTL DEF Spec

=============================================================================
