---------------------------- MODULE NcpInstance ----------------------------
(***************************************************************************)
(* The life of NcpInstanceBase (dcu-tunnel-daemon/src/instance/base.rs):   *)
(* the initialisation and main loop of run(), set_ncp_state() with its     *)
(* side effects, handle_command() with the tasks under src/tasks/, and the *)
(* tasks that run beside the main task: the frame task that forwards reset *)
(* notifications, and the deep-sleep tickle timer.                         *)
(*                                                                         *)
(* What the main task still has to do before its next select! is a script: *)
(* a sequence of operations that it awaits one after the other.  A command *)
(* sent to the NCP succeeds or fails (module Transactions shows that it    *)
(* always returns); wait_for_state() succeeds or times out.                *)
(***************************************************************************)
EXTENDS Naturals, Sequences

CONSTANTS
    NcpReliable,  \* TRUE: every command is answered OK, no unexpected reset
    MaxResets,    \* 3: MAX_RESET_RETRIES
    MaxStatus     \* bound: LAST_STATUS frames the NCP emits

ASSUME ConstantsAssumption ==
    /\ NcpReliable \in BOOLEAN
    /\ MaxResets \in Nat \ {0}
    /\ MaxStatus \in Nat

NcpStates == {"Uninitialized", "Fault", "Upgrading", "DeepSleep", "Offline",
              "Commissioned", "Associating", "CredentialsNeeded",
              "Associated", "Isolated", "NetWakeWaking", "NetWakeAsleep"}

\* NcpState::is_initializing(), is_associated().
Initializing == {"Uninitialized", "Upgrading"}
AssociatedStates == {"Associated", "Isolated", "NetWakeWaking", "NetWakeAsleep"}

Capabilities == {"ROLE_ROUTER", "MCU_POWER_STATE"}
Configs == [terminate_on_fault : BOOLEAN, auto_deep_sleep : BOOLEAN,
            auto_associate : BOOLEAN]

VARIABLES
    config,           \* the flags of Config; never changes
    ncp_state,        \* ncp_state
    driver_state,     \* driver_state
    capabilities,     \* capabilities, from PROP_CAPS
    shared,           \* DaemonState as D-Bus clients read it
    tun_up,           \* the host interface is up
    tun_ok,           \* ghost: the last set_up() ioctl succeeded
    tickle,           \* deep_sleep_tickle_task: "none", "armed" or "done"
    tickle_reset,     \* the tickle task has decided to send CMD_RESET
    mode,             \* where run() is
    script,           \* what the main task still has to do
    at, old,          \* position inside set_ncp_state(), and its local `old`
    attempt,          \* CMD_RESET attempts made
    reset_expected,   \* reset_expected
    notify,           \* frames in the reset_notify channel
    late,             \* ghost: frames forwarded after the retry loop
    forwarding,       \* the frame task has read reset_expected = true
    status,           \* LAST_STATUS frames on their way to the frame task
    emitted,          \* LAST_STATUS frames emitted so far
    cancelled,        \* SIGINT or SIGTERM was received
    net_up            \* external: the NCP's network stack is up

main == <<mode, script, at, old>>
driver == <<ncp_state, driver_state, capabilities, shared, tun_up, tun_ok>>
sleeping == <<tickle, tickle_reset>>
resetting == <<attempt, reset_expected, notify, late, forwarding, status, emitted>>
vars == <<config, main, driver, sleeping, resetting, cancelled, net_up>>

-----------------------------------------------------------------------------
(* Scripts.                                                                *)

Send(what) == [op |-> "send", arg |-> what]  \* an error ends the script
Try(what) == [op |-> "try", arg |-> what]    \* an error is logged
Wait(states) == [op |-> "wait", arg |-> states]
Need(cap) == [op |-> "need", arg |-> cap]
Become(state) == [op |-> "set", arg |-> state]
Ready == [op |-> "ready", arg |-> "NormalOperation"]
Drive(state) == [op |-> "drive", arg |-> state]
Firmware == [op |-> "firmware", arg |-> "check"]

Settled == Wait(NcpStates \ Initializing)

\* form() and join(), with configure_network() as one command.
form ==
    <<Settled, Wait(NcpStates \ AssociatedStates), Need("ROLE_ROUTER"),
      Become("Associating"), Send("CONFIGURE"), Send("IF_UP"),
      Send("STACK_UP"), Become("Associated")>>
join ==
    <<Settled, Wait(NcpStates \ AssociatedStates),
      Become("Associating"), Send("CONFIGURE"), Send("IF_UP"),
      Send("REQUIRE_JOIN_EXISTING"), Send("STACK_UP"), Become("Associated")>>
leave ==
    <<Settled, Send("STACK_DOWN"), Send("IF_DOWN"), Send("NET_CLEAR"),
      Send("RESET"), Wait(Initializing), Settled, Ready>>
deep_sleep ==
    IF ncp_state = "DeepSleep" THEN <<Ready>>
    ELSE <<Ready, Need("MCU_POWER_STATE"), Send("LOW_POWER"),
           Become("DeepSleep")>>
joiner_start ==
    <<Settled, Need("PSKd"), Send("PROMISCUOUS_OFF"), Send("IF_UP"),
      Send("COMMISSIONING"), Send("STACK_UP"),
      Wait(AssociatedStates \cup {"CredentialsNeeded"})>>
\* scan().  The collector slot that it fills after the wait and clears at its end,
\* and the lock of that slot, are the state of module ScanCollector; nothing in
\* this module reads the slot, and that the lock is free is assumed here.
scan ==
    <<Wait(NcpStates \ (Initializing \cup {"Associating", "CredentialsNeeded"})),
      Send("SCAN_MASK"), Send("SCAN_STATE"), Send("SCAN_RESULTS")>>

Commands == {"Reset", "Leave", "Form", "Join", "ConfigGateway",
             "BeginLowPower", "HostDidWake", "Attach", "JoinerAttach",
             "JoinerStart", "JoinerStop", "NetScanStart", "Passthrough"}

\* handle_command(): what the arm of each command awaits.  GetProperty,
\* SetProperty, Peek, Poke, the list and commissioner operations and the
\* other single sends are "Passthrough".
handle(cmd) ==
    CASE cmd = "Reset" -> <<Become("Uninitialized"), Send("RESET"), Settled>>
      [] cmd = "Leave" -> leave
      [] cmd \in {"Form", "ConfigGateway"} -> form
      [] cmd = "Join" -> join
      [] cmd = "BeginLowPower" -> deep_sleep
      [] cmd = "HostDidWake" -> <<Settled, Send("NOOP")>>
      [] cmd \in {"Attach", "JoinerAttach"} -> <<Settled, Send("STACK_UP")>>
      [] cmd = "JoinerStart" -> joiner_start
      [] cmd = "JoinerStop" -> <<Settled, Send("IF_DOWN"), Send("COMMISSIONING_OFF")>>
      [] cmd = "NetScanStart" -> scan
      [] cmd = "Passthrough" -> <<Send("PROP")>>

\* validate_command(): the states in which a command is let through.
validate_command(cmd) ==
    CASE cmd \in {"Form", "Join"} -> {"Offline", "Fault"}
      [] cmd = "Leave" -> AssociatedStates \cup {"Commissioned"}
      [] cmd = "Attach" -> {"Offline"}
      [] cmd = "BeginLowPower" -> AssociatedStates
      [] cmd = "NetScanStart" -> NcpStates \ Initializing
      [] OTHER -> NcpStates

\* The rest of run() once the NCP has acknowledged a reset.
initialise ==
    <<Send("CAPS"), Become("Offline"), Drive("NormalOperation"),
      Try("INIT_PROPERTIES"), Firmware>>

-----------------------------------------------------------------------------
(* The main task.                                                          *)

\* The NCP's network stack after it has, or may have, executed a command.
NetEffect(what) ==
    CASE what = "STACK_UP" -> TRUE
      [] what \in {"STACK_DOWN", "RESET"} -> FALSE
      [] OTHER -> net_up

Doing(op) == script # <<>> /\ Head(script).op = op
Arg == Head(script).arg

Advance == script' = Tail(script)

\* The `?` operator: handle_command() returns its error, which run() drops;
\* during initialisation run() sets Fault and returns.
Fail ==
    IF mode = "init"
    THEN mode' = "ending" /\ script' = <<Become("Fault")>>
    ELSE mode' = mode /\ script' = <<>>

\* send_command(): OK, or an error with or without effect on the NCP.
send ==
    /\ Doing("send")
    /\ \/ /\ Advance
          /\ net_up' = NetEffect(Arg)
          /\ capabilities' \in IF Arg = "CAPS" THEN SUBSET Capabilities
                               ELSE {capabilities}
          /\ UNCHANGED mode
       \/ /\ ~NcpReliable
          /\ Fail
          /\ net_up' \in {net_up, NetEffect(Arg)}
          /\ UNCHANGED capabilities
    /\ UNCHANGED <<config, at, old, ncp_state, driver_state, shared, tun_up,
                   tun_ok, sleeping, resetting, cancelled>>

\* A send whose error is only logged.
try ==
    /\ Doing("try")
    /\ Advance
    /\ UNCHANGED <<config, mode, at, old, driver, sleeping, resetting,
                   cancelled, net_up>>

\* wait_for_state(): the predicate holds now, or the deadline passes (only
\* the main task, which is waiting, calls set_ncp_state()).
wait_for_state_NoDeadline ==
    /\ Doing("wait")
    /\ ncp_state \in Arg
    /\ Advance
    /\ UNCHANGED <<config, mode, at, old, driver, sleeping, resetting,
                   cancelled, net_up>>
wait_for_state ==
    /\ Doing("wait")
    /\ IF ncp_state \in Arg THEN Advance /\ UNCHANGED mode ELSE Fail
    /\ UNCHANGED <<config, at, old, driver, sleeping, resetting, cancelled,
                   net_up>>

\* has_capability(), or a mandatory parameter that may be missing.
need ==
    /\ Doing("need")
    /\ \/ Arg \notin Capabilities \ capabilities /\ Advance /\ UNCHANGED mode
       \/ Arg \notin capabilities /\ Fail
    /\ UNCHANGED <<config, at, old, driver, sleeping, resetting, cancelled,
                   net_up>>

\* wait_for_driver_ready().
wait_for_driver_ready ==
    /\ Doing("ready")
    /\ IF driver_state = Arg THEN Advance /\ UNCHANGED mode ELSE Fail
    /\ UNCHANGED <<config, at, old, driver, sleeping, resetting, cancelled,
                   net_up>>

set_driver_state ==
    /\ Doing("drive")
    /\ driver_state' = Arg
    /\ Advance
    /\ UNCHANGED <<config, mode, at, old, ncp_state, capabilities, shared,
                   tun_up, tun_ok, sleeping, resetting, cancelled, net_up>>

\* The firmware check: nothing to do, upgraded, or a failed upgrade.
firmware_check ==
    /\ Doing("firmware")
    /\ script' \in {<<>>, <<Become("Fault")>>}
    /\ UNCHANGED <<config, mode, at, old, driver, sleeping, resetting,
                   cancelled, net_up>>

\* set_ncp_state(): nothing happens when the state does not change.
set_start ==
    /\ Doing("set")
    /\ at = "start"
    /\ IF ncp_state = Arg
       THEN Advance /\ UNCHANGED <<at, old, ncp_state>>
       ELSE /\ at' = "mirror"
            /\ old' = ncp_state
            /\ ncp_state' = Arg
            /\ UNCHANGED script
    /\ UNCHANGED <<config, mode, driver_state, capabilities, shared, tun_up,
                   tun_ok, sleeping, resetting, cancelled, net_up>>

\* DaemonState as set_ncp_state() leaves it.
Mirrored(state) ==
    [ncp_state |-> state,
     is_connected |-> CASE state \in {"Offline", "Uninitialized"} -> FALSE
                        [] state \in {"Associated", "Isolated"} -> TRUE
                        [] OTHER -> shared.is_connected]

\* After the NCP was put into low power (if it is to sleep), DaemonState is
\* updated under its lock; with TerminateOnFault, Fault ends the process.
set_mirror ==
    /\ Doing("set")
    /\ at = "mirror"
    /\ shared' = Mirrored(Arg)
    /\ IF Arg = "Fault" /\ config.terminate_on_fault
       THEN mode' = "exited" /\ script' = <<>> /\ at' = "start"
       ELSE at' = "effects" /\ UNCHANGED <<mode, script>>
    /\ UNCHANGED <<config, old, ncp_state, driver_state, capabilities, tun_up,
                   tun_ok, sleeping, resetting, cancelled, net_up>>

TunTarget_AnyState(state) == TRUE
TunTarget(state) == state \in AssociatedStates

AutoAssociates(state) ==
    config.auto_associate /\ old \in Initializing /\ state = "Offline"

\* The TUN follows the NCP (a failed ioctl is logged); the retain command is
\* awaited; AutoAssociateAfterReset and the PHY settings follow a reset.
set_effects ==
    /\ Doing("set")
    /\ at = "effects"
    /\ at' = "finish"
    /\ \/ tun_up' = TunTarget(Arg) /\ tun_ok' = TRUE
       \/ tun_ok' = FALSE /\ UNCHANGED tun_up
    /\ net_up' \in {net_up} \cup (IF AutoAssociates(Arg) THEN {TRUE} ELSE {})
    /\ UNCHANGED <<config, mode, script, old, ncp_state, driver_state,
                   capabilities, shared, sleeping, resetting, cancelled>>

\* The tickle timer is started on entering DeepSleep and aborted on leaving.
Retickle(state) ==
    IF state # "DeepSleep" THEN "none"
    ELSE IF config.auto_deep_sleep /\ tickle = "none" THEN "armed"
    ELSE tickle

set_finish ==
    /\ Doing("set")
    /\ at = "finish"
    /\ at' = "start"
    /\ tickle' = Retickle(Arg)
    /\ Advance
    /\ UNCHANGED <<config, mode, old, driver, tickle_reset, resetting,
                   cancelled, net_up>>

-----------------------------------------------------------------------------
(* run().                                                                  *)

GiveUp == mode' = "ending" /\ script' = <<Become("Fault")>>

\* for attempt in 0..MAX_RESET_RETRIES
RetriesLeft == attempt < MaxResets

CountAttempt_Forgets == attempt' = attempt
CountAttempt == attempt' = attempt + 1

\* One attempt of the retry loop: hard reset on even attempts, CMD_RESET.
\* The send fails when the I/O task is gone.
send_reset ==
    /\ mode = "reset"
    /\ RetriesLeft
    /\ CountAttempt
    /\ net_up' = FALSE
    /\ \/ /\ mode' = "waiting"
          /\ reset_expected' = TRUE
          /\ UNCHANGED script
       \/ /\ ~NcpReliable
          /\ reset_expected' = FALSE
          /\ GiveUp
    /\ UNCHANGED <<config, at, old, driver, sleeping, notify, late,
                   forwarding, status, emitted, cancelled>>

\* Every way out of the wait clears reset_expected.
ClearExpected == reset_expected' = FALSE

\* reset_notify_rx yields a frame, whichever reset it answers.
reset_acknowledged ==
    /\ mode = "waiting"
    /\ notify > 0
    /\ notify' = notify - 1
    /\ ClearExpected
    /\ mode' = "init"
    /\ script' = initialise
    /\ UNCHANGED <<config, at, old, driver, sleeping, attempt, late,
                   forwarding, status, emitted, cancelled, net_up>>

reset_timeout ==
    /\ mode = "waiting"
    /\ notify = 0
    /\ ClearExpected
    /\ mode' = "reset"
    /\ UNCHANGED <<config, script, at, old, driver, sleeping, attempt, notify,
                   late, forwarding, status, emitted, cancelled, net_up>>

resets_exhausted ==
    /\ mode = "reset"
    /\ attempt = MaxResets
    /\ GiveUp
    /\ UNCHANGED <<config, at, old, driver, sleeping, resetting, cancelled,
                   net_up>>

enter_loop ==
    /\ mode = "init"
    /\ script = <<>>
    /\ mode' = "loop"
    /\ UNCHANGED <<config, script, at, old, driver, sleeping, resetting,
                   cancelled, net_up>>

Idle == mode = "loop" /\ script = <<>>

\* The command branch of select!; a refused command changes nothing.
handle_command(cmd) ==
    /\ Idle
    /\ ncp_state \in validate_command(cmd)
    /\ script' = handle(cmd)
    /\ UNCHANGED <<config, mode, at, old, driver, sleeping, resetting,
                   cancelled, net_up>>

\* run() returns, main() calls stop(): the tickle timer is aborted.
stop ==
    /\ \/ Idle /\ cancelled
       \/ mode = "ending" /\ script = <<>>
    /\ mode' = "stopped"
    /\ tickle' = "none"
    /\ UNCHANGED <<config, script, at, old, driver, tickle_reset, resetting,
                   cancelled, net_up>>

Over == mode \in {"stopped", "exited"}

-----------------------------------------------------------------------------
(* The other tasks, and the environment.                                   *)

\* The frame task takes a LAST_STATUS frame and reads reset_expected ...
frame_task_read ==
    /\ ~Over
    /\ status > 0
    /\ ~forwarding
    /\ status' = status - 1
    /\ forwarding' = reset_expected
    /\ UNCHANGED <<config, main, driver, sleeping, attempt, reset_expected,
                   notify, late, emitted, cancelled, net_up>>

\* ... and then sends the frame to reset_notify_tx.
frame_task_forward ==
    /\ ~Over
    /\ forwarding
    /\ forwarding' = FALSE
    /\ notify' = notify + 1
    /\ late' = IF mode \in {"reset", "waiting"} THEN late ELSE late + 1
    /\ UNCHANGED <<config, main, driver, sleeping, attempt, reset_expected,
                   status, emitted, cancelled, net_up>>

\* The timer fires: the task reads ncp_state ...
tickle_fires ==
    /\ ~Over
    /\ tickle = "armed"
    /\ ~tickle_reset
    /\ tickle' = "done"
    /\ tickle_reset' = (ncp_state = "DeepSleep")
    /\ UNCHANGED <<config, main, driver, resetting, cancelled, net_up>>

\* ... and then sends CMD_RESET; it has no await between the two.
tickle_sends ==
    /\ ~Over
    /\ tickle_reset
    /\ tickle_reset' = FALSE
    /\ net_up' = FALSE
    /\ UNCHANGED <<config, main, driver, tickle, resetting, cancelled>>

\* External: the NCP reports LAST_STATUS, after a reset it was asked for or
\* after one it was not.
NcpStatus ==
    /\ ~Over
    /\ emitted < MaxStatus
    /\ emitted' = emitted + 1
    /\ status' = status + 1
    /\ net_up' \in IF NcpReliable THEN {net_up} ELSE {net_up, FALSE}
    /\ UNCHANGED <<config, main, driver, sleeping, attempt, reset_expected,
                   notify, late, forwarding, cancelled>>

cancel ==
    /\ ~cancelled
    /\ ~Over
    /\ cancelled' = TRUE
    /\ UNCHANGED <<config, main, driver, sleeping, resetting, net_up>>

-----------------------------------------------------------------------------

Init ==
    /\ config \in Configs
    /\ ncp_state = "Uninitialized"
    /\ driver_state = "Initializing"
    /\ capabilities = {}
    /\ shared = [ncp_state |-> "Uninitialized", is_connected |-> FALSE]
    /\ tun_up = FALSE
    /\ tun_ok = TRUE
    /\ tickle = "none"
    /\ tickle_reset = FALSE
    /\ mode = "reset"
    /\ script = <<>>
    /\ at = "start"
    /\ old = "Uninitialized"
    /\ attempt = 0
    /\ reset_expected = FALSE
    /\ notify = 0
    /\ late = 0
    /\ forwarding = FALSE
    /\ status = 0
    /\ emitted = 0
    /\ cancelled = FALSE
    /\ net_up = FALSE

\* The steps that the main task takes by itself, at the latest when a timer
\* fires.
Proceed ==
    \/ send \/ try \/ wait_for_state \/ need \/ wait_for_driver_ready
    \/ set_driver_state \/ firmware_check
    \/ set_start \/ set_mirror \/ set_effects \/ set_finish
    \/ send_reset \/ reset_acknowledged \/ reset_timeout \/ resets_exhausted
    \/ enter_loop

Next ==
    \/ Proceed
    \/ \E cmd \in Commands : handle_command(cmd)
    \/ stop
    \/ frame_task_read \/ frame_task_forward
    \/ tickle_fires \/ tickle_sends
    \/ NcpStatus
    \/ cancel

\* Tokio polls the main task and fires its timers.  select! polls its
\* branches in random order, so a cancelled token is noticed even while
\* commands keep coming.
Fairness == WF_vars(Proceed) /\ SF_vars(stop)

Spec == Init /\ [][Next]_vars /\ Fairness

-----------------------------------------------------------------------------

Ops == {"send", "try", "wait", "need", "set", "ready", "drive", "firmware"}

TypeOK ==
    /\ config \in Configs
    /\ ncp_state \in NcpStates
    /\ driver_state \in {"Initializing", "NormalOperation"}
    /\ capabilities \subseteq Capabilities
    /\ shared \in [ncp_state : NcpStates, is_connected : BOOLEAN]
    /\ tun_up \in BOOLEAN
    /\ tun_ok \in BOOLEAN
    /\ tickle \in {"none", "armed", "done"}
    /\ tickle_reset \in BOOLEAN
    /\ mode \in {"reset", "waiting", "init", "loop", "ending", "stopped", "exited"}
    /\ \A i \in 1 .. Len(script) : script[i].op \in Ops
    /\ at \in {"start", "mirror", "effects", "finish"}
    /\ old \in NcpStates
    /\ attempt \in 0 .. MaxResets
    /\ reset_expected \in BOOLEAN
    /\ notify \in 0 .. MaxStatus
    /\ late \in 0 .. MaxStatus
    /\ forwarding \in BOOLEAN
    /\ status \in 0 .. MaxStatus
    /\ emitted \in 0 .. MaxStatus
    /\ cancelled \in BOOLEAN
    /\ net_up \in BOOLEAN

\* Outside set_ncp_state(), the three copies of the NCP's state agree: what
\* D-Bus clients read, whether the host interface is up (unless its last
\* ioctl failed), and ncp_state; whatever commands, failures and fault exits
\* led there.
MirrorsAgree ==
    at = "start" /\ mode # "exited" =>
        /\ shared.ncp_state = ncp_state
        /\ tun_ok => (tun_up <=> ncp_state \in AssociatedStates)
        /\ ncp_state = "Associated" => shared.is_connected
        /\ ncp_state \in {"Offline", "Uninitialized"} => ~shared.is_connected

\* Between commands, a tickle timer exists exactly when the daemon sleeps
\* with AutoDeepSleep: none survives the end of a sleep, and no sleep, also
\* the second one, goes without its timer (deep_sleep_tickle_task).
TickleMatchesState ==
    Idle => (tickle # "none" <=>
                ncp_state = "DeepSleep" /\ config.auto_deep_sleep)

\* The reset_expected flag stops the flow of reset notifications when the
\* retry loop ends: at most the one frame that the frame task was already
\* forwarding slips through.
AtMostOneLate == late <= 1

\* The daemon's books agree with one another, whatever commands, failures,
\* resets and fault exits led there (base.rs, tasks/).
NcpConsistent == TypeOK /\ MirrorsAgree /\ TickleMatchesState /\ AtMostOneLate

\* Initialisation comes to an end: the daemon handles commands, or stops.
InitDecides == <>(mode = "loop" \/ Over)

\* Every command is finished in the end: the main task never hangs in one,
\* whatever sends fail and whatever states never come.  (The lock of the scan
\* collector, which can hang it, is the subject of module ScanCollector.)
\* And a termination signal ends the daemon, whatever it was doing.
CommandsFinish == []<>(Idle \/ Over) /\ (cancelled ~> Over)

\* After Command::Reset the daemon initialises again and leaves the state
\* Uninitialized.
ResetRecovers ==
    (driver_state = "NormalOperation" /\ ncp_state = "Uninitialized")
        ~> (ncp_state # "Uninitialized" \/ Over)

=============================================================================
