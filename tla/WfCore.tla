------------------------------- MODULE WfCore -------------------------------
(***************************************************************************)
(* The NCP instance of wfantund: NCPInstanceBase and SpinelNCPInstance     *)
(* with their control protothread (vprocess_init, vprocess_disabled,       *)
(* vprocess_associated, vprocess_offline), the task queue, the handlers of *)
(* the frames that change the NCP state, and the network interface that    *)
(* follows it.  The NCP and the serial line are external: commands and     *)
(* frames may be delayed or lost, and the NCP may reset at any time.       *)
(*                                                                         *)
(* Everything of the instance is one record, inst, so that the functions   *)
(* of the code that call each other are operators from inst to inst.  An   *)
(* event given to process_event() runs first the task at the head of the   *)
(* queue and then the control protothread, as far as they get without      *)
(* another event; ev is the event they are being run with.                 *)
(***************************************************************************)
EXTENDS WfTypes, WfTasks, Integers, Sequences, SequencesExt

CONSTANTS
    Scenarios,     \* [plan, toggles, captures, notices, faults]: the calls a user
                   \* makes, how often mEnabled is toggled and a packet capture is
                   \* opened or closed, how many notices the NCP sends and how many
                   \* faults happen
    Options,       \* Options[k]: the options given with call k
    Capabilities,  \* what the NCP advertises
    InfoCommands,  \* what is asked on the first step into an associated state
    CanSetPower,   \* BOOLEAN: a power socket is configured
    AutoResume,    \* BOOLEAN: mAutoResume
    OddReplies,    \* what else the NCP may answer while it is initialised
    Notices,       \* [v, b]: the property values the NCP may report unasked
    FailureThreshold,
    MaxRx          \* how many frames wait for the daemon

ASSUME BudgetsAreNaturals ==
    /\ {FailureThreshold, MaxRx} \subseteq Nat
    /\ \A s \in Scenarios : {s.toggles, s.captures, s.notices, s.faults} \subseteq Nat

\* The calls of SpinelNCPControlInterface that start a task.
CallKinds == {"form", "join", "leave", "attach", "reset", "refresh", "add_route",
              "host_did_wake", "joiner_start", "joiner_stop", "joiner_attach",
              "scan", "topology", "buffers"}

ASSUME InfoAssumption == InfoCommands \in Seq({"GET_LADDR", "GET_XPANID",
                            "GET_PANID", "GET_CHAN", "GET_ADDRESS_TABLE"}) \ {<<>>}

\* A user makes finitely many calls; one of the plans is the longest.
ASSUME PlansAssumption ==
    /\ \A s \in Scenarios : s.plan \in Seq(CallKinds)
    /\ \E s \in Scenarios : \A o \in Scenarios : Len(o.plan) <= Len(s.plan)

ASSUME OddRepliesAssumption ==
    /\ OddReplies \subseteq {"bad_type", "bad_name", "old_version"}
    /\ Notices \subseteq [v : {"is_saved", "is_mode", "is_power"}, b : BOOLEAN]

VARIABLES
    inst,    \* the instance
    ev,      \* the event being processed
    rx,      \* frames from the NCP that the daemon has not read yet
    radio,   \* the NCP: [stack, if, role, joining]
    left     \* the calls, toggles, captures, notices and faults still to come,
             \* and how many calls have been made

vars == <<inst, ev, rx, radio, left>>

Kinds == UNION {{s.plan[n] : n \in DOMAIN s.plan} : s \in Scenarios}
MaxCalls == CHOOSE n \in {Len(s.plan) : s \in Scenarios} :
                \A s \in Scenarios : Len(s.plan) <= n
CallIds == 1..MaxCalls

\* A task as its constructor leaves it; id is that of the call, or 0.
NewTask(kind, id, state) ==
    [id |-> id, kind |-> kind, pc |-> 1, err |-> FALSE, sent |-> FALSE,
     last |-> state, ret |-> "Failure", down |-> FALSE]

\* timer says whose timer has expired; hdr whose pending command the frame
\* answers; from_ncp is IS_EVENT_FROM_NCP(event).
Idle == [k |-> "idle", hdr |-> "none", timer |-> "none", v |-> "-"]
Starting == [Idle EXCEPT !.k = "starting"]
Expired(who) == [Idle EXCEPT !.timer = who]
SendFinished == [Idle EXCEPT !.k = "flushed"]
FrameEvent(f) == [k |-> "ncp", hdr |-> f.hdr, timer |-> "none", v |-> f.v]
FromNcp(e) == e.k = "ncp"

-----------------------------------------------------------------------------
(* NCPInstanceBase: the state of the NCP and the network interface.        *)
(* online is mIsInterfaceOnline, running the IFF_RUNNING flag of the TUN.  *)

set_online(i, b) ==
    IF i.online = b THEN i ELSE [i EXCEPT !.online = b, !.running = b]

\* TunnelIPv6Interface::reset() takes the interface down by itself.
reset_interface(i) == [i EXCEPT !.running = FALSE]

push_task(i, kind, id) ==
    [i EXCEPT !.tasks = Append(@, NewTask(kind, id, i.state))]

is_state_change_valid(i, new) ==
    ncp_state_is_detached_from_ncp(i.state) => new = "UNINITIALIZED"

attach_or_detach(i, new, old) ==
    IF ncp_state_is_detached_from_ncp(new)
    THEN [i EXCEPT !.ctl = "start", !.tx = <<>>, !.failures = 0]
    ELSE [i EXCEPT !.ctl = "start", !.tx = <<>>]

interface_follows(i, new, old) ==
    IF ~ncp_state_is_interface_up(old) /\ ncp_state_is_interface_up(new)
    THEN set_online(i, TRUE)
    ELSE IF /\ ncp_state_is_interface_up(old)
            /\ new = "COMMISSIONED" /\ AutoResume /\ i.enabled
    THEN i
    ELSE IF \/ /\ ncp_state_is_commissioned(old)
               /\ ~ncp_state_is_commissioned(new)
               /\ ~ncp_state_is_joining(new)
               /\ ~ncp_state_is_sleeping(new)
               /\ new # "UNINITIALIZED"
            \/ old = "UNINITIALIZED" /\ new = "OFFLINE"
    THEN reset_interface(i)
    ELSE IF /\ ncp_state_is_interface_up(old)
            /\ ~ncp_state_is_interface_up(new)
            /\ new # "NET_WAKE_WAKING"
    THEN set_online(i, FALSE)
    ELSE i

\* Leaving the network makes process() set up the capture once more.
capture_follows(i, new, old) ==
    IF ncp_state_is_joining_or_joined(old) /\ new = "OFFLINE"
    THEN [i EXCEPT !.pcap = FALSE] ELSE i

\* NCPInstanceBase::handle_ncp_state_change, then what
\* SpinelNCPInstance::handle_ncp_state_change adds: the first step into an
\* associated state starts the task that asks for the network's addresses.
handle_ncp_state_change(i, new, old) ==
    LET detach == ~ncp_state_is_detached_from_ncp(old)
                  /\ ncp_state_is_detached_from_ncp(new)
        attach == ncp_state_is_detached_from_ncp(old)
                  /\ ~ncp_state_is_detached_from_ncp(new)
        j == IF attach \/ detach THEN attach_or_detach(i, new, old) ELSE i
        k == capture_follows(IF detach THEN j ELSE interface_follows(j, new, old),
                             new, old)
    IN  IF ncp_state_is_associated(new) /\ ~ncp_state_is_associated(old)
        THEN push_task([k EXCEPT !.commissioned = TRUE], "info", 0)
        ELSE k

change_ncp_state(i, new) ==
    IF i.state = new \/ ~is_state_change_valid(i, new) THEN i
    ELSE LET j == [i EXCEPT !.state = new]
         IN  IF ~i.initializing \/ new \in {"UNINITIALIZED", "FAULT", "UPGRADING"}
             THEN handle_ncp_state_change(j, new, i.state)
             ELSE j

set_initializing_ncp(i, b) ==
    IF i.initializing = b THEN i
    ELSE LET j == [i EXCEPT !.initializing = b]
         IN  IF b THEN change_ncp_state(j, "UNINITIALIZED")
             ELSE IF j.state \notin {"UNINITIALIZED", "FAULT", "UPGRADING"}
             THEN handle_ncp_state_change(j, j.state, "UNINITIALIZED")
             ELSE j

reinitialize_ncp(i) ==
    change_ncp_state([i EXCEPT !.ctl = "start"], "UNINITIALIZED")

is_busy(i) ==
    \/ i.initializing
    \/ i.state # "FAULT" /\ (ncp_state_is_busy(i.state) \/ i.upgrade = "busy")
    \/ i.tasks # <<>>

-----------------------------------------------------------------------------
(* Finishing tasks: the callback of the call is invoked with a status.     *)

answer(i, t, status) ==
    IF t.id = 0 THEN i
    ELSE [i EXCEPT !.answers[t.id] =
            Append(@, IF t.kind = "reset" THEN "Ok" ELSE status)]

finish(i, t, status) ==
    CASE t.kind = "form" ->
           answer(IF ncp_state_is_associated(i.state) THEN i
                  ELSE change_ncp_state(i, t.last), t, status)
      [] t.kind = "join" ->
           LET j == answer(i, t, status)
           IN  IF status # "InProgress" /\ ~ncp_state_is_associated(j.state)
               THEN change_ncp_state(j, t.last) ELSE j
      [] t.kind = "joiner_start" ->
           answer(IF status # "Ok" THEN change_ncp_state(i, t.last) ELSE i,
                  t, status)
      [] t.kind = "deep_sleep" ->
           answer([i EXCEPT !.resetExpected = FALSE], t, status)
      [] OTHER -> answer(i, t, status)

\* mCB = CallbackWithStatusArg1(), the end of SpinelNCPTask::finish().
emptied_Keeps(t) == t

emptied(t) == [t EXCEPT !.id = 0]

\* A task is finished and taken off the queue, which destroys it:
\* ~SpinelNCPTask() finishes it once more, with Canceled.
finish_and_destroy(i, t, status) ==
    answer(finish(i, t, status), emptied(t), "Canceled")

\* The callers of reset_tasks() and the status each gives it.
ResetStatus(who) ==
    CASE who = "reset" -> "NCP_Reset"
      [] who = "crash" -> "NCP_Crashed"
      [] OTHER -> "Canceled"

\* who calls reset_tasks().  Its loop runs to the end before anything else
\* happens (ResetTask), and then who goes on (TasksReset).
reset_tasks(i, who) == [i EXCEPT !.resetting = who]

\* A turn of the loop.  What a finishing task starts is finished as well.
reset_task(i) ==
    LET j == finish_and_destroy(i, Head(i.tasks), ResetStatus(i.resetting))
    IN  [j EXCEPT !.tasks = Tail(@)]

-----------------------------------------------------------------------------
(* The tasks.  A call is one of Kinds; the daemon itself starts info,      *)
(* deep_sleep and the three that switch a packet capture on and off.       *)

Opts(kind) == IF kind \in DOMAIN Options THEN Options[kind] ELSE {}

SpinelNCPTaskForm ==
    LET opts == FormOptions(Opts("form"), FALSE)
    IN  Enabled \o FormBegin \o FormParameters(opts)
        \o FormPrefixes(opts, "NEST_LEGACY_INTERFACE" \in Capabilities)
        \o FormEnd

SpinelNCPTaskJoin ==
    Enabled \o JoinBegin \o JoinNodeType(Opts("join"), "CONFIG_FTD" \in Capabilities)
        \o JoinParameters(Opts("join")) \o JoinEnd

SpinelNCPTaskScan ==
    Enabled \o ScanBegin \o Given("Discover", Opts("scan"), ScanDiscover) \o ScanEnd

Script(kind) ==
    CASE kind = "form" -> SpinelNCPTaskForm
      [] kind = "join" -> SpinelNCPTaskJoin
      [] kind = "leave" -> Enabled \o Leave
      [] kind = "attach" -> SendCommands(<<"IF_UP", "STACK_UP">>, FALSE, FALSE)
      [] kind = "reset" -> SendCommands(<<"RESET">>, FALSE, TRUE)
      [] kind = "refresh" -> SendCommands(<<"NOOP">>, FALSE, FALSE)
      [] kind = "add_route" -> SendCommands(<<"INSERT_ROUTE">>, TRUE, FALSE)
      [] kind = "host_did_wake" -> HostDidWake(TRUE)
      [] kind = "joiner_start" -> Enabled \o JoinerStart(Opts("joiner_start"))
      [] kind = "joiner_stop" -> Enabled \o JoinerStop
      [] kind = "joiner_attach" -> Enabled \o JoinerAttach(Opts("joiner_attach"))
      [] kind = "scan" -> SpinelNCPTaskScan
      [] kind = "topology" -> Enabled \o GetNetworkTopology
      [] kind = "buffers" -> Enabled \o GetMsgBufferCounters
      [] kind = "info" -> SendCommands(InfoCommands, FALSE, FALSE)
      [] kind = "capture" -> SendCommands(<<"RAW_STREAM", "IF_UP">>, FALSE, FALSE)
      [] kind = "sniff" ->
           SendCommands(<<"RAW_STREAM", "IF_UP", "PROMISCUOUS">>, FALSE, FALSE)
      [] kind = "capture_off" ->
           SendCommands(<<"RAW_STREAM", "PROMISCUOUS_OFF">>, FALSE, FALSE)
      [] kind = "deep_sleep" ->
           DeepSleep("MCU_POWER_STATE" \in Capabilities, CanSetPower)

\* What the code does under the label on_error.
ErrorScript(kind) ==
    CASE kind = "leave" -> <<Set("reinitialize"), Finish("ret")>>
      [] kind = "host_did_wake" -> <<Set("misbehaving"), Finish("ret")>>
      [] kind = "scan" -> ScanFailed
      [] kind = "add_route" -> SendCommandsFailed(TRUE)
      [] kind = "deep_sleep" -> <<Finish("slept")>>
      [] OTHER -> <<Finish("ret")>>

OwnKinds == {"info", "deep_sleep", "reset", "capture", "sniff", "capture_off"}
Scripts == [k \in Kinds \cup OwnKinds |-> Script(k)]
ErrorScripts == [k \in DOMAIN Scripts |-> ErrorScript(k)]
StepOf(t) == IF t.err THEN ErrorScripts[t.kind][t.pc] ELSE Scripts[t.kind][t.pc]

NodeTypeCapability ==
    "NodeType" \in Opts("join") => "ROLE_ROUTER" \in Capabilities

Holds(c, i, t) ==
    CASE c = "enabled" -> i.enabled
      [] c = "not_upgrading" -> i.state # "UPGRADING"
      [] c \in {"initialized", "final_check"} ->
           ~ncp_state_is_initializing(i.state) /\ ~i.initializing
      [] c = "initialized_state" -> ~ncp_state_is_initializing(i.state)
      [] c = "initializing_state" -> ncp_state_is_initializing(i.state)
      [] c = "normal_operation" ->
           ~ncp_state_is_initializing(i.state) /\ i.driver = "NORMAL_OPERATION"
      [] c = "not_associated" -> ~ncp_state_is_associated(i.state)
      [] c = "associated" -> ncp_state_is_associated(i.state)
      [] c = "associated_initialized" ->
           ncp_state_is_associated(i.state) /\ ~i.initializing
      [] c = "joining_or_joined" -> ncp_state_is_joining_or_joined(i.state)
      [] c = "not_asleep" -> i.state # "DEEP_SLEEP"
      [] c = "interface_down" -> ~ncp_state_is_interface_up(i.state)
      [] c = "take_down" -> t.down
      [] c = "can_scan" ->
           /\ ~ncp_state_is_initializing(i.state) /\ ~i.initializing
           /\ i.state \notin {"ASSOCIATING", "CREDENTIALS_NEEDED"}
      [] c = "cap_router" -> "ROLE_ROUTER" \in Capabilities
      [] c = "cap_node_type" -> NodeTypeCapability
      [] c = "channel_supported" -> "BadChannel" \notin Opts(t.kind)
      [] c = "decoded" -> "ShortReply" \notin Opts(t.kind)
      [] c = "has_pskd" -> "PSKd" \in Opts(t.kind)
      [] c = "discerner_complete" ->
           "Discerner" \in Opts(t.kind) => "DiscernerLength" \in Opts(t.kind)

-----------------------------------------------------------------------------
(* Running a task with an event. *)

\* A task gets EVENT_STARTING_TASK before it is queued; later events go to
\* the front of the queue only.
TaskIndex(i, e) == IF e.k = "starting" THEN Len(i.tasks) ELSE 1
HasTask(i) == i.state # "FAULT" /\ i.tasks # <<>>

JoinStatus == {"join_failure", "join_security", "join_no_peers", "join_success"}

spinel_status_to_wpantund_status(v) ==
    CASE v = "error" -> "NCP_InvalidArgument"
      [] v = "already" -> "Already"
      [] v = "busy" -> "Busy"
      [] v = "join_failure" -> "JoinFailedUnknown"
      [] v = "join_security" -> "JoinFailedAtAuthenticate"
      [] v \in {"join_no_peers", "join_success"} -> "NCPError"
      [] OTHER -> "Ok"

TaskReady(i, e) ==
    /\ HasTask(i)
    /\ LET t == i.tasks[TaskIndex(i, e)]
           st == StepOf(t)
           expired == e.timer = "task"
       IN  CASE st.op = "await" -> Holds(st.c, i, t) \/ expired
             [] st.op \in {"turn", "yield"} -> e.k # "starting"
             [] st.op = "send" -> ~t.sent \/ e.hdr = "task" \/ expired
             [] st.op = "quiet" -> expired
             [] st.op = "scan" ->
                  e.v \in {"beacon", "scan_idle"} \/ expired
             [] st.op = "joined" ->
                  e.v \in JoinStatus \/ ncp_state_is_associated(i.state) \/ expired
             [] st.op = "joinstatus" -> e.v \in JoinStatus \/ expired
             [] OTHER -> TRUE

\* Is the task at the head waiting, with a timer running?
TaskTimed(i) ==
    /\ HasTask(i)
    /\ LET st == StepOf(Head(i.tasks))
       IN  st.op \in {"await", "send", "quiet", "scan", "joined", "joinstatus"}

goto_on_error(i, n, status) ==
    LET keep == status # "Ok" \/ i.tasks[n].kind = "host_did_wake"
    IN  [i EXCEPT !.tasks[n] = [@ EXCEPT !.err = TRUE, !.pc = 1, !.sent = FALSE,
                                  !.ret = IF keep THEN status ELSE "Failure"]]

next_step(i, n, ret) ==
    LET t == i.tasks[n]
    IN  [i EXCEPT !.tasks[n] = [t EXCEPT !.pc = @ + 1, !.sent = FALSE, !.ret = ret]]

end_task(i, n, status) ==
    LET j == finish_and_destroy(i, i.tasks[n], status)
    IN  [j EXCEPT !.tasks = RemoveAt(@, n)]

\* vprocess_send_command returned r.
command_done(i, n, st, r) ==
    LET t == i.tasks[n]
        passes == CASE st.s = "any" -> TRUE
                    [] st.s = "ok" -> r = "Ok"
                    [] st.s = "okOrAlready" -> r \in {"Ok", "Already"}
                    [] st.s = "okOrBusy" -> r \in {"Ok", "Busy"}
                    [] st.s = "unlock" -> TRUE
    IN  IF ~passes THEN goto_on_error(i, n, IF t.kind = "host_did_wake"
                                            THEN "Failure" ELSE r)
        ELSE IF st.s = "unlock"
        THEN next_step(i, n, IF r # "Ok" THEN r ELSE t.ret)
        ELSE next_step(i, n, r)

vprocess_send_command(i, e, n, st) ==
    LET t == i.tasks[n]
    IN  IF ~t.sent
        THEN [i EXCEPT !.tasks[n].sent = TRUE,
                       !.tx = Append(@, [c |-> st.c, hdr |-> "task"]),
                       !.resetExpected = @ \/ st.c = "RESET"]
        ELSE command_done(i, n, st,
                IF e.timer = "task" THEN "Timeout"
                ELSE IF st.c = "RESET" THEN "Ok"
                ELSE spinel_status_to_wpantund_status(e.v))

join_finished(i, e, n) ==
    IF e.timer = "task" THEN goto_on_error(i, n, "Failure")
    ELSE CASE e.v \in {"join_security", "join_failure"} ->
                next_step(change_ncp_state(i, "CREDENTIALS_NEEDED"), n, "InProgress")
           [] e.v \in {"join_no_peers", "join_success"} ->
                next_step(i, n, "JoinFailedUnknown")
           [] OTHER -> next_step(i, n, "Ok")

convert_joiner_status_to_wpan_error(v) ==
    CASE v = "join_success" -> "Ok"
      [] v = "join_security" -> "JoinerFailed_Security"
      [] v = "join_no_peers" -> "JoinerFailed_NoPeers"
      [] OTHER -> "JoinerFailed_Unknown"

scan_result(i, e, n) ==
    IF e.timer = "task" THEN goto_on_error(i, n, "Ok")
    ELSE IF e.v = "scan_idle" THEN next_step(i, n, "Ok")
    ELSE [i EXCEPT !.beacons = IF @ < 1 THEN @ + 1 ELSE @]

set_member(i, n, c) ==
    LET j == next_step(i, n, i.tasks[n].ret)
    IN  CASE c = "uncommission" -> [j EXCEPT !.commissioned = FALSE]
          [] c = "forget_key" -> j
          [] c = "take_down" -> [j EXCEPT !.tasks[n].down = TRUE]
          [] c = "misbehaving" -> [j EXCEPT !.misbehaving = TRUE]
          [] c = "power_off" -> change_ncp_state(j, "DEEP_SLEEP")
          [] OTHER -> reinitialize_ncp(j)

finish_status(i, t, s) ==
    CASE s = "ret" -> t.ret
      [] s = "slept" -> IF i.state = "DEEP_SLEEP" THEN "Ok"
                        ELSE IF t.ret = "Ok" THEN "Failure" ELSE t.ret
      [] OTHER -> s

TaskStep(i, e) ==
    LET n == TaskIndex(i, e)
        t == i.tasks[n]
        st == StepOf(t)
    IN  CASE st.op = "require" ->
               IF Holds(st.c, i, t) THEN next_step(i, n, t.ret)
               ELSE end_task(i, n, st.s)
          [] st.op = "insist" ->
               IF Holds(st.c, i, t) THEN next_step(i, n, t.ret)
               ELSE goto_on_error(i, n, st.s)
          [] st.op = "await" ->
               IF Holds(st.c, i, t) THEN next_step(i, n, "Failure")
               ELSE goto_on_error(i, n, IF t.kind = "reset" THEN "Timeout" ELSE st.s)
          [] st.op \in {"turn", "yield"} -> next_step(i, n, t.ret)
          [] st.op = "quiet" -> next_step(i, n, "Failure")
          [] st.op = "save" ->
               next_step([i EXCEPT !.tasks[n].last = i.state], n, t.ret)
          [] st.op = "become" -> change_ncp_state(next_step(i, n, t.ret), st.s)
          [] st.op = "set" -> set_member(i, n, st.c)
          [] st.op = "send" -> vprocess_send_command(i, e, n, st)
          [] st.op = "skip" ->
               [i EXCEPT !.tasks[n].pc =
                    @ + 1 + IF Holds(st.c, i, t) THEN 0 ELSE st.n]
          [] st.op = "scan" -> scan_result(i, e, n)
          [] st.op = "joined" -> join_finished(i, e, n)
          [] st.op = "joinstatus" ->
               IF e.timer = "task" THEN goto_on_error(i, n, "Failure")
               ELSE next_step(i, n, convert_joiner_status_to_wpan_error(e.v))
          [] st.op = "finish" -> end_task(i, n, finish_status(i, t, st.s))

-----------------------------------------------------------------------------
(* The control protothread.  ctl is where it waits; a step of it runs      *)
(* until the next wait.  A command of vprocess_init that is only flushed   *)
(* is on the line when the wait for its flush ends.                        *)

send_ctl(i, c, hdr) == [i EXCEPT !.tx = Append(@, [c |-> c, hdr |-> hdr])]

\* From the top of vprocess_init, or after the wait for a firmware upgrade,
\* to its first wait.  Leaving UPGRADING re-initialises mControlPT, so that
\* the next event enters vprocess_init again.
init_begin(i) ==
    LET j == change_ncp_state(set_initializing_ncp(i, TRUE), "UNINITIALIZED")
        k == [j EXCEPT !.driver = "WAITING_FOR_RESET"]
    IN  IF i.state = "UPGRADING" THEN [k EXCEPT !.ctl = "start"]
        ELSE [k EXCEPT !.ctl = IF k.resetExpected THEN "rst" ELSE "sleep1"]

\* A failed upgrade counts as a failure; the FAULT that the code asks for
\* after too many of them is refused by is_state_change_valid().  Nobody asks
\* for the status of the upgrade after this.
init_upgraded(i) ==
    LET failed == IF i.upgrade = "failed" THEN 1 ELSE 0
    IN  init_begin([i EXCEPT !.failures = @ + failed, !.upgrade = "none"])

\* mResetIsExpected was cleared, or it has been set for too long.
init_reset_wait(i, e) ==
    IF ~i.resetExpected THEN [i EXCEPT !.ctl = "sleep1"]
    ELSE [i EXCEPT !.ctl = "sleep1", !.resetExpected = FALSE,
                   !.failures = @ + 1]

\* props_to_fetch and mSettings: the 23 properties of the radio and the MAC are
\* one request (FETCH_RADIO), the network's name and the settings that are
\* restored one command (RESTORE).
Fetches == <<"FETCH_RADIO", "GET_IF_UP", "GET_STACK_UP", "GET_ROLE", "RESTORE">>

init_end(i) ==
    LET k == set_initializing_ncp([i EXCEPT !.pcap = FALSE, !.failures = 0,
                                    !.sub = 1, !.resetExpected = FALSE], FALSE)
    IN  [k EXCEPT !.driver = "NORMAL_OPERATION", !.ctl = "drain"]

init_fetch(i) ==
    IF i.enabled THEN [i EXCEPT !.ctl = "fetch", !.sub = 1] ELSE init_end(i)

\* "If we are joining at this point, then we must start over."
init_go_on(i) ==
    IF ncp_state_is_joining(i.state) THEN [i EXCEPT !.ctl = "retry"]
    ELSE IF i.pcap THEN send_ctl([i EXCEPT !.ctl = "pcapq"], "RAW_STREAM", "ctl")
    ELSE init_fetch(i)

init_query(i) == [i EXCEPT !.driver = "INITIALIZING", !.ctl = "version"]

init_version_sent(i) ==
    IF i.state = "UNINITIALIZED"
    THEN send_ctl([i EXCEPT !.ctl = "stackq"], "GET_STACK_UP", "ctl")
    ELSE init_go_on(i)

init_stack_known_WaitsOn(i, e) ==
    IF i.state = "UNINITIALIZED" THEN i ELSE init_go_on(i)

init_stack_known(i, e) ==
    IF e.timer = "ctl" \/ i.state = "UNINITIALIZED"
    THEN [i EXCEPT !.ctl = "retry"]
    ELSE init_go_on(i)

init_capturing(i, e) ==
    IF e.timer = "ctl" THEN [i EXCEPT !.ctl = "retry"] ELSE init_fetch(i)

init_fetched(i) ==
    IF i.sub = Len(Fetches) THEN init_end(i) ELSE [i EXCEPT !.sub = @ + 1]

FlushPcs == {"version", "fetch"}
InitPcs == {"start", "upgrade", "rst", "sleep1", "version", "stackq", "pcapq",
            "fetch", "retry"}

vprocess_init(i, e) ==
    CASE i.ctl = "start" ->
           IF i.state = "UPGRADING" THEN [i EXCEPT !.ctl = "upgrade"]
           ELSE init_begin(i)
      [] i.ctl = "upgrade" -> init_upgraded(i)
      [] i.ctl = "rst" -> init_reset_wait(i, e)
      [] i.ctl = "sleep1" -> init_query(i)
      [] i.ctl = "version" ->
           LET j == send_ctl(i, "GET_VERSION", "none")
           IN  IF e.timer = "ctl" THEN [j EXCEPT !.ctl = "retry"]
               ELSE init_version_sent(j)
      [] i.ctl = "stackq" -> init_stack_known(i, e)
      [] i.ctl = "pcapq" -> init_capturing(i, e)
      [] i.ctl = "fetch" ->
           LET j == send_ctl(i, Fetches[i.sub], "none")
           IN  IF e.timer = "ctl" THEN [j EXCEPT !.ctl = "retry", !.sub = 1]
               ELSE init_fetched(j)
      [] i.ctl = "retry" -> [i EXCEPT !.ctl = "sleep1", !.failures = @ + 1]

\* The exit of vprocess_disabled: the EH_RESTART() of a driver that is enabled
\* again, or once more round the loop of vprocess_event.
disabled_exit(i) == [i EXCEPT !.ctl = IF i.enabled THEN "start" ELSE "loop"]

\* The top of the loop of vprocess_disabled.
disabled_top(i) ==
    IF i.enabled \/ i.state = "UNINITIALIZED" THEN disabled_exit(i)
    ELSE [i EXCEPT !.ctl = "dis_busy"]

disabled_not_busy(i) ==
    IF i.enabled \/ i.initializing THEN disabled_exit(i)
    ELSE reset_tasks(i, "disabled")

disabled_tasks_reset(i) ==
    IF i.state \notin {"DEEP_SLEEP", "FAULT"}
    THEN push_task([i EXCEPT !.ctl = "dis_sleep"], "deep_sleep", 0)
    ELSE [i EXCEPT !.ctl = "dis_idle1"]

\* An NCP that did not go to sleep is reset through the control interface.
disabled_slept(i) ==
    IF i.state \in {"DEEP_SLEEP", "FAULT"} THEN [i EXCEPT !.ctl = "dis_idle1"]
    ELSE IF ncp_state_is_initializing(i.state) THEN disabled_exit(i)
    ELSE push_task(disabled_exit(i), "reset", 0)

disabled_tickle(i, e) ==
    IF e.timer # "ctl" THEN disabled_top(i)
    ELSE send_ctl([i EXCEPT !.resetExpected = TRUE, !.ctl = "dis_reset"],
                  "RESET", "none")

DisabledPcs == {"dis_busy", "dis_sleep", "dis_idle1", "dis_idle2", "dis_reset"}

vprocess_disabled(i, e) ==
    CASE i.ctl = "dis_busy" -> disabled_not_busy(i)
      [] i.ctl = "dis_sleep" -> disabled_slept(i)
      [] i.ctl = "dis_idle1" -> [i EXCEPT !.ctl = "dis_idle2"]
      [] i.ctl = "dis_idle2" -> disabled_tickle(i, e)
      [] i.ctl = "dis_reset" -> disabled_exit(i)

associated_should_exit(i) ==
    ~i.enabled \/ ~ncp_state_is_joining_or_joined(i.state)

vprocess_associated(i, e) ==
    CASE i.ctl = "as1" -> [i EXCEPT !.ctl = "as2"]
      [] i.ctl = "as2" ->
           IF associated_should_exit(i) THEN [i EXCEPT !.ctl = "loop"]
           ELSE send_ctl([i EXCEPT !.ctl = "as_noop"], "NOOP", "ctl")
      [] i.ctl = "as_noop" ->
           IF e.hdr = "ctl" THEN [i EXCEPT !.ctl = "loop", !.failures = 0]
           ELSE [reinitialize_ncp(i) EXCEPT !.ctl = "loop"]

vprocess_offline_Asleep(i, e) ==
    [i EXCEPT !.ctl = IF ncp_state_is_interface_up(i.state) THEN "loop" ELSE "off_sleep"]

\* Every five seconds, until the interface is up, whatever mEnabled says.
vprocess_offline(i, e) ==
    LET j == send_ctl(i, "GET_STACK_UP", "none")
    IN  [j EXCEPT !.ctl = IF ncp_state_is_interface_up(i.state)
                          THEN "loop" ELSE "off_sleep"]

event_loop(i) ==
    IF ncp_state_is_initializing(i.state) THEN [i EXCEPT !.ctl = "start"]
    ELSE IF ~i.enabled THEN disabled_top(i)
    ELSE IF ncp_state_is_joining_or_joined(i.state) THEN [i EXCEPT !.ctl = "as1"]
    ELSE IF ~ncp_state_is_interface_up(i.state) THEN [i EXCEPT !.ctl = "off_sleep"]
    ELSE i

CtlReady(i, e) ==
    /\ i.state # "FAULT"
    /\ LET expired == e.timer = "ctl"
       IN  CASE i.ctl = "start" -> TRUE
             [] i.ctl = "upgrade" -> i.upgrade # "busy"
             [] i.ctl = "rst" -> ~i.resetExpected \/ expired
             [] i.ctl \in {"sleep1", "retry", "off_sleep", "dis_reset"} -> expired
             [] i.ctl \in {"stackq", "pcapq"} -> e.hdr = "ctl" \/ expired
             [] i.ctl \in FlushPcs -> e.k = "flushed" \/ expired
             [] i.ctl = "drain" -> i.tasks = <<>>
             [] i.ctl = "loop" -> e = Idle
             [] i.ctl = "dis_busy" -> i.enabled \/ ~is_busy(i) \/ expired
             [] i.ctl = "dis_sleep" ->
                  i.state = "DEEP_SLEEP" \/ i.tasks = <<>> \/ expired
             [] i.ctl = "dis_idle1" -> ~FromNcp(e)
             [] i.ctl = "dis_idle2" ->
                  i.state # "DEEP_SLEEP" \/ i.enabled \/ FromNcp(e) \/ expired
             [] i.ctl = "as1" ->
                  associated_should_exit(i) \/ ~FromNcp(e) \/ expired
             [] i.ctl = "as2" -> associated_should_exit(i) \/ expired
             [] i.ctl = "as_noop" -> e.hdr = "ctl" \/ expired

CtlTimed(i) ==
    /\ i.state # "FAULT"
    /\ i.ctl \in {"rst", "sleep1", "retry", "off_sleep", "dis_reset", "stackq",
                  "dis_busy", "dis_sleep", "dis_idle2", "as2", "as_noop", "pcapq"}
                 \cup FlushPcs

vprocess_event(i, e) ==
    CASE i.ctl \in InitPcs -> vprocess_init(i, e)
      [] i.ctl \in DisabledPcs -> vprocess_disabled(i, e)
      [] i.ctl \in {"as1", "as2", "as_noop"} -> vprocess_associated(i, e)
      [] i.ctl = "off_sleep" -> vprocess_offline(i, e)
      [] i.ctl = "drain" -> [i EXCEPT !.ctl = "loop"]
      [] i.ctl = "loop" -> event_loop(i)

-----------------------------------------------------------------------------
(* Frames from the NCP: handle_ncp_spinel_value_is for the keys that move  *)
(* the instance.  v is the key and b its value; other keys are "ok".       *)

value_is_stack_up(i, b) ==
    IF b
    THEN IF ncp_state_is_joining_or_joined(i.state) THEN i
         ELSE IF i.commissioned /\ ~i.rxon THEN change_ncp_state(i, "ISOLATED")
         ELSE change_ncp_state(i, "ASSOCIATED")
    ELSE IF ncp_state_is_joining(i.state) THEN i
    ELSE [change_ncp_state(i, "OFFLINE") EXCEPT !.commissioned = FALSE]

value_is_if_up(i, b) ==
    IF ncp_state_is_interface_up(i.state) /\ ~b
    THEN [change_ncp_state(i, "OFFLINE") EXCEPT !.commissioned = FALSE]
    ELSE i

value_is_net_role(i, attached) ==
    IF attached
    THEN IF ncp_state_is_joining_or_joined(i.state)
         THEN change_ncp_state(i, "ASSOCIATED") ELSE i
    ELSE IF ncp_state_is_associated(i.state)
         THEN change_ncp_state(i, "ISOLATED") ELSE i

\* b is LOW_POWER, ~b is ON.
value_is_power_state(i, b) ==
    IF b /\ i.state \in {"OFFLINE", "COMMISSIONED"}
    THEN change_ncp_state(i, "DEEP_SLEEP")
    ELSE IF ~b /\ i.state = "DEEP_SLEEP"
    THEN change_ncp_state(i, IF i.commissioned THEN "COMMISSIONED" ELSE "OFFLINE")
    ELSE i

\* b is RX_ON_WHEN_IDLE of the thread mode.
value_is_thread_mode(i, b) ==
    LET j == [i EXCEPT !.rxon = b]
    IN  IF i.state = "ISOLATED" /\ b THEN change_ncp_state(j, "ASSOCIATING")
        ELSE IF i.state = "ASSOCIATING" /\ i.commissioned /\ ~b
        THEN change_ncp_state(j, "ISOLATED")
        ELSE j

value_is_net_saved(i, b) ==
    LET j == [i EXCEPT !.commissioned = b]
    IN  IF ~b /\ i.state = "COMMISSIONED" THEN change_ncp_state(j, "OFFLINE") ELSE j

value_is_last_status(i, v) ==
    IF v = "join_success" THEN change_ncp_state(i, "COMMISSIONED")
    ELSE IF v \in JoinStatus THEN change_ncp_state(i, "CREDENTIALS_NEEDED")
    ELSE i

\* A reset is not passed on to the protothreads: process_event() is
\* commented out and the function returns.
reset_handled(i) ==
    LET k == IF i.driver = "NORMAL_OPERATION" THEN reinitialize_ncp(i) ELSE i
    IN  [k EXCEPT !.resetExpected = FALSE]

value_is_reset(i, how) ==
    IF ~i.resetExpected /\ i.driver = "NORMAL_OPERATION"
    THEN reset_tasks(i, how) ELSE reset_handled(i)

set_ncp_version_string(i) ==
    [change_ncp_state(i, "UPGRADING") EXCEPT !.upgrade = "busy"]

handle_ncp_spinel_value_is(i, f) ==
    CASE f.v = "is_stack" -> value_is_stack_up(i, f.b)
      [] f.v = "is_if" -> value_is_if_up(i, f.b)
      [] f.v = "is_role" -> value_is_net_role(i, f.b)
      [] f.v = "is_power" -> value_is_power_state(i, f.b)
      [] f.v = "is_mode" -> value_is_thread_mode(i, f.b)
      [] f.v = "is_saved" -> value_is_net_saved(i, f.b)
      [] f.v \in JoinStatus -> value_is_last_status(i, f.v)
      [] f.v \in {"bad_type", "bad_name"} -> change_ncp_state(i, "FAULT")
      [] f.v = "old_version" -> set_ncp_version_string(i)
      [] OTHER -> i

-----------------------------------------------------------------------------
(* The headers of commands that nobody waits for any more match nothing.   *)

Waits(i, who) ==
    IF who = "ctl" THEN i.ctl \in {"stackq", "pcapq", "as_noop"}
    ELSE who = "task" /\ i.tasks # <<>> /\ Head(i.tasks).sent

Settle(q, i) ==
    [n \in DOMAIN q |->
        IF Waits(i, q[n].hdr) THEN q[n] ELSE [q[n] EXCEPT !.hdr = "none"]]

Became(i) == /\ inst' = [i EXCEPT !.tx = Settle(@, i)]
             /\ rx' = Settle(rx, i)

Quietly ==
    /\ ev = Idle /\ inst.resetting = "no"
    /\ ~TaskReady(inst, ev) /\ ~CtlReady(inst, ev)

Spend(b) == left[b] > 0 /\ left' = [left EXCEPT ![b] = @ - 1]

InitInst ==
    [state |-> "UNINITIALIZED", initializing |-> FALSE,
     driver |-> "INITIALIZING", enabled |-> TRUE, resetExpected |-> FALSE,
     commissioned |-> FALSE, rxon |-> FALSE, capture |-> FALSE, pcap |-> FALSE,
     failures |-> 0, upgrade |-> "none", sub |-> 1,
     misbehaving |-> FALSE, online |-> FALSE, running |-> FALSE,
     beacons |-> 0, tasks |-> <<>>, resetting |-> "no", ctl |-> "start", tx |-> <<>>,
     answers |-> [c \in CallIds |-> <<>>]]

Init ==
    /\ inst = InitInst
    /\ ev = Idle
    /\ rx = <<>>
    /\ radio \in [stack : BOOLEAN, if : {TRUE}, role : {"detached"}, joining : {FALSE}]
    /\ left \in {[plan |-> s.plan, toggles |-> s.toggles, captures |-> s.captures,
                  notices |-> s.notices, faults |-> s.faults, made |-> 0] : s \in Scenarios}

-----------------------------------------------------------------------------
(* process_event(): the front task, then the control protothread. *)

\* What a protothread has used of the event is not there for its next step.
Consumed(e, who) ==
    [e EXCEPT !.hdr = IF @ = who THEN "none" ELSE @,
              !.timer = IF @ = who THEN "none" ELSE @,
              !.v = IF @ \in {"beacon", "scan_idle"} THEN "-" ELSE @]

RunTask ==
    /\ inst.resetting = "no"
    /\ TaskReady(inst, ev)
    /\ Became(TaskStep(inst, ev))
    /\ ev' = IF ev.k = "starting" /\ Len(inst'.tasks) < Len(inst.tasks)
             THEN Idle ELSE Consumed(ev, "task")
    /\ UNCHANGED <<radio, left>>

RunControl ==
    /\ inst.resetting = "no"
    /\ ev.k # "starting"
    /\ ~TaskReady(inst, ev)
    /\ CtlReady(inst, ev)
    /\ Became(vprocess_event(inst, ev))
    /\ ev' = Consumed(ev, "ctl")
    /\ UNCHANGED <<radio, left>>

\* The event has been seen by everybody: the main loop comes round again.
NextPass ==
    /\ ev # Idle /\ inst.resetting = "no"
    /\ ~TaskReady(inst, ev)
    /\ ev.k = "starting" \/ ~CtlReady(inst, ev)
    /\ ev' = Idle
    /\ UNCHANGED <<inst, rx, radio, left>>

-----------------------------------------------------------------------------
(* What happens to the daemon. *)

\* start_new_task() for a call of the control interface.
Call ==
    /\ Quietly
    /\ left.plan # <<>>
    /\ left' = [left EXCEPT !.plan = Tail(@), !.made = @ + 1]
    /\ LET id == left.made + 1
           kind == Head(left.plan)
           i == IF kind = "reset" /\ inst.state = "FAULT"
                THEN change_ncp_state(inst, "UNINITIALIZED") ELSE inst
       IN  IF ncp_state_is_detached_from_ncp(i.state)
           THEN /\ Became(finish_and_destroy(i, NewTask(kind, id, i.state),
                                             "InvalidWhenDisabled"))
                /\ ev' = ev
           ELSE Became(push_task(i, kind, id)) /\ ev' = Starting
    /\ UNCHANGED radio

\* set_prop_DaemonEnabled
SetEnabled ==
    /\ Quietly
    /\ Spend("toggles")
    /\ Became([inst EXCEPT !.enabled = ~@])
    /\ UNCHANGED <<ev, radio>>

\* A user opens or closes a packet capture: mPcapManager.is_enabled().
SetCapture ==
    /\ Quietly
    /\ Spend("captures")
    /\ Became([inst EXCEPT !.capture = ~@])
    /\ UNCHANGED <<ev, radio>>

\* process(): the NCP is told when the capture it is believed to make is not
\* the one that is wanted.
capture_task(i) ==
    LET j == [i EXCEPT !.pcap = i.capture]
    IN  IF ncp_state_is_detached_from_ncp(i.state) THEN j
        ELSE push_task(j, IF ~i.capture THEN "capture_off"
                          ELSE IF ncp_state_is_joining_or_joined(i.state)
                          THEN "capture" ELSE "sniff", 0)

Capture ==
    /\ Quietly
    /\ ~inst.initializing /\ inst.tasks = <<>> /\ inst.pcap # inst.capture
    /\ Became(capture_task(inst))
    /\ UNCHANGED <<ev, radio, left>>

\* The pump has written the command of a protothread that waits for its
\* flush.
Flushed ==
    /\ Quietly
    /\ inst.state # "FAULT" /\ inst.ctl \in FlushPcs
    /\ ev' = SendFinished
    /\ UNCHANGED <<inst, rx, radio, left>>

Receive ==
    /\ Quietly
    /\ rx # <<>>
    /\ inst.upgrade # "busy"
    /\ LET f == Head(rx)
           i == IF f.v \in {"reset", "crash"} THEN value_is_reset(inst, f.v)
                ELSE IF ncp_state_is_detached_from_ncp(inst.state)
                THEN inst ELSE handle_ncp_spinel_value_is(inst, f)
       IN  /\ inst' = [i EXCEPT !.tx = Settle(@, i)]
           /\ rx' = Settle(Tail(rx), i)
           /\ ev' = IF f.v \in {"reset", "crash"} THEN Idle ELSE FrameEvent(f)
    /\ UNCHANGED <<radio, left>>

\* A timer of the protothreads.  The pauses between two attempts and the
\* polls let what is under way arrive first; the timeout of a wait for the
\* NCP expires early when the NCP is slow.
Expire(who) ==
    /\ Quietly
    /\ \/ who = "task" /\ TaskTimed(inst)
       \/ who = "ctl" /\ CtlTimed(inst)
    /\ LET pause == \/ who = "ctl" /\ inst.ctl \in {"sleep1", "retry", "dis_reset"}
                    \/ who = "task" /\ StepOf(Head(inst.tasks)).op = "quiet"
           still == /\ inst.tx = <<>> /\ rx = <<>>
                    /\ who = "ctl" => inst.ctl \notin FlushPcs
       IN  \/ (pause \/ still) /\ left' = left
           \/ ~(pause \/ still) /\ inst.ctl # "off_sleep" /\ Spend("faults")
    /\ ev' = Expired(who)
    /\ UNCHANGED <<inst, rx, radio>>

\* NCPInstanceBase::process() with mNCPIsMisbehaving
misbehaving_reset(i) ==
    LET j == reinitialize_ncp(i)
        k == IF j.failures >= FailureThreshold
             THEN change_ncp_state(j, "FAULT") ELSE j
    IN  [k EXCEPT !.misbehaving = FALSE]

Misbehaving ==
    /\ Quietly
    /\ inst.misbehaving
    /\ Became(reset_tasks([inst EXCEPT !.failures = @ + 1, !.tx = <<>>],
                          "misbehaving"))
    /\ UNCHANGED <<ev, radio, left>>

\* The loop of reset_tasks(), and what its caller does next.
ResetTask ==
    /\ inst.resetting # "no"
    /\ inst.tasks # <<>>
    /\ Became(reset_task(inst))
    /\ UNCHANGED <<ev, radio, left>>

TasksReset ==
    /\ inst.resetting # "no"
    /\ inst.tasks = <<>>
    /\ LET i == [inst EXCEPT !.resetting = "no"]
       IN  Became(CASE inst.resetting = "disabled" -> disabled_tasks_reset(i)
                    [] inst.resetting = "misbehaving" -> misbehaving_reset(i)
                    [] OTHER -> reset_handled(i))
    /\ UNCHANGED <<ev, radio, left>>

FirmwareUpgraded ==
    /\ Quietly
    /\ inst.upgrade = "busy"
    /\ \E r \in {"done", "failed"} : Became([inst EXCEPT !.upgrade = r])
    /\ UNCHANGED <<ev, radio, left>>

-----------------------------------------------------------------------------
(* The NCP (external): it answers commands in order, comes up and goes     *)
(* down, and resets.                                                       *)

Frame(v, b, hdr) == [v |-> v, b |-> b, hdr |-> hdr]

NcpAnswer(c, hdr, r) ==
    CASE c \in {"STACK_UP", "STACK_DOWN"} ->
           [radio |-> [r EXCEPT !.stack = (c = "STACK_UP"), !.role = "detached"],
            frames |-> <<Frame("is_stack", c = "STACK_UP", hdr)>>]
      [] c \in {"IF_UP", "IF_DOWN"} ->
           [radio |-> [r EXCEPT !.if = (c = "IF_UP")],
            frames |-> <<Frame("is_if", c = "IF_UP", hdr)>>]
      [] c = "GET_STACK_UP" ->
           [radio |-> r, frames |-> <<Frame("is_stack", r.stack, hdr)>>]
      [] c = "POWER_LOW" ->
           [radio |-> r, frames |-> <<Frame("is_power", TRUE, hdr)>>]
      [] c = "RESET" ->
           [radio |-> [stack |-> FALSE, if |-> FALSE, role |-> "detached",
                       joining |-> FALSE],
            frames |-> <<Frame("reset", TRUE, "none")>>]
      [] c = "GET_IF_UP" ->
           [radio |-> r, frames |-> <<Frame("is_if", r.if, hdr)>>]
      [] c = "GET_ROLE" ->
           [radio |-> r, frames |-> <<Frame("is_role", r.role = "attached", hdr)>>]
      [] c = "THREAD_MODE" ->
           [radio |-> r,
            frames |-> <<Frame("is_mode", "Sleepy" \notin Opts("join"), hdr)>>]
      [] c = "SCAN_START" ->
           [radio |-> r, frames |-> <<Frame("ok", TRUE, hdr),
                                      Frame("beacon", TRUE, "none"),
                                      Frame("scan_idle", TRUE, "none")>>]
      [] c \in {"JOINER_START", "REQUIRE_JOIN_EXISTING"} ->
           [radio |-> [r EXCEPT !.joining = TRUE],
            frames |-> <<Frame("ok", TRUE, hdr)>>]
      [] OTHER -> [radio |-> r, frames |-> <<Frame("ok", TRUE, hdr)>>]

\* What the NCP may answer instead.
Odd(c) ==
    OddReplies \cap (CASE c = "FETCH_RADIO" -> {"bad_type", "old_version"}
                       [] c = "RESTORE" -> {"bad_name"}
                       [] OTHER -> {})

\* One of the answers to the requests of FETCH_RADIO has the transaction
\* identifier of a command sent fifteen commands before.
NcpServe ==
    /\ Quietly
    /\ inst.tx # <<>>
    /\ LET cmd == Head(inst.tx)
           a == NcpAnswer(cmd.c, cmd.hdr, radio)
           i == [inst EXCEPT !.tx = Tail(@)]
       IN  /\ Len(rx) + Len(a.frames) < MaxRx
           /\ inst' = i
           /\ \/ /\ radio' = a.radio
                 /\ rx' = rx \o a.frames \o
                          (IF cmd.c = "FETCH_RADIO" /\ Waits(i, "task")
                           THEN <<Frame("ok", TRUE, "task")>> ELSE <<>>)
                 /\ left' = left
              \/ /\ cmd.c \notin {"RESET", "NOOP", "GET_VERSION", "GET_STACK_UP"}
                 /\ cmd.c \notin ToSet(Fetches)
                 /\ Spend("faults")
                 /\ radio' = radio
                 /\ rx' = Append(rx, Frame("error", TRUE, cmd.hdr))
              \/ /\ cmd.c \in {"IF_UP", "IF_DOWN"} /\ radio.if = (cmd.c = "IF_UP")
                 /\ radio' = radio
                 /\ rx' = Append(rx, Frame("already", TRUE, cmd.hdr))
                 /\ left' = left
              \/ /\ Spend("faults")
                 /\ \E v \in Odd(cmd.c) : rx' = Append(rx, Frame(v, TRUE, "none"))
                 /\ radio' = radio
    /\ UNCHANGED ev

NcpAttaches ==
    /\ Quietly
    /\ radio.stack /\ radio.role = "detached"
    /\ Len(rx) < MaxRx
    /\ radio' = [radio EXCEPT !.role = "attached", !.joining = FALSE]
    /\ rx' = Append(rx, Frame("is_role", TRUE, "none"))
    /\ UNCHANGED <<inst, ev, left>>

NcpJoins ==
    /\ Quietly
    /\ radio.joining
    /\ Len(rx) < MaxRx
    /\ radio' = [radio EXCEPT !.joining = FALSE]
    /\ \E v \in JoinStatus : rx' = Append(rx, Frame(v, TRUE, "none"))
    /\ UNCHANGED <<inst, ev, left>>

\* The value of a property that somebody asked for or set by name.
NcpReports ==
    /\ Quietly
    /\ Len(rx) < MaxRx
    /\ Spend("notices")
    /\ \E n \in Notices : rx' = Append(rx, Frame(n.v, n.b, "none"))
    /\ UNCHANGED <<inst, ev, radio>>

NcpDrops ==
    /\ Quietly
    /\ radio.role = "attached"
    /\ Len(rx) < MaxRx
    /\ Spend("faults")
    /\ \/ /\ radio' = [radio EXCEPT !.role = "detached"]
          /\ rx' = Append(rx, Frame("is_role", FALSE, "none"))
       \/ /\ radio' = [radio EXCEPT !.stack = FALSE, !.role = "detached"]
          /\ rx' = Append(rx, Frame("is_stack", FALSE, "none"))
    /\ UNCHANGED <<inst, ev>>

NcpResets ==
    /\ Quietly
    /\ Len(rx) < MaxRx
    /\ Spend("faults")
    /\ inst' = [inst EXCEPT !.tx = <<>>]
    /\ radio' = [stack |-> FALSE, if |-> FALSE, role |-> "detached", joining |-> FALSE]
    /\ \E v \in {"reset", "crash"} : rx' = Append(rx, Frame(v, TRUE, "none"))
    /\ UNCHANGED ev

\* A command or a frame is garbled on the line: the checksum drops it.
Lose ==
    /\ Quietly
    /\ Spend("faults")
    /\ \/ rx # <<>> /\ rx' = Tail(rx) /\ inst' = inst
       \/ inst.tx # <<>> /\ inst' = [inst EXCEPT !.tx = Tail(@)] /\ rx' = rx
    /\ UNCHANGED <<ev, radio>>

Next ==
    \/ RunTask \/ RunControl \/ NextPass
    \/ Call \/ SetEnabled \/ SetCapture \/ Capture \/ Flushed \/ Receive
    \/ \E who \in {"task", "ctl"} : Expire(who)
    \/ Misbehaving \/ ResetTask \/ TasksReset \/ FirmwareUpgraded
    \/ NcpServe \/ NcpAttaches \/ NcpJoins \/ NcpReports \/ NcpDrops
    \/ NcpResets \/ Lose

\* The main loop keeps running, the timers expire whatever else happens,
\* and the NCP answers and attaches unless a fault keeps it from it.
Fairness ==
    /\ WF_vars(RunTask) /\ WF_vars(RunControl) /\ WF_vars(NextPass)
    /\ WF_vars(ResetTask) /\ WF_vars(TasksReset)
    /\ WF_vars(Capture) /\ WF_vars(Flushed)
    /\ WF_vars(Receive) /\ WF_vars(Misbehaving) /\ WF_vars(FirmwareUpgraded)
    /\ SF_vars(Expire("task")) /\ SF_vars(Expire("ctl"))
    /\ WF_vars(NcpServe) /\ WF_vars(NcpAttaches)

Spec == Init /\ [][Next]_vars /\ Fairness

-----------------------------------------------------------------------------
Resetters == {"no", "disabled", "misbehaving", "reset", "crash"}

TypeOK ==
    /\ inst.state \in NCPState
    /\ inst.driver \in {"INITIALIZING", "WAITING_FOR_RESET", "NORMAL_OPERATION"}
    /\ inst.ctl \in InitPcs \cup DisabledPcs \cup
                   {"drain", "loop", "as1", "as2", "as_noop", "off_sleep"}
    /\ {inst.initializing, inst.enabled, inst.resetExpected, inst.commissioned,
        inst.rxon, inst.capture, inst.pcap, inst.misbehaving, inst.online,
        inst.running} \subseteq BOOLEAN
    /\ inst.sub \in DOMAIN Fetches
    /\ inst.failures \in Nat
    /\ inst.resetting \in Resetters
    /\ \A n \in DOMAIN inst.tasks :
          /\ inst.tasks[n].kind \in DOMAIN Scripts
          /\ inst.tasks[n].last \in NCPState
          /\ inst.tasks[n].pc \in
               DOMAIN (IF inst.tasks[n].err THEN ErrorScripts ELSE Scripts)[inst.tasks[n].kind]
    /\ Len(rx) <= MaxRx

\* No call is lost and none is answered twice: a call that was made and not
\* answered is carried by exactly one task of the queue, an answered one has
\* one answer and no task left (start_new_task(), SpinelNCPTask::finish(),
\* reset_tasks()).
CallsInQueue ==
    /\ left.made \in 0..MaxCalls
    /\ \A n \in DOMAIN inst.tasks : inst.tasks[n].id \in 0..left.made
    /\ \A m, n \in DOMAIN inst.tasks :
          inst.tasks[m].id = inst.tasks[n].id => m = n \/ inst.tasks[m].id = 0
    /\ \A c \in CallIds :
          /\ Len(inst.answers[c]) <= 1
          /\ inst.answers[c] = <<>> <=>
                \/ c > left.made
                \/ \E n \in DOMAIN inst.tasks : inst.tasks[n].id = c

\* A queued task keeps out of the way of the one at the front: what it does
\* with EVENT_STARTING_TASK is to check its preconditions, and it has sent
\* nothing and changed nothing before its turn (EH_WAIT_UNTIL(
\* EVENT_STARTING_TASK != event) in every task).
QueuedTasksWait ==
    \A n \in DOMAIN inst.tasks : n > 1 =>
        /\ ~inst.tasks[n].err /\ ~inst.tasks[n].sent
        /\ \A m \in 1..(inst.tasks[n].pc - 1) :
              Scripts[inst.tasks[n].kind][m].op \in {"require", "await"}

\* The control protothread is past vprocess_init only with the initialisation
\* complete, however often a state change restarts it meanwhile: then an NCP
\* reset cancels the tasks, and no task waits for an initialisation that
\* nobody runs.
PastInitIsInitialized ==
    (inst.ctl \notin InitPcs \/ inst.resetting = "disabled") =>
        inst.driver = "NORMAL_OPERATION" /\ ~inst.initializing

\* The instance agrees with its queue, its flags and its callers
\* (SpinelNCPInstance, NCPInstanceBase).
CoreConsistent ==
    TypeOK /\ CallsInQueue /\ QueuedTasksWait /\ PastInitIsInitialized

\* "Interface Down -> Interface Up" (handle_ncp_state_change): while the NCP
\* is associated and initialised, the tunnel interface is up.
InterfaceRuns ==
    (ncp_state_is_interface_up(inst.state) /\ ~inst.initializing) => inst.running

\* The calls as a caller sees them: the callback was not invoked yet, was
\* invoked once, or was invoked again.
CallsOf ==
    [c \in CallIds |->
        IF c > left.made THEN "none"
        ELSE CASE inst.answers[c] = <<>> -> "pending"
               [] Len(inst.answers[c]) = 1 -> "answered"
               [] OTHER -> "twice"]

Service == INSTANCE CallService WITH
    Calls <- CallIds, calls <- CallsOf, faulty <- (inst.state = "FAULT")

\* The instance implements the call service: the callback of every call is
\* invoked exactly once, in the end, whatever is lost, resets or is disabled
\* while its task is queued or waits, unless the driver is in FAULT.
EveryCallAnswered == Service!Spec

\* The initialisation ends: the daemon never stays UNINITIALIZED, whatever
\* the retries of vprocess_init meet, while the NCP answers in the end.
InitCompletes ==
    (inst.state = "UNINITIALIZED") ~> (inst.state # "UNINITIALIZED")

\* The poll of vprocess_offline makes up for a lost notification: an enabled
\* daemon whose NCP has its stack up becomes associated.  ISOLATED counts as
\* associated, though its interface is down: the poll has ended there and
\* only a report of NET_ROLE leads out of it, as only that, a timeout or a
\* reset leads out of the ASSOCIATING to which a thread mode with
\* RX_ON_WHEN_IDLE takes it.
OfflinePollHeals ==
    (radio.stack /\ inst.enabled) ~>
        (\/ ncp_state_is_associated(inst.state) \/ ~radio.stack \/ ~inst.enabled
         \/ inst.state = "ASSOCIATING" /\ inst.rxon
         \/ inst.state \in {"FAULT", "CREDENTIALS_NEEDED"})

\* Disabling the daemon takes effect: "Conditions under which this
\* protothread should be exited gracefully" (vprocess_offline) has !mEnabled.
DisableServed ==
    (~inst.enabled) ~> (inst.enabled \/ inst.state \in {"DEEP_SLEEP", "FAULT"})
=============================================================================
