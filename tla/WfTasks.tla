------------------------------ MODULE WfTasks ------------------------------
(***************************************************************************)
(* The tasks of wfantund's Spinel plugin (src/src/ncp-spinel/              *)
(* SpinelNCPTask*.cpp).  A task is a protothread that the event loop       *)
(* resumes at its last wait; its body is given here as the sequence of its *)
(* steps, in the order of the code, and WfCore says what a step does.      *)
(*                                                                         *)
(* A step is [op, c, s, n]:                                                *)
(*   require  if (!c) { finish(s); EH_EXIT(); }                            *)
(*   insist   if (!c) goto on_error, with ret = s                          *)
(*   await    EH_REQUIRE_WITHIN(timeout, c, on_error)                      *)
(*   turn     EH_WAIT_UNTIL(EVENT_STARTING_TASK != event)                  *)
(*   save     mLastState = get_ncp_state()                                 *)
(*   become   change_ncp_state(s)                                          *)
(*   set      an assignment to members of the instance or the task         *)
(*   send     vprocess_send_command of c; s says which statuses go on      *)
(*   skip     if (!c) the next n steps are skipped                         *)
(*   quiet    waits until the NCP has been silent for half a second        *)
(*   scan     the loop over the results of a scan                          *)
(*   joined   waits for a join status or for the state to be associated    *)
(*   joinstatus  waits for a join status                                   *)
(*   yield    EH_YIELD: the next step runs on the next event               *)
(*   finish   finish(s), where "ret" stands for the current return value   *)
(***************************************************************************)
EXTENDS Integers, Sequences

Step(op, c, s, n) == [op |-> op, c |-> c, s |-> s, n |-> n]
Require(c, s) == Step("require", c, s, 0)
Insist(c, s) == Step("insist", c, s, 0)
Await(c) == Step("await", c, "Failure", 0)
Turn == Step("turn", "-", "-", 0)
Save == Step("save", "-", "-", 0)
Become(s) == Step("become", "-", s, 0)
Set(c) == Step("set", c, "-", 0)
Send(c, s) == Step("send", c, s, 0)
SkipUnless(c, n) == Step("skip", c, "-", n)
Quiet == Step("quiet", "-", "-", 0)
ScanLoop == Step("scan", "-", "-", 0)
Joined == Step("joined", "-", "-", 0)
Finish(s) == Step("finish", "-", s, 0)

\* The commands of options that were not given are not sent.
Given(o, opts, steps) == IF o \in opts THEN steps ELSE <<>>
EitherGiven(o1, o2, opts, steps) ==
    IF o1 \in opts \/ o2 \in opts THEN steps ELSE <<>>

-----------------------------------------------------------------------------
(* The prologue shared by most tasks: WfCore puts it in front of them. *)

Enabled == <<Require("enabled", "InvalidWhenDisabled"),
             Require("not_upgrading", "InvalidForCurrentState")>>

-----------------------------------------------------------------------------
(* SpinelNCPTaskForm.  The constructor adds a PAN ID, an XPANID and a      *)
(* mesh-local address to the options, and a key and its index unless the   *)
(* instance has a network key.                                             *)

FormOptions(opts, haveKey) ==
    opts \cup {"PANID", "XPANID", "MLAddress"}
         \cup (IF haveKey THEN {} ELSE {"Key", "KeyIndex"})

FormBegin ==
    <<Await("initialized"),
      Require("not_associated", "Already"),
      Require("cap_router", "FeatureNotSupported"),
      Turn, Save, Become("ASSOCIATING"),
      Send("NET_CLEAR", "any"),
      Insist("channel_supported", "InvalidArgument"),
      Send("PHY_CHAN", "ok"),
      Send("PROMISCUOUS_OFF", "any")>>

FormParameters(opts) ==
    Given("PANID", opts, <<Send("PANID", "ok")>>) \o
    Given("XPANID", opts, <<Send("XPANID", "ok")>>) \o
    Given("Name", opts, <<Send("NETWORK_NAME", "ok")>>) \o
    Given("Key", opts, <<Send("MASTER_KEY", "ok")>>) \o
    Given("KeyIndex", opts, <<Send("KEY_SEQUENCE_COUNTER", "ok")>>)

FormPrefixes(opts, legacy) ==
    EitherGiven("MLPrefix", "MLAddress", opts, <<Send("ML_PREFIX", "ok")>>) \o
    (IF legacy
     THEN Given("LegacyPrefix", opts, <<Send("LEGACY_ULA_PREFIX", "ok")>>)
     ELSE <<>>)

FormEnd == <<Send("IF_UP", "okOrAlready"),
             Send("STACK_UP", "ok"),
             Await("associated"),
             Finish("Ok")>>

-----------------------------------------------------------------------------
(* SpinelNCPTaskJoin.  The node type, when it is given, is checked against *)
(* the capabilities; without CONFIG_FTD the command sent for it is still   *)
(* the NET_CLEAR that mNextCommand holds.                                  *)

JoinBegin ==
    <<Await("initialized"),
      Require("not_associated", "Already"),
      Turn,
      Send("NET_CLEAR", "any"),
      Save, Become("ASSOCIATING")>>

JoinNodeType(opts, ftd) ==
    Given("NodeType", opts,
          <<Insist("cap_node_type", "FeatureNotSupported"),
            Send(IF ftd THEN "ROUTER_ROLE_ENABLED" ELSE "NET_CLEAR", "ok"),
            Send("THREAD_MODE", "ok")>>)

JoinParameters(opts) ==
    <<Send("PROMISCUOUS_OFF", "any")>> \o
    Given("Channel", opts, <<Send("PHY_CHAN", "ok")>>) \o
    Given("PANID", opts, <<Send("PANID", "ok")>>) \o
    Given("XPANID", opts, <<Send("XPANID", "ok")>>) \o
    Given("Name", opts, <<Send("NETWORK_NAME", "ok")>>) \o
    Given("Key", opts, <<Send("MASTER_KEY", "ok")>>) \o
    Given("KeyIndex", opts, <<Send("KEY_SEQUENCE_COUNTER", "ok")>>) \o
    EitherGiven("MLAddress", "MLPrefix", opts, <<Send("ML_PREFIX", "ok")>>)

JoinEnd == <<Send("IF_UP", "okOrAlready"),
             Send("REQUIRE_JOIN_EXISTING", "any"),
             Send("STACK_UP", "ok"),
             Joined,
             Finish("ret")>>

-----------------------------------------------------------------------------
Leave ==
    <<Await("initialized"), Turn, Set("uncommission"),
      Send("STACK_DOWN", "ok"),
      Send("IF_DOWN", "ok"),
      Send("NET_CLEAR", "ok"),
      Set("forget_key"),
      Send("RESET", "ok"),
      Await("initializing_state"),
      Await("normal_operation"),
      Finish("Ok")>>

\* SpinelNCPTaskDeepSleep.  Line 70 gives the timeout and the condition of
\* the wait for the end of the initialisation in the wrong order: the
\* condition is a non-zero number, so nothing is waited for.
DeepSleepPower == <<Send("NOOP", "any"), Quiet, Set("power_off")>>

DeepSleep(mcu, power) ==
    LET low == IF mcu THEN <<Send("POWER_LOW", "ok")>>
                      ELSE <<Send("PHY_OFF", "any"), Quiet, Become("DEEP_SLEEP")>>
    IN  <<Turn>> \o
        (IF power THEN DeepSleepPower ELSE <<>>) \o
        <<SkipUnless("not_asleep", 3 + Len(low)),
          SkipUnless("joining_or_joined", 2),
          Send("STACK_DOWN", "ok"),
          Send("IF_DOWN", "ok")>> \o
        low \o
        <<Finish("slept")>>

HostDidWake(tickle) ==
    <<Require("enabled", "Ok"), Require("not_upgrading", "Ok"),
      Step("await", "initialized", "Ok", 0), Turn>> \o
    (IF tickle THEN <<Send("NOOP", "ok")>> ELSE <<>>) \o
    <<Finish("Ok")>>

-----------------------------------------------------------------------------
(* SpinelNCPTaskJoinerCommissioning and SpinelNCPTaskJoinerAttach. *)

JoinerBegin ==
    <<Await("initialized_state"),
      Require("not_associated", "Already"),
      Turn>>

JoinerStop == JoinerBegin \o <<Send("IF_DOWN", "okOrAlready"),
                               Send("JOINER_STOP", "ok"),
                               Finish("ret")>>

JoinerStart(opts) ==
    JoinerBegin \o
    <<Save,
      Insist("has_pskd", "InvalidArgument"),
      Insist("discerner_complete", "InvalidArgument"),
      Become("ASSOCIATING"),
      Send("PROMISCUOUS_OFF", "any"),
      Send("IF_UP", "ok")>> \o
    Given("Discerner", opts, <<Send("JOINER_DISCERNER", "okOrAlready")>>) \o
    <<Send("JOINER_START", "ok")>> \o
    (IF "ReturnImmediately" \in opts THEN <<>>
     ELSE <<Step("joinstatus", "-", "-", 0)>>) \o
    <<Finish("ret")>>

JoinerAttach(opts) ==
    JoinerBegin \o
    <<Send("STACK_UP", "okOrAlready")>> \o
    (IF "ReturnImmediately" \in opts THEN <<>>
     ELSE <<Await("associated_initialized")>>) \o
    <<Finish("Ok")>>

-----------------------------------------------------------------------------
(* SpinelNCPTaskGetNetworkTopology and SpinelNCPTaskGetMsgBufferCounters;  *)
(* the answer is decoded as WfUnpack says.                                 *)

GetNetworkTopology ==
    <<Await("initialized"), Turn, Send("GET_TABLE", "ok"), Finish("Ok")>>

GetMsgBufferCounters ==
    <<Await("initialized"), Turn, Send("GET_COUNTERS", "ok"),
      Insist("decoded", "Failure"), Finish("Ok")>>

-----------------------------------------------------------------------------
(* SpinelNCPTaskSendCommand: an optional lock property around a list of    *)
(* commands.  Only the status of the last one is looked at ("last"); a     *)
(* final check waits for the check handler.                                *)

SendCommands_NoTurn(cmds, lock, check) ==
    [i \in 1..Len(cmds) |-> Send(cmds[i], "ok")] \o <<Finish("ret")>>

SendCommands(cmds, lock, check) ==
    <<Turn>> \o
    (IF lock THEN <<Send("LOCK", "okOrBusy")>> ELSE <<>>) \o
    [i \in 1..Len(cmds) |->
        Send(cmds[i], IF i < Len(cmds) THEN "any" ELSE "ok")] \o
    (IF check THEN <<Step("yield", "-", "-", 0), Await("final_check")>>
              ELSE <<>>) \o
    (IF lock THEN <<Send("UNLOCK", "unlock")>> ELSE <<>>) \o
    <<Finish("ret")>>

SendCommandsFailed(lock) ==
    (IF lock THEN <<Send("UNLOCK", "unlock")>> ELSE <<>>) \o
    <<Finish("ret")>>

-----------------------------------------------------------------------------
(* SpinelNCPTaskScan. *)

ScanBegin == <<Await("can_scan"), Turn, Send("SCAN_MASK", "ok")>>

ScanDiscover ==
    <<Send("DISCOVERY_JOINER_FLAG", "ok"),
      Send("DISCOVERY_FILTERING", "ok"),
      Send("DISCOVERY_PANID", "ok"),
      SkipUnless("interface_down", 2),
      Send("IF_UP", "okOrAlready"),
      Set("take_down")>>

ScanEnd == <<Send("SCAN_PERIOD", "ok"),
             Send("SCAN_START", "ok"),
             ScanLoop,
             SkipUnless("take_down", 1),
             Send("IF_DOWN", "okOrAlready"),
             Finish("ret")>>

ScanFailed == <<SkipUnless("take_down", 1),
                Send("IF_DOWN", "any"),
                Finish("ret")>>

=============================================================================
