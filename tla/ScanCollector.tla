--------------------------- MODULE ScanCollector ---------------------------
(***************************************************************************)
(* Active scans: scan() of dcu-tunnel-daemon/src/tasks/scan.rs in the main *)
(* task, dispatch_unsolicited_static() of instance/base.rs in the frame    *)
(* task, and the slot scan_collector with its RwLock between them.         *)
(*                                                                         *)
(* `if let Some(tx) = scan_collector.read().await.clone() { .. }` keeps    *)
(* its read guard to the end of the block.  The block ends by taking the   *)
(* write lock when the receiver of tx is gone, so that a frame task which  *)
(* gets there waits for its own read guard, and so does every later writer *)
(* of the slot.  No action leads out of "clearing".                        *)
(*                                                                         *)
(* A command sent to the NCP succeeds or fails (module Transactions); it   *)
(* cannot succeed once the frame task, which delivers replies, is blocked. *)
(***************************************************************************)
EXTENDS Naturals, Sequences

CONSTANTS
    MaxScans,   \* bound: calls of scan()
    MaxBeacons  \* bound: beacons per scan

ASSUME ScanAssumption == MaxScans \in Nat \ {0} /\ MaxBeacons \in Nat

None == 0

VARIABLES
    scans,      \* calls of scan() so far; the last one is the current scan
    main,       \* where the main task is in scan()
    collector,  \* the slot: None, or the scan whose sender it holds
    channel,    \* frames in the current scan's beacon channel
    results,    \* the current scan's results: of which scan each beacon is
    ended,      \* how the loop of the current scan ended
    returned,   \* what each scan() returned: [ended, results]
    frame_task, \* "recv", or "clearing": waits for the write lock
    line,       \* scan frames on their way to the frame task
    ncp,        \* external: the scan that the NCP is running, or None
    beacons     \* external: beacons the NCP has sent in each scan

scanner == <<scans, main, results, ended, returned>>
vars == <<scanner, collector, channel, frame_task, line, ncp, beacons>>

-----------------------------------------------------------------------------
(* The main task.                                                          *)

\* The write lock is free: the frame task takes its read guard and gives it
\* back in one step unless it gets stuck with it.
CanWrite == frame_task # "clearing"

\* scan() returns, and its receiver is dropped with all that is in it.
Return(how, found) ==
    /\ main' = "idle"
    /\ returned' = Append(returned, [ended |-> how, results |-> found])
    /\ channel' = <<>>
    /\ UNCHANGED scans

scan ==
    /\ main = "idle"
    /\ scans < MaxScans
    /\ scans' = scans + 1
    /\ main' = "guard"
    /\ results' = <<>>
    /\ ended' = "running"
    /\ UNCHANGED <<collector, channel, returned, frame_task, line, ncp, beacons>>

\* wait_for_state(): the NCP is in a state to scan, or it is not in time.
wait_for_state ==
    /\ main = "guard"
    /\ \/ /\ main' = "register"
          /\ UNCHANGED <<scans, returned, channel>>
       \/ Return("refused", <<>>)
    /\ UNCHANGED <<results, ended, collector, frame_task, line, ncp, beacons>>

register_scan_collector ==
    /\ main = "register"
    /\ CanWrite
    /\ collector' = scans
    /\ main' = "mask"
    /\ UNCHANGED <<scans, results, ended, returned, channel, frame_task, line,
                   ncp, beacons>>

\* PROP_MAC_SCAN_MASK; `?` returns without giving the slot back.
set_mask ==
    /\ main = "mask"
    /\ \/ /\ CanWrite
          /\ main' = "start"
          /\ UNCHANGED <<scans, returned, channel>>
       \/ Return("failed", <<>>)
    /\ UNCHANGED <<results, ended, collector, frame_task, line, ncp, beacons>>

\* PROP_MAC_SCAN_STATE; an NCP that is scanning refuses, and one that starts
\* may still be too late with its answer.
start_scan ==
    /\ main = "start"
    /\ \/ /\ CanWrite
          /\ ncp = None
          /\ ncp' = scans
          /\ main' = "collect"
          /\ UNCHANGED <<scans, returned, channel>>
       \/ /\ Return("failed", <<>>)
          /\ ncp' \in {ncp} \cup (IF ncp = None THEN {scans} ELSE {})
    /\ line' \in {line} \cup
                 (IF ncp = ncp' THEN {} ELSE {Append(line, [kind |-> "scanning", of |-> scans])})
    /\ UNCHANGED <<results, ended, collector, frame_task, beacons>>

\* The loop breaks: the scan state is IDLE, or None because no sender is left.
Breaks_AnyState == channel = <<>> \/ Head(channel).kind \in {"scanning", "idle"}
Breaks == channel = <<>> \/ Head(channel).kind = "idle"

\* beacon_rx.recv().
receive ==
    /\ main = "collect"
    /\ ~(channel = <<>> /\ collector = scans)
    /\ IF Breaks
       THEN /\ main' = "unregister"
            /\ ended' = IF channel = <<>> THEN "dropped" ELSE "idle"
       ELSE UNCHANGED <<main, ended>>
    /\ results' = IF channel # <<>> /\ Head(channel).kind = "beacon"
                  THEN Append(results, Head(channel).of) ELSE results
    /\ channel' = IF channel = <<>> THEN <<>> ELSE Tail(channel)
    /\ UNCHANGED <<scans, returned, collector, frame_task, line, ncp, beacons>>

\* SCAN_TIMEOUT.
deadline_Never == FALSE /\ UNCHANGED vars
deadline ==
    /\ main = "collect"
    /\ main' = "unregister"
    /\ ended' = "timeout"
    /\ UNCHANGED <<scans, results, returned, collector, channel, frame_task,
                   line, ncp, beacons>>

unregister_scan_collector ==
    /\ main = "unregister"
    /\ CanWrite
    /\ collector' = None
    /\ Return(ended, IF ended = "timeout" THEN <<>> ELSE results)
    /\ UNCHANGED <<results, ended, frame_task, line, ncp, beacons>>

-----------------------------------------------------------------------------
(* The frame task.                                                         *)

\* The receiver of the sender in the slot exists: it is the current scan's,
\* and that scan has not returned.
ReceiverAlive == collector = scans /\ main \notin {"idle", "guard", "register"}

\* The sender is cloned, not taken.
Slot == collector

\* dispatch_unsolicited_static() on a scan frame.
dispatch_unsolicited ==
    /\ frame_task = "recv"
    /\ line # <<>>
    /\ line' = Tail(line)
    /\ channel' = IF ReceiverAlive THEN Append(channel, Head(line)) ELSE channel
    /\ collector' = Slot
    /\ frame_task' = IF collector # None /\ ~ReceiverAlive THEN "clearing"
                     ELSE "recv"
    /\ UNCHANGED <<scanner, ncp, beacons>>

-----------------------------------------------------------------------------
(* External: the NCP.                                                      *)

NcpBeacon ==
    /\ ncp # None
    /\ beacons[ncp] < MaxBeacons
    /\ beacons' = [beacons EXCEPT ![ncp] = @ + 1]
    /\ line' = Append(line, [kind |-> "beacon", of |-> ncp])
    /\ UNCHANGED <<scanner, collector, channel, frame_task, ncp>>

NcpIdle ==
    /\ ncp # None
    /\ line' = Append(line, [kind |-> "idle", of |-> ncp])
    /\ ncp' = None
    /\ UNCHANGED <<scanner, collector, channel, frame_task, beacons>>

-----------------------------------------------------------------------------

Init ==
    /\ scans = 0
    /\ main = "idle"
    /\ collector = None
    /\ channel = <<>>
    /\ results = <<>>
    /\ ended = "running"
    /\ returned = <<>>
    /\ frame_task = "recv"
    /\ line = <<>>
    /\ ncp = None
    /\ beacons = [n \in 1 .. MaxScans |-> 0]

MainTask ==
    \/ wait_for_state
    \/ register_scan_collector
    \/ set_mask
    \/ start_scan
    \/ receive
    \/ unregister_scan_collector

Next == scan \/ MainTask \/ deadline \/ dispatch_unsolicited \/ NcpBeacon \/ NcpIdle

Spec == Init /\ [][Next]_vars

\* The runtime polls the main task and the frame task, and the deadline is an
\* absolute timer; the NCP may fall silent at any time.
FairSpec ==
    Spec /\ WF_vars(MainTask) /\ WF_vars(deadline) /\ WF_vars(dispatch_unsolicited)

-----------------------------------------------------------------------------

Scans == 1 .. MaxScans
ScanFrames == [kind : {"beacon", "scanning", "idle"}, of : Scans]

TypeOK ==
    /\ scans \in 0 .. MaxScans
    /\ main \in {"idle", "guard", "register", "mask", "start", "collect", "unregister"}
    /\ collector \in {None} \cup Scans
    /\ channel \in Seq(ScanFrames)
    /\ results \in Seq(Scans)
    /\ ended \in {"running", "idle", "dropped", "timeout"}
    /\ returned \in Seq([ended : {"refused", "failed", "idle", "dropped", "timeout"},
                         results : Seq(Scans)])
    /\ Len(returned) = IF main = "idle" THEN scans ELSE scans - 1
    /\ frame_task \in {"recv", "clearing"}
    /\ line \in Seq(ScanFrames)
    /\ ncp \in {None} \cup Scans
    /\ beacons \in [Scans -> 0 .. MaxBeacons]

\* A scan that succeeds has collected until the scan state reported IDLE: it
\* never takes a vanished collector for the end of the scan (the `None =>
\* break` of scan()), whatever became of the scans before it.
EndsAtIdle == \A n \in 1 .. Len(returned) : returned[n].ended # "dropped"

\* A scan that succeeds returns exactly the beacons that the NCP sent in that
\* scan, whatever scan states it reported in between, provided that no earlier scan timed out or failed after it had
\* registered.
ResultsComplete ==
    \A n \in 1 .. Len(returned) :
        returned[n].ended = "idle"
        /\ (\A m \in 1 .. n - 1 : returned[m].ended \in {"idle", "refused"})
        => returned[n].results = [i \in 1 .. beacons[n] |-> n]

\* What scan() returns can be believed (base.rs).
ScanConsistent == TypeOK /\ EndsAtIdle /\ ResultsComplete

\* As long as the frame task is not stuck, every scan() returns, whether or
\* not the NCP answers, reports a beacon or ever reports IDLE.
ScansReturn ==
    []<>(frame_task = "recv") => (main # "idle" ~> main = "idle")

=============================================================================
