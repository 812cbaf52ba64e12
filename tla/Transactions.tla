---------------------------- MODULE Transactions ----------------------------
(***************************************************************************)
(* The request/response layer between the daemon and the NCP:              *)
(* `alloc_tid`, `ResponseTable` and `send_command_timeout` of              *)
(* dcu-tunnel-daemon/src/instance/base.rs, and the frame task of `run`     *)
(* that feeds the table.                                                   *)
(*                                                                         *)
(* A call draws a 4-bit transaction id (TID) from a wrapping 8-bit         *)
(* counter, registers a oneshot sender under that TID, sends its frame and *)
(* awaits the receiver under a timer.  The frame task gives an incoming    *)
(* frame to the first table entry with the frame's TID.  The daemon's main *)
(* task issues calls one at a time, except once during initialisation,     *)
(* when `join_all` issues BatchSize property queries side by side.         *)
(*                                                                         *)
(* `req` is a ghost identity: the number of TIDs drawn before this one.    *)
(* It tells two frames with the same TID apart; no action branches on it,  *)
(* except for the order of the table (a Vec in order of registration).     *)
(* The NCP may answer a frame at any later time, or never: an answer can   *)
(* come when its call has long returned and its TID was drawn again.       *)
(***************************************************************************)
EXTENDS Integers, FiniteSets

CONSTANTS
    CounterMod,   \* 2^8: NEXT_TID is an AtomicU8
    TidCount,     \* 15: TIDs are 1 .. TidCount
    MaxResets,    \* 3: MAX_RESET_RETRIES
    InitCalls,    \* 4: PROP_CAPS, and what set_ncp_state(Offline) may send
    BatchSize,    \* 11: properties queried side by side in run()
    MaxStray,     \* bound: frames of returned calls still to be answered
    MaxRequests   \* bound: TIDs drawn in one behaviour

ASSUME CountsAssumption ==
    /\ CounterMod \in Nat \ {0}
    /\ TidCount \in Nat \ {0}
    /\ MaxResets \in Nat \ {0}
    /\ InitCalls \in Nat
    /\ BatchSize \in 1 .. TidCount
    /\ MaxStray \in Nat
    /\ MaxRequests \in Nat

\* The counter does not wrap before the batch is issued: 3 + 4 + 11 <= 256.
ASSUME BatchBeforeWrap == MaxResets + InitCalls + BatchSize <= CounterMod

VARIABLES
    next_tid,  \* NEXT_TID, the wrapping counter
    issued,    \* ghost: TIDs drawn so far
    pending,   \* ResponseTable.pending
    waiting,   \* calls awaiting their receiver
    expired,   \* calls whose timer fired, not yet unregistered
    slots,     \* frames sent through a oneshot and not yet received
    outbound,  \* frames on their way to the NCP
    inbound,   \* answers on their way to the frame task
    io_up,     \* the I/O task holds outbound_rx
    frame_up,  \* the frame task is running
    phase,     \* where run() is
    left       \* resets, calls or queries that this phase may still issue

vars == <<next_tid, issued, pending, waiting, expired, slots, outbound,
          inbound, io_up, frame_up, phase, left>>
tasks == <<io_up, frame_up>>

Calls == [req : Nat, tid : 1 .. TidCount]
Answers == [req : Nat, tid : 0 .. TidCount, ok : BOOLEAN]
Slots == [to : Nat, from : Nat, ok : BOOLEAN]

Live == waiting \cup expired

-----------------------------------------------------------------------------

\* The TID that `alloc_tid` returns when the counter is c.
Tid_ShortCycle(c) == (c % (TidCount - 1)) + 1
Tid(c) == (c % TidCount) + 1

\* The call that draws the next TID.
NextCall == [req |-> issued, tid |-> Tid(next_tid)]

\* alloc_tid(): fetch_add on the wrapping counter.
alloc_tid ==
    /\ issued < MaxRequests
    /\ next_tid' = (next_tid + 1) % CounterMod
    /\ issued' = issued + 1

\* Bound: when no call is out, every frame in flight is of a returned call.
FewStrays == Cardinality(outbound) + Cardinality(inbound) <= MaxStray

\* ResponseTable::unregister(): drops every entry with this TID.
unregister_Nothing(tid) == pending
unregister(tid) == {p \in pending : p.tid # tid}

\* ResponseTable::deliver(): position of the first entry with this TID.
Matches(tid) == {p \in pending : tid # 0 /\ p.tid = tid}
First(ps) == CHOOSE p \in ps : \A q \in ps : p.req <= q.req

\* send_command_timeout() up to its await: register, send, and undo the
\* registration when the I/O task no longer holds the receiving end.
Issue ==
    /\ alloc_tid
    /\ IF io_up
       THEN /\ pending' = pending \cup {NextCall}
            /\ waiting' = waiting \cup {NextCall}
            /\ outbound' = outbound \cup {NextCall}
       ELSE /\ pending' = unregister(NextCall.tid)
            /\ UNCHANGED <<waiting, outbound>>
    /\ UNCHANGED <<expired, slots, inbound, tasks>>

\* run(): a CMD_RESET attempt draws a TID and registers nothing; when the
\* send fails the loop breaks and run() returns.
send_reset ==
    /\ phase = "reset"
    /\ left > 0
    /\ FewStrays
    /\ alloc_tid
    /\ outbound' = outbound \cup (IF io_up THEN {NextCall} ELSE {})
    /\ phase' = IF io_up THEN phase ELSE "stopped"
    /\ left' = left - 1
    /\ UNCHANGED <<pending, waiting, expired, slots, inbound, tasks>>

\* run(): an attempt was acknowledged (the acknowledgement does not pass
\* through the table); PROP_CAPS and the queries of set_ncp_state follow.
reset_acknowledged ==
    /\ phase = "reset"
    /\ left < MaxResets
    /\ phase' = "init"
    /\ left' = InitCalls
    /\ UNCHANGED <<next_tid, issued, pending, waiting, expired, slots,
                   outbound, inbound, tasks>>

\* The main task calls send_command_timeout(), for one of the few commands
\* of the initialisation or for a command of a client: it holds no other
\* call until this one returns.
send_command ==
    /\ \/ phase = "init" /\ left > 0 /\ left' = left - 1
       \/ phase = "run" /\ left' = left
    /\ Live = {}
    /\ FewStrays
    /\ Issue
    /\ UNCHANGED phase

\* run() returns: initialisation failed, or the token was cancelled.
run_returns ==
    /\ phase \in {"reset", "init", "run"}
    /\ Live = {}
    /\ phase' = "stopped"
    /\ UNCHANGED <<next_tid, issued, pending, waiting, expired, slots,
                   outbound, inbound, tasks, left>>

\* run(): join_all over the init properties.
start_batch ==
    /\ phase = "init"
    /\ Live = {}
    /\ FewStrays
    /\ issued + BatchSize <= MaxRequests
    /\ phase' = "batch"
    /\ left' = BatchSize
    /\ UNCHANGED <<next_tid, issued, pending, waiting, expired, slots,
                   outbound, inbound, tasks>>

\* The first poll of join_all runs every query up to its await.
issue_query ==
    /\ phase = "batch"
    /\ left > 0
    /\ Issue
    /\ left' = left - 1
    /\ UNCHANGED phase

\* join_all is ready when all of its queries are.
end_batch ==
    /\ phase = "batch"
    /\ left = 0
    /\ Live = {}
    /\ phase' = "run"
    /\ UNCHANGED <<next_tid, issued, pending, waiting, expired, slots,
                   outbound, inbound, tasks, left>>

\* The main task polls a call only when no query is left to issue.
Polled == phase = "batch" => left = 0

\* The receiver has a frame; a LAST_STATUS other than OK is an error.
Receive(call, s) ==
    /\ Polled
    /\ call \in waiting
    /\ s \in slots
    /\ s.to = call.req
    /\ waiting' = waiting \ {call}
    /\ slots' = slots \ {s}
    /\ pending' = IF s.ok THEN pending ELSE unregister(call.tid)
    /\ UNCHANGED <<next_tid, issued, expired, outbound, inbound, tasks,
                   phase, left>>

\* The timer fires: the receiver was empty when it was polled.  The receiver
\* stays alive, and the entry in the table, until the error arm has run.
Expire_WhileIoUp(call) ==
    /\ io_up
    /\ Polled
    /\ call \in waiting
    /\ \A s \in slots : s.to # call.req
    /\ waiting' = waiting \ {call}
    /\ expired' = expired \cup {call}
    /\ UNCHANGED <<next_tid, issued, pending, slots, outbound, inbound, tasks,
                   phase, left>>
Expire(call) ==
    /\ Polled
    /\ call \in waiting
    /\ \A s \in slots : s.to # call.req
    /\ waiting' = waiting \ {call}
    /\ expired' = expired \cup {call}
    /\ UNCHANGED <<next_tid, issued, pending, slots, outbound, inbound, tasks,
                   phase, left>>

\* The oneshot's sender was dropped without sending.
SenderDropped(call) ==
    /\ \A s \in slots : s.to # call.req
    /\ \A p \in pending : p.req # call.req

\* The error arms of the match, timeout and DaemonError::Cancelled:
\* unregister, then drop the receiver.
Failed(call) ==
    /\ Polled
    /\ call \in expired \cup {c \in waiting : SenderDropped(c)}
    /\ waiting' = waiting \ {call}
    /\ expired' = expired \ {call}
    /\ pending' = unregister(call.tid)
    /\ slots' = {s \in slots : s.to # call.req}
    /\ UNCHANGED <<next_tid, issued, outbound, inbound, tasks, phase, left>>

\* The frame task takes an answer from frame_rx and delivers it.  A send to
\* a dropped receiver is ignored.
deliver(f) ==
    LET entry == First(Matches(f.tid))
    IN /\ frame_up
       /\ f \in inbound
       /\ inbound' = inbound \ {f}
       /\ IF Matches(f.tid) = {}
          THEN UNCHANGED <<pending, slots>>
          ELSE /\ pending' = pending \ {entry}
               /\ slots' = IF \E call \in Live : call.req = entry.req
                           THEN slots \cup {[to |-> entry.req, from |-> f.req,
                                             ok |-> f.ok]}
                           ELSE slots
       /\ UNCHANGED <<next_tid, issued, waiting, expired, outbound, tasks,
                      phase, left>>

\* External: the NCP answers a frame with its TID, or unsolicited with TID 0
\* (which is how it answers CMD_RESET), in any order.
NcpAnswer(f) ==
    /\ io_up
    /\ f \in outbound
    /\ outbound' = outbound \ {f}
    /\ \E tid \in {0, f.tid}, ok \in BOOLEAN :
          inbound' = inbound \cup {[req |-> f.req, tid |-> tid, ok |-> ok]}
    /\ UNCHANGED <<next_tid, issued, pending, waiting, expired, slots, tasks,
                   phase, left>>

\* External: the NCP ignores a frame, or the line loses it.
Lose(f) ==
    /\ f \in outbound
    /\ outbound' = outbound \ {f}
    /\ UNCHANGED <<next_tid, issued, pending, waiting, expired, slots,
                   inbound, tasks, phase, left>>

\* io_task leaves its loop: closed transport, read or write error.  What was
\* queued for the NCP is gone; what was decoded is still in frame_rx.
io_exit ==
    /\ io_up
    /\ io_up' = FALSE
    /\ outbound' = {}
    /\ UNCHANGED <<next_tid, issued, pending, waiting, expired, slots,
                   inbound, frame_up, phase, left>>

\* The frame task sees the cancellation token (SIGINT, SIGTERM) or, with the
\* I/O task gone, the end of frame_rx.
frame_task_exit ==
    /\ frame_up
    /\ frame_up' = FALSE
    /\ UNCHANGED <<next_tid, issued, pending, waiting, expired, slots,
                   outbound, inbound, io_up, phase, left>>

-----------------------------------------------------------------------------

Init ==
    /\ next_tid = 0
    /\ issued = 0
    /\ pending = {}
    /\ waiting = {}
    /\ expired = {}
    /\ slots = {}
    /\ outbound = {}
    /\ inbound = {}
    /\ io_up = TRUE
    /\ frame_up = TRUE
    /\ phase = "reset"
    /\ left = MaxResets

\* What the main task does about calls it has issued.
Resume ==
    \/ issue_query
    \/ end_batch
    \/ \E call \in waiting : \/ \E s \in slots : Receive(call, s)
                             \/ Expire(call)
    \/ \E call \in Live : Failed(call)

Next ==
    \/ send_reset
    \/ reset_acknowledged
    \/ send_command
    \/ start_batch
    \/ run_returns
    \/ Resume
    \/ \E f \in inbound : deliver(f)
    \/ \E f \in outbound : NcpAnswer(f)
    \/ \E f \in outbound : Lose(f)
    \/ io_exit
    \/ frame_task_exit

\* Tokio keeps polling the main task, and timers fire; nothing is assumed of
\* the NCP, of the I/O task or of the frame task.
Spec == Init /\ [][Next]_vars /\ WF_vars(Resume)

-----------------------------------------------------------------------------

TypeOK ==
    /\ next_tid \in 0 .. CounterMod - 1
    /\ issued \in 0 .. MaxRequests
    /\ pending \subseteq Calls
    /\ waiting \subseteq Calls
    /\ expired \subseteq Calls
    /\ slots \subseteq Slots
    /\ outbound \subseteq Calls
    /\ inbound \subseteq Answers
    /\ io_up \in BOOLEAN
    /\ frame_up \in BOOLEAN
    /\ phase \in {"reset", "init", "batch", "run", "stopped"}
    /\ left \in Nat

\* The TID of draw `old` may come again as that of draw `new`: the cycle of
\* TIDs went round in between, or the counter wrapped, which cuts the cycle
\* short (256 is not a multiple of 15).
Reused(old, new) ==
    \/ new - old >= TidCount
    \/ old < CounterMod * (new \div CounterMod)

\* A call that receives a frame receives the answer to its own frame, with
\* one exception: the answer to an earlier frame, whose call had already
\* returned (or was a CMD_RESET, that waits for none), when its TID was drawn
\* again after a whole cycle or over the wrap of the counter.  No answer is
\* given to another call while its own call waits, and the queries of the
\* batch never receive each other's answers (alloc_tid, deliver,
\* send_command_timeout).
OwnReply ==
    \A s \in slots :
        s.from # s.to => /\ Reused(s.from, s.to)
                         /\ \A call \in Live : call.req # s.from

\* A call that is still awaiting its receiver can still be answered: its
\* entry is in the table or its frame is in its oneshot.  No other call's
\* unregister has taken its sender away, so DaemonError::Cancelled is never
\* returned.
NoLostWaiter ==
    \A call \in waiting :
        \/ call \in pending
        \/ \E s \in slots : s.to = call.req

\* Every entry of the table belongs to a call that has not returned: on no
\* path (send error, status error, timeout, a reply racing the timer) does a
\* finished call leave an entry that would swallow a later frame.
NoTableLeak == pending \subseteq Live

\* Every call returns, whatever the NCP, the line, the I/O task and the
\* frame task do: the main task is never stuck on a call.
CallsFinish == []<>(Live = {})

=============================================================================
