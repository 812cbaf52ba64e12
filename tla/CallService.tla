---------------------------- MODULE CallService ----------------------------
(***************************************************************************)
(* What the control interface of wfantund promises its callers: a call is  *)
(* answered exactly once, at once or later, several calls possibly by the  *)
(* same step, and no call waits for ever unless the driver is in its fault *)
(* state.  WfCore is shown to implement it.                                *)
(***************************************************************************)
CONSTANT Calls

VARIABLES
    calls,   \* calls[c]: not made yet, pending or answered
    faulty   \* the driver has given up on the NCP

Init == calls = [c \in Calls |-> "none"] /\ faulty = FALSE

\* A call is made; it may be rejected, which answers it, in the same step.
Make(c) ==
    /\ calls[c] = "none"
    /\ \E s \in {"pending", "answered"} : calls' = [calls EXCEPT ![c] = s]
    /\ faulty' \in BOOLEAN

\* Answering some of the pending calls.
Answer(done) ==
    /\ \A c \in done : calls[c] = "pending"
    /\ calls' = [c \in Calls |-> IF c \in done THEN "answered" ELSE calls[c]]
    /\ faulty' \in BOOLEAN

Next == (\E c \in Calls : Make(c)) \/ (\E done \in SUBSET Calls : Answer(done))

AnswerWithoutFault(c) ==
    /\ ~faulty
    /\ \E done \in SUBSET Calls : c \in done /\ Answer(done)

Spec ==
    /\ Init /\ [][Next]_<<calls, faulty>>
    /\ \A c \in Calls : WF_<<calls, faulty>>(AnswerWithoutFault(c))
=============================================================================
