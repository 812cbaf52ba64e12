-------------------------------- MODULE LhMt --------------------------------
(***************************************************************************)
(* linux-host's MT message interface (mt_msg.c): the application's threads *)
(* send messages through one interface, long ones as blocks that the other *)
(* end acknowledges one by one, and the receive thread of the other end    *)
(* puts them together again.  Both ends run this code.                     *)
(*                                                                         *)
(* The serial line keeps the order of the frames and may lose any of them  *)
(* (mt_msg_rx() drops what has a bad checksum).  A frame is what its       *)
(* header says; of the content of a block only whose it is and how long it *)
(* is are kept.                                                            *)
(*                                                                         *)
(* MT_MSG_free() frees the whole list that a message heads, so freeing an  *)
(* acknowledgement frees those behind it, which tx_frag.pTxFragAck still   *)
(* points at: they stay in mtAcks as Freed.  Taking one is undefined, and  *)
(* the model ends there.                                                   *)
(***************************************************************************)
EXTENDS Naturals, Sequences

CONSTANTS
    MtThreads,      \* threads of the application that send a message each
    MtFragSize,     \* mt_msg_interface.tx_frag_size
    MtRetryMax,     \* mt_msg_interface.retry_max
    MaxMtLost,      \* bound on frames lost and writes that fail
    MaxMtEarly      \* bound on waits that end although an answer may come

ASSUME MtAssumption ==
    /\ MtFragSize \in Nat \ {0}
    /\ MtRetryMax \in Nat \ {0}
    /\ "none" \notin MtThreads

VARIABLES
    mtSize,         \* thread -> expected_len of its message
    mtApp,          \* thread -> where it is in MT_MSG_txrx() and its result
    mtTxLock,       \* the thread that holds tx_lock, or "none"
    mtCurSreq,      \* pCurSreq
    mtTxFrag,       \* tx_frag: block_cur, block_count, the attempt, is_error
    mtAcks,         \* tx_frag.pTxFragAck
    mtSem,          \* the count of tx_frag.tx_ack_semaphore
    mtDown, mtUp,   \* frames on the line to the other end, and back
    mtRxFrag,       \* rx_frag of the other end
    mtWhole,        \* the messages that the other end has put together
    mtList,         \* rx_list of the other end
    mtLost, mtEarly

mtvars == <<mtSize, mtApp, mtTxLock, mtCurSreq, mtTxFrag, mtAcks, mtSem,
            mtDown, mtUp, mtRxFrag, mtWhole, mtList, mtLost, mtEarly>>

\* Sync byte, one byte of length and two of command.
MtHeader == 4
MtFreed == [block |-> 0, status |-> "freed"]
MtNoFrag == [pieces |-> <<>>, cur |-> 0, count |-> 0, total |-> 0, len |-> 0]

MtBlocks(size) == (size + MtFragSize - 1) \div MtFragSize
MtPiece(t, b) == [msg |-> t, block |-> b]
MtAck(block, status) ==
    [type |-> "ack", block |-> block, status |-> status]
MtExtStatus(block, status) ==
    [type |-> "ext", block |-> block, status |-> status]

\* MT_MSG_interfaceCreate(): everything is there and nothing is pending.
MtInit(sizes) ==
    /\ mtSize \in [MtThreads -> sizes]
    /\ mtApp = [t \in MtThreads |-> [pc |-> "idle", r |-> 0]]
    /\ mtTxLock = "none"
    /\ mtCurSreq = "none"
    /\ mtTxFrag = [cur |-> 0, count |-> 0, try |-> 0, error |-> FALSE]
    /\ mtAcks = <<>>
    /\ mtSem = 0
    /\ mtDown = <<>>
    /\ mtUp = <<>>
    /\ mtRxFrag = MtNoFrag
    /\ mtWhole = <<>>
    /\ mtList = <<>>
    /\ mtLost = 0
    /\ mtEarly = 0

MtGoto(t, pc) == mtApp' = [mtApp EXCEPT ![t].pc = pc]
MtReturn(t, r) == mtApp' = [mtApp EXCEPT ![t] = [pc |-> "done", r |-> r]]

-----------------------------------------------------------------------------
(* The sender.                                                             *)

\* MT_MSG_txrx() takes tx_lock and makes its message the pending one.
MT_MSG_txrx(t) ==
    /\ mtApp[t].pc = "idle"
    /\ mtTxLock = "none"
    /\ mtTxLock' = t
    /\ mtCurSreq' = t
    /\ MtGoto(t, "tx")
    /\ UNCHANGED <<mtSize, mtTxFrag, mtAcks, mtSem, mtDown, mtUp, mtRxFrag,
                   mtWhole, mtList, mtLost, mtEarly>>

\* It gives up when it has waited tx_lock_timeout for the lock.
TxLockTimeout(t) ==
    /\ mtApp[t].pc = "idle"
    /\ mtTxLock # "none"
    /\ mtEarly < MaxMtEarly
    /\ mtEarly' = mtEarly + 1
    /\ MtReturn(t, 0)
    /\ UNCHANGED <<mtSize, mtTxLock, mtCurSreq, mtTxFrag, mtAcks, mtSem,
                   mtDown, mtUp, mtRxFrag, mtWhole, mtList, mtLost>>

\* MT_MSG_tx() compares the length with the header to the size of a block.
MtFragments(t) == mtSize[t] + MtHeader >= MtFragSize

\* A message that fits one block.  It is written, or the write fails; the
\* failure takes it back from pCurSreq.  A block or a status whose write fails
\* is not noticed: it is a frame that the line loses (MtLose).
MT_MSG_tx_raw(t) ==
    /\ mtApp[t].pc = "tx"
    /\ ~MtFragments(t)
    /\ \/ /\ mtDown' = Append(mtDown, [type |-> "msg", msg |-> t])
          /\ MtReturn(t, 1)
          /\ UNCHANGED <<mtCurSreq, mtLost>>
       \/ /\ mtLost < MaxMtLost
          /\ mtLost' = mtLost + 1
          /\ MtReturn(t, 0)
          /\ mtCurSreq' = "none"
          /\ UNCHANGED mtDown
    /\ mtTxLock' = "none"
    /\ UNCHANGED <<mtSize, mtTxFrag, mtAcks, mtSem, mtUp, mtRxFrag, mtWhole,
                   mtList, mtEarly>>

\* The list of acknowledgements is not emptied here.
MT_MSG_tx_fragment(t) ==
    /\ mtApp[t].pc = "tx"
    /\ MtFragments(t)
    /\ mtTxFrag' = [cur |-> 0, count |-> MtBlocks(mtSize[t]), try |-> 0,
                    error |-> FALSE]
    /\ MtGoto(t, "block")
    /\ UNCHANGED <<mtSize, mtTxLock, mtCurSreq, mtAcks, mtSem, mtDown, mtUp,
                   mtRxFrag, mtWhole, mtList, mtLost, mtEarly>>

frag_tx_one_block(t) ==
    LET rest == mtSize[t] - mtTxFrag.cur * MtFragSize IN
    /\ mtApp[t].pc = "block"
    /\ mtDown' = Append(mtDown,
           [type |-> "data", msg |-> t, block |-> mtTxFrag.cur,
            total |-> mtSize[t],
            len |-> IF rest > MtFragSize THEN MtFragSize ELSE rest])
    /\ MtGoto(t, "wait")
    /\ UNCHANGED <<mtSize, mtTxLock, mtCurSreq, mtTxFrag, mtAcks, mtSem,
                   mtUp, mtRxFrag, mtWhole, mtList, mtLost, mtEarly>>

\* SEMAPHORE_waitWithTimeout() in wait_for_frag_ack().  That it was woken
\* or timed out is not looked at: the list is.
AckWait(t) ==
    /\ mtApp[t].pc = "wait"
    /\ mtSem > 0
    /\ mtSem' = mtSem - 1
    /\ MtGoto(t, "pop")
    /\ UNCHANGED <<mtSize, mtTxLock, mtCurSreq, mtTxFrag, mtAcks, mtDown,
                   mtUp, mtRxFrag, mtWhole, mtList, mtLost, mtEarly>>

AckTimeout(t) ==
    /\ mtApp[t].pc = "wait"
    /\ mtSem = 0
    /\ \/ mtDown = <<>> /\ mtUp = <<>> /\ mtEarly' = mtEarly
       \/ mtEarly < MaxMtEarly /\ mtEarly' = mtEarly + 1
    /\ MtGoto(t, "pop")
    /\ UNCHANGED <<mtSize, mtTxLock, mtCurSreq, mtTxFrag, mtAcks, mtSem,
                   mtDown, mtUp, mtRxFrag, mtWhole, mtList, mtLost>>

\* After retry_max attempts the loop over the blocks adds 0 and starts over
\* with the same block.
frag_txrx_one_block(t) ==
    /\ mtTxFrag' = [mtTxFrag EXCEPT !.try = (@ + 1) % MtRetryMax]
    /\ MtGoto(t, "block")
    /\ UNCHANGED <<mtTxLock, mtDown>>

\* (mutant) The first acknowledgement in the list is taken.
StaleAck_Never(ack) == FALSE

\* An acknowledgement that is not for the block being sent is skipped.
StaleAck(ack) == ack.block # mtTxFrag.cur

\* What an acknowledgement of the block being sent means.
AckAdvances(ack) ==
    \/ ack.status = "success"
    \/ ack.status = "frag_complete" /\ ack.block + 1 = mtTxFrag.count

\* (mutant) The lock is released only after a success.
TxFragmentEnds_KeepsLock(t, r, frames) ==
    /\ mtDown' = mtDown \o frames
    /\ mtTxLock' = IF r = 1 THEN "none" ELSE mtTxLock
    /\ mtCurSreq' = IF r = 1 THEN mtCurSreq ELSE "none"
    /\ mtAcks' = <<>>
    /\ MtReturn(t, r)

\* The last block is through, or an error ends the transfer: the other end
\* is told, the list is forgotten and MT_MSG_txrx() unlocks.  Only a failure
\* takes the message back from pCurSreq.
TxFragmentEnds(t, r, frames) ==
    /\ mtDown' = mtDown \o frames
    /\ mtTxLock' = "none"
    /\ mtCurSreq' = IF r = 1 THEN mtCurSreq ELSE "none"
    /\ mtAcks' = <<>>
    /\ MtReturn(t, r)

\* Taking the head of the list, and freeing it with what it still heads.
AcksBehind == [i \in 1 .. Len(mtAcks) - 1 |-> MtFreed]

\* The tests for a malformed acknowledgement and for "resend_last" are left out:
\* the other end runs this code, and nothing in it sends either.
wait_for_frag_ack(t) ==
    /\ mtApp[t].pc = "pop"
    /\ \/ /\ mtAcks = <<>>
          /\ frag_txrx_one_block(t)
          /\ UNCHANGED <<mtAcks, mtCurSreq>>
       \/ /\ mtAcks # <<>>
          /\ Head(mtAcks) = MtFreed
          /\ MtGoto(t, "undefined")
          /\ UNCHANGED <<mtTxFrag, mtTxLock, mtDown, mtAcks, mtCurSreq>>
       \/ /\ mtAcks # <<>>
          /\ Head(mtAcks) # MtFreed
          /\ StaleAck(Head(mtAcks))
          /\ mtAcks' = Tail(mtAcks)
          /\ MtGoto(t, "wait")
          /\ UNCHANGED <<mtTxFrag, mtTxLock, mtDown, mtCurSreq>>
       \/ /\ mtAcks # <<>>
          /\ Head(mtAcks) # MtFreed
          /\ ~StaleAck(Head(mtAcks))
          /\ AckAdvances(Head(mtAcks))
          /\ mtTxFrag' = [mtTxFrag EXCEPT !.cur = @ + 1, !.try = 0]
          /\ IF mtTxFrag.cur + 1 = mtTxFrag.count
               THEN TxFragmentEnds(t, 1,
                        <<MtExtStatus(mtTxFrag.cur, "frag_complete")>>)
               ELSE /\ mtAcks' = AcksBehind
                    /\ MtGoto(t, "block")
                    /\ UNCHANGED <<mtTxLock, mtDown, mtCurSreq>>
       \/ /\ mtAcks # <<>>
          /\ Head(mtAcks) # MtFreed
          /\ ~StaleAck(Head(mtAcks))
          /\ ~AckAdvances(Head(mtAcks))
          /\ mtTxFrag' = [mtTxFrag EXCEPT !.error = TRUE]
          /\ TxFragmentEnds(t, 0,
                 <<MtAck(mtTxFrag.cur, "block_out_of_order"),
                   MtExtStatus(mtTxFrag.cur, "frag_aborted")>>)
    /\ UNCHANGED <<mtSize, mtSem, mtUp, mtRxFrag, mtWhole, mtList, mtLost,
                   mtEarly>>

\* The receive thread of the sender: handle_extend_packet() puts an
\* acknowledgement at the head of the list; handle_ext_status() frees.
handle_extend_packet ==
    /\ mtUp # <<>>
    /\ mtUp' = Tail(mtUp)
    /\ IF Head(mtUp).type = "ack"
         THEN /\ mtAcks' = <<[block |-> Head(mtUp).block,
                              status |-> Head(mtUp).status]>> \o mtAcks
              /\ mtSem' = mtSem + 1
         ELSE UNCHANGED <<mtAcks, mtSem>>
    /\ UNCHANGED <<mtSize, mtApp, mtTxLock, mtCurSreq, mtTxFrag, mtDown,
                   mtRxFrag, mtWhole, mtList, mtLost, mtEarly>>

-----------------------------------------------------------------------------
(* The receive thread of the other end.                                    *)

\* send_frag_ack()
FragAck(frag) ==
    MtAck(frag.cur,
          IF frag.cur + 1 = frag.count THEN "frag_complete" ELSE "success")

\* A block when nothing is being put together.  The size of all blocks and
\* their number are taken from it, and a first block is never the last one:
\* a message of one block is not complete with it.
rx_first_frag_block(f) ==
    LET frag == [pieces |-> <<MtPiece(f.msg, f.block)>>, cur |-> f.block,
                 count |-> (f.total + f.len - 1) \div f.len,
                 total |-> f.total, len |-> f.len] IN
    IF f.block # 0
      THEN /\ mtUp' = Append(mtUp, MtAck(f.block, "block_out_of_order"))
           /\ UNCHANGED <<mtRxFrag, mtWhole>>
      ELSE /\ mtRxFrag' = frag
           /\ mtUp' = Append(mtUp, FragAck(frag))
           /\ UNCHANGED mtWhole

\* (mutant) The number of the block is not compared with the last one.
BlockError_AnyBlock(f) ==
    IF mtRxFrag.total # f.total THEN "block_out_of_order"
    ELSE IF \/ f.len > mtRxFrag.len
            \/ f.len < mtRxFrag.len /\ f.block + 1 # mtRxFrag.count
      THEN "block_len_changed"
    ELSE "none"

\* What is wrong with a block, "none" when nothing is: the first test that
\* fails says it.
BlockError(f) ==
    IF mtRxFrag.cur = f.block THEN "duplicate"
    ELSE IF mtRxFrag.total # f.total \/ mtRxFrag.cur + 1 # f.block
      THEN "block_out_of_order"
    ELSE IF \/ f.len > mtRxFrag.len
            \/ f.len < mtRxFrag.len /\ f.block + 1 # mtRxFrag.count
      THEN "block_len_changed"
    ELSE "none"

\* Every error drops all that was put together; a duplicate says nothing.
AbortCleanUp(f) ==
    /\ mtRxFrag' = MtNoFrag
    /\ mtUp' = IF BlockError(f) = "duplicate" THEN mtUp
               ELSE Append(mtUp, MtAck(mtRxFrag.cur, BlockError(f)))
    /\ UNCHANGED mtWhole

\* The last block makes the message whole; its type is still that of a
\* fragment, so mt_msg_rx_thread() frees it.
TakeBlock(f) ==
    LET frag == [mtRxFrag EXCEPT !.cur = f.block,
                     !.pieces = Append(@, MtPiece(f.msg, f.block))] IN
    IF f.block + 1 = frag.count
      THEN /\ mtRxFrag' = MtNoFrag
           /\ mtUp' = mtUp \o <<FragAck(frag),
                                MtExtStatus(frag.cur, "frag_complete")>>
           /\ mtWhole' = Append(mtWhole, frag.pieces)
      ELSE /\ mtRxFrag' = frag
           /\ mtUp' = Append(mtUp, FragAck(frag))
           /\ UNCHANGED mtWhole

handle_data_fragment(f) ==
    CASE mtRxFrag = MtNoFrag -> rx_first_frag_block(f)
      [] mtRxFrag # MtNoFrag /\ BlockError(f) # "none" -> AbortCleanUp(f)
      [] OTHER -> TakeBlock(f)

\* An acknowledgement goes to a list that nobody reads at this end.
mt_msg_rx_thread ==
    /\ mtDown # <<>>
    /\ mtDown' = Tail(mtDown)
    /\ \/ /\ Head(mtDown).type = "data"
          /\ handle_data_fragment(Head(mtDown))
          /\ UNCHANGED mtList
       \/ /\ Head(mtDown).type = "msg"
          /\ mtList' = Append(mtList, Head(mtDown).msg)
          /\ UNCHANGED <<mtRxFrag, mtUp, mtWhole>>
       \/ /\ Head(mtDown).type \in {"ack", "ext"}
          /\ UNCHANGED <<mtRxFrag, mtUp, mtWhole, mtList>>
    /\ UNCHANGED <<mtSize, mtApp, mtTxLock, mtCurSreq, mtTxFrag, mtAcks,
                   mtSem, mtLost, mtEarly>>

\* The application of the other end takes the first message, if any.
MT_MSG_LIST_remove ==
    /\ mtList # <<>>
    /\ mtList' = Tail(mtList)
    /\ UNCHANGED <<mtSize, mtApp, mtTxLock, mtCurSreq, mtTxFrag, mtAcks,
                   mtSem, mtDown, mtUp, mtRxFrag, mtWhole, mtLost, mtEarly>>

\* The line loses a frame.
MtLose ==
    /\ mtLost < MaxMtLost
    /\ mtLost' = mtLost + 1
    /\ \/ mtDown # <<>> /\ mtDown' = Tail(mtDown) /\ UNCHANGED mtUp
       \/ mtUp # <<>> /\ mtUp' = Tail(mtUp) /\ UNCHANGED mtDown
    /\ UNCHANGED <<mtSize, mtApp, mtTxLock, mtCurSreq, mtTxFrag, mtAcks,
                   mtSem, mtRxFrag, mtWhole, mtList, mtEarly>>

-----------------------------------------------------------------------------
MtSenderNext(t) ==
    \/ MT_MSG_txrx(t)
    \/ TxLockTimeout(t)
    \/ MT_MSG_tx_raw(t)
    \/ MT_MSG_tx_fragment(t)
    \/ frag_tx_one_block(t)
    \/ AckWait(t)
    \/ AckTimeout(t)
    \/ wait_for_frag_ack(t)

\* Nothing follows the undefined step.
MtDefined == \A t \in MtThreads : mtApp[t].pc # "undefined"

MtNext ==
    /\ MtDefined
    /\ \/ \E t \in MtThreads : MtSenderNext(t)
       \/ handle_extend_packet
       \/ mt_msg_rx_thread
       \/ MT_MSG_LIST_remove
       \/ MtLose

\* The operating system runs every thread, and a wait has a timeout.
MtFairness ==
    /\ \A t \in MtThreads : WF_mtvars(MtDefined /\ MtSenderNext(t))
    /\ WF_mtvars(MtDefined /\ handle_extend_packet)
    /\ WF_mtvars(MtDefined /\ mt_msg_rx_thread)

\* Whatever the lengths of the messages.
MtSpec == MtInit(Nat) /\ [][MtNext]_mtvars /\ MtFairness

-----------------------------------------------------------------------------
\* MT_MSG_tx() also takes for a long message one that fits a block without
\* the header, and sends it as a single block.  The other end acknowledges
\* it with "frag_complete" and keeps it as the beginning of another message
\* (rx_first_frag_block), so a second acknowledgement of block 0, sent for
\* a repeated block, can end the transfer of the next message and leave its
\* block 0 behind.  Where this is not so:
NoSingleBlocks ==
    \A t \in MtThreads : MtFragments(t) => MtBlocks(mtSize[t]) > 1

\* What the other end puts together is one message, all of it and in order:
\* blocks of a message that was given up are never taken for those of a
\* later one of the same size (handle_data_fragment).
FragmentsNotMixed ==
    NoSingleBlocks =>
        \A i \in DOMAIN mtWhole :
            \E t \in MtThreads :
                mtWhole[i] =
                    [b \in 1 .. MtBlocks(mtSize[t]) |-> MtPiece(t, b - 1)]

\* MT_MSG_txrx() returns 1 for a message of several blocks only when the
\* other end has put it together: an acknowledgement that is late, repeated
\* or of an earlier message is never taken for the one awaited
\* (wait_for_frag_ack).
SentMeansWhole ==
    NoSingleBlocks =>
        \A t \in MtThreads :
            mtApp[t].r = 1 /\ MtFragments(t)
                => \E i \in DOMAIN mtWhole : mtWhole[i][1].msg = t

\* MT_MSG_txrx() returns, whatever finite number of frames is lost and of
\* waits is too short: MT_MSG_tx_fragment() tries for ever and no answer of
\* the other end leaves both waiting.
EveryTxReturns ==
    \A t \in MtThreads :
        mtApp[t].pc # "done" ~> (mtApp[t].pc = "done" \/ ~MtDefined)
=============================================================================
