------------------------------ MODULE LhFifo ------------------------------
(***************************************************************************)
(* The byte FIFO of linux-host between a producer and a consumer thread    *)
(* (src/linux-host/src/gateway_common/src/fifo.c), with the code that      *)
(* moves bytes between it, an application and a file descriptor            *)
(* (src/unix_fdrw.c) and the receive thread of the UART                    *)
(* (linux/linux_uart.c).                                                   *)
(*                                                                         *)
(* Either side is the application, which copies and may wait on a          *)
(* semaphore, or a thread that reads or writes a descriptor straight into  *)
(* or out of the buffer.  Setup and update hold the mutex and are one step *)
(* each; the bytes move between the two, without it.  Bytes are numbered   *)
(* in the order they come, so that loss, repetition and overwriting show.  *)
(***************************************************************************)
EXTENDS Integers, Sequences

CONSTANTS
    FifoDepth,   \* items of the buffer
    MaxBytes,    \* bytes that ever come
    MaxTodo      \* the longest single application call

ASSUME FifoAssumption == FifoDepth \in Nat \ {0} /\ MaxTodo \in Nat \ {0}

VARIABLES
    fifo,      \* struct fifo: pBuf, cnt, wr_idx, rd_idx, in_sem, rm_sem
    producer,  \* who inserts: "app" or "fd", and where it is in its loop
    consumer,  \* the same of who removes
    device,    \* the line: bytes that came and were not read; thread_state,
               \* is_error and closing of the stream; freed: its memory was
               \* given back under the receive thread
    fifoGot    \* history: what was removed

fifovars == <<fifo, producer, consumer, device, fifoGot>>

Timeouts == {"none", "bounded", "forever"}

-----------------------------------------------------------------------------
(* The regions.                                                            *)

\* Mutant of InsertRegion: the full FIFO is not told from the empty one.
InsertRegion_FullIsEmpty ==
    IF fifo.wr_idx >= fifo.rd_idx THEN FifoDepth - fifo.wr_idx
    ELSE fifo.rd_idx - fifo.wr_idx

\* FIFO_insertDMA_setup(): how many items may be written from wr_idx on.
InsertRegion ==
    IF fifo.cnt = FifoDepth THEN 0
    ELSE IF fifo.wr_idx >= fifo.rd_idx THEN FifoDepth - fifo.wr_idx
    ELSE fifo.rd_idx - fifo.wr_idx

\* FIFO_removeDMA_setup(): how many may be read from rd_idx on.
RemoveRegion ==
    IF fifo.cnt = 0 THEN 0
    ELSE IF fifo.rd_idx < fifo.wr_idx THEN fifo.wr_idx - fifo.rd_idx
    ELSE FifoDepth - fifo.rd_idx

\* A call that moves no more: FIFO_...WithTimeout() returns what it moved,
\* and _app_fifo_rw() asks again unless that was nothing.
GivesUp(s) ==
    [s EXCEPT !.at = IF s.some THEN "setup" ELSE "idle", !.some = FALSE]

\* What a side makes of the region: the application takes what it still has
\* to move, waits when there is nothing, or gives up.
Setup(s, region) ==
    IF region > 0
    THEN [s EXCEPT !.at = "move",
                   !.cnt = IF s.kind = "app" /\ s.left < region THEN s.left ELSE region]
    ELSE IF s.kind = "app" /\ s.wait # "none" THEN [s EXCEPT !.at = "wait"]
    ELSE GivesUp(s)

\* ...DMA_update() done: the application goes on until all is moved, the
\* thread until there is no room or nothing to read.
Moved(s) ==
    IF s.kind = "fd" THEN [s EXCEPT !.at = "setup", !.cnt = 0]
    ELSE [s EXCEPT !.at = IF s.left = s.cnt THEN "idle" ELSE "setup",
                   !.left = @ - s.cnt, !.some = s.left # s.cnt, !.cnt = 0]

-----------------------------------------------------------------------------
(* The producer.                                                           *)

\* A byte arrives at the device.
Arrives ==
    /\ producer.kind = "fd" /\ device.came < MaxBytes
    /\ device' = [device EXCEPT !.came = @ + 1]
    /\ UNCHANGED <<fifo, producer, consumer, fifoGot>>

\* The poll or the read() fails: _uart_error(), and the loop goes round.
DeviceFails ==
    /\ producer.kind = "fd" /\ producer.at \in {"idle", "move"} /\ ~device.is_error
    /\ device' = [device EXCEPT !.is_error = TRUE]
    /\ producer' = [producer EXCEPT !.at = "idle"]
    /\ UNCHANGED <<fifo, consumer, fifoGot>>

\* _uart_rx_thread(): the loop's condition, then POLL_readable().
_uart_rx_thread ==
    /\ producer.kind = "fd" /\ producer.at = "idle"
    /\ IF device.state # "alive" \/ device.is_error
       THEN /\ producer' = [producer EXCEPT !.at = "dead"]
            /\ device' = [device EXCEPT !.state = "dead"]
       ELSE /\ device.read < device.came
            /\ producer' = [producer EXCEPT !.at = "setup"]
            /\ UNCHANGED device
    /\ UNCHANGED <<fifo, consumer, fifoGot>>

\* The application inserts n items.
InsertCalled(n, w) ==
    /\ producer.kind = "app" /\ producer.at = "idle"
    /\ device.came + n <= MaxBytes
    /\ device' = [device EXCEPT !.came = @ + n]
    /\ producer' = [producer EXCEPT !.at = "setup", !.left = n, !.wait = w, !.some = FALSE]
    /\ UNCHANGED <<fifo, consumer, fifoGot>>

FIFO_insertDMA_setup ==
    /\ producer.at = "setup"
    /\ producer' = Setup(producer, InsertRegion)
    \* what a call that gave up did not insert is the caller's to keep
    /\ device' = IF producer'.at = "idle" /\ producer.kind = "app"
                 THEN [device EXCEPT !.came = device.read] ELSE device
    /\ UNCHANGED <<fifo, consumer, fifoGot>>

\* UNIX_fdRdThis(): some of what there is, up to the region; nothing only
\* when there is nothing left.
ReadResults ==
    {k \in 0..producer.cnt :
        k <= device.came - device.read /\ (k = 0 => device.came = device.read)}

\* read() or memcpy() into the region; after an empty read() the thread
\* polls again.
FillsRegion ==
    /\ producer.at = "move"
    /\ \E n \in IF producer.kind = "app" THEN {producer.cnt}
                ELSE ReadResults :
         /\ fifo' = [fifo EXCEPT !.pBuf = [i \in 0..(FifoDepth - 1) |->
                       IF i >= fifo.wr_idx /\ i < fifo.wr_idx + n
                       THEN device.read + 1 + i - fifo.wr_idx ELSE @[i]]]
         /\ device' = [device EXCEPT !.read = @ + n]
         /\ producer' = [producer EXCEPT !.cnt = n,
                                         !.at = IF n = 0 THEN "idle" ELSE "update"]
    /\ UNCHANGED <<consumer, fifoGot>>

FIFO_insertDMA_update ==
    /\ producer.at = "update"
    /\ fifo' = [fifo EXCEPT !.cnt = @ + producer.cnt,
                            !.wr_idx = (@ + producer.cnt) % FifoDepth,
                            !.in_sem = @ + 1]
    /\ producer' = Moved(producer)
    /\ UNCHANGED <<consumer, device, fifoGot>>

-----------------------------------------------------------------------------
(* The consumer.                                                           *)

\* _uart_rdBytes() and _app_fifo_rw(): the application asks for n bytes;
\* or the thread of _fifo_to_fd() has a descriptor it can write to.
RemoveCalled(n, w) ==
    /\ consumer.at = "idle" /\ ~device.closed
    /\ consumer.kind = "fd" => n = 1 /\ w = "none"
    /\ consumer' = [consumer EXCEPT !.at = "setup", !.left = n, !.wait = w, !.some = FALSE]
    /\ UNCHANGED <<fifo, producer, device, fifoGot>>

FIFO_removeDMA_setup ==
    /\ consumer.at = "setup"
    /\ consumer' = Setup(consumer, RemoveRegion)
    /\ UNCHANGED <<fifo, producer, device, fifoGot>>

\* UNIX_fdWrThis(): a write() may take a part of the region, or nothing.
WriteResults == 0..consumer.cnt

\* memcpy() or write() out of the region; an empty write() ends the transfer.
DrainsRegion ==
    /\ consumer.at = "move"
    /\ \E n \in IF consumer.kind = "app" THEN {consumer.cnt} ELSE WriteResults :
         /\ fifoGot' = fifoGot \o [i \in 1..n |-> fifo.pBuf[fifo.rd_idx + i - 1]]
         /\ consumer' = [consumer EXCEPT !.cnt = n,
                                         !.at = IF n = 0 THEN "idle" ELSE "update"]
    /\ UNCHANGED <<fifo, producer, device>>

FIFO_removeDMA_update ==
    /\ consumer.at = "update"
    /\ fifo' = [fifo EXCEPT !.cnt = @ - consumer.cnt,
                            !.rd_idx = (@ + consumer.cnt) % FifoDepth,
                            !.rm_sem = @ + 1]
    /\ consumer' = Moved(consumer)
    /\ UNCHANGED <<producer, device, fifoGot>>

-----------------------------------------------------------------------------
(* Waiting, and the end.                                                   *)

\* SEMAPHORE_waitWithTimeout(): a token, or the end of a bounded wait.
ProducerWaits ==
    /\ producer.at = "wait"
    /\ \/ /\ fifo.rm_sem > 0
          /\ fifo' = [fifo EXCEPT !.rm_sem = @ - 1]
          /\ producer' = [producer EXCEPT !.at = "setup"]
          /\ UNCHANGED device
       \/ /\ fifo.rm_sem = 0 /\ producer.wait = "bounded"
          /\ producer' = GivesUp(producer)
          /\ device' = IF producer.some THEN device ELSE [device EXCEPT !.came = device.read]
          /\ UNCHANGED fifo
    /\ UNCHANGED <<consumer, fifoGot>>

ConsumerWaits ==
    /\ consumer.at = "wait"
    /\ \/ /\ fifo.in_sem > 0
          /\ fifo' = [fifo EXCEPT !.in_sem = @ - 1]
          /\ consumer' = [consumer EXCEPT !.at = "setup"]
       \/ /\ fifo.in_sem = 0 /\ consumer.wait = "bounded"
          /\ consumer' = GivesUp(consumer)
          /\ UNCHANGED fifo
    /\ UNCHANGED <<producer, device, fifoGot>>

\* _uart_closePtr(): the thread is told to exit.  The hundred sleeps that
\* follow do not look at it again.
_uart_closePtr ==
    /\ producer.kind = "fd" /\ consumer.at = "idle" /\ ~device.closed
    /\ device' = [device EXCEPT !.state = "exit", !.closed = TRUE]
    /\ UNCHANGED <<fifo, producer, consumer, fifoGot>>

\* FIFO_destroy() and free() at its end, while the thread still runs: what the
\* thread does next is undefined, and the model ends there.  After a thread that
\* has ended they change nothing that anybody looks at.
FIFO_destroy ==
    /\ device.closed /\ producer.at # "dead"
    /\ device' = [device EXCEPT !.freed = TRUE]
    /\ UNCHANGED <<fifo, producer, consumer, fifoGot>>

-----------------------------------------------------------------------------

Side(kind) ==
    [kind |-> kind, at |-> "idle", cnt |-> 0, left |-> 0, some |-> FALSE, wait |-> "none"]

\* FIFO_create(), _setup_rx_thread()
FifoInit(producers, consumers) ==
    /\ fifo = [pBuf |-> [i \in 0..(FifoDepth - 1) |-> 0], cnt |-> 0, wr_idx |-> 0,
               rd_idx |-> 0, in_sem |-> 0, rm_sem |-> 0]
    /\ \E p \in producers : producer = Side(p)
    /\ \E c \in consumers : consumer = Side(c)
    /\ device = [came |-> 0, read |-> 0, state |-> "alive",
                is_error |-> FALSE, closed |-> FALSE, freed |-> FALSE]
    /\ fifoGot = <<>>

FifoNext ==
    /\ ~device.freed
    /\ \/ Arrives \/ DeviceFails \/ _uart_rx_thread \/ _uart_closePtr \/ FIFO_destroy
       \/ FIFO_insertDMA_setup \/ FillsRegion \/ FIFO_insertDMA_update
       \/ FIFO_removeDMA_setup \/ DrainsRegion \/ FIFO_removeDMA_update
       \/ ProducerWaits \/ ConsumerWaits
       \/ \E n \in 1..MaxTodo, w \in Timeouts : InsertCalled(n, w) \/ RemoveCalled(n, w)

FifoSpec == FifoInit({"app", "fd"}, {"app", "fd"}) /\ [][FifoNext]_fifovars

-----------------------------------------------------------------------------

\* What comes out is what went in, in order and once, however the copies of
\* the two sides overlap and wherever the indices wrap; and nobody sleeps on
\* a semaphore while there is something for it to do: the token of an update
\* is there even when the update fell between the look and the wait
\* (src/linux-host/src/gateway_common/src/fifo.c:443, 609, 725).
FifoDelivers ==
    /\ fifoGot = [i \in 1..Len(fifoGot) |-> i]
    /\ consumer.at = "wait" /\ fifo.cnt > 0 => fifo.in_sem > 0
    /\ producer.at = "wait" /\ fifo.cnt < FifoDepth => fifo.rm_sem > 0
=============================================================================
