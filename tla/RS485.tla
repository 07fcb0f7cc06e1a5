------------------------------- MODULE RS485 -------------------------------
(***************************************************************************)
(* usart_service.c: the half-duplex RS485 port of the M7 core.             *)
(*                                                                         *)
(* Three actors run concurrently: a thread in rs485_write (the Modbus work *)
(* queue), a thread in rs485_read (main), and the UART with its DMA, whose *)
(* events reach uart_cb in interrupt context.  A step of a thread is one   *)
(* statement that another actor can observe; an invocation of uart_cb is   *)
(* one step.                                                               *)
(*                                                                         *)
(* The bytes on the bus are numbered 1, 2, ... in the order they appear,   *)
(* and a byte is its number.  A frame to transmit is an opaque value.      *)
(***************************************************************************)
EXTENDS Integers, Sequences

CONSTANTS Frame,         \* frames a caller may pass to rs485_write
          TooLong,       \* those longer than TX_BUF_SIZE
          NoFrame,       \* content of tx_buf before the first write
          RX_BUF_SIZE,   \* bytes in one DMA receive buffer
          RX_RING_SIZE,  \* capacity of rx_ring
          ReadLen,       \* values of max_len passed to rs485_read
          MaxBytes       \* bound on the bytes that appear on the bus

ASSUME RS485Assumption ==
    /\ TooLong \subseteq Frame
    /\ NoFrame \notin Frame
    /\ RX_BUF_SIZE \in Nat \ {0}
    /\ RX_RING_SIZE \in Nat \ {0}
    /\ ReadLen \subseteq Nat \ {0}
    /\ MaxBytes \in Nat

VARIABLES
    up,           \* "boot", "run" or "failed": progress of rs485_init
    de,           \* level of the DE pin: 1 drives the bus
    tx_buf,       \* frame in the DMA transmit buffer
    tx_on,        \* a DMA transmission is in progress
    tx_done_sem,  \* count of the semaphore
    wr_pc,        \* where the thread in rs485_write is
    wr_data,      \* the frame it was called with
    wr_ret,       \* what its last call returned
    sent,         \* last frame sent, NoFrame if the bus was not driven
    rx_on,        \* the driver is receiving
    rx_cur,       \* index of the rx_buf the DMA fills
    rx_nxt,       \* index of the rx_buf the driver will fill next
    rx_buf_idx,   \* index uart_cb answers the next request with
    rx_off,       \* bytes of the current buffer already reported
    rx_dma,       \* bytes of the current buffer not yet reported
    rx_ring,      \* the ring buffer between uart_cb and rs485_read
    rd_pc,        \* where the thread in rs485_read is
    rd_mode,      \* its timeout: K_NO_WAIT, a finite one or K_FOREVER
    rd_want,      \* its max_len
    rd_total,     \* bytes it has copied so far
    rd_late,      \* k_uptime_get() has passed its end_ms
    bus,          \* bytes that have appeared on the bus
    out,          \* history: bytes handed to readers
    peak,         \* history: most bytes ever outstanding
    clean         \* history: the receiver has never been interrupted

txVars == <<de, tx_buf, tx_on, tx_done_sem, wr_pc, wr_data, wr_ret, sent>>
rxVars == <<rx_on, rx_cur, rx_nxt, rx_buf_idx, rx_off, rx_dma, rx_ring, bus, peak, clean>>
rdVars == <<rd_pc, rd_mode, rd_want, rd_total, rd_late, out>>
vars   == <<up, txVars, rxVars, rdVars>>

Least(a, b) == IF a < b THEN a ELSE b

TxTypeOK ==
    /\ de \in {0, 1} /\ tx_done_sem \in {0, 1}
    /\ tx_buf \in Frame \cup {NoFrame}
    /\ wr_data \in Frame \cup {NoFrame} /\ sent \in Frame \cup {NoFrame}
    /\ wr_pc \in {"idle", "copied", "raised", "wait"}
    /\ wr_ret \in {"none", "ok", "EINVAL", "EIO"}

BuffersOK == rx_cur \in {0, 1} /\ rx_nxt \in {0, 1} /\ rx_buf_idx \in {0, 1}
DmaOK     == /\ rx_off \in 0..RX_BUF_SIZE
             /\ rx_dma \in Seq(Nat) /\ rx_off + Len(rx_dma) <= RX_BUF_SIZE
RingOK    == rx_ring \in Seq(Nat) /\ Len(rx_ring) <= RX_RING_SIZE
BusOK     == bus \in 0..MaxBytes /\ peak \in 0..MaxBytes
RxTypeOK  == BuffersOK /\ DmaOK /\ RingOK /\ BusOK

RdTypeOK ==
    /\ rd_pc \in {"idle", "loop"}
    /\ rd_mode \in {"no_wait", "finite", "forever"}
    /\ rd_want \in Nat /\ rd_total \in 0..rd_want
    /\ out \in Seq(Nat)

FlagsOK == /\ tx_on \in BOOLEAN /\ rx_on \in BOOLEAN
           /\ rd_late \in BOOLEAN /\ clean \in BOOLEAN

TypeOK == up \in {"boot", "run", "failed"} /\ FlagsOK /\ TxTypeOK /\ RxTypeOK /\ RdTypeOK

Init ==
    /\ up = "boot"
    /\ de = 0 /\ tx_done_sem = 0 /\ tx_on = FALSE
    /\ tx_buf = NoFrame /\ wr_data = NoFrame /\ sent = NoFrame
    /\ wr_pc = "idle" /\ wr_ret = "none"
    /\ rx_on = FALSE /\ rx_cur = 0 /\ rx_nxt = 0 /\ rx_buf_idx = 1
    /\ rx_off = 0 /\ rx_dma = <<>> /\ rx_ring = <<>>
    /\ rd_pc = "idle" /\ rd_mode = "no_wait" /\ rd_want = 0 /\ rd_total = 0
    /\ rd_late = FALSE
    /\ bus = 0 /\ out = <<>> /\ peak = 0 /\ clean = TRUE

-----------------------------------------------------------------------------
(* Receive interrupts.                                                     *)

\* UART_RX_BUF_REQUEST: answer with rx_buf[rx_buf_idx], then flip the index.
BufRequest == rx_nxt' = rx_buf_idx /\ rx_buf_idx' = 1 - rx_buf_idx

\* UART_RX_RDY: ring_buf_put copies what fits and drops the rest of the chunk.
\* Mutants: no capacity check; one byte short; the newest bytes win.
RingPut_NoCheck(ring, chunk) == ring \o chunk
RingPut_Short(ring, chunk) ==
    ring \o SubSeq(chunk, 1, Least(Len(chunk), RX_RING_SIZE - 1 - Len(ring)))
RingPut_Overwrite(ring, chunk) ==
    LET n == Len(ring) + Len(chunk)
    IN  SubSeq(ring \o chunk, 1 + n - Least(n, RX_RING_SIZE), n)

RingPut(ring, chunk) ==
    ring \o SubSeq(chunk, 1, Least(Len(chunk), RX_RING_SIZE - Len(ring)))

\* uart_rx_enable(rx_buf[0]): the driver starts on buffer 0 and asks for the
\* next one at once.
RxEnable == /\ rx_on' = TRUE /\ rx_cur' = 0 /\ rx_off' = 0 /\ rx_dma' = <<>>
            /\ BufRequest

\* rs485_init.  uart_callback_set, the two readiness checks and
\* uart_rx_enable may each fail; main then stops, so one failure outcome does.
RS485Init ==
    /\ up = "boot"
    /\ de' = 0 /\ tx_done_sem' = 0
    /\ \/ /\ up' = "run"
          /\ RxEnable
       \/ /\ up' = "failed"
          /\ UNCHANGED <<rx_on, rx_cur, rx_nxt, rx_buf_idx, rx_off, rx_dma>>
    /\ UNCHANGED <<tx_buf, tx_on, wr_pc, wr_data, wr_ret, sent,
                   rx_ring, bus, peak, clean, rdVars>>

\* A byte appears on the bus.  It is lost when the receiver is off.
Arrive ==
    /\ up = "run" /\ bus < MaxBytes
    /\ bus' = bus + 1
    /\ \/ /\ rx_on /\ rx_off + Len(rx_dma) < RX_BUF_SIZE
          /\ rx_dma' = Append(rx_dma, bus + 1)
          /\ UNCHANGED clean
       \/ /\ ~rx_on
          /\ clean' = FALSE
          /\ UNCHANGED rx_dma
    /\ peak' = IF bus + 1 - Len(out) > peak THEN bus + 1 - Len(out) ELSE peak
    /\ UNCHANGED <<up, txVars, rdVars,
                   rx_on, rx_cur, rx_nxt, rx_buf_idx, rx_off, rx_ring>>

\* The line has been idle for RX_TIMEOUT_US: report what is in the buffer.
RxTimeout ==
    /\ rx_on /\ rx_dma # <<>>
    /\ rx_ring' = RingPut(rx_ring, rx_dma)
    /\ rx_off' = rx_off + Len(rx_dma) /\ rx_dma' = <<>>
    /\ UNCHANGED <<up, txVars, rdVars, rx_on, rx_cur, rx_nxt, rx_buf_idx,
                   bus, peak, clean>>

\* The buffer is full: report the rest, go on with the next buffer, request
\* another.
BufferFull ==
    /\ rx_on /\ rx_off + Len(rx_dma) = RX_BUF_SIZE
    /\ rx_ring' = RingPut(rx_ring, rx_dma)
    /\ rx_cur' = rx_nxt /\ rx_off' = 0 /\ rx_dma' = <<>>
    /\ BufRequest
    /\ UNCHANGED <<up, txVars, rdVars, rx_on, bus, peak, clean>>

\* A line or DMA error stops the receiver; the driver reports a prefix of the
\* buffer and raises UART_RX_DISABLED, on which uart_cb restarts reception
\* and ignores whether that succeeded.
RxDisabled ==
    /\ rx_on
    /\ \E k \in 0..Len(rx_dma) : rx_ring' = RingPut(rx_ring, SubSeq(rx_dma, 1, k))
    /\ clean' = FALSE
    /\ \/ RxEnable
       \/ /\ rx_on' = FALSE /\ rx_off' = 0 /\ rx_dma' = <<>>
          /\ UNCHANGED <<rx_cur, rx_nxt, rx_buf_idx>>
    /\ UNCHANGED <<up, txVars, rdVars, bus, peak>>

-----------------------------------------------------------------------------
(* rs485_write and the transmit interrupt.                                 *)

\* Entry: the length check, then memcpy to tx_buf.
WriteCall(f) ==
    /\ up = "run" /\ wr_pc = "idle"
    /\ wr_data' = f
    /\ \/ /\ f \in TooLong
          /\ wr_ret' = "EINVAL"
          /\ UNCHANGED <<tx_buf, wr_pc>>
       \/ /\ f \notin TooLong
          /\ tx_buf' = f /\ wr_pc' = "copied" /\ wr_ret' = "none"
    /\ UNCHANGED <<up, rxVars, rdVars, de, tx_on, tx_done_sem, sent>>

RaiseDE ==
    /\ wr_pc = "copied"
    /\ de' = 1 /\ wr_pc' = "raised"
    /\ UNCHANGED <<up, rxVars, rdVars, tx_buf, tx_on, tx_done_sem,
                   wr_data, wr_ret, sent>>

\* gpio_pin_set_dt(&de_gpio, 0).  Mutant: the pin is left as it was.
ReleaseBus_Not == UNCHANGED de
ReleaseBus == de' = 0

\* uart_tx.  On an error DE goes back down and the call returns.
StartTx ==
    /\ wr_pc = "raised" /\ ~tx_on
    /\ \/ /\ tx_on' = TRUE /\ wr_pc' = "wait"
          /\ UNCHANGED <<de, wr_ret>>
       \/ /\ ReleaseBus /\ wr_pc' = "idle" /\ wr_ret' = "EIO"
          /\ UNCHANGED tx_on
    /\ UNCHANGED <<up, rxVars, rdVars, tx_buf, tx_done_sem, wr_data, sent>>

\* k_sem_take(&tx_done_sem, K_FOREVER).  Mutants: no wait; no decrement.
TakeTxDone_NoWait == tx_done_sem' = 0
TakeTxDone_Keep == tx_done_sem = 1 /\ UNCHANGED tx_done_sem
TakeTxDone == tx_done_sem = 1 /\ tx_done_sem' = 0

AwaitTxDone ==
    /\ wr_pc = "wait"
    /\ TakeTxDone
    /\ wr_pc' = "idle" /\ wr_ret' = "ok"
    /\ UNCHANGED <<up, rxVars, rdVars, de, tx_buf, tx_on, wr_data, sent>>

\* k_sem_give(&tx_done_sem).  Mutant: it is forgotten.
GiveTxDone_Not == UNCHANGED tx_done_sem
GiveTxDone == tx_done_sem' = Least(tx_done_sem + 1, 1)

\* UART_TX_DONE: the last bit has left the wire.  UART_TX_ABORTED runs the same
\* code; it takes a uart_tx_abort or a timeout, and this program uses neither.
TxDone ==
    /\ tx_on
    /\ tx_on' = FALSE
    /\ ReleaseBus /\ GiveTxDone
    /\ sent' = IF de = 1 THEN tx_buf ELSE NoFrame
    /\ UNCHANGED <<up, rxVars, rdVars, tx_buf, wr_pc, wr_data, wr_ret>>

-----------------------------------------------------------------------------
(* rs485_read.                                                             *)

ReadCall(n, m) ==
    /\ up = "run" /\ rd_pc = "idle"
    /\ rd_pc' = "loop" /\ rd_want' = n /\ rd_mode' = m
    /\ rd_total' = 0 /\ rd_late' = FALSE
    /\ UNCHANGED <<up, txVars, rxVars, out>>

\* ring_buf_get returned some bytes.
ReadSome ==
    /\ rd_pc = "loop" /\ rd_total < rd_want /\ rx_ring # <<>>
    /\ LET k == Least(Len(rx_ring), rd_want - rd_total)
       IN  /\ out' = out \o SubSeq(rx_ring, 1, k)
           /\ rx_ring' = SubSeq(rx_ring, k + 1, Len(rx_ring))
           /\ rd_total' = rd_total + k
    /\ UNCHANGED <<up, txVars, rd_pc, rd_mode, rd_want, rd_late,
                   rx_on, rx_cur, rx_nxt, rx_buf_idx, rx_off, rx_dma, bus, peak, clean>>

\* The timeout does not allow to wait any longer.
\* Mutant: only K_NO_WAIT is recognised.
TimedOut_NoDeadline == rd_mode = "no_wait"
TimedOut == rd_mode = "no_wait" \/ rd_late

ReadReturn ==
    /\ rd_pc = "loop"
    /\ rd_total = rd_want \/ (rx_ring = <<>> /\ TimedOut)
    /\ rd_pc' = "idle"
    /\ UNCHANGED <<up, txVars, rxVars, rd_mode, rd_want, rd_total, rd_late, out>>

\* On an empty ring the reader sleeps 1 ms and looks again.
ReadSleep ==
    /\ rd_pc = "loop" /\ rd_total < rd_want /\ rx_ring = <<>> /\ ~TimedOut
    /\ UNCHANGED vars

\* The clock passes end_ms of a finite timeout; K_FOREVER's is INT64_MAX.
DeadlinePasses ==
    /\ rd_pc = "loop" /\ rd_mode = "finite" /\ ~rd_late
    /\ rd_late' = TRUE
    /\ UNCHANGED <<up, txVars, rxVars, rd_pc, rd_mode, rd_want, rd_total, out>>

\* main has returned after a failed rs485_init.
Halted == up = "failed" /\ UNCHANGED vars

Write == (\E f \in Frame : WriteCall(f)) \/ RaiseDE \/ StartTx \/ AwaitTxDone
Read  == \/ \E n \in ReadLen, m \in {"no_wait", "finite", "forever"} : ReadCall(n, m)
         \/ ReadSome \/ ReadReturn \/ ReadSleep \/ DeadlinePasses
Uart  == Arrive \/ RxTimeout \/ BufferFull \/ RxDisabled \/ TxDone

Next == RS485Init \/ Write \/ Read \/ Uart \/ Halted

Spec == Init /\ [][Next]_vars

\* Threads run when they can; the UART finishes what it started and its idle
\* timer fires.  Nothing makes a caller call, a byte arrive or an error happen.
Fairness == /\ WF_vars(RaiseDE) /\ WF_vars(StartTx) /\ WF_vars(AwaitTxDone)
            /\ WF_vars(TxDone)
            /\ WF_vars(ReadSome) /\ WF_vars(ReadReturn) /\ WF_vars(DeadlinePasses)
            /\ WF_vars(RxTimeout) /\ WF_vars(BufferFull)

FairSpec == Spec /\ Fairness

-----------------------------------------------------------------------------
(* Properties.                                                             *)

\* The bus is driven exactly by the call in progress: DE is high from RaiseDE
\* until TX_DONE or the error path, is never low under a transmission, and no
\* return of rs485_write, good or bad, leaves the node driving the bus.
BusDrivenOnlyWhileSending ==
    /\ tx_on => de = 1 /\ wr_pc = "wait"
    /\ de = 1 => wr_pc = "raised" \/ tx_on

\* rs485_write returns 0 only when its own frame was the last one on the
\* wire and the bus has been released: the semaphore it takes was given
\* for this transmission and not left over from an earlier one.
OkMeansSent == wr_ret = "ok" => sent = wr_data /\ ~tx_on /\ de = 0

\* The transmit buffer is never written while the DMA reads it.
TxBufferStable == [][tx_on => tx_buf' = tx_buf]_vars

\* A byte is lost only by backlog or by a receiver interruption: while no
\* more than RX_RING_SIZE bytes were ever outstanding and reception was never
\* disabled, everything on the bus is delivered or still queued.
LosslessWhileReaderKeepsUp ==
    clean /\ peak <= RX_RING_SIZE => out \o rx_ring \o rx_dma = [i \in 1..bus |-> i]

\* The receive half is a FIFO that loses only its newest bytes.
Channel == INSTANCE ByteChannel WITH q <- rx_ring \o rx_dma
ReceiveIsFifo == Channel!Spec

\* The driver holds two different buffers, as the comment on the buffer
\* request in uart_cb says (double buffering).
DoubleBuffered == rx_on => rx_nxt # rx_cur

\* rs485_write returns; rs485_read returns unless it was told to wait forever.
WriteReturns == wr_pc # "idle" ~> wr_pc = "idle"
ReadReturns  == rd_pc = "loop" /\ rd_mode # "forever" ~> rd_pc = "idle"
=============================================================================
