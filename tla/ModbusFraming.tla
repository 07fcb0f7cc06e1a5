--------------------------- MODULE ModbusFraming ---------------------------
(***************************************************************************)
(* modbus_service.c: how the main loop cuts the byte stream of the RS485   *)
(* port into Modbus RTU frames, and the heartbeat register.                *)
(*                                                                         *)
(* The line carries bursts: frames of the master, and noise.  Byte i of    *)
(* burst b is <<b, i>>.  A burst reaches the receive queue of RS485 in     *)
(* chunks (uart_cb reports on an idle line or a full DMA buffer); the      *)
(* queue is the FIFO of module ByteChannel with its capacity.  The CRC is  *)
(* ideal: it holds for exactly the bytes of one frame of the master.       *)
(* Time is k_uptime_get() in milliseconds and may pass between any two     *)
(* steps of main, which lower-level contexts preempt.                      *)
(***************************************************************************)
EXTENDS Integers, Sequences

CONSTANTS Kind,             \* bursts on the line: [good : BOOLEAN, len : Nat]
          RX_RING_SIZE,     \* capacity of the receive queue
          MB_FRAME_MAX_LEN, \* size of mb_rx_frame
          MB_POLL_BUF_LEN,  \* size of the chunk read by modbus_rx_poll
          MB_FRAME_GAP_MS,  \* silence that ends a frame
          HB_PERIOD,        \* 1000 in the code
          CHUNK_GAP,        \* longest time between the reports of two chunks of a burst
          SILENCE,          \* shortest time between two bursts
          STALL,            \* longest time one tick may take
          LATE,             \* longest time k_sleep(1 ms) oversleeps
          MaxBursts, MaxTime \* bounds on the exploration

ASSUME FramingAssumption ==
    /\ \A k \in Kind : k.good \in BOOLEAN /\ k.len \in Nat \ {0}
    /\ {RX_RING_SIZE, MB_FRAME_MAX_LEN, MB_POLL_BUF_LEN, HB_PERIOD} \subseteq Nat \ {0}
    /\ MB_POLL_BUF_LEN <= MB_FRAME_MAX_LEN
    /\ {MB_FRAME_GAP_MS, CHUNK_GAP, SILENCE, STALL, LATE, MaxBursts, MaxTime} \subseteq Nat

VARIABLES
    now,            \* k_uptime_get()
    rx_ring,        \* bytes received and not yet polled
    sent,           \* bursts begun so far; clean: nothing pended when it began
    arrived,        \* bytes of the last burst that have been reported
    last_arrival,   \* when the last chunk was reported
    pc,             \* where main is
    t_now,          \* local "now" of modbus_service_tick
    wake,           \* when k_sleep ends
    tmp,            \* local buffer of modbus_rx_poll, as far as rs485_read has filled it
    mb_rx_frame,    \* frame being assembled; mb_rx_len is its length
    mb_last_rx_ms, hb_last_ms,
    input_reg0,     \* the heartbeat
    submitted       \* bursts passed to modbus_raw_submit_rx, in order

line   == <<sent, arrived, last_arrival>>
main   == <<pc, t_now, wake, tmp, mb_rx_frame, mb_last_rx_ms, hb_last_ms, input_reg0, submitted>>
vars   == <<now, rx_ring, line, main>>

Least(a, b) == IF a < b THEN a ELSE b

UINT16_MOD == 65536 \* a register wraps there

Bytes(b) == [i \in 1..sent[b].len |-> <<b, i>>]
LineIdle == IF sent = <<>> THEN TRUE ELSE arrived = sent[Len(sent)].len

TypeOK ==
    /\ now \in 0..MaxTime /\ t_now \in 0..MaxTime /\ wake \in 0..MaxTime + 1
    /\ mb_last_rx_ms \in 0..now /\ hb_last_ms \in 0..now /\ last_arrival \in 0..now
    /\ Len(rx_ring) <= RX_RING_SIZE
    /\ Len(tmp) <= MB_POLL_BUF_LEN /\ Len(mb_rx_frame) <= MB_FRAME_MAX_LEN
    /\ pc \in {"poll", "gap", "beat", "sleep"}
    /\ input_reg0 \in 0..UINT16_MOD - 1
    /\ \A i \in DOMAIN submitted : submitted[i] \in 1..Len(sent)

\* After modbus_service_init.
Init ==
    /\ now = 0 /\ rx_ring = <<>>
    /\ sent = <<>> /\ arrived = 0 /\ last_arrival = 0
    /\ pc = "sleep" /\ t_now = 0 /\ wake = 0 /\ tmp = <<>>
    /\ mb_rx_frame = <<>> /\ mb_last_rx_ms = 0 /\ hb_last_ms = 0
    /\ input_reg0 = 0 /\ submitted = <<>>

-----------------------------------------------------------------------------
(* The line and the clock.                                                 *)

\* A chunk of the burst in progress is reported; what the ring cannot hold is lost.
Report(k) ==
    /\ ~LineIdle /\ k <= sent[Len(sent)].len - arrived
    /\ LET chunk == SubSeq(Bytes(Len(sent)), arrived + 1, arrived + k)
       IN  rx_ring' = rx_ring \o SubSeq(chunk, 1, Least(k, RX_RING_SIZE - Len(rx_ring)))
    /\ arrived' = arrived + k /\ last_arrival' = now
    /\ UNCHANGED <<now, sent, main>>

NewBurst(kind) ==
    /\ LineIdle /\ Len(sent) < MaxBursts
    /\ sent # <<>> => now - last_arrival >= SILENCE
    /\ sent' = Append(sent, [good |-> kind.good, len |-> kind.len,
                             clean |-> mb_rx_frame = <<>> /\ tmp = <<>> /\ rx_ring = <<>>])
    /\ arrived' = 0 /\ last_arrival' = now
    /\ UNCHANGED <<now, rx_ring, main>>

\* A millisecond passes.  The guards state how long a chunk, a tick and a
\* sleep may take.
ClockTick ==
    /\ now < MaxTime
    /\ ~LineIdle => now - last_arrival < CHUNK_GAP
    /\ IF pc = "sleep" THEN now < wake + LATE ELSE now - t_now < STALL
    /\ now' = now + 1
    /\ UNCHANGED <<rx_ring, line, main>>

-----------------------------------------------------------------------------
(* main: modbus_service_tick, then k_sleep(1 ms).                          *)

\* The sleep is over; modbus_service_tick reads the clock before it polls.
TickBegin ==
    /\ pc = "sleep" /\ now >= wake
    /\ t_now' = now /\ pc' = "poll"
    /\ UNCHANGED <<now, rx_ring, line, wake, tmp, mb_rx_frame, mb_last_rx_ms, hb_last_ms,
                   input_reg0, submitted>>

\* A chunk that would overflow mb_rx_frame discards what was assembled and
\* becomes the head of a new frame.
\* Mutant: no bounds check.
Assemble_NoCheck(frame, chunk) == frame \o chunk

Assemble(frame, chunk) ==
    IF Len(frame) + Len(chunk) > MB_FRAME_MAX_LEN THEN chunk ELSE frame \o chunk

\* mb_last_rx_ms is when main polled the bytes, not when they arrived.
\* Mutant: the silence is measured from the first chunk of the frame.
Restart_FirstChunk == mb_last_rx_ms' = IF mb_rx_frame = <<>> THEN now ELSE mb_last_rx_ms
Restart == mb_last_rx_ms' = now

\* One ring_buf_get of rs485_read(tmp, K_NO_WAIT), which goes on until tmp is full or
\* the ring is empty: bytes that arrive meanwhile still come along.
ReadSome ==
    /\ pc = "poll" /\ rx_ring # <<>> /\ Len(tmp) < MB_POLL_BUF_LEN
    /\ LET n == Least(Len(rx_ring), MB_POLL_BUF_LEN - Len(tmp))
       IN  /\ tmp' = tmp \o SubSeq(rx_ring, 1, n)
           /\ rx_ring' = SubSeq(rx_ring, n + 1, Len(rx_ring))
    /\ UNCHANGED <<now, line, pc, t_now, wake, mb_rx_frame, mb_last_rx_ms, hb_last_ms,
                   input_reg0, submitted>>

\* rs485_read returned bytes.
PollChunk ==
    /\ pc = "poll" /\ tmp # <<>>
    /\ Len(tmp) = MB_POLL_BUF_LEN \/ rx_ring = <<>>
    /\ mb_rx_frame' = Assemble(mb_rx_frame, tmp) /\ tmp' = <<>>
    /\ Restart
    /\ UNCHANGED <<now, rx_ring, line, pc, t_now, wake, hb_last_ms, input_reg0, submitted>>

\* rs485_read returned 0: the poll loop ends.
PollEmpty ==
    /\ pc = "poll" /\ rx_ring = <<>> /\ tmp = <<>>
    /\ pc' = "gap"
    /\ UNCHANGED <<now, rx_ring, line, t_now, wake, tmp, mb_rx_frame, mb_last_rx_ms, hb_last_ms,
                   input_reg0, submitted>>

\* The CRC at the end of the assembled bytes matches.
CrcMatches(frame) == \E b \in 1..Len(sent) : sent[b].good /\ frame = Bytes(b)

\* mb_rx_len = 0 at the end of modbus_submit_frame.  Mutant: forgotten.
ClearFrame_Not == UNCHANGED mb_rx_frame
ClearFrame == mb_rx_frame' = <<>>

\* modbus_submit_frame drops a frame whose CRC is wrong and passes the others
\* to the server.  Its own test for less than 4 bytes never holds here.
SubmitFrame ==
    /\ submitted' = IF CrcMatches(mb_rx_frame) THEN Append(submitted, mb_rx_frame[1][1])
                                               ELSE submitted
    /\ ClearFrame

\* The end of modbus_rx_poll: the line has been silent and there is a frame.
\* Mutant: off by one.
FrameEnded_Longer == Len(mb_rx_frame) > 4 /\ now - mb_last_rx_ms >= MB_FRAME_GAP_MS
FrameEnded == Len(mb_rx_frame) >= 4 /\ now - mb_last_rx_ms >= MB_FRAME_GAP_MS

GapCheck ==
    /\ pc = "gap"
    /\ \/ FrameEnded /\ SubmitFrame
       \/ ~FrameEnded /\ UNCHANGED <<mb_rx_frame, submitted>>
    /\ pc' = "beat"
    /\ UNCHANGED <<now, rx_ring, line, t_now, wake, tmp, mb_last_rx_ms, hb_last_ms, input_reg0>>

\* Mutant: off by one.
BeatDue_Early == t_now - hb_last_ms >= HB_PERIOD - 1
BeatDue == t_now - hb_last_ms >= HB_PERIOD

Heartbeat ==
    /\ pc = "beat"
    /\ \/ /\ BeatDue
          /\ input_reg0' = (input_reg0 + 1) % UINT16_MOD /\ hb_last_ms' = t_now
       \/ ~BeatDue /\ UNCHANGED <<input_reg0, hb_last_ms>>
    /\ pc' = "sleep" /\ wake' = now + 1
    /\ UNCHANGED <<now, rx_ring, line, t_now, tmp, mb_rx_frame, mb_last_rx_ms, submitted>>

Line == (\E k \in 1..RX_RING_SIZE : Report(k)) \/ (\E kind \in Kind : NewBurst(kind))
Main == TickBegin \/ ReadSome \/ PollChunk \/ PollEmpty \/ GapCheck \/ Heartbeat

\* The exploration ends at MaxTime.
TimeOver == now = MaxTime /\ UNCHANGED vars

Next == Line \/ ClockTick \/ Main \/ TimeOver

Spec == Init /\ [][Next]_vars

-----------------------------------------------------------------------------
(* Properties.                                                             *)

\* The server never sees a frame twice or out of order, however chunks, noise,
\* ring overflow and a stalled main loop interleave.
SubmittedOnceInOrder ==
    \A i, j \in DOMAIN submitted : i < j => submitted[i] < submitted[j]

\* When the chunks of a frame are reported less than the gap apart and main is
\* prompt, a frame of the master that finds nothing pending is submitted before the
\* line may carry the next burst.
Settled == LineIdle /\ now - last_arrival >= SILENCE
CleanFrameSubmitted ==
    Settled => \A b \in 1..Len(sent) :
        sent[b].good /\ sent[b].clean => \E i \in DOMAIN submitted : submitted[i] = b

\* What is still pending when the next burst may come is less than a frame:
\* noise of 4 bytes or more has been thrown away by then.
OnlyRuntsLinger == Settled => rx_ring = <<>> /\ tmp = <<>> /\ Len(mb_rx_frame) < 4

\* The heartbeat is never ahead of the clock.
HeartbeatNotAhead == input_reg0 * HB_PERIOD <= now

\* The heartbeat counts seconds, as the point table says.
HeartbeatCountsSeconds == now < (input_reg0 + 2) * HB_PERIOD
=============================================================================
