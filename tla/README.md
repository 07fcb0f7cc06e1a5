# A TLA+ development of the ATS-M7 firmware

The repository holds a Zephyr application for the M7 core of an STM32H745 board
(`ATS-M7/`): a Modbus RTU server on an RS485 line whose points are kept in FlashDB
on a QSPI flash, with a CAN port beside it. It also holds the Zephyr example
application (`app/`, copied in `ATS/`) with its blink and sensor drivers. Paths
below are relative to the repository.

## 1. Inventory

| component | source | state | operations | runs in |
|---|---|---|---|---|
| RS485 port | `ATS-M7/src/usart_service.c` | `tx_buf`, `tx_done_sem`, DE pin, `rx_buf[2]`, `rx_buf_idx`, `rx_ring` | `rs485_init`, `rs485_write`, `rs485_read`, `uart_cb` | two threads and the UART interrupt |
| Modbus framing | `modbus_service.c` | `mb_rx_frame`, `mb_rx_len`, `mb_last_rx_ms` | `modbus_rx_poll`, `modbus_submit_frame` | main, every ms |
| heartbeat | `modbus_service.c` | `input_reg[0]`, `hb_last_ms` | `modbus_service_tick` | main |
| Modbus server | `modbus_service.c` and Zephyr | one receive ADU, a work queue | the point callbacks, `modbus_raw_tx_cb` | work queue |
| points database | `modbus_points_db.c` | `g_db_ready`, `g_db_lock`, the FlashDB partition | init, get and set of registers and coils | work queue |
| boot | `main.c`, `modbus_service_init` | its place | port, self test, database, RS485, server | main |
| flash port | `flashdb_port_zephyr.c` | `flashdb_area`, `flashdb_erase_size`, `flashdb_write_align` | init, read, write, erase, self test | any |
| FAL adapter | `fal_stub_zephyr.c` | `g_fal_inited`, `g_partition` | `fal_init`, find, read, write, erase | FlashDB |
| JEDEC and SFDP report | `flashdb_port_zephyr.c` | the header loop | `flashdb_port_print_jedec_id`, `flashdb_port_print_sfdp_dw15` | main |
| CAN service | `can_service.c` | two filter identifiers, `can_rx_msgq`, the controller | init, set filter, send, read | any thread, CAN interrupt |
| QSPI test writer | `qspi_service.c` | `qspi_write_off`, `qspi_erase_size` | init, erase, write | any (no caller in the repository) |
| example application | `app/src/main.c`, `drivers/blink/gpio_led.c`, `drivers/sensor/example_sensor/` | `period_ms`, `last_val`, sample, timer, LED | the loop, `blink_set_period_ms`, the timer handler | main and timer interrupt |
| custom library | `lib/custom/` | none | one pure function | |

How they interact. A byte on the bus goes: UART DMA, `uart_cb`, `rx_ring`,
`rs485_read(K_NO_WAIT)` from `modbus_rx_poll`, `mb_rx_frame`, a gap of 2 ms,
`modbus_raw_submit_rx`. From there Zephyr's work queue calls the point callbacks,
which call FlashDB, which calls FAL, which calls the flash port; the response
comes back through `modbus_raw_tx_cb` and `rs485_write`, which blocks the work
queue until `uart_cb` has seen `TX_DONE`.

What is hard in it:

- *Concurrency.* The transmit path is split between a thread and an interrupt
  that share the DE pin, `tx_buf` and a semaphore. The receive path has a
  producer (interrupt) and a consumer (main) on a ring, and DMA buffers that are
  handed over by index. CAN filters change while frames arrive.
- *Time.* Frames are cut by silence, but silence is measured by a polling loop.
- *Failure.* The port can be half initialised; receiver errors restart the
  DMA; flash operations fail; power fails at any moment of boot or of a write.
- *Order.* The server's callbacks may run as soon as it is started.

What makes each part correct is stated with its module in section 3, and every
hazard, with its line and the property aimed at it, is in `PROJECT.json`.

## 2. Plan

Order of work, most important behaviour first:

1. `RS485` with the abstraction `ByteChannel`, and its proofs. *Done.*
2. `ModbusFraming`. *Done.*
3. `FlashPort` with proofs; `PointsStore`. *Done.*
4. `CanService`, `BlinkApp` with `PeriodSelector`, `QspiService`. *Done.*
5. `ModbusServer` with the abstraction `PointServer`: the copy into the receive
   ADU, callbacks and answers, composed with `PointsStore`. *Done.*
6. `FlashReport`: the JEDEC and SFDP reports on top of `FlashPort`, with proofs.
   *Done.*
7. Theorems about `PointsStore` and `ModbusServer`. *Done.*
8. Theorems about the framing, the CAN service, the example application and the QSPI
   writer; `LosslessWhileReaderKeepsUp`; `KeepsPromise` for any frames. *Done.*
9. Still worth having: what lies between the modules. `RS485` and `ModbusFraming` share the
   receive queue only through the text of section 3, `ModbusFraming` and `ModbusServer` the
   submitted frames; a composition of the three would connect them. *Open.*

## 3. Modules and runs

A name in a module is the source's name wherever the source has one.
`*_Something` definitions next to an operator are mutated forms of it, used to see
that a property notices the bug. `ByteChannel`, `PeriodSelector` and `PointServer` are abstract
promises: they say what the code should amount to and translate no lines of it.

### RS485 and ByteChannel

`RS485` has three actors. The writer goes through `WriteCall` (length check and
`memcpy`), `RaiseDE`, `StartTx` (`uart_tx`, with its error path) and
`AwaitTxDone`. The reader goes through `ReadCall`, `ReadSome`, `ReadSleep` and
`ReadReturn` with all three kinds of timeout. The UART raises `TxDone`, `RxTimeout`,
`BufferFull` and `RxDisabled`; each is one execution of `uart_cb`, which is not
interrupted by the threads. Bytes on the bus are numbered, so loss and order
are visible; a frame to send is opaque. There is one writer, because
`modbus_raw_tx_cb` on the work queue is the only caller.

*Run `rs485_tx`* (three frames, one too long, a ring of one byte; 57,350 states): the bus driver is
on exactly while a call sends (`BusDrivenOnlyWhileSending`), a write that
returned 0 put its own frame on the wire (`OkMeansSent`), the DMA's buffer is
stable (`TxBufferStable`), and under fairness writes and bounded reads return.

*Run `rs485_rx`* (6 bytes, DMA buffers and a ring of 3; 326,120 states): the
receive half implements `ByteChannel`, a FIFO that may lose its newest bytes only
(`ReceiveIsFifo`), and loses none while the backlog fits the ring and no
receiver error occurs (`LosslessWhileReaderKeepsUp`). Six bytes are two full
DMA buffers and two fills of the ring: every buffer switch, a restart on each
index and an overflow occur.

*Run `rs485_db`* refutes `DoubleBuffered`: see Findings.

*Fairness.* Weak fairness of the threads' next steps (the scheduler runs ready
threads, and main sleeps between polls), of `TxDone` (a started transmission
ends), of the idle timer and of the clock. Nothing makes a caller call, a byte
arrive or an error occur. Without `TxDone` the `K_FOREVER` wait would not
end, which is what the mutant of `WriteReturns` shows.

### ModbusFraming

An explicit millisecond clock. `TickBegin`, `ReadSome` (one `ring_buf_get` of
`rs485_read`, which goes on until its buffer is full or the ring empty), `PollChunk`, `PollEmpty`,
`GapCheck` and `Heartbeat` are the statements of `modbus_service_tick` between which bytes
may arrive (`Report`) or time may pass (`ClockTick`). `CHUNK_GAP`, `SILENCE`,
`STALL` and `LATE` bound the line and the main loop. The CRC is modelled by what
it does: it matches exactly the bytes of one whole good burst.

*Run `framing_any`* (no timing assumption, ring overflow possible; 3.9 million
states): no frame is submitted twice or out of order, the frame buffer is never
overrun, the heartbeat is never early.

*Run `framing_timely`* (chunks at most 1 ms apart, bursts 6 ms apart, a prompt loop):
a frame that begins with the receiver empty is submitted before the next
burst may come (`CleanFrameSubmitted`), and nothing but a runt of 1 to 3 bytes is
ever left over (`OnlyRuntsLinger`). The assumption on chunks is about the times of
the *reports*, and the code does not guarantee it: of a frame that straddles a DMA buffer
boundary the first part is reported when the buffer is full and the rest when the line
falls idle, so a contiguous frame whose rest takes longer than the gap (about 23 bytes at 115200
baud) is cut without any pause on the line. The precondition leaves such frames out, and
`CleanFrameSubmitted` those that follow a runt that has not been given up yet. Three bursts are enough for a frame
after noise after a frame; 18 ms is three bursts with their silences. 6 ms is the shortest
silence the theorem `SilenceClears` allows with these values (gap 2, `LATE` 1, `STALL` 0);
with 5 ms TLC finds noise that is still pending when the next burst begins.

*Run `framing_beat`* refutes `HeartbeatCountsSeconds`: see Findings.

### FlashPort

Both layers with all words of a machine of `SIZE_MOD` values, so wrap-around is
real. `PortInit` has the three outcomes of `flashdb_port_init`, among them the
half-initialised one. *Run `flash_port`* tries every offset and length:
nothing outside the partition is touched, nothing inside is refused, and a
published partition is usable. The run's specification is `FlashReport`'s, whose
every step is a step of `FlashPort` or leaves it alone (theorem
`ReportsLeaveThePortAlone`).

### FlashReport

The two reports main asks for after the port is open: `Jedec` and, one header per step,
`SfdpBegin`, `SfdpHeader`, `SfdpEnd`. A chip is any sequence of parameter headers with any
lengths; where the loop stops (`Whole`), which header it takes (`Taken`) and the arithmetic on
the bytes (`U32`, `Qer`) are the code's. In run `flash_port` chips have up to three headers
of which two fit the buffer, with empty, short and sufficient tables: a printed QER is
that of the first non-empty basic table that was read, and "too short" is said only
when it is (`ReportIsRight`). The header buffer is 24 bytes instead of 64 and the top byte
of a DWORD stays below 128 (TLC's integers); the theorem has neither bound.

### PointsStore

Boot, self test, database and point accesses over power cycles. FlashDB is
external: one live record per key in some sector, reads that may fail, updates atomic under power
failure, bad sectors formatted on start, garbage collection moving records;
whether missing keys get their default at start is left open. *Run `points`*:
acknowledged points are lost only with the sector the self test erases
(`LossOnlyBySelfTest`), and no callback runs before the database is ready
(`ServerImpliesDatabase`). Two keys in two sectors show a record inside and one
outside the erased sector. *Run `points_persist`* refutes `PointsArePersistent`.

### ModbusServer and PointServer

`ModbusServer` extends `PointsStore` by what lies between the framing and the points. main copies
the frame into the one receive ADU of the interface, whatever the work queue is doing, and
may be preempted by it in between: `CopyHead` (unit and function), `CopyAddr` and `Submit` (the
values, and the work item is queued). `Begin` is the handler starting; then each register
is one callback (`ReadPoint`, `ReadInput`, or `WriteBegins` and `WriteEnds` around the flash
operation), and `Respond` is `modbus_raw_tx_cb`, which may fail. The boot steps and power failures
of `PointsStore` come between any two of them (`BootStep`, `Blackout`). The handler itself and
`modbus_raw_submit_rx` are Zephyr's and external. Requests name registers and values; all
addresses of a request are copied in one step and all its values in another. All writes
are treated as multiple writes, and a single write is one with a single register.

`PointServer` is the promise seen from the bus: only the request being served changes
points, and only to its own values; a positive answer to a write means all of
it is stored; a positive answer to a read is the present content; a refused or
interrupted write may have been carried out in part, and a read may be refused because
the flash could not be read.

Nothing is assumed about when the master asks, and the code does mix requests up. The
handler takes later values from the shared ADU, so when the next request arrives in the
middle of a multiple write (a broadcast write has no answer to wait for, and a master's
timeout may be shorter than a sector erase) a register gets the value of the wrong request;
and a handler that preempts the copy begins with a mixture of two. The promise therefore
marks such a request `mixed` and says what is still true of it: it stores *some* value of the
master at points it names and at no other, a positive answer still means that a record
exists at each of them, and the requests before and after it are not affected. For every
other request nothing is weakened.

*Run `points`* (two points, five requests: two multiple writes, one of them a broadcast with
an address outside the table, a read, an input read with an address outside the table and a
request for another unit; 3,996,400 states) shows that `ModbusServer` implements it
(`KeepsPromise`) and checks the properties of `PointsStore` under this load. Two writes with
different values, one with and one without an answer, are enough for each kind of mixture.

### CanService

Every driver call is a step and may fail; the interrupt queues a frame that an
installed filter accepts between any two. An identifier is the set of its one
bits, which makes masking and range checks exact. *Run `can`* (two threads, 3.1
million states): after the purge the queue holds no frame of a replaced filter
(`OnlyMatchingFrames`), and while the threads take turns the controller has
exactly the filters of the last call, each reachable from a stored identifier
(`FiltersAsConfigured`).

### BlinkApp and PeriodSelector

The loop of `app/src/main.c` with both drivers; the timer expires between any two
steps of the thread. `PeriodSelector` is the promise: every press moves one step
along a cycle of periods that includes "off". *Run `blink`* uses the real
constants 1000 and 100 (an `unsigned int` wraps at 65536 there, which is enough to
see it leave the cycle): the application implements `PeriodSelector`
(`FollowsTheCycle`), and off means dark (`DarkWhenOff`) unless the pin itself failed.

### QspiService

Appending with padding, wrapping and failing drivers over resets, on a flash that is in use
already. *Run `qspi`* (window of 4, block of 2, writes up to 4, a first page of 6; 381,357 states):
what was acknowledged is stored until it is erased or the offset rewinds
(`AcknowledgedIsStored`), and outside the window no cell is programmed, and none erased but
the rest of the first page (`WindowKept`). The code erases one page of whatever size the driver
reports and never compares it with the window, so a page larger than the window takes
what lies behind it along; a smaller one does not erase all of the window.

A failed write leaves the offset where it was, so that the next one goes over cells that
are partly programmed. The history variable `left` remembers them: a retry of the same
bytes is as good as the first try, and other bytes in their place promise nothing. Nor does
a write after a reset without an erase, or after an erase that failed or did not cover the
window (`fresh`). The model's callers write at most `RX_BUF_SIZE` bytes: the `memcpy` at
`qspi_service.c:80` has no bound of its own, what a longer write would do is undefined, and the
repository has no caller that could show one.

## 4. Findings

- `DoubleBuffered` (`usart_service.c:70`): the comment at line 63 calls the receive
  buffers double-buffered. A restart begins with `rx_buf[0]` but leaves
  `rx_buf_idx` as it was; when it is 0 the driver holds the same buffer twice.
- `HeartbeatCountsSeconds` (`modbus_service.c:243`): the point table
  (`MODBUS_FLASHDB_POINTS.md:52`) says once per second. Each period starts at the
  late tick, so oversleeping adds up without bound.
- `PointsArePersistent` (`main.c:34`): the point table (line 8) says registers and
  coils are persistent. The self test on every boot erases the first erase
  block of the database's own partition.

Two observations without a run of their own: the comment at `usart_service.c:69` wants
reception to go on after a restart, but the result of `uart_rx_enable` is ignored and a
failure leaves the node deaf (`RxDisabled` has that branch); and `blink.h` calls `period_ms`
the period of the blink, while the timer toggles the LED once per `period_ms`, so a full
on-off cycle takes twice that.

## 5. Proofs

Every invariant and every action or refinement property that a run checks is also a
theorem, for every value of the constants that satisfies the named assumption of its
module:

| proofs | about | assumption |
|---|---|---|
| `RS485Proofs` | `RS485`, `ByteChannel` | `RS485Assumption` |
| `ModbusFramingProofs` | `ModbusFraming` | `FramingAssumption`; two theorems also take the bounds below |
| `PointsStoreProofs` | `PointsStore` | `StoreAssumption` |
| `ModbusServerProofs` | `ModbusServer`, `PointServer` | `ServerAssumption` |
| `FlashProofs` | `FlashPort`, `FlashReport` | `PortAssumption`, `ReportAssumption` |
| `CanServiceProofs` | `CanService` | `CanAssumption` |
| `BlinkAppProofs` | `BlinkApp`, `PeriodSelector` | `BlinkAssumption` |
| `QspiServiceProofs` | `QspiService` | `QspiAssumption` |

### RS485

- `TypeCorrect` proves `TypeOK` one action at a time; the lemma
  `RingPutType` bounds what `RingPut` leaves in the ring. `TypeOK` is a conjunction of small
  named parts so that each action touches few of them.
- `BusDriven` and `OkIsSent` follow from `TxInvariant`, the theorem that the
  strengthening `TxInv` holds: where the writer is determines DE, whether a transmission
  runs, what `tx_buf` holds and the count of the semaphore. Neither property is
  inductive alone, because only the semaphore count ties the return of a write
  to the end of its own transmission. `TxBufferIsStable` follows from it too.
- `PortIsFifo` is the refinement: every step of the port maps to a step of
  `ByteChannel` or a stutter, with `q` mapped to ring and DMA buffer together.
- `NothingLostInTime`: as long as the backlog fits the ring and no receiver error occurs,
  bytes read, ring and DMA buffer together are 1, 2, 3, ... without a hole. The
  strengthening `Accounted` adds that `peak` bounds what is outstanding, which is what
  makes `ring_buf_put` take every chunk whole.

### Framing

- `FramingTypeCorrect` and `FramesInOrder` need no assumption on time. `Pipe` is all that is
  pending, from the assembled frame to the ring. `PipeInv` says it is in the order of the
  line and `SubmittedInv` that all of it comes after every submitted burst; each step
  appends to `Pipe`, takes from its front, or leaves it (`FrontTaken`).
- `HeartbeatIsNotAhead` follows from `BeatsPaid`: every beat was paid for with a period of
  the clock, and the wrap only forgets beats.
- `SilenceClears` proves `OnlyRuntsLinger` when `LongSilence` holds:
  `SILENCE > MB_FRAME_GAP_MS + 1 + 2 * LATE + 4 * STALL`. `Deadlines`, which holds without
  it, says by when main has polled the last chunk and by when it has given up a frame:
  the last bytes wait for one sleep and one tick, are polled by the end of that tick,
  and are given up in the first later tick that finds the gap over. TLC shows for
  `STALL` 0 and 1 that one millisecond less is not enough.
- `CleanFramesGetThrough` proves `CleanFrameSubmitted` with `LongSilence`, `RealFrames` (frames
  of the master have at least 4 bytes and fit both buffers) and `ShortPauses`,
  `CHUNK_GAP + STALL < MB_FRAME_GAP_MS`. `Kept` is the strengthening: all that has arrived of
  the burst is pending and nothing else, and if more is to come, main looks for the end of
  the frame so soon after a poll that it cannot find one. With the gap of 2 ms in the code
  `ShortPauses` leaves 1 ms for a pause and a stalled tick together.

### Points and server

- `PointsTypeCorrect`, `OnlySelfTestLoses` and `ServerNeedsDatabase` follow from `StoreInv`.
  `LossOnlyBySelfTest` is not inductive alone: the return of a write makes its value the
  only correct one, so `CallOK` must say that a write that will succeed has stored it, and
  `Staged` that callbacks run only after the whole boot, that a ready database has formatted
  every sector, and that the test pattern meets no records.
- `ServerUsesTheStore` is the composition: every step of `ModbusServer` is a step of
  `PointsStore` or leaves it alone, so the theorems about the store carry over
  (`ServerLosesNothing`, `ServerIsNeverRefused`). It needs `ServerInv`: what the handler is about to
  store is a value of the master even when it works on a mixture, because each field
  of the receive ADU is one of some frame; and unless its request is mixed, the ADU in which it
  looks up the next value is still that request.
- `ServerKeepsPromise` is the refinement of `PointServer`, for any frames at any time. `PromiseInv`
  carries it: the copy and the work queue run only while the server is up, what is queued is
  what the promise has as `asked`, and `Progress` says of a request under way that the registers
  before the present one are stored (with the value asked for, unless it is mixed), or read as
  the answer will say, and that a refused input read has its reason. Each step of the firmware
  is then one step of the promise (`ArriveStep`, `AskStep`, `ServeStep`, `StoreStep`, `AnswerStep`,
  `FallbackStep`, `StopStep`) or none (`HiddenStep`, `CopyStep`). It needs that a request names no
  point twice: with one register twice and two values, no answer could be true. Modbus
  requests name consecutive registers, so `ServerAssumption` says so, and also that the
  marker of an absent record is no value.

### Flash

- `DriverStaysInside` and `ChecksAreExact` rest on one lemma, that
  `off <= size /\ len <= size - off` is exactly `off + len <= size` on words.
  `PublishedPartitionIsUsable` needs the strengthening that an erase size is
  only ever set together with an open area. `PortTypeCorrect` shows that erase size and
  write alignment come together.
- `QerOfTheRightTable` proves `ReportIsRight` for any chip and buffer length. The
  strengthening `WalkInv` says what the loop knows at index `i`: nothing while no header
  before `i` counts, and else the first that does. The arithmetic rests on
  `QerIsThirdByte`: bits 20 to 22 of the little endian word are bits 4 to 6 of its third
  byte, for all bytes. `ReportsLeaveThePortAlone` carries the theorems about the port over
  to the system with reports.

### CAN, example application, QSPI

- `QueueFollowsFilters` holds for any number of concurrent callers; `OnlyMatchingFrames` is
  inductive together with the types, because the purge is a step of its own after the
  last removal. `NoFilterLeaks` needs `TurnInv`: while callers take turns at most one is in
  a call, and its place says which elements, identifiers and wanted filters agree.
- `OffIsDark` needs `CallsInStep`: the pin is only written with the timer stopped.
  `PressesFollowTheCycle` is the refinement of `PeriodSelector`; `PeriodFacts` shows that the
  unsigned subtraction stays among the multiples of the step.
- `WritesAreStored` and `WindowIsKept` follow from `QspiInv`: the log lies below the write
  offset, the offset stays a multiple of the write block (`RoundUp`), after an erase in this
  session that covers the window nothing but what failed writes have left stands from the
  offset on (`Clean`), and outside the window a cell is as it was found or an erased one of
  the first page (`Outside`). Neither theorem bounds the page by the window.

### Only model-checked

Liveness under fairness (`WriteReturns`, `ReadReturns`) is out of the prover's reach. The three
properties that the code violates are of course not theorems. That `SilenceClears` and
`CleanFramesGetThrough` have the best bounds is TLC's finding on small values, no theorem.

## 6. Not modelled

- Zephyr, its drivers and FlashDB are not in the repository; they are
  environment, restricted to what the code relies on.
- Data: payloads, register values beyond "which write", printing, and the identification
  bytes of the JEDEC report.
- Function codes without a callback and malformed requests: Zephyr's server answers
  them without reaching code of the repository.
- A second concurrent caller of `rs485_write`: the program has none.
- The custom library (one pure function), board files, device tree and generated
  tables (`boards/vendor/ats_stm32h745/temp.c`).
