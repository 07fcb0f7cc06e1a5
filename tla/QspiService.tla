---------------------------- MODULE QspiService ----------------------------
(***************************************************************************)
(* qspi_service.c: appending to a window at the start of the QSPI flash.   *)
(*                                                                         *)
(* The flash keeps its cells over a reset, only erasing makes a cell       *)
(* writable again, and writing 0xFF leaves a cell as it is.  The caller    *)
(* writes only after an init that succeeded, and at most RX_BUF_SIZE bytes *)
(* at a time: more would overrun tmp, which qspi_service_write does not    *)
(* check.  A page of the device may be smaller or larger than the window.  *)
(***************************************************************************)
EXTENDS Integers

CONSTANTS QSPI_REGION_SIZE, RX_BUF_SIZE,
          PageSize, WriteBlock,     \* geometry of the flash device
          Byte,                     \* bytes a caller writes, none of them 0xFF
          ERASED, MIXED,            \* 0xFF; what programming a cell twice leaves
          USED                     \* what is in the flash from before

ASSUME QspiAssumption ==
    /\ {QSPI_REGION_SIZE, RX_BUF_SIZE, PageSize, WriteBlock} \subseteq Nat \ {0}
    /\ RX_BUF_SIZE % WriteBlock = 0 /\ QSPI_REGION_SIZE % WriteBlock = 0
    /\ RX_BUF_SIZE <= QSPI_REGION_SIZE
    /\ {ERASED, MIXED, USED} \cap Byte = {}
    /\ ERASED # MIXED /\ ERASED # USED /\ MIXED # USED

VARIABLES
    ready,           \* init has succeeded since the last reset
    qspi_erase_size, qspi_write_off,
    cell,            \* the flash, farther than a write or an erase should reach
    fresh,           \* history: from qspi_write_off on the window is erased, but for left
    left,            \* history: what failed writes may have left there: [upto, byte]
    log              \* history: [off, len, byte] of the writes that returned 0 and had
                     \* nothing else under them, since the offset was last rewound

vars == <<ready, qspi_erase_size, qspi_write_off, cell, fresh, left, log>>

Addr == 0..(QSPI_REGION_SIZE + RX_BUF_SIZE + PageSize)

TypeOK ==
    /\ ready \in BOOLEAN /\ fresh \in BOOLEAN
    /\ qspi_erase_size \in {0, PageSize}
    /\ qspi_write_off \in 0..QSPI_REGION_SIZE /\ qspi_write_off % WriteBlock = 0
    /\ cell \in [Addr -> Byte \cup {ERASED, MIXED, USED}]
    /\ \A e \in left : e.byte \in Byte /\ e.upto <= QSPI_REGION_SIZE
    /\ \A e \in log : e.byte \in Byte /\ e.off + e.len <= QSPI_REGION_SIZE

\* The flash holds what earlier firmware has left there, also in a part of the window.
Init ==
    /\ ready = FALSE /\ qspi_erase_size = 0 /\ qspi_write_off = 0
    /\ \E n \in 0..QSPI_REGION_SIZE :
          cell = [a \in Addr |-> IF a \in n..(QSPI_REGION_SIZE - 1) THEN ERASED ELSE USED]
    /\ fresh = FALSE /\ left = {} /\ log = {}

\* Nothing is known any more of the cells from the offset on.
Unknown == fresh' = FALSE /\ left' = {} /\ log' = {}

\* Reset of the board.
Reset ==
    /\ ready' = FALSE /\ qspi_erase_size' = 0 /\ qspi_write_off' = 0
    /\ Unknown /\ UNCHANGED cell

\* qspi_service_init; it erases nothing, so what follows may hit used cells.
QspiInit ==
    /\ ready' = TRUE
    /\ qspi_erase_size' = PageSize /\ qspi_write_off' = 0
    /\ Unknown /\ UNCHANGED cell

-----------------------------------------------------------------------------
(* Erasing and appending.                                                  *)

\* What qspi_service_erase erases.
\* Mutant: from the write offset on.
EraseRange_FromOffset == qspi_write_off..(qspi_write_off + qspi_erase_size - 1)
EraseRange == 0..(qspi_erase_size - 1)

Covers == qspi_erase_size >= QSPI_REGION_SIZE

Erased(c) == [a \in Addr |-> IF a \in EraseRange THEN ERASED ELSE c[a]]

\* One byte over another: no bit goes from 0 to 1.
Program(c, off, len, b) ==
    [a \in Addr |-> IF a \notin off..(off + len - 1) THEN c[a]
                    ELSE IF c[a] \in {ERASED, b} THEN b ELSE MIXED]

\* qspi_service_erase.  It leaves qspi_write_off alone.
Erase ==
    /\ ready /\ log' = {}
    /\ \/ /\ cell' = Erased(cell)
          /\ fresh' = (fresh \/ Covers) /\ left' = IF Covers THEN {} ELSE left
       \/ /\ cell' \in {cell, Erased(cell)}                      \* the driver fails
          /\ UNCHANGED <<fresh, left>>
    /\ UNCHANGED <<ready, qspi_erase_size, qspi_write_off>>

\* Length rounded up to the write block.
\* Mutant: rounded down.
Padded_Down(len) == (len \div WriteBlock) * WriteBlock
Padded(len) ==
    IF len % WriteBlock # 0 THEN ((len + WriteBlock - 1) \div WriteBlock) * WriteBlock
    ELSE len

\* Mutant: the length of the write is not counted.
Wraps_Late(len) == qspi_write_off >= QSPI_REGION_SIZE
Wraps(len) == qspi_write_off + Padded(len) > QSPI_REGION_SIZE

\* Under a write of b at off lies nothing but what a failed write of b has left.
Clear(off, lft, b) == \A e \in lft : e.upto <= off \/ e.byte = b

\* The driver's part of a write at offset off of flash c: all, or an error with
\* any part of it done.  The offset moves on only in the first case, so that the
\* next write goes over what this one has left.
FlashWrite(c, off, isFresh, lft, l, len, b) ==
    /\ fresh' = isFresh
    /\ \/ /\ cell' = Program(c, off, len, b) /\ qspi_write_off' = off + Padded(len)
          /\ left' = {e \in lft : e.upto > off + Padded(len)}
          /\ log' = IF isFresh /\ Clear(off, lft, b)
                    THEN l \cup {[off |-> off, len |-> len, byte |-> b]} ELSE l
       \/ /\ \E n \in 0..len : cell' = Program(c, off, n, b)
          /\ qspi_write_off' = off /\ log' = l
          /\ left' = lft \cup {[upto |-> off + len, byte |-> b]}

\* qspi_service_write.  The result of the erase is ignored.
Write(len, b) ==
    /\ ready
    /\ IF Wraps(len)
       THEN \/ FlashWrite(Erased(cell), 0, Covers, {}, {}, len, b)
            \/ \E c \in {cell, Erased(cell)} : FlashWrite(c, 0, FALSE, {}, {}, len, b)
       ELSE FlashWrite(cell, qspi_write_off, fresh, left, log, len, b)
    /\ UNCHANGED <<ready, qspi_erase_size>>

Next == Reset \/ QspiInit \/ Erase \/ \E len \in 0..RX_BUF_SIZE, b \in Byte : Write(len, b)

Spec == Init /\ [][Next]_vars

-----------------------------------------------------------------------------
(* Properties.                                                             *)

\* What a write acknowledged is still there, until it is erased or the offset
\* rewinds: appends never overlap, and the retry of a failed write is as good as
\* the first try.  Excluded are writes over cells that something else was written
\* to before: after an erase that failed or does not cover the window, and other
\* bytes in place of a write that failed.
AcknowledgedIsStored ==
    \A e \in log : \A a \in e.off..(e.off + e.len - 1) : cell[a] = e.byte

\* The test window is never left: outside it nothing is programmed, and nothing
\* erased but the rest of the first page.
WindowKept ==
    \A a \in Addr : a >= QSPI_REGION_SIZE =>
        cell[a] = USED \/ (cell[a] = ERASED /\ a < PageSize)
=============================================================================
