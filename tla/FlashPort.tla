----------------------------- MODULE FlashPort -----------------------------
(***************************************************************************)
(* flashdb_port_zephyr.c and fal_stub_zephyr.c: the path from FlashDB's    *)
(* flash abstraction (FAL) to the QSPI partition.  The port opens the      *)
(* partition; FAL publishes it as the partition "flashdb" and forwards     *)
(* reads, writes and erases, each layer checking the range again.          *)
(*                                                                         *)
(* Sizes and offsets are machine words of SIZE_MOD values (2^32 on the     *)
(* target).  The calls of FlashDB and main come in any order, and the      *)
(* flash driver may fail any of them.                                      *)
(***************************************************************************)
EXTENDS Integers

CONSTANTS SIZE_MOD,   \* number of values of a size_t
          AREA_SIZE,  \* fa_size of flashdb_partition
          PAGE_SIZE   \* erase page size reported by the driver, 0 if it has none

ASSUME PortAssumption ==
    /\ SIZE_MOD \in Nat \ {0} /\ AREA_SIZE \in Nat \ {0} /\ PAGE_SIZE \in Nat
    /\ 2 * AREA_SIZE < SIZE_MOD    \* the partition fits an off_t

Word == 0..SIZE_MOD - 1
\* off_t is signed: the upper half of the words are negative offsets.
SignedOf(w) == IF 2 * w >= SIZE_MOD THEN w - SIZE_MOD ELSE w

VARIABLES
    flashdb_area,       \* "null" or "open"
    flashdb_erase_size,
    flashdb_write_align,
    g_fal_inited,
    part_len,           \* g_partition.len
    call,               \* last access: its layer, offset, length and result
    touched             \* range the driver was told to access, or <<>>

portVars == <<flashdb_area, flashdb_erase_size, flashdb_write_align>>
falVars  == <<g_fal_inited, part_len>>
vars     == <<portVars, falVars, call, touched>>

NoCall == [layer |-> "none", off |-> 0, len |-> 0, ready |-> FALSE, result |-> 0]

TypeOK ==
    /\ flashdb_area \in {"null", "open"}
    /\ flashdb_erase_size \in {0, PAGE_SIZE} /\ flashdb_write_align \in {0, 1, 4}
    /\ flashdb_erase_size # 0 => flashdb_write_align # 0
    /\ g_fal_inited \in BOOLEAN
    /\ part_len \in {0, AREA_SIZE}

Init ==
    /\ flashdb_area = "null" /\ flashdb_erase_size = 0 /\ flashdb_write_align = 0
    /\ g_fal_inited = FALSE /\ part_len = 0
    /\ call = NoCall /\ touched = <<>>

-----------------------------------------------------------------------------
\* flash_area_align, where 0 counts as 1.  Mutant: it does not.
Align_Raw(align) == align
Align(align) == IF align = 0 THEN 1 ELSE align

\* flashdb_port_init; ok tells whether it returns 0.  The area is opened before
\* the device and the page size are checked, so a failure of those leaves it
\* open without an erase size.
PortInit(ok) ==
    \/ ~ok /\ UNCHANGED portVars                 \* flash_area_open fails
    \/ /\ ~ok /\ flashdb_area' = "open"          \* not ready, or no page info
       /\ UNCHANGED <<flashdb_erase_size, flashdb_write_align>>
    \/ /\ ok /\ flashdb_area' = "open" /\ flashdb_erase_size' = PAGE_SIZE
       /\ \E align \in {0, 1, 4} : flashdb_write_align' = Align(align)

PortSize(area) == IF area = "open" THEN AREA_SIZE ELSE 0

\* The check at the end of fal_init.
\* Mutant: only the size of the area is checked.
Geometry_SizeOnly(area, erase) == PortSize(area) # 0
Geometry(area, erase) == PortSize(area) # 0 /\ erase # 0

\* fal_init: opens the port itself only when the port reports no size.
FalInit ==
    /\ ~g_fal_inited
    /\ \/ PortSize(flashdb_area) # 0 /\ UNCHANGED portVars
       \/ PortSize(flashdb_area) = 0 /\ \E ok \in BOOLEAN : PortInit(ok)
    /\ IF Geometry(flashdb_area', flashdb_erase_size')
       THEN g_fal_inited' = TRUE /\ part_len' = PortSize(flashdb_area')
       ELSE UNCHANGED falVars
    /\ UNCHANGED <<call, touched>>

MainPortInit == (\E ok \in BOOLEAN : PortInit(ok)) /\ UNCHANGED <<falVars, call, touched>>

\* The range check of both layers; len > size - off cannot wrap around.
\* Mutants: the sum wraps; the end of the partition is out of range.
InRange_Sum(off, len, size) == (off + len) % SIZE_MOD <= size
InRange_Strict(off, len, size) == off < size /\ len <= size - off
InRange(off, len, size) == off <= size /\ len <= size - off

\* flashdb_check_range, then the driver.
PortAccess(off, len) ==
    IF flashdb_area = "null" \/ SignedOf(off) < 0 \/ ~InRange(off, len, AREA_SIZE)
    THEN touched' = <<>> /\ call' = [layer |-> "port", off |-> off, len |-> len,
                                     ready |-> flashdb_area = "open", result |-> -1]
    ELSE /\ touched' = <<off, len>>
         /\ \E r \in {-1, 0} :
               call' = [layer |-> "port", off |-> off, len |-> len, ready |-> TRUE,
                        result |-> IF r = 0 THEN len ELSE -2]

\* fal_partition_read, _write and _erase: part_is_valid, the range, the port.
FalAccess(off, len) ==
    IF ~g_fal_inited \/ ~InRange(off, len, part_len)
    THEN touched' = <<>> /\ call' = [layer |-> "fal", off |-> off, len |-> len,
                                     ready |-> g_fal_inited, result |-> -1]
    ELSE PortAccess(off, len)

\* fal_partition_erase_all.
EraseAll == FalAccess(0, part_len)

\* flashdb_port_self_test begins with erase(0, flashdb_erase_size).
SelfTestErase == flashdb_area = "open" /\ PortAccess(0, flashdb_erase_size)

Access == /\ \/ \E off \in Word, len \in Word : PortAccess(off, len) \/ FalAccess(off, len)
             \/ EraseAll \/ SelfTestErase
          /\ UNCHANGED <<portVars, falVars>>

Next == MainPortInit \/ FalInit \/ Access

Spec == Init /\ [][Next]_vars

-----------------------------------------------------------------------------
(* Properties.                                                             *)

\* The driver is never told to touch anything outside the partition, whatever
\* words FlashDB passes (the second half of the QSPI belongs to others).
WithinPartition ==
    touched # <<>> => touched[1] + touched[2] <= AREA_SIZE

\* A range inside a usable partition is never refused by the checks, down to
\* the empty access at its very end.
InsideIsAccepted ==
    call.layer # "none" /\ call.ready /\ call.off + call.len <= AREA_SIZE => call.result # -1

\* A published partition is usable: fal_init cannot succeed on a port whose
\* initialisation stopped half way, nor can a later failing one undo it.
PublishedIsUsable ==
    g_fal_inited => /\ flashdb_area = "open" /\ part_len = AREA_SIZE
                    /\ flashdb_erase_size > 0
=============================================================================
