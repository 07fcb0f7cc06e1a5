---------------------------- MODULE FlashProofs ----------------------------
(***************************************************************************)
(* The flash path, for every partition size, page size and word width, and *)
(* the SFDP report above it, for every chip and every length of the header *)
(* buffer.                                                                 *)
(***************************************************************************)
EXTENDS FlashReport, TLAPS

-----------------------------------------------------------------------------
(* The port and the FAL adapter.                                           *)

\* A published partition has the length of the area; the port below it is open
\* and knows its erase size.
Published ==
    /\ part_len \in Nat
    /\ flashdb_erase_size \in {0, PAGE_SIZE}
    /\ g_fal_inited => /\ flashdb_area = "open" /\ part_len = AREA_SIZE
                       /\ flashdb_erase_size > 0

\* What the checks of the two layers let through and what they refuse.
AccessInv == WithinPartition /\ InsideIsAccepted

-----------------------------------------------------------------------------
\* The range check is exact and does not wrap: it accepts precisely the ranges
\* that lie inside the partition (flashdb_check_range, fal_partition_*).
LEMMA InRangeExact ==
    ASSUME NEW off \in Nat, NEW len \in Nat, NEW size \in Nat
    PROVE  InRange(off, len, size) <=> off + len <= size
BY DEF InRange

\* Every word is a natural, and an offset inside the partition is not negative.
LEMMA Offsets ==
    ASSUME NEW off \in Word
    PROVE  off \in Nat /\ (off <= AREA_SIZE => SignedOf(off) >= 0)
BY PortAssumption DEF Word, SignedOf

LEMMA PublishedInit == Init => Published
BY PortAssumption DEF Init, Published

\* The port never forgets an open area or an erase size it once had.
LEMMA PortInitKeeps ==
    ASSUME NEW ok, PortInit(ok)
    PROVE  /\ flashdb_area = "open" => flashdb_area' = "open"
           /\ flashdb_erase_size' \in {flashdb_erase_size, PAGE_SIZE}
BY PortAssumption DEF PortInit, portVars

LEMMA PublishedNext == Published /\ [Next]_vars => Published'
<1> SUFFICES ASSUME Published, [Next]_vars PROVE Published'
    OBVIOUS
<1>1. CASE MainPortInit
  <2>1. PICK ok \in BOOLEAN : PortInit(ok)
        BY <1>1 DEF MainPortInit
  <2>2. UNCHANGED <<g_fal_inited, part_len>>
        BY <1>1 DEF MainPortInit, falVars
  <2>3. QED BY <2>1, <2>2, PortInitKeeps, PortAssumption DEF Published
<1>2. CASE FalInit
  <2>1. flashdb_erase_size' \in {0, PAGE_SIZE}
    <3>1. CASE UNCHANGED portVars
      BY <3>1 DEF portVars, Published
    <3>2. CASE \E ok \in BOOLEAN : PortInit(ok)
      BY <3>2, PortInitKeeps DEF Published
    <3>3. QED BY <1>2, <3>1, <3>2 DEF FalInit
  <2>2. CASE Geometry(flashdb_area', flashdb_erase_size')
    BY <1>2, <2>1, <2>2, PortAssumption DEF FalInit, Geometry, PortSize, Published
  <2>3. CASE ~Geometry(flashdb_area', flashdb_erase_size')
    BY <1>2, <2>1, <2>3 DEF FalInit, falVars, Published
  <2>4. QED BY <2>2, <2>3
<1>3. CASE Access \/ UNCHANGED vars
  BY <1>3 DEF Access, vars, portVars, falVars, Published
<1>4. QED BY <1>1, <1>2, <1>3 DEF Next

-----------------------------------------------------------------------------
\* An access through the port reaches the driver only inside the partition, and
\* is refused only outside of it.
LEMMA PortAccessInv ==
    ASSUME NEW off \in Nat, NEW len \in Nat, PortAccess(off, len),
           off <= AREA_SIZE => SignedOf(off) >= 0
    PROVE  AccessInv'
<1> DEFINE refused == \/ flashdb_area = "null" \/ SignedOf(off) < 0
                      \/ ~InRange(off, len, AREA_SIZE)
<1>1. CASE refused
  <2>1. /\ touched' = <<>>
        /\ call' = [layer |-> "port", off |-> off, len |-> len,
                    ready |-> flashdb_area = "open", result |-> -1]
        BY <1>1 DEF PortAccess
  <2>2. flashdb_area = "open" => ~(off + len <= AREA_SIZE)
    <3>1. SignedOf(off) \in Int /\ AREA_SIZE \in Nat
          BY PortAssumption DEF SignedOf
    <3>2. InRange(off, len, AREA_SIZE) <=> off + len <= AREA_SIZE
          BY <3>1, InRangeExact
    <3>3. QED BY <1>1, <3>1, <3>2
  <2>3. call'.ready <=> flashdb_area = "open"
        BY <2>1
  <2>4. call'.off = off /\ call'.len = len
        BY <2>1
  <2>5. QED BY <2>1, <2>2, <2>3, <2>4 DEF AccessInv, WithinPartition, InsideIsAccepted
<1>2. CASE ~refused
  <2>1. /\ touched' = <<off, len>>
        /\ \E r \in {-1, 0} :
              call' = [layer |-> "port", off |-> off, len |-> len, ready |-> TRUE,
                       result |-> IF r = 0 THEN len ELSE -2]
        BY <1>2 DEF PortAccess
  <2>2. touched'[1] + touched'[2] <= AREA_SIZE
        BY <1>2, <2>1, InRangeExact, PortAssumption
  <2>3. call'.result # -1
        BY <2>1
  <2>4. QED BY <2>2, <2>3 DEF AccessInv, WithinPartition, InsideIsAccepted
<1>3. QED BY <1>1, <1>2

LEMMA FalAccessInv ==
    ASSUME Published, NEW off \in Nat, NEW len \in Nat, FalAccess(off, len),
           off <= AREA_SIZE => SignedOf(off) >= 0
    PROVE  AccessInv'
<1>1. CASE ~g_fal_inited \/ ~InRange(off, len, part_len)
  <2>1. /\ touched' = <<>>
        /\ call' = [layer |-> "fal", off |-> off, len |-> len,
                    ready |-> g_fal_inited, result |-> -1]
        BY <1>1 DEF FalAccess
  <2>2. g_fal_inited => ~(off + len <= AREA_SIZE)
        BY <1>1, InRangeExact, PortAssumption DEF Published
  <2>3. call'.off = off /\ call'.len = len /\ call'.ready = g_fal_inited
        BY <2>1
  <2>4. QED BY <2>1, <2>2, <2>3 DEF AccessInv, WithinPartition, InsideIsAccepted
<1>2. CASE ~(~g_fal_inited \/ ~InRange(off, len, part_len))
  BY <1>2, PortAccessInv DEF FalAccess
<1>3. QED BY <1>1, <1>2

LEMMA AccessInvInit == Init => AccessInv
BY DEF Init, NoCall, AccessInv, WithinPartition, InsideIsAccepted

LEMMA AccessInvNext == Published /\ AccessInv /\ [Next]_vars => AccessInv'
<1> SUFFICES ASSUME Published, AccessInv, [Next]_vars PROVE AccessInv'
    OBVIOUS
<1>0. 0 \in Word /\ PAGE_SIZE \in Nat
      BY PortAssumption DEF Word
<1>1. CASE Access
  <2>1. ASSUME NEW off \in Word, NEW len \in Word, PortAccess(off, len) \/ FalAccess(off, len)
        PROVE  AccessInv'
        BY <2>1, Offsets, PortAccessInv, FalAccessInv
  <2>2. CASE EraseAll
        BY <1>0, <2>2, Offsets, FalAccessInv DEF EraseAll, Published
  <2>3. CASE SelfTestErase
    <3>1. flashdb_erase_size \in Nat
          BY <1>0 DEF Published
    <3>2. QED BY <1>0, <2>3, <3>1, Offsets, PortAccessInv DEF SelfTestErase
  <2>4. QED BY <1>1, <2>1, <2>2, <2>3 DEF Access
<1>2. CASE MainPortInit \/ FalInit \/ UNCHANGED vars
  BY <1>2 DEF MainPortInit, FalInit, vars, AccessInv, WithinPartition, InsideIsAccepted
<1>3. QED BY <1>1, <1>2 DEF Next

-----------------------------------------------------------------------------
LEMMA PortInitType ==
    ASSUME TypeOK, NEW ok \in BOOLEAN, PortInit(ok)
    PROVE  /\ flashdb_area' \in {"null", "open"}
           /\ flashdb_erase_size' \in {0, PAGE_SIZE} /\ flashdb_write_align' \in {0, 1, 4}
           /\ flashdb_erase_size' # 0 => flashdb_write_align' # 0
<1>1. CASE UNCHANGED portVars
  BY <1>1 DEF portVars, TypeOK
<1>2. CASE flashdb_area' = "open" /\ UNCHANGED <<flashdb_erase_size, flashdb_write_align>>
  BY <1>2 DEF TypeOK
<1>3. CASE /\ flashdb_area' = "open" /\ flashdb_erase_size' = PAGE_SIZE
           /\ \E align \in {0, 1, 4} : flashdb_write_align' = Align(align)
  BY <1>3 DEF Align
<1>4. QED BY <1>1, <1>2, <1>3 DEF PortInit

\* An erase size comes together with a write alignment that is not 0, through
\* every failure of flashdb_port_init: who sees the port usable sees both.
THEOREM PortTypeCorrect == Spec => []TypeOK
<1>1. Init => TypeOK
      BY PortAssumption DEF Init, TypeOK
<1>2. TypeOK /\ [Next]_vars => TypeOK'
  <2> SUFFICES ASSUME TypeOK, [Next]_vars PROVE TypeOK'
      OBVIOUS
  <2>1. CASE MainPortInit
    <3>1. PICK ok \in BOOLEAN : PortInit(ok)
          BY <2>1 DEF MainPortInit
    <3>2. UNCHANGED falVars
          BY <2>1 DEF MainPortInit
    <3>3. QED BY <3>1, <3>2, PortInitType DEF TypeOK, falVars
  <2>2. CASE FalInit
    <3>1. /\ flashdb_area' \in {"null", "open"}
          /\ flashdb_erase_size' \in {0, PAGE_SIZE} /\ flashdb_write_align' \in {0, 1, 4}
          /\ flashdb_erase_size' # 0 => flashdb_write_align' # 0
      <4>1. CASE UNCHANGED portVars
        BY <4>1 DEF portVars, TypeOK
      <4>2. CASE \E ok \in BOOLEAN : PortInit(ok)
        BY <4>2, PortInitType
      <4>3. QED BY <2>2, <4>1, <4>2 DEF FalInit
    <3>2. g_fal_inited' \in BOOLEAN /\ part_len' \in {0, AREA_SIZE}
          BY <2>2 DEF FalInit, Geometry, PortSize, falVars, TypeOK
    <3>3. QED BY <3>1, <3>2 DEF TypeOK
  <2>3. CASE Access \/ UNCHANGED vars
    BY <2>3 DEF Access, vars, portVars, falVars, TypeOK
  <2>4. QED BY <2>1, <2>2, <2>3 DEF Next
<1>3. QED BY <1>1, <1>2, PTL DEF Spec

-----------------------------------------------------------------------------
\* No word FlashDB or main passes makes the driver touch flash outside the
\* partition, in any order of calls and driver failures.
THEOREM DriverStaysInside == Spec => []WithinPartition
<1>1. AccessInv => WithinPartition
      BY DEF AccessInv
<1>2. QED BY <1>1, PublishedInit, PublishedNext, AccessInvInit, AccessInvNext, PTL DEF Spec

\* The checks never refuse a range that lies inside a usable partition.
THEOREM ChecksAreExact == Spec => []InsideIsAccepted
<1>1. AccessInv => InsideIsAccepted
      BY DEF AccessInv
<1>2. QED BY <1>1, PublishedInit, PublishedNext, AccessInvInit, AccessInvNext, PTL DEF Spec

\* A partition that FAL publishes is usable, whatever part of
\* flashdb_port_init failed before or fails later.
THEOREM PublishedPartitionIsUsable == Spec => []PublishedIsUsable
<1>1. Published => PublishedIsUsable
      BY DEF Published, PublishedIsUsable
<1>2. QED BY <1>1, PublishedInit, PublishedNext, PTL DEF Spec

-----------------------------------------------------------------------------
(* The report.                                                             *)

\* The bits of a little endian word above its low 20.
LEMMA HighBits ==
    ASSUME NEW p \in Nat, NEW q \in Nat, NEW r \in Nat, NEW s \in Nat,
           p < 256, q < 256
    PROVE  (p + q * 256 + r * 65536 + s * 16777216) \div 1048576 = (r \div 16) + s * 16
<1> DEFINE low  == p + q * 256 + (r % 16) * 65536
           high == (r \div 16) + s * 16
<1>1. r = 16 * (r \div 16) + (r % 16) /\ r % 16 \in Nat /\ r % 16 < 16 /\ r \div 16 \in Nat
      BY SMT
<1>2. low \in Nat /\ low < 1048576 /\ high \in Nat
      BY SMT, <1>1
<1>3. p + q * 256 + r * 65536 + s * 16777216 = low + high * 1048576
      BY SMT, <1>1
<1>4. (low + high * 1048576) \div 1048576 = high
  <2> HIDE DEF low, high
  <2> QED BY SMT, <1>2
<1>5. QED BY SMT, <1>3, <1>4

\* u32_from_le_bytes, the shift by 20 and the mask 7 come to three bits of the
\* third byte, whatever the bytes.
LEMMA QerIsThirdByte ==
    ASSUME NEW b \in Byte \X Byte \X Byte \X Byte
    PROVE  Qer(b) = (b[3] \div 16) % 8
<1>1. b[1] \in Byte /\ b[2] \in Byte /\ b[3] \in Byte /\ b[4] \in Byte
      OBVIOUS
<1>2. /\ b[1] \in Nat /\ b[2] \in Nat /\ b[3] \in Nat /\ b[4] \in Nat
      /\ b[1] < 256 /\ b[2] < 256
      BY <1>1 DEF Byte
<1>3. U32(b) \div 1048576 = (b[3] \div 16) + b[4] * 16
      BY SMT, <1>2, HighBits DEF U32
<1>4. ASSUME NEW t \in Nat, NEW s \in Nat PROVE (t + s * 16) % 8 = t % 8
      BY SMT
<1>5. b[3] \div 16 \in Nat
      BY SMT, <1>2
<1>6. QED BY SMT, <1>2, <1>3, <1>4, <1>5 DEF Qer

(* The walk.                                                               *)

Header == [id : {"bfp", "other"}, len : Byte, addr : Addr]

\* What the loop has found so far: nothing while no header before the index counts,
\* and else the first that does.
WalkInv ==
    /\ chip.ph \in Seq(Header)
    /\ walk \in [i : Int, addr : Addr \cup {0}, len : Byte]
    /\ walk # NoWalk =>
         /\ report = NoReport
         /\ walk.i \in 0..Len(chip.ph)
         /\ walk.len = 0 => \A k \in Tables : k > walk.i
         /\ walk.len # 0 => \E k \in Tables : /\ IsTable(k)
                                             /\ walk.len = chip.ph[k].len
                                             /\ walk.addr = chip.ph[k].addr

ReportInv == WalkInv /\ ReportIsRight

LEMMA ReportInvInit == ReportInit => ReportInv
BY DEF ReportInit, NoChip, NoWalk, NoReport, ReportInv, WalkInv, ReportIsRight, Byte

\* The loop begins before the first header; a report that ends here has neither of
\* the results that promise something.
LEMMA BeginKeeps == ReportInv /\ SfdpBegin => ReportInv'
<1> SUFFICES ASSUME ReportInv, SfdpBegin PROVE ReportInv'
    OBVIOUS
<1>1. CASE flashdb_area = "null"
  <2>1. UNCHANGED <<chip, walk>> /\ walk = NoWalk /\ report'.kind = "sfdp"
        /\ report'.result = "EACCES"
        BY <1>1 DEF SfdpBegin, Told
  <2>2. QED BY <2>1 DEF ReportInv, WalkInv, ReportIsRight
<1>2. CASE flashdb_area # "null"
  <2>1. PICK c \in Chip :
          /\ chip' = c
          /\ \/ SfdpUnread /\ UNCHANGED walk
             \/ ~c.magic /\ Told("sfdp", "EINVAL", 0) /\ UNCHANGED walk
             \/ c.magic /\ walk' = [i |-> 0, addr |-> 0, len |-> 0] /\ report' = NoReport
        BY <1>2 DEF SfdpBegin
  <2>2. walk = NoWalk /\ chip'.ph \in Seq(Header)
        BY <2>1, ReportAssumption DEF SfdpBegin, Header
  <2>3. CASE SfdpUnread /\ UNCHANGED walk
    BY <2>2, <2>3 DEF SfdpUnread, Told, ReportInv, WalkInv, ReportIsRight
  <2>4. CASE Told("sfdp", "EINVAL", 0) /\ UNCHANGED walk
    BY <2>2, <2>4 DEF Told, ReportInv, WalkInv, ReportIsRight
  <2>5. CASE walk' = [i |-> 0, addr |-> 0, len |-> 0] /\ report' = NoReport
    <3>1. walk'.i = 0 /\ walk'.len = 0 /\ report'.kind = "none"
          BY <2>5 DEF NoReport
    <3>2. \A k \in Tables' : k > 0
          BY DEF Tables
    <3>3. 0 \in 0..Len(chip'.ph)
          BY <2>2
    <3>4. WalkInv'
          BY <2>2, <2>5, <3>1, <3>2, <3>3 DEF WalkInv, Byte
    <3>5. QED BY <3>1, <3>4 DEF ReportInv, ReportIsRight
  <2>6. QED BY <2>1, <2>3, <2>4, <2>5
<1>3. QED BY <1>1, <1>2

\* One iteration of the loop.
LEMMA HeaderKeeps == ReportInv /\ SfdpHeader => ReportInv'
<1> SUFFICES ASSUME ReportInv, SfdpHeader PROVE ReportInv'
    OBVIOUS
<1> DEFINE n == walk.i + 1
           h == chip.ph[n]
<1>1. /\ walk # NoWalk /\ report = NoReport /\ chip.ph \in Seq(Header)
      /\ walk.i \in 0..Len(chip.ph)
      BY DEF SfdpHeader, ReportInv, WalkInv
<1>2. n \in 1..Len(chip.ph) /\ Whole(n - 1) /\ Len(chip.ph) \in Nat
      BY <1>1 DEF SfdpHeader, More
<1>3. h \in Header /\ h.len \in Nat
  <2>1. h \in Header
        BY <1>1, <1>2
  <2>2. QED BY <2>1 DEF Header, Byte
<1>4. UNCHANGED <<chip, report>> /\ Tables' = Tables
      BY DEF SfdpHeader, Tables
<1>5. \A k : IsTable(k)' = IsTable(k)
      BY <1>4 DEF IsTable
<1>6. CASE Taken(h, walk.len)
  <2>1. walk'.i = n /\ walk'.addr = h.addr /\ walk'.len = h.len
        BY <1>6 DEF SfdpHeader
  <2>2. h.id = "bfp" /\ \A k \in Tables : k > walk.i
        BY <1>1, <1>6 DEF Taken, ReportInv, WalkInv
  <2>3. Tables \subseteq 1..Len(chip.ph)
        BY DEF Tables
  <2>4. ASSUME h.len = 0 PROVE \A k \in Tables : k > n
    <3>1. n \notin Tables
          BY <2>4 DEF Tables
    <3>2. QED BY <1>1, <1>2, <2>2, <2>3, <3>1
  <2>5. ASSUME h.len # 0 PROVE IsTable(n)
    <3>1. n \in Tables
          BY <1>2, <2>2, <2>5 DEF Tables
    <3>2. ASSUME NEW j \in Tables PROVE n <= j
          BY <1>1, <1>2, <2>2, <2>3
    <3>3. QED BY <3>1, <3>2 DEF IsTable
  <2>6. h.len # 0 => \E k \in Tables : /\ IsTable(k) /\ h.len = chip.ph[k].len
                                       /\ h.addr = chip.ph[k].addr
        BY <2>5 DEF IsTable
  <2>7. walk' \in [i : Int, addr : Addr \cup {0}, len : Byte]
        BY <1>1, <1>3, <1>6 DEF SfdpHeader, Header
  <2>8. WalkInv'
        BY <1>1, <1>2, <1>4, <1>5, <2>1, <2>4, <2>6, <2>7 DEF WalkInv
  <2>9. QED BY <1>1, <1>4, <2>8 DEF ReportInv, ReportIsRight, NoReport
<1>7. CASE ~Taken(h, walk.len)
  <2>1. walk' = [walk EXCEPT !.i = n]
        BY <1>7 DEF SfdpHeader
  <2>2. walk'.i = n /\ walk'.len = walk.len /\ walk'.addr = walk.addr
        BY <2>1 DEF ReportInv, WalkInv
  <2>3. ASSUME walk.len = 0, NEW k \in Tables PROVE k > n
    <3>1. k > walk.i /\ k \in 1..Len(chip.ph)
          BY <2>3 DEF ReportInv, WalkInv, Tables, SfdpHeader
    <3>2. k # n
          BY <1>7, <2>3 DEF Taken, Tables
    <3>3. QED BY <1>1, <3>1, <3>2
  <2>4. walk' \in [i : Int, addr : Addr \cup {0}, len : Byte]
        BY <1>1, <2>1 DEF ReportInv, WalkInv
  <2>5. WalkInv'
        BY <1>1, <1>2, <1>4, <1>5, <2>2, <2>3, <2>4 DEF ReportInv, WalkInv
  <2>6. QED BY <1>1, <1>4, <2>5 DEF ReportInv, ReportIsRight, NoReport
<1>8. QED BY <1>6, <1>7

\* After the loop: headers that were not read hold no table of Tables.
LEMMA EndKeeps == ReportInv /\ SfdpEnd => ReportInv'
<1> SUFFICES ASSUME ReportInv, SfdpEnd PROVE ReportInv'
    OBVIOUS
<1>1. /\ chip.ph \in Seq(Header) /\ walk.i \in 0..Len(chip.ph) /\ walk.len \in Nat
      /\ walk' = NoWalk /\ chip' = chip
  <2>1. walk # NoWalk /\ walk' = NoWalk /\ chip' = chip
        BY DEF SfdpEnd
  <2>2. walk.len \in Byte
        BY DEF ReportInv, WalkInv
  <2>3. walk.len \in Nat
        BY <2>2 DEF Byte
  <2>4. QED BY <2>1, <2>3 DEF ReportInv, WalkInv
<1>2. WalkInv'
      BY <1>1 DEF WalkInv, NoWalk, Byte
<1>3. /\ Tables' = Tables /\ \A k : IsTable(k)' = IsTable(k)
      BY <1>1 DEF Tables, IsTable
<1>4. ASSUME NEW k \in Tables PROVE k <= walk.i
  <2>1. k \in 1..Len(chip.ph) /\ Whole(k - 1)
        BY DEF Tables
  <2>2. walk.i >= Len(chip.ph) \/ ~Whole(walk.i)
        BY <1>1 DEF SfdpEnd, More
  <2>3. QED BY <1>1, <2>1, <2>2, ReportAssumption DEF Whole
<1>5. CASE walk.len < 15 /\ Told("sfdp", "ENOTSUP", 0)
  <2>1. ASSUME NEW k \in Tables, IsTable(k) PROVE chip.ph[k].len < 15
    <3>1. CASE walk.len = 0
      BY <1>1, <1>4, <3>1 DEF ReportInv, WalkInv, SfdpEnd, Tables
    <3>2. CASE walk.len # 0
      <4>1. PICK j \in Tables : IsTable(j) /\ walk.len = chip.ph[j].len
            BY <3>2 DEF ReportInv, WalkInv, SfdpEnd
      <4>2. j = k
            BY <2>1, <4>1 DEF IsTable, Tables
      <4>3. QED BY <1>5, <4>1, <4>2
    <3>3. QED BY <3>1, <3>2
  <2>2. report'.result = "ENOTSUP"
        BY <1>5 DEF Told
  <2>3. QED BY <1>1, <1>2, <1>3, <2>1, <2>2 DEF ReportInv, ReportIsRight
<1>6. CASE SfdpUnread
  BY <1>2, <1>6 DEF SfdpUnread, Told, ReportInv, ReportIsRight
<1>7. CASE walk.len >= 15 /\ Told("sfdp", "ok", Qer(Dw15At(walk.addr)))
  <2>1. PICK k \in Tables : /\ IsTable(k) /\ walk.len = chip.ph[k].len
                            /\ walk.addr = chip.ph[k].addr
        BY <1>7 DEF ReportInv, WalkInv, SfdpEnd
  <2>2. walk.addr \in Addr
    <3>1. chip.ph[k] \in Header
          BY <1>1, <2>1 DEF Tables
    <3>2. QED BY <2>1, <3>1 DEF Header
  <2>3. Qer(Dw15At(walk.addr)) = (Dw15At(walk.addr)[3] \div 16) % 8
        BY <2>2, QerIsThirdByte, ReportAssumption
  <2>4. report'.result = "ok" /\ report'.qer = (Dw15At(chip.ph[k].addr)[3] \div 16) % 8
        BY <1>7, <2>1, <2>3 DEF Told
  <2>5. QED BY <1>1, <1>2, <1>3, <1>7, <2>1, <2>4 DEF ReportInv, ReportIsRight
<1>8. QED BY <1>5, <1>6, <1>7 DEF SfdpEnd

LEMMA ReportInvNext == ReportInv /\ [ReportNext]_allVars => ReportInv'
<1> SUFFICES ASSUME ReportInv, [ReportNext]_allVars PROVE ReportInv'
    OBVIOUS
<1>1. CASE Jedec
  <2>1. UNCHANGED <<chip, walk>> /\ walk = NoWalk /\ report'.kind = "jedec"
        BY <1>1 DEF Jedec, Told
  <2>2. QED BY <2>1 DEF ReportInv, WalkInv, ReportIsRight
<1>2. CASE walk = NoWalk /\ Next /\ chip' = NoChip /\ walk' = NoWalk /\ report' = NoReport
  BY <1>2 DEF NoChip, NoWalk, NoReport, ReportInv, WalkInv, ReportIsRight, Byte
<1>3. CASE UNCHANGED allVars
  BY <1>3 DEF allVars, repVars, ReportInv, WalkInv, ReportIsRight, Tables, IsTable
<1>4. QED BY <1>1, <1>2, <1>3, BeginKeeps, HeaderKeeps, EndKeeps DEF ReportNext, Report

\* For every chip, with any number and any content of headers, and for any length
\* of the header buffer, the QER that is printed is the one of the right table.
THEOREM QerOfTheRightTable == ReportSpec => []ReportIsRight
<1>1. ReportInv => ReportIsRight
      BY DEF ReportInv
<1>2. QED BY <1>1, ReportInvInit, ReportInvNext, PTL DEF ReportSpec

\* The reports change nothing of the port: what holds of the port alone holds
\* with them.
THEOREM ReportsLeaveThePortAlone == ReportSpec => Spec
<1>1. ReportInit => Init
      BY DEF ReportInit
<1>2. [ReportNext]_allVars => [Next]_vars
      BY DEF ReportNext, Report, Jedec, SfdpBegin, SfdpHeader, SfdpEnd, allVars
<1>3. QED BY <1>1, <1>2, PTL DEF ReportSpec, Spec
=============================================================================
