-------------------------- MODULE QspiServiceProofs --------------------------
(***************************************************************************)
(* Appending to the QSPI window, for every window, buffer and block size.  *)
(***************************************************************************)
EXTENDS QspiService, TLAPS

Entry == [off : Nat, len : Nat, byte : Byte]
Residue == [upto : Nat, byte : Byte]

\* Where failed writes of one byte only may have been (lft), and nothing else.
Only(lft, a, b) == \A e \in lft : a < e.upto => e.byte = b

\* The parts of a flash c, a log l and a residue lft that hold from offset off on:
\* the log lies below the offset and in the flash, outside the window nothing is
\* programmed, and in the window is, from the offset on, nothing but the residue.
LogBelow(l, off)    == l \subseteq Entry /\ \A e \in l : e.off + e.len <= off
Stored(c, l)        == \A e \in l : \A a \in e.off..(e.off + e.len - 1) : c[a] = e.byte
Left(lft)           == lft \subseteq Residue /\ \A e \in lft : e.upto <= QSPI_REGION_SIZE
Outside(c, a)       == c[a] = USED \/ (c[a] = ERASED /\ a < PageSize)
Window(c)           == /\ c \in [Addr -> Byte \cup {ERASED, MIXED, USED}]
                       /\ \A a \in Addr : a >= QSPI_REGION_SIZE => Outside(c, a)
Clean(c, off, lft)  == \A a \in Addr, b \in Byte :
                          off <= a /\ a < QSPI_REGION_SIZE /\ Only(lft, a, b) => c[a] \in {ERASED, b}
Offset(off)         == off \in 0..QSPI_REGION_SIZE /\ off % WriteBlock = 0

QspiInv ==
    /\ ready \in BOOLEAN /\ fresh \in BOOLEAN
    /\ qspi_erase_size \in {0, PageSize}
    /\ Offset(qspi_write_off)
    /\ Window(cell)
    /\ LogBelow(log, qspi_write_off) /\ Stored(cell, log) /\ Left(left)
    /\ fresh => Clean(cell, qspi_write_off, left)

-----------------------------------------------------------------------------
LEMMA MultipleMod ==
    ASSUME NEW d \in Nat \ {0}, NEW k \in Nat
    PROVE  (d * k) % d = 0
<1> DEFINE q == (d * k) \div d
           r == (d * k) % d
<1>1. q \in Int /\ r \in Nat /\ r < d /\ d * k = d * q + r
      BY SMT
<1> HIDE DEF q, r
<1>2. d * (k - q) = r
      BY SMT, <1>1
<1>3. ~(k - q >= 1)
      BY SMT, <1>1, <1>2
<1>4. ~(k - q <= -1)
      BY SMT, <1>1, <1>2
<1>5. k - q = 0
      BY <1>1, <1>3, <1>4
<1>6. r = 0
      BY SMT, <1>2, <1>5
<1>7. QED BY <1>6 DEF r

\* Rounding up to whole blocks never goes past a multiple of the block.
LEMMA RoundUp ==
    ASSUME NEW d \in Nat \ {0}, NEW n \in Nat, NEW m \in Nat, n <= m, m % d = 0
    PROVE  LET p == ((n + d - 1) \div d) * d
           IN  p \in Nat /\ n <= p /\ p <= m /\ p % d = 0
<1> DEFINE q == (n + d - 1) \div d
           r == (n + d - 1) % d
           k == m \div d
<1>1. /\ q \in Nat /\ r \in Nat /\ r < d /\ n + d - 1 = d * q + r
      /\ k \in Nat /\ m = d * k
      BY SMT
<1> HIDE DEF q, r, k
<1>2. q * d \in Nat /\ q * d = d * q
      BY SMT, <1>1
<1>3. n <= q * d
      BY SMT, <1>1, <1>2
<1>4. q <= k
  <2>1. SUFFICES ASSUME q >= k + 1 PROVE FALSE
        BY <1>1
  <2>2. d * q >= d * (k + 1) /\ d * (k + 1) = d * k + d
        BY SMT, <1>1, <2>1
  <2>3. QED BY <1>1, <2>2
<1>5. q * d <= m
      BY SMT, <1>1, <1>4
<1>6. (q * d) % d = 0
      BY <1>1, <1>2, MultipleMod
<1>7. QED BY <1>2, <1>3, <1>5, <1>6 DEF q

\* Padding makes a write longer by less than a block and never longer than the
\* buffer; offsets stay whole blocks.
LEMMA PaddedFits ==
    ASSUME NEW len \in 0..RX_BUF_SIZE
    PROVE  /\ Padded(len) \in Nat /\ len <= Padded(len) /\ Padded(len) <= RX_BUF_SIZE
           /\ Padded(len) % WriteBlock = 0
<1>1. /\ WriteBlock \in Nat \ {0} /\ RX_BUF_SIZE \in Nat /\ RX_BUF_SIZE % WriteBlock = 0
      /\ len \in Nat /\ len <= RX_BUF_SIZE
      BY QspiAssumption
<1>2. CASE len % WriteBlock = 0
      BY <1>1, <1>2 DEF Padded
<1>3. CASE len % WriteBlock # 0
      BY <1>1, <1>3, RoundUp DEF Padded
<1>4. QED BY <1>2, <1>3

LEMMA OffsetsAdd ==
    ASSUME NEW off, Offset(off), NEW p \in Nat, p % WriteBlock = 0, off + p <= QSPI_REGION_SIZE
    PROVE  Offset(off + p)
<1>1. WriteBlock \in Nat \ {0} /\ off \in Nat /\ off % WriteBlock = 0 /\ QSPI_REGION_SIZE \in Nat
      BY QspiAssumption DEF Offset
<1>2. (off + p) % WriteBlock = 0
  <2> DEFINE i == off \div WriteBlock
             j == p \div WriteBlock
  <2>1. i \in Nat /\ j \in Nat /\ off = WriteBlock * i /\ p = WriteBlock * j
        BY SMT, <1>1
  <2> HIDE DEF i, j
  <2>2. off + p = WriteBlock * (i + j) /\ i + j \in Nat
        BY SMT, <1>1, <2>1
  <2>3. (WriteBlock * (i + j)) % WriteBlock = 0
        BY <1>1, <2>2, MultipleMod
  <2>4. QED BY <2>2, <2>3
<1>3. QED BY <1>1, <1>2 DEF Offset

-----------------------------------------------------------------------------
\* Programming n cells from off on, inside the window.
LEMMA ProgramInv ==
    ASSUME NEW c, Window(c), NEW off \in Nat, NEW n \in Nat, NEW b \in Byte,
           off + n <= QSPI_REGION_SIZE
    PROVE  /\ Window(Program(c, off, n, b))
           /\ \A a \in Addr : a < off \/ a >= off + n => Program(c, off, n, b)[a] = c[a]
           /\ \A a \in off..(off + n - 1) :
                 a \in Addr /\ (c[a] \in {ERASED, b} => Program(c, off, n, b)[a] = b)
           /\ \A l : LogBelow(l, off) /\ Stored(c, l) => Stored(Program(c, off, n, b), l)
<1>0. QSPI_REGION_SIZE \in Nat /\ RX_BUF_SIZE \in Nat /\ PageSize \in Nat
      BY QspiAssumption
<1> DEFINE d == Program(c, off, n, b)
<1>1. d \in [Addr -> Byte \cup {ERASED, MIXED, USED}]
      BY DEF Program, Window
<1>2. ASSUME NEW a \in Addr, a < off \/ a >= off + n PROVE d[a] = c[a]
  <2>1. a \notin off..(off + n - 1)
        BY <1>2
  <2>2. QED BY <2>1 DEF Program
<1>3. ASSUME NEW a \in off..(off + n - 1)
      PROVE  a \in Addr /\ (c[a] \in {ERASED, b} => d[a] = b)
  <2>1. a \in Addr
        BY <1>0, <1>3 DEF Addr
  <2>2. QED BY <2>1 DEF Program
<1>4. Window(d)
  <2>1. ASSUME NEW a \in Addr, a >= QSPI_REGION_SIZE PROVE Outside(d, a)
    <3>1. d[a] = c[a]
      <4>1. a >= off + n
            BY <1>0, <2>1 DEF Addr
      <4>2. QED BY <1>2, <4>1
    <3>2. QED BY <2>1, <3>1 DEF Window, Outside
  <2> HIDE DEF d
  <2>2. QED BY <1>1, <2>1 DEF Window
<1>5. ASSUME NEW l, LogBelow(l, off), Stored(c, l), NEW e \in l,
             NEW a \in e.off..(e.off + e.len - 1)
      PROVE  d[a] = e.byte
  <2>1. e.off \in Nat /\ e.len \in Nat /\ e.off + e.len <= off
        BY <1>5 DEF LogBelow, Entry
  <2>2. a \in Addr /\ a < off
        BY <1>0, <1>5, <2>1 DEF Addr
  <2>3. QED BY <1>2, <1>5, <2>2 DEF Stored
<1> HIDE DEF d
<1>6. \A l : LogBelow(l, off) /\ Stored(c, l) => Stored(d, l)
      BY <1>5 DEF Stored
<1>7. QED BY <1>2, <1>3, <1>4, <1>6 DEF d

\* What one driver call at off does to a flash c, of which the log l lies below off:
\* all of it, or an error part of the way through.
LEMMA FlashWriteInv ==
    ASSUME NEW c, NEW l, NEW lft, NEW off, NEW len \in 0..RX_BUF_SIZE, NEW b \in Byte,
           NEW isFresh \in BOOLEAN,
           Window(c), Offset(off), LogBelow(l, off), Stored(c, l), Left(lft),
           isFresh => Clean(c, off, lft), off + Padded(len) <= QSPI_REGION_SIZE,
           FlashWrite(c, off, isFresh, lft, l, len, b)
    PROVE  /\ Offset(qspi_write_off') /\ Window(cell')
           /\ LogBelow(log', qspi_write_off') /\ Stored(cell', log') /\ Left(left')
           /\ fresh' \in BOOLEAN /\ (fresh' => Clean(cell', qspi_write_off', left'))
<1>0. /\ off \in Nat /\ len \in Nat /\ Padded(len) \in Nat /\ len <= Padded(len)
      /\ Padded(len) % WriteBlock = 0 /\ QSPI_REGION_SIZE \in Nat /\ RX_BUF_SIZE \in Nat
      BY PaddedFits, QspiAssumption DEF Offset
<1>1. \A e \in l : e \in Entry /\ e.off \in Nat /\ e.len \in Nat /\ e.off + e.len <= off
      BY DEF LogBelow, Entry
<1>2. \A e \in lft : e \in Residue /\ e.upto \in Nat /\ e.upto <= QSPI_REGION_SIZE
      BY DEF Left, Residue
<1>3. \A a \in Addr : a \in Nat
      BY DEF Addr
<1>4. fresh' = isFresh
      BY DEF FlashWrite
<1>5. CASE /\ cell' = Program(c, off, len, b) /\ qspi_write_off' = off + Padded(len)
           /\ left' = {e \in lft : e.upto > off + Padded(len)}
           /\ log' = IF isFresh /\ Clear(off, lft, b)
                     THEN l \cup {[off |-> off, len |-> len, byte |-> b]} ELSE l
  <2> DEFINE e0 == [off |-> off, len |-> len, byte |-> b]
  <2>0. off + len <= QSPI_REGION_SIZE
        BY <1>0
  <2>1. /\ Window(cell') /\ Stored(cell', l)
        /\ \A a \in Addr : a < off \/ a >= off + len => cell'[a] = c[a]
        /\ \A a \in off..(off + len - 1) : a \in Addr /\ (c[a] \in {ERASED, b} => cell'[a] = b)
        BY <1>0, <1>5, <2>0, ProgramInv
  <2>2. Offset(qspi_write_off')
        BY <1>0, <1>5, OffsetsAdd
  <2>3. Left(left')
        BY <1>2, <1>5 DEF Left
  <2>4. ASSUME isFresh PROVE Clean(cell', qspi_write_off', left')
    <3>1. SUFFICES ASSUME NEW a \in Addr, NEW x \in Byte,
                          off + Padded(len) <= a, a < QSPI_REGION_SIZE, Only(left', a, x)
                   PROVE  cell'[a] \in {ERASED, x}
          BY <1>5 DEF Clean
    <3>2. a >= off + len /\ a >= off
          BY <1>0, <1>3, <3>1
    <3>3. Only(lft, a, x)
      <4>1. SUFFICES ASSUME NEW e \in lft, a < e.upto PROVE e.byte = x
            BY DEF Only
      <4>2. e.upto > off + Padded(len)
            BY <1>0, <1>2, <1>3, <3>1, <4>1
      <4>3. QED BY <1>5, <3>1, <4>1, <4>2 DEF Only
    <3>4. c[a] \in {ERASED, x}
          BY <2>4, <3>1, <3>2, <3>3 DEF Clean
    <3>5. QED BY <2>1, <3>2, <3>4
  <2>5. LogBelow(log', qspi_write_off')
    <3>1. e0 \in Entry /\ e0.off + e0.len <= off + Padded(len)
          BY <1>0 DEF Entry
    <3>2. \A e \in l : e.off + e.len <= off + Padded(len)
          BY <1>0, <1>1
    <3> HIDE DEF e0
    <3>3. log' \subseteq l \cup {e0}
          BY <1>5 DEF e0
    <3>4. QED BY <1>1, <1>5, <3>1, <3>2, <3>3 DEF LogBelow
  <2>6. ASSUME isFresh, Clear(off, lft, b), NEW a \in off..(off + len - 1)
        PROVE  cell'[a] = b
    <3>1. a \in Addr /\ off <= a /\ a < QSPI_REGION_SIZE
          BY <1>0, <2>0, <2>1, <2>6
    <3>2. Only(lft, a, b)
          BY <1>0, <1>2, <1>3, <2>6, <3>1 DEF Only, Clear
    <3>3. c[a] \in {ERASED, b}
          BY <2>6, <3>1, <3>2 DEF Clean
    <3>4. QED BY <2>1, <2>6, <3>3
  <2>7. Stored(cell', log')
    <3>1. CASE isFresh /\ Clear(off, lft, b)
      <4>1. log' = l \cup {e0} /\ e0.off = off /\ e0.len = len /\ e0.byte = b
            BY <1>5, <3>1
      <4>2. \A a \in off..(off + len - 1) : cell'[a] = b
            BY <2>6, <3>1
      <4> HIDE DEF e0
      <4>3. QED BY <2>1, <4>1, <4>2 DEF Stored
    <3>2. CASE ~(isFresh /\ Clear(off, lft, b))
          BY <1>5, <2>1, <3>2
    <3>3. QED BY <3>1, <3>2
  <2>8. QED BY <1>4, <2>1, <2>2, <2>3, <2>4, <2>5, <2>7
<1>6. CASE /\ \E n \in 0..len : cell' = Program(c, off, n, b)
           /\ qspi_write_off' = off /\ log' = l
           /\ left' = lft \cup {[upto |-> off + len, byte |-> b]}
  <2> DEFINE e0 == [upto |-> off + len, byte |-> b]
  <2>1. PICK n \in 0..len : cell' = Program(c, off, n, b)
        BY <1>6
  <2>2. n \in Nat /\ n <= len /\ off + n <= QSPI_REGION_SIZE /\ off + len <= QSPI_REGION_SIZE
        BY <1>0
  <2>3. /\ Window(cell') /\ Stored(cell', l)
        /\ \A a \in Addr : a < off \/ a >= off + n => cell'[a] = c[a]
        /\ \A a \in off..(off + n - 1) : a \in Addr /\ (c[a] \in {ERASED, b} => cell'[a] = b)
        BY <1>0, <2>1, <2>2, ProgramInv
  <2>4. e0 \in Residue /\ e0.upto = off + len /\ e0.byte = b
        BY <1>0 DEF Residue
  <2>5. left' = lft \cup {e0}
        BY <1>6
  <2> HIDE DEF e0
  <2>6. Left(left')
        BY <1>2, <2>2, <2>4, <2>5 DEF Left
  <2>7. ASSUME isFresh PROVE Clean(cell', off, left')
    <3>1. SUFFICES ASSUME NEW a \in Addr, NEW x \in Byte,
                          off <= a, a < QSPI_REGION_SIZE, Only(left', a, x)
                   PROVE  cell'[a] \in {ERASED, x}
          BY DEF Clean
    <3>2. Only(lft, a, x)
          BY <2>5, <3>1 DEF Only
    <3>3. c[a] \in {ERASED, x}
          BY <2>7, <3>1, <3>2 DEF Clean
    <3>4. CASE a >= off + n
          BY <2>3, <3>3, <3>4
    <3>5. CASE ~(a >= off + n)
      <4>1. a \in off..(off + n - 1) /\ a < off + len
            BY <1>0, <1>3, <2>2, <3>1, <3>5
      <4>2. x = b
            BY <2>4, <2>5, <3>1, <4>1 DEF Only
      <4>3. QED BY <2>3, <3>3, <4>1, <4>2
    <3>6. QED BY <3>4, <3>5
  <2>8. QED BY <1>4, <1>6, <2>3, <2>6, <2>7
<1>7. QED BY <1>5, <1>6 DEF FlashWrite

-----------------------------------------------------------------------------
\* Erasing touches the first page only, and keeps clean what was.
LEMMA ErasedInv ==
    ASSUME NEW c, Window(c), qspi_erase_size \in {0, PageSize}
    PROVE  /\ Window(Erased(c))
           /\ \A off, lft : Clean(c, off, lft) => Clean(Erased(c), off, lft)
           /\ Covers => \A off \in Nat : \A lft : Clean(Erased(c), off, lft)
<1>0. /\ QSPI_REGION_SIZE \in Nat /\ PageSize \in Nat /\ qspi_erase_size \in Nat
      /\ \A a \in Addr : a \in Nat
      BY QspiAssumption DEF Addr
<1>1. ASSUME NEW a \in Addr
      PROVE  Erased(c)[a] = IF a < qspi_erase_size THEN ERASED ELSE c[a]
  <2>1. a \in EraseRange <=> a < qspi_erase_size
        BY <1>0 DEF EraseRange
  <2>2. QED BY <2>1 DEF Erased
<1>2. Erased(c) \in [Addr -> Byte \cup {ERASED, MIXED, USED}]
      BY DEF Window, Erased
<1>3. ASSUME NEW a \in Addr, a >= QSPI_REGION_SIZE PROVE Outside(Erased(c), a)
  <2>1. CASE a < qspi_erase_size
        BY <1>0, <1>1, <2>1 DEF Outside
  <2>2. CASE ~(a < qspi_erase_size)
        BY <1>1, <1>3, <2>2 DEF Window, Outside
  <2>3. QED BY <2>1, <2>2
<1>4. Window(Erased(c))
      BY <1>2, <1>3 DEF Window
<1>5. \A off, lft : Clean(c, off, lft) => Clean(Erased(c), off, lft)
      BY <1>1 DEF Clean
<1>6. Covers => \A off \in Nat : \A lft : Clean(Erased(c), off, lft)
  <2>1. SUFFICES ASSUME Covers, NEW off \in Nat, NEW lft, NEW a \in Addr, a < QSPI_REGION_SIZE
                 PROVE  Erased(c)[a] = ERASED
        BY DEF Clean
  <2>2. a < qspi_erase_size
        BY <1>0, <2>1 DEF Covers
  <2>3. QED BY <1>1, <2>2
<1>7. QED BY <1>4, <1>5, <1>6

LEMMA NothingKnown ==
    /\ \A off : LogBelow({}, off)
    /\ \A c : Stored(c, {})
    /\ Left({})
BY DEF LogBelow, Stored, Left

LEMMA QspiInvInit == Init => QspiInv
<1> SUFFICES ASSUME Init PROVE QspiInv
    OBVIOUS
<1>1. Window(cell)
  <2>1. PICK n \in 0..QSPI_REGION_SIZE :
           cell = [a \in Addr |-> IF a \in n..(QSPI_REGION_SIZE - 1) THEN ERASED ELSE USED]
        BY DEF Init
  <2>2. ASSUME NEW a \in Addr, a >= QSPI_REGION_SIZE PROVE Outside(cell, a)
    <3>1. a \notin n..(QSPI_REGION_SIZE - 1)
          BY <2>2, QspiAssumption DEF Addr
    <3>2. QED BY <2>1, <3>1 DEF Outside
  <2>3. QED BY <2>1, <2>2 DEF Window
<1>2. Offset(qspi_write_off)
      BY SMT, QspiAssumption DEF Init, Offset
<1>3. QED BY <1>1, <1>2, NothingKnown DEF Init, QspiInv

LEMMA WriteInv ==
    ASSUME QspiInv, NEW len \in 0..RX_BUF_SIZE, NEW b \in Byte, Write(len, b)
    PROVE  QspiInv'
<1>0. /\ Padded(len) \in Nat /\ Padded(len) <= RX_BUF_SIZE /\ RX_BUF_SIZE <= QSPI_REGION_SIZE
      /\ RX_BUF_SIZE \in Nat /\ QSPI_REGION_SIZE \in Nat /\ qspi_write_off \in Nat
      BY PaddedFits, QspiAssumption DEF QspiInv, Offset
<1>1. UNCHANGED <<ready, qspi_erase_size>>
      BY DEF Write
<1>2. CASE ~Wraps(len)
  <2>1. FlashWrite(cell, qspi_write_off, fresh, left, log, len, b)
        BY <1>2 DEF Write
  <2>2. qspi_write_off + Padded(len) <= QSPI_REGION_SIZE
        BY <1>0, <1>2 DEF Wraps
  <2>3. QED BY <1>1, <2>1, <2>2, FlashWriteInv DEF QspiInv
<1>3. CASE Wraps(len)
  <2>1. Offset(0) /\ 0 + Padded(len) <= QSPI_REGION_SIZE /\ 0 \in Nat
        BY SMT, <1>0, QspiAssumption DEF Offset
  <2>2. Covers \in BOOLEAN /\ (Covers => Clean(Erased(cell), 0, {}))
        BY <2>1, ErasedInv DEF QspiInv, Covers
  <2>3. Window(cell) /\ Window(Erased(cell))
        BY ErasedInv DEF QspiInv
  <2>4. CASE FlashWrite(Erased(cell), 0, Covers, {}, {}, len, b)
    <3> DEFINE c == Erased(cell)
               covers == Covers
    <3>1. Window(c) /\ covers \in BOOLEAN /\ (covers => Clean(c, 0, {}))
          BY <2>2, <2>3
    <3>2. FlashWrite(c, 0, covers, {}, {}, len, b)
          BY <2>4
    <3> HIDE DEF c, covers
    <3>3. QED BY <1>1, <2>1, <3>1, <3>2, NothingKnown, FlashWriteInv DEF QspiInv
  <2>5. ASSUME NEW c \in {cell, Erased(cell)}, FlashWrite(c, 0, FALSE, {}, {}, len, b)
        PROVE  QspiInv'
    <3>1. Window(c)
          BY <2>3
    <3>2. QED BY <1>1, <2>1, <2>5, <3>1, NothingKnown, FlashWriteInv DEF QspiInv
  <2>6. QED BY <1>3, <2>4, <2>5 DEF Write
<1>4. QED BY <1>2, <1>3

LEMMA QspiInvNext == QspiInv /\ [Next]_vars => QspiInv'
<1> SUFFICES ASSUME QspiInv, [Next]_vars PROVE QspiInv'
    OBVIOUS
<1>1. CASE Reset \/ QspiInit
  <2>1. qspi_write_off' = 0 /\ fresh' = FALSE /\ left' = {} /\ log' = {} /\ cell' = cell
        /\ ready' \in BOOLEAN /\ qspi_erase_size' \in {0, PageSize}
        BY <1>1 DEF Reset, QspiInit, Unknown
  <2>2. Offset(0)
        BY SMT, QspiAssumption DEF Offset
  <2>3. QED BY <2>1, <2>2, NothingKnown DEF QspiInv
<1>2. CASE Erase
  <2>1. UNCHANGED <<ready, qspi_erase_size, qspi_write_off>> /\ log' = {}
        BY <1>2 DEF Erase
  <2>2. Window(cell') /\ qspi_write_off \in Nat
        BY <1>2, ErasedInv DEF Erase, QspiInv, Offset
  <2>3. CASE cell' = Erased(cell) /\ Covers /\ fresh' = (fresh \/ Covers) /\ left' = {}
    <3>1. Clean(cell', qspi_write_off, left')
          BY <2>2, <2>3, ErasedInv DEF QspiInv
    <3>2. fresh' \in BOOLEAN
          BY <2>3, Zenon DEF QspiInv
    <3>3. QED BY <2>1, <2>2, <2>3, <3>1, <3>2, NothingKnown DEF QspiInv
  <2>4. CASE cell' \in {cell, Erased(cell)} /\ UNCHANGED left /\ fresh' = fresh
    <3>1. fresh' => Clean(cell', qspi_write_off, left')
          BY <2>4, ErasedInv DEF QspiInv
    <3>2. QED BY <2>1, <2>2, <2>4, <3>1, NothingKnown DEF QspiInv
  <2>5. ~Covers /\ fresh' = (fresh \/ Covers) => fresh' = fresh
        BY Zenon DEF QspiInv
  <2>6. QED BY <1>2, <2>3, <2>4, <2>5 DEF Erase
<1>3. CASE \E len \in 0..RX_BUF_SIZE, b \in Byte : Write(len, b)
      BY <1>3, WriteInv
<1>4. CASE UNCHANGED vars
      BY <1>4 DEF vars, QspiInv
<1>5. QED BY <1>1, <1>2, <1>3, <1>4 DEF Next

THEOREM QspiAlways == Spec => []QspiInv
BY QspiInvInit, QspiInvNext, PTL DEF Spec

\* Offsets stay whole blocks inside the window (the padding and the test for
\* wrapping in qspi_service_write).
THEOREM QspiTypeCorrect == Spec => []TypeOK
<1>1. QspiInv => TypeOK
  <2> SUFFICES ASSUME QspiInv PROVE TypeOK
      OBVIOUS
  <2>1. ASSUME NEW e \in log PROVE e.byte \in Byte /\ e.off + e.len <= QSPI_REGION_SIZE
    <3>1. e \in Entry /\ e.off + e.len <= qspi_write_off
          BY DEF QspiInv, LogBelow
    <3>2. qspi_write_off \in Nat /\ qspi_write_off <= QSPI_REGION_SIZE /\ QSPI_REGION_SIZE \in Nat
          BY QspiAssumption DEF QspiInv, Offset
    <3>3. QED BY <3>1, <3>2 DEF Entry
  <2>2. \A e \in left : e.byte \in Byte /\ e.upto <= QSPI_REGION_SIZE
        BY DEF QspiInv, Left, Residue
  <2>3. QED BY <2>1, <2>2 DEF QspiInv, TypeOK, Window, Offset
<1>2. QED BY <1>1, QspiAlways, PTL

\* What qspi_service_write acknowledged stays readable until it is erased or the
\* offset rewinds, whatever fails in between, and also when it was the retry of a
\* write that had failed; for cells that nothing else was written to.
THEOREM WritesAreStored == Spec => []AcknowledgedIsStored
<1>1. QspiInv => AcknowledgedIsStored
      BY DEF QspiInv, Stored, AcknowledgedIsStored
<1>2. QED BY <1>1, QspiAlways, PTL

\* Outside the window qspi_service_write programs nothing, and nothing is erased but
\* what shares the first page with it, whatever the flash has held.
THEOREM WindowIsKept == Spec => []WindowKept
<1>1. QspiInv => WindowKept
      BY DEF QspiInv, Window, Outside, WindowKept
<1>2. QED BY <1>1, QspiAlways, PTL
=============================================================================
