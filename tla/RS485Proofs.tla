---------------------------- MODULE RS485Proofs ----------------------------
(***************************************************************************)
(* Safety of the RS485 port for every set of frames, every buffer and ring *)
(* size and every number of bytes.                                         *)
(***************************************************************************)
EXTENDS RS485, TLAPS, SequenceTheorems

\* The control state of a transmission: at each point of rs485_write, who
\* drives the bus, what the buffer holds and whether the semaphore is given.
TxInv ==
    /\ up # "run" => wr_pc = "idle"
    /\ wr_pc = "idle" => ~tx_on /\ de = 0 /\ tx_done_sem = 0
    /\ wr_pc = "copied" => ~tx_on /\ de = 0 /\ tx_done_sem = 0 /\ tx_buf = wr_data
    /\ wr_pc = "raised" => ~tx_on /\ de = 1 /\ tx_done_sem = 0 /\ tx_buf = wr_data
    /\ wr_pc = "wait" /\ tx_on =>
          de = 1 /\ tx_done_sem = 0 /\ tx_buf = wr_data
    /\ wr_pc = "wait" /\ ~tx_on => de = 0 /\ tx_done_sem = 1 /\ sent = wr_data
    /\ wr_ret = "ok" => wr_pc = "idle" /\ sent = wr_data

IInv == TypeOK /\ TxInv

-----------------------------------------------------------------------------
\* ring_buf_put never stores more than the ring holds and keeps what is there.
LEMMA RingPutType ==
    ASSUME NEW S, NEW ring \in Seq(S), NEW chunk \in Seq(S), Len(ring) <= RX_RING_SIZE
    PROVE  /\ RingPut(ring, chunk) \in Seq(S)
           /\ Len(RingPut(ring, chunk)) <= RX_RING_SIZE
<1> DEFINE k == Least(Len(chunk), RX_RING_SIZE - Len(ring))
<1>1. k \in Int /\ k <= Len(chunk) /\ k <= RX_RING_SIZE - Len(ring) /\ k >= 0
      BY RS485Assumption, LenProperties DEF Least
<1>2. SubSeq(chunk, 1, k) \in Seq(S) /\ Len(SubSeq(chunk, 1, k)) = k
      BY <1>1, SubSeqProperties
<1>3. /\ ring \o SubSeq(chunk, 1, k) \in Seq(S)
      /\ Len(ring \o SubSeq(chunk, 1, k)) = Len(ring) + k
      BY <1>2, ConcatProperties
<1>4. QED BY <1>1, <1>3, LenProperties, RS485Assumption DEF RingPut

LEMMA FlagsNext == FlagsOK /\ [Next]_vars => FlagsOK'
<1> SUFFICES ASSUME FlagsOK, [Next]_vars PROVE FlagsOK'
    OBVIOUS
<1>1. CASE RS485Init \/ Write
  BY <1>1, Zenon DEF RS485Init, RxEnable, Write, WriteCall, RaiseDE, StartTx, ReleaseBus, AwaitTxDone, TakeTxDone,
                     rxVars, rdVars, FlagsOK
<1>2. CASE Uart
  BY <1>2, Zenon DEF Uart, Arrive, RxTimeout, BufferFull, RxDisabled, RxEnable, TxDone,
                     txVars, rxVars, rdVars, FlagsOK
<1>3. CASE Read \/ Halted \/ UNCHANGED vars
  BY <1>3, Zenon DEF Read, ReadCall, ReadSome, ReadReturn, ReadSleep, DeadlinePasses, Halted,
                     vars, txVars, rxVars, rdVars, FlagsOK
<1>4. QED BY <1>1, <1>2, <1>3 DEF Next

LEMMA TypeInit == Init => TypeOK
<1>1. Init => FlagsOK
      BY Zenon DEF Init, FlagsOK
<1>2. Init => up \in {"boot", "run", "failed"} /\ TxTypeOK /\ RxTypeOK /\ RdTypeOK
      BY RS485Assumption DEF Init, TxTypeOK, RxTypeOK, BuffersOK, DmaOK, RingOK, BusOK, RdTypeOK
<1>3. QED BY <1>1, <1>2 DEF TypeOK

\* Each half of the state is changed by its own actions only.
LEMMA Untouched ==
    /\ TxTypeOK /\ UNCHANGED txVars => TxTypeOK'
    /\ RxTypeOK /\ UNCHANGED rxVars => RxTypeOK'
    /\ RdTypeOK /\ UNCHANGED rdVars => RdTypeOK'
<1>1. TxTypeOK /\ UNCHANGED txVars => TxTypeOK'
      BY DEF txVars, TxTypeOK
<1>2. RxTypeOK /\ UNCHANGED rxVars => RxTypeOK'
      BY DEF rxVars, RxTypeOK, BuffersOK, DmaOK, RingOK, BusOK
<1>3. RdTypeOK /\ UNCHANGED rdVars => RdTypeOK'
      BY DEF rdVars, RdTypeOK
<1>4. QED BY <1>1, <1>2, <1>3

\* uart_rx_enable and the buffer request leave valid indices and an empty buffer.
LEMMA RxEnableType == BuffersOK /\ RxEnable => BuffersOK' /\ DmaOK'
<1> SUFFICES ASSUME BuffersOK, RxEnable PROVE BuffersOK' /\ DmaOK'
    OBVIOUS
<1>1. rx_cur' = 0 /\ rx_nxt' = rx_buf_idx /\ rx_buf_idx' = 1 - rx_buf_idx
      BY DEF RxEnable, BufRequest
<1>2. rx_off' = 0 /\ rx_dma' = <<>>
      BY DEF RxEnable
<1>3. BuffersOK'
      BY <1>1 DEF BuffersOK
<1>4. DmaOK'
      BY <1>2, RS485Assumption DEF DmaOK
<1>5. QED BY <1>3, <1>4

\* Every action keeps the types; what the ring and the DMA buffer hold stays
\* within their capacities.
LEMMA TypeNext == TypeOK /\ [Next]_vars => TypeOK'
<1> DEFINE RestOK == up \in {"boot", "run", "failed"} /\ TxTypeOK /\ RxTypeOK /\ RdTypeOK
<1> SUFFICES ASSUME RestOK, [Next]_vars PROVE RestOK'
    BY FlagsNext DEF TypeOK
<1>0. <<>> \in Seq(Nat) /\ Len(<<>>) = 0
      OBVIOUS
<1>1. CASE RS485Init
  <2>1. up' \in {"boot", "run", "failed"} /\ UNCHANGED rdVars
        BY <1>1 DEF RS485Init
  <2>2. TxTypeOK'
        BY <1>1 DEF RS485Init, TxTypeOK
  <2>3. RxTypeOK'
    <3>1. RxEnable \/ UNCHANGED <<rx_cur, rx_nxt, rx_buf_idx, rx_off, rx_dma>>
          BY <1>1 DEF RS485Init
    <3>2. BuffersOK' /\ DmaOK'
          BY <3>1, RxEnableType DEF RxTypeOK, BuffersOK, DmaOK
    <3>3. RingOK' /\ BusOK'
          BY <1>1 DEF RS485Init, RxTypeOK, RingOK, BusOK
    <3>4. QED BY <3>2, <3>3 DEF RxTypeOK
  <2>4. QED BY <2>1, <2>2, <2>3, Untouched
<1>2. CASE Write
  <2>1. UNCHANGED <<up, rxVars, rdVars>>
        BY <1>2 DEF Write, WriteCall, RaiseDE, StartTx, ReleaseBus, AwaitTxDone, TakeTxDone
  <2>2. TxTypeOK'
        BY <1>2, RS485Assumption DEF Write, WriteCall, RaiseDE, StartTx, ReleaseBus, AwaitTxDone, TakeTxDone, TxTypeOK
  <2>3. QED BY <2>1, <2>2, Untouched
<1>3. CASE TxDone
  <2>1. UNCHANGED <<up, rxVars, rdVars>>
        BY <1>3 DEF TxDone
  <2>2. TxTypeOK'
        BY <1>3 DEF TxDone, ReleaseBus, GiveTxDone, Least, TxTypeOK
  <2>3. QED BY <2>1, <2>2, Untouched
<1>4. CASE Arrive
  <2>1. UNCHANGED <<up, txVars, rdVars>>
        BY <1>4 DEF Arrive
  <2>2. /\ bus + 1 \in Nat
        /\ Append(rx_dma, bus + 1) \in Seq(Nat)
        /\ Len(Append(rx_dma, bus + 1)) = Len(rx_dma) + 1
        BY AppendProperties DEF RxTypeOK, DmaOK, BusOK
  <2>3. Len(out) \in Nat
        BY LenProperties DEF RdTypeOK
  <2>4. DmaOK'
    <3>1. /\ rx_off' = rx_off
          /\ \/ rx_dma' = rx_dma
             \/ rx_dma' = Append(rx_dma, bus + 1) /\ rx_off + Len(rx_dma) < RX_BUF_SIZE
          BY <1>4 DEF Arrive
    <3>2. QED BY <2>2, <3>1, RS485Assumption, LenProperties DEF RxTypeOK, DmaOK
  <2>5. BusOK'
        BY <1>4, <2>3, RS485Assumption DEF Arrive, RxTypeOK, BusOK
  <2>6. BuffersOK' /\ RingOK'
        BY <1>4 DEF Arrive, RxTypeOK, BuffersOK, RingOK
  <2>7. QED BY <2>1, <2>4, <2>5, <2>6, Untouched DEF RxTypeOK
<1>5. CASE RxTimeout
  <2>1. rx_ring' \in Seq(Nat) /\ Len(rx_ring') <= RX_RING_SIZE
        BY <1>5, RingPutType DEF RxTimeout, RxTypeOK, RingOK, DmaOK
  <2>2. RxTypeOK'
        BY <1>0, <1>5, <2>1, RS485Assumption, LenProperties
           DEF RxTimeout, RxTypeOK, BuffersOK, DmaOK, RingOK, BusOK
  <2>3. UNCHANGED <<up, txVars, rdVars>>
        BY <1>5 DEF RxTimeout
  <2>4. QED BY <2>2, <2>3, Untouched
<1>6. CASE BufferFull
  <2>1. rx_ring' \in Seq(Nat) /\ Len(rx_ring') <= RX_RING_SIZE
        BY <1>6, RingPutType DEF BufferFull, RxTypeOK, RingOK, DmaOK
  <2>2. RxTypeOK'
        BY <1>0, <1>6, <2>1, RS485Assumption
           DEF BufferFull, BufRequest, RxTypeOK, BuffersOK, DmaOK, RingOK, BusOK
  <2>3. UNCHANGED <<up, txVars, rdVars>>
        BY <1>6 DEF BufferFull
  <2>4. QED BY <2>2, <2>3, Untouched
<1>7. CASE RxDisabled
  <2>1. PICK k \in 0..Len(rx_dma) : rx_ring' = RingPut(rx_ring, SubSeq(rx_dma, 1, k))
        BY <1>7 DEF RxDisabled
  <2>2. SubSeq(rx_dma, 1, k) \in Seq(Nat)
        BY <2>1, SubSeqProperties DEF RxTypeOK, DmaOK
  <2>3. RingOK'
        BY <2>1, <2>2, RingPutType DEF RxTypeOK, RingOK
  <2>4. RxTypeOK'
    <3>1. \/ RxEnable
          \/ rx_off' = 0 /\ rx_dma' = <<>> /\ UNCHANGED <<rx_cur, rx_nxt, rx_buf_idx>>
          BY <1>7 DEF RxDisabled
    <3>2. BuffersOK' /\ DmaOK'
      <4>1. CASE RxEnable
        BY <4>1, RxEnableType DEF RxTypeOK
      <4>2. CASE rx_off' = 0 /\ rx_dma' = <<>> /\ UNCHANGED <<rx_cur, rx_nxt, rx_buf_idx>>
        <5>1. BuffersOK'
              BY <4>2 DEF RxTypeOK, BuffersOK
        <5>2. DmaOK'
              BY <4>2, RS485Assumption DEF DmaOK
        <5>3. QED BY <5>1, <5>2
      <4>3. QED BY <3>1, <4>1, <4>2
    <3>3. BusOK'
          BY <1>7 DEF RxDisabled, RxTypeOK, BusOK
    <3>4. QED BY <2>3, <3>2, <3>3 DEF RxTypeOK
  <2>5. UNCHANGED <<up, txVars, rdVars>>
        BY <1>7 DEF RxDisabled
  <2>6. QED BY <2>4, <2>5, Untouched
<1>8. CASE Read
  <2>1. UNCHANGED <<up, txVars>>
        BY <1>8 DEF Read, ReadCall, ReadSome, ReadReturn, ReadSleep, DeadlinePasses, vars
  <2>2. CASE ReadSome
    <3> DEFINE k == Least(Len(rx_ring), rd_want - rd_total)
    <3>1. k \in 0..Len(rx_ring) /\ k <= rd_want - rd_total
          BY <2>2, LenProperties DEF ReadSome, Least, RxTypeOK, RingOK, RdTypeOK
    <3>2. /\ SubSeq(rx_ring, 1, k) \in Seq(Nat)
          /\ SubSeq(rx_ring, k + 1, Len(rx_ring)) \in Seq(Nat)
          /\ Len(SubSeq(rx_ring, k + 1, Len(rx_ring))) <= Len(rx_ring)
          BY <3>1, SubSeqProperties, LenProperties DEF RxTypeOK, RingOK
    <3>3. out \o SubSeq(rx_ring, 1, k) \in Seq(Nat)
          BY <3>2, ConcatProperties DEF RdTypeOK
    <3>4. /\ out' = out \o SubSeq(rx_ring, 1, k)
          /\ rx_ring' = SubSeq(rx_ring, k + 1, Len(rx_ring))
          /\ rd_total' = rd_total + k
          BY <2>2 DEF ReadSome
    <3> HIDE DEF k
    <3>5. RxTypeOK'
      <4>1. RingOK'
            BY <3>2, <3>4, LenProperties, RS485Assumption DEF RxTypeOK, RingOK
      <4>2. BuffersOK' /\ DmaOK' /\ BusOK'
            BY <2>2 DEF ReadSome, RxTypeOK, BuffersOK, DmaOK, BusOK
      <4>3. QED BY <4>1, <4>2 DEF RxTypeOK
    <3>6. UNCHANGED <<rd_pc, rd_mode, rd_want>>
          BY <2>2 DEF ReadSome
    <3>7. RdTypeOK'
          BY <3>1, <3>3, <3>4, <3>6 DEF RdTypeOK
    <3>8. QED BY <2>1, <3>5, <3>7, Untouched
  <2>3. CASE \E n \in ReadLen, m \in {"no_wait", "finite", "forever"} : ReadCall(n, m)
    <3>1. UNCHANGED rxVars
          BY <2>3 DEF ReadCall
    <3>2. RdTypeOK'
          BY <2>3, RS485Assumption DEF ReadCall, RdTypeOK
    <3>3. QED BY <2>1, <3>1, <3>2, Untouched
  <2>4. CASE ReadReturn \/ ReadSleep \/ DeadlinePasses
    <3>1. UNCHANGED <<rxVars, rd_mode, rd_want, rd_total, out>> /\ rd_pc' \in {rd_pc, "idle"}
          BY <2>4 DEF ReadReturn, ReadSleep, DeadlinePasses, vars, rdVars
    <3>2. RdTypeOK'
          BY <3>1 DEF RdTypeOK
    <3>3. QED BY <2>1, <3>1, <3>2, Untouched
  <2>5. QED BY <1>8, <2>2, <2>3, <2>4 DEF Read
<1>9. CASE Halted \/ UNCHANGED vars
  <2>1. UNCHANGED <<up, txVars, rxVars, rdVars>>
        BY <1>9 DEF Halted, vars
  <2>2. QED BY <2>1, Untouched
<1>10. QED BY <1>1, <1>2, <1>3, <1>4, <1>5, <1>6, <1>7, <1>8, <1>9 DEF Next, Uart

\* Every reachable state is well typed: in particular rx_ring never holds more
\* than RX_RING_SIZE bytes and the DMA never runs past an rx_buf.
THEOREM TypeCorrect == Spec => []TypeOK
BY TypeInit, TypeNext, PTL DEF Spec

-----------------------------------------------------------------------------
LEMMA TxInvInit == Init => TxInv
BY DEF Init, TxInv

\* Only the writer and the transmit interrupt move the transmission; everything
\* else leaves its variables alone.
LEMMA TxInvNext == TypeOK /\ TxInv /\ [Next]_vars => TxInv'
<1> SUFFICES ASSUME TypeOK, TxInv, [Next]_vars PROVE TxInv'
    OBVIOUS
<1>1. CASE RS485Init
  BY <1>1 DEF RS485Init, TxInv
<1>2. ASSUME NEW f \in Frame, WriteCall(f) PROVE TxInv'
  BY <1>2 DEF WriteCall, TxInv
<1>3. CASE RaiseDE
  BY <1>3 DEF RaiseDE, TxInv
<1>4. CASE StartTx
  BY <1>4 DEF StartTx, ReleaseBus, TxInv
<1>5. CASE AwaitTxDone
  BY <1>5 DEF AwaitTxDone, TakeTxDone, TxInv, TypeOK, TxTypeOK
<1>6. CASE TxDone
  BY <1>6 DEF TxDone, ReleaseBus, GiveTxDone, TxInv, Least, TypeOK, TxTypeOK
<1>7. CASE UNCHANGED <<up, txVars>>
  BY <1>7 DEF txVars, TxInv
<1>8. Arrive \/ RxTimeout \/ BufferFull \/ RxDisabled \/ Read \/ Halted \/ UNCHANGED vars
        => UNCHANGED <<up, txVars>>
  BY DEF Arrive, RxTimeout, BufferFull, RxDisabled, Read, ReadCall, ReadSome, ReadReturn,
         ReadSleep, DeadlinePasses, Halted, vars
<1>9. QED BY <1>1, <1>2, <1>3, <1>4, <1>5, <1>6, <1>7, <1>8 DEF Next, Write, Uart

THEOREM TxInvariant == Spec => [](TypeOK /\ TxInv)
BY TypeInit, TypeNext, TxInvInit, TxInvNext, PTL DEF Spec

\* The bus is driven exactly while the call in progress transmits, whatever
\* the interleaving of rs485_write, uart_cb and the reader (DE handling of
\* rs485_write and uart_cb).
THEOREM BusDriven == Spec => []BusDrivenOnlyWhileSending
<1>1. TypeOK /\ TxInv => BusDrivenOnlyWhileSending
      BY DEF TypeOK, TxTypeOK, TxInv, BusDrivenOnlyWhileSending
<1>2. QED BY <1>1, TxInvariant, PTL

\* A successful rs485_write means that its own frame went out whole.
THEOREM OkIsSent == Spec => []OkMeansSent
<1>1. TypeOK /\ TxInv => OkMeansSent
      BY DEF TypeOK, TxTypeOK, TxInv, OkMeansSent
<1>2. QED BY <1>1, TxInvariant, PTL

\* No step writes tx_buf while the DMA reads it.
THEOREM TxBufferIsStable == Spec => TxBufferStable
<1>1. TypeOK /\ TxInv /\ [Next]_vars => [tx_on => tx_buf' = tx_buf]_vars
  <2> SUFFICES ASSUME TxInv, Next, tx_on PROVE tx_buf' = tx_buf
      BY DEF vars, txVars
  <2>1. wr_pc # "idle"
        BY DEF TxInv
  <2>2. QED BY <2>1 DEF Next, RS485Init, Write, WriteCall, RaiseDE, StartTx, ReleaseBus, AwaitTxDone, TakeTxDone,
              Read, ReadCall, ReadSome, ReadReturn, ReadSleep, DeadlinePasses, Uart, Arrive,
              RxTimeout, BufferFull, RxDisabled, TxDone, Halted, vars, txVars
<1>2. QED BY <1>1, TxInvariant, PTL DEF Spec, TxBufferStable
-----------------------------------------------------------------------------
(* The receive half implements ByteChannel.                                *)

\* Dropping the tail of the second part of a queue drops its newest bytes.
LEMMA KeepPrefix ==
    ASSUME NEW S, NEW s \in Seq(S), NEW t \in Seq(S), NEW k \in 0..Len(t)
    PROVE  s \o SubSeq(t, 1, k) = SubSeq(s \o t, 1, Len(s) + k)
<1>0. Len(s) \in Nat /\ Len(t) \in Nat /\ k \in Nat
      BY LenProperties
<1>1. /\ s \o t \in Seq(S) /\ Len(s \o t) = Len(s) + Len(t)
      /\ \A i \in 1..Len(s) + Len(t) :
            (s \o t)[i] = IF i <= Len(s) THEN s[i] ELSE t[i - Len(s)]
      BY ConcatProperties
<1>2. /\ SubSeq(t, 1, k) \in Seq(S) /\ Len(SubSeq(t, 1, k)) = k
      /\ \A i \in 1..k : SubSeq(t, 1, k)[i] = t[i]
  <2>1. \A i \in 1..k : t[i] \in S
        BY <1>0, ElementOfSeq
  <2>2. QED BY <1>0, <2>1, SubSeqProperties
<1>3. /\ SubSeq(s \o t, 1, Len(s) + k) \in Seq(S)
      /\ Len(SubSeq(s \o t, 1, Len(s) + k)) = Len(s) + k
      /\ \A i \in 1..Len(s) + k : SubSeq(s \o t, 1, Len(s) + k)[i] = (s \o t)[i]
  <2>1. \A i \in 1..Len(s) + k : (s \o t)[i] \in S
        BY <1>0, <1>1, ElementOfSeq
  <2>2. Len(s) + k \in Int
        BY <1>0
  <2>3. QED BY <1>0, <1>1, <2>1, <2>2, SubSeqProperties
<1>4. /\ s \o SubSeq(t, 1, k) \in Seq(S) /\ Len(s \o SubSeq(t, 1, k)) = Len(s) + k
      /\ \A i \in 1..Len(s) + k :
            (s \o SubSeq(t, 1, k))[i] = IF i <= Len(s) THEN s[i] ELSE SubSeq(t, 1, k)[i - Len(s)]
      BY <1>2, ConcatProperties
<1>5. \A i \in 1..Len(s) + k : (s \o SubSeq(t, 1, k))[i] = SubSeq(s \o t, 1, Len(s) + k)[i]
  <2> SUFFICES ASSUME NEW i \in 1..Len(s) + k
               PROVE  (s \o SubSeq(t, 1, k))[i] = SubSeq(s \o t, 1, Len(s) + k)[i]
      OBVIOUS
  <2>1. i \in 1..Len(s) + Len(t)
        BY <1>0
  <2>2. SubSeq(s \o t, 1, Len(s) + k)[i] = IF i <= Len(s) THEN s[i] ELSE t[i - Len(s)]
        BY <1>1, <1>3, <2>1
  <2>3. i > Len(s) => SubSeq(t, 1, k)[i - Len(s)] = t[i - Len(s)]
        BY <1>0, <1>2
  <2>4. QED BY <1>0, <1>4, <2>2, <2>3
<1>6. QED BY <1>3, <1>4, <1>5, SeqEqual

\* Taking the first bytes of the first part takes the oldest bytes of the queue.
LEMMA TakePrefix ==
    ASSUME NEW S, NEW s \in Seq(S), NEW t \in Seq(S), NEW k \in 0..Len(s)
    PROVE  /\ SubSeq(s, k + 1, Len(s)) \o t = SubSeq(s \o t, k + 1, Len(s \o t))
           /\ SubSeq(s, 1, k) = SubSeq(s \o t, 1, k)
<1>0. Len(s) \in Nat /\ Len(t) \in Nat /\ k \in Nat /\ k + 1 \in Int /\ Len(s) + Len(t) \in Int
      BY LenProperties
<1>1. /\ s \o t \in Seq(S) /\ Len(s \o t) = Len(s) + Len(t)
      /\ \A i \in 1..Len(s) + Len(t) :
            (s \o t)[i] = IF i <= Len(s) THEN s[i] ELSE t[i - Len(s)]
      BY ConcatProperties
<1>2. (\A i \in 1..Len(s) : s[i] \in S) /\ (\A i \in 1..Len(s) + Len(t) : (s \o t)[i] \in S)
      BY <1>1, ElementOfSeq
<1>3. SubSeq(s, 1, k) = SubSeq(s \o t, 1, k)
  <2>1. (\A i \in 1..k : s[i] \in S) /\ (\A i \in 1..k : (s \o t)[i] \in S)
        BY <1>0, <1>2
  <2>2. /\ SubSeq(s, 1, k) \in Seq(S) /\ Len(SubSeq(s, 1, k)) = k
        /\ \A i \in 1..k : SubSeq(s, 1, k)[i] = s[i]
        BY <1>0, <2>1, SubSeqProperties
  <2>3. /\ SubSeq(s \o t, 1, k) \in Seq(S) /\ Len(SubSeq(s \o t, 1, k)) = k
        /\ \A i \in 1..k : SubSeq(s \o t, 1, k)[i] = (s \o t)[i]
        BY <1>0, <2>1, SubSeqProperties
  <2>4. \A i \in 1..k : SubSeq(s, 1, k)[i] = SubSeq(s \o t, 1, k)[i]
        BY <1>0, <1>1, <2>2, <2>3
  <2>5. QED BY <2>2, <2>3, <2>4, SeqEqual
<1>4. SubSeq(s, k + 1, Len(s)) \o t = SubSeq(s \o t, k + 1, Len(s \o t))
  <2> DEFINE a == SubSeq(s, k + 1, Len(s))
             b == SubSeq(s \o t, k + 1, Len(s) + Len(t))
             n == Len(s) - k
  <2>1. (\A i \in k+1..Len(s) : s[i] \in S) /\ (\A i \in k+1..Len(s) + Len(t) : (s \o t)[i] \in S)
        BY <1>0, <1>2
  <2>2. a \in Seq(S) /\ Len(a) = n /\ \A i \in 1..n : a[i] = s[k + i]
        BY <1>0, <2>1, SubSeqProperties
  <2>3. b \in Seq(S) /\ Len(b) = n + Len(t) /\ \A i \in 1..n + Len(t) : b[i] = (s \o t)[k + i]
        BY <1>0, <2>1, SubSeqProperties
  <2> HIDE DEF a, b
  <2>4. /\ a \o t \in Seq(S) /\ Len(a \o t) = n + Len(t)
        /\ \A i \in 1..n + Len(t) : (a \o t)[i] = IF i <= n THEN a[i] ELSE t[i - n]
    <3>1. /\ a \o t \in Seq(S) /\ Len(a \o t) = Len(a) + Len(t)
          /\ \A i \in 1..Len(a) + Len(t) :
                (a \o t)[i] = IF i <= Len(a) THEN a[i] ELSE t[i - Len(a)]
          BY <2>2, ConcatProperties
    <3>2. Len(a) = n
          BY <2>2
    <3> HIDE DEF n
    <3>3. QED BY <3>1, <3>2
  <2>5. ASSUME NEW i \in 1..n + Len(t) PROVE (a \o t)[i] = b[i]
    <3>1. k + i \in 1..Len(s) + Len(t)
          BY <1>0
    <3>2. b[i] = IF k + i <= Len(s) THEN s[k + i] ELSE t[k + i - Len(s)]
          BY <1>1, <2>3, <3>1
    <3>3. k + i - Len(s) = i - n
          BY <1>0
    <3>4. CASE i <= n
      <4>1. k + i <= Len(s) /\ i \in 1..n
            BY <1>0, <3>4
      <4>2. b[i] = s[k + i]
            BY <3>2, <4>1
      <4>3. a[i] = s[k + i]
            BY <2>2, <4>1
      <4>4. (a \o t)[i] = a[i]
            BY <2>4, <3>4
      <4> QED BY <4>2, <4>3, <4>4
    <3>5. CASE ~(i <= n)
      <4>1. ~(k + i <= Len(s))
            BY <1>0, <3>5
      <4>2. b[i] = t[i - n]
            BY <3>2, <3>3, <4>1
      <4>3. (a \o t)[i] = t[i - n]
            BY <2>4, <3>5
      <4> QED BY <4>2, <4>3
    <3> QED BY <3>4, <3>5
  <2>6. a \o t = b
        BY <2>3, <2>4, <2>5, SeqEqual
  <2>7. QED BY <1>1, <2>6 DEF a, b
<1>5. QED BY <1>3, <1>4

\* What RX_RDY leaves queued is a prefix of what was queued: ring_buf_put may
\* refuse the newest bytes and nothing else.
LEMMA PutKeepsPrefix ==
    ASSUME NEW S, NEW ring \in Seq(S), NEW chunk \in Seq(S), NEW k \in 0..Len(chunk),
           Len(ring) <= RX_RING_SIZE
    PROVE  \E m \in 0..Len(ring \o chunk) :
              RingPut(ring, SubSeq(chunk, 1, k)) = SubSeq(ring \o chunk, 1, m)
<1> DEFINE j == Least(k, RX_RING_SIZE - Len(ring))
<1>0. Len(ring) \in Nat /\ Len(chunk) \in Nat /\ k \in Nat /\ RX_RING_SIZE \in Nat
      BY LenProperties, RS485Assumption
<1>1. j \in 0..k /\ j \in 0..Len(chunk)
      BY <1>0 DEF Least
<1>2. /\ SubSeq(chunk, 1, k) \in Seq(S) /\ Len(SubSeq(chunk, 1, k)) = k
      /\ \A i \in 1..k : SubSeq(chunk, 1, k)[i] = chunk[i]
  <2>1. \A i \in 1..k : chunk[i] \in S
        BY <1>0, ElementOfSeq
  <2>2. QED BY <1>0, <2>1, SubSeqProperties
<1>3. RingPut(ring, SubSeq(chunk, 1, k)) = ring \o SubSeq(SubSeq(chunk, 1, k), 1, j)
      BY <1>2 DEF RingPut
<1> HIDE DEF j
<1>4. SubSeq(SubSeq(chunk, 1, k), 1, j) = SubSeq(chunk, 1, j)
  <2>1. /\ \A i \in 1..j : chunk[i] \in S
        /\ \A i \in 1..j : SubSeq(chunk, 1, k)[i] \in S
        BY <1>0, <1>1, <1>2, ElementOfSeq
  <2>2. /\ SubSeq(chunk, 1, j) \in Seq(S) /\ Len(SubSeq(chunk, 1, j)) = j
        /\ \A i \in 1..j : SubSeq(chunk, 1, j)[i] = chunk[i]
        BY <1>0, <1>1, <2>1, SubSeqProperties
  <2>3. /\ SubSeq(SubSeq(chunk, 1, k), 1, j) \in Seq(S)
        /\ Len(SubSeq(SubSeq(chunk, 1, k), 1, j)) = j
        /\ \A i \in 1..j : SubSeq(SubSeq(chunk, 1, k), 1, j)[i] = SubSeq(chunk, 1, k)[i]
        BY <1>0, <1>1, <2>1, SubSeqProperties
  <2>4. \A i \in 1..j : SubSeq(SubSeq(chunk, 1, k), 1, j)[i] = SubSeq(chunk, 1, j)[i]
        BY <1>0, <1>1, <1>2, <2>2, <2>3
  <2>5. QED BY <2>2, <2>3, <2>4, SeqEqual
<1>5. ring \o SubSeq(chunk, 1, j) = SubSeq(ring \o chunk, 1, Len(ring) + j)
      BY <1>1, KeepPrefix
<1>6. Len(ring) + j \in 0..Len(ring \o chunk)
      BY <1>0, <1>1, ConcatProperties
<1>7. QED BY <1>3, <1>4, <1>5, <1>6

\* Reports, buffer switches and receiver errors lose only the newest bytes.
LEMMA ReportIsLoseNewest ==
    ASSUME RxTypeOK, rx_dma' = <<>>, UNCHANGED <<bus, out>>,
           NEW k \in 0..Len(rx_dma), rx_ring' = RingPut(rx_ring, SubSeq(rx_dma, 1, k))
    PROVE  Channel!LoseNewest
<1>1. PICK m \in 0..Len(rx_ring \o rx_dma) : rx_ring' = SubSeq(rx_ring \o rx_dma, 1, m)
      BY PutKeepsPrefix DEF RxTypeOK, RingOK, DmaOK
<1>2. rx_ring' \in Seq(Nat)
  <2>1. SubSeq(rx_dma, 1, k) \in Seq(Nat)
        BY SubSeqProperties DEF RxTypeOK, DmaOK
  <2>2. QED BY <2>1, RingPutType DEF RxTypeOK, RingOK
<1>3. (rx_ring \o rx_dma)' = rx_ring'
      BY <1>2, ConcatEmptySeq
<1>4. QED BY <1>1, <1>3 DEF Channel!LoseNewest

\* Every step of the port is a step of the channel or leaves it unchanged.
LEMMA ChannelStep == TypeOK /\ [Next]_vars => [Channel!Next]_(Channel!vars)
<1> SUFFICES ASSUME RxTypeOK, RdTypeOK, [Next]_vars PROVE [Channel!Next]_(Channel!vars)
    BY DEF TypeOK
<1> USE DEF Channel!Next
<1>1. CASE Arrive
  <2>1. UNCHANGED <<out, rx_ring>> /\ bus' = bus + 1 /\ rx_dma' \in {rx_dma, Append(rx_dma, bus + 1)}
        BY <1>1 DEF Arrive, rdVars
  <2>2. rx_ring \o Append(rx_dma, bus + 1) = Append(rx_ring \o rx_dma, bus + 1)
    <3>1. /\ Append(rx_dma, bus + 1) = rx_dma \o <<bus + 1>>
          /\ Append(rx_ring \o rx_dma, bus + 1) = (rx_ring \o rx_dma) \o <<bus + 1>>
          /\ <<bus + 1>> \in Seq(Nat)
          BY AppendIsConcat, ConcatProperties DEF RxTypeOK, RingOK, DmaOK, BusOK
    <3>2. QED BY SMTT(20), <3>1, ConcatAssociative DEF RxTypeOK, RingOK, DmaOK
  <2>3. Channel!Arrive
        BY <2>1, <2>2 DEF Channel!Arrive
  <2>4. QED BY <2>3
<1>2. ASSUME RxTimeout \/ BufferFull \/ RxDisabled PROVE Channel!LoseNewest
  <2>1. rx_dma' = <<>> /\ UNCHANGED <<bus, out>>
        BY <1>2 DEF RxTimeout, BufferFull, RxDisabled, RxEnable, rdVars
  <2>2. Len(rx_dma) \in 0..Len(rx_dma) /\ SubSeq(rx_dma, 1, Len(rx_dma)) = rx_dma
        BY LenProperties, SubSeqFull DEF RxTypeOK, DmaOK
  <2>3. PICK k \in 0..Len(rx_dma) : rx_ring' = RingPut(rx_ring, SubSeq(rx_dma, 1, k))
        BY <1>2, <2>2 DEF RxTimeout, BufferFull, RxDisabled
  <2>4. QED BY <2>1, <2>3, ReportIsLoseNewest
<1>3. ASSUME ReadSome PROVE Channel!Deliver
  <2> DEFINE k == Least(Len(rx_ring), rd_want - rd_total)
  <2>1. k \in 0..Len(rx_ring)
        BY <1>3, LenProperties DEF ReadSome, Least, RxTypeOK, RingOK, RdTypeOK
  <2>2. /\ out' = out \o SubSeq(rx_ring, 1, k) /\ rx_ring' = SubSeq(rx_ring, k + 1, Len(rx_ring))
        /\ UNCHANGED <<rx_dma, bus>>
        BY <1>3 DEF ReadSome
  <2> HIDE DEF k
  <2>3. /\ SubSeq(rx_ring, 1, k) = SubSeq(rx_ring \o rx_dma, 1, k)
        /\ SubSeq(rx_ring, k + 1, Len(rx_ring)) \o rx_dma
              = SubSeq(rx_ring \o rx_dma, k + 1, Len(rx_ring \o rx_dma))
        BY <2>1, TakePrefix DEF RxTypeOK, RingOK, DmaOK
  <2>4. k \in 0..Len(rx_ring \o rx_dma)
        BY <2>1, ConcatProperties, LenProperties DEF RxTypeOK, RingOK, DmaOK
  <2>5. QED BY <2>2, <2>3, <2>4 DEF Channel!Deliver
<1>4. ASSUME UNCHANGED <<bus, rx_ring, rx_dma, out>> PROVE UNCHANGED Channel!vars
      BY <1>4 DEF Channel!vars
<1>5. CASE Write \/ TxDone
      BY <1>4, <1>5 DEF Write, WriteCall, RaiseDE, StartTx, ReleaseBus, AwaitTxDone, TakeTxDone, TxDone, rxVars, rdVars
<1>6. CASE \/ \E n \in ReadLen, m \in {"no_wait", "finite", "forever"} : ReadCall(n, m)
           \/ ReadReturn \/ ReadSleep \/ DeadlinePasses
      BY <1>4, <1>6 DEF ReadCall, ReadReturn, ReadSleep, DeadlinePasses, vars, rxVars, rdVars
<1>7. CASE RS485Init
  <2>1. UNCHANGED <<bus, rx_ring, out>> /\ (rx_dma' = rx_dma \/ rx_dma' = <<>>)
        BY <1>7 DEF RS485Init, RxEnable, rdVars
  <2>2. ASSUME rx_dma' = <<>> PROVE Channel!LoseNewest
    <3>1. SubSeq(rx_dma, 1, 0) = <<>>
          BY SubSeqEmpty
    <3>2. /\ rx_ring \o <<>> = rx_ring
          /\ rx_ring \o SubSeq(rx_dma, 1, 0) = SubSeq(rx_ring \o rx_dma, 1, Len(rx_ring) + 0)
          BY ConcatEmptySeq, KeepPrefix, LenProperties DEF RxTypeOK, RingOK, DmaOK
    <3>3. Len(rx_ring) \in 0..Len(rx_ring \o rx_dma) /\ Len(rx_ring) + 0 = Len(rx_ring)
          BY ConcatProperties, LenProperties DEF RxTypeOK, RingOK, DmaOK
    <3>4. QED BY <2>1, <2>2, <3>1, <3>2, <3>3 DEF Channel!LoseNewest
  <2>3. QED BY <1>4, <2>1, <2>2
<1>8. CASE Halted \/ UNCHANGED vars
      BY <1>4, <1>8 DEF Halted, vars, rxVars, rdVars
<1>9. QED BY <1>1, <1>2, <1>3, <1>5, <1>6, <1>7, <1>8 DEF Next, Uart, Read

\* The port is a FIFO that can lose only its newest bytes, for every ring and
\* buffer size and under every error of the receiver.
THEOREM PortIsFifo == Spec => ReceiveIsFifo
<1>1. Init => Channel!Init
      BY ConcatEmptySeq DEF Init, Channel!Init
<1>2. QED BY <1>1, ChannelStep, TypeCorrect, PTL DEF Spec, ReceiveIsFifo, Channel!Spec

-----------------------------------------------------------------------------
(* Nothing is lost while the reader keeps up.                              *)

Stream == (out \o rx_ring) \o rx_dma

\* peak is a bound on what is outstanding, and before rs485_init there is nothing
\* that starting the receiver could discard.
Accounted ==
    /\ up = "boot" => rx_dma = <<>>
    /\ bus - Len(out) <= peak
    /\ clean /\ peak <= RX_RING_SIZE => Stream = [i \in 1..bus |-> i]

\* ring_buf_put takes all of a chunk that fits.
LEMMA RingPutFits ==
    ASSUME NEW S, NEW ring \in Seq(S), NEW chunk \in Seq(S),
           Len(ring) + Len(chunk) <= RX_RING_SIZE
    PROVE  RingPut(ring, chunk) = ring \o chunk
<1>1. Len(ring) \in Nat /\ Len(chunk) \in Nat
      BY LenProperties
<1>2. Least(Len(chunk), RX_RING_SIZE - Len(ring)) = Len(chunk)
      BY <1>1, RS485Assumption DEF Least
<1>3. SubSeq(chunk, 1, Len(chunk)) = chunk
      BY SubSeqFull
<1>4. QED BY <1>2, <1>3 DEF RingPut

LEMMA StreamIsAssociative ==
    ASSUME NEW s \in Seq(Nat), NEW t \in Seq(Nat), NEW u \in Seq(Nat)
    PROVE  (s \o t) \o u = s \o (t \o u)
BY ConcatAssociative, SMT

\* The bytes on the bus, in order.
LEMMA BusBytes ==
    ASSUME NEW n \in Nat
    PROVE  /\ [i \in 1..n |-> i] \in Seq(Nat) /\ Len([i \in 1..n |-> i]) = n
           /\ Append([i \in 1..n |-> i], n + 1) = [i \in 1..(n + 1) |-> i]
<1>1. [i \in 1..n |-> i] \in Seq(Nat) /\ Len([i \in 1..n |-> i]) = n
      OBVIOUS
<1>2. [i \in 1..(n + 1) |-> i] \in Seq(Nat) /\ Len([i \in 1..(n + 1) |-> i]) = n + 1
      OBVIOUS
<1>3. /\ Append([i \in 1..n |-> i], n + 1) \in Seq(Nat)
      /\ Len(Append([i \in 1..n |-> i], n + 1)) = n + 1
      /\ \A j \in 1..n : Append([i \in 1..n |-> i], n + 1)[j] = j
      /\ Append([i \in 1..n |-> i], n + 1)[n + 1] = n + 1
      BY <1>1, AppendProperties
<1>4. \A j \in 1..(n + 1) : Append([i \in 1..n |-> i], n + 1)[j] = [i \in 1..(n + 1) |-> i][j]
      BY <1>3
<1>5. QED BY <1>1, <1>2, <1>3, <1>4, SeqEqual

\* The lengths behind the backlog.
LEMMA StreamLength ==
    ASSUME TypeOK
    PROVE  /\ out \in Seq(Nat) /\ rx_ring \in Seq(Nat) /\ rx_dma \in Seq(Nat)
           /\ out \o rx_ring \in Seq(Nat) /\ Stream \in Seq(Nat)
           /\ Len(out) \in Nat /\ Len(rx_ring) \in Nat /\ Len(rx_dma) \in Nat
           /\ Len(Stream) = Len(out) + Len(rx_ring) + Len(rx_dma)
           /\ bus \in Nat /\ peak \in Nat
<1>1. out \in Seq(Nat) /\ rx_ring \in Seq(Nat) /\ rx_dma \in Seq(Nat)
      BY DEF TypeOK, RxTypeOK, DmaOK, RingOK, RdTypeOK
<1>2. out \o rx_ring \in Seq(Nat) /\ Len(out \o rx_ring) = Len(out) + Len(rx_ring)
      BY <1>1, ConcatProperties
<1>3. Stream \in Seq(Nat) /\ Len(Stream) = Len(out \o rx_ring) + Len(rx_dma)
      BY <1>1, <1>2, ConcatProperties DEF Stream
<1>4. bus \in Nat /\ peak \in Nat
      BY RS485Assumption DEF TypeOK, RxTypeOK, BusOK
<1>5. QED BY <1>1, <1>2, <1>3, <1>4, LenProperties

\* A report of everything in the DMA buffer moves it to the ring whole.
LEMMA ReportKeepsStream ==
    ASSUME TypeOK, Accounted, rx_ring' = RingPut(rx_ring, rx_dma), rx_dma' = <<>>,
           UNCHANGED <<up, out, bus, peak, clean>>
    PROVE  Accounted'
<1> SUFFICES ASSUME clean, peak <= RX_RING_SIZE
             PROVE  (out \o rx_ring') \o rx_dma' = [i \in 1..bus |-> i]
    BY DEF Accounted, Stream
<1>1. Stream = [i \in 1..bus |-> i] /\ Len(Stream) = bus /\ bus - Len(out) <= peak
      BY StreamLength, BusBytes DEF Accounted
<1>2. Len(rx_ring) + Len(rx_dma) <= RX_RING_SIZE
      BY <1>1, StreamLength, RS485Assumption
<1>3. rx_ring' = rx_ring \o rx_dma
      BY <1>2, StreamLength, RingPutFits
<1>4. rx_ring \o rx_dma \in Seq(Nat) /\ out \o (rx_ring \o rx_dma) \in Seq(Nat)
      BY StreamLength, ConcatProperties
<1>5. (out \o rx_ring') \o rx_dma' = out \o (rx_ring \o rx_dma)
      BY <1>3, <1>4, ConcatEmptySeq
<1>6. out \o (rx_ring \o rx_dma) = Stream
      BY SMTT(20), StreamLength, ConcatAssociative DEF Stream
<1>7. QED BY <1>1, <1>5, <1>6

LEMMA ArriveKeepsStream ==
    ASSUME TypeOK, Accounted, Arrive
    PROVE  Accounted'
<1>1. /\ bus' = bus + 1 /\ UNCHANGED <<up, out, rx_ring>> /\ up = "run"
      /\ peak' = IF bus + 1 - Len(out) > peak THEN bus + 1 - Len(out) ELSE peak
      /\ \/ rx_dma' = Append(rx_dma, bus + 1) /\ clean' = clean
         \/ clean' = FALSE
      BY DEF Arrive, rdVars
<1>2. bus' - Len(out') <= peak' /\ (peak' <= RX_RING_SIZE => peak <= RX_RING_SIZE)
      BY <1>1, StreamLength, RS485Assumption
<1>3. ASSUME clean', peak' <= RX_RING_SIZE
      PROVE  Stream' = [i \in 1..bus' |-> i]
  <2>1. Stream = [i \in 1..bus |-> i] /\ rx_dma' = Append(rx_dma, bus + 1)
        BY <1>1, <1>2, <1>3 DEF Accounted
  <2>2. Stream' = Append(Stream, bus + 1)
    <3>1. bus + 1 \in Nat /\ <<bus + 1>> \in Seq(Nat)
          BY StreamLength
    <3>2. /\ Append(rx_dma, bus + 1) = rx_dma \o <<bus + 1>>
          /\ Append(Stream, bus + 1) = Stream \o <<bus + 1>>
          BY <3>1, StreamLength, AppendIsConcat
    <3>3. Stream' = (out \o rx_ring) \o (rx_dma \o <<bus + 1>>)
          BY <1>1, <2>1, <3>2 DEF Stream
    <3>4. ASSUME NEW u \in Seq(Nat)
          PROVE  ((out \o rx_ring) \o rx_dma) \o u = (out \o rx_ring) \o (rx_dma \o u)
      <4>1. out \o rx_ring \in Seq(Nat) /\ rx_dma \in Seq(Nat)
            BY StreamLength
      <4> DEFINE left == out \o rx_ring
      <4> HIDE DEF left
      <4>2. left \in Seq(Nat) /\ (left \o rx_dma) \o u = left \o (rx_dma \o u)
            BY <4>1, StreamIsAssociative DEF left
      <4>3. QED BY <4>2 DEF left
    <3>5. QED BY <3>1, <3>2, <3>3, <3>4 DEF Stream
  <2>3. QED BY <1>1, <2>1, <2>2, StreamLength, BusBytes
<1>4. QED BY <1>1, <1>2, <1>3 DEF Accounted

\* What a reader takes from the ring it adds to out.
LEMMA ReadKeepsStream ==
    ASSUME TypeOK, Accounted, ReadSome
    PROVE  Accounted'
<1> DEFINE k == Least(Len(rx_ring), rd_want - rd_total)
<1>1. /\ out' = out \o SubSeq(rx_ring, 1, k)
      /\ rx_ring' = SubSeq(rx_ring, k + 1, Len(rx_ring))
      /\ UNCHANGED <<up, rx_dma, bus, peak, clean>>
      BY DEF ReadSome
<1>2. k \in 0..Len(rx_ring)
      BY StreamLength DEF ReadSome, Least, TypeOK, RdTypeOK
<1> HIDE DEF k
<1>3. /\ SubSeq(rx_ring, 1, k) \in Seq(Nat) /\ Len(SubSeq(rx_ring, 1, k)) \in Nat
      /\ SubSeq(rx_ring, k + 1, Len(rx_ring)) \in Seq(Nat)
  <2>1. \A i \in 1..Len(rx_ring) : rx_ring[i] \in Nat
        BY StreamLength, ElementOfSeq
  <2>2. (\A i \in 1..k : rx_ring[i] \in Nat) /\ (\A i \in k + 1..Len(rx_ring) : rx_ring[i] \in Nat)
        BY <1>2, <2>1, StreamLength
  <2>3. k \in Int /\ k + 1 \in Int /\ Len(rx_ring) \in Int
        BY <1>2, StreamLength
  <2>4. QED BY <2>2, <2>3, SubSeqProperties, LenProperties
<1>4. Len(out') = Len(out) + Len(SubSeq(rx_ring, 1, k))
      BY <1>1, <1>3, StreamLength, ConcatProperties
<1>5. SubSeq(rx_ring, 1, k) \o SubSeq(rx_ring, k + 1, Len(rx_ring)) = rx_ring
  <2>1. 1 \in 1..Len(rx_ring) + 1 /\ k \in (1 - 1)..Len(rx_ring) /\ Len(rx_ring) \in k..Len(rx_ring)
        BY <1>2, StreamLength
  <2>2. SubSeq(rx_ring, 1, k) \o SubSeq(rx_ring, k + 1, Len(rx_ring))
           = SubSeq(rx_ring, 1, Len(rx_ring))
        BY <2>1, StreamLength, ConcatAdjacentSubSeq
  <2>3. QED BY <2>2, StreamLength, SubSeqFull
<1>6. out' \o rx_ring' = out \o rx_ring
  <2>1. ASSUME NEW t \in Seq(Nat), NEW u \in Seq(Nat)
        PROVE  (out \o t) \o u = out \o (t \o u)
    <3>1. out \in Seq(Nat)
          BY StreamLength
    <3>2. QED BY <3>1, StreamIsAssociative
  <2>2. QED BY <1>1, <1>3, <1>5, <2>1
<1>7. Stream' = Stream
      BY <1>1, <1>6 DEF Stream
<1>8. bus' - Len(out') <= peak'
      BY SMTT(20), <1>1, <1>3, <1>4, StreamLength DEF Accounted
<1>9. QED BY <1>1, <1>7, <1>8 DEF Accounted

LEMMA AccountedNext == TypeOK /\ Accounted /\ [Next]_vars => Accounted'
<1> SUFFICES ASSUME TypeOK, Accounted, [Next]_vars PROVE Accounted'
    OBVIOUS
<1>1. CASE Arrive
      BY <1>1, ArriveKeepsStream
<1>2. CASE RxTimeout \/ BufferFull
      BY <1>2, ReportKeepsStream DEF RxTimeout, BufferFull, rdVars
<1>3. CASE RxDisabled
  <2>1. clean' = FALSE /\ UNCHANGED <<up, out, bus, peak>> /\ rx_dma' = <<>>
        BY <1>3 DEF RxDisabled, RxEnable, rdVars
  <2>2. QED BY <2>1 DEF Accounted
<1>4. CASE ReadSome
      BY <1>4, ReadKeepsStream
<1>5. CASE RS485Init
  <2>1. rx_dma' = rx_dma /\ UNCHANGED <<out, rx_ring, bus, peak, clean>> /\ rx_dma = <<>>
        BY <1>5 DEF RS485Init, RxEnable, rdVars, Accounted
  <2>2. QED BY <2>1 DEF Accounted, Stream
<1>6. CASE UNCHANGED <<up, rxVars, out>>
      BY <1>6 DEF Accounted, Stream, rxVars
<1>7. ASSUME \/ Write \/ TxDone \/ ReadReturn \/ ReadSleep \/ DeadlinePasses \/ Halted
             \/ UNCHANGED vars
             \/ \E n \in ReadLen, m \in {"no_wait", "finite", "forever"} : ReadCall(n, m)
      PROVE  UNCHANGED <<up, rxVars, out>>
      BY <1>7 DEF Write, WriteCall, RaiseDE, StartTx, ReleaseBus, AwaitTxDone, TakeTxDone, TxDone,
             ReadCall, ReadReturn, ReadSleep, DeadlinePasses, Halted, vars, rdVars
<1>8. QED BY <1>1, <1>2, <1>3, <1>4, <1>5, <1>6, <1>7 DEF Next, Uart, Read

\* A byte is lost only by a backlog of more than the ring holds or by an
\* interruption of the receiver, for any sizes, any number of bytes and any
\* interleaving of uart_cb and rs485_read (the drop in UART_RX_RDY).
THEOREM NothingLostInTime == Spec => []LosslessWhileReaderKeepsUp
<1>1. Init => Accounted
  <2>1. Init => Stream = <<>> /\ Len(out) = 0
        BY ConcatEmptySeq, EmptySeq DEF Init, Stream
  <2>2. [i \in 1..0 |-> i] = <<>>
        OBVIOUS
  <2>3. QED BY <2>1, <2>2, Zenon, SMT DEF Init, Accounted
<1>2. Accounted => LosslessWhileReaderKeepsUp
      BY DEF Accounted, LosslessWhileReaderKeepsUp, Stream
<1>3. QED BY <1>1, <1>2, TypeInit, TypeNext, AccountedNext, PTL DEF Spec
=============================================================================
