------------------------ MODULE ModbusFramingProofs ------------------------
(***************************************************************************)
(* The framing of the receive stream and the heartbeat, for any bursts,    *)
(* buffer sizes and timing; the properties of a timely line and main loop  *)
(* under exact bounds on their times.                                      *)
(***************************************************************************)
EXTENDS ModbusFraming, SequenceTheorems, TLAPS

Byte  == Nat \X Nat
Burst == [good : BOOLEAN, len : Nat \ {0}, clean : BOOLEAN]

\* The types, by what they are about.
ClockType ==
    /\ now \in Nat /\ t_now \in Nat /\ wake \in Nat /\ last_arrival \in Nat
    /\ mb_last_rx_ms \in Nat /\ hb_last_ms \in Nat /\ input_reg0 \in 0..UINT16_MOD - 1
    /\ now <= MaxTime /\ t_now <= now /\ wake <= now + 1 /\ last_arrival <= now
    /\ mb_last_rx_ms <= now /\ hb_last_ms <= t_now
LineType ==
    /\ sent \in Seq(Burst) /\ arrived \in Nat
    /\ sent = <<>> => arrived = 0
    /\ sent # <<>> => arrived <= sent[Len(sent)].len
RingType  == rx_ring \in Seq(Byte) /\ Len(rx_ring) <= RX_RING_SIZE
TmpType   == tmp \in Seq(Byte) /\ Len(tmp) <= MB_POLL_BUF_LEN
FrameType == mb_rx_frame \in Seq(Byte) /\ Len(mb_rx_frame) <= MB_FRAME_MAX_LEN
PlaceType == pc \in {"poll", "gap", "beat", "sleep"} /\ (pc # "poll" => tmp = <<>>)

FramingType == ClockType /\ LineType /\ RingType /\ TmpType /\ FrameType /\ PlaceType

LEMMA Constants ==
    /\ RX_RING_SIZE \in Nat \ {0} /\ MB_FRAME_MAX_LEN \in Nat \ {0}
    /\ MB_POLL_BUF_LEN \in Nat \ {0} /\ HB_PERIOD \in Nat \ {0}
    /\ MB_POLL_BUF_LEN <= MB_FRAME_MAX_LEN
    /\ MB_FRAME_GAP_MS \in Nat /\ CHUNK_GAP \in Nat /\ SILENCE \in Nat /\ STALL \in Nat
    /\ LATE \in Nat /\ MaxBursts \in Nat /\ MaxTime \in Nat
    /\ \A k \in Kind : k.good \in BOOLEAN /\ k.len \in Nat \ {0}
BY FramingAssumption

LEMMA Wrap ==
    /\ UINT16_MOD \in Nat \ {0} /\ 0 \in 0..UINT16_MOD - 1
    /\ \A r \in Nat : r % UINT16_MOD \in 0..UINT16_MOD - 1 /\ r % UINT16_MOD <= r
<1>1. UINT16_MOD \in Nat \ {0}
      BY DEF UINT16_MOD
<1>2. \A m \in Nat \ {0} : \A r \in Nat : r % m \in 0..m - 1 /\ r % m <= r
      OBVIOUS
<1>3. /\ 0 \in 0..UINT16_MOD - 1
      /\ \A r \in Nat : r % UINT16_MOD \in 0..UINT16_MOD - 1 /\ r % UINT16_MOD <= r
  <2>1. ASSUME NEW m \in Nat \ {0} PROVE 0 \in 0..m - 1
        OBVIOUS
  <2>2. QED BY <1>1, <1>2, <2>1
<1>4. QED BY <1>1, <1>3

-----------------------------------------------------------------------------
(* The data.                                                               *)

LEMMA ByteSeqs ==
    ASSUME NEW s \in Seq(Byte), NEW t \in Seq(Byte)
    PROVE  /\ s \o t \in Seq(Byte) /\ Len(s) \in Nat /\ Len(s \o t) = Len(s) + Len(t)
           /\ \A i \in 1..Len(s) : (s \o t)[i] = s[i]
           /\ \A i \in 1..Len(t) : (s \o t)[Len(s) + i] = t[i]
           /\ \A i \in 1..Len(s) : s[i] \in Byte
<1>1. Len(s) \in Nat /\ Len(t) \in Nat /\ \A i \in 1..Len(s) : s[i] \in Byte
      BY LenProperties, ElementOfSeq
<1>2. QED BY <1>1, ConcatProperties

LEMMA NoBytes ==
    /\ <<>> \in Seq(Byte) /\ Len(<<>>) = 0
    /\ \A s \in Seq(Byte) : s # <<>> <=> Len(s) \in Nat \ {0}
BY EmptySeq

LEMMA Association ==
    ASSUME NEW s \in Seq(Byte), NEW t \in Seq(Byte), NEW u \in Seq(Byte)
    PROVE  (s \o t) \o u = s \o (t \o u)
BY ConcatAssociative, SMT

\* A sequence cut in two, as ring_buf_get does.
LEMMA Cut ==
    ASSUME NEW s \in Seq(Byte), NEW n \in 0..Len(s)
    PROVE  /\ SubSeq(s, 1, n) \in Seq(Byte) /\ Len(SubSeq(s, 1, n)) = n
           /\ SubSeq(s, n + 1, Len(s)) \in Seq(Byte) /\ Len(SubSeq(s, n + 1, Len(s))) = Len(s) - n
           /\ SubSeq(s, 1, n) \o SubSeq(s, n + 1, Len(s)) = s
           /\ \A i \in 1..n : SubSeq(s, 1, n)[i] = s[i]
<1>1. Len(s) \in Nat /\ n \in Nat /\ n <= Len(s) /\ \A i \in 1..Len(s) : s[i] \in Byte
      BY LenProperties, ElementOfSeq
<1>2. (\A i \in 1..n : s[i] \in Byte) /\ (\A i \in (n + 1)..Len(s) : s[i] \in Byte)
      BY <1>1
<1>3. SubSeq(s, 1, n) \in Seq(Byte) /\ Len(SubSeq(s, 1, n)) = n
      /\ \A i \in 1..n : SubSeq(s, 1, n)[i] = s[i]
      BY <1>1, <1>2, SubSeqProperties
<1>4. /\ SubSeq(s, n + 1, Len(s)) \in Seq(Byte)
      /\ Len(SubSeq(s, n + 1, Len(s))) = Len(s) - n
      BY <1>1, <1>2, SubSeqProperties
<1>5. SubSeq(s, 1, n) \o SubSeq(s, n + 1, Len(s)) = s
  <2>1. 1 \in 1..(Len(s) + 1) /\ n \in (1 - 1)..Len(s) /\ Len(s) \in n..Len(s)
        BY <1>1
  <2>2. SubSeq(s, 1, n) \o SubSeq(s, n + 1, Len(s)) = SubSeq(s, 1, Len(s))
        BY <2>1, ConcatAdjacentSubSeq
  <2>3. QED BY <2>2, SubSeqFull
<1>6. QED BY <1>3, <1>4, <1>5

LEMMA Bursts ==
    ASSUME LineType, NEW b \in 1..Len(sent)
    PROVE  /\ sent[b] \in Burst /\ sent[b].len \in Nat \ {0} /\ b \in Nat /\ sent # <<>>
           /\ Bytes(b) \in Seq(Byte) /\ Len(Bytes(b)) = sent[b].len
           /\ \A i \in 1..sent[b].len : Bytes(b)[i] = <<b, i>>
<1>1. sent[b] \in Burst /\ b \in Nat /\ sent # <<>>
      BY ElementOfSeq, LenProperties DEF LineType
<1>2. sent[b].len \in Nat \ {0}
      BY <1>1 DEF Burst
<1>3. \A i \in 1..sent[b].len : <<b, i>> \in Byte
      BY <1>1, <1>2 DEF Byte
<1>4. QED BY <1>1, <1>2, <1>3 DEF Bytes

\* The burst on the line is the last one.
LEMMA Busy ==
    ASSUME LineType
    PROVE  /\ Len(sent) \in Nat
           /\ ~LineIdle => Len(sent) \in 1..Len(sent) /\ arrived < sent[Len(sent)].len
           /\ sent # <<>> => Len(sent) \in 1..Len(sent)
<1>1. Len(sent) \in Nat /\ (sent # <<>> => Len(sent) \in 1..Len(sent))
      BY LenProperties, EmptySeq DEF LineType
<1>2. ASSUME ~LineIdle PROVE arrived < sent[Len(sent)].len
      BY <1>1, <1>2, Bursts DEF LineIdle, LineType
<1>3. QED BY <1>1, <1>2 DEF LineIdle

-----------------------------------------------------------------------------
(* Type correctness.                                                       *)

LEMMA FramingTypeInit == Init => FramingType
<1> SUFFICES ASSUME Init PROVE FramingType
    OBVIOUS
<1>1. ClockType /\ PlaceType
      BY Constants, Wrap DEF Init, ClockType, PlaceType
<1>2. LineType
      BY EmptySeq DEF Init, LineType
<1>3. RingType /\ TmpType /\ FrameType
      BY Constants, EmptySeq DEF Init, RingType, TmpType, FrameType
<1>4. QED BY <1>1, <1>2, <1>3 DEF FramingType

\* A chunk of the burst on the line, and what of it fits into the ring.
Chunk(k) == SubSeq(Bytes(Len(sent)), arrived + 1, arrived + k)
Fits(k)  == SubSeq(Chunk(k), 1, Least(k, RX_RING_SIZE - Len(rx_ring)))

LEMMA ChunkFits ==
    ASSUME FramingType, NEW k \in 1..RX_RING_SIZE, Report(k)
    PROVE  /\ rx_ring' = rx_ring \o Fits(k) /\ Fits(k) \in Seq(Byte)
           /\ Len(Fits(k)) = Least(k, RX_RING_SIZE - Len(rx_ring))
           /\ Len(Fits(k)) <= k
           /\ \A i \in 1..Len(Fits(k)) : Fits(k)[i] = <<Len(sent), arrived + i>>
<1>1. /\ Len(sent) \in 1..Len(sent) /\ arrived \in Nat /\ k \in Nat \ {0}
      /\ arrived + k <= sent[Len(sent)].len
  <2>1. Len(sent) \in 1..Len(sent) /\ ~LineIdle
        BY Busy DEF FramingType, Report
  <2>2. sent[Len(sent)].len \in Nat
        BY <2>1, Bursts DEF FramingType
  <2>3. QED BY <2>1, <2>2, Constants DEF FramingType, LineType, Report
<1> DEFINE bytes == Bytes(Len(sent))
           n == Least(k, RX_RING_SIZE - Len(rx_ring))
<1>2. /\ sent[Len(sent)].len \in Nat
      /\ \A i \in 1..sent[Len(sent)].len : bytes[i] = <<Len(sent), i>> /\ bytes[i] \in Byte
      BY <1>1, Bursts, ElementOfSeq DEF FramingType
<1> HIDE DEF bytes
<1>3. \A i \in (arrived + 1)..(arrived + k) : bytes[i] \in Byte
      BY <1>1, <1>2
<1>4. /\ SubSeq(bytes, arrived + 1, arrived + k) \in Seq(Byte)
      /\ Len(SubSeq(bytes, arrived + 1, arrived + k)) = k
      /\ \A i \in 1..k : SubSeq(bytes, arrived + 1, arrived + k)[i] = bytes[arrived + i]
  <2>1. arrived + 1 \in Int /\ arrived + k \in Int /\ arrived + 1 <= arrived + k
        BY <1>1
  <2>2. /\ SubSeq(bytes, arrived + 1, arrived + k) \in Seq(Byte)
        /\ Len(SubSeq(bytes, arrived + 1, arrived + k)) = (arrived + k) - (arrived + 1) + 1
        /\ \A i \in 1..((arrived + k) - (arrived + 1) + 1) :
              SubSeq(bytes, arrived + 1, arrived + k)[i] = bytes[(arrived + 1) + i - 1]
        BY <2>1, <1>3, SubSeqProperties
  <2>3. (arrived + k) - (arrived + 1) + 1 = k /\ \A i \in 1..k : (arrived + 1) + i - 1 = arrived + i
        BY <1>1
  <2>4. QED BY <2>2, <2>3
<1>5. Chunk(k) \in Seq(Byte) /\ Len(Chunk(k)) = k
      /\ \A i \in 1..k : Chunk(k)[i] = <<Len(sent), arrived + i>>
  <2>1. \A i \in 1..k : bytes[arrived + i] = <<Len(sent), arrived + i>>
        BY <1>1, <1>2
  <2>2. QED BY <1>4, <2>1 DEF Chunk, bytes
<1>6. n \in 0..k
      BY <1>1, LenProperties, Constants DEF FramingType, RingType, Least
<1>7. /\ Fits(k) \in Seq(Byte) /\ Len(Fits(k)) = n
      /\ \A i \in 1..n : Fits(k)[i] = Chunk(k)[i]
      BY <1>5, <1>6, Cut DEF Fits
<1>8. rx_ring' = rx_ring \o Fits(k)
      BY DEF Report, Fits, Chunk
<1>9. QED BY SMTT(20), <1>1, <1>5, <1>6, <1>7, <1>8

LEMMA ReportType ==
    ASSUME FramingType, NEW k \in 1..RX_RING_SIZE, Report(k)
    PROVE  FramingType'
<1>1. UNCHANGED <<now, sent, main>> /\ arrived' = arrived + k /\ last_arrival' = now
      BY DEF Report
<1>2. ClockType' /\ TmpType' /\ FrameType' /\ PlaceType'
      BY <1>1 DEF main, FramingType, ClockType, TmpType, FrameType, PlaceType
<1>3. LineType'
  <2>1. /\ sent # <<>> /\ arrived \in Nat /\ k \in Nat
        /\ k <= sent[Len(sent)].len - arrived /\ Len(sent) \in 1..Len(sent)
        BY Constants, Busy DEF Report, LineIdle, FramingType, LineType
  <2>2. sent[Len(sent)].len \in Nat
        BY <2>1, Bursts DEF FramingType
  <2>3. QED BY <1>1, <2>1, <2>2 DEF FramingType, LineType
<1>4. RingType'
  <2>1. /\ rx_ring \in Seq(Byte) /\ Len(rx_ring) \in Nat /\ Len(rx_ring) <= RX_RING_SIZE
        BY LenProperties DEF FramingType, RingType
  <2>2. /\ rx_ring' \in Seq(Byte)
        /\ Len(rx_ring') = Len(rx_ring) + Least(k, RX_RING_SIZE - Len(rx_ring))
        BY <2>1, ChunkFits, ByteSeqs
  <2>3. QED BY <2>1, <2>2, Constants DEF RingType, Least
<1>5. QED BY <1>2, <1>3, <1>4 DEF FramingType

LEMMA NewBurstType ==
    ASSUME FramingType, NEW kind \in Kind, NewBurst(kind)
    PROVE  FramingType'
<1> DEFINE new == [good |-> kind.good, len |-> kind.len,
                   clean |-> mb_rx_frame = <<>> /\ tmp = <<>> /\ rx_ring = <<>>]
<1>1. arrived' = 0 /\ sent' = Append(sent, new)
      BY DEF NewBurst
<1>2. new \in Burst
      BY Constants DEF Burst
<1> HIDE DEF new
<1>3. ClockType' /\ RingType' /\ TmpType' /\ FrameType' /\ PlaceType'
  <2>1. last_arrival' = now /\ now' = now /\ rx_ring' = rx_ring /\ UNCHANGED main
        BY DEF NewBurst
  <2>2. QED BY <2>1 DEF main, FramingType, ClockType, RingType, TmpType, FrameType, PlaceType
<1>4. /\ sent' \in Seq(Burst) /\ Len(sent') = Len(sent) + 1 /\ sent'[Len(sent')] = new
      /\ Len(sent) \in Nat
      BY <1>1, <1>2, AppendProperties, LenProperties DEF FramingType, LineType
<1>5. new.len \in Nat
      BY <1>2 DEF Burst
<1>6. LineType'
      BY <1>1, <1>4, <1>5, EmptySeq DEF LineType
<1>7. QED BY <1>3, <1>6 DEF FramingType

\* What is pending: assembled, read and not yet assembled, in the ring.
Pipe == (mb_rx_frame \o tmp) \o rx_ring

LEMMA Buffers ==
    ASSUME FramingType
    PROVE  /\ mb_rx_frame \in Seq(Byte) /\ tmp \in Seq(Byte) /\ rx_ring \in Seq(Byte)
           /\ mb_rx_frame \o tmp \in Seq(Byte) /\ tmp \o rx_ring \in Seq(Byte)
           /\ Pipe \in Seq(Byte) /\ Pipe = mb_rx_frame \o (tmp \o rx_ring)
           /\ Len(mb_rx_frame) \in Nat /\ Len(tmp) \in Nat /\ Len(rx_ring) \in Nat
           /\ Len(Pipe) = Len(mb_rx_frame) + Len(tmp) + Len(rx_ring)
<1>1. mb_rx_frame \in Seq(Byte) /\ tmp \in Seq(Byte) /\ rx_ring \in Seq(Byte)
      BY DEF FramingType, RingType, TmpType, FrameType
<1>2. /\ mb_rx_frame \o tmp \in Seq(Byte) /\ Len(mb_rx_frame \o tmp) = Len(mb_rx_frame) + Len(tmp)
      /\ tmp \o rx_ring \in Seq(Byte) /\ Len(mb_rx_frame) \in Nat /\ Len(tmp) \in Nat
      /\ Len(rx_ring) \in Nat
      BY <1>1, ByteSeqs
<1>3. Pipe \in Seq(Byte) /\ Len(Pipe) = Len(mb_rx_frame \o tmp) + Len(rx_ring)
      BY <1>1, <1>2, ByteSeqs DEF Pipe
<1>4. Pipe = mb_rx_frame \o (tmp \o rx_ring)
      BY <1>1, Association DEF Pipe
<1>5. QED BY <1>1, <1>2, <1>3, <1>4

\* A read moves bytes from the ring to tmp.
LEMMA ReadMoves ==
    ASSUME FramingType, ReadSome
    PROVE  /\ rx_ring' \in Seq(Byte) /\ tmp' \in Seq(Byte)
           /\ tmp' \o rx_ring' = tmp \o rx_ring /\ Pipe' = Pipe
           /\ Len(rx_ring') <= Len(rx_ring) /\ Len(tmp') <= MB_POLL_BUF_LEN
           /\ tmp' # <<>>
<1> DEFINE n == Least(Len(rx_ring), MB_POLL_BUF_LEN - Len(tmp))
           a == SubSeq(rx_ring, 1, n)
           z == SubSeq(rx_ring, n + 1, Len(rx_ring))
<1>1. /\ tmp' = tmp \o a /\ rx_ring' = z /\ UNCHANGED mb_rx_frame
      /\ rx_ring # <<>> /\ Len(tmp) < MB_POLL_BUF_LEN
      BY DEF ReadSome
<1>2. n \in 1..Len(rx_ring) /\ n <= MB_POLL_BUF_LEN - Len(tmp)
  <2>1. Len(rx_ring) \in Nat \ {0}
        BY <1>1, Buffers, EmptySeq
  <2>2. QED BY <1>1, <2>1, Buffers, Constants DEF Least
<1> HIDE DEF n
<1>3. a \in Seq(Byte) /\ Len(a) = n /\ z \in Seq(Byte) /\ Len(z) = Len(rx_ring) - n /\ a \o z = rx_ring
      BY <1>2, Buffers, Cut
<1> HIDE DEF a, z
<1>4. /\ (tmp \o a) \o z = tmp \o rx_ring
      /\ tmp \o a \in Seq(Byte) /\ Len(tmp \o a) = Len(tmp) + n
  <2>1. tmp \in Seq(Byte)
        BY Buffers
  <2>2. (tmp \o a) \o z = tmp \o (a \o z)
        BY <1>3, <2>1, Association
  <2>3. QED BY <1>3, <2>1, <2>2, ByteSeqs
<1>5. Pipe' = Pipe
  <2>1. Pipe' = (mb_rx_frame \o (tmp \o a)) \o z
        BY <1>1 DEF Pipe
  <2>2. mb_rx_frame \in Seq(Byte) /\ tmp \o a \in Seq(Byte) /\ z \in Seq(Byte)
        BY <1>3, <1>4, Buffers
  <2>3. (mb_rx_frame \o (tmp \o a)) \o z = mb_rx_frame \o ((tmp \o a) \o z)
        BY <2>2, Association
  <2>4. QED BY <2>1, <2>3, <1>4, Buffers
<1>6. tmp \o a # <<>> /\ Len(tmp \o a) <= MB_POLL_BUF_LEN /\ Len(z) <= Len(rx_ring)
  <2>1. Len(tmp) \in Nat /\ Len(rx_ring) \in Nat
        BY Buffers
  <2>2. QED BY <1>2, <1>3, <1>4, <2>1, Constants, NoBytes
<1>7. QED BY <1>1, <1>3, <1>4, <1>5, <1>6

\* A chunk is added to the frame, or starts a new one.
LEMMA PollMoves ==
    ASSUME FramingType, PollChunk
    PROVE  /\ tmp' = <<>> /\ UNCHANGED rx_ring /\ tmp # <<>> /\ mb_rx_frame' # <<>>
           /\ mb_rx_frame' \in Seq(Byte) /\ Len(mb_rx_frame') <= MB_FRAME_MAX_LEN
           /\ Pipe' = Pipe \/ (Pipe' = tmp \o rx_ring /\ Len(mb_rx_frame) + Len(tmp) > MB_FRAME_MAX_LEN)
<1>1. /\ tmp' = <<>> /\ UNCHANGED rx_ring /\ mb_rx_frame' = Assemble(mb_rx_frame, tmp)
      /\ tmp # <<>> /\ Len(tmp) \in Nat \ {0}
      BY Buffers, EmptySeq DEF PollChunk
<1>2. Len(tmp) <= MB_FRAME_MAX_LEN
      BY <1>1, Constants DEF FramingType, TmpType
<1>3. CASE Len(mb_rx_frame) + Len(tmp) > MB_FRAME_MAX_LEN
  <2>1. mb_rx_frame' = tmp
        BY <1>1, <1>3 DEF Assemble
  <2>2. Pipe' = (tmp \o <<>>) \o rx_ring
        BY <1>1, <2>1 DEF Pipe
  <2>3. tmp \o <<>> = tmp
        BY Buffers, ConcatEmptySeq
  <2>4. QED BY <1>1, <1>2, <1>3, <2>1, <2>2, <2>3, Buffers
<1>4. CASE ~(Len(mb_rx_frame) + Len(tmp) > MB_FRAME_MAX_LEN)
  <2>1. mb_rx_frame' = mb_rx_frame \o tmp
        BY <1>1, <1>4 DEF Assemble
  <2>2. Pipe' = ((mb_rx_frame \o tmp) \o <<>>) \o rx_ring
        BY <1>1, <2>1 DEF Pipe
  <2>3. (mb_rx_frame \o tmp) \o <<>> = mb_rx_frame \o tmp
        BY Buffers, ConcatEmptySeq
  <2>4. Len(mb_rx_frame \o tmp) = Len(mb_rx_frame) + Len(tmp)
        BY Buffers, ByteSeqs
  <2>5. mb_rx_frame \o tmp # <<>> /\ Len(mb_rx_frame \o tmp) <= MB_FRAME_MAX_LEN
        BY <1>1, <1>4, <2>4, Buffers, Constants, EmptySeq
  <2>6. QED BY <1>1, <2>1, <2>2, <2>3, <2>5, Buffers DEF Pipe
<1>5. QED BY <1>3, <1>4

LEMMA MainType ==
    ASSUME FramingType, Main \/ ClockTick \/ UNCHANGED vars
    PROVE  FramingType'
<1>1. /\ UNCHANGED <<sent, arrived, last_arrival>>
      /\ LineType'
  <2>1. UNCHANGED <<sent, arrived, last_arrival>>
        BY DEF Main, TickBegin, ReadSome, PollChunk, PollEmpty, GapCheck, Heartbeat, ClockTick,
               vars, line
  <2>2. QED BY <2>1 DEF FramingType, LineType
<1>2. CASE ReadSome
  <2>1. UNCHANGED <<now, pc, t_now, wake, mb_rx_frame, mb_last_rx_ms, hb_last_ms, input_reg0>>
        /\ pc = "poll"
        BY <1>2 DEF ReadSome
  <2>2. ClockType' /\ FrameType' /\ PlaceType'
        BY <1>1, <2>1 DEF FramingType, ClockType, FrameType, PlaceType
  <2>3. RingType' /\ TmpType'
    <3>1. Len(rx_ring') \in Nat
          BY <1>2, ReadMoves, LenProperties
    <3>2. QED BY <1>2, <3>1, ReadMoves, Buffers, Constants DEF FramingType, RingType, TmpType
  <2>4. QED BY <1>1, <2>2, <2>3 DEF FramingType
<1>3. CASE PollChunk
  <2>1. UNCHANGED <<now, pc, t_now, wake, rx_ring, hb_last_ms, input_reg0>> /\ mb_last_rx_ms' = now
        BY <1>3 DEF PollChunk, Restart
  <2>2. ClockType' /\ RingType'
        BY <1>1, <2>1 DEF FramingType, ClockType, RingType
  <2>3. TmpType' /\ FrameType' /\ PlaceType'
    <3>1. FrameType' /\ tmp' = <<>>
          BY <1>3, PollMoves DEF FrameType
    <3>2. Len(tmp') = 0 /\ tmp' \in Seq(Byte)
          BY <3>1, NoBytes
    <3>3. TmpType'
          BY <3>2, Constants DEF TmpType
    <3>4. PlaceType'
          BY <2>1, <3>1 DEF FramingType, PlaceType
    <3>5. QED BY <3>1, <3>3, <3>4
  <2>4. QED BY <1>1, <2>2, <2>3 DEF FramingType
<1>4. CASE Heartbeat
  <2>1. /\ UNCHANGED <<now, rx_ring, t_now, tmp, mb_rx_frame, mb_last_rx_ms>>
        /\ pc = "beat" /\ pc' = "sleep" /\ wake' = now + 1
        BY <1>4 DEF Heartbeat
  <2>2. input_reg0' \in 0..UINT16_MOD - 1 /\ hb_last_ms' \in {hb_last_ms, t_now}
    <3>1. CASE input_reg0' = (input_reg0 + 1) % UINT16_MOD /\ hb_last_ms' = t_now
      <4>1. input_reg0 + 1 \in Nat
            BY Wrap DEF FramingType, ClockType
      <4>2. QED BY <3>1, <4>1, Wrap
    <3>2. CASE UNCHANGED <<input_reg0, hb_last_ms>>
          BY <3>2 DEF FramingType, ClockType
    <3>3. QED BY <1>4, <3>1, <3>2 DEF Heartbeat
  <2>3. ClockType'
        BY <1>1, <2>1, <2>2 DEF FramingType, ClockType
  <2>4. RingType' /\ TmpType' /\ FrameType' /\ PlaceType'
        BY <2>1 DEF FramingType, RingType, TmpType, FrameType, PlaceType
  <2>5. QED BY <1>1, <2>3, <2>4 DEF FramingType
<1>5. CASE GapCheck
  <2>1. /\ UNCHANGED <<now, rx_ring, t_now, wake, tmp, mb_last_rx_ms, hb_last_ms, input_reg0>>
        /\ pc = "gap" /\ pc' = "beat" /\ mb_rx_frame' \in {<<>>, mb_rx_frame}
        BY <1>5 DEF GapCheck, SubmitFrame, ClearFrame
  <2>2. ClockType' /\ RingType' /\ TmpType' /\ PlaceType'
        BY <1>1, <2>1 DEF FramingType, ClockType, RingType, TmpType, PlaceType
  <2>3. FrameType'
    <3>1. CASE mb_rx_frame' = <<>>
      <4>1. Len(mb_rx_frame') = 0 /\ mb_rx_frame' \in Seq(Byte)
            BY <3>1, NoBytes
      <4>2. QED BY <4>1, Constants DEF FrameType
    <3>2. CASE mb_rx_frame' = mb_rx_frame
          BY <3>2 DEF FramingType, FrameType
    <3>3. QED BY <2>1, <3>1, <3>2
  <2>4. QED BY <1>1, <2>2, <2>3 DEF FramingType
<1>6. CASE ClockTick \/ TickBegin \/ PollEmpty \/ UNCHANGED vars
  <2>1. UNCHANGED <<rx_ring, tmp, mb_rx_frame, mb_last_rx_ms, hb_last_ms, input_reg0, wake>>
        BY <1>6 DEF ClockTick, TickBegin, PollEmpty, vars, main
  <2>2. \/ now' = now + 1 /\ now' <= MaxTime /\ t_now' = t_now
        \/ now' = now /\ (t_now' = now \/ t_now' = t_now)
    <3>1. now < MaxTime => now + 1 <= MaxTime
          BY Constants DEF FramingType, ClockType
    <3>2. QED BY <1>6, <3>1 DEF ClockTick, TickBegin, PollEmpty, vars, main
  <2>3. ClockType'
        BY <1>1, <2>1, <2>2 DEF FramingType, ClockType
  <2>4. PlaceType'
        BY <1>6, <2>1 DEF ClockTick, TickBegin, PollEmpty, vars, main, FramingType, PlaceType
  <2>5. RingType' /\ TmpType' /\ FrameType'
        BY <2>1 DEF FramingType, RingType, TmpType, FrameType
  <2>6. QED BY <1>1, <2>3, <2>4, <2>5 DEF FramingType
<1>7. QED BY <1>2, <1>3, <1>4, <1>5, <1>6 DEF Main

LEMMA FramingTypeNext == FramingType /\ [Next]_vars => FramingType'
BY ReportType, NewBurstType, MainType DEF Next, Line, TimeOver

THEOREM FramingAlways == Spec => []FramingType
BY FramingTypeInit, FramingTypeNext, PTL DEF Spec

-----------------------------------------------------------------------------
(* The server sees every frame at most once and in order.                  *)

\* The line carries byte p before byte q.
Before(p, q) == p[1] < q[1] \/ (p[1] = q[1] /\ p[2] < q[2])

\* The line has carried byte p.
OnLine(p) == /\ p[1] \in 1..Len(sent) /\ p[2] <= sent[p[1]].len
             /\ p[1] = Len(sent) => p[2] <= arrived

\* What is pending is in the order of the line, and all of it comes after every
\* burst submitted, of which nothing more will arrive.
PipeInv ==
    /\ \A i \in 1..Len(Pipe) : OnLine(Pipe[i])
    /\ \A i, j \in 1..Len(Pipe) : i < j => Before(Pipe[i], Pipe[j])
SubmittedInv ==
    /\ submitted \in Seq(Nat)
    /\ \A k \in 1..Len(submitted) :
          /\ submitted[k] \in 1..Len(sent)
          /\ submitted[k] = Len(sent) => LineIdle
          /\ \A i \in 1..Len(Pipe) : submitted[k] < Pipe[i][1]
    /\ SubmittedOnceInOrder

OrderInv == PipeInv /\ SubmittedInv

LEMMA OrderInit == Init => OrderInv
<1> SUFFICES ASSUME Init PROVE OrderInv
    OBVIOUS
<1>1. mb_rx_frame = <<>> /\ tmp = <<>> /\ rx_ring = <<>> /\ submitted = <<>>
      BY DEF Init
<1>2. Pipe = <<>>
      BY <1>1, NoBytes, ConcatEmptySeq DEF Pipe
<1>3. Len(Pipe) = 0 /\ Len(submitted) = 0 /\ submitted \in Seq(Nat)
      BY <1>1, <1>2, EmptySeq
<1>4. SubmittedOnceInOrder
      BY <1>1 DEF SubmittedOnceInOrder
<1>5. QED BY <1>3, <1>4 DEF OrderInv, PipeInv, SubmittedInv

\* Taking bytes off the front, or none at all, keeps the order of the rest.
LEMMA FrontTaken ==
    ASSUME FramingType, FramingType', PipeInv, NEW s \in Seq(Byte), Pipe = s \o Pipe',
           UNCHANGED <<sent, arrived>>
    PROVE  /\ PipeInv'
           /\ \A i \in 1..Len(Pipe') : Len(s) + i \in 1..Len(Pipe) /\ Pipe'[i] = Pipe[Len(s) + i]
<1>1. /\ Pipe' \in Seq(Byte) /\ Len(Pipe') \in Nat /\ Len(s) \in Nat
      /\ Len(Pipe) = Len(s) + Len(Pipe')
      /\ \A i \in 1..Len(Pipe') : Pipe'[i] = Pipe[Len(s) + i]
  <2>1. Pipe' \in Seq(Byte)
        BY Buffers
  <2>2. QED BY <2>1, ByteSeqs
<1>2. \A i \in 1..Len(Pipe') : Len(s) + i \in 1..Len(Pipe)
      BY <1>1
<1>3. \A i \in 1..Len(Pipe') : OnLine(Pipe[i])'
  <2>1. ASSUME NEW i \in 1..Len(Pipe') PROVE OnLine(Pipe[Len(s) + i])
        BY <1>2 DEF PipeInv
  <2>2. QED BY <1>1, <2>1 DEF OnLine
<1>4. \A i, j \in 1..Len(Pipe') : i < j => Before(Pipe'[i], Pipe'[j])
  <2>1. ASSUME NEW i \in 1..Len(Pipe'), NEW j \in 1..Len(Pipe'), i < j
        PROVE  Before(Pipe[Len(s) + i], Pipe[Len(s) + j])
    <3>1. Len(s) + i < Len(s) + j
          BY <1>1, <2>1
    <3>2. QED BY <1>2, <3>1 DEF PipeInv
  <2>2. QED BY <1>1, <2>1
<1>5. QED BY <1>1, <1>2, <1>3, <1>4 DEF PipeInv, Before

LEMMA FrontTakenOrder ==
    ASSUME FramingType, FramingType', OrderInv, NEW s \in Seq(Byte), Pipe = s \o Pipe',
           UNCHANGED <<sent, arrived, submitted>>
    PROVE  OrderInv'
<1>1. /\ PipeInv'
      /\ \A i \in 1..Len(Pipe') : Len(s) + i \in 1..Len(Pipe) /\ Pipe'[i] = Pipe[Len(s) + i]
      BY FrontTaken DEF OrderInv
<1>2. \A k \in 1..Len(submitted) : \A i \in 1..Len(Pipe') : submitted[k] < Pipe'[i][1]
      BY <1>1 DEF OrderInv, SubmittedInv
<1>3. SubmittedInv'
      BY <1>2 DEF OrderInv, SubmittedInv, SubmittedOnceInOrder, LineIdle
<1>4. QED BY <1>1, <1>3 DEF OrderInv

LEMMA ReportOrder ==
    ASSUME FramingType, FramingType', OrderInv, NEW k \in 1..RX_RING_SIZE, Report(k)
    PROVE  OrderInv'
<1> DEFINE new == Fits(k)
           n == Len(sent)
<1>1. /\ UNCHANGED <<sent, mb_rx_frame, tmp, submitted>>
      /\ arrived' = arrived + k /\ ~LineIdle
      BY DEF Report, main
<1>2. /\ rx_ring' = rx_ring \o new /\ new \in Seq(Byte) /\ Len(new) \in Nat /\ Len(new) <= k
      /\ \A i \in 1..Len(new) : new[i] = <<n, arrived + i>>
      BY ChunkFits, LenProperties
<1> HIDE DEF new
<1>3. Pipe' = Pipe \o new
  <2>1. Pipe' = (mb_rx_frame \o tmp) \o (rx_ring \o new)
        BY <1>1, <1>2 DEF Pipe
  <2>2. mb_rx_frame \o tmp \in Seq(Byte) /\ rx_ring \in Seq(Byte)
        BY Buffers
  <2>3. QED BY <1>2, <2>1, <2>2, Association DEF Pipe
<1>4. /\ Len(Pipe) \in Nat /\ Len(Pipe') = Len(Pipe) + Len(new)
      /\ \A i \in 1..Len(Pipe) : Pipe'[i] = Pipe[i]
      /\ \A i \in 1..Len(new) : Pipe'[Len(Pipe) + i] = <<n, arrived + i>>
  <2>1. Pipe \in Seq(Byte)
        BY Buffers
  <2>2. QED BY <1>2, <1>3, <2>1, ByteSeqs
<1>5. /\ n \in 1..n /\ n \in Nat /\ arrived \in Nat /\ k \in Nat
      /\ sent[n].len \in Nat /\ arrived + k <= sent[n].len
  <2>1. n \in 1..n /\ n \in Nat
        BY <1>1, Busy DEF FramingType
  <2>2. sent[n].len \in Nat
        BY <2>1, Bursts DEF FramingType
  <2>3. QED BY <2>1, <2>2, Constants DEF FramingType, LineType, Report
<1> HIDE DEF n
<1>6. ASSUME NEW i \in 1..Len(Pipe')
      PROVE  \/ i \in 1..Len(Pipe)
             \/ \E m \in 1..Len(new) : i = Len(Pipe) + m /\ Pipe'[i] = <<n, arrived + m>>
  <2>1. i \notin 1..Len(Pipe) => i - Len(Pipe) \in 1..Len(new) /\ i = Len(Pipe) + (i - Len(Pipe))
        BY <1>2, <1>4
  <2>2. QED BY <1>4, <2>1
<1>7. \A i \in 1..Len(Pipe) : /\ OnLine(Pipe[i]) /\ Pipe[i][1] <= n /\ Pipe[i][1] \in Nat
                              /\ Pipe[i][1] = n => Pipe[i][2] <= arrived
      BY <1>5 DEF OrderInv, PipeInv, OnLine, n
<1>8. \A i \in 1..Len(Pipe') : OnLine(Pipe[i])'
  <2> SUFFICES ASSUME NEW i \in 1..Len(Pipe') PROVE OnLine(Pipe[i])'
      OBVIOUS
  <2>1. CASE i \in 1..Len(Pipe)
    <3>1. Pipe[i] \in Byte
          BY <2>1, Buffers, ElementOfSeq
    <3>2. QED BY <1>1, <1>4, <1>5, <1>7, <2>1, <3>1 DEF OnLine, n, Byte
  <2>2. CASE \E m \in 1..Len(new) : i = Len(Pipe) + m /\ Pipe'[i] = <<n, arrived + m>>
    <3>1. PICK m \in 1..Len(new) : Pipe'[i] = <<n, arrived + m>>
          BY <2>2
    <3>2. arrived + m <= arrived + k /\ arrived + m <= sent[n].len
          BY <1>2, <1>5
    <3>3. QED BY <1>1, <1>5, <3>1, <3>2 DEF OnLine, n
  <2>3. QED BY <1>6, <2>1, <2>2
<1>9. \A i, j \in 1..Len(Pipe') : i < j => Before(Pipe'[i], Pipe'[j])
  <2> SUFFICES ASSUME NEW i \in 1..Len(Pipe'), NEW j \in 1..Len(Pipe'), i < j
               PROVE  Before(Pipe'[i], Pipe'[j])
      OBVIOUS
  <2>1. CASE j \in 1..Len(Pipe)
    <3>1. i \in 1..Len(Pipe)
          BY <2>1, <1>4
    <3>2. QED BY <1>4, <2>1, <3>1 DEF OrderInv, PipeInv
  <2>2. CASE i \in 1..Len(Pipe) /\ j \notin 1..Len(Pipe)
    <3>1. PICK m \in 1..Len(new) : Pipe'[j] = <<n, arrived + m>>
          BY <1>6, <2>2
    <3>2. Pipe[i] \in Byte
          BY <2>2, Buffers, ElementOfSeq
    <3>3. Pipe[i][1] \in Nat /\ Pipe[i][2] \in Nat
          BY <3>2 DEF Byte
    <3>4. m \in Nat /\ m >= 1
          BY <1>2
    <3>5. Pipe[i][1] <= n /\ (Pipe[i][1] = n => Pipe[i][2] <= arrived)
          BY <1>7, <2>2
    <3>6. Pipe[i][1] < n \/ (Pipe[i][1] = n /\ Pipe[i][2] < arrived + m)
          BY <1>5, <3>3, <3>4, <3>5
    <3>7. QED BY <1>4, <2>2, <3>1, <3>6 DEF Before
  <2>3. CASE i \notin 1..Len(Pipe) /\ j \notin 1..Len(Pipe)
    <3>1. PICK m \in 1..Len(new) : i = Len(Pipe) + m /\ Pipe'[i] = <<n, arrived + m>>
          BY <1>6, <2>3
    <3>2. PICK l \in 1..Len(new) : j = Len(Pipe) + l /\ Pipe'[j] = <<n, arrived + l>>
          BY <1>6, <2>3
    <3>3. arrived + m < arrived + l
          BY <1>2, <1>4, <1>5, <3>1, <3>2
    <3>4. QED BY <3>1, <3>2, <3>3 DEF Before
  <2>4. QED BY <2>1, <2>2, <2>3, <1>4
<1>10. SubmittedInv'
  <2>1. ASSUME NEW h \in 1..Len(submitted)
        PROVE  /\ submitted[h] \in 1..n /\ submitted[h] # n
               /\ \A i \in 1..Len(Pipe') : submitted[h] < Pipe'[i][1]
    <3>1. submitted[h] \in 1..n /\ submitted[h] # n
          BY <1>1 DEF OrderInv, SubmittedInv, n
    <3>2. ASSUME NEW i \in 1..Len(Pipe') PROVE submitted[h] < Pipe'[i][1]
      <4>1. CASE i \in 1..Len(Pipe)
            BY <1>4, <4>1 DEF OrderInv, SubmittedInv
      <4>2. CASE i \notin 1..Len(Pipe)
        <5>1. Pipe'[i][1] = n
              BY SMTT(20), <1>6, <4>2
        <5>2. QED BY <1>5, <3>1, <5>1
      <4>3. QED BY <4>1, <4>2
    <3>3. QED BY <3>1, <3>2
  <2>2. QED BY <1>1, <2>1 DEF OrderInv, SubmittedInv, SubmittedOnceInOrder, n
<1>11. QED BY <1>8, <1>9, <1>10 DEF OrderInv, PipeInv, Before

LEMMA NewBurstOrder ==
    ASSUME FramingType, FramingType', OrderInv, NEW kind \in Kind, NewBurst(kind)
    PROVE  OrderInv'
<1> DEFINE new == [good |-> kind.good, len |-> kind.len,
                   clean |-> mb_rx_frame = <<>> /\ tmp = <<>> /\ rx_ring = <<>>]
           n == Len(sent)
<1>1. sent' = Append(sent, new) /\ new \in Burst /\ UNCHANGED <<rx_ring, main>>
      BY Constants DEF NewBurst, Burst
<1> HIDE DEF new
<1>2. UNCHANGED <<mb_rx_frame, tmp, submitted>> /\ Pipe' = Pipe
      BY <1>1 DEF main, Pipe
<1>3. /\ n \in Nat /\ Len(sent') = n + 1
      /\ \A b \in 1..n : sent'[b] = sent[b]
      BY <1>1, AppendProperties, LenProperties DEF FramingType, LineType
<1> HIDE DEF n
<1>4. \A i \in 1..Len(Pipe) : OnLine(Pipe[i])'
  <2> SUFFICES ASSUME NEW i \in 1..Len(Pipe) PROVE OnLine(Pipe[i])'
      OBVIOUS
  <2>1. Pipe[i][1] \in 1..n /\ Pipe[i][2] <= sent[Pipe[i][1]].len
        BY DEF OrderInv, PipeInv, OnLine, n
  <2>2. /\ Pipe[i][1] \in 1..(n + 1) /\ Pipe[i][1] # n + 1
        /\ sent'[Pipe[i][1]] = sent[Pipe[i][1]]
        BY <1>3, <2>1
  <2>3. QED BY <1>2, <1>3, <2>1, <2>2 DEF OnLine
<1>5. PipeInv'
      BY <1>2, <1>4 DEF OrderInv, PipeInv
<1>6. ASSUME NEW k \in 1..Len(submitted)
      PROVE  /\ submitted[k] \in 1..(n + 1) /\ submitted[k] # n + 1
             /\ \A i \in 1..Len(Pipe) : submitted[k] < Pipe[i][1]
      BY <1>3 DEF OrderInv, SubmittedInv, n
<1>7. SubmittedInv'
      BY <1>2, <1>3, <1>6 DEF OrderInv, SubmittedInv, SubmittedOnceInOrder
<1>8. QED BY <1>5, <1>7 DEF OrderInv

\* The end of a frame: what is assembled is given up, and submitted if it is one
\* whole burst of the master.
LEMMA GapMoves ==
    ASSUME FramingType, FramingType', GapCheck, FrameEnded
    PROVE  /\ UNCHANGED <<sent, arrived, tmp, rx_ring>> /\ tmp = <<>> /\ mb_rx_frame' = <<>>
           /\ Pipe = mb_rx_frame \o Pipe' /\ Pipe' = rx_ring
<1>1. /\ UNCHANGED <<sent, arrived, tmp, rx_ring>> /\ pc = "gap" /\ mb_rx_frame' = <<>>
      BY DEF GapCheck, SubmitFrame, ClearFrame, line
<1>2. tmp = <<>>
      BY <1>1 DEF FramingType, PlaceType
<1>3. mb_rx_frame \in Seq(Byte) /\ rx_ring \in Seq(Byte) /\ <<>> \in Seq(Byte)
      BY Buffers, NoBytes
<1>4. Pipe = mb_rx_frame \o rx_ring
      BY <1>2, <1>3, ConcatEmptySeq DEF Pipe
<1>5. Pipe' = rx_ring
      BY <1>1, <1>2, <1>3, ConcatEmptySeq DEF Pipe
<1>6. QED BY <1>1, <1>2, <1>4, <1>5

LEMMA GapOrder ==
    ASSUME FramingType, FramingType', OrderInv, GapCheck
    PROVE  OrderInv'
<1>1. ASSUME ~FrameEnded PROVE OrderInv'
  <2>1. UNCHANGED <<sent, arrived, tmp, rx_ring, mb_rx_frame, submitted>>
        BY <1>1 DEF GapCheck, line
  <2>2. Pipe' = Pipe
        BY <2>1 DEF Pipe
  <2>3. <<>> \in Seq(Byte) /\ <<>> \o Pipe = Pipe
        BY Buffers, NoBytes, ConcatEmptySeq
  <2>4. QED BY <2>1, <2>2, <2>3, FrontTakenOrder
<1>2. ASSUME FrameEnded, UNCHANGED submitted PROVE OrderInv'
  <2>1. mb_rx_frame \in Seq(Byte)
        BY Buffers
  <2>2. QED BY <1>2, <2>1, GapMoves, FrontTakenOrder
<1>3. ASSUME FrameEnded, NEW b \in 1..Len(sent), mb_rx_frame = Bytes(b),
             submitted' = Append(submitted, mb_rx_frame[1][1])
      PROVE  OrderInv'
  <2> DEFINE len == sent[b].len
  <2>1. /\ len \in Nat \ {0} /\ Len(mb_rx_frame) = len /\ b \in Nat
        /\ \A i \in 1..len : mb_rx_frame[i] = <<b, i>>
        BY <1>3, Bursts DEF FramingType
  <2>2. submitted' = Append(submitted, b)
        BY <1>3, <2>1
  <2>3. mb_rx_frame \in Seq(Byte) /\ Pipe' \in Seq(Byte)
    <3>1. mb_rx_frame \in Seq(Byte) /\ rx_ring \in Seq(Byte)
          BY Buffers
    <3>2. Pipe' = rx_ring
          BY <1>3, GapMoves
    <3>3. QED BY <3>1, <3>2
  <2>4. /\ UNCHANGED <<sent, arrived>> /\ Pipe = mb_rx_frame \o Pipe'
        /\ PipeInv'
        /\ \A i \in 1..Len(Pipe') : len + i \in 1..Len(Pipe) /\ Pipe'[i] = Pipe[len + i]
        BY <1>3, <2>1, <2>3, GapMoves, FrontTaken DEF OrderInv
  <2>5. /\ Len(Pipe) = len + Len(Pipe') /\ Len(Pipe') \in Nat
        /\ 1 \in 1..Len(Pipe) /\ Pipe[1] = <<b, 1>>
        /\ len \in 1..Len(Pipe) /\ Pipe[len] = <<b, len>>
    <3>1. /\ Len(Pipe) = len + Len(Pipe') /\ Len(Pipe') \in Nat
          /\ \A i \in 1..len : Pipe[i] = mb_rx_frame[i]
          BY SMTT(20), <2>1, <2>3, <2>4, ByteSeqs
    <3>2. /\ 1 \in 1..len /\ len \in 1..len
          /\ 1 \in 1..Len(Pipe) /\ len \in 1..Len(Pipe)
          BY <2>1, <3>1
    <3>3. Pipe[1] = <<b, 1>> /\ Pipe[len] = <<b, len>>
          BY <2>1, <3>1, <3>2
    <3>4. QED BY <3>1, <3>2, <3>3
  <2> HIDE DEF len
  <2>6. b = Len(sent) => LineIdle
    <3>1. b = Len(sent) => len <= arrived
          BY <2>5 DEF OrderInv, PipeInv, OnLine
    <3>2. QED BY <2>1, <3>1 DEF FramingType, LineType, LineIdle, len
  <2>7. \A i \in 1..Len(Pipe') : b < Pipe'[i][1]
    <3> SUFFICES ASSUME NEW i \in 1..Len(Pipe') PROVE b < Pipe[len + i][1]
        BY <2>4
    <3>1. len + i \in 1..Len(Pipe) /\ len < len + i
          BY <2>1, <2>4, <2>5
    <3>2. Before(<<b, len>>, Pipe[len + i])
          BY <2>5, <3>1 DEF OrderInv, PipeInv
    <3>3. Pipe[len + i] \in Byte
          BY <3>1, Buffers, ElementOfSeq
    <3>4. Pipe[len + i][2] <= sent[Pipe[len + i][1]].len
          BY <3>1 DEF OrderInv, PipeInv, OnLine
    <3>5. Pipe[len + i][1] = b => Pipe[len + i][2] <= len
          BY <3>4 DEF len
    <3>6. QED BY <2>1, <3>2, <3>3, <3>5 DEF Before, Byte
  <2>8. \A k \in 1..Len(submitted) : submitted[k] < b
        BY <2>5 DEF OrderInv, SubmittedInv
  <2>9. /\ submitted \in Seq(Nat) /\ Len(submitted) \in Nat
        /\ submitted' \in Seq(Nat) /\ Len(submitted') = Len(submitted) + 1
        /\ submitted'[Len(submitted) + 1] = b
        /\ \A k \in 1..Len(submitted) : submitted'[k] = submitted[k]
        BY <2>1, <2>2, AppendProperties, LenProperties DEF OrderInv, SubmittedInv
  <2>10. ASSUME NEW k \in 1..Len(submitted')
         PROVE  /\ submitted'[k] \in 1..Len(sent)
                /\ submitted'[k] = Len(sent) => LineIdle
                /\ \A i \in 1..Len(Pipe') : submitted'[k] < Pipe'[i][1]
    <3>1. CASE k \in 1..Len(submitted)
          BY <2>4, <2>9, <3>1 DEF OrderInv, SubmittedInv
    <3>2. CASE k = Len(submitted) + 1
          BY <1>3, <2>6, <2>7, <2>9, <3>2
    <3>3. QED BY <2>9, <3>1, <3>2
  <2>11. SubmittedOnceInOrder'
    <3> SUFFICES ASSUME NEW i \in 1..Len(submitted'), NEW j \in 1..Len(submitted'), i < j
                 PROVE  submitted'[i] < submitted'[j]
        BY <2>9, LenProperties DEF SubmittedOnceInOrder
    <3>1. i \in 1..Len(submitted) /\ (j \in 1..Len(submitted) \/ j = Len(submitted) + 1)
      <4>1. Len(submitted) \in Nat /\ Len(submitted') = Len(submitted) + 1
            BY <2>9
      <4>2. QED BY <4>1
    <3>2. CASE j \in 1..Len(submitted)
      <4>1. DOMAIN submitted = 1..Len(submitted)
            BY <2>9, LenProperties
      <4>2. QED BY <2>9, <3>1, <3>2, <4>1 DEF OrderInv, SubmittedInv, SubmittedOnceInOrder
    <3>3. CASE j = Len(submitted) + 1
          BY <2>8, <2>9, <3>1, <3>3
    <3>4. QED BY <3>1, <3>2, <3>3
  <2>12. SubmittedInv'
         BY <2>4, <2>9, <2>10, <2>11 DEF SubmittedInv, LineIdle
  <2>13. QED BY <2>4, <2>12 DEF OrderInv
<1>4. QED BY <1>1, <1>2, <1>3 DEF GapCheck, SubmitFrame, CrcMatches

LEMMA OrderNext == FramingType /\ OrderInv /\ [Next]_vars => OrderInv'
<1> SUFFICES ASSUME FramingType, OrderInv, [Next]_vars PROVE OrderInv'
    OBVIOUS
<1>1. FramingType'
      BY FramingTypeNext
<1>2. CASE Line
      BY <1>1, <1>2, ReportOrder, NewBurstOrder DEF Line
<1>3. CASE GapCheck
      BY <1>1, <1>3, GapOrder
<1>4. CASE PollChunk
  <2>1. UNCHANGED <<sent, arrived, submitted>>
        BY <1>4 DEF PollChunk, line
  <2>2. /\ mb_rx_frame \in Seq(Byte) /\ <<>> \in Seq(Byte)
        /\ Pipe = mb_rx_frame \o (tmp \o rx_ring) /\ Pipe = <<>> \o Pipe
        BY Buffers, NoBytes, ConcatEmptySeq
  <2>3. Pipe' = Pipe \/ Pipe' = tmp \o rx_ring
        BY <1>4, PollMoves
  <2>4. QED BY <1>1, <2>1, <2>2, <2>3, FrontTakenOrder
<1>5. CASE ReadSome \/ PollEmpty \/ TickBegin \/ Heartbeat \/ ClockTick \/ UNCHANGED vars
  <2>1. UNCHANGED <<sent, arrived, submitted>>
        BY <1>5 DEF ReadSome, PollEmpty, TickBegin, Heartbeat, ClockTick, vars, main, line
  <2>2. Pipe' = Pipe
    <3>1. CASE ReadSome
          BY <3>1, ReadMoves
    <3>2. CASE UNCHANGED <<mb_rx_frame, tmp, rx_ring>>
          BY <3>2 DEF Pipe
    <3>3. QED BY <1>5, <3>1, <3>2 DEF PollEmpty, TickBegin, Heartbeat, ClockTick, vars, main
  <2>3. <<>> \in Seq(Byte) /\ Pipe = <<>> \o Pipe
        BY Buffers, NoBytes, ConcatEmptySeq
  <2>4. QED BY <1>1, <2>1, <2>2, <2>3, FrontTakenOrder
<1>6. QED BY <1>2, <1>3, <1>4, <1>5 DEF Next, Main, TimeOver

LEMMA OrderAlways == Spec => []OrderInv
BY OrderInit, OrderNext, FramingAlways, PTL DEF Spec

\* The server gets every frame of the master at most once and in the order of the
\* line, for any bursts, chunks and noise, with the ring overflowing and the main
\* loop stalled for any time (modbus_rx_poll, modbus_submit_frame).
THEOREM FramesInOrder == Spec => []SubmittedOnceInOrder
<1>1. OrderInv => SubmittedOnceInOrder
      BY DEF OrderInv, SubmittedInv
<1>2. QED BY <1>1, OrderAlways, PTL

\* No buffer is overrun, for any bursts and buffer sizes (modbus_rx_poll copies
\* into mb_rx_frame only what fits), and no clock value lies in the future.
THEOREM FramingTypeCorrect == Spec => []TypeOK
<1>1. FramingType /\ OrderInv => TypeOK
  <2> SUFFICES ASSUME FramingType, OrderInv PROVE TypeOK
      OBVIOUS
  <2>1. input_reg0 \in 0..UINT16_MOD - 1
        BY DEF FramingType, ClockType
  <2>2. /\ now \in 0..MaxTime /\ t_now \in 0..MaxTime /\ wake \in 0..MaxTime + 1
        /\ mb_last_rx_ms \in 0..now /\ hb_last_ms \in 0..now /\ last_arrival \in 0..now
        BY Constants DEF FramingType, ClockType
  <2>3. \A i \in DOMAIN submitted : submitted[i] \in 1..Len(sent)
        BY LenProperties DEF OrderInv, SubmittedInv
  <2>4. /\ Len(rx_ring) <= RX_RING_SIZE /\ Len(tmp) <= MB_POLL_BUF_LEN
        /\ Len(mb_rx_frame) <= MB_FRAME_MAX_LEN
        /\ pc \in {"poll", "gap", "beat", "sleep"}
        BY DEF FramingType, RingType, TmpType, FrameType, PlaceType
  <2>5. QED BY <2>1, <2>2, <2>3, <2>4 DEF TypeOK
<1>2. QED BY <1>1, FramingAlways, OrderAlways, PTL

-----------------------------------------------------------------------------
(* The heartbeat.                                                          *)

LEMMA OneMoreBeat ==
    ASSUME NEW r \in Nat, NEW h \in Nat \ {0}, NEW x \in Nat, NEW y \in Nat,
           r * h <= x, y - x >= h
    PROVE  ((r + 1) % UINT16_MOD) * h <= y
<1>1. (r + 1) % UINT16_MOD \in Nat /\ (r + 1) % UINT16_MOD <= r + 1
      BY Wrap
<1>2. ASSUME NEW m \in Nat, m <= r + 1 PROVE m * h <= (r + 1) * h
      BY SMT, <1>2
<1>3. (r + 1) * h = r * h + h /\ r * h + h <= y
      BY SMT
<1>4. QED
  <2> DEFINE m == (r + 1) % UINT16_MOD
  <2>1. m \in Nat /\ m <= r + 1
        BY <1>1
  <2> HIDE DEF m
  <2>2. m * h <= (r + 1) * h
        BY <1>2, <2>1
  <2>3. m * h <= y
        BY SMT, <1>3, <2>1, <2>2
  <2>4. QED BY <2>3 DEF m

\* Every beat took a full period of the clock, also across the wrap of the register.
BeatsPaid == input_reg0 * HB_PERIOD <= hb_last_ms

LEMMA BeatsPaidNext == FramingType /\ BeatsPaid /\ [Next]_vars => BeatsPaid'
<1> SUFFICES ASSUME FramingType, BeatsPaid, [Next]_vars PROVE BeatsPaid'
    OBVIOUS
<1>1. CASE Heartbeat /\ BeatDue
  <2>1. /\ input_reg0 \in Nat /\ hb_last_ms \in Nat /\ t_now \in Nat /\ HB_PERIOD \in Nat \ {0}
        BY Constants DEF FramingType, ClockType
  <2>2. /\ input_reg0' = (input_reg0 + 1) % UINT16_MOD /\ hb_last_ms' = t_now
        /\ t_now - hb_last_ms >= HB_PERIOD
        BY <1>1 DEF Heartbeat, BeatDue
  <2>3. QED BY <2>1, <2>2, OneMoreBeat DEF BeatsPaid
<1>2. CASE UNCHANGED <<input_reg0, hb_last_ms>>
      BY <1>2 DEF BeatsPaid
<1>3. CASE Heartbeat /\ ~BeatDue
      BY <1>2, <1>3 DEF Heartbeat
<1>4. CASE Line \/ ClockTick \/ TickBegin \/ ReadSome \/ PollChunk \/ PollEmpty \/ GapCheck
           \/ UNCHANGED vars
      BY <1>2, <1>4 DEF Line, Report, NewBurst, ClockTick, TickBegin, ReadSome, PollChunk,
                        PollEmpty, GapCheck, vars, main
<1>5. QED BY <1>1, <1>3, <1>4 DEF Next, Main, TimeOver

\* The heartbeat register never claims more periods than have passed, however late
\* the ticks come (modbus_service_tick).
THEOREM HeartbeatIsNotAhead == Spec => []HeartbeatNotAhead
<1>1. Init => BeatsPaid
      BY Constants DEF Init, BeatsPaid
<1>2. FramingType /\ BeatsPaid => HeartbeatNotAhead
      BY Constants DEF FramingType, ClockType, BeatsPaid, HeartbeatNotAhead
<1>3. QED BY <1>1, <1>2, BeatsPaidNext, FramingAlways, PTL DEF Spec

-----------------------------------------------------------------------------
(* Deadlines: how long anything can stay pending, whatever the line does.  *)

\* A tick takes at most STALL and a sleep at most 1 + LATE.
StepsDue ==
    /\ pc = "sleep" => now <= wake + LATE /\ wake <= t_now + STALL + 1
    /\ pc # "sleep" => now <= t_now + STALL

\* The tick that polls the last chunk reported begins by then.
PollBy == last_arrival + STALL + 1 + LATE

RingDue == rx_ring # <<>> =>
    /\ pc \in {"gap", "beat"} => t_now <= last_arrival
    /\ pc = "sleep" => wake <= last_arrival + STALL + 1
    /\ pc = "poll" => t_now <= PollBy
TmpDue == tmp # <<>> => t_now <= PollBy

\* The end of a frame is looked for in every tick, so a frame of 4 bytes or more is
\* given up in the first one that finds it old enough.
FrameDue == mb_rx_frame # <<>> => mb_last_rx_ms <= PollBy + STALL
EndDue == Len(mb_rx_frame) >= 4 =>
    /\ pc = "beat" => t_now < mb_last_rx_ms + MB_FRAME_GAP_MS
    /\ pc = "sleep" => wake <= mb_last_rx_ms + MB_FRAME_GAP_MS + STALL
    /\ pc \in {"poll", "gap"} => t_now <= mb_last_rx_ms + MB_FRAME_GAP_MS + STALL + LATE

Deadlines == StepsDue /\ RingDue /\ TmpDue /\ FrameDue /\ EndDue

LEMMA DeadlinesInit == Init => Deadlines
<1> SUFFICES ASSUME Init PROVE Deadlines
    OBVIOUS
<1>1. StepsDue
      BY Constants DEF Init, StepsDue
<1>2. RingDue /\ TmpDue /\ FrameDue
      BY DEF Init, RingDue, TmpDue, FrameDue
<1>3. EndDue
  <2>1. Len(mb_rx_frame) = 0
        BY NoBytes DEF Init
  <2>2. QED BY <2>1 DEF EndDue
<1>4. QED BY <1>1, <1>2, <1>3 DEF Deadlines

\* What the clocks of a step are.
LEMMA Clocks ==
    ASSUME FramingType
    PROVE  /\ now \in Nat /\ t_now \in Nat /\ wake \in Nat /\ last_arrival \in Nat
           /\ mb_last_rx_ms \in Nat /\ t_now <= now /\ wake <= now + 1 /\ last_arrival <= now
           /\ mb_last_rx_ms <= now /\ Len(mb_rx_frame) \in Nat
           /\ pc \in {"poll", "gap", "beat", "sleep"} /\ (pc # "poll" => tmp = <<>>)
           /\ MB_FRAME_GAP_MS \in Nat /\ STALL \in Nat /\ LATE \in Nat
           /\ CHUNK_GAP \in Nat /\ SILENCE \in Nat
BY Buffers, Constants DEF FramingType, ClockType, PlaceType

LEMMA DeadlinesLine ==
    ASSUME FramingType, Deadlines, Line
    PROVE  Deadlines'
<1>1. /\ last_arrival' = now
      /\ UNCHANGED <<now, pc, t_now, wake, tmp, mb_rx_frame, mb_last_rx_ms>>
      BY DEF Line, Report, NewBurst, main
<1>2. StepsDue' /\ EndDue'
      BY <1>1 DEF Deadlines, StepsDue, EndDue
<1>3. RingDue' /\ TmpDue' /\ FrameDue'
      BY <1>1, Clocks DEF RingDue, TmpDue, FrameDue, PollBy
<1>4. QED BY <1>2, <1>3 DEF Deadlines

LEMMA DeadlinesMain ==
    ASSUME FramingType, Deadlines, Main \/ ClockTick \/ UNCHANGED vars
    PROVE  Deadlines'
<1>1. UNCHANGED last_arrival
      BY DEF Main, TickBegin, ReadSome, PollChunk, PollEmpty, GapCheck, Heartbeat, ClockTick,
             vars, line
<1>2. CASE ClockTick
  <2>1. /\ UNCHANGED <<pc, t_now, wake, rx_ring, tmp, mb_rx_frame, mb_last_rx_ms>>
        /\ now' = now + 1
        /\ IF pc = "sleep" THEN now < wake + LATE ELSE now - t_now < STALL
        BY <1>2 DEF ClockTick, main
  <2>2. StepsDue'
        BY <2>1, Clocks DEF Deadlines, StepsDue
  <2>3. RingDue' /\ TmpDue' /\ FrameDue' /\ EndDue'
        BY <1>1, <2>1 DEF Deadlines, RingDue, TmpDue, FrameDue, EndDue, PollBy
  <2>4. QED BY <2>2, <2>3 DEF Deadlines
<1>3. CASE TickBegin
  <2>1. /\ UNCHANGED <<now, wake, rx_ring, tmp, mb_rx_frame, mb_last_rx_ms>>
        /\ pc = "sleep" /\ pc' = "poll" /\ t_now' = now
        BY <1>3 DEF TickBegin
  <2>2. now <= wake + LATE
        BY <2>1 DEF Deadlines, StepsDue
  <2>3. StepsDue'
        BY <2>1, Clocks DEF StepsDue
  <2>4. RingDue' /\ TmpDue' /\ FrameDue' /\ EndDue'
        BY SMTT(20), <1>1, <2>1, <2>2, Clocks DEF Deadlines, RingDue, TmpDue, FrameDue, EndDue, PollBy
  <2>5. QED BY <2>3, <2>4 DEF Deadlines
<1>4. CASE ReadSome
  <2>1. /\ UNCHANGED <<now, pc, wake, t_now, mb_rx_frame, mb_last_rx_ms>>
        /\ pc = "poll" /\ rx_ring # <<>>
        BY <1>4 DEF ReadSome
  <2>2. t_now <= PollBy
        BY <2>1 DEF Deadlines, RingDue
  <2>3. StepsDue' /\ FrameDue' /\ EndDue'
        BY <1>1, <2>1 DEF Deadlines, StepsDue, FrameDue, EndDue, PollBy
  <2>4. RingDue' /\ TmpDue'
        BY <1>1, <2>1, <2>2 DEF RingDue, TmpDue, PollBy
  <2>5. QED BY <2>3, <2>4 DEF Deadlines
<1>5. CASE PollChunk
  <2>1. /\ UNCHANGED <<now, pc, wake, t_now, rx_ring>>
        /\ pc = "poll" /\ tmp # <<>> /\ tmp' = <<>> /\ mb_last_rx_ms' = now
        BY <1>5 DEF PollChunk, Restart
  <2>2. t_now <= PollBy /\ now <= t_now + STALL
        BY <2>1 DEF Deadlines, TmpDue, StepsDue
  <2>3. StepsDue' /\ RingDue' /\ TmpDue'
        BY <1>1, <2>1 DEF Deadlines, StepsDue, RingDue, TmpDue, PollBy
  <2>4. FrameDue'
        BY <1>1, <2>1, <2>2, Clocks DEF FrameDue, PollBy
  <2>5. EndDue'
    <3>1. t_now <= now + MB_FRAME_GAP_MS + STALL + LATE
          BY Clocks
    <3>2. QED BY <2>1, <3>1 DEF EndDue
  <2>6. QED BY <2>3, <2>4, <2>5 DEF Deadlines
<1>6. CASE PollEmpty
  <2>1. /\ UNCHANGED <<now, wake, t_now, rx_ring, tmp, mb_rx_frame, mb_last_rx_ms>>
        /\ pc = "poll" /\ pc' = "gap" /\ rx_ring = <<>>
        BY <1>6 DEF PollEmpty
  <2>2. QED BY <1>1, <2>1 DEF Deadlines, StepsDue, RingDue, TmpDue, FrameDue, EndDue, PollBy
<1>7. CASE GapCheck
  <2>1. /\ UNCHANGED <<now, wake, t_now, rx_ring, tmp, mb_last_rx_ms>>
        /\ pc = "gap" /\ pc' = "beat"
        BY <1>7 DEF GapCheck
  <2>2. StepsDue' /\ RingDue' /\ TmpDue'
        BY <1>1, <2>1 DEF Deadlines, StepsDue, RingDue, TmpDue, PollBy
  <2>3. CASE FrameEnded
    <3>1. mb_rx_frame' = <<>> /\ Len(mb_rx_frame') = 0
          BY <1>7, <2>3, NoBytes DEF GapCheck, SubmitFrame, ClearFrame
    <3>2. FrameDue' /\ EndDue'
          BY <3>1 DEF FrameDue, EndDue
    <3>3. QED BY <2>2, <3>2 DEF Deadlines
  <2>4. CASE ~FrameEnded
    <3>1. UNCHANGED mb_rx_frame
          BY <1>7, <2>4 DEF GapCheck
    <3>2. Len(mb_rx_frame) >= 4 => now < mb_last_rx_ms + MB_FRAME_GAP_MS
          BY <2>4, Clocks DEF FrameEnded
    <3>3. FrameDue'
          BY <1>1, <2>1, <3>1 DEF Deadlines, FrameDue, PollBy
    <3>4. EndDue'
          BY <2>1, <3>1, <3>2, Clocks DEF EndDue
    <3>5. QED BY <2>2, <3>3, <3>4 DEF Deadlines
  <2>5. QED BY <2>3, <2>4
<1>8. CASE Heartbeat
  <2>1. /\ UNCHANGED <<now, t_now, rx_ring, tmp, mb_rx_frame, mb_last_rx_ms>>
        /\ pc = "beat" /\ pc' = "sleep" /\ wake' = now + 1
        BY <1>8 DEF Heartbeat
  <2>2. now <= t_now + STALL
        BY <2>1 DEF Deadlines, StepsDue
  <2>3. StepsDue' /\ RingDue' /\ EndDue'
        BY SMTT(20), <1>1, <2>1, <2>2, Clocks DEF Deadlines, StepsDue, RingDue, EndDue, PollBy
  <2>4. TmpDue' /\ FrameDue'
        BY <1>1, <2>1 DEF Deadlines, TmpDue, FrameDue, PollBy
  <2>5. QED BY <2>3, <2>4 DEF Deadlines
<1>9. CASE UNCHANGED vars
      BY <1>1, <1>9 DEF vars, main, Deadlines, StepsDue, RingDue, TmpDue, FrameDue, EndDue, PollBy
<1>10. QED BY <1>2, <1>3, <1>4, <1>5, <1>6, <1>7, <1>8, <1>9 DEF Main

LEMMA DeadlinesAlways == Spec => []Deadlines
<1>1. FramingType /\ Deadlines /\ [Next]_vars => Deadlines'
      BY DeadlinesLine, DeadlinesMain DEF Next, TimeOver
<1>2. QED BY <1>1, DeadlinesInit, FramingAlways, PTL DEF Spec

\* The silence of the line that lets main find the end of what is pending: the gap
\* itself, one sleep of 1 ms, two late wake-ups and four stalled ticks.
LongSilence == SILENCE > MB_FRAME_GAP_MS + 1 + 2 * LATE + 4 * STALL

\* Only runts linger when the line may carry the next burst, in any state where
\* the deadlines hold.
LEMMA RuntsOnly ==
    ASSUME LongSilence, FramingType, Deadlines
    PROVE  OnlyRuntsLinger
<1> SUFFICES ASSUME LineIdle, now - last_arrival >= SILENCE
             PROVE  rx_ring = <<>> /\ tmp = <<>> /\ Len(mb_rx_frame) < 4
    BY DEF OnlyRuntsLinger, Settled
<1>1. /\ now \in Nat /\ last_arrival \in Nat /\ t_now \in Nat /\ wake \in Nat
      /\ mb_last_rx_ms \in Nat /\ MB_FRAME_GAP_MS \in Nat /\ STALL \in Nat /\ LATE \in Nat
      /\ SILENCE \in Nat
      BY Clocks
<1>2. now > last_arrival + MB_FRAME_GAP_MS + 1 + (LATE + LATE) + (STALL + STALL + STALL + STALL)
      BY <1>1 DEF LongSilence
<1>3. /\ pc = "sleep" => now <= wake + LATE
      /\ pc # "sleep" => now <= t_now + STALL
      BY DEF Deadlines, StepsDue
<1>4. rx_ring = <<>>
  <2> SUFFICES ASSUME rx_ring # <<>> PROVE FALSE
      OBVIOUS
  <2>1. /\ pc \in {"gap", "beat"} => t_now <= last_arrival
        /\ pc = "sleep" => wake <= last_arrival + STALL + 1
        /\ pc = "poll" => t_now <= last_arrival + STALL + 1 + LATE
        BY DEF Deadlines, RingDue, PollBy
  <2>2. QED BY <1>1, <1>2, <1>3, <2>1 DEF FramingType, PlaceType
<1>5. tmp = <<>>
  <2> SUFFICES ASSUME tmp # <<>> PROVE FALSE
      OBVIOUS
  <2>1. t_now <= last_arrival + STALL + 1 + LATE /\ pc = "poll"
        BY DEF Deadlines, TmpDue, PollBy, FramingType, PlaceType
  <2>2. QED BY <1>1, <1>2, <1>3, <2>1
<1>6. Len(mb_rx_frame) < 4
  <2> SUFFICES ASSUME Len(mb_rx_frame) >= 4 PROVE FALSE
      BY Clocks
  <2>1. mb_last_rx_ms <= last_arrival + STALL + 1 + LATE + STALL
        BY NoBytes DEF Deadlines, FrameDue, PollBy
  <2>2. /\ pc = "beat" => t_now < mb_last_rx_ms + MB_FRAME_GAP_MS
        /\ pc = "sleep" => wake <= mb_last_rx_ms + MB_FRAME_GAP_MS + STALL
        /\ pc \in {"poll", "gap"} => t_now <= mb_last_rx_ms + MB_FRAME_GAP_MS + STALL + LATE
        BY DEF Deadlines, EndDue
  <2>3. QED BY <1>1, <1>2, <1>3, <2>1, <2>2 DEF FramingType, PlaceType
<1>7. QED BY <1>4, <1>5, <1>6

\* After a silence of that length nothing but a runt of less than 4 bytes is
\* pending, whatever the line carried before (modbus_rx_poll drops what fails the
\* CRC when the gap is over).  The bound is exact.
THEOREM SilenceClears ==
    ASSUME LongSilence
    PROVE  Spec => []OnlyRuntsLinger
BY RuntsOnly, FramingAlways, DeadlinesAlways, PTL

-----------------------------------------------------------------------------
(* Every frame of the master that finds nothing pending is submitted.      *)

\* The frames of the master are frames that the buffers can hold.
RealFrames == \A k \in Kind : k.good =>
    4 <= k.len /\ k.len <= MB_FRAME_MAX_LEN /\ k.len <= RX_RING_SIZE

\* A pause inside a frame and a stalled tick do not add up to the gap of main.
ShortPauses == CHUNK_GAP + STALL < MB_FRAME_GAP_MS

SentFits == \A b \in 1..Len(sent) : sent[b].good =>
    4 <= sent[b].len /\ sent[b].len <= MB_FRAME_MAX_LEN /\ sent[b].len <= RX_RING_SIZE

LineGoesOn == ~LineIdle => now - last_arrival <= CHUNK_GAP

\* mb_last_rx_ms is no older than the last bytes, once they are polled.
PolledSince == rx_ring = <<>> /\ tmp = <<>> /\ arrived > 0 => last_arrival <= mb_last_rx_ms

\* While more of the frame is to come, main looks for its end soon after a poll.
EndsInTime ==
    pc = "gap" /\ mb_rx_frame # <<>> /\ (rx_ring # <<>> \/ ~LineIdle)
        => t_now <= mb_last_rx_ms + CHUNK_GAP

\* Everything that has arrived of burst b is pending, and nothing else.
Kept(b) ==
    /\ b = Len(sent) /\ Len(Pipe) = arrived
    /\ \A i \in 1..arrived : Pipe[i] = <<b, i>>
    /\ EndsInTime

Delivered(b) == \E i \in 1..Len(submitted) : submitted[i] = b
CleanKept == \A b \in 1..Len(sent) :
    sent[b].good /\ sent[b].clean => Delivered(b) \/ Kept(b)

CleanInv == SentFits /\ LineGoesOn /\ PolledSince /\ CleanKept

\* Everything the proof of a step relies on.
Known == FramingType /\ FramingType' /\ OrderInv /\ Deadlines /\ CleanInv

LEMMA CleanInit == Init => CleanInv
<1> SUFFICES ASSUME Init PROVE CleanInv
    OBVIOUS
<1>1. Len(sent) = 0
      BY EmptySeq DEF Init
<1>2. QED BY <1>1 DEF Init, CleanInv, SentFits, LineGoesOn, LineIdle, PolledSince, CleanKept

\* A burst that is submitted stays so.
LEMMA StaysDelivered ==
    ASSUME OrderInv, NEW b,
           UNCHANGED submitted \/ \E n \in Nat : submitted' = Append(submitted, n)
    PROVE  Delivered(b) => Delivered(b)'
<1>1. CASE UNCHANGED submitted
      BY <1>1 DEF Delivered
<1>2. ASSUME NEW n \in Nat, submitted' = Append(submitted, n)
      PROVE  Delivered(b) => Delivered(b)'
  <2>1. /\ submitted \in Seq(Nat) /\ Len(submitted) \in Nat /\ Len(submitted') = Len(submitted) + 1
        /\ \A i \in 1..Len(submitted) : submitted'[i] = submitted[i]
        BY <1>2, AppendProperties, LenProperties DEF OrderInv, SubmittedInv
  <2>2. \A i \in 1..Len(submitted) : i \in 1..Len(submitted')
        BY <2>1
  <2>3. QED BY <2>1, <2>2 DEF Delivered
<1>3. QED BY <1>1, <1>2

LEMMA ReportClean ==
    ASSUME Known, NEW k \in 1..RX_RING_SIZE, Report(k)
    PROVE  CleanInv'
<1> DEFINE new == Fits(k)
           n == Len(sent)
<1>1. /\ UNCHANGED <<now, sent, pc, t_now, mb_rx_frame, mb_last_rx_ms, tmp, submitted>>
      /\ arrived' = arrived + k /\ last_arrival' = now /\ ~LineIdle
      /\ k <= sent[n].len - arrived
      BY DEF Report, main
<1>2. /\ rx_ring' = rx_ring \o new /\ new \in Seq(Byte) /\ Len(new) \in Nat
      /\ Len(new) = Least(k, RX_RING_SIZE - Len(rx_ring))
      /\ \A i \in 1..Len(new) : new[i] = <<n, arrived + i>>
      BY ChunkFits, LenProperties DEF Known
<1> HIDE DEF new
<1>3. /\ n \in 1..n /\ n \in Nat /\ sent[n].len \in Nat /\ arrived \in Nat /\ k \in Nat \ {0}
      /\ now \in Nat /\ CHUNK_GAP \in Nat /\ RX_RING_SIZE \in Nat \ {0}
  <2>1. n \in 1..n /\ n \in Nat
        BY <1>1, Busy DEF Known, FramingType
  <2>2. QED BY SMTT(20), <2>1, Bursts, Constants DEF Known, FramingType, LineType, ClockType
<1>4. /\ Pipe \in Seq(Byte) /\ rx_ring \in Seq(Byte) /\ mb_rx_frame \o tmp \in Seq(Byte)
      /\ Len(rx_ring) \in Nat /\ Len(rx_ring) <= Len(Pipe) /\ Len(rx_ring) <= RX_RING_SIZE
      /\ Len(Pipe) \in Nat
  <2>1. Len(rx_ring) <= RX_RING_SIZE
        BY DEF Known, FramingType, RingType
  <2>2. QED BY <2>1, Buffers DEF Known
<1>5. Pipe' = Pipe \o new
  <2>1. Pipe' = (mb_rx_frame \o tmp) \o (rx_ring \o new)
        BY <1>1, <1>2 DEF Pipe
  <2>2. QED BY <1>2, <1>4, <2>1, Association DEF Pipe
<1>6. /\ Len(Pipe') = Len(Pipe) + Len(new)
      /\ \A i \in 1..Len(Pipe) : Pipe'[i] = Pipe[i]
      /\ \A i \in 1..Len(new) : Pipe'[Len(Pipe) + i] = <<n, arrived + i>>
  <2>1. /\ Len(Pipe \o new) = Len(Pipe) + Len(new)
        /\ \A i \in 1..Len(Pipe) : (Pipe \o new)[i] = Pipe[i]
        /\ \A i \in 1..Len(new) : (Pipe \o new)[Len(Pipe) + i] = new[i]
        BY <1>2, <1>4, ByteSeqs
  <2>2. QED BY <1>2, <1>5, <2>1
<1>7. SentFits' /\ LineGoesOn'
      BY <1>1, <1>3 DEF Known, CleanInv, SentFits, LineGoesOn
<1>8. PolledSince'
  <2>1. Len(rx_ring') = Len(rx_ring) + Len(new)
        BY <1>2, <1>4, ByteSeqs
  <2>2. Len(rx_ring') > 0
        BY <2>1, <1>2, <1>3, <1>4 DEF Least
  <2>3. QED BY <2>2, NoBytes DEF PolledSince
<1>9. ASSUME NEW b \in 1..n, sent[b].good, Kept(b)
      PROVE  Kept(b)'
  <2>1. b = n /\ Len(Pipe) = arrived /\ \A i \in 1..arrived : Pipe[i] = <<n, i>>
        BY <1>9 DEF Kept, n
  <2>2. Len(new) = k
    <3>1. sent[n].len <= RX_RING_SIZE
          BY <1>3, <1>9, <2>1 DEF Known, CleanInv, SentFits
    <3>2. k <= RX_RING_SIZE - Len(rx_ring) /\ RX_RING_SIZE - Len(rx_ring) \in Int
          BY <1>1, <1>3, <1>4, <2>1, <3>1
    <3>3. Least(k, RX_RING_SIZE - Len(rx_ring)) = k
          BY <1>3, <3>2 DEF Least
    <3>4. QED BY <1>2, <3>3
  <2>3. Len(Pipe') = arrived'
        BY <1>1, <1>6, <2>1, <2>2
  <2>4. ASSUME NEW i \in 1..arrived' PROVE Pipe'[i] = <<n, i>>
    <3>1. CASE i \in 1..arrived
          BY <1>6, <2>1, <3>1
    <3>2. CASE i \notin 1..arrived
      <4>1. i - arrived \in 1..k /\ arrived + (i - arrived) = i
            BY <1>1, <1>3, <3>2
      <4>2. QED BY <1>6, <2>1, <2>2, <4>1
    <3>3. QED BY <3>1, <3>2
  <2>5. pc = "gap" /\ mb_rx_frame # <<>> => t_now <= mb_last_rx_ms + CHUNK_GAP
        BY <1>1, <1>9 DEF Kept, EndsInTime
  <2>6. QED BY <1>1, <2>1, <2>3, <2>4, <2>5 DEF Kept, EndsInTime, n
<1>10. CleanKept'
  <2>1. \A b \in 1..n : Delivered(b) => Delivered(b)'
        BY <1>1 DEF Delivered
  <2>2. QED BY <1>1, <1>9, <2>1 DEF Known, CleanInv, CleanKept, n
<1>11. QED BY <1>7, <1>8, <1>10 DEF CleanInv

\* Before the line may carry a new burst, main has submitted the clean frames.
LEMMA SettledDelivered ==
    ASSUME LongSilence, FramingType, Deadlines, CleanInv, Settled,
           NEW b \in 1..Len(sent), sent[b].good, sent[b].clean
    PROVE  Delivered(b)
<1>1. rx_ring = <<>> /\ tmp = <<>> /\ Len(mb_rx_frame) < 4 /\ LineIdle
      BY RuntsOnly DEF OnlyRuntsLinger, Settled
<1>2. Len(Pipe) < 4
  <2>1. Len(rx_ring) = 0 /\ Len(tmp) = 0
        BY <1>1, NoBytes
  <2>2. QED BY <1>1, <2>1, Buffers
<1>3. ASSUME Kept(b) PROVE FALSE
  <2>1. arrived = sent[b].len
        BY <1>1, <1>3, Bursts DEF LineIdle, Kept, FramingType
  <2>2. Len(Pipe) = sent[b].len /\ 4 <= sent[b].len /\ sent[b].len \in Nat
        BY <1>3, <2>1, Bursts DEF Kept, CleanInv, SentFits, FramingType
  <2>3. QED BY <1>2, <2>2
<1>4. QED BY <1>3 DEF CleanInv, CleanKept

LEMMA NewBurstClean ==
    ASSUME LongSilence, RealFrames, Known, NEW kind \in Kind, NewBurst(kind)
    PROVE  CleanInv'
<1> DEFINE clean == mb_rx_frame = <<>> /\ tmp = <<>> /\ rx_ring = <<>>
           new == [good |-> kind.good, len |-> kind.len, clean |-> clean]
           n == Len(sent)
<1>1. /\ LineIdle /\ (sent # <<>> => now - last_arrival >= SILENCE)
      /\ sent' = Append(sent, new) /\ arrived' = 0 /\ last_arrival' = now
      /\ UNCHANGED <<now, rx_ring, main>>
      BY DEF NewBurst
<1>2. UNCHANGED <<pc, t_now, mb_rx_frame, mb_last_rx_ms, tmp, submitted>> /\ Pipe' = Pipe
      BY <1>1 DEF main, Pipe
<1>3. /\ new \in Burst /\ new.good = kind.good /\ new.len = kind.len
      BY Constants DEF Burst
<1> HIDE DEF new
<1>4. /\ n \in Nat /\ Len(sent') = n + 1 /\ sent'[n + 1] = new
      /\ \A b \in 1..n : sent'[b] = sent[b]
      BY <1>1, <1>3, AppendProperties, LenProperties DEF Known, FramingType, LineType
<1>5. \A b \in 1..n : sent[b].good /\ sent[b].clean => Delivered(b)
  <2> SUFFICES ASSUME NEW b \in 1..n, sent[b].good, sent[b].clean PROVE Delivered(b)
      OBVIOUS
  <2>1. Settled
        BY <1>1, Bursts DEF Known, FramingType, Settled
  <2>2. QED BY <2>1, SettledDelivered DEF Known
<1> HIDE DEF n
<1>6. ASSUME NEW b \in 1..(n + 1) PROVE b \in 1..n \/ b = n + 1
      BY <1>4
<1>7. SentFits'
  <2>1. new.good => 4 <= new.len /\ new.len <= MB_FRAME_MAX_LEN /\ new.len <= RX_RING_SIZE
        BY <1>3 DEF RealFrames
  <2>2. QED BY <1>4, <1>6, <2>1 DEF Known, CleanInv, SentFits, n
<1>8. LineGoesOn' /\ PolledSince'
      BY <1>1, Clocks DEF Known, LineGoesOn, PolledSince
<1>9. ASSUME NEW b, b = n + 1, new.clean PROVE Kept(b)'
  <2>1. clean
        BY <1>9 DEF new
  <2>2. Pipe = <<>>
        BY <2>1, NoBytes, ConcatEmptySeq DEF Pipe
  <2>3. Len(Pipe') = 0 /\ mb_rx_frame' = <<>>
        BY <1>2, <2>1, <2>2, NoBytes
  <2>4. b = Len(sent') /\ Len(Pipe') = arrived' /\ \A i \in 1..arrived' : Pipe'[i] = <<b, i>>
        BY <1>1, <1>4, <1>9, <2>3
  <2>5. QED BY <2>3, <2>4 DEF Kept, EndsInTime
<1>10. CleanKept'
  <2>1. ASSUME NEW b \in 1..n, sent'[b].good, sent'[b].clean PROVE Delivered(b)'
        BY <1>2, <1>4, <1>5, <2>1 DEF Delivered
  <2>2. ASSUME NEW b \in 1..Len(sent'), sent'[b].good, sent'[b].clean
        PROVE  (Delivered(b) \/ Kept(b))'
    <3>1. CASE b \in 1..n
          BY <2>1, <2>2, <3>1
    <3>2. CASE b = n + 1
          BY <1>4, <1>9, <2>2, <3>2
    <3>3. QED BY <1>4, <1>6, <2>2, <3>1, <3>2
  <2>3. QED BY <2>2 DEF CleanKept
<1>11. QED BY <1>7, <1>8, <1>10 DEF CleanInv

\* The steps of main that submit nothing.
LEMMA QuietClean ==
    ASSUME Known, UNCHANGED <<sent, arrived, last_arrival, submitted>>, now' = now, PolledSince',
           \A b \in 1..Len(sent) : sent[b].good /\ Kept(b) => Pipe' = Pipe /\ EndsInTime'
    PROVE  CleanInv'
<1>1. SentFits' /\ LineGoesOn'
      BY DEF Known, CleanInv, SentFits, LineGoesOn, LineIdle
<1>2. ASSUME NEW b \in 1..Len(sent), sent[b].good, Kept(b)
      PROVE  Kept(b)'
      BY <1>2 DEF Kept
<1>3. \A b \in 1..Len(sent) : Delivered(b) => Delivered(b)'
      BY DEF Delivered
<1>4. CleanKept'
      BY <1>2, <1>3 DEF Known, CleanInv, CleanKept
<1>5. QED BY <1>1, <1>4 DEF CleanInv

LEMMA ClockClean ==
    ASSUME Known, ClockTick \/ UNCHANGED vars
    PROVE  CleanInv'
<1>1. /\ UNCHANGED <<sent, arrived, last_arrival, submitted, pc, rx_ring, tmp, t_now,
                     mb_rx_frame, mb_last_rx_ms>>
      /\ LineIdle' = LineIdle
      BY DEF ClockTick, vars, line, main, LineIdle
<1>2. LineGoesOn'
  <2>1. CASE ClockTick
    <3>1. now' = now + 1 /\ (~LineIdle => now - last_arrival < CHUNK_GAP)
          BY <2>1 DEF ClockTick
    <3>2. QED BY <1>1, <3>1, Clocks DEF Known, LineGoesOn
  <2>2. CASE UNCHANGED vars
        BY <1>1, <2>2 DEF vars, Known, CleanInv, LineGoesOn
  <2>3. QED BY <2>1, <2>2
<1>3. SentFits' /\ PolledSince'
      BY <1>1 DEF Known, CleanInv, SentFits, PolledSince
<1>4. \A b \in 1..Len(sent) : (Kept(b) => Kept(b)') /\ (Delivered(b) => Delivered(b)')
      BY <1>1 DEF Kept, EndsInTime, Pipe, Delivered
<1>5. CleanKept'
      BY <1>1, <1>4 DEF Known, CleanInv, CleanKept
<1>6. QED BY <1>2, <1>3, <1>5 DEF CleanInv

LEMMA PollClean ==
    ASSUME Known, TickBegin \/ ReadSome \/ PollChunk \/ PollEmpty \/ Heartbeat
    PROVE  CleanInv'
<1>1. UNCHANGED <<sent, arrived, last_arrival, submitted, now>>
      BY DEF TickBegin, ReadSome, PollChunk, PollEmpty, Heartbeat, line
<1>2. CASE TickBegin \/ Heartbeat
  <2>1. UNCHANGED <<rx_ring, tmp, mb_rx_frame, mb_last_rx_ms>> /\ pc' # "gap"
        BY <1>2 DEF TickBegin, Heartbeat
  <2>2. PolledSince' /\ Pipe' = Pipe /\ EndsInTime'
        BY <1>1, <2>1 DEF Known, CleanInv, PolledSince, Pipe, EndsInTime
  <2>3. QED BY <1>1, <2>2, QuietClean
<1>3. CASE ReadSome
  <2>1. tmp' # <<>> /\ Pipe' = Pipe
        BY <1>3, ReadMoves DEF Known
  <2>2. pc' # "gap"
        BY <1>3 DEF ReadSome
  <2>3. QED BY <1>1, <2>1, <2>2, QuietClean DEF PolledSince, EndsInTime
<1>4. CASE PollChunk
  <2>1. mb_last_rx_ms' = now /\ pc' # "gap"
        BY <1>4 DEF PollChunk, Restart
  <2>2. PolledSince' /\ EndsInTime'
        BY <1>1, <2>1, Clocks DEF Known, PolledSince, EndsInTime
  <2>3. ASSUME NEW b \in 1..Len(sent), sent[b].good, Kept(b) PROVE Pipe' = Pipe
    <3>1. /\ Len(mb_rx_frame) + Len(tmp) + Len(rx_ring) = arrived
          /\ Len(mb_rx_frame) \in Nat /\ Len(tmp) \in Nat /\ Len(rx_ring) \in Nat
          BY <2>3, Buffers DEF Kept, Known
    <3>2. arrived <= sent[b].len /\ sent[b].len \in Nat /\ arrived \in Nat
          BY <2>3, Bursts DEF Kept, Known, FramingType, LineType
    <3>3. sent[b].len <= MB_FRAME_MAX_LEN /\ MB_FRAME_MAX_LEN \in Nat
          BY <2>3, Constants DEF Known, CleanInv, SentFits
    <3>4. ~(Len(mb_rx_frame) + Len(tmp) > MB_FRAME_MAX_LEN)
          BY <3>1, <3>2, <3>3
    <3>5. QED BY <1>4, <3>4, PollMoves DEF Known
  <2>4. QED BY <1>1, <2>2, <2>3, QuietClean
<1>5. CASE PollEmpty
  <2>1. /\ UNCHANGED <<rx_ring, tmp, mb_rx_frame, mb_last_rx_ms, t_now>>
        /\ rx_ring = <<>> /\ tmp = <<>>
        BY <1>5 DEF PollEmpty
  <2>2. PolledSince' /\ Pipe' = Pipe /\ LineIdle' = LineIdle
        BY <1>1, <2>1 DEF Known, CleanInv, PolledSince, Pipe, LineIdle
  <2>3. ASSUME NEW b \in 1..Len(sent), Kept(b), mb_rx_frame # <<>>, ~LineIdle
        PROVE  t_now <= mb_last_rx_ms + CHUNK_GAP
    <3>1. arrived > 0
      <4>1. Len(mb_rx_frame) \in Nat \ {0} /\ Len(tmp) \in Nat /\ Len(rx_ring) \in Nat
            BY <2>3, NoBytes, Buffers DEF Known
      <4>2. QED BY <2>3, <4>1, Buffers DEF Kept, Known
    <3>2. last_arrival <= mb_last_rx_ms /\ now - last_arrival <= CHUNK_GAP
          BY <2>1, <2>3, <3>1 DEF Known, CleanInv, PolledSince, LineGoesOn
    <3>3. QED BY <3>2, Clocks DEF Known
  <2>4. \A b \in 1..Len(sent) : Kept(b) => EndsInTime'
        BY <2>1, <2>2, <2>3 DEF EndsInTime
  <2>5. QED BY <1>1, <2>2, <2>4, QuietClean
<1>6. QED BY <1>2, <1>3, <1>4, <1>5

\* A frame that is given up holds all of its burst.
LEMMA WholeFrame ==
    ASSUME ShortPauses, Known, GapCheck, FrameEnded, NEW b \in 1..Len(sent), Kept(b)
    PROVE  mb_rx_frame = Bytes(b)
<1>1. now - mb_last_rx_ms >= MB_FRAME_GAP_MS /\ pc = "gap" /\ mb_rx_frame # <<>>
      BY NoBytes DEF FrameEnded, GapCheck
<1>2. now <= t_now + STALL
      BY <1>1 DEF Known, Deadlines, StepsDue
<1>3. rx_ring = <<>> /\ LineIdle
      BY <1>1, <1>2, Clocks DEF ShortPauses, Known, Kept, EndsInTime
<1>4. /\ b = Len(sent) /\ arrived = sent[b].len /\ Len(Pipe) = sent[b].len
      /\ \A i \in 1..sent[b].len : Pipe[i] = <<b, i>>
      BY <1>3, Bursts DEF Known, FramingType, Kept, LineIdle
<1>5. Pipe = mb_rx_frame
  <2>1. tmp = <<>> /\ mb_rx_frame \in Seq(Byte)
        BY <1>1, Buffers DEF Known, FramingType, PlaceType
  <2>2. QED BY <1>3, <2>1, ConcatEmptySeq DEF Pipe
<1>6. /\ Bytes(b) \in Seq(Byte) /\ Len(Bytes(b)) = sent[b].len
      /\ \A i \in 1..sent[b].len : Bytes(b)[i] = <<b, i>>
      BY Bursts DEF Known, FramingType
<1>7. /\ mb_rx_frame \in Seq(Byte) /\ Len(mb_rx_frame) = Len(Bytes(b))
      /\ \A i \in 1..Len(mb_rx_frame) : mb_rx_frame[i] = Bytes(b)[i]
      BY <1>4, <1>5, <1>6, Buffers DEF Known
<1>8. QED BY <1>6, <1>7, SeqEqual

LEMMA GapClean ==
    ASSUME ShortPauses, Known, GapCheck
    PROVE  CleanInv'
<1>1. /\ UNCHANGED <<sent, arrived, last_arrival, now, rx_ring, tmp, mb_last_rx_ms, t_now>>
      /\ pc' # "gap"
      BY DEF GapCheck, line
<1>2. PolledSince' /\ EndsInTime'
      BY <1>1 DEF Known, CleanInv, PolledSince, EndsInTime
<1>3. CASE ~FrameEnded
  <2>1. UNCHANGED <<mb_rx_frame, submitted>>
        BY <1>3 DEF GapCheck
  <2>2. Pipe' = Pipe
        BY <1>1, <2>1 DEF Pipe
  <2>3. QED BY <1>1, <1>2, <2>1, <2>2, QuietClean
<1>4. CASE FrameEnded
  <2>1. submitted' = IF CrcMatches(mb_rx_frame) THEN Append(submitted, mb_rx_frame[1][1])
                                                ELSE submitted
        BY <1>4 DEF GapCheck, SubmitFrame
  <2>2. ASSUME NEW b \in 1..Len(sent), mb_rx_frame = Bytes(b)
        PROVE  mb_rx_frame[1][1] = b /\ b \in Nat
    <3>1. /\ 1 \in 1..sent[b].len /\ b \in Nat
          /\ \A i \in 1..sent[b].len : Bytes(b)[i] = <<b, i>>
          BY Bursts DEF Known, FramingType
    <3>2. QED BY <2>2, <3>1
  <2>3. ASSUME NEW b \in 1..Len(sent), sent[b].good, Kept(b)
        PROVE  Delivered(b)'
    <3>1. mb_rx_frame = Bytes(b)
          BY <1>4, <2>3, WholeFrame
    <3>2. submitted' = Append(submitted, b)
          BY <2>1, <2>2, <2>3, <3>1 DEF CrcMatches
    <3>3. submitted \in Seq(Nat) /\ b \in Nat /\ Len(submitted) \in Nat
          BY LenProperties DEF Known, OrderInv, SubmittedInv
    <3>4. /\ Len(submitted) + 1 \in 1..Len(submitted') /\ submitted'[Len(submitted) + 1] = b
          BY <3>2, <3>3, AppendProperties
    <3>5. QED BY <3>4 DEF Delivered
  <2>4. UNCHANGED submitted \/ \E n \in Nat : submitted' = Append(submitted, n)
    <3>1. CASE CrcMatches(mb_rx_frame)
          BY <2>1, <2>2, <3>1 DEF CrcMatches
    <3>2. CASE ~CrcMatches(mb_rx_frame)
          BY <2>1, <3>2
    <3>3. QED BY <3>1, <3>2
  <2>5. \A b \in 1..Len(sent) : Delivered(b) => Delivered(b)'
        BY <2>4, StaysDelivered DEF Known
  <2>6. CleanKept'
        BY <1>1, <2>3, <2>5 DEF Known, CleanInv, CleanKept
  <2>7. SentFits' /\ LineGoesOn'
        BY <1>1 DEF Known, CleanInv, SentFits, LineGoesOn, LineIdle
  <2>8. QED BY <1>2, <2>6, <2>7 DEF CleanInv
<1>5. QED BY <1>3, <1>4

LEMMA CleanNext ==
    ASSUME LongSilence, ShortPauses, RealFrames
    PROVE  FramingType /\ OrderInv /\ Deadlines /\ CleanInv /\ [Next]_vars => CleanInv'
<1> SUFFICES ASSUME FramingType, OrderInv, Deadlines, CleanInv, [Next]_vars PROVE CleanInv'
    OBVIOUS
<1>1. Known
      BY FramingTypeNext DEF Known
<1>2. QED BY <1>1, ReportClean, NewBurstClean, PollClean, GapClean, ClockClean
          DEF Next, Line, Main, TimeOver

\* A frame of the master that finds nothing pending when it begins is submitted
\* before the line may carry anything else, in every run whose pauses, stalls and
\* silences keep the bounds (modbus_rx_poll measures the gap from the last poll).
THEOREM CleanFramesGetThrough ==
    ASSUME LongSilence, ShortPauses, RealFrames
    PROVE  Spec => []CleanFrameSubmitted
<1>1. FramingType /\ OrderInv /\ Deadlines /\ CleanInv => CleanFrameSubmitted
  <2> SUFFICES ASSUME FramingType, OrderInv, Deadlines, CleanInv, Settled,
                      NEW b \in 1..Len(sent), sent[b].good, sent[b].clean
               PROVE  \E i \in DOMAIN submitted : submitted[i] = b
      BY DEF CleanFrameSubmitted
  <2>1. Delivered(b)
        BY SettledDelivered
  <2>2. DOMAIN submitted = 1..Len(submitted)
        BY LenProperties DEF OrderInv, SubmittedInv
  <2>3. QED BY <2>1, <2>2 DEF Delivered
<1>2. QED BY <1>1, CleanInit, CleanNext, FramingAlways, OrderAlways, DeadlinesAlways, PTL DEF Spec
=============================================================================
