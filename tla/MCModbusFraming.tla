-------------------------- MODULE MCModbusFraming --------------------------
(* Bursts for TLC: frames of 4 and 5 bytes; noise shorter than a frame and  *)
(* noise longer than mb_rx_frame.                                           *)
EXTENDS ModbusFraming

Burst(g, n) == [good |-> g, len |-> n]

AnyKind    == {Burst(TRUE, 4), Burst(TRUE, 5), Burst(FALSE, 7)}
TimelyKind == {Burst(TRUE, 5), Burst(FALSE, 2), Burst(FALSE, 8)}
BeatKind   == {Burst(TRUE, 4)}
=============================================================================
