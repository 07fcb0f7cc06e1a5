---------------------------- MODULE ByteChannel ----------------------------
(***************************************************************************)
(* What the receive half of usart_service.c promises its caller: a FIFO of *)
(* bytes that may lose bytes only at its newest end.  Bytes are numbered   *)
(* in the order they appear on the bus.  What is queued is never           *)
(* reordered, duplicated or overwritten by what arrives later.             *)
(***************************************************************************)
EXTENDS Integers, Sequences

VARIABLES bus,   \* number of bytes seen on the bus so far
          q,     \* bytes received and not yet handed to a caller
          out    \* bytes handed to callers of rs485_read, in order

vars == <<bus, q, out>>

Init == bus = 0 /\ q = <<>> /\ out = <<>>

\* A byte is queued, or lost because the receiver is down.
Arrive == /\ bus' = bus + 1
          /\ q' \in {q, Append(q, bus + 1)}
          /\ UNCHANGED out

\* Only the newest bytes of the queue can be lost.
LoseNewest == /\ \E k \in 0..Len(q) : q' = SubSeq(q, 1, k)
              /\ UNCHANGED <<bus, out>>

\* A caller takes the oldest bytes of the queue.
Deliver == /\ \E k \in 0..Len(q) : /\ out' = out \o SubSeq(q, 1, k)
                                   /\ q' = SubSeq(q, k + 1, Len(q))
           /\ UNCHANGED bus

Next == Arrive \/ LoseNewest \/ Deliver

Spec == Init /\ [][Next]_vars
=============================================================================
