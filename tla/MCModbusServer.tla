--------------------------- MODULE MCModbusServer ---------------------------
(* A holding register and a coil in two sectors; defaults differ from every *)
(* written value.  Two multiple writes that give one register different     *)
(* values show whose value it got.                                          *)
EXTENDS ModbusServer

CONSTANTS d, hr0, coil0, v1, v2, input0

MCDefault(k) == d

Write(unit, addr, data) == <<unit, "write", [addr |-> addr, data |-> data]>>
Read(unit, fc, addr)    == <<unit, fc, [addr |-> addr, data |-> <<>>]>>

MCFrames ==
    {Write("own", <<hr0, coil0>>, <<v1, v2>>), Write("all", <<hr0, BadAddr>>, <<v2, v2>>),
     Read("other", "read", <<hr0, coil0>>),
     Read("own", "read", <<hr0, coil0>>), Read("own", "input", <<input0, BadAddr>>)}
=============================================================================
