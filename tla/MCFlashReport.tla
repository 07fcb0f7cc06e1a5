--------------------------- MODULE MCFlashReport ---------------------------
(* Chips with up to three headers of which two fit the buffer; tables that *)
(* are empty, one DWORD too short, and long enough.                        *)
EXTENDS FlashReport

MCAddr == {0, 48}
\* The top byte stays below 128: TLC's integers have 32 bits.
MCDw15At(a) == IF a = 0 THEN <<255, 255, 175, 127>> ELSE <<0, 1, 80, 1>>

\* Header k names the table at 0 or 48 in turn, so that it shows which was taken.
MCHeader(k) == [id : {"bfp", "other"}, len : {0, 14, 15}, addr : {48 * (k % 2)}]
MCHeaders == {<<g, h>> : g \in MCHeader(1), h \in MCHeader(2)}
MCChip ==
    {[magic |-> m, ph |-> ph] : m \in BOOLEAN, ph \in {<<h>> : h \in MCHeader(1)}} \cup
    {[magic |-> TRUE, ph |-> ph] : ph \in MCHeaders \cup
                                  {Append(p, h) : p \in MCHeaders, h \in MCHeader(3)}}
=============================================================================
