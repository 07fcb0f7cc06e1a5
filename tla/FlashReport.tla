---------------------------- MODULE FlashReport ----------------------------
(***************************************************************************)
(* What flashdb_port_zephyr.c tells about the flash chip at boot: its      *)
(* JEDEC identification, and the quad enable requirement (QER) that stands *)
(* in DWORD 15 of the basic flash parameter table of its SFDP.  The walk   *)
(* over the parameter headers trusts nothing of what the chip answers: it  *)
(* may name more headers than were read, repeat them, or give a table that *)
(* is empty or too short.                                                  *)
(*                                                                         *)
(* main prints both after the port is opened and before anything else      *)
(* accesses the flash; a failure of either is only printed.                *)
(***************************************************************************)
EXTENDS FlashPort, Sequences

CONSTANTS HDR_SIZE,     \* bytes of sfdp_hdr
          Addr,         \* 24-bit addresses of parameter tables
          Dw15At(_),    \* the four bytes of DWORD 15 of the table at an address
          Chip          \* what chips may answer: [magic, ph], ph the nph + 1 headers

Byte == 0..255

ASSUME ReportAssumption ==
    /\ HDR_SIZE \in Nat
    /\ \A a \in Addr : Dw15At(a) \in Byte \X Byte \X Byte \X Byte
    /\ \A c \in Chip :
          /\ c.magic \in BOOLEAN
          /\ c.ph \in Seq([id : {"bfp", "other"}, len : Byte, addr : Addr])

VARIABLES
    chip,     \* history: the chip of the last SFDP report, or NoChip
    walk,     \* the header loop: index i, bfp_addr and bfp_len_dw; or NoWalk
    report    \* the last report: its kind and result, and the QER printed

repVars == <<chip, walk, report>>

NoChip   == [magic |-> FALSE, ph |-> <<>>]
NoWalk   == [i |-> -1, addr |-> 0, len |-> 0]
NoReport == [kind |-> "none", result |-> "none", qer |-> 0]

ReportInit == Init /\ chip = NoChip /\ walk = NoWalk /\ report = NoReport

Told(kind, result, qer) == report' = [kind |-> kind, result |-> result, qer |-> qer]

-----------------------------------------------------------------------------
\* The identification opcodes that qspi_read_id_raw gets an answer to.
RawIds == SUBSET {"9F", "9E"}

\* flashdb_port_print_jedec_id: 9Fh and 9Eh are both tried; the driver's own
\* identification is asked only if neither is answered.
Jedec ==
    /\ walk = NoWalk /\ call = NoCall
    /\ IF flashdb_area = "null" THEN Told("jedec", "EACCES", 0)
       ELSE \E raw \in RawIds, api \in BOOLEAN :
              Told("jedec", IF raw # {} \/ api THEN "ok" ELSE "EIO", 0)
    /\ UNCHANGED <<vars, chip, walk>>

\* qspi_read_sfdp_raw fails, and with it the report.
SfdpUnread == Told("sfdp", "EIO", 0)

\* flashdb_port_print_sfdp_dw15 up to the loop.
SfdpBegin ==
    /\ walk = NoWalk /\ call = NoCall
    /\ IF flashdb_area = "null" THEN Told("sfdp", "EACCES", 0) /\ UNCHANGED <<chip, walk>>
       ELSE \E c \in Chip :
              /\ chip' = c
              /\ \/ SfdpUnread /\ UNCHANGED walk
                 \/ ~c.magic /\ Told("sfdp", "EINVAL", 0) /\ UNCHANGED walk
                 \/ c.magic /\ walk' = [i |-> 0, addr |-> 0, len |-> 0] /\ report' = NoReport
    /\ UNCHANGED vars

\* Header i was read completely.  Its bytes begin at 8 + 8 * i.
Whole(i) == 8 + 8 * i + 7 < HDR_SIZE

\* A header is taken unless a table was already found.
\* Mutant: the last one counts.
Taken_Last(h, len) == h.id = "bfp"
Taken(h, len) == h.id = "bfp" /\ len = 0

More == walk.i < Len(chip.ph) /\ Whole(walk.i)

SfdpHeader ==
    /\ walk # NoWalk /\ More
    /\ LET h == chip.ph[walk.i + 1]
       IN  walk' = IF Taken(h, walk.len) THEN [i |-> walk.i + 1, addr |-> h.addr, len |-> h.len]
                   ELSE [walk EXCEPT !.i = @ + 1]
    /\ UNCHANGED <<vars, chip, report>>

\* u32_from_le_bytes, and the three bits from 20 on.
U32(b) == b[1] + b[2] * 256 + b[3] * 65536 + b[4] * 16777216
Qer(b) == (U32(b) \div 1048576) % 8

\* After the loop the table itself is read.
SfdpEnd ==
    /\ walk # NoWalk /\ ~More
    /\ \/ walk.len < 15 /\ Told("sfdp", "ENOTSUP", 0)
       \/ walk.len >= 15 /\ SfdpUnread
       \/ walk.len >= 15 /\ Told("sfdp", "ok", Qer(Dw15At(walk.addr)))
    /\ walk' = NoWalk
    /\ UNCHANGED <<vars, chip>>

Report == Jedec \/ SfdpBegin \/ SfdpHeader \/ SfdpEnd

\* main's thread does one thing at a time.
ReportNext == \/ Report
              \/ /\ walk = NoWalk /\ Next
                 /\ chip' = NoChip /\ walk' = NoWalk /\ report' = NoReport

allVars == <<vars, repVars>>

ReportSpec == ReportInit /\ [][ReportNext]_allVars

-----------------------------------------------------------------------------
(* Properties.                                                             *)

\* Headers of basic parameter tables that have any content and were read.
Tables == {k \in 1..Len(chip.ph) :
              Whole(k - 1) /\ chip.ph[k].id = "bfp" /\ chip.ph[k].len # 0}

\* The table a reader of the standard takes: the first of them.
IsTable(k) == k \in Tables /\ \A j \in Tables : k <= j

\* Whatever a chip answers, a QER that is printed is bits 4 to 6 of the third
\* byte of DWORD 15 of that table, and the report calls DWORD 15 missing exactly
\* when the table is missing or shorter.
ReportIsRight ==
    report.kind = "sfdp" =>
       /\ report.result = "ok" =>
             \E k \in Tables : /\ IsTable(k) /\ chip.ph[k].len >= 15
                               /\ report.qer = (Dw15At(chip.ph[k].addr)[3] \div 16) % 8
       /\ report.result = "ENOTSUP" => \A k \in Tables : IsTable(k) => chip.ph[k].len < 15
=============================================================================
