---------------------------- MODULE ModbusServer ----------------------------
(***************************************************************************)
(* modbus_service.c above the framing, composed with the points store:     *)
(* modbus_submit_frame hands a frame to the server of Zephyr, which works  *)
(* on it on a work queue, calls the point callbacks one register at a time *)
(* and sends the answer through modbus_raw_tx_cb.                          *)
(*                                                                         *)
(* The interface has one receive ADU.  main overwrites it whenever a frame *)
(* ends, also while the work queue waits for the flash or the line, and    *)
(* the work queue may preempt main in the middle of the copy.  Work        *)
(* submitted while the handler runs makes it run once more.  The handler   *)
(* copies the head of the ADU when it begins but takes the values of a     *)
(* multiple write from the ADU as it goes.                                 *)
(*                                                                         *)
(* A frame is <<unit, function, data>> without its CRC; functions are      *)
(* those with a callback, and data names the registers and their values.   *)
(***************************************************************************)
EXTENDS PointsStore, Sequences

CONSTANTS RtuFrame,   \* frames with a good CRC that appear on the line
          InputReg,   \* addresses below MB_INPUT_REG_NUM
          Beat        \* content of an input register

\* A request names consecutive registers: no point twice.
ASSUME ServerAssumption ==
    /\ \A f \in RtuFrame :
          /\ f # <<>>
          /\ f[1] \in {"own", "all", "other"} /\ f[2] \in {"read", "write", "input"}
          /\ f[3].addr \in Seq(Key \cup InputReg \cup {BadAddr}) /\ f[3].addr # <<>>
          /\ \A i, j \in 1..Len(f[3].addr) :
                i # j /\ f[3].addr[i] \in Key => f[3].addr[i] # f[3].addr[j]
          /\ f[3].data \in Seq(Value)
          /\ f[2] = "write" => Len(f[3].data) = Len(f[3].addr)
    /\ NOWHERE \notin Value /\ \A k \in Key : DefaultOf(k) # NOWHERE

VARIABLES
    copying,  \* frame that main is copying into rx_adu, <<>> when it is not
    rx_adu,   \* the receive ADU of the interface
    work,     \* the work item is queued
    handler,  \* the run of the handler in progress, or Resting
    reply     \* history: the last answer, None once another request arrives or is begun

adu     == <<copying, rx_adu>>
srv     == <<adu, work, handler, reply>>
sysVars == <<vars, srv>>

None    == [fc |-> "none"]
Resting == [stage |-> "rest", req |-> None, mixed |-> FALSE]

\* The receive ADU after a reset: zeros.
ZeroAdu == [unit_id |-> "all", fc |-> "none", addr |-> <<>>, data |-> <<>>]

SysInit == /\ Init
           /\ copying = <<>> /\ rx_adu = ZeroAdu /\ work = FALSE
           /\ handler = Resting /\ reply = None

-----------------------------------------------------------------------------
(* main.                                                                   *)

\* The ADU that modbus_submit_frame builds.
AduOf(frame) == [unit_id |-> frame[1], fc |-> frame[2],
                 addr |-> frame[3].addr, data |-> frame[3].data]

\* Values of the request are still to be taken from rx_adu.
InMultipleWrite ==
    /\ handler # Resting /\ handler.req.fc = "write"
    /\ handler.stage # "respond" /\ handler.i < Len(handler.req.addr)

\* modbus_submit_frame with a good frame: modbus_raw_submit_rx copies the ADU field by
\* field, the head first.  History: a multiple write under way is mixed with the
\* new request from here on.
CopyHead(frame) ==
    /\ pc = "run" /\ copying = <<>>
    /\ copying' = frame
    /\ rx_adu' = [rx_adu EXCEPT !.unit_id = frame[1], !.fc = frame[2]]
    /\ handler' = IF InMultipleWrite THEN [handler EXCEPT !.mixed = TRUE] ELSE handler
    /\ reply' = None
    /\ UNCHANGED <<vars, work>>

CopyAddr ==
    /\ copying # <<>>
    /\ rx_adu' = [rx_adu EXCEPT !.addr = copying[3].addr]
    /\ UNCHANGED <<vars, copying, work, handler, reply>>

\* The rest of the copy, and the work item is queued.
Submit ==
    /\ copying # <<>>
    /\ rx_adu' = AduOf(copying) /\ copying' = <<>>
    /\ work' = TRUE
    /\ UNCHANGED <<vars, handler, reply>>

-----------------------------------------------------------------------------
(* The work queue.                                                         *)

\* Value i in the ADU.  Behind the values of a shorter request lies what earlier
\* ones have left.
Word(i) == IF i \in DOMAIN rx_adu.data THEN {rx_adu.data[i]} ELSE Value

\* The handler begins.  When it has preempted the copy its request is a mixture,
\* which may be malformed and then reaches no callback.  req.data is remembered
\* for the properties only: the handler has the first value (next) and will look
\* up the others.
Begin ==
    /\ work /\ work' = FALSE /\ handler = Resting
    /\ \/ /\ rx_adu.unit_id = "other" \/ copying # <<>>
          /\ UNCHANGED <<handler, reply>>
       \/ /\ rx_adu.unit_id # "other"
          /\ \E v \in IF rx_adu.fc = "write" THEN Word(1) ELSE {0} :
                handler' = [stage |-> "access", req |-> rx_adu, mixed |-> copying # <<>>,
                            i |-> 1, ok |-> TRUE, got |-> <<>>, next |-> v]
          /\ reply' = None
    /\ UNCHANGED <<vars, adu>>

Addr == handler.req.addr[handler.i]

\* One register is dealt with: the next one, or the answer.
Advance(v) ==
    LET more == handler.i < Len(handler.req.addr)
    IN  \E w \in IF more /\ handler.req.fc = "write" THEN Word(handler.i + 1) ELSE {0} :
           handler' = [handler EXCEPT
              !.stage = IF more THEN "access" ELSE "respond",
              !.i = IF more THEN @ + 1 ELSE @,
              !.got = IF handler.req.fc = "write" THEN @ ELSE Append(@, v),
              !.next = w]

\* A callback returned an error: the answer will be an exception.
Except == handler' = [handler EXCEPT !.stage = "respond", !.ok = FALSE, !.got = <<>>, !.next = 0]

\* holding_reg_rd and coil_rd.
ReadPoint ==
    /\ handler.stage = "access" /\ handler.req.fc = "read"
    /\ Get(Addr)
    /\ IF ret' # "ok" THEN Except ELSE Advance(IF Addr \in Key THEN val[Addr] ELSE 0)
    /\ UNCHANGED <<adu, work, reply>>

\* input_reg_rd.
ReadInput ==
    /\ handler.stage = "access" /\ handler.req.fc = "input"
    /\ IF Addr \in InputReg THEN Advance(Beat) ELSE Except
    /\ UNCHANGED <<vars, adu, work, reply>>

\* holding_reg_wr and coil_wr begin.  A refusal is returned at once.
WriteBegins ==
    /\ handler.stage = "access" /\ handler.req.fc = "write"
    /\ SetStart(Addr, handler.next)
    /\ IF call' = Idle THEN Except ELSE handler' = [handler EXCEPT !.stage = "flash"]
    /\ UNCHANGED <<adu, work, reply>>

\* What holding_reg_wr and coil_wr return: the error of fdb_kv_set_blob.
\* Mutant: it is lost on the way.
WriteFails_Not == FALSE
WriteFails == ret' # "ok"

\* ... and return.
WriteEnds ==
    /\ handler.stage = "flash"
    /\ SetReturn
    /\ IF WriteFails THEN Except ELSE Advance(0)
    /\ UNCHANGED <<adu, work, reply>>

\* A broadcast is not answered.  Else modbus_raw_tx_cb sends the answer; rs485_write
\* may fail, and then nobody hears it.
Respond ==
    /\ handler.stage = "respond" /\ handler' = Resting
    /\ \/ /\ handler.req.unit_id = "own"
          /\ reply' = [to |-> handler.req, ok |-> handler.ok, got |-> handler.got]
       \/ UNCHANGED reply
    /\ UNCHANGED <<vars, adu, work>>

Work == Begin \/ ReadPoint \/ ReadInput \/ WriteBegins \/ WriteEnds \/ Respond

BootStep == Boot /\ UNCHANGED srv
Blackout == /\ PowerCycle
            /\ copying' = <<>> /\ rx_adu' = ZeroAdu /\ work' = FALSE
            /\ handler' = Resting /\ reply' = None

Main == (\E frame \in RtuFrame : CopyHead(frame)) \/ CopyAddr \/ Submit

SysNext == BootStep \/ Blackout \/ Main \/ Work

SysSpec == SysInit /\ [][SysNext]_sysVars

-----------------------------------------------------------------------------
(* Properties.                                                             *)

Asked == IF copying # <<>> \/ rx_adu = ZeroAdu THEN None ELSE rx_adu
Content == [k \in Key |-> IF at[k] = NOWHERE THEN NOWHERE ELSE val[k]]

Promise == INSTANCE PointServer
             WITH Input <- InputReg, Absent <- NOWHERE,
                  up <- server_up, regs <- Content, arriving <- copying # <<>>, asked <- Asked,
                  serving <- handler.req, mixed <- handler.mixed

\* The firmware keeps the promise of PointServer, whatever flash errors, lost
\* answers, power failures, retries and overwritten requests come together: what
\* is answered is stored, and points change only to what their request said,
\* unless the next one arrived in the middle of it.
KeepsPromise == Promise!Spec
=============================================================================
