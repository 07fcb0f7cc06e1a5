---------------------------- MODULE CanService -----------------------------
(***************************************************************************)
(* can_service.c: filters, receive queue and start-up of the CAN port.     *)
(*                                                                         *)
(* Threads in Caller configure and send; the controller's interrupt queues *)
(* every frame that an installed filter accepts, also between the steps of *)
(* a configuration.  The Zephyr driver is external: a table of filter      *)
(* elements, separate ones for standard and extended identifiers, and a    *)
(* started flag.  An identifier is the set of its one bits, so that        *)
(* "id > mask of all bits" is "a bit outside those bits is set".           *)
(***************************************************************************)
EXTENDS Integers, Sequences, FiniteSets

CONSTANTS Caller,
          StdBit, ExtBit, Bit,   \* bits of CAN_STD_ID_MASK, of CAN_EXT_ID_MASK, of a uint32_t
          StdSlot, ExtSlot,      \* filter elements of the controller
          CAN_RX_MSGQ_LEN,
          CAN_MAX_DLC,
          Request,               \* filters the callers ask for
          Traffic,               \* frames on the bus
          Sending                \* arguments of the sends

ASSUME CanAssumption ==
    /\ StdBit \subseteq ExtBit /\ ExtBit \subseteq Bit
    /\ StdSlot \subseteq Nat /\ ExtSlot \subseteq Nat /\ StdSlot \cap ExtSlot = {}
    /\ CAN_RX_MSGQ_LEN \in Nat \ {0} /\ CAN_MAX_DLC \in Nat
    /\ Request \subseteq [ide : BOOLEAN, id : SUBSET Bit, mask : SUBSET Bit]
    /\ Traffic \subseteq [ide : BOOLEAN, id : SUBSET ExtBit]
    /\ Sending \subseteq [ide : BOOLEAN, id : SUBSET Bit, hasData : BOOLEAN, len : Nat]

VARIABLES
    pc, req,          \* per caller: its place, and the call it is in
    can_rx_filter_id, \* can_rx_filter_std_id (FALSE) and can_rx_filter_ext_id (TRUE)
    can_rx_msgq,
    table,            \* the driver's filter elements
    started,          \* the controller takes part in the bus
    sent,             \* frames handed to the controller by the last send
    want,             \* history: filters the last call that got past its checks installed
    overlap           \* history: two callers have been configuring at the same time

vars == <<pc, req, can_rx_filter_id, can_rx_msgq, table, started, sent, want, overlap>>

Slot    == StdSlot \cup ExtSlot
Free    == [none |-> TRUE]
IdBit(ide) == IF ide THEN ExtBit ELSE StdBit
NoCall  == [starts |-> FALSE, todo |-> <<>>, got |-> -1]
StdAll  == [ide |-> FALSE, id |-> {}, mask |-> {}]
ExtAll  == [ide |-> TRUE,  id |-> {}, mask |-> {}]
Legal   == [ide : {FALSE}, id : SUBSET StdBit] \cup [ide : {TRUE}, id : SUBSET ExtBit]

Installed  == {table[s] : s \in Slot} \ {Free}
Match(f, frame) == f.ide = frame.ide /\ f.id \cap f.mask = frame.id \cap f.mask
Accepted(frame) == \E f \in Installed : Match(f, frame)

TypeOK ==
    /\ pc \in [Caller -> {"idle", "stop", "setup", "rmStd", "clrStd", "rmExt", "clrExt",
                          "purge", "add", "record", "start"}]
    /\ can_rx_filter_id \in [BOOLEAN -> Slot \cup {-1}]
    /\ can_rx_msgq \in Seq(Traffic) /\ Len(can_rx_msgq) <= CAN_RX_MSGQ_LEN
    /\ Installed \subseteq Request \cup {StdAll, ExtAll}
    /\ \A f \in Installed : f.id \cup f.mask \subseteq IdBit(f.ide)
    /\ started \in BOOLEAN /\ sent \subseteq Legal

Init ==
    /\ pc = [c \in Caller |-> "idle"] /\ req = [c \in Caller |-> NoCall]
    /\ can_rx_filter_id = [ide \in BOOLEAN |-> -1]
    /\ can_rx_msgq = <<>> /\ table = [s \in Slot |-> Free]
    /\ started = FALSE /\ sent = {} /\ want = {} /\ overlap = FALSE

Goto(c, place)    == pc' = [pc EXCEPT ![c] = place]
Step(c, from, to) == pc[c] = from /\ Goto(c, to)
Call(c, to, r)    == /\ Step(c, "idle", to) /\ req' = [req EXCEPT ![c] = r]
                     /\ overlap' = (overlap \/ \E d \in Caller \ {c} : pc[d] # "idle")
Keep(c, from, to) == Step(c, from, to) /\ UNCHANGED req
Return(c, from)   == Step(c, from, "idle") /\ req' = [req EXCEPT ![c] = NoCall]

-----------------------------------------------------------------------------
(* can_service_init up to the filters.                                     *)

\* (A device that is not ready ends the call at once, with no effect.)
InitCall(c) ==
    /\ Call(c, "stop", [NoCall EXCEPT !.starts = TRUE, !.todo = <<StdAll, ExtAll>>])
    /\ UNCHANGED <<can_rx_filter_id, can_rx_msgq, table, started, sent, want>>

\* can_stop; -EALREADY counts as success.
Stop(c) ==
    /\ \/ Keep(c, "stop", "setup") /\ started' = FALSE
       \/ Return(c, "stop") /\ UNCHANGED started
    /\ UNCHANGED <<can_rx_filter_id, can_rx_msgq, table, sent, want, overlap>>

\* can_set_mode and can_set_bitrate.
Setup(c) ==
    /\ Keep(c, "setup", "rmStd") \/ Return(c, "setup")
    /\ UNCHANGED <<can_rx_filter_id, can_rx_msgq, table, started, sent, want, overlap>>

-----------------------------------------------------------------------------
(* Replacing the filters.                                                  *)

\* can_service_set_rx_filter: the checks come before anything is removed, and a
\* filter that fails them changes nothing.
\* Mutant: only the identifier is checked.
ValidFilter_IdOnly(f) == f.id \subseteq IdBit(f.ide)
ValidFilter(f) == f.id \cup f.mask \subseteq IdBit(f.ide)

SetFilterCall(c, f) ==
    /\ ValidFilter(f) /\ Call(c, "rmStd", [NoCall EXCEPT !.todo = <<f>>])
    /\ UNCHANGED <<can_rx_filter_id, can_rx_msgq, table, started, sent, want>>

\* The two halves of can_remove_all_filters: each tests the identifier and calls
\* the driver, then forgets it.
RemoveFilter(c, ide) ==
    /\ IF ide THEN Step(c, "rmExt", "clrExt") ELSE Step(c, "rmStd", "clrStd")
    /\ table' = IF can_rx_filter_id[ide] >= 0
                THEN [table EXCEPT ![can_rx_filter_id[ide]] = Free] ELSE table
    /\ want' = {}
    /\ UNCHANGED <<req, can_rx_filter_id, can_rx_msgq, started, sent, overlap>>

\* Where set_rx_filter goes from there.
\* Mutant: the extended filter is not removed.
AfterStd_Skip == "purge"
AfterStd == "rmExt"

ForgetFilter(c, ide) ==
    /\ IF ide THEN Step(c, "clrExt", "purge") ELSE Step(c, "clrStd", AfterStd)
    /\ can_rx_filter_id' = [can_rx_filter_id EXCEPT ![ide] = -1]
    /\ UNCHANGED <<req, can_rx_msgq, table, started, sent, want, overlap>>

\* Mutant: the queue keeps what the removed filters let in.
Purged_Not(q) == q
Purged(q) == <<>>

Purge(c) ==
    /\ Step(c, "purge", "add")
    /\ can_rx_msgq' = Purged(can_rx_msgq)
    /\ UNCHANGED <<req, can_rx_filter_id, table, started, sent, want, overlap>>

\* can_add_rx_filter_msgq.  A failure ends the call, except for the extended
\* filter of set_rx_filter_all.
AddFilter(c) ==
    /\ pc[c] = "add" /\ req[c].todo # <<>>
    /\ LET f == Head(req[c].todo)
           last == f = ExtAll /\ req[c].starts
       IN  \/ \E s \in IF f.ide THEN ExtSlot ELSE StdSlot :
                 /\ table[s] = Free
                 /\ table' = [table EXCEPT ![s] = f]
                 /\ req' = [req EXCEPT ![c].got = s]
                 /\ Goto(c, "record")
           \/ last  /\ req' = [req EXCEPT ![c].todo = <<>>] /\ UNCHANGED <<pc, table>>
           \/ ~last /\ Return(c, "add") /\ UNCHANGED table
    /\ UNCHANGED <<can_rx_filter_id, can_rx_msgq, started, sent, want, overlap>>

RecordFilter(c) ==
    /\ Step(c, "record", "add")
    /\ LET f == Head(req[c].todo)
       IN  /\ can_rx_filter_id' = [can_rx_filter_id EXCEPT ![f.ide] = req[c].got]
           /\ want' = want \cup {f}
    /\ req' = [req EXCEPT ![c].todo = Tail(@)]
    /\ UNCHANGED <<can_rx_msgq, table, started, sent, overlap>>

\* set_rx_filter returns; init goes on to can_start.
FiltersDone(c) ==
    /\ req[c].todo = <<>>
    /\ IF req[c].starts THEN Keep(c, "add", "start") ELSE Return(c, "add")
    /\ UNCHANGED <<can_rx_filter_id, can_rx_msgq, table, started, sent, want, overlap>>

Start(c) ==
    /\ Return(c, "start")
    /\ started' = TRUE \/ UNCHANGED started
    /\ UNCHANGED <<can_rx_filter_id, can_rx_msgq, table, sent, want, overlap>>

-----------------------------------------------------------------------------
(* Traffic.                                                                *)

\* can_service_send_internal's checks.
SendRefused(a) ==
    \/ ~a.hasData /\ a.len > 0
    \/ a.len > CAN_MAX_DLC
    \/ ~(a.id \subseteq IdBit(a.ide))

\* can_service_send and can_service_send_ext; can_send fails unless started.
Send(c, a) ==
    /\ pc[c] = "idle"
    /\ sent' \in IF SendRefused(a) \/ ~started THEN {{}}
                 ELSE {{}, {[ide |-> a.ide, id |-> a.id]}}
    /\ UNCHANGED <<pc, req, can_rx_filter_id, can_rx_msgq, table, started, want, overlap>>

\* The receive interrupt: k_msgq_put without waiting; a full queue drops the frame.
Receive(frame) ==
    /\ started /\ Accepted(frame) /\ Len(can_rx_msgq) < CAN_RX_MSGQ_LEN
    /\ can_rx_msgq' = Append(can_rx_msgq, frame)
    /\ UNCHANGED <<pc, req, can_rx_filter_id, table, started, sent, want, overlap>>

\* can_service_read with a frame queued; otherwise it waits or times out.
Read ==
    /\ can_rx_msgq # <<>> /\ can_rx_msgq' = Tail(can_rx_msgq)
    /\ UNCHANGED <<pc, req, can_rx_filter_id, table, started, sent, want, overlap>>

Configure(c) ==
    \/ InitCall(c) \/ Stop(c) \/ Setup(c)
    \/ \E f \in Request : SetFilterCall(c, f)
    \/ \E ide \in BOOLEAN : RemoveFilter(c, ide) \/ ForgetFilter(c, ide)
    \/ Purge(c) \/ AddFilter(c) \/ RecordFilter(c) \/ FiltersDone(c) \/ Start(c)

Next ==
    \/ \E c \in Caller : Configure(c) \/ \E a \in Sending : Send(c, a)
    \/ \E frame \in Traffic : Receive(frame)
    \/ Read

Spec == Init /\ [][Next]_vars

-----------------------------------------------------------------------------
(* Properties.                                                             *)

\* A removal not yet followed by its purge.
Removing(c) == pc[c] \in {"clrStd", "rmExt", "clrExt", "purge"}

\* The queue never holds a frame that only a replaced filter would have let in:
\* the interrupt may queue one while the filters are being removed, but the purge
\* comes after the last removal.  Holds for concurrent callers too.
OnlyMatchingFrames ==
    (\A c \in Caller : ~Removing(c)) =>
        \A i \in 1..Len(can_rx_msgq) : Accepted(can_rx_msgq[i])

\* Between calls the controller's filters are those of the last call that passed
\* its checks, none if it failed, and the two identifiers on record lead to all of
\* them: no filter is leaked, so repeated calls never run out of elements.  Only as
\* long as callers take turns: nothing protects the identifiers.
FiltersAsConfigured ==
    (\A c \in Caller : pc[c] = "idle") /\ ~overlap =>
        /\ Installed = want
        /\ {s \in Slot : table[s] # Free} = {can_rx_filter_id[ide] : ide \in BOOLEAN} \ {-1}
=============================================================================
