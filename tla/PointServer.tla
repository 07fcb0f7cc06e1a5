---------------------------- MODULE PointServer ----------------------------
(***************************************************************************)
(* What the Modbus server of the M7 firmware promises its master, seen     *)
(* from the bus: the points are a register file that only the request      *)
(* being served changes, and only to what that request says.  A positive   *)
(* answer to a write means that all of it is stored; a positive answer to  *)
(* a read carries the present values.  Requests and answers may get lost,  *)
(* a request that is refused or interrupted may have been carried out in   *)
(* part, and while the server is down points may fall back to absent and   *)
(* from there to their default.                                            *)
(*                                                                         *)
(* There is room for one request.  Two are mixed up when the next one      *)
(* arrives in the middle of a write of several points, or when one is      *)
(* taken up while the next arrives: the points named then get some value,  *)
(* not necessarily the one asked for.  No other request is affected, and   *)
(* what is not named keeps its value even then.                            *)
(***************************************************************************)
EXTENDS Integers, Sequences

CONSTANTS Key, Input,     \* points, and input registers
          Value,          \* what can be written to a point
          DefaultOf(_),
          Absent,         \* a point without a record
          None            \* no request

VARIABLES up,       \* the server is running
          regs,     \* the points
          arriving, \* a request is arriving
          asked,    \* the last request, once it has arrived: [unit_id, fc, addr, data]
          serving,  \* request being carried out
          mixed,    \* ... which was mixed up with another
          reply     \* last answer on the bus, until another request comes: [to, ok, got]

vars == <<up, regs, arriving, asked, serving, mixed, reply>>

Init == /\ up = FALSE /\ regs = [k \in Key |-> Absent]
        /\ arriving = FALSE /\ asked = None
        /\ serving = None /\ mixed = FALSE /\ reply = None

Fallback == /\ ~up
            /\ DOMAIN regs' = Key
            /\ \A k \in Key : \/ regs'[k] \in {regs[k], Absent}
                              \/ regs[k] = Absent /\ regs'[k] = DefaultOf(k)
            /\ UNCHANGED <<up, arriving, asked, serving, mixed, reply>>

Start == up' = TRUE /\ UNCHANGED <<regs, arriving, asked, serving, mixed, reply>>

Stop == /\ up' = FALSE /\ arriving' = FALSE /\ asked' = None
        /\ serving' = None /\ mixed' = FALSE /\ reply' = None
        /\ UNCHANGED regs

\* A write of several points is being carried out.
Several == serving # None /\ serving.fc = "write" /\ Len(serving.addr) > 1

Arrive == /\ up /\ ~arriving /\ arriving' = TRUE
          /\ asked' = None /\ reply' = None
          /\ mixed' = mixed \/ (Several /\ mixed' = TRUE)
          /\ UNCHANGED <<up, regs, serving>>

Ask == /\ arriving /\ arriving' = FALSE /\ asked' # None
       /\ UNCHANGED <<up, regs, serving, mixed, reply>>

\* Only the last request can be taken up, and not one for another unit.
Serve == /\ up /\ serving = None
         /\ serving' # None /\ serving'.unit_id # "other" /\ reply' = None
         /\ IF arriving THEN mixed' = TRUE ELSE mixed' = FALSE /\ serving' = asked
         /\ UNCHANGED <<up, regs, arriving, asked>>

Store == /\ up /\ serving # None /\ serving.fc = "write"
         /\ \E i \in 1..Len(serving.addr), v \in Value :
               /\ serving.addr[i] \in Key
               /\ mixed \/ v = serving.data[i]
               /\ regs' = [regs EXCEPT ![serving.addr[i]] = v]
         /\ UNCHANGED <<up, arriving, asked, serving, mixed, reply>>

\* The answer fits the request and the points.  A refused write may have stored
\* anything, and a read may be refused because the flash could not be read.
Fits(r) ==
    LET addr == serving.addr
        All(S) == \A i \in 1..Len(addr) : addr[i] \in S
        Present == {k \in Key : regs[k] # Absent}
    IN  CASE serving.fc = "write" -> r.ok =>
                /\ All(Present)
                /\ ~mixed => \A i \in 1..Len(addr) : regs[addr[i]] = serving.data[i]
          [] serving.fc = "read"  -> r.ok =>
                All(Present) /\ r.got = [i \in 1..Len(addr) |-> regs[addr[i]]]
          [] serving.fc = "input" -> r.ok = All(Input)

Answer == /\ serving # None /\ serving.unit_id = "own"
          /\ reply' # None /\ reply'.to = serving /\ Fits(reply')
          /\ serving' = None /\ mixed' = FALSE
          /\ UNCHANGED <<up, regs, arriving, asked>>

\* A broadcast, or an answer that could not be sent.
NoAnswer == /\ serving # None /\ serving' = None /\ mixed' = FALSE
            /\ UNCHANGED <<up, regs, arriving, asked, reply>>

Next == \/ Fallback \/ Start \/ Stop
        \/ Arrive \/ Ask \/ Serve \/ Store \/ Answer \/ NoAnswer

Spec == Init /\ [][Next]_vars
=============================================================================
