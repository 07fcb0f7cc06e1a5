-------------------------- MODULE CanServiceProofs --------------------------
(***************************************************************************)
(* The CAN service, for any callers, filters, traffic and numbers of       *)
(* filter elements.                                                        *)
(***************************************************************************)
EXTENDS CanService, TLAPS

\* Filters that pass the checks, and lists of filters a call has still to add.
Valid == {f \in Request \cup {StdAll, ExtAll} : f.id \cup f.mask \subseteq IdBit(f.ide)}
Todo  == {<<>>, <<StdAll, ExtAll>>} \cup {<<f>> : f \in Valid}

SlotOf(ide) == IF ide THEN ExtSlot ELSE StdSlot

Place == {"idle", "stop", "setup", "rmStd", "clrStd", "rmExt", "clrExt",
          "purge", "add", "record", "start"}

\* The types, one variable or two at a time; a call that is about to record an
\* identifier got a filter element of the right kind.
PcType    == pc \in [Caller -> Place]
ReqType   == req \in [Caller -> [starts : BOOLEAN, todo : Todo, got : Slot \cup {-1}]]
GotType   == \A c \in Caller : pc[c] = "record" =>
                 req[c].todo # <<>> /\ req[c].got \in SlotOf(Head(req[c].todo).ide)
IdType    == /\ can_rx_filter_id \in [BOOLEAN -> Slot \cup {-1}]
             /\ \A ide \in BOOLEAN : can_rx_filter_id[ide] \in SlotOf(ide) \cup {-1}
QueueType == can_rx_msgq \in Seq(Traffic) /\ Len(can_rx_msgq) <= CAN_RX_MSGQ_LEN
TableType == table \in [Slot -> Valid \cup {Free}] /\ want \subseteq Valid
BusType   == started \in BOOLEAN /\ sent \subseteq Legal

CanType == PcType /\ ReqType /\ GotType /\ IdType /\ QueueType /\ TableType /\ BusType

-----------------------------------------------------------------------------
(* The data.                                                               *)

LEMMA SlotFacts ==
    /\ StdSlot \subseteq Slot /\ ExtSlot \subseteq Slot /\ StdSlot \cap ExtSlot = {}
    /\ \A s \in Slot : s >= 0 /\ s # -1
    /\ \A ide \in BOOLEAN : SlotOf(ide) \subseteq Slot
BY CanAssumption DEF Slot, SlotOf

LEMMA ValidFacts ==
    /\ StdAll \in Valid /\ ExtAll \in Valid
    /\ \A f \in Valid : /\ f.ide \in BOOLEAN /\ f # Free
                        /\ f \in Request \cup {StdAll, ExtAll}
                        /\ f.id \cup f.mask \subseteq IdBit(f.ide)
<1>1. StdAll \in Valid /\ ExtAll \in Valid
      BY DEF Valid, StdAll, ExtAll
<1>2. ASSUME NEW f \in Valid
      PROVE  /\ f.ide \in BOOLEAN /\ f # Free
             /\ f \in Request \cup {StdAll, ExtAll}
             /\ f.id \cup f.mask \subseteq IdBit(f.ide)
  <2>1. f \in Request \cup {StdAll, ExtAll} /\ f.id \cup f.mask \subseteq IdBit(f.ide)
        BY DEF Valid
  <2>2. f \in [ide : BOOLEAN, id : SUBSET Bit, mask : SUBSET Bit]
    <3>1. {StdAll, ExtAll} \subseteq [ide : BOOLEAN, id : SUBSET Bit, mask : SUBSET Bit]
          BY DEF StdAll, ExtAll
    <3>2. QED BY <2>1, <3>1, CanAssumption
  <2>3. DOMAIN f = {"ide", "id", "mask"} /\ DOMAIN Free = {"none"}
        BY <2>2 DEF Free
  <2>4. f # Free
        BY <2>3
  <2>5. QED BY <2>1, <2>2, <2>4
<1>3. QED BY <1>1, <1>2

\* What a call has to add is a sequence of valid filters, each kind at most once.
LEMMA TodoFacts ==
    ASSUME NEW t \in Todo
    PROVE  /\ t # <<>> => Head(t) \in Valid /\ Tail(t) \in Todo /\ Len(t) >= 1
           /\ \A i \in 1..Len(t) : t[i] \in Valid
           /\ \A i, j \in 1..Len(t) : i # j => t[i].ide # t[j].ide
<1>1. CASE t = <<>>
      BY <1>1
<1>2. CASE t = <<StdAll, ExtAll>>
  <2>1. Tail(t) = <<ExtAll>> /\ Head(t) = StdAll /\ Len(t) = 2 /\ t[1] = StdAll /\ t[2] = ExtAll
        BY <1>2
  <2>2. StdAll.ide = FALSE /\ ExtAll.ide = TRUE
        BY DEF StdAll, ExtAll
  <2>3. QED BY <2>1, <2>2, ValidFacts DEF Todo
<1>3. CASE \E f \in Valid : t = <<f>>
      BY <1>3 DEF Todo
<1>4. QED BY <1>1, <1>2, <1>3 DEF Todo

\* The type invariant of the module follows from the parts.
LEMMA TypeFromParts == CanType => TypeOK
<1> SUFFICES ASSUME CanType PROVE TypeOK
    OBVIOUS
<1>1. Installed \subseteq Valid
      BY DEF CanType, TableType, Installed
<1>2. QED BY <1>1, ValidFacts DEF CanType, PcType, Place, IdType, QueueType, BusType, TypeOK

-----------------------------------------------------------------------------
(* Type correctness, one group of steps at a time.                         *)

LEMMA CanTypeInit == Init => CanType
<1> SUFFICES ASSUME Init PROVE CanType
    OBVIOUS
<1>1. PcType /\ BusType
      BY DEF Init, PcType, Place, BusType
<1>2. QueueType
      BY CanAssumption DEF Init, QueueType
<1>3. ReqType /\ GotType
      BY DEF Init, ReqType, GotType, NoCall, Todo
<1>4. IdType
      BY DEF Init, IdType
<1>5. TableType
      BY DEF Init, TableType
<1>6. QED BY <1>1, <1>2, <1>3, <1>4, <1>5 DEF CanType

\* Moving a caller, and giving it something else to do, keep the types as long as
\* a caller about to record has the filter element it got.
LEMMA MoveType ==
    ASSUME PcType, ReqType, GotType, NEW c \in Caller, NEW place \in Place,
           NEW r \in [starts : BOOLEAN, todo : Todo, got : Slot \cup {-1}],
           place = "record" => r.todo # <<>> /\ r.got \in SlotOf(Head(r.todo).ide),
           pc' = [pc EXCEPT ![c] = place], req' = [req EXCEPT ![c] = r]
    PROVE  PcType' /\ ReqType' /\ GotType'
<1>1. PcType' /\ ReqType'
      BY DEF PcType, ReqType
<1>2. ASSUME NEW d \in Caller, pc'[d] = "record"
      PROVE  req'[d].todo # <<>> /\ req'[d].got \in SlotOf(Head(req'[d].todo).ide)
  <2>1. CASE d = c
        BY <1>2, <2>1 DEF PcType, ReqType
  <2>2. CASE d # c
        BY <1>2, <2>2 DEF PcType, ReqType, GotType
  <2>3. QED BY <2>1, <2>2
<1>3. GotType'
      BY <1>2 DEF GotType
<1>4. QED BY <1>1, <1>3

\* A caller that keeps its call and does not go on to record.
LEMMA KeepType ==
    ASSUME PcType, ReqType, GotType, NEW c \in Caller, NEW place \in Place \ {"record"},
           pc' = [pc EXCEPT ![c] = place], req' = req
    PROVE  PcType' /\ ReqType' /\ GotType'
<1>1. /\ req[c] \in [starts : BOOLEAN, todo : Todo, got : Slot \cup {-1}]
      /\ req' = [req EXCEPT ![c] = req[c]]
      BY DEF ReqType
<1>2. QED BY <1>1, MoveType

LEMMA CallTypes ==
    /\ NoCall \in [starts : BOOLEAN, todo : Todo, got : Slot \cup {-1}]
    /\ [NoCall EXCEPT !.starts = TRUE, !.todo = <<StdAll, ExtAll>>]
          \in [starts : BOOLEAN, todo : Todo, got : Slot \cup {-1}]
    /\ \A f \in Valid : [NoCall EXCEPT !.todo = <<f>>]
          \in [starts : BOOLEAN, todo : Todo, got : Slot \cup {-1}]
BY DEF NoCall, Todo

\* The steps that change nothing but the caller.
LEMMA CallStepType ==
    ASSUME CanType, NEW c \in Caller,
           InitCall(c) \/ Stop(c) \/ Setup(c) \/ FiltersDone(c) \/ Start(c)
             \/ \E f \in Request : SetFilterCall(c, f)
    PROVE  CanType'
<1>1. UNCHANGED <<can_rx_filter_id, can_rx_msgq, table, want, sent>>
      BY DEF InitCall, Stop, Setup, FiltersDone, Start, SetFilterCall
<1>2. started' \in BOOLEAN
      BY Zenon DEF CanType, BusType, InitCall, Stop, Setup, FiltersDone, Start, SetFilterCall
<1>3. IdType' /\ QueueType' /\ TableType' /\ BusType'
      BY <1>1, <1>2 DEF CanType, IdType, QueueType, TableType, BusType
<1>4. PcType' /\ ReqType' /\ GotType'
  <2>1. CASE InitCall(c)
        BY <2>1, MoveType, CallTypes DEF CanType, InitCall, Call, Step, Goto, Place
  <2>2. CASE \E f \in Request : SetFilterCall(c, f)
    <3>1. PICK f \in Request : SetFilterCall(c, f)
          BY <2>2
    <3>2. f \in Valid
          BY <3>1 DEF SetFilterCall, ValidFilter, Valid
    <3>3. QED BY <3>1, <3>2, MoveType, CallTypes DEF CanType, SetFilterCall, Call, Step, Goto, Place
  <2>3. CASE \/ Stop(c) \/ Setup(c) \/ FiltersDone(c) \/ Start(c)
    <3>1. \/ Return(c, pc[c])
          \/ \E to \in {"setup", "rmStd", "start"} : Keep(c, pc[c], to)
          BY <2>3 DEF Stop, Setup, FiltersDone, Start, Return, Keep, Step
    <3>2. CASE Return(c, pc[c])
          BY <3>2, MoveType, CallTypes DEF CanType, Return, Step, Goto, Place
    <3>3. CASE \E to \in {"setup", "rmStd", "start"} : Keep(c, pc[c], to)
          BY <3>3, KeepType DEF CanType, Keep, Step, Goto, Place
    <3>4. QED BY <3>1, <3>2, <3>3
  <2>4. QED BY <2>1, <2>2, <2>3
<1>5. QED BY <1>3, <1>4 DEF CanType

\* The steps that replace the filters.
LEMMA FilterStepType ==
    ASSUME CanType, NEW c \in Caller,
           (\E ide \in BOOLEAN : RemoveFilter(c, ide) \/ ForgetFilter(c, ide)) \/ Purge(c)
    PROVE  CanType'
<1>1. UNCHANGED <<req, started, sent>>
      BY DEF RemoveFilter, ForgetFilter, Purge
<1>2. \E to \in Place \ {"record"} : pc' = [pc EXCEPT ![c] = to]
      BY DEF RemoveFilter, ForgetFilter, Purge, Step, Goto, Place, AfterStd
<1>3. PcType' /\ ReqType' /\ GotType'
      BY <1>1, <1>2, KeepType DEF CanType
<1>4. BusType'
      BY <1>1 DEF CanType, BusType
<1>5. IdType' /\ TableType' /\ QueueType'
  <2>1. ASSUME NEW ide \in BOOLEAN, RemoveFilter(c, ide)
        PROVE  IdType' /\ TableType' /\ QueueType'
    <3>1. UNCHANGED <<can_rx_filter_id, can_rx_msgq>> /\ want' = {}
          BY <2>1 DEF RemoveFilter
    <3>2. table' \in [Slot -> Valid \cup {Free}]
          BY <2>1 DEF RemoveFilter, CanType, TableType
    <3>3. QED BY <3>1, <3>2 DEF CanType, IdType, TableType, QueueType
  <2>2. ASSUME NEW ide \in BOOLEAN, ForgetFilter(c, ide)
        PROVE  IdType' /\ TableType' /\ QueueType'
    <3>1. UNCHANGED <<table, want, can_rx_msgq>>
          BY <2>2 DEF ForgetFilter
    <3>2. can_rx_filter_id' = [can_rx_filter_id EXCEPT ![ide] = -1]
          BY <2>2 DEF ForgetFilter
    <3>3. IdType'
          BY <3>2 DEF CanType, IdType
    <3>4. QED BY <3>1, <3>3 DEF CanType, TableType, QueueType
  <2>3. CASE Purge(c)
    <3>1. UNCHANGED <<can_rx_filter_id, table, want>> /\ can_rx_msgq' = <<>>
          BY <2>3 DEF Purge, Purged
    <3>2. QED BY <3>1, CanAssumption DEF CanType, IdType, TableType, QueueType
  <2>4. QED BY <2>1, <2>2, <2>3
<1>6. QED BY <1>3, <1>4, <1>5 DEF CanType

\* The two steps that add a filter.
LEMMA AddStepType ==
    ASSUME CanType, NEW c \in Caller, AddFilter(c) \/ RecordFilter(c)
    PROVE  CanType'
<1> DEFINE t == req[c].todo
           f == Head(t)
<1>1. /\ UNCHANGED <<can_rx_msgq, started, sent>>
      /\ c \in DOMAIN req
      /\ t \in Todo /\ req[c] \in [starts : BOOLEAN, todo : Todo, got : Slot \cup {-1}]
      BY DEF CanType, ReqType, AddFilter, RecordFilter
<1>2. t # <<>> => f \in Valid /\ Tail(t) \in Todo /\ f.ide \in BOOLEAN
      BY <1>1, TodoFacts, ValidFacts
<1>3. QueueType' /\ BusType'
      BY <1>1 DEF CanType, QueueType, BusType
<1>4. ASSUME AddFilter(c) PROVE IdType' /\ TableType' /\ PcType' /\ ReqType' /\ GotType'
  <2>1. UNCHANGED <<can_rx_filter_id, want>> /\ t # <<>>
        BY <1>4 DEF AddFilter
  <2>2. CASE \E s \in IF f.ide THEN ExtSlot ELSE StdSlot :
                 /\ table' = [table EXCEPT ![s] = f]
                 /\ req' = [req EXCEPT ![c].got = s] /\ Goto(c, "record")
    <3>1. PICK s \in SlotOf(f.ide) : /\ table' = [table EXCEPT ![s] = f]
                                     /\ req' = [req EXCEPT ![c].got = s] /\ Goto(c, "record")
          BY <2>2 DEF SlotOf
    <3>2. TableType'
          BY <1>2, <2>1, <3>1 DEF CanType, TableType
    <3> DEFINE r == [req[c] EXCEPT !.got = s]
    <3>3. /\ r \in [starts : BOOLEAN, todo : Todo, got : Slot \cup {-1}]
          /\ r.todo = t /\ r.got = s /\ req' = [req EXCEPT ![c] = r]
          BY <1>1, <1>2, <2>1, <3>1, SlotFacts
    <3> HIDE DEF r
    <3>4. PcType' /\ ReqType' /\ GotType'
          BY <2>1, <3>1, <3>3, MoveType DEF CanType, Goto, Place
    <3>5. QED BY <2>1, <3>2, <3>4 DEF CanType, IdType
  <2>3. CASE /\ req' = [req EXCEPT ![c].todo = <<>>] /\ UNCHANGED <<pc, table>>
             /\ pc[c] = "add"
    <3> DEFINE r == [req[c] EXCEPT !.todo = <<>>]
    <3>1. /\ r \in [starts : BOOLEAN, todo : Todo, got : Slot \cup {-1}]
          /\ req' = [req EXCEPT ![c] = r]
          BY <1>1, <2>3 DEF Todo
    <3> HIDE DEF r
    <3>2. pc' = [pc EXCEPT ![c] = "add"]
          BY <2>3 DEF CanType, PcType
    <3>3. PcType' /\ ReqType' /\ GotType'
          BY <3>1, <3>2, MoveType DEF CanType, Place
    <3>4. QED BY <2>1, <2>3, <3>3 DEF CanType, IdType, TableType
  <2>4. CASE Return(c, "add") /\ UNCHANGED table
    <3>1. PcType' /\ ReqType' /\ GotType'
          BY <2>4, MoveType, CallTypes DEF CanType, Return, Step, Goto, Place
    <3>2. QED BY <2>1, <2>4, <3>1 DEF CanType, IdType, TableType
  <2>5. QED BY <1>4, <2>2, <2>3, <2>4 DEF AddFilter
<1>5. ASSUME RecordFilter(c) PROVE IdType' /\ TableType' /\ PcType' /\ ReqType' /\ GotType'
  <2>1. /\ pc[c] = "record" /\ Goto(c, "add") /\ UNCHANGED table
        /\ can_rx_filter_id' = [can_rx_filter_id EXCEPT ![f.ide] = req[c].got]
        /\ want' = want \cup {f}
        /\ req' = [req EXCEPT ![c].todo = Tail(t)]
        BY <1>5, <1>1 DEF RecordFilter, Step
  <2>2. t # <<>> /\ req[c].got \in SlotOf(f.ide) /\ req[c].got \in Slot
        BY <1>2, <2>1, SlotFacts DEF CanType, GotType
  <2>3. IdType'
        BY <1>2, <2>1, <2>2 DEF CanType, IdType
  <2>4. TableType'
        BY <1>2, <2>1, <2>2 DEF CanType, TableType
  <2> DEFINE r == [req[c] EXCEPT !.todo = Tail(t)]
  <2>5. /\ r \in [starts : BOOLEAN, todo : Todo, got : Slot \cup {-1}]
        /\ req' = [req EXCEPT ![c] = r]
        BY <1>1, <1>2, <2>1, <2>2
  <2> HIDE DEF r
  <2>6. PcType' /\ ReqType' /\ GotType'
        BY <2>1, <2>5, MoveType DEF CanType, Goto, Place
  <2>7. QED BY <2>3, <2>4, <2>6
<1>6. QED BY <1>3, <1>4, <1>5 DEF CanType

\* Sending and the bus leave callers and filters alone.
LEMMA TrafficType ==
    ASSUME CanType,
           \/ \E c \in Caller, a \in Sending : Send(c, a)
           \/ \E frame \in Traffic : Receive(frame)
           \/ Read
           \/ UNCHANGED vars
    PROVE  CanType'
<1>1. UNCHANGED <<pc, req, can_rx_filter_id, table, started, want>>
      BY DEF Send, Receive, Read, vars
<1>2. QueueType'
  <2>1. CASE \E frame \in Traffic : Receive(frame)
        BY <2>1, CanAssumption DEF CanType, QueueType, Receive
  <2>2. CASE Read
        BY <2>2, CanAssumption DEF CanType, QueueType, Read
  <2>3. CASE UNCHANGED can_rx_msgq
        BY <2>3 DEF CanType, QueueType
  <2>4. QED BY <2>1, <2>2, <2>3 DEF Send, vars
<1>3. sent' \subseteq Legal
  <2>1. CASE \E c \in Caller, a \in Sending : Send(c, a)
    <3>1. PICK c \in Caller, a \in Sending : Send(c, a)
          BY <2>1
    <3>2. a.ide \in BOOLEAN /\ a.id \subseteq Bit
          BY CanAssumption
    <3>3. ~SendRefused(a) => [ide |-> a.ide, id |-> a.id] \in Legal
          BY <3>2 DEF SendRefused, IdBit, Legal
    <3>4. sent' = {} \/ (~SendRefused(a) /\ sent' = {[ide |-> a.ide, id |-> a.id]})
          BY <3>1 DEF Send
    <3>5. QED BY <3>3, <3>4
  <2>2. CASE UNCHANGED sent
        BY <2>2 DEF CanType, BusType
  <2>3. QED BY <2>1, <2>2 DEF Receive, Read, vars
<1>4. BusType'
      BY <1>1, <1>3 DEF CanType, BusType
<1>5. PcType' /\ ReqType' /\ GotType' /\ IdType' /\ TableType'
      BY <1>1 DEF CanType, PcType, ReqType, GotType, IdType, TableType
<1>6. QED BY <1>2, <1>4, <1>5 DEF CanType

LEMMA CanTypeNext == CanType /\ [Next]_vars => CanType'
<1> SUFFICES ASSUME CanType, [Next]_vars PROVE CanType'
    OBVIOUS
<1>1. CASE \E c \in Caller : Configure(c)
  <2>1. PICK c \in Caller : Configure(c)
        BY <1>1
  <2>2. QED BY <2>1, CallStepType, FilterStepType, AddStepType DEF Configure
<1>2. CASE ~\E c \in Caller : Configure(c)
      BY <1>2, TrafficType DEF Next
<1>3. QED BY <1>1, <1>2

THEOREM CanAlways == Spec => []CanType
BY CanTypeInit, CanTypeNext, PTL DEF Spec

\* However calls overlap and whatever the driver refuses, every installed filter
\* has passed the checks, what goes on the bus is legal, and the queue stays in
\* its bounds (can_service_set_rx_filter, can_service_send_internal).
THEOREM CanTypeCorrect == Spec => []TypeOK
BY CanAlways, TypeFromParts, PTL

-----------------------------------------------------------------------------
(* The queue holds only what the filters let in.  The property is          *)
(* inductive on its own: between the removal of a filter and the purge     *)
(* nothing is claimed, and after the purge filters are only added.         *)

\* A free element holds no filter, so filling it takes none away.
LEMMA AddingKeepsAccepted ==
    ASSUME CanType, NEW s \in Slot, NEW f \in Valid, table[s] = Free,
           table' = [table EXCEPT ![s] = f]
    PROVE  \A frame : Accepted(frame) => Accepted(frame)'
<1> SUFFICES ASSUME NEW frame, Accepted(frame) PROVE Accepted(frame)'
    OBVIOUS
<1>1. PICK g \in Installed : Match(g, frame)
      BY DEF Accepted
<1>2. PICK z \in Slot : g = table[z] /\ g # Free
      BY <1>1 DEF Installed
<1>3. table'[z] = g
      BY <1>2 DEF CanType, TableType
<1>4. g \in Installed'
      BY <1>2, <1>3 DEF Installed
<1>5. QED BY <1>1, <1>4 DEF Accepted, Match

LEMMA MatchingInit == Init => OnlyMatchingFrames
BY DEF Init, OnlyMatchingFrames

\* A caller moves, the queue stays and no filter is taken away.
LEMMA MatchingMove ==
    ASSUME CanType, OnlyMatchingFrames, NEW c \in Caller, NEW place \in Place,
           pc' = [pc EXCEPT ![c] = place], UNCHANGED can_rx_msgq,
           Removing(c) => Removing(c)',
           Removing(c)' \/ \A frame : Accepted(frame) => Accepted(frame)'
    PROVE  OnlyMatchingFrames'
<1> SUFFICES ASSUME \A d \in Caller : ~Removing(d)', NEW i \in 1..Len(can_rx_msgq')
             PROVE  Accepted(can_rx_msgq[i])'
    BY DEF OnlyMatchingFrames
<1>1. \A d \in Caller : ~Removing(d)
      BY DEF CanType, PcType, Removing
<1>2. Accepted(can_rx_msgq[i])
      BY <1>1 DEF OnlyMatchingFrames
<1>3. QED BY <1>2

LEMMA MatchingConfigure ==
    ASSUME CanType, OnlyMatchingFrames, NEW c \in Caller, Configure(c)
    PROVE  OnlyMatchingFrames'
<1>1. pc[c] \in Place /\ c \in DOMAIN pc
      BY DEF CanType, PcType
<1>2. CASE \/ InitCall(c) \/ Stop(c) \/ Setup(c) \/ FiltersDone(c) \/ Start(c)
           \/ \E f \in Request : SetFilterCall(c, f)
  <2>1. UNCHANGED <<can_rx_msgq, table>>
        BY <1>2 DEF InitCall, Stop, Setup, FiltersDone, Start, SetFilterCall
  <2>2. /\ ~Removing(c)
        /\ \E to \in Place : pc' = [pc EXCEPT ![c] = to]
        BY <1>2 DEF InitCall, Stop, Setup, FiltersDone, Start, SetFilterCall, Call, Keep, Return,
                    Step, Goto, Place, Removing
  <2>3. \A frame : Accepted(frame) => Accepted(frame)'
        BY <2>1 DEF Accepted, Installed, Match
  <2>4. QED BY <2>1, <2>2, <2>3, MatchingMove
<1>3. CASE \E ide \in BOOLEAN : RemoveFilter(c, ide) \/ ForgetFilter(c, ide)
  <2>1. UNCHANGED can_rx_msgq
        BY <1>3 DEF RemoveFilter, ForgetFilter
  <2>2. \E to \in {"clrStd", "clrExt", "rmExt", "purge"} : pc' = [pc EXCEPT ![c] = to]
        BY <1>3 DEF RemoveFilter, ForgetFilter, Step, Goto, AfterStd
  <2>3. Removing(c)' /\ \E to \in Place : pc' = [pc EXCEPT ![c] = to]
        BY <1>1, <2>2 DEF Removing, Place, CanType, PcType
  <2>4. QED BY <2>1, <2>3, MatchingMove
<1>4. CASE Purge(c)
      BY <1>4 DEF Purge, Purged, OnlyMatchingFrames
<1>5. CASE AddFilter(c) \/ RecordFilter(c)
  <2>1. UNCHANGED can_rx_msgq /\ ~Removing(c)
        BY <1>5 DEF AddFilter, RecordFilter, Step, Removing
  <2>2. \E to \in Place : pc' = [pc EXCEPT ![c] = to]
    <3>1. UNCHANGED pc \/ \E to \in {"record", "idle", "add"} : Goto(c, to)
          BY <1>5 DEF AddFilter, RecordFilter, Return, Step
    <3>2. UNCHANGED pc => pc' = [pc EXCEPT ![c] = pc[c]]
          BY DEF CanType, PcType
    <3>3. QED BY <1>1, <3>1, <3>2 DEF Goto, Place
  <2>3. \A frame : Accepted(frame) => Accepted(frame)'
    <3>1. CASE UNCHANGED table
          BY <3>1 DEF Accepted, Installed, Match
    <3>2. CASE ~UNCHANGED table
      <4> DEFINE f == Head(req[c].todo)
      <4>1. AddFilter(c) /\ req[c].todo # <<>> /\ req[c].todo \in Todo
            BY <1>5, <3>2 DEF AddFilter, RecordFilter, CanType, ReqType
      <4>2. f \in Valid
            BY <4>1, TodoFacts
      <4>3. PICK s \in IF f.ide THEN ExtSlot ELSE StdSlot :
               table[s] = Free /\ table' = [table EXCEPT ![s] = f]
            BY <3>2, <4>1 DEF AddFilter
      <4>4. s \in Slot
            BY <4>3, SlotFacts
      <4> HIDE DEF f
      <4>5. QED BY <4>2, <4>3, <4>4, AddingKeepsAccepted
    <3>3. QED BY <3>1, <3>2
  <2>4. QED BY <2>1, <2>2, <2>3, MatchingMove
<1>6. QED BY <1>2, <1>3, <1>4, <1>5 DEF Configure

LEMMA MatchingNext == CanType /\ OnlyMatchingFrames /\ [Next]_vars => OnlyMatchingFrames'
<1> SUFFICES ASSUME CanType, OnlyMatchingFrames, [Next]_vars PROVE OnlyMatchingFrames'
    OBVIOUS
<1>1. CASE \E c \in Caller : Configure(c)
      BY <1>1, MatchingConfigure
<1>2. CASE \/ \E c \in Caller, a \in Sending : Send(c, a)
           \/ \E frame \in Traffic : Receive(frame)
           \/ Read
           \/ UNCHANGED vars
  <2>1. UNCHANGED <<pc, table>>
        BY <1>2 DEF Send, Receive, Read, vars
  <2>2. SUFFICES ASSUME \A d \in Caller : ~Removing(d), NEW i \in 1..Len(can_rx_msgq')
                 PROVE  Accepted(can_rx_msgq'[i])
        BY <2>1 DEF OnlyMatchingFrames, Removing, Accepted, Installed, Match
  <2>3. \A j \in 1..Len(can_rx_msgq) : Accepted(can_rx_msgq[j])
        BY <2>2 DEF OnlyMatchingFrames
  <2>4. \E frame \in Traffic : \/ can_rx_msgq'[i] = frame /\ Accepted(frame)
                               \/ \E j \in 1..Len(can_rx_msgq) : can_rx_msgq'[i] = can_rx_msgq[j]
    <3>1. can_rx_msgq \in Seq(Traffic)
          BY DEF CanType, QueueType
    <3>2. CASE \E frame \in Traffic : Receive(frame)
          BY <2>2, <3>1, <3>2 DEF Receive
    <3>3. CASE Read
          BY <2>2, <3>1, <3>3 DEF Read
    <3>4. CASE UNCHANGED can_rx_msgq
          BY <2>2, <3>1, <3>4
    <3>5. QED BY <1>2, <3>2, <3>3, <3>4 DEF Send, vars
  <2>5. QED BY <2>3, <2>4
<1>3. QED BY <1>1, <1>2 DEF Next

\* After every purge the queue holds only frames that an installed filter accepts,
\* for any number of callers at once: a frame the old filters let in cannot survive
\* the change (can_service_set_rx_filter, can_remove_all_filters).
THEOREM QueueFollowsFilters == Spec => []OnlyMatchingFrames
BY MatchingInit, MatchingNext, CanAlways, PTL DEF Spec

-----------------------------------------------------------------------------
(* No filter is leaked while callers take turns.                           *)

\* Filter elements in use, and those the two identifiers on record lead to.
Used == {s \in Slot : table[s] # Free}
Ids  == {can_rx_filter_id[FALSE], can_rx_filter_id[TRUE]} \ {-1}

\* The filters are those of the last call, and on record.
Tracked == Used = Ids /\ Installed = want

\* What a call has still to add is of kinds that have no filter on record, so that
\* recording it forgets none.
Pending(c) == \A i \in 1..Len(req[c].todo) : can_rx_filter_id[req[c].todo[i].ide] = -1

\* What the caller's place in a change of filters says about the elements.
AtPlace(c) ==
    /\ pc[c] \in {"clrStd", "rmExt", "clrExt", "purge"} => want = {}
    /\ pc[c] \in {"clrStd", "rmExt"} => Used = {can_rx_filter_id[TRUE]} \ {-1}
    /\ pc[c] \in {"rmExt", "clrExt", "purge"} => can_rx_filter_id[FALSE] = -1
    /\ pc[c] \in {"clrExt", "purge"} => Used = {}
    /\ pc[c] = "purge" => can_rx_filter_id[TRUE] = -1
    /\ pc[c] \in {"add", "record"} => Pending(c)
    /\ pc[c] = "record" => /\ Used = Ids \cup {req[c].got}
                           /\ Installed = want \cup {Head(req[c].todo)}

Stable == {"idle", "stop", "setup", "rmStd", "add", "start"}

\* While callers have taken turns, at most one is in a call, and the filters are
\* tracked except in the middle of a change.
TurnInv ==
    ~overlap =>
        /\ \A c, d \in Caller : pc[c] # "idle" /\ pc[d] # "idle" => c = d
        /\ \A c \in Caller : AtPlace(c)
        /\ (\A c \in Caller : pc[c] \in Stable) => Tracked

LEMMA TurnInit == Init => TurnInv
<1> SUFFICES ASSUME Init PROVE TurnInv
    OBVIOUS
<1>1. Used = {} /\ Installed = {} /\ Ids = {} /\ want = {}
      BY DEF Init, Used, Installed, Ids
<1>2. \A c \in Caller : pc[c] = "idle"
      BY DEF Init
<1>3. QED BY <1>1, <1>2 DEF TurnInv, AtPlace, Tracked

\* What the only caller in a call may rely on.
LEMMA OnlyCaller ==
    ASSUME TurnInv, ~overlap, NEW c \in Caller,
           pc[c] # "idle" \/ \A d \in Caller \ {c} : pc[d] = "idle"
    PROVE  /\ \A d \in Caller \ {c} : pc[d] = "idle"
           /\ AtPlace(c)
           /\ pc[c] \in Stable => Tracked
BY DEF TurnInv, Stable

\* What its step has to establish.
LEMMA OnlyCallerStep ==
    ASSUME CanType, NEW c \in Caller, NEW place \in Place,
           pc' = [pc EXCEPT ![c] = place],
           \A d \in Caller \ {c} : pc[d] = "idle",
           AtPlace(c)', place \in Stable => Tracked'
    PROVE  TurnInv'
<1>1. pc'[c] = place /\ \A d \in Caller \ {c} : pc'[d] = "idle"
      BY DEF CanType, PcType
<1>2. \A d \in Caller : AtPlace(d)'
      BY <1>1 DEF AtPlace
<1>3. QED BY <1>1, <1>2 DEF TurnInv

\* Elements and filters after one is taken out and after one is put in.
LEMMA TakenOut ==
    ASSUME CanType, NEW s \in Slot, table' = [table EXCEPT ![s] = Free]
    PROVE  Used' = Used \ {s}
BY DEF CanType, TableType, Used

LEMMA PutIn ==
    ASSUME CanType, NEW s \in Slot, NEW f \in Valid, table[s] = Free,
           table' = [table EXCEPT ![s] = f]
    PROVE  Used' = Used \cup {s} /\ Installed' = Installed \cup {f}
<1>1. /\ table'[s] = f /\ f # Free
      /\ \A z \in Slot \ {s} : table'[z] = table[z]
      BY ValidFacts DEF CanType, TableType
<1>2. Used' = Used \cup {s}
      BY <1>1 DEF Used
<1>3. Installed' = Installed \cup {f}
      BY <1>1 DEF Installed
<1>4. QED BY <1>2, <1>3

LEMMA NoneUsed == Used = {} => Installed = {}
BY DEF Used, Installed

\* The steps that leave the filters alone.
LEMMA TurnCallStep ==
    ASSUME CanType, TurnInv, ~overlap', NEW c \in Caller,
           InitCall(c) \/ Stop(c) \/ Setup(c) \/ FiltersDone(c) \/ Start(c)
             \/ \E f \in Request : SetFilterCall(c, f)
    PROVE  TurnInv'
<1>1. UNCHANGED <<can_rx_filter_id, table, want>>
      BY DEF InitCall, Stop, Setup, FiltersDone, Start, SetFilterCall
<1>2. /\ ~overlap /\ pc[c] \in Stable
      /\ pc[c] # "idle" \/ \A d \in Caller \ {c} : pc[d] = "idle"
  <2>1. CASE InitCall(c) \/ \E f \in Request : SetFilterCall(c, f)
    <3>1. \E to \in Place : \E r : Call(c, to, r)
          BY <2>1 DEF InitCall, SetFilterCall, Place
    <3>2. overlap' = (overlap \/ \E d \in Caller \ {c} : pc[d] # "idle")
          BY <3>1 DEF Call
    <3>3. QED BY <3>1, <3>2 DEF Call, Step, Stable
  <2>2. CASE Stop(c) \/ Setup(c) \/ FiltersDone(c) \/ Start(c)
    <3>1. UNCHANGED overlap /\ pc[c] \in {"stop", "setup", "add", "start"}
          BY <2>2 DEF Stop, Setup, FiltersDone, Start, Keep, Return, Step
    <3>2. QED BY <3>1 DEF Stable
  <2>3. QED BY <2>1, <2>2
<1>3. Tracked /\ \A d \in Caller \ {c} : pc[d] = "idle"
      BY <1>2, OnlyCaller
<1>4. Tracked'
      BY <1>1, <1>3 DEF Tracked, Used, Ids, Installed
<1>5. PICK to \in {"idle", "stop", "setup", "rmStd", "start"} : pc' = [pc EXCEPT ![c] = to]
      BY DEF InitCall, Stop, Setup, FiltersDone, Start, SetFilterCall, Call, Keep, Return, Step, Goto
<1>6. pc'[c] = to
      BY <1>5 DEF CanType, PcType
<1>7. AtPlace(c)'
      BY <1>6 DEF AtPlace
<1>8. QED BY <1>3, <1>4, <1>5, <1>7, OnlyCallerStep DEF Place

\* Removing and forgetting, kind by kind.
LEMMA TurnRemoveStep ==
    ASSUME CanType, TurnInv, ~overlap', NEW c \in Caller, NEW ide \in BOOLEAN,
           RemoveFilter(c, ide) \/ ForgetFilter(c, ide)
    PROVE  TurnInv'
<1>1. ~overlap /\ pc[c] # "idle"
      BY DEF RemoveFilter, ForgetFilter, Step
<1>2. /\ \A d \in Caller \ {c} : pc[d] = "idle"
      /\ AtPlace(c)
      /\ pc[c] \in Stable => Tracked
      BY <1>1, OnlyCaller
<1>3. /\ can_rx_filter_id \in [BOOLEAN -> Slot \cup {-1}]
      /\ can_rx_filter_id[FALSE] \in StdSlot \cup {-1}
      /\ can_rx_filter_id[TRUE] \in ExtSlot \cup {-1}
      BY DEF CanType, IdType, SlotOf
<1>4. can_rx_filter_id[FALSE] # can_rx_filter_id[TRUE] \/ can_rx_filter_id[FALSE] = -1
      BY <1>3, SlotFacts
<1>5. ASSUME RemoveFilter(c, ide)
      PROVE  Used' = Used \ {can_rx_filter_id[ide]}
  <2>1. can_rx_filter_id[ide] \in Slot \cup {-1} /\ -1 \notin Used
        BY <1>3, SlotFacts DEF Used
  <2>2. CASE can_rx_filter_id[ide] \in Slot
        BY <1>5, <2>2, SlotFacts, TakenOut DEF RemoveFilter
  <2>3. CASE can_rx_filter_id[ide] = -1
    <3>1. UNCHANGED table
          BY <1>5, <2>3 DEF RemoveFilter
    <3>2. QED BY <2>1, <2>3, <3>1 DEF Used
  <2>4. QED BY <2>1, <2>2, <2>3
<1>6. CASE RemoveFilter(c, FALSE) /\ ide = FALSE
  <2>1. /\ pc[c] = "rmStd" /\ pc' = [pc EXCEPT ![c] = "clrStd"] /\ want' = {}
        /\ UNCHANGED can_rx_filter_id
        BY <1>6 DEF RemoveFilter, Step, Goto
  <2>2. Used' = {can_rx_filter_id[TRUE]} \ {-1}
        BY <1>2, <1>4, <1>5, <1>6, <2>1 DEF Stable, Tracked, Ids
  <2>3. pc'[c] = "clrStd"
        BY <2>1 DEF CanType, PcType
  <2>4. AtPlace(c)'
        BY <2>1, <2>2, <2>3 DEF AtPlace
  <2>5. QED BY <1>2, <2>1, <2>4, OnlyCallerStep DEF Place, Stable
<1>7. CASE RemoveFilter(c, TRUE) /\ ide = TRUE
  <2>1. /\ pc[c] = "rmExt" /\ pc' = [pc EXCEPT ![c] = "clrExt"] /\ want' = {}
        /\ UNCHANGED can_rx_filter_id
        BY <1>7 DEF RemoveFilter, Step, Goto
  <2>2. Used' = {} /\ can_rx_filter_id[FALSE] = -1
        BY <1>2, <1>5, <1>7, <2>1 DEF AtPlace
  <2>3. pc'[c] = "clrExt"
        BY <2>1 DEF CanType, PcType
  <2>4. AtPlace(c)'
        BY <2>1, <2>2, <2>3 DEF AtPlace
  <2>5. QED BY <1>2, <2>1, <2>4, OnlyCallerStep DEF Place, Stable
<1>8. CASE ForgetFilter(c, FALSE)
  <2>1. /\ pc[c] = "clrStd" /\ pc' = [pc EXCEPT ![c] = "rmExt"] /\ UNCHANGED <<table, want>>
        /\ can_rx_filter_id'[FALSE] = -1 /\ can_rx_filter_id'[TRUE] = can_rx_filter_id[TRUE]
        BY <1>3, <1>8 DEF ForgetFilter, Step, Goto, AfterStd
  <2>2. pc'[c] = "rmExt"
        BY <2>1 DEF CanType, PcType
  <2>3. AtPlace(c)'
        BY <1>2, <2>1, <2>2 DEF AtPlace, Used
  <2>4. QED BY <1>2, <2>1, <2>3, OnlyCallerStep DEF Place, Stable
<1>9. CASE ForgetFilter(c, TRUE)
  <2>1. /\ pc[c] = "clrExt" /\ pc' = [pc EXCEPT ![c] = "purge"] /\ UNCHANGED <<table, want>>
        /\ can_rx_filter_id'[TRUE] = -1 /\ can_rx_filter_id'[FALSE] = can_rx_filter_id[FALSE]
        BY <1>3, <1>9 DEF ForgetFilter, Step, Goto
  <2>2. pc'[c] = "purge"
        BY <2>1 DEF CanType, PcType
  <2>3. AtPlace(c)'
        BY <1>2, <2>1, <2>2 DEF AtPlace, Used
  <2>4. QED BY <1>2, <2>1, <2>3, OnlyCallerStep DEF Place, Stable
<1>10. QED BY <1>6, <1>7, <1>8, <1>9

LEMMA TurnPurgeStep ==
    ASSUME CanType, TurnInv, ~overlap', NEW c \in Caller, Purge(c)
    PROVE  TurnInv'
<1>1. /\ ~overlap /\ pc[c] = "purge" /\ pc' = [pc EXCEPT ![c] = "add"]
      /\ UNCHANGED <<req, can_rx_filter_id, table, want>>
      BY DEF Purge, Step, Goto
<1>2. (\A d \in Caller \ {c} : pc[d] = "idle") /\ AtPlace(c)
      BY <1>1, OnlyCaller
<1>3. /\ want = {} /\ Used = {} /\ Installed = {} /\ Ids = {}
      /\ \A ide \in BOOLEAN : can_rx_filter_id[ide] = -1
      BY <1>1, <1>2, NoneUsed DEF AtPlace, Ids
<1>4. Tracked'
      BY <1>1, <1>3 DEF Tracked, Used, Installed, Ids
<1>5. Pending(c)
  <2>1. \A i \in 1..Len(req[c].todo) : req[c].todo[i].ide \in BOOLEAN
        BY TodoFacts, ValidFacts DEF CanType, ReqType
  <2>2. QED BY <1>3, <2>1 DEF Pending
<1>6. AtPlace(c)'
  <2>1. pc'[c] = "add"
        BY <1>1 DEF CanType, PcType
  <2>2. QED BY <1>1, <1>5, <2>1 DEF AtPlace, Pending
<1>7. QED BY <1>1, <1>2, <1>4, <1>6, OnlyCallerStep DEF Place

LEMMA TurnAddStep ==
    ASSUME CanType, TurnInv, ~overlap', NEW c \in Caller, AddFilter(c)
    PROVE  TurnInv'
<1> DEFINE t == req[c].todo
           f == Head(t)
<1>1. /\ ~overlap /\ pc[c] = "add" /\ t # <<>> /\ UNCHANGED <<can_rx_filter_id, want>>
      BY DEF AddFilter
<1>2. (\A d \in Caller \ {c} : pc[d] = "idle") /\ Tracked /\ Pending(c)
      BY <1>1, OnlyCaller DEF AtPlace, Stable
<1>3. /\ t \in Todo /\ req[c] \in [starts : BOOLEAN, todo : Todo, got : Slot \cup {-1}]
      /\ f \in Valid /\ f.ide \in BOOLEAN /\ c \in DOMAIN req
      BY <1>1, TodoFacts, ValidFacts DEF CanType, ReqType
<1>4. CASE \E s \in IF f.ide THEN ExtSlot ELSE StdSlot :
               /\ table[s] = Free
               /\ table' = [table EXCEPT ![s] = f]
               /\ req' = [req EXCEPT ![c].got = s] /\ Goto(c, "record")
  <2>1. PICK s \in SlotOf(f.ide) : /\ table[s] = Free
                                   /\ table' = [table EXCEPT ![s] = f]
                                   /\ req' = [req EXCEPT ![c].got = s] /\ Goto(c, "record")
        BY <1>4 DEF SlotOf
  <2>2. s \in Slot
        BY <1>3, SlotFacts
  <2>3. Used' = Used \cup {s} /\ Installed' = Installed \cup {f}
        BY <1>3, <2>1, <2>2, PutIn
  <2>4. req'[c].got = s /\ req'[c].todo = t /\ pc'[c] = "record"
        BY <1>3, <2>1 DEF Goto, CanType, PcType
  <2>5. AtPlace(c)'
        BY <1>1, <1>2, <2>3, <2>4 DEF AtPlace, Pending, Tracked, Ids
  <2>6. QED BY <1>2, <2>1, <2>5, OnlyCallerStep DEF Goto, Place, Stable
<1>5. CASE UNCHANGED table
  <2>1. Tracked'
    <3>1. Used' = Used /\ Installed' = Installed
          BY <1>5 DEF Used, Installed
    <3>2. Ids' = Ids /\ want' = want
          BY <1>1 DEF Ids
    <3>3. QED BY <1>2, <3>1, <3>2 DEF Tracked
  <2>2. CASE req' = [req EXCEPT ![c].todo = <<>>] /\ UNCHANGED pc
    <3>1. req'[c].todo = <<>> /\ pc' = [pc EXCEPT ![c] = "add"] /\ pc'[c] = "add"
          BY <1>1, <1>3, <2>2 DEF CanType, PcType
    <3>2. Len(req'[c].todo) = 0
          BY <3>1
    <3>3. Pending(c)'
          BY <3>2 DEF Pending
    <3>4. AtPlace(c)'
          BY <3>1, <3>3 DEF AtPlace
    <3>5. QED BY <1>2, <2>1, <3>1, <3>4, OnlyCallerStep DEF Place
  <2>3. CASE pc' = [pc EXCEPT ![c] = "idle"]
    <3>1. pc'[c] = "idle"
          BY <2>3 DEF CanType, PcType
    <3>2. AtPlace(c)'
          BY <3>1 DEF AtPlace
    <3>3. QED BY <1>2, <2>1, <2>3, <3>2, OnlyCallerStep DEF Place
  <2>4. CASE \E s \in IF f.ide THEN ExtSlot ELSE StdSlot :
               /\ table[s] = Free
               /\ table' = [table EXCEPT ![s] = f]
               /\ req' = [req EXCEPT ![c].got = s] /\ Goto(c, "record")
        BY <1>4, <2>4
  <2>5. QED BY <2>2, <2>3, <2>4 DEF AddFilter, Return, Step, Goto
<1>6. QED BY <1>4, <1>5 DEF AddFilter

LEMMA TurnRecordStep ==
    ASSUME CanType, TurnInv, ~overlap', NEW c \in Caller, RecordFilter(c)
    PROVE  TurnInv'
<1> DEFINE t == req[c].todo
           f == Head(t)
<1>1. /\ ~overlap /\ pc[c] = "record" /\ Goto(c, "add") /\ UNCHANGED table
      /\ can_rx_filter_id' = [can_rx_filter_id EXCEPT ![f.ide] = req[c].got]
      /\ want' = want \cup {f}
      /\ req' = [req EXCEPT ![c].todo = Tail(t)]
      BY DEF RecordFilter, Step
<1>2. (\A d \in Caller \ {c} : pc[d] = "idle") /\ AtPlace(c)
      BY <1>1, OnlyCaller
<1>3. /\ Pending(c) /\ Used = Ids \cup {req[c].got} /\ Installed = want \cup {f}
      BY <1>1, <1>2 DEF AtPlace
<1>4. /\ t \in Todo /\ t # <<>> /\ f \in Valid /\ f.ide \in BOOLEAN
      /\ req[c].got \in Slot /\ req[c].got # -1
  <2>1. t \in Todo /\ t # <<>> /\ req[c].got \in SlotOf(f.ide)
        BY <1>1 DEF CanType, ReqType, GotType
  <2>2. f \in Valid /\ f.ide \in BOOLEAN
        BY <2>1, TodoFacts, ValidFacts
  <2>3. QED BY <2>1, <2>2, SlotFacts
<1>5. can_rx_filter_id[f.ide] = -1
  <2>1. 1 \in 1..Len(t) /\ f = t[1]
        BY <1>4, TodoFacts DEF Todo
  <2>2. QED BY <1>3, <2>1 DEF Pending
<1>6. /\ can_rx_filter_id'[f.ide] = req[c].got
      /\ \A ide \in BOOLEAN : ide # f.ide => can_rx_filter_id'[ide] = can_rx_filter_id[ide]
      BY <1>1, <1>4 DEF CanType, IdType
<1>7. Tracked'
  <2>1. Ids' = Ids \cup {req[c].got}
    <3>1. CASE f.ide = TRUE
          BY <1>4, <1>5, <1>6, <3>1 DEF Ids
    <3>2. CASE f.ide = FALSE
          BY <1>4, <1>5, <1>6, <3>2 DEF Ids
    <3>3. QED BY <1>4, <3>1, <3>2
  <2>2. Used' = Used /\ Installed' = Installed
        BY <1>1 DEF Used, Installed
  <2>3. QED BY <1>1, <1>3, <2>1, <2>2 DEF Tracked
<1>8. AtPlace(c)'
  <2>1. pc'[c] = "add" /\ req'[c].todo = Tail(t)
        BY <1>1 DEF Goto, CanType, PcType, ReqType
  <2>2. ASSUME NEW i \in 1..Len(Tail(t)) PROVE can_rx_filter_id'[Tail(t)[i].ide] = -1
    <3>1. t = <<StdAll, ExtAll>> /\ i = 1
      <4>1. t # <<>> => Len(Tail(t)) = Len(t) - 1
            BY <1>4 DEF Todo
      <4>2. ASSUME NEW g \in Valid, t = <<g>> PROVE FALSE
            BY <2>2, <4>2
      <4>3. t = <<StdAll, ExtAll>>
            BY <1>4, <4>2 DEF Todo
      <4>4. QED BY <2>2, <4>3
    <3>2. f.ide = FALSE /\ Tail(t)[i] = t[2] /\ t[2].ide = TRUE /\ 2 \in 1..Len(t)
          BY <3>1 DEF StdAll, ExtAll
    <3>3. can_rx_filter_id[TRUE] = -1
          BY <1>3, <3>2 DEF Pending
    <3>4. QED BY <1>6, <3>2, <3>3
  <2>3. Pending(c)'
        BY <2>1, <2>2 DEF Pending
  <2>4. QED BY <2>1, <2>3 DEF AtPlace
<1>9. QED BY <1>1, <1>2, <1>7, <1>8, OnlyCallerStep DEF Goto, Place

LEMMA TurnNext == CanType /\ TurnInv /\ [Next]_vars => TurnInv'
<1> SUFFICES ASSUME CanType, TurnInv, [Next]_vars, ~overlap' PROVE TurnInv'
    BY DEF TurnInv
<1>1. CASE \E c \in Caller : Configure(c)
  <2>1. PICK c \in Caller : Configure(c)
        BY <1>1
  <2>2. QED BY <2>1, TurnCallStep, TurnRemoveStep, TurnPurgeStep, TurnAddStep, TurnRecordStep
            DEF Configure
<1>2. CASE ~\E c \in Caller : Configure(c)
  <2>1. UNCHANGED <<pc, req, can_rx_filter_id, table, want, overlap>>
        BY <1>2 DEF Next, Send, Receive, Read, vars
  <2>2. Tracked' = Tracked /\ \A c \in Caller : AtPlace(c)' = AtPlace(c)
        BY <2>1 DEF Tracked, AtPlace, Used, Ids, Installed, Pending
  <2>3. QED BY <2>1, <2>2 DEF TurnInv
<1>3. QED BY <1>1, <1>2

\* As long as callers take turns, the controller holds between calls exactly the
\* filters of the last call, each found through an identifier on record: none is
\* leaked, whichever of the driver's calls fails (can_remove_all_filters,
\* can_service_set_rx_filter, can_service_set_rx_filter_all).
THEOREM NoFilterLeaks == Spec => []FiltersAsConfigured
<1>1. CanType /\ TurnInv => FiltersAsConfigured
  <2> SUFFICES ASSUME CanType, TurnInv, ~overlap, \A c \in Caller : pc[c] = "idle"
               PROVE  Installed = want /\ Used = {can_rx_filter_id[ide] : ide \in BOOLEAN} \ {-1}
      BY DEF FiltersAsConfigured, Used
  <2>1. Tracked
        BY DEF TurnInv, Stable
  <2>2. {can_rx_filter_id[ide] : ide \in BOOLEAN} = {can_rx_filter_id[FALSE], can_rx_filter_id[TRUE]}
        OBVIOUS
  <2>3. QED BY <2>1, <2>2 DEF Tracked, Ids
<1>2. QED BY <1>1, TurnInit, TurnNext, CanAlways, PTL DEF Spec
=============================================================================
