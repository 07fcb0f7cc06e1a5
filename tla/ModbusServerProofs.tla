------------------------- MODULE ModbusServerProofs -------------------------
(***************************************************************************)
(* The server over the points store, for any frames, points and sectors,   *)
(* whenever the master asks: every step is a step of PointsStore or leaves *)
(* the store alone, and a step of PointServer or none.                     *)
(***************************************************************************)
EXTENDS ModbusServer, PointsStoreProofs, SequenceTheorems

IsAdu(a) == \E frame \in RtuFrame : a = AduOf(frame)

\* The receive ADU once a frame was submitted: its head may be of one frame and
\* its addresses of another.
Shape(a) ==
    /\ \E f \in RtuFrame : a.unit_id = f[1] /\ a.fc = f[2]
    /\ \E f \in RtuFrame : a.addr = f[3].addr

\* A run of the handler works on a request from the line; unless it is mixed, the
\* ADU in which it looks up the rest of a multiple write has not been touched.
Serving ==
    /\ DOMAIN handler = {"stage", "req", "mixed", "i", "ok", "got", "next"}
    /\ handler.stage \in {"access", "flash", "respond"} /\ handler.mixed \in BOOLEAN
    /\ Shape(handler.req) /\ handler.i \in 1..Len(handler.req.addr)
    /\ ~handler.mixed => IsAdu(handler.req)
    /\ handler.req.fc = "write" /\ handler.stage = "access" => handler.next \in Value
    /\ InMultipleWrite /\ ~handler.mixed => copying = <<>> /\ rx_adu = handler.req

ServerInv == /\ copying \in RtuFrame \cup {<<>>}
             /\ DOMAIN rx_adu = {"unit_id", "fc", "addr", "data"} /\ rx_adu.data \in Seq(Value)
             /\ copying = <<>> => rx_adu = ZeroAdu \/ IsAdu(rx_adu)
             /\ work => Shape(rx_adu)
             /\ handler # Resting => Serving

-----------------------------------------------------------------------------
LEMMA ShapeFits ==
    ASSUME NEW a, Shape(a)
    PROVE  /\ Len(a.addr) \in Nat \ {0}
           /\ a.fc \in {"read", "write", "input"} /\ a.unit_id \in {"own", "all", "other"}
           /\ a # None /\ a # ZeroAdu
           /\ \A i, j \in 1..Len(a.addr) : i # j /\ a.addr[i] \in Key => a.addr[i] # a.addr[j]
<1>1. PICK f \in RtuFrame : a.unit_id = f[1] /\ a.fc = f[2]
      BY DEF Shape
<1>2. PICK g \in RtuFrame : a.addr = g[3].addr
      BY DEF Shape
<1>3. a.fc \in {"read", "write", "input"} /\ a.unit_id \in {"own", "all", "other"}
      BY <1>1, ServerAssumption
<1>4. None.fc = "none" /\ ZeroAdu.fc = "none"
      BY DEF None, ZeroAdu
<1>5. a.addr \in Seq(Key \cup InputReg \cup {BadAddr}) /\ a.addr # <<>>
      BY <1>2, ServerAssumption
<1>6. Len(a.addr) \in Nat \ {0}
      BY <1>5
<1>7. \A i, j \in 1..Len(a.addr) : i # j /\ a.addr[i] \in Key => a.addr[i] # a.addr[j]
      BY <1>2, ServerAssumption
<1>8. QED BY <1>3, <1>4, <1>6, <1>7

LEMMA AduFits ==
    ASSUME NEW a, IsAdu(a)
    PROVE  /\ Shape(a) /\ DOMAIN a = {"unit_id", "fc", "addr", "data"} /\ a.data \in Seq(Value)
           /\ a.fc = "write" => Len(a.data) = Len(a.addr)
<1>1. PICK frame \in RtuFrame : a = AduOf(frame)
      BY DEF IsAdu
<1>2. /\ a.unit_id = frame[1] /\ a.fc = frame[2] /\ a.addr = frame[3].addr
      /\ a.data = frame[3].data /\ DOMAIN a = {"unit_id", "fc", "addr", "data"}
      BY <1>1 DEF AduOf
<1>3. Shape(a)
      BY <1>2 DEF Shape
<1>4. a.data \in Seq(Value) /\ (a.fc = "write" => Len(a.data) = Len(a.addr))
      BY <1>2, ServerAssumption
<1>5. QED BY <1>2, <1>3, <1>4

\* A value that is looked up in the ADU is one that may be written; in the ADU of
\* a frame it is the one the frame names.
LEMMA WordFits ==
    ASSUME rx_adu.data \in Seq(Value), NEW n
    PROVE  /\ Word(n) \subseteq Value
           /\ IsAdu(rx_adu) /\ rx_adu.fc = "write" /\ n \in 1..Len(rx_adu.addr)
                 => Word(n) = {rx_adu.data[n]}
<1>1. DOMAIN rx_adu.data = 1..Len(rx_adu.data)
      BY LenProperties
<1>2. \A i \in DOMAIN rx_adu.data : rx_adu.data[i] \in Value
      BY ElementOfSeq
<1>3. Word(n) \subseteq Value
      BY <1>2 DEF Word
<1>4. ASSUME IsAdu(rx_adu), rx_adu.fc = "write", n \in 1..Len(rx_adu.addr)
      PROVE  Word(n) = {rx_adu.data[n]}
      BY <1>1, <1>4, AduFits DEF Word
<1>5. QED BY <1>3, <1>4

\* What the next register gets, or the answer.
LEMMA AdvanceGives ==
    ASSUME ServerInv, Serving, NEW x, Advance(x), handler.stage \in {"access", "flash"}
    PROVE  /\ DOMAIN handler' = DOMAIN handler
           /\ handler'.req = handler.req /\ handler'.mixed = handler.mixed
           /\ handler'.ok = handler.ok
           /\ handler'.got = IF handler.req.fc = "write" THEN handler.got
                             ELSE Append(handler.got, x)
           /\ IF handler.i < Len(handler.req.addr)
              THEN /\ handler'.stage = "access" /\ handler'.i = handler.i + 1
                   /\ handler.req.fc = "write" =>
                         /\ handler'.next \in Value
                         /\ ~handler.mixed => handler'.next = handler.req.data[handler.i + 1]
              ELSE handler'.stage = "respond" /\ handler'.i = handler.i
<1> DEFINE more == handler.i < Len(handler.req.addr)
<1>1. PICK w \in IF more /\ handler.req.fc = "write" THEN Word(handler.i + 1) ELSE {0} :
           handler' = [handler EXCEPT
              !.stage = IF more THEN "access" ELSE "respond",
              !.i = IF more THEN @ + 1 ELSE @,
              !.got = IF handler.req.fc = "write" THEN @ ELSE Append(@, x),
              !.next = w]
      BY DEF Advance
<1>2. DOMAIN handler = {"stage", "req", "mixed", "i", "ok", "got", "next"}
      BY DEF Serving
<1>3. /\ DOMAIN handler' = DOMAIN handler
      /\ handler'.req = handler.req /\ handler'.mixed = handler.mixed
      /\ handler'.ok = handler.ok /\ handler'.next = w
      /\ handler'.got = IF handler.req.fc = "write" THEN handler.got ELSE Append(handler.got, x)
      /\ handler'.stage = (IF more THEN "access" ELSE "respond")
      /\ handler'.i = IF more THEN handler.i + 1 ELSE handler.i
      BY <1>1, <1>2
<1>4. ASSUME more, handler.req.fc = "write"
      PROVE  w \in Value /\ (~handler.mixed => w = handler.req.data[handler.i + 1])
  <2>1. w \in Word(handler.i + 1) /\ rx_adu.data \in Seq(Value)
        BY <1>1, <1>4 DEF ServerInv
  <2>2. w \in Value
        BY <2>1, WordFits
  <2>3. ASSUME ~handler.mixed PROVE w = handler.req.data[handler.i + 1]
    <3>1. IsAdu(handler.req) /\ rx_adu = handler.req
          BY <1>4, <2>3 DEF Serving, InMultipleWrite, Resting
    <3>2. handler.i + 1 \in 1..Len(handler.req.addr)
      <4>1. handler.i \in 1..Len(handler.req.addr) /\ Len(handler.req.addr) \in Nat
            BY ShapeFits DEF Serving
      <4>2. QED BY <1>4, <4>1
    <3>3. QED BY <1>4, <2>1, <3>1, <3>2, WordFits
  <2>4. QED BY <2>2, <2>3
<1>5. QED BY <1>3, <1>4

\* The handler stays well formed over Advance and Except.
LEMMA AdvanceKeeps ==
    ASSUME ServerInv, Serving, NEW x, Advance(x) \/ Except, UNCHANGED adu,
           handler.stage \in {"access", "flash"}
    PROVE  Serving'
<1>1. /\ DOMAIN handler' = DOMAIN handler /\ handler'.req = handler.req
      /\ handler'.mixed = handler.mixed
      /\ \/ handler'.stage = "respond" /\ handler'.i = handler.i
         \/ /\ handler'.stage = "access" /\ handler'.i = handler.i + 1
            /\ handler.i < Len(handler.req.addr)
            /\ handler.req.fc = "write" => handler'.next \in Value
  <2>1. CASE Advance(x)
        BY <2>1, AdvanceGives
  <2>2. CASE Except
        BY <2>2 DEF Serving, Except
  <2>3. QED BY <2>1, <2>2
<1>2. Shape(handler.req) /\ handler.i \in 1..Len(handler.req.addr)
      BY DEF Serving
<1>3. Len(handler.req.addr) \in Nat
      BY <1>2, ShapeFits
<1>4. InMultipleWrite' => InMultipleWrite
      BY <1>1, <1>2, <1>3 DEF InMultipleWrite, Resting
<1>5. handler'.i \in 1..Len(handler'.req.addr)
      BY <1>1, <1>2, <1>3
<1>6. QED BY <1>1, <1>4, <1>5 DEF Serving, Shape, IsAdu, adu

LEMMA ServerInvInit == SysInit => ServerInv
<1> SUFFICES ASSUME SysInit PROVE ServerInv
    OBVIOUS
<1>1. copying = <<>> /\ rx_adu = ZeroAdu /\ work = FALSE /\ handler = Resting
      BY DEF SysInit
<1>2. DOMAIN rx_adu = {"unit_id", "fc", "addr", "data"} /\ rx_adu.data \in Seq(Value)
      BY <1>1, EmptySeq DEF ZeroAdu
<1>3. QED BY <1>1, <1>2 DEF ServerInv

\* The three steps of the copy.
LEMMA CopyHeadKeeps ==
    ASSUME ServerInv, NEW frame \in RtuFrame, CopyHead(frame)
    PROVE  ServerInv'
<1>1. /\ copying = <<>> /\ copying' = frame /\ frame # <<>> /\ UNCHANGED work
      /\ rx_adu' = [rx_adu EXCEPT !.unit_id = frame[1], !.fc = frame[2]]
      BY ServerAssumption DEF CopyHead
<1>2. /\ DOMAIN rx_adu' = {"unit_id", "fc", "addr", "data"}
      /\ rx_adu'.unit_id = frame[1] /\ rx_adu'.fc = frame[2]
      /\ rx_adu'.addr = rx_adu.addr /\ rx_adu'.data = rx_adu.data
      BY <1>1 DEF ServerInv
<1>3. work' => Shape(rx_adu')
      BY <1>1, <1>2 DEF ServerInv, Shape
<1>4. ASSUME handler' # Resting PROVE Serving'
  <2>1. CASE InMultipleWrite
    <3>1. Serving /\ handler' = [handler EXCEPT !.mixed = TRUE]
          BY <2>1 DEF CopyHead, ServerInv, InMultipleWrite
    <3>2. /\ DOMAIN handler' = DOMAIN handler /\ handler'.mixed = TRUE
          /\ handler'.stage = handler.stage /\ handler'.req = handler.req
          /\ handler'.i = handler.i /\ handler'.next = handler.next
          BY <3>1 DEF Serving
    <3>3. QED BY <3>1, <3>2 DEF Serving, Shape, IsAdu
  <2>2. CASE ~InMultipleWrite
    <3>1. handler' = handler /\ Serving /\ ~InMultipleWrite'
          BY <1>4, <2>2 DEF CopyHead, ServerInv, InMultipleWrite
    <3>2. QED BY <3>1 DEF Serving, Shape, IsAdu
  <2>3. QED BY <2>1, <2>2
<1>5. QED BY <1>1, <1>2, <1>3, <1>4 DEF ServerInv, Shape, IsAdu

\* While a frame is copied no multiple write relies on the ADU.
LEMMA CopyAddrKeeps ==
    ASSUME ServerInv, CopyAddr
    PROVE  ServerInv'
<1>1. /\ copying # <<>> /\ copying \in RtuFrame /\ UNCHANGED <<copying, work, handler>>
      /\ rx_adu' = [rx_adu EXCEPT !.addr = copying[3].addr]
      BY DEF CopyAddr, ServerInv
<1>2. /\ DOMAIN rx_adu' = {"unit_id", "fc", "addr", "data"}
      /\ rx_adu'.unit_id = rx_adu.unit_id /\ rx_adu'.fc = rx_adu.fc
      /\ rx_adu'.addr = copying[3].addr /\ rx_adu'.data = rx_adu.data
      BY <1>1 DEF ServerInv
<1>3. work' => Shape(rx_adu')
      BY <1>1, <1>2 DEF ServerInv, Shape
<1>4. handler' # Resting => Serving'
      BY <1>1 DEF ServerInv, Serving, Shape, IsAdu, InMultipleWrite
<1>5. QED BY <1>1, <1>2, <1>3, <1>4 DEF ServerInv, Shape, IsAdu

LEMMA SubmitKeeps ==
    ASSUME ServerInv, Submit
    PROVE  ServerInv' /\ IsAdu(rx_adu')
<1>1. /\ copying # <<>> /\ copying \in RtuFrame /\ copying' = <<>> /\ UNCHANGED handler
      /\ rx_adu' = AduOf(copying)
      BY DEF Submit, ServerInv
<1>2. IsAdu(rx_adu')
      BY <1>1 DEF IsAdu
<1>3. /\ Shape(rx_adu') /\ DOMAIN rx_adu' = {"unit_id", "fc", "addr", "data"}
      /\ rx_adu'.data \in Seq(Value)
      BY <1>2, AduFits
<1>4. handler' # Resting => Serving'
      BY <1>1 DEF ServerInv, Serving, Shape, IsAdu, InMultipleWrite
<1>5. QED BY <1>1, <1>2, <1>3, <1>4 DEF ServerInv, Shape, IsAdu

\* What a run of the handler begins with.
LEMMA BeginGives ==
    ASSUME ServerInv, Begin, ~UNCHANGED handler
    PROVE  /\ rx_adu.unit_id # "other" /\ reply' = None
           /\ DOMAIN handler' = {"stage", "req", "mixed", "i", "ok", "got", "next"}
           /\ handler'.stage = "access" /\ handler'.req = rx_adu /\ handler'.i = 1
           /\ handler'.mixed = (copying # <<>>) /\ handler'.ok = TRUE /\ handler'.got = <<>>
           /\ copying = <<>> => IsAdu(rx_adu)
           /\ rx_adu.fc = "write" =>
                 /\ handler'.next \in Value
                 /\ copying = <<>> => handler'.next = rx_adu.data[1]
<1>1. PICK v \in IF rx_adu.fc = "write" THEN Word(1) ELSE {0} :
           handler' = [stage |-> "access", req |-> rx_adu, mixed |-> copying # <<>>,
                       i |-> 1, ok |-> TRUE, got |-> <<>>, next |-> v]
      BY DEF Begin
<1>2. Shape(rx_adu) /\ rx_adu.data \in Seq(Value)
      BY DEF Begin, ServerInv
<1>3. copying = <<>> => IsAdu(rx_adu)
      BY <1>2, ShapeFits DEF ServerInv
<1>4. 1 \in 1..Len(rx_adu.addr)
      BY <1>2, ShapeFits
<1>5. rx_adu.fc = "write" => v \in Value /\ (copying = <<>> => v = rx_adu.data[1])
      BY <1>1, <1>2, <1>3, <1>4, WordFits
<1>6. QED BY <1>1, <1>3, <1>5 DEF Begin

LEMMA BeginKeeps ==
    ASSUME ServerInv, Begin
    PROVE  ServerInv'
<1>1. UNCHANGED <<copying, rx_adu>> /\ work' = FALSE /\ handler = Resting /\ Shape(rx_adu)
      BY DEF Begin, ServerInv, adu
<1>2. CASE UNCHANGED handler
      BY <1>1, <1>2 DEF ServerInv, IsAdu
<1>3. CASE ~UNCHANGED handler
  <2>1. handler'.i \in 1..Len(handler'.req.addr)
        BY <1>1, <1>3, BeginGives, ShapeFits
  <2>2. Serving'
        BY <1>1, <1>3, <2>1, BeginGives DEF Serving, Shape, IsAdu
  <2>3. QED BY <1>1, <2>2 DEF ServerInv, IsAdu
<1>4. QED BY <1>2, <1>3

\* An access to a point or an input register, or the return of one.
LEMMA AccessKeeps ==
    ASSUME ServerInv, ReadPoint \/ ReadInput \/ WriteBegins \/ WriteEnds
    PROVE  ServerInv'
<1>1. UNCHANGED <<adu, copying, rx_adu, work>> /\ handler.stage \in {"access", "flash"}
      BY DEF ReadPoint, ReadInput, WriteBegins, WriteEnds, adu
<1>2. Serving /\ handler # Resting
      BY <1>1 DEF ServerInv, Resting
<1>3. Serving'
  <2>1. CASE Except \/ \E x : Advance(x)
        BY <1>1, <1>2, <2>1, AdvanceKeeps
  <2>2. CASE handler' = [handler EXCEPT !.stage = "flash"]
    <3>1. /\ DOMAIN handler' = DOMAIN handler /\ handler'.stage = "flash"
          /\ handler'.req = handler.req /\ handler'.i = handler.i
          /\ handler'.mixed = handler.mixed
          BY <1>2, <2>2 DEF Serving
    <3>2. InMultipleWrite' => InMultipleWrite
          BY <1>1, <1>2, <3>1 DEF InMultipleWrite
    <3>3. QED BY <1>1, <1>2, <3>1, <3>2 DEF Serving, Shape, IsAdu
  <2>3. QED BY <2>1, <2>2 DEF ReadPoint, ReadInput, WriteBegins, WriteEnds
<1>4. QED BY <1>1, <1>3 DEF ServerInv, Shape, IsAdu

LEMMA ServerInvNext == ServerInv /\ [SysNext]_sysVars => ServerInv'
<1> SUFFICES ASSUME ServerInv, [SysNext]_sysVars PROVE ServerInv'
    OBVIOUS
<1>1. CASE Work
  <2>1. CASE Respond
    <3>1. handler' = Resting /\ UNCHANGED <<copying, rx_adu, work>>
          BY <2>1 DEF Respond, adu
    <3>2. QED BY <3>1 DEF ServerInv, Shape, IsAdu
  <2>2. QED BY <1>1, <2>1, BeginKeeps, AccessKeeps DEF Work
<1>2. CASE Main
      BY <1>2, CopyHeadKeeps, CopyAddrKeeps, SubmitKeeps DEF Main
<1>3. CASE Blackout
  <2>1. copying' = <<>> /\ rx_adu' = ZeroAdu /\ work' = FALSE /\ handler' = Resting
        BY <1>3 DEF Blackout
  <2>2. DOMAIN rx_adu' = {"unit_id", "fc", "addr", "data"} /\ rx_adu'.data \in Seq(Value)
        BY <2>1, EmptySeq DEF ZeroAdu
  <2>3. QED BY <2>1, <2>2 DEF ServerInv
<1>4. CASE UNCHANGED srv
  <2>1. UNCHANGED <<copying, rx_adu, work, handler>>
        BY <1>4 DEF srv, adu
  <2>2. QED BY <2>1 DEF ServerInv, Serving, Shape, IsAdu, InMultipleWrite
<1>5. QED BY <1>1, <1>2, <1>3, <1>4 DEF SysNext, BootStep, sysVars

-----------------------------------------------------------------------------
\* An address outside the tables is refused whatever it is.
LEMMA AnyBadAddress ==
    ASSUME NEW addr, NEW v, addr \notin Key
    PROVE  /\ Get(addr) => Get(BadAddr)
           /\ SetStart(addr, v) => SetStart(BadAddr, v)
<1>1. BadAddr \notin Key
      BY StoreAssumption
<1>2. Refusal(addr) = Refusal(BadAddr) /\ Refusal(addr) # "ok"
      BY <1>1 DEF Refusal
<1>3. QED BY <1>2 DEF Get, SetStart

\* The callbacks access the store only through its own operations, with values of
\* the master (holding_reg_wr, coil_wr, holding_reg_rd, coil_rd).
LEMMA StepOfTheStore == ServerInv /\ [SysNext]_sysVars => [Next]_vars
<1> SUFFICES ASSUME ServerInv, [SysNext]_sysVars PROVE [Next]_vars
    OBVIOUS
<1>1. CASE ReadPoint
  <2>1. Get(Addr)
        BY <1>1 DEF ReadPoint
  <2>2. \E addr \in Key \cup {BadAddr} : Get(addr)
        BY <2>1, AnyBadAddress
  <2>3. QED BY <2>2 DEF Next, Points
<1>2. CASE WriteBegins
  <2>1. SetStart(Addr, handler.next) /\ handler.stage = "access" /\ handler.req.fc = "write"
        BY <1>2 DEF WriteBegins
  <2>2. handler.next \in Value
        BY <2>1 DEF ServerInv, Serving, Resting
  <2>3. \E addr \in Key \cup {BadAddr} : SetStart(addr, handler.next)
        BY <2>1, AnyBadAddress
  <2>4. QED BY <2>2, <2>3 DEF Next, Points
<1>3. CASE WriteEnds
      BY <1>3 DEF WriteEnds, Next, Points
<1>4. CASE BootStep \/ Blackout
      BY <1>4 DEF BootStep, Blackout, Next
<1>5. CASE UNCHANGED vars
      BY <1>5
<1>6. CASE Begin \/ ReadInput \/ Respond \/ Main
      BY <1>6 DEF Begin, ReadInput, Respond, Main, CopyHead, CopyAddr, Submit
<1>7. QED BY <1>1, <1>2, <1>3, <1>4, <1>5, <1>6 DEF SysNext, Work, sysVars

\* The server implements the points store: what is proved of the store holds of
\* the whole, whatever is submitted when (modbus_submit_frame and the callbacks of
\* modbus_service.c).
THEOREM ServerUsesTheStore == SysSpec => Spec
<1>1. SysInit => Init
      BY DEF SysInit
<1>2. QED BY <1>1, ServerInvInit, ServerInvNext, StepOfTheStore, PTL DEF SysSpec, Spec

\* Points under load: what a master has written is lost only with the sector the
\* self test erases, whatever requests fail, are repeated or are lost
\* (modbus_points_db_set_holding and _set_coil called by the work queue).
THEOREM ServerLosesNothing == SysSpec => []LossOnlyBySelfTest
BY ServerUsesTheStore, OnlySelfTestLoses, PTL

\* No callback of the running server is refused because the database is not
\* ready (modbus_service_init).
THEOREM ServerIsNeverRefused == SysSpec => []ServerImpliesDatabase
BY ServerUsesTheStore, ServerNeedsDatabase, PTL

-----------------------------------------------------------------------------
(* The firmware keeps the promise of PointServer.                          *)

Datum == Value \cup {DefaultOf(k) : k \in Key}

Present(k) == k \in Key /\ at[k] # NOWHERE

\* Register j of the request has been dealt with as the answer will say.
Right(j) ==
    LET a == handler.req.addr[j]
    IN  CASE handler.req.fc = "write" ->
               Present(a) /\ (~handler.mixed => val[a] = handler.req.data[j])
          [] handler.req.fc = "read"  -> Present(a) /\ handler.got[j] = val[a]
          [] handler.req.fc = "input" -> a \in InputReg

Done == IF handler.stage = "respond" /\ handler.ok THEN handler.i ELSE handler.i - 1

\* The flash holds what the handler has stored so far, and the answer it is
\* collecting what it has read; an input register is refused for a reason.
Progress ==
    /\ server_up /\ handler.req.unit_id # "other" /\ handler.ok \in BOOLEAN
    /\ handler.ok => \A j \in 1..Done : Right(j)
    /\ handler.ok /\ handler.req.fc = "read" => handler.got \in Seq(Datum) /\ Len(handler.got) = Done
    /\ handler.stage = "access" =>
          /\ handler.ok
          /\ handler.req.fc = "write" /\ ~handler.mixed => handler.next = handler.req.data[handler.i]
    /\ handler.stage = "flash" =>
          /\ handler.ok /\ handler.req.fc = "write"
          /\ call # Idle /\ call.key = Addr
          /\ ~handler.mixed => call.v = handler.req.data[handler.i]
    /\ handler.stage = "respond" =>
          IF handler.ok THEN handler.i = Len(handler.req.addr)
          ELSE handler.req.fc = "input" => Addr \notin InputReg

\* main copies frames, and work is queued, only while the server is up.
PromiseInv ==
    /\ copying # <<>> => server_up
    /\ work => server_up
    /\ pc = "run" => server_up
    /\ handler # Resting => Progress

\* The handler at work.
LEMMA AtWork ==
    ASSUME ServerInv, PromiseInv, handler # Resting
    PROVE  /\ Serving /\ Progress /\ handler.i \in Nat \ {0} /\ Len(handler.req.addr) \in Nat
           /\ handler.i <= Len(handler.req.addr)
           /\ handler.req.fc \in {"read", "write", "input"}
           /\ handler.req.unit_id \in {"own", "all"}
<1>1. Serving /\ Progress
      BY DEF ServerInv, PromiseInv
<1>2. Shape(handler.req) /\ handler.i \in 1..Len(handler.req.addr)
      BY <1>1 DEF Serving
<1>3. Len(handler.req.addr) \in Nat
      BY <1>2, ShapeFits
<1>4. handler.req.fc \in {"read", "write", "input"} /\ handler.req.unit_id \in {"own", "all"}
      BY <1>1, <1>2, ShapeFits DEF Progress
<1>5. QED BY <1>1, <1>2, <1>3, <1>4

LEMMA PromiseInvInit == SysInit => PromiseInv
BY DEF SysInit, Init, PromiseInv

\* A step that leaves the handler, what it has done and its access alone, but may
\* mix up its request.
LEMMA ProgressStays ==
    ASSUME Progress, Serving, UNCHANGED <<server_up, at, val, call>>,
           handler' = handler \/ handler' = [handler EXCEPT !.mixed = TRUE]
    PROVE  Progress'
<1>1. /\ handler'.stage = handler.stage /\ handler'.req = handler.req
      /\ handler'.i = handler.i /\ handler'.ok = handler.ok /\ handler'.got = handler.got
      /\ handler'.next = handler.next /\ (handler.mixed => handler'.mixed)
      BY DEF Serving
<1>2. \A j : Right(j) => Right(j)'
  <2>1. SUFFICES ASSUME NEW j, Right(j) PROVE Right(j)'
        OBVIOUS
  <2>2. handler.req.fc \in {"read", "write", "input"}
        BY ShapeFits DEF Serving
  <2>3. CASE handler.req.fc = "write"
        BY <1>1, <2>1, <2>3 DEF Right, Present
  <2>4. CASE handler.req.fc = "read"
        BY <1>1, <2>1, <2>4 DEF Right, Present
  <2>5. CASE handler.req.fc = "input"
        BY <1>1, <2>1, <2>5 DEF Right
  <2>6. QED BY <2>2, <2>3, <2>4, <2>5
<1>3. Done' = Done /\ Addr' = Addr
      BY <1>1 DEF Done, Addr
<1>4. QED BY <1>1, <1>2, <1>3 DEF Progress

\* The next register, or the answer.
LEMMA AdvanceProgress ==
    ASSUME ServerInv, PromiseInv, handler.stage \in {"access", "flash"}, NEW x, Advance(x),
           UNCHANGED <<server_up, at, val>>,
           handler.req.fc = "write" => /\ Present(Addr)
                                       /\ ~handler.mixed => val[Addr] = handler.req.data[handler.i],
           handler.req.fc = "read" => Present(Addr) /\ x = val[Addr] /\ x \in Datum,
           handler.req.fc = "input" => Addr \in InputReg
    PROVE  Progress'
<1> DEFINE more == handler.i < Len(handler.req.addr)
           req == handler.req
           i == handler.i
<1>1. /\ Serving /\ Progress /\ i \in Nat \ {0} /\ Len(req.addr) \in Nat /\ i <= Len(req.addr)
      /\ req.fc \in {"read", "write", "input"}
      BY AtWork DEF Resting
<1>2. /\ handler.ok /\ Done = i - 1 /\ \A j \in 1..(i - 1) : Right(j)
      /\ req.fc = "read" => handler.got \in Seq(Datum) /\ Len(handler.got) = i - 1
  <2>1. handler.ok /\ handler.stage # "respond"
        BY <1>1 DEF Progress
  <2>2. Done = i - 1
        BY <2>1 DEF Done
  <2>3. QED BY <1>1, <2>1, <2>2 DEF Progress
<1>3. /\ handler'.req = req /\ handler'.mixed = handler.mixed /\ handler'.ok = handler.ok
      /\ handler'.stage = IF more THEN "access" ELSE "respond"
      /\ handler'.i = IF more THEN i + 1 ELSE i
      /\ req.fc # "write" => handler'.got = Append(handler.got, x)
      /\ more /\ req.fc = "write" /\ ~handler.mixed => handler'.next = req.data[i + 1]
      BY <1>1, AdvanceGives
<1>4. Done' = i
      BY <1>1, <1>2, <1>3 DEF Done
<1>5. req.fc = "read" =>
         /\ handler'.got \in Seq(Datum) /\ Len(handler'.got) = i /\ handler'.got[i] = x
         /\ \A j \in 1..(i - 1) : handler'.got[j] = handler.got[j]
  <2> SUFFICES ASSUME req.fc = "read"
               PROVE  /\ handler'.got \in Seq(Datum) /\ Len(handler'.got) = i /\ handler'.got[i] = x
                      /\ \A j \in 1..(i - 1) : handler'.got[j] = handler.got[j]
      OBVIOUS
  <2>1. handler.got \in Seq(Datum) /\ Len(handler.got) = i - 1 /\ x \in Datum
        /\ handler'.got = Append(handler.got, x)
        BY <1>2, <1>3
  <2>2. QED BY <1>1, <2>1, AppendProperties
<1> HIDE DEF req, i, more
<1>6. ASSUME NEW j \in 1..i PROVE Right(j)'
  <2>1. CASE j = i
    <3>1. handler'.req.addr[j] = Addr
          BY <1>3, <2>1 DEF Addr, req, i
    <3>2. CASE req.fc = "write"
          BY <1>3, <2>1, <3>1, <3>2 DEF Right, Present, req, i
    <3>3. CASE req.fc = "read"
          BY <1>3, <1>5, <2>1, <3>1, <3>3 DEF Right, Present, req, i
    <3>4. CASE req.fc = "input"
          BY <1>3, <2>1, <3>1, <3>4 DEF Right, req, i
    <3>5. QED BY <1>1, <3>2, <3>3, <3>4
  <2>2. CASE j # i
    <3>1. j \in 1..(i - 1)
          BY <1>1, <2>2
    <3>2. Right(j) /\ handler'.req = handler.req /\ handler'.mixed = handler.mixed
          BY <1>2, <1>3, <3>1 DEF req
    <3>3. CASE req.fc = "write"
          BY <3>2, <3>3 DEF Right, Present, req
    <3>4. CASE req.fc = "read"
          BY <1>5, <3>1, <3>2, <3>4 DEF Right, Present, req
    <3>5. CASE req.fc = "input"
          BY <3>2, <3>5 DEF Right, req
    <3>6. QED BY <1>1, <3>3, <3>4, <3>5
  <2>3. QED BY <2>1, <2>2
<1>7. more /\ req.fc = "write" /\ ~handler.mixed => handler'.next = req.data[handler'.i]
      BY <1>3
<1>8. ~more => i = Len(req.addr)
      BY <1>1 DEF more, i, req
<1>9. QED BY <1>1, <1>2, <1>3, <1>4, <1>5, <1>6, <1>7, <1>8 DEF Progress, req

LEMMA ExceptProgress ==
    ASSUME ServerInv, PromiseInv, handler.stage \in {"access", "flash"}, Except,
           UNCHANGED <<server_up, at, val>>,
           handler.req.fc = "input" => Addr \notin InputReg
    PROVE  Progress'
<1>1. Serving /\ Progress
      BY AtWork DEF Resting
<1>2. /\ handler'.req = handler.req /\ handler'.ok = FALSE /\ handler'.stage = "respond"
      /\ handler'.i = handler.i
      BY <1>1 DEF Except, Serving
<1>3. Addr' = Addr
      BY <1>2 DEF Addr
<1>4. QED BY <1>1, <1>2, <1>3 DEF Progress

LEMMA MainPromise ==
    ASSUME ServerInv, PromiseInv, Main
    PROVE  PromiseInv' /\ server_up /\ UNCHANGED <<server_up, at, val>>
<1>1. /\ UNCHANGED <<pc, server_up, at, val, call>> /\ (pc = "run" \/ copying # <<>>)
      /\ handler' = handler \/ (handler # Resting /\ handler' = [handler EXCEPT !.mixed = TRUE])
      BY DEF Main, CopyHead, CopyAddr, Submit, InMultipleWrite, vars, ram, flash
<1>2. server_up
      BY <1>1 DEF PromiseInv
<1>3. handler' # Resting => Progress'
      BY <1>1, ProgressStays DEF ServerInv, PromiseInv
<1>4. QED BY <1>1, <1>2, <1>3 DEF PromiseInv

LEMMA BeginPromise ==
    ASSUME ServerInv, PromiseInv, Begin
    PROVE  PromiseInv'
<1>1. /\ work /\ UNCHANGED <<pc, server_up, copying, rx_adu>> /\ handler = Resting
      BY DEF Begin, vars, ram, adu
<1>2. server_up'
      BY <1>1 DEF PromiseInv
<1>3. CASE UNCHANGED handler
      BY <1>1, <1>2, <1>3 DEF PromiseInv
<1>4. CASE ~UNCHANGED handler
  <2>1. /\ rx_adu.unit_id # "other"
        /\ handler'.stage = "access" /\ handler'.req = rx_adu /\ handler'.i = 1
        /\ handler'.ok = TRUE /\ handler'.got = <<>>
        /\ rx_adu.fc = "write" /\ ~handler'.mixed => handler'.next = rx_adu.data[1]
        BY <1>4, BeginGives
  <2>2. Done' = 0
        BY <2>1 DEF Done
  <2>3. handler'.got \in Seq(Datum) /\ Len(handler'.got) = 0
        BY <2>1, EmptySeq
  <2>4. \A j \in 1..Done' : Right(j)'
        BY <2>2
  <2>5. handler'.req.unit_id # "other" /\ handler'.ok \in BOOLEAN
        BY <2>1
  <2>6. handler'.req.fc = "write" /\ ~handler'.mixed
           => handler'.next = handler'.req.data[handler'.i]
        BY <2>1
  <2>7. Progress'
        BY <1>2, <2>1, <2>2, <2>3, <2>4, <2>5, <2>6 DEF Progress
  <2>8. QED BY <1>1, <1>2, <2>7 DEF PromiseInv
<1>5. QED BY <1>3, <1>4

\* The store during an access to a point.
LEMMA ReadPromise ==
    ASSUME StoreInv, ServerInv, PromiseInv, ReadPoint
    PROVE  Progress' /\ UNCHANGED <<pc, server_up, at, val>>
<1>1. /\ handler.stage = "access" /\ handler.req.fc = "read" /\ Get(Addr)
      /\ UNCHANGED <<pc, server_up, at, val>>
      BY DEF ReadPoint, Get, ram, flash
<1>2. ret' = "ok" => Present(Addr)
      BY <1>1, Running DEF Get, Refusal, Present
<1>3. CASE ret' = "ok"
  <2>1. Advance(val[Addr])
        BY <1>2, <1>3 DEF ReadPoint, Present
  <2>2. val[Addr] \in Datum
        BY <1>2, <1>3 DEF StoreInv, TypeOK, Datum, Present
  <2>3. QED BY <1>1, <1>2, <1>3, <2>1, <2>2, AdvanceProgress
<1>4. CASE ret' # "ok"
  <2>1. Except
        BY <1>4 DEF ReadPoint
  <2>2. QED BY <1>1, <2>1, ExceptProgress
<1>5. QED BY <1>1, <1>3, <1>4

LEMMA InputPromise ==
    ASSUME ServerInv, PromiseInv, ReadInput
    PROVE  Progress' /\ UNCHANGED <<pc, server_up, at, val>>
<1>1. /\ handler.stage = "access" /\ handler.req.fc = "input"
      /\ UNCHANGED <<pc, server_up, at, val>>
      BY DEF ReadInput, vars, ram, flash
<1>2. CASE Addr \in InputReg
      BY <1>1, <1>2, AdvanceProgress DEF ReadInput
<1>3. CASE Addr \notin InputReg
      BY <1>1, <1>3, ExceptProgress DEF ReadInput
<1>4. QED BY <1>1, <1>2, <1>3

\* A write stores the value that the request names, or nothing yet.
LEMMA WriteBeginsPromise ==
    ASSUME StoreInv, ServerInv, PromiseInv, WriteBegins
    PROVE  /\ Progress' /\ UNCHANGED <<pc, server_up>>
           /\ handler'.req = handler.req /\ handler'.mixed = handler.mixed
           /\ \/ Content' = Content
              \/ /\ Addr \in Key /\ handler.next \in Value
                 /\ ~handler.mixed => handler.next = handler.req.data[handler.i]
                 /\ Content' = [Content EXCEPT ![Addr] = handler.next]
<1>1. /\ handler.stage = "access" /\ handler.req.fc = "write" /\ SetStart(Addr, handler.next)
      /\ UNCHANGED <<pc, server_up>> /\ call = Idle
      BY DEF WriteBegins, SetStart
<1>2. /\ Serving /\ Progress /\ handler.i \in Nat \ {0} /\ handler.i <= Len(handler.req.addr)
      /\ Len(handler.req.addr) \in Nat /\ Shape(handler.req)
      BY <1>1, AtWork DEF Resting, Serving
<1>3. /\ ~handler.mixed => handler.next = handler.req.data[handler.i]
      /\ handler.next \in Value /\ handler.ok /\ handler.next # NOWHERE
      BY <1>1, <1>2, ServerAssumption DEF Progress, Serving
<1>4. CASE Refusal(Addr) # "ok"
  <2>1. UNCHANGED <<call, at, val>>
        BY <1>1, <1>4 DEF SetStart, flash
  <2>2. Except
        BY <1>1, <2>1 DEF WriteBegins
  <2>3. Progress'
        BY <1>1, <2>1, <2>2, ExceptProgress
  <2>4. handler'.req = handler.req /\ handler'.mixed = handler.mixed /\ Content' = Content
        BY <1>2, <2>1, <2>2 DEF Except, Serving, Content
  <2>5. QED BY <1>1, <2>3, <2>4
<1>5. CASE Refusal(Addr) = "ok"
  <2>1. Addr \in Key
        BY <1>5 DEF Refusal
  <2>2. PICK err \in {"ok", "error"}, s \in Sector, m \in Moved :
              /\ \/ /\ at' = [m EXCEPT ![Addr] = s] /\ val' = [val EXCEPT ![Addr] = handler.next]
                    /\ wiped' = wiped \ {Addr}
                 \/ err = "error" /\ at' = m /\ UNCHANGED <<val, wiped>>
              /\ call' = [op |-> "set", key |-> Addr, v |-> handler.next, err |-> err]
        BY <1>1, <1>5 DEF SetStart
  <2>3. /\ m \in [Key -> Sector \cup {NOWHERE}] /\ at \in [Key -> Sector \cup {NOWHERE}]
        /\ \A k \in Key : m[k] = NOWHERE <=> at[k] = NOWHERE
    <3>1. at \in [Key -> Sector \cup {NOWHERE}] /\ m \in [Key -> Sector \cup {NOWHERE}]
          BY MovedKeeps DEF StoreInv, TypeOK
    <3>2. \A k \in Key : at[k] = NOWHERE => m[k] = NOWHERE
          BY StoreAssumption DEF Moved
    <3>3. QED BY <3>1, <3>2, MovedKeeps
  <2>4. val \in [Key -> Datum]
        BY DEF StoreInv, TypeOK, Datum
  <2>5. /\ call'.op = "set" /\ call'.key = Addr /\ call'.v = handler.next /\ call' # Idle
        BY <2>2 DEF Idle
  <2>6. handler' = [handler EXCEPT !.stage = "flash"]
        BY <2>5 DEF WriteBegins
  <2>7. /\ handler'.stage = "flash" /\ handler'.req = handler.req /\ handler'.i = handler.i
        /\ handler'.ok = handler.ok /\ handler'.mixed = handler.mixed
        BY <1>2, <2>6 DEF Serving
  <2>8. \A k \in Key : k # Addr => (at'[k] = NOWHERE <=> at[k] = NOWHERE) /\ val'[k] = val[k]
    <3>1. CASE at' = m /\ val' = val
          BY <2>3, <3>1
    <3>2. CASE at' = [m EXCEPT ![Addr] = s] /\ val' = [val EXCEPT ![Addr] = handler.next]
          BY <2>3, <2>4, <3>2
    <3>3. QED BY <2>2, <3>1, <3>2
  <2>9. ASSUME NEW j \in 1..(handler.i - 1) PROVE Right(j)'
    <3>1. Done = handler.i - 1
          BY <1>1 DEF Done
    <3>2. Right(j)
          BY <1>2, <1>3, <3>1 DEF Progress
    <3>3. handler.req.addr[j] # Addr
      <4>1. /\ j \in 1..Len(handler.req.addr) /\ handler.i \in 1..Len(handler.req.addr)
            /\ j # handler.i
            BY <1>2
      <4>2. QED BY <1>2, <2>1, <4>1, ShapeFits DEF Addr
    <3>4. QED BY <1>1, <2>7, <2>8, <3>2, <3>3 DEF Right, Present
  <2>10. Done' = handler.i - 1 /\ Addr' = Addr
         BY <2>7 DEF Done, Addr
  <2>11. Progress'
         BY <1>1, <1>2, <1>3, <2>5, <2>7, <2>9, <2>10 DEF Progress
  <2>12. CASE at' = m /\ val' = val
    <3>1. Content' = Content
          BY <2>3, <2>12 DEF Content
    <3>2. QED BY <1>1, <2>7, <2>11, <3>1
  <2>13. CASE at' = [m EXCEPT ![Addr] = s] /\ val' = [val EXCEPT ![Addr] = handler.next]
    <3>1. at'[Addr] # NOWHERE /\ val'[Addr] = handler.next
          BY <2>1, <2>3, <2>4, <2>13, StoreAssumption
    <3>2. Content' = [k \in Key |-> IF k = Addr THEN handler.next ELSE Content[k]]
          BY <2>8, <3>1 DEF Content
    <3>3. Content' = [Content EXCEPT ![Addr] = handler.next]
          BY <3>2 DEF Content
    <3>4. QED BY <1>1, <1>3, <2>1, <2>7, <2>11, <3>3
  <2>14. QED BY <2>2, <2>12, <2>13
<1>6. QED BY <1>4, <1>5

\* A write that is reported as done is in the flash.
LEMMA WriteEndsPromise ==
    ASSUME StoreInv, ServerInv, PromiseInv, WriteEnds
    PROVE  Progress' /\ UNCHANGED <<pc, server_up, at, val>>
<1>1. /\ handler.stage = "flash" /\ ret' = call.err
      /\ UNCHANGED <<pc, server_up, at, val>>
      BY DEF WriteEnds, SetReturn, flash
<1>2. Progress
      BY <1>1, AtWork DEF Resting
<1>3. /\ handler.req.fc = "write" /\ call # Idle /\ call.key = Addr
      /\ ~handler.mixed => call.v = handler.req.data[handler.i]
      BY <1>1, <1>2 DEF Progress
<1>4. CASE WriteFails
      BY <1>1, <1>3, <1>4, ExceptProgress DEF WriteEnds
<1>5. CASE ~WriteFails
  <2>1. call.err = "ok" /\ Advance(0)
        BY <1>1, <1>5 DEF WriteEnds, WriteFails
  <2>2. Present(Addr) /\ (~handler.mixed => val[Addr] = handler.req.data[handler.i])
        BY <1>3, <2>1 DEF StoreInv, CallOK, Present
  <2>3. QED BY <1>1, <1>3, <2>1, <2>2, AdvanceProgress
<1>6. QED BY <1>1, <1>4, <1>5

\* main runs only when the server is up, and boots only while it is not.
LEMMA BootPromise ==
    ASSUME StoreInv, PromiseInv, Boot
    PROVE  pc # "run" /\ server_up = FALSE /\ (pc' = "run" => server_up') /\ server_up' \in BOOLEAN
<1>1. pc # "run" /\ pc # "halt" /\ (pc' = "run" => pc = "server")
      BY DEF Boot, PlainStage, SelfTestErase, SelfTestWrite, DbInit, ServerInit, Pass, Fail, NextStage
<1>2. server_up = FALSE
      BY <1>1, NoCallInBoot
<1>3. pc = "server" => ServerInit
      BY DEF Boot, PlainStage, SelfTestErase, SelfTestWrite, DbInit, Pass, Fail
<1>4. server_up' \in BOOLEAN
      BY <1>2 DEF Boot, PlainStage, SelfTestErase, SelfTestWrite, DbInit, ServerInit, ram
<1>5. pc' = "run" => server_up'
      BY <1>1, <1>3 DEF ServerInit, Pass, Fail
<1>6. QED BY <1>1, <1>2, <1>4, <1>5

LEMMA PromiseInvNext ==
    StoreInv /\ ServerInv /\ PromiseInv /\ [SysNext]_sysVars => PromiseInv'
<1> SUFFICES ASSUME StoreInv, ServerInv, PromiseInv, [SysNext]_sysVars PROVE PromiseInv'
    OBVIOUS
<1>1. CASE Main
      BY <1>1, MainPromise
<1>2. CASE Begin
      BY <1>2, BeginPromise
<1>3. CASE ReadPoint \/ ReadInput \/ WriteBegins \/ WriteEnds
  <2>1. Progress' /\ UNCHANGED <<pc, server_up, copying, work>>
        BY <1>3, ReadPromise, InputPromise, WriteBeginsPromise, WriteEndsPromise
           DEF ReadPoint, ReadInput, WriteBegins, WriteEnds, adu
  <2>2. QED BY <2>1 DEF PromiseInv
<1>4. CASE Respond
  <2>1. handler' = Resting /\ UNCHANGED <<pc, server_up, copying, work>>
        BY <1>4 DEF Respond, vars, ram, adu
  <2>2. QED BY <2>1 DEF PromiseInv
<1>5. CASE BootStep
  <2>1. UNCHANGED <<copying, work, handler>>
        BY <1>5 DEF BootStep, srv, adu
  <2>2. server_up = FALSE /\ (pc' = "run" => server_up')
        BY <1>5, BootPromise DEF BootStep
  <2>3. copying = <<>> /\ ~work /\ handler = Resting
        BY <2>2 DEF PromiseInv, Progress
  <2>4. QED BY <2>1, <2>2, <2>3 DEF PromiseInv
<1>6. CASE Blackout
      BY <1>6 DEF Blackout, PowerCycle, PromiseInv
<1>7. CASE UNCHANGED sysVars
  <2>1. UNCHANGED <<copying, work, handler, pc, server_up, at, val, call>>
        BY <1>7 DEF sysVars, srv, adu, vars, ram, flash
  <2>2. handler' # Resting => Progress'
        BY <2>1, ProgressStays DEF ServerInv, PromiseInv
  <2>3. QED BY <2>1, <2>2 DEF PromiseInv
<1>8. QED BY <1>1, <1>2, <1>3, <1>4, <1>5, <1>6, <1>7 DEF SysNext, Work

\* The steps of the firmware as steps of the promise, or as no step of it.
LEMMA OtherStep ==
    ASSUME UNCHANGED <<server_up, at, val, adu, handler, reply>>
    PROVE  UNCHANGED Promise!vars
BY DEF Promise!vars, Content, Asked, adu

LEMMA ArriveStep ==
    ASSUME ServerInv, PromiseInv, NEW frame \in RtuFrame, CopyHead(frame)
    PROVE  Promise!Arrive
<1>1. /\ copying = <<>> /\ copying' # <<>> /\ reply' = None
      /\ server_up /\ UNCHANGED <<server_up, at, val>>
      BY MainPromise, ServerAssumption DEF CopyHead, Main
<1>2. Content' = Content /\ Asked' = None
      BY <1>1 DEF Content, Asked
<1>3. CASE InMultipleWrite
  <2>1. /\ Serving /\ handler.i \in Nat \ {0} /\ handler.i < Len(handler.req.addr)
        /\ Len(handler.req.addr) \in Nat /\ handler.req.fc = "write"
        BY <1>3, AtWork DEF InMultipleWrite
  <2>2. Promise!Several
        BY <2>1, ShapeFits DEF Promise!Several, Serving
  <2>3. handler'.req = handler.req /\ handler'.mixed = TRUE
        BY <1>3, <2>1 DEF CopyHead, Serving
  <2>4. QED BY <1>1, <1>2, <2>2, <2>3 DEF Promise!Arrive
<1>4. CASE ~InMultipleWrite
  <2>1. handler' = handler
        BY <1>4 DEF CopyHead
  <2>2. QED BY <1>1, <1>2, <2>1 DEF Promise!Arrive
<1>5. QED BY <1>3, <1>4

\* The addresses of a request that is not there yet are not seen.
LEMMA CopyStep ==
    ASSUME CopyAddr
    PROVE  UNCHANGED Promise!vars
<1>1. copying # <<>> /\ UNCHANGED <<server_up, at, val, copying, handler, reply>>
      BY DEF CopyAddr, vars, ram, flash
<1>2. Content' = Content /\ Asked' = Asked
      BY <1>1 DEF Content, Asked
<1>3. QED BY <1>1, <1>2 DEF Promise!vars

LEMMA AskStep ==
    ASSUME ServerInv, PromiseInv, Submit
    PROVE  Promise!Ask
<1>1. copying # <<>> /\ copying' = <<>> /\ UNCHANGED <<server_up, at, val, handler, reply>>
      BY DEF Submit, vars, ram, flash
<1>2. IsAdu(rx_adu')
      BY SubmitKeeps
<1>3. PICK frame \in RtuFrame : rx_adu' = AduOf(frame)
      BY <1>2 DEF IsAdu
<1>4. AduOf(frame) # None /\ AduOf(frame) # ZeroAdu
      BY AduFits, ShapeFits DEF IsAdu
<1>5. Content' = Content /\ Asked' = AduOf(frame)
      BY <1>1, <1>3, <1>4 DEF Content, Asked
<1>6. QED BY <1>1, <1>4, <1>5 DEF Promise!Ask

LEMMA ServeStep ==
    ASSUME ServerInv, PromiseInv, Begin
    PROVE  Promise!Serve \/ UNCHANGED Promise!vars
<1>1. /\ work /\ UNCHANGED <<server_up, at, val, adu, copying, rx_adu>> /\ handler = Resting
      BY DEF Begin, vars, ram, flash, adu
<1>2. server_up /\ Shape(rx_adu)
      BY <1>1 DEF PromiseInv, ServerInv
<1>3. CASE UNCHANGED <<handler, reply>>
      BY <1>1, <1>3, OtherStep
<1>4. CASE ~UNCHANGED <<handler, reply>>
  <2>1. ~UNCHANGED handler
        BY <1>1, <1>4 DEF Begin, Resting
  <2>2. /\ handler'.req = rx_adu /\ handler'.mixed = (copying # <<>>)
        /\ rx_adu.unit_id # "other" /\ reply' = None
        BY <2>1, BeginGives
  <2>3. handler.req = None /\ rx_adu # None /\ rx_adu # ZeroAdu
        BY <1>1, <1>2, ShapeFits DEF Resting
  <2>4. Content' = Content /\ Asked' = Asked
        BY <1>1 DEF Content, Asked
  <2>5. CASE copying # <<>>
        BY <1>1, <1>2, <2>2, <2>3, <2>4, <2>5 DEF Promise!Serve
  <2>6. CASE copying = <<>>
    <3>1. Asked = rx_adu
          BY <2>3, <2>6 DEF Asked
    <3>2. handler'.mixed = FALSE
          BY <2>2, <2>6
    <3>3. QED BY <1>1, <1>2, <2>2, <2>3, <2>4, <2>6, <3>1, <3>2 DEF Promise!Serve
  <2>7. QED BY <2>5, <2>6
<1>5. QED BY <1>3, <1>4

LEMMA StoreStep ==
    ASSUME StoreInv, ServerInv, PromiseInv, WriteBegins
    PROVE  Promise!Store \/ UNCHANGED Promise!vars
<1>1. /\ UNCHANGED <<server_up, copying, rx_adu, reply>> /\ Asked' = Asked
      /\ handler'.req = handler.req /\ handler'.mixed = handler.mixed
      /\ handler.stage = "access" /\ handler.req.fc = "write"
      BY WriteBeginsPromise DEF WriteBegins, Asked, adu
<1>2. Serving /\ Progress /\ handler.i \in 1..Len(handler.req.addr) /\ handler.req # None
  <2>1. Serving /\ Progress
        BY <1>1, AtWork DEF Resting
  <2>2. QED BY <2>1, ShapeFits DEF Serving
<1>3. CASE Content' = Content
      BY <1>1, <1>3 DEF Promise!vars
<1>4. CASE /\ Addr \in Key /\ handler.next \in Value
           /\ ~handler.mixed => handler.next = handler.req.data[handler.i]
           /\ Content' = [Content EXCEPT ![Addr] = handler.next]
      BY <1>1, <1>2, <1>4 DEF Promise!Store, Addr, Progress
<1>5. QED BY <1>3, <1>4, WriteBeginsPromise

\* The other accesses change nothing that the master could see.
LEMMA HiddenStep ==
    ASSUME StoreInv, ServerInv, PromiseInv, ReadPoint \/ ReadInput \/ WriteEnds
    PROVE  UNCHANGED Promise!vars
<1>1. UNCHANGED <<server_up, at, val, copying, rx_adu, reply>>
      BY ReadPromise, InputPromise, WriteEndsPromise DEF ReadPoint, ReadInput, WriteEnds, adu
<1>2. handler'.req = handler.req /\ handler'.mixed = handler.mixed
  <2>1. Serving /\ handler.stage \in {"access", "flash"}
        BY AtWork DEF ReadPoint, ReadInput, WriteEnds, Resting
  <2>2. Except \/ \E x : Advance(x)
        BY DEF ReadPoint, ReadInput, WriteEnds
  <2>3. CASE Except
        BY <2>1, <2>3 DEF Serving, Except
  <2>4. QED BY <2>1, <2>2, <2>3, AdvanceGives
<1>3. QED BY <1>1, <1>2 DEF Promise!vars, Content, Asked

\* What the handler answers fits the request and the points.
LEMMA AnswerFits ==
    ASSUME StoreInv, ServerInv, PromiseInv, handler.stage = "respond", NEW r,
           r.ok = handler.ok, r.got = handler.got
    PROVE  Promise!Fits(r)
<1> DEFINE addr == handler.req.addr
           fc == handler.req.fc
           data == handler.req.data
           PresentSet == {p \in Key : Content[p] # NOWHERE}
<1>1. /\ Progress /\ handler.i \in 1..Len(addr) /\ fc \in {"read", "write", "input"}
      /\ Len(addr) \in Nat /\ handler.ok \in BOOLEAN
      BY AtWork DEF Resting, Progress
<1>2. handler.ok => /\ \A j \in 1..Len(addr) : Right(j)
                    /\ fc = "read" => handler.got \in Seq(Datum) /\ Len(handler.got) = Len(addr)
  <2>1. handler.ok => handler.i = Len(addr) /\ Done = Len(addr)
        BY <1>1 DEF Progress, Done
  <2>2. QED BY <1>1, <2>1 DEF Progress
<1>3. ~handler.ok /\ fc = "input" => addr[handler.i] \notin InputReg
      BY <1>1 DEF Progress, Addr
<1>4. \A k : Present(k) => Content[k] = val[k]
      BY DEF Present, Content
<1>5. \A k : Present(k) => k \in PresentSet
  <2>1. \A k \in Key : val[k] # NOWHERE
        BY ServerAssumption DEF StoreInv, TypeOK
  <2>2. QED BY <2>1 DEF Content, Present
<1>6. CASE fc = "write"
  <2>1. handler.ok => \A j \in 1..Len(addr) : addr[j] \in PresentSet
        BY <1>2, <1>5, <1>6 DEF Right
  <2>2. handler.ok /\ ~handler.mixed => \A j \in 1..Len(addr) : Content[addr[j]] = data[j]
        BY <1>2, <1>4, <1>6 DEF Right
  <2>3. QED BY <1>6, <2>1, <2>2 DEF Promise!Fits
<1>7. CASE fc = "read"
  <2>1. CASE handler.ok
    <3>1. \A j \in 1..Len(addr) : Present(addr[j]) /\ handler.got[j] = Content[addr[j]]
          BY <1>2, <1>4, <1>7, <2>1 DEF Right
    <3>2. handler.got = [j \in 1..Len(addr) |-> Content[addr[j]]]
      <4>1. handler.got = [j \in 1..Len(addr) |-> handler.got[j]]
            BY <1>2, <1>7, <2>1, LenProperties
      <4>2. QED BY <3>1, <4>1
    <3>3. \A j \in 1..Len(addr) : addr[j] \in PresentSet
          BY <1>5, <3>1
    <3>4. QED BY <1>7, <3>2, <3>3 DEF Promise!Fits
  <2>2. CASE ~handler.ok
        BY <1>7, <2>2 DEF Promise!Fits
  <2>3. QED BY <2>1, <2>2
<1>8. CASE fc = "input"
  <2>1. CASE handler.ok
    <3>1. \A j \in 1..Len(addr) : addr[j] \in InputReg
          BY <1>2, <1>8, <2>1 DEF Right
    <3>2. handler.ok = TRUE
          BY <1>1, <2>1
    <3>3. QED BY <1>8, <3>1, <3>2 DEF Promise!Fits
  <2>2. CASE ~handler.ok
    <3>1. ~\A j \in 1..Len(addr) : addr[j] \in InputReg
          BY <1>1, <1>3, <1>8, <2>2
    <3>2. handler.ok = FALSE
          BY <1>1, <2>2
    <3>3. QED BY <1>8, <3>1, <3>2 DEF Promise!Fits
  <2>3. QED BY <2>1, <2>2
<1>9. QED BY <1>1, <1>6, <1>7, <1>8

LEMMA AnswerStep ==
    ASSUME StoreInv, ServerInv, PromiseInv, Respond
    PROVE  Promise!Answer \/ Promise!NoAnswer
<1>1. /\ handler.stage = "respond" /\ handler'.req = None /\ handler'.mixed = FALSE
      /\ UNCHANGED <<server_up, at, val, copying, rx_adu>>
      BY DEF Respond, vars, ram, flash, adu, Resting
<1>2. Content' = Content /\ Asked' = Asked
      BY <1>1 DEF Content, Asked
<1>3. handler.req # None
      BY <1>1, AtWork, ShapeFits DEF Resting, Serving
<1>4. CASE UNCHANGED reply
      BY <1>1, <1>2, <1>3, <1>4 DEF Promise!NoAnswer
<1>5. CASE /\ handler.req.unit_id = "own"
           /\ reply' = [to |-> handler.req, ok |-> handler.ok, got |-> handler.got]
  <2>1. reply'.to = handler.req /\ reply'.ok = handler.ok /\ reply'.got = handler.got
        BY <1>5
  <2>2. reply' # None
        BY <1>5 DEF None
  <2>3. Promise!Fits(reply')
        BY <1>1, <2>1, AnswerFits
  <2>4. QED BY <1>1, <1>2, <1>3, <1>5, <2>1, <2>2, <2>3 DEF Promise!Answer
<1>6. QED BY <1>4, <1>5 DEF Respond

\* Opening the database fills in points without a record, and nothing else.
LEMMA FilledOnly ==
    ASSUME StoreInv, DbInit, ~UNCHANGED <<at, val>>
    PROVE  \E s \in Sector, fill \in SUBSET {k \in Key : at[k] = NOWHERE} :
               /\ at'  = [k \in Key |-> IF k \in fill THEN s ELSE at[k]]
               /\ val' = [k \in Key |-> IF k \in fill THEN DefaultOf(k) ELSE val[k]]
<1>1. ~(Fail("db") /\ UNCHANGED <<flash, g_db_ready>>)
      BY DEF flash
<1>2. PICK s \in Sector, missing \in {{}, {k \in Key : at[k] = NOWHERE}} :
         LET fill == IF \E t \in Sector : header[t] = "kvdb" THEN missing
                     ELSE {k \in Key : at[k] = NOWHERE}
         IN  /\ at'  = [k \in Key |-> IF k \in fill THEN s ELSE at[k]]
             /\ val' = [k \in Key |-> IF k \in fill THEN DefaultOf(k) ELSE val[k]]
      BY <1>1 DEF DbInit
<1>3. QED BY <1>2

\* While it boots the firmware loses points and restores defaults.
LEMMA FallbackStep ==
    ASSUME StoreInv, PromiseInv, BootStep
    PROVE  Promise!Fallback \/ Promise!Start \/ UNCHANGED Promise!vars
<1>1. /\ UNCHANGED <<adu, copying, handler, reply>> /\ Asked' = Asked /\ Boot
      /\ handler'.req = handler.req /\ handler'.mixed = handler.mixed
      BY DEF BootStep, srv, adu, Asked
<1>2. server_up = FALSE
      BY <1>1, BootPromise
<1>3. CASE UNCHANGED <<server_up, at, val>>
      BY <1>1, <1>3, OtherStep
<1>4. CASE ServerInit
  <2>1. UNCHANGED <<at, val>> /\ (server_up' = TRUE \/ UNCHANGED server_up)
        BY <1>4 DEF ServerInit, flash
  <2>2. Content' = Content
        BY <2>1 DEF Content
  <2>3. QED BY <1>1, <2>1, <2>2, OtherStep DEF Promise!Start
<1>5. CASE UNCHANGED server_up /\ (Lose({Sector0}) \/ (DbInit /\ ~UNCHANGED <<at, val>>))
  <2>1. ASSUME NEW k \in Key
        PROVE  \/ Content'[k] \in {Content[k], NOWHERE}
               \/ Content[k] = NOWHERE /\ Content'[k] = DefaultOf(k)
    <3>1. CASE Lose({Sector0})
          BY <3>1 DEF Lose, Content
    <3>2. CASE DbInit /\ ~UNCHANGED <<at, val>>
      <4>1. PICK s \in Sector, fill \in SUBSET {p \in Key : at[p] = NOWHERE} :
               /\ at'  = [p \in Key |-> IF p \in fill THEN s ELSE at[p]]
               /\ val' = [p \in Key |-> IF p \in fill THEN DefaultOf(p) ELSE val[p]]
            BY <3>2, FilledOnly
      <4>2. CASE k \in fill
        <5>1. at[k] = NOWHERE /\ at'[k] # NOWHERE /\ val'[k] = DefaultOf(k)
              BY <4>1, <4>2, StoreAssumption
        <5>2. QED BY <5>1 DEF Content
      <4>3. CASE k \notin fill
            BY <4>1, <4>3 DEF Content
      <4>4. QED BY <4>2, <4>3
    <3>3. QED BY <1>5, <3>1, <3>2
  <2>2. DOMAIN Content' = Key
        BY DEF Content
  <2>3. QED BY <1>1, <1>2, <1>5, <2>1, <2>2 DEF Promise!Fallback
<1>6. QED BY <1>1, <1>3, <1>4, <1>5
          DEF Boot, PlainStage, SelfTestErase, SelfTestRange, SelfTestWrite, DbInit, ram, flash

LEMMA StopStep ==
    ASSUME Blackout
    PROVE  Promise!Stop
<1>1. /\ server_up' = FALSE /\ copying' = <<>> /\ rx_adu' = ZeroAdu
      /\ handler'.req = None /\ handler'.mixed = FALSE /\ reply' = None
      /\ UNCHANGED <<at, val>>
      BY DEF Blackout, PowerCycle, Resting, flash
<1>2. Content' = Content /\ Asked' = None
      BY <1>1 DEF Content, Asked
<1>3. QED BY <1>1, <1>2 DEF Promise!Stop

LEMMA StepOfThePromise ==
    StoreInv /\ ServerInv /\ PromiseInv /\ [SysNext]_sysVars => [Promise!Next]_(Promise!vars)
<1> SUFFICES ASSUME StoreInv, ServerInv, PromiseInv, [SysNext]_sysVars
             PROVE  Promise!Next \/ UNCHANGED Promise!vars
    OBVIOUS
<1>1. CASE Main
      BY <1>1, ArriveStep, CopyStep, AskStep DEF Main, Promise!Next
<1>2. CASE Work
      BY <1>2, ServeStep, StoreStep, HiddenStep, AnswerStep DEF Work, Promise!Next
<1>3. CASE BootStep
      BY <1>3, FallbackStep DEF Promise!Next
<1>4. CASE Blackout
      BY <1>4, StopStep DEF Promise!Next
<1>5. CASE UNCHANGED sysVars
      BY <1>5, OtherStep DEF sysVars, srv, adu, vars, ram, flash
<1>6. QED BY <1>1, <1>2, <1>3, <1>4, <1>5 DEF SysNext

\* The firmware implements the register file that PointServer promises the master:
\* what is answered is stored, and only the request being served changes points,
\* whatever fails, is lost, repeated, interrupted or overwritten (modbus_service.c
\* over modbus_points_db.c).
THEOREM ServerKeepsPromise == SysSpec => KeepsPromise
<1>1. SysInit => Promise!Init
  <2> SUFFICES ASSUME SysInit PROVE Promise!Init
      OBVIOUS
  <2>1. /\ server_up = FALSE /\ at = [k \in Key |-> NOWHERE] /\ copying = <<>> /\ rx_adu = ZeroAdu
        /\ handler.req = None /\ handler.mixed = FALSE /\ reply = None
        BY DEF SysInit, Init, Resting
  <2>2. Content = [k \in Key |-> NOWHERE] /\ Asked = None
        BY <2>1 DEF Content, Asked
  <2>3. QED BY <2>1, <2>2 DEF Promise!Init
<1>2. SysSpec => []StoreInv
      BY ServerUsesTheStore, StoreAlways, PTL
<1>3. QED BY <1>1, <1>2, ServerInvInit, ServerInvNext, PromiseInvInit, PromiseInvNext,
             StepOfThePromise, PTL DEF SysSpec, KeepsPromise, Promise!Spec
=============================================================================
