------------------------- MODULE PointsStoreProofs -------------------------
(***************************************************************************)
(* The points for any number of keys, values and sectors.                  *)
(***************************************************************************)
EXTENDS PointsStore, TLAPS

\* How far main has got says what is ready: callbacks only run in its loop, with
\* a ready database, whose sectors are all formatted.
Staged ==
    /\ pc \in {"rs485", "server", "run"} => g_db_ready
    /\ g_db_ready => \A s \in Sector : header[s] = "kvdb"
    /\ g_db_ready \in BOOLEAN /\ server_up \in BOOLEAN
    /\ server_up => pc = "run"
    /\ pc = "write" => \A k \in Key : at[k] # Sector0
    /\ ret # "EACCES"

\* A point access in progress; one that will succeed has stored its value.
CallOK ==
    call # Idle =>
       /\ server_up
       /\ call \in [op : {"set"}, key : Key, v : Value, err : {"ok", "error"}]
       /\ call.err = "ok" => at[call.key] # NOWHERE /\ val[call.key] = call.v

StoreInv == TypeOK /\ Staged /\ CallOK /\ LossOnlyBySelfTest

-----------------------------------------------------------------------------
LEMMA StoreInit == Init => StoreInv
<1> SUFFICES ASSUME Init PROVE StoreInv
    OBVIOUS
<1>1. TypeOK
  <2>1. val \in [Key -> Value \cup {DefaultOf(k) : k \in Key}]
        BY DEF Init
  <2>2. at \in [Key -> Sector \cup {NOWHERE}] /\ \A k \in Key : at[k] = NOWHERE
        BY DEF Init
  <2>3. QED BY <2>1, <2>2 DEF Init, TypeOK
<1>2. Staged /\ CallOK
      BY DEF Init, Staged, CallOK
<1>3. LossOnlyBySelfTest
      BY DEF Init, LossOnlyBySelfTest, Durable
<1>4. QED BY <1>1, <1>2, <1>3 DEF StoreInv

\* A step that leaves the flash and the history alone keeps what is durable.
LEMMA DurableKept ==
    ASSUME LossOnlyBySelfTest, UNCHANGED <<at, val, written, wiped>>
    PROVE  LossOnlyBySelfTest'
BY DEF LossOnlyBySelfTest, Durable

\* Before the main loop nothing is in progress.
LEMMA NoCallInBoot ==
    ASSUME StoreInv, pc # "run"
    PROVE  call = Idle /\ server_up = FALSE
BY DEF StoreInv, Staged, CallOK

LEMMA PlainInv ==
    ASSUME StoreInv, NEW stage \in {"port", "verify", "iface", "rs485"}, PlainStage(stage)
    PROVE  StoreInv'
<1>1. pc = stage /\ pc' \in {"erase", "iface", "db", "server", "halt"}
      BY DEF PlainStage, Pass, Fail, NextStage
<1>2. UNCHANGED <<g_db_ready, server_up, call, header, at, val, ret, written, wiped>>
      BY DEF PlainStage, ram, flash, hist
<1>3. call = Idle /\ server_up = FALSE
      BY <1>1, NoCallInBoot
<1>4. g_db_ready => pc = "rs485" /\ pc' \in {"server", "halt"}
      BY <1>1 DEF StoreInv, TypeOK, PlainStage, Pass, Fail, NextStage
<1>5. pc' = "server" => pc = "rs485"
      BY <1>1 DEF PlainStage, Pass, Fail, NextStage
<1>6. TypeOK'
      BY <1>1, <1>2, <1>4 DEF StoreInv, TypeOK
<1>7. Staged'
      BY <1>1, <1>2, <1>3, <1>5 DEF StoreInv, Staged
<1>8. CallOK'
      BY <1>2, <1>3 DEF CallOK
<1>9. QED BY <1>2, <1>6, <1>7, <1>8, DurableKept DEF StoreInv

\* What the erase destroys is noted: losing the first sector, or nothing.
LEMMA LoseKeepsDurable ==
    ASSUME StoreInv, Lose({Sector0})
    PROVE  /\ at' \in [Key -> Sector \cup {NOWHERE}]
           /\ \A k \in Key : at'[k] # Sector0 /\ at'[k] \in {at[k], NOWHERE}
           /\ wiped' \in SUBSET Key
           /\ LossOnlyBySelfTest'
<1>1. /\ at' = [k \in Key |-> IF at[k] = Sector0 THEN NOWHERE ELSE at[k]]
      /\ wiped' = wiped \cup {k \in Key : at[k] = Sector0}
      /\ UNCHANGED <<val, written>>
      BY DEF Lose
<1>2. LossOnlyBySelfTest'
      BY <1>1 DEF StoreInv, LossOnlyBySelfTest, Durable
<1>3. QED BY <1>1, <1>2, StoreAssumption DEF StoreInv, TypeOK

LEMMA SelfTestEraseInv ==
    ASSUME StoreInv, SelfTestErase
    PROVE  StoreInv'
<1>1. pc = "erase" /\ pc' \in {"write", "halt"} /\ UNCHANGED <<g_db_ready, server_up, call, ret>>
      BY DEF SelfTestErase, Pass, Fail, NextStage, ram
<1>2. call = Idle /\ server_up = FALSE /\ g_db_ready = FALSE
  <2>1. ~g_db_ready
        BY <1>1 DEF StoreInv, TypeOK
  <2>2. g_db_ready \in BOOLEAN
        BY DEF StoreInv, Staged
  <2>3. QED BY <1>1, <2>1, <2>2, NoCallInBoot
<1>3. CASE Lose({Sector0}) /\ \E b \in {"blank", "bad"} :
                 header' = [s \in Sector |-> IF s = Sector0 THEN b ELSE header[s]]
  <2>1. TypeOK'
    <3>1. \A k \in Key : at'[k] # NOWHERE => header'[at'[k]] = "kvdb"
          BY <1>3, LoseKeepsDurable, StoreAssumption DEF StoreInv, TypeOK
    <3>2. header' \in [Sector -> {"kvdb", "blank", "test", "bad"}]
          BY <1>3 DEF StoreInv, TypeOK
    <3>3. UNCHANGED <<val, written>>
          BY <1>3 DEF Lose
    <3>4. QED BY <1>1, <1>2, <1>3, <3>1, <3>2, <3>3, LoseKeepsDurable DEF StoreInv, TypeOK
  <2>2. Staged'
        BY <1>1, <1>2, <1>3, LoseKeepsDurable DEF StoreInv, Staged
  <2>3. QED BY <1>1, <1>2, <1>3, <2>1, <2>2, LoseKeepsDurable DEF StoreInv, CallOK
<1>4. CASE pc' = "halt" /\ UNCHANGED <<header, at, val, written, wiped>>
  <2>1. TypeOK'
        BY <1>1, <1>2, <1>4 DEF StoreInv, TypeOK
  <2>2. Staged' /\ CallOK'
        BY <1>1, <1>2, <1>4 DEF StoreInv, Staged, CallOK
  <2>3. QED BY <1>4, <2>1, <2>2, DurableKept DEF StoreInv
<1>5. QED BY <1>3, <1>4 DEF SelfTestErase, SelfTestRange, Fail, flash, hist

\* The pattern is only ever written into a sector without records.
LEMMA SelfTestWriteInv ==
    ASSUME StoreInv, SelfTestWrite
    PROVE  StoreInv'
<1>1. /\ pc = "write" /\ pc' \in {"verify", "halt"}
      /\ UNCHANGED <<g_db_ready, server_up, call, ret, at, val, written, wiped>>
      /\ header' \in {header, [header EXCEPT ![Sector0] = "test"]}
      BY DEF SelfTestWrite, Pass, Fail, NextStage, ram, hist
<1>2. call = Idle /\ server_up = FALSE /\ g_db_ready = FALSE
  <2>1. ~g_db_ready
        BY <1>1 DEF StoreInv, TypeOK
  <2>2. g_db_ready \in BOOLEAN
        BY DEF StoreInv, Staged
  <2>3. QED BY <1>1, <2>1, <2>2, NoCallInBoot
<1>3. \A k \in Key : at[k] # Sector0
      BY <1>1 DEF StoreInv, Staged
<1>4. TypeOK'
  <2>1. header' \in [Sector -> {"kvdb", "blank", "test", "bad"}]
        BY <1>1 DEF StoreInv, TypeOK
  <2>2. \A k \in Key : at'[k] # NOWHERE => header'[at'[k]] = "kvdb"
        BY <1>1, <1>3 DEF StoreInv, TypeOK
  <2>3. QED BY <1>1, <1>2, <2>1, <2>2 DEF StoreInv, TypeOK
<1>5. Staged' /\ CallOK'
      BY <1>1, <1>2 DEF StoreInv, Staged, CallOK
<1>6. QED BY <1>1, <1>4, <1>5, DurableKept DEF StoreInv

-----------------------------------------------------------------------------
\* Opening the database adds default records for keys that have none; it moves
\* and changes no other.
LEMMA DbInitInv ==
    ASSUME StoreInv, DbInit
    PROVE  StoreInv'
<1>1. pc = "db" /\ UNCHANGED <<server_up, call, ret, written, wiped>>
      BY DEF DbInit, Pass, Fail, hist
<1>2. call = Idle /\ server_up = FALSE
      BY <1>1, NoCallInBoot
<1>3. CASE Pass("db") /\ g_db_ready' = TRUE
  <2>0. pc' = "rs485" /\ header' = [s \in Sector |-> "kvdb"]
        BY <1>3 DEF DbInit, Pass, Fail, NextStage
  <2>1. PICK s \in Sector, fill \in SUBSET {k \in Key : at[k] = NOWHERE} :
             /\ at'  = [k \in Key |-> IF k \in fill THEN s ELSE at[k]]
             /\ val' = [k \in Key |-> IF k \in fill THEN DefaultOf(k) ELSE val[k]]
    <3>1. pc' # "halt"
          BY <2>0
    <3>2. PICK s \in Sector, missing \in {{}, {k \in Key : at[k] = NOWHERE}} :
             LET fill == IF \E t \in Sector : header[t] = "kvdb" THEN missing
                         ELSE {k \in Key : at[k] = NOWHERE}
             IN  /\ at'  = [k \in Key |-> IF k \in fill THEN s ELSE at[k]]
                 /\ val' = [k \in Key |-> IF k \in fill THEN DefaultOf(k) ELSE val[k]]
          BY <3>1 DEF DbInit, Fail
    <3>3. QED BY <3>2
  <2>2. at' \in [Key -> Sector \cup {NOWHERE}]
        BY <2>1 DEF StoreInv, TypeOK
  <2>3. val' \in [Key -> Value \cup {DefaultOf(k) : k \in Key}]
        BY <2>1 DEF StoreInv, TypeOK
  <2>4. \A k \in Key : at'[k] # NOWHERE => header'[at'[k]] = "kvdb"
        BY <2>0, <2>2
  <2>5. TypeOK'
        BY <1>1, <1>2, <2>0, <2>2, <2>3, <2>4 DEF StoreInv, TypeOK
  <2>6. Staged' /\ CallOK'
        BY <1>1, <1>2, <1>3, <2>0 DEF StoreInv, Staged, CallOK
  <2>7. LossOnlyBySelfTest'
    <3>1. \A k \in Key : at[k] # NOWHERE => at'[k] = at[k] /\ val'[k] = val[k]
          BY <2>1 DEF StoreInv, TypeOK
    <3>2. QED BY <1>1, <3>1 DEF StoreInv, LossOnlyBySelfTest, Durable
  <2>8. QED BY <2>5, <2>6, <2>7 DEF StoreInv
<1>4. CASE Fail("db") /\ UNCHANGED <<flash, g_db_ready>>
  <2>1. pc' = "halt" /\ UNCHANGED <<header, at, val, g_db_ready>>
        BY <1>4 DEF Fail, flash
  <2>2. TypeOK'
        BY <1>1, <1>2, <2>1 DEF StoreInv, TypeOK
  <2>3. Staged' /\ CallOK'
        BY <1>1, <1>2, <2>1 DEF StoreInv, Staged, CallOK
  <2>4. QED BY <1>1, <2>1, <2>2, <2>3, DurableKept DEF StoreInv
<1>5. QED BY <1>3, <1>4 DEF DbInit

LEMMA ServerInitInv ==
    ASSUME StoreInv, ServerInit
    PROVE  StoreInv'
<1>1. /\ pc = "server" /\ UNCHANGED <<g_db_ready, call, header, at, val, ret, written, wiped>>
      /\ \/ pc' = "run" /\ server_up' = TRUE
         \/ pc' = "halt" /\ UNCHANGED server_up
      BY DEF ServerInit, Pass, Fail, NextStage, flash, hist
<1>2. call = Idle /\ server_up = FALSE /\ g_db_ready
      BY <1>1, NoCallInBoot DEF StoreInv, Staged
<1>3. TypeOK'
      BY <1>1 DEF StoreInv, TypeOK
<1>4. Staged' /\ CallOK'
      BY <1>1, <1>2 DEF StoreInv, Staged, CallOK
<1>5. QED BY <1>1, <1>3, <1>4, DurableKept DEF StoreInv

\* A power failure forgets the run, not the flash.
LEMMA PowerCycleInv ==
    ASSUME StoreInv, PowerCycle
    PROVE  StoreInv'
<1>1. UNCHANGED <<header, at, val, written, wiped>>
      BY DEF PowerCycle, flash, hist
<1>2. TypeOK'
      BY <1>1 DEF PowerCycle, StoreInv, TypeOK
<1>3. Staged' /\ CallOK'
      BY <1>1 DEF PowerCycle, StoreInv, Staged, CallOK
<1>4. QED BY <1>1, <1>2, <1>3, DurableKept DEF StoreInv

-----------------------------------------------------------------------------
\* A callback that runs finds the database ready and all its sectors formatted.
LEMMA Running ==
    ASSUME StoreInv, server_up
    PROVE  pc = "run" /\ g_db_ready /\ \A s \in Sector : header[s] = "kvdb"
BY DEF StoreInv, Staged

LEMMA GetInv ==
    ASSUME StoreInv, NEW addr, Get(addr)
    PROVE  StoreInv'
<1>1. ret' # "EACCES" /\ server_up /\ call = Idle
      BY Running DEF Get, Refusal
<1>2. UNCHANGED <<pc, g_db_ready, server_up, call, header, at, val, written, wiped>>
      BY DEF Get, ram, flash, hist
<1>3. TypeOK'
      BY <1>2 DEF StoreInv, TypeOK
<1>4. Staged' /\ CallOK'
      BY <1>1, <1>2 DEF StoreInv, Staged, CallOK
<1>5. QED BY <1>2, <1>3, <1>4, DurableKept DEF StoreInv

\* Collecting garbage moves records; none is lost by it.
LEMMA MovedKeeps ==
    ASSUME StoreInv, NEW m \in Moved
    PROVE  /\ m \in [Key -> Sector \cup {NOWHERE}]
           /\ \A k \in Key : at[k] # NOWHERE => m[k] # NOWHERE
<1>1. at \in [Key -> Sector \cup {NOWHERE}]
      BY DEF StoreInv, TypeOK
<1>2. CASE m = at
      BY <1>1, <1>2
<1>3. CASE \E s, t \in Sector : m = [k \in Key |-> IF at[k] = s THEN t ELSE at[k]]
      BY <1>1, <1>3, StoreAssumption
<1>4. QED BY <1>2, <1>3 DEF Moved

LEMMA SetStartInv ==
    ASSUME StoreInv, NEW addr, NEW v \in Value, SetStart(addr, v)
    PROVE  StoreInv'
<1>1. /\ server_up /\ call = Idle /\ UNCHANGED <<pc, g_db_ready, server_up>>
      /\ g_db_ready /\ \A s \in Sector : header[s] = "kvdb"
      BY Running DEF SetStart
<1>2. CASE Refusal(addr) # "ok"
  <2>1. UNCHANGED <<call, header, at, val, written, wiped>> /\ ret' # "EACCES"
        BY <1>1, <1>2 DEF SetStart, Refusal, flash, hist
  <2>2. TypeOK'
        BY <1>1, <2>1 DEF StoreInv, TypeOK
  <2>3. Staged' /\ CallOK'
        BY <1>1, <2>1 DEF StoreInv, Staged, CallOK
  <2>4. QED BY <2>1, <2>2, <2>3, DurableKept DEF StoreInv
<1>3. CASE Refusal(addr) = "ok"
  <2>1. addr \in Key
        BY <1>3 DEF Refusal
  <2>2. PICK err \in {"ok", "error"}, s \in Sector, m \in Moved :
              /\ \/ /\ at' = [m EXCEPT ![addr] = s] /\ val' = [val EXCEPT ![addr] = v]
                    /\ wiped' = wiped \ {addr}
                 \/ err = "error" /\ at' = m /\ UNCHANGED <<val, wiped>>
              /\ written' = [written EXCEPT ![addr] =
                                 IF written[addr] = {} THEN {} ELSE written[addr] \cup {v}]
              /\ call' = [op |-> "set", key |-> addr, v |-> v, err |-> err]
              /\ UNCHANGED <<header, ret>>
        BY <1>3 DEF SetStart
  <2>3. /\ m \in [Key -> Sector \cup {NOWHERE}]
        /\ \A k \in Key : at[k] # NOWHERE => m[k] # NOWHERE
        BY MovedKeeps
  <2>4. /\ at' \in [Key -> Sector \cup {NOWHERE}]
        /\ val' \in [Key -> Value \cup {DefaultOf(k) : k \in Key}]
        /\ wiped' \in SUBSET Key
    <3>1. /\ at \in [Key -> Sector \cup {NOWHERE}] /\ wiped \in SUBSET Key
          /\ val \in [Key -> Value \cup {DefaultOf(k) : k \in Key}]
          BY DEF StoreInv, TypeOK
    <3>2. at' \in [Key -> Sector \cup {NOWHERE}]
          BY <2>1, <2>2, <2>3
    <3>3. val' \in [Key -> Value \cup {DefaultOf(k) : k \in Key}]
      <4>1. CASE val' = [val EXCEPT ![addr] = v]
        BY <3>1, <4>1
      <4>2. CASE val' = val
        BY <3>1, <4>2
      <4>3. QED BY <2>2, <4>1, <4>2
    <3>4. wiped' \in SUBSET Key
          BY <2>2, <3>1
    <3>5. QED BY <3>2, <3>3, <3>4
  <2>5. written' \in [Key -> SUBSET Value]
        BY <2>1, <2>2 DEF StoreInv, TypeOK
  <2>6. call'.key = addr /\ call'.v = v /\ call'.err = err
        BY <2>2
  <2>7. TypeOK'
        BY <1>1, <2>1, <2>2, <2>4, <2>5, <2>6 DEF StoreInv, TypeOK
  <2>8. Staged'
        BY <1>1, <2>2 DEF StoreInv, Staged
  <2>9. CallOK'
    <3>1. call' \in [op : {"set"}, key : Key, v : Value, err : {"ok", "error"}]
          BY <2>1, <2>2
    <3>2. err = "ok" => at'[addr] # NOWHERE /\ val'[addr] = v
          BY <2>1, <2>2, <2>3, StoreAssumption DEF StoreInv, TypeOK
    <3>3. QED BY <1>1, <2>6, <3>1, <3>2 DEF CallOK
  <2>10. LossOnlyBySelfTest'
    <3>1. SUFFICES ASSUME NEW k \in Key, k \notin wiped', written'[k] # {}
                   PROVE  at'[k] # NOWHERE /\ val'[k] \in written'[k]
          BY DEF LossOnlyBySelfTest, Durable
    <3>2. CASE k # addr
      <4>1. k \notin wiped /\ written'[k] = written[k] /\ val'[k] = val[k] /\ at'[k] = m[k]
            BY <2>1, <2>2, <2>3, <3>1, <3>2 DEF StoreInv, TypeOK
      <4>2. QED BY <2>3, <3>1, <4>1 DEF StoreInv, LossOnlyBySelfTest, Durable
    <3>3. CASE k = addr
      <4>1. written[k] # {} /\ written'[k] = written[k] \cup {v}
            BY <2>1, <2>2, <3>1, <3>3 DEF StoreInv, TypeOK
      <4>2. CASE at' = [m EXCEPT ![addr] = s] /\ val' = [val EXCEPT ![addr] = v]
            BY <2>1, <2>3, <3>3, <4>1, <4>2, StoreAssumption DEF StoreInv, TypeOK
      <4>3. CASE at' = m /\ UNCHANGED <<val, wiped>>
            BY <2>3, <3>1, <4>1, <4>3 DEF StoreInv, LossOnlyBySelfTest, Durable
      <4>4. QED BY <2>2, <4>2, <4>3
    <3>4. QED BY <3>2, <3>3
  <2>11. QED BY <2>7, <2>8, <2>9, <2>10 DEF StoreInv
<1>4. QED BY <1>2, <1>3

\* A success is only reported of a value that is in the flash.
LEMMA SetReturnInv ==
    ASSUME StoreInv, SetReturn
    PROVE  StoreInv'
<1>1. /\ call' = Idle /\ ret' = call.err
      /\ UNCHANGED <<pc, g_db_ready, server_up, header, at, val, wiped>>
      BY DEF SetReturn, flash
<1>2. /\ call \in [op : {"set"}, key : Key, v : Value, err : {"ok", "error"}]
      /\ call.err = "ok" => at[call.key] # NOWHERE /\ val[call.key] = call.v
  <2>1. call # Idle
        BY DEF SetReturn, Idle
  <2>2. QED BY <2>1 DEF StoreInv, CallOK
<1>3. written' \in [Key -> SUBSET Value]
      BY <1>2 DEF SetReturn, StoreInv, TypeOK
<1>4. TypeOK'
      BY <1>1, <1>3 DEF StoreInv, TypeOK
<1>5. Staged' /\ CallOK'
      BY <1>1, <1>2 DEF StoreInv, Staged, CallOK
<1>6. LossOnlyBySelfTest'
  <2>1. SUFFICES ASSUME NEW k \in Key, k \notin wiped, written'[k] # {}
                 PROVE  at[k] # NOWHERE /\ val[k] \in written'[k]
        BY <1>1 DEF LossOnlyBySelfTest, Durable
  <2>2. CASE call.err = "ok" /\ k = call.key
        BY <1>2, <2>2 DEF SetReturn, StoreInv, TypeOK
  <2>3. CASE ~(call.err = "ok" /\ k = call.key)
    <3>1. written'[k] = written[k]
          BY <1>2, <2>3 DEF SetReturn, StoreInv, TypeOK
    <3>2. QED BY <2>1, <3>1 DEF StoreInv, LossOnlyBySelfTest, Durable
  <2>4. QED BY <2>2, <2>3
<1>7. QED BY <1>4, <1>5, <1>6 DEF StoreInv

-----------------------------------------------------------------------------
LEMMA StoreNext == StoreInv /\ [Next]_vars => StoreInv'
<1> SUFFICES ASSUME StoreInv, [Next]_vars PROVE StoreInv'
    OBVIOUS
<1>1. CASE Boot
      BY <1>1, PlainInv, SelfTestEraseInv, SelfTestWriteInv, DbInitInv, ServerInitInv DEF Boot
<1>2. CASE Points
      BY <1>2, GetInv, SetStartInv, SetReturnInv DEF Points
<1>3. CASE PowerCycle
      BY <1>3, PowerCycleInv
<1>4. CASE UNCHANGED vars
  <2>1. UNCHANGED <<pc, g_db_ready, server_up, call, header, at, val, ret, written, wiped>>
        BY <1>4 DEF vars, ram, flash, hist
  <2>2. TypeOK'
        BY <2>1 DEF StoreInv, TypeOK
  <2>3. Staged' /\ CallOK'
        BY <2>1 DEF StoreInv, Staged, CallOK
  <2>4. QED BY <2>1, <2>2, <2>3, DurableKept DEF StoreInv
<1>5. QED BY <1>1, <1>2, <1>3, <1>4 DEF Next

THEOREM StoreAlways == Spec => []StoreInv
BY StoreInit, StoreNext, PTL DEF Spec

\* The stages of main, the sectors and the records fit together: a live record
\* is in a sector that is FlashDB's (main, flashdb_port_self_test,
\* modbus_points_db_init).
THEOREM PointsTypeCorrect == Spec => []TypeOK
<1>1. StoreInv => TypeOK
      BY DEF StoreInv
<1>2. QED BY <1>1, StoreAlways, PTL

\* A point a master has written is lost only with the sector the self test
\* erases, whatever fails and whenever power does (flashdb_port_self_test,
\* modbus_points_db_set_holding and _set_coil).
THEOREM OnlySelfTestLoses == Spec => []LossOnlyBySelfTest
<1>1. StoreInv => LossOnlyBySelfTest
      BY DEF StoreInv
<1>2. QED BY <1>1, StoreAlways, PTL

\* No callback finds the database unready (modbus_service_init, g_db_ready).
THEOREM ServerNeedsDatabase == Spec => []ServerImpliesDatabase
<1>1. StoreInv => ServerImpliesDatabase
      BY DEF StoreInv, Staged, ServerImpliesDatabase
<1>2. QED BY <1>1, StoreAlways, PTL
=============================================================================
