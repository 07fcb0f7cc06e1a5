---------------------------- MODULE PointsStore ----------------------------
(***************************************************************************)
(* main.c, flashdb_port_self_test, modbus_service_init and                 *)
(* modbus_points_db.c: what becomes of the Modbus points over boots, power *)
(* failures and flash errors.                                              *)
(*                                                                         *)
(* FlashDB itself is not part of the repository.  It is modelled from how  *)
(* the code uses it: a log of records spread over the sectors of the       *)
(* partition, one live record per key, updates atomic under power failure, *)
(* sectors with a bad header formatted on start, and the default table     *)
(* written when no sector is valid; whether single missing keys also get   *)
(* their default depends on its build options and is left open.            *)
(***************************************************************************)
EXTENDS Integers, FiniteSets

CONSTANTS Key,      \* points: the keys of g_holding_keys and g_coil_keys
          BadAddr,  \* an address outside both tables
          Value,    \* values a master may write
          DefaultOf(_), \* g_default_nodes
          Sector, Sector0,  \* sectors of the partition; the one at offset 0
          NOWHERE

ASSUME StoreAssumption ==
    /\ BadAddr \notin Key
    /\ \A k \in Key : DefaultOf(k) \notin Value
    /\ Sector0 \in Sector /\ NOWHERE \notin Sector

VARIABLES
    pc,           \* stage of main: see NextStage; "halt" when main has returned
    g_db_ready,
    server_up,    \* modbus_init_server has succeeded: callbacks may run
    header,       \* what each sector holds: "kvdb", "blank", "test" or "bad"
    at, val,      \* sector and value of the live record of each key
    call,         \* point access in progress, or Idle
    ret,          \* result of the last finished one since power came; "error": any but EACCES
    written,      \* history: values a correct store may hold; {} until a write succeeds
    wiped         \* history: keys whose live record was in sector 0 when it was erased

ram   == <<g_db_ready, server_up, call>>
flash == <<header, at, val>>
hist  == <<written, wiped>>
vars  == <<pc, ram, flash, ret, hist>>

Idle == [op |-> "idle"]

TypeOK ==
    /\ pc \in {"port", "erase", "write", "verify", "iface", "db", "rs485", "server",
               "run", "halt"}
    /\ header \in [Sector -> {"kvdb", "blank", "test", "bad"}]
    /\ at \in [Key -> Sector \cup {NOWHERE}]
    /\ \A k \in Key : at[k] # NOWHERE => header[at[k]] = "kvdb"
    /\ val \in [Key -> Value \cup {DefaultOf(k) : k \in Key}]
    /\ written \in [Key -> SUBSET Value] /\ wiped \in SUBSET Key
    /\ call = Idle \/ call.key \in Key
    /\ g_db_ready => pc \in {"rs485", "server", "run", "halt"}

\* A new board: nothing in the partition is a valid sector.
Init ==
    /\ pc = "port" /\ g_db_ready = FALSE /\ server_up = FALSE /\ call = Idle
    /\ header = [s \in Sector |-> "bad"]
    /\ at = [k \in Key |-> NOWHERE] /\ val = [k \in Key |-> DefaultOf(k)]
    /\ ret = "none"
    /\ written = [k \in Key |-> {}] /\ wiped = {}

-----------------------------------------------------------------------------
(* Booting.                                                                *)

\* The order of main and of modbus_service_init.
\* Mutant: the server is started before the database.
NextStage_ServerFirst ==
    [port |-> "erase", erase |-> "write", write |-> "verify", verify |-> "iface",
     iface |-> "rs485", rs485 |-> "server", server |-> "db", db |-> "run"]
NextStage ==
    [port |-> "erase", erase |-> "write", write |-> "verify", verify |-> "iface",
     iface |-> "db", db |-> "rs485", rs485 |-> "server", server |-> "run"]

Pass(stage) == pc = stage /\ pc' = NextStage[stage]
Fail(stage) == pc = stage /\ pc' = "halt"

\* The records in the sectors S are destroyed; wiped notes those of sector 0.
Lose(S) == /\ at' = [k \in Key |-> IF at[k] \in S THEN NOWHERE ELSE at[k]]
           /\ wiped' = wiped \cup {k \in Key : at[k] = Sector0}
           /\ UNCHANGED <<val, written>>

\* Stages that leave the flash alone: flashdb_port_init, the verification of
\* the self test, the interface lookup and rs485_init.
PlainStage(stage) ==
    /\ Pass(stage) \/ Fail(stage)
    /\ UNCHANGED <<ram, flash, ret, hist>>

\* What the self test erases: erase(0, flashdb_erase_size).
\* Mutants: the whole partition; the erase is left out.
SelfTestRange_All == Sector
SelfTestRange_None == {}
SelfTestRange == {Sector0}

\* The erase of the self test, on every boot.  A failed one may have destroyed
\* the sector as well.
SelfTestErase ==
    /\ \/ /\ Pass("erase")
          /\ header' = [s \in Sector |-> IF s \in SelfTestRange THEN "blank" ELSE header[s]]
          /\ Lose(SelfTestRange)
       \/ /\ Fail("erase")
          /\ \/ /\ header' = [s \in Sector |-> IF s \in SelfTestRange THEN "bad" ELSE header[s]]
                /\ Lose(SelfTestRange)
             \/ UNCHANGED <<flash, hist>>
    /\ UNCHANGED <<ram, ret>>

\* The test pattern goes to offset 0, into what was just erased.
SelfTestWrite ==
    /\ \/ Pass("write") /\ header' = [header EXCEPT ![Sector0] = "test"]
       \/ Fail("write") /\ header' \in {header, [header EXCEPT ![Sector0] = "test"]}
    /\ UNCHANGED <<ram, at, val, ret, hist>>

\* modbus_points_db_init: fdb_kvdb_init formats the sectors that are not
\* FlashDB's and writes default records.
DbInit ==
    /\ \/ /\ Pass("db") /\ g_db_ready' = TRUE
          /\ header' = [s \in Sector |-> "kvdb"]
          /\ \E s \in Sector, missing \in {{}, {k \in Key : at[k] = NOWHERE}} :
                LET fill == IF \E t \in Sector : header[t] = "kvdb" THEN missing
                            ELSE {k \in Key : at[k] = NOWHERE}
                IN  /\ at'  = [k \in Key |-> IF k \in fill THEN s ELSE at[k]]
                    /\ val' = [k \in Key |-> IF k \in fill THEN DefaultOf(k) ELSE val[k]]
       \/ Fail("db") /\ UNCHANGED <<flash, g_db_ready>>
    /\ UNCHANGED <<server_up, call, ret, hist>>

ServerInit ==
    /\ \/ Pass("server") /\ server_up' = TRUE
       \/ Fail("server") /\ UNCHANGED server_up
    /\ UNCHANGED <<g_db_ready, call, flash, ret, hist>>

\* Power fails or the board is reset, at any point.
PowerCycle ==
    /\ pc' = "port" /\ g_db_ready' = FALSE /\ server_up' = FALSE /\ call' = Idle
    /\ ret' = "none"
    /\ UNCHANGED <<flash, hist>>

-----------------------------------------------------------------------------
(* Point access from the Modbus callbacks.  FlashDB holds g_db_lock, and    *)
(* the callbacks run one at a time on the work queue.                      *)

\* The tests at the head of every accessor.
Refusal(addr) ==
    IF ~g_db_ready THEN "EACCES" ELSE IF addr \notin Key THEN "error" ELSE "ok"

\* FlashDB may move the records of a full sector before it stores another.
Moved == {at} \cup {[k \in Key |-> IF at[k] = s THEN t ELSE at[k]] :
                       s \in {at[k] : k \in Key} \cap Sector, t \in Sector}

\* modbus_points_db_set_holding and _set_coil up to the effect on flash.  A
\* failed fdb_kv_set_blob may or may not have stored the new record.
SetStart(addr, v) ==
    /\ server_up /\ call = Idle
    /\ IF Refusal(addr) # "ok"
       THEN ret' = Refusal(addr) /\ UNCHANGED <<call, flash, hist>>
       ELSE \E err \in {"ok", "error"}, s \in Sector, m \in Moved :
              /\ \/ /\ at' = [m EXCEPT ![addr] = s] /\ val' = [val EXCEPT ![addr] = v]
                    /\ wiped' = wiped \ {addr}
                 \/ err = "error" /\ at' = m /\ UNCHANGED <<val, wiped>>
              /\ written' = [written EXCEPT ![addr] = IF @ = {} THEN {} ELSE @ \cup {v}]
              /\ call' = [op |-> "set", key |-> addr, v |-> v, err |-> err]
              /\ UNCHANGED <<header, ret>>
    /\ UNCHANGED <<pc, g_db_ready, server_up>>

\* ... and its return: from here on the master takes v as stored.
SetReturn ==
    /\ call.op = "set"
    /\ ret' = call.err /\ call' = Idle
    /\ written' = IF call.err = "ok" THEN [written EXCEPT ![call.key] = {call.v}] ELSE written
    /\ UNCHANGED <<pc, g_db_ready, server_up, flash, wiped>>

\* modbus_points_db_get_holding and _get_coil.  fdb_kv_get_blob returns the length
\* it has read, so a failed read of the flash looks like an absent record.
Get(addr) ==
    /\ server_up /\ call = Idle
    /\ IF Refusal(addr) # "ok" THEN ret' = Refusal(addr)
       ELSE ret' = "error" \/ (at[addr] # NOWHERE /\ ret' = "ok")
    /\ UNCHANGED <<pc, ram, flash, hist>>

Boot == \/ \E stage \in {"port", "verify", "iface", "rs485"} : PlainStage(stage)
        \/ SelfTestErase \/ SelfTestWrite \/ DbInit \/ ServerInit
Points == \/ \E addr \in Key \cup {BadAddr} : Get(addr) \/ \E v \in Value : SetStart(addr, v)
          \/ SetReturn

Next == Boot \/ Points \/ PowerCycle

Spec == Init /\ [][Next]_vars

-----------------------------------------------------------------------------
(* Properties.                                                             *)

Durable(k) == written[k] # {} => at[k] # NOWHERE /\ val[k] \in written[k]

\* A written point is lost only with sector 0: crashes and errors anywhere in
\* boot or in a write, and the formatting by FlashDB, never cost or alter a
\* record that the self test did not erase.
LossOnlyBySelfTest == \A k \in Key \ wiped : Durable(k)

\* No callback finds the database unready: the server starts after it.
ServerImpliesDatabase == ret # "EACCES" /\ (server_up => g_db_ready)

\* Holding registers and coils are persistent, as the point table says.
PointsArePersistent == g_db_ready => \A k \in Key : Durable(k)
=============================================================================
