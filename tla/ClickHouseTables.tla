-------------------------- MODULE ClickHouseTables --------------------------
(***************************************************************************)
(* The toki_windows table of the ClickHouse backend and its start-up:      *)
(* recover_interrupted_migration, create_table and migrate_windows_table   *)
(* of events/clickhouse.rs.  A table created before the updated_at column  *)
(* is rebuilt under another name and swapped in.                           *)
(*                                                                         *)
(* Every statement is an HTTP call to a server that outlives this process: *)
(* it may fail, or be carried out while its reply is lost; the process may *)
(* end after any of them.  An error ends the start-up, except that of      *)
(* EXCHANGE TABLES, which is taken for "not supported".                    *)
(***************************************************************************)
EXTENDS Integers, FiniteSets

CONSTANTS Keys,        \* the rows of one account and provider
          History,     \* rows an earlier build may have left: [S -> Window], S \subseteq Keys
          MaxStarts,   \* bound on the start-ups of a behaviour
          None

VARIABLES
  tables,    \* what is stored under each name: a table or None
  boot,      \* the next statement of the start-up, "ready" or "down"
  atomicDb,  \* the database engine supports EXCHANGE TABLES
  inherited, \* history: an earlier build left its table
  lost,      \* history: an EXCHANGE was carried out but its reply lost
  starts     \* history: start-ups so far

bootVars == <<tables, boot, atomicDb, inherited, lost, starts>>

Names == {"toki_windows", "toki_windows_v2", "toki_windows_old"}

(* ReplacingMergeTree read with FINAL: per key, the row of the highest        *)
(* version (ver, or the observation time before updated_at existed).          *)
NoRows == [k \in Keys |-> None]

Fresh == [schema |-> "updated_at", rows |-> NoRows]

Old == [schema |-> "observed_ts_ms",
        rows |-> [k \in Keys |->
          IF k \in DOMAIN History THEN [w |-> History[k], ver |-> History[k].obs]
                                  ELSE None]]

BootInit ==
  /\ inherited \in BOOLEAN
  /\ tables = [n \in Names |-> IF n = "toki_windows" /\ inherited THEN Old ELSE None]
  /\ boot = "down" /\ atomicDb \in BOOLEAN /\ lost = FALSE /\ starts = 0

-----------------------------------------------------------------------------
(* One statement: done, or an error that ends the start-up, with or without   *)
(* its effect.                                                                *)
Statement(effect, next) ==
  /\ \/ tables' = effect /\ boot' = next
     \/ tables' \in {tables, effect} /\ boot' = "down"
  /\ UNCHANGED <<atomicDb, inherited, lost, starts>>

Exists(n) == tables[n] # None
Dropped(n) == [tables EXCEPT ![n] = None]
Renamed(from, to) == [tables EXCEPT ![to] = tables[from], ![from] = None]

Start ==
  /\ boot = "down" /\ starts < MaxStarts
  /\ boot' = "recover" /\ starts' = starts + 1
  /\ UNCHANGED <<tables, atomicDb, inherited, lost>>

RecoverNothing ==   \* seeded fault: no recovery before CREATE TABLE
  boot = "recover" /\ Statement(tables, "create")

(* recover_interrupted_migration: without a live table, the staged copy takes *)
(* its name, or else the old table does.                                      *)
Recover ==
  /\ boot = "recover"
  /\ Statement(
       IF Exists("toki_windows") THEN tables
       ELSE IF Exists("toki_windows_v2") THEN Renamed("toki_windows_v2", "toki_windows")
       ELSE IF Exists("toki_windows_old") THEN Renamed("toki_windows_old", "toki_windows")
       ELSE tables, "create")

(* create_table: CREATE TABLE IF NOT EXISTS *)
CreateTable ==
  /\ boot = "create"
  /\ Statement(IF Exists("toki_windows") THEN tables
               ELSE [tables EXCEPT !["toki_windows"] = Fresh], "check")

CheckNothing ==   \* seeded fault: CREATE TABLE IF NOT EXISTS is taken to suffice
  boot = "check" /\ Statement(tables, "ready")

(* migrate_windows_table: is the column there already? *)
CheckColumn ==
  /\ boot = "check"
  /\ Statement(tables, IF tables["toki_windows"].schema = "updated_at"
                       THEN "ready" ELSE "drop_v2")

DropStale ==
  boot = "drop_v2" /\ Statement(Dropped("toki_windows_v2"), "create_v2")

CreateV2 ==
  boot = "create_v2" /\ Statement([tables EXCEPT !["toki_windows_v2"] = Fresh], "copy")

(* The copied rows are versioned by their observation time. *)
Copied(S) == [tables EXCEPT !["toki_windows_v2"].rows =
  [k \in Keys |-> IF k \in S THEN tables["toki_windows"].rows[k] ELSE None]]

(* INSERT ... SELECT; a failing one may have copied a part. *)
CopyRows ==
  /\ boot = "copy"
  /\ \/ tables' = Copied(Keys) /\ boot' = "exchange"
     \/ \E S \in SUBSET Keys : tables' = Copied(S) /\ boot' = "down"
  /\ UNCHANGED <<atomicDb, inherited, lost, starts>>

Exchanged == [tables EXCEPT !["toki_windows"] = tables["toki_windows_v2"],
                            !["toki_windows_v2"] = tables["toki_windows"]]

(* EXCHANGE TABLES; any error falls back to RENAME. *)
ExchangeTables ==
  /\ boot = "exchange"
  /\ \/ /\ atomicDb /\ tables' = Exchanged
        /\ \/ boot' = "drop_done" /\ UNCHANGED lost
           \/ boot' = "rename_old" /\ lost' = TRUE
           \/ boot' = "down" /\ UNCHANGED lost
     \/ /\ boot' \in {"rename_old", "down"} /\ UNCHANGED <<tables, lost>>
  /\ UNCHANGED <<atomicDb, inherited, starts>>

(* RENAME TABLE fails when the target name is taken. *)
RenameOld ==
  /\ boot = "rename_old"
  /\ \/ ~Exists("toki_windows_old")
        /\ Statement(Renamed("toki_windows", "toki_windows_old"), "rename_new")
     \/ Exists("toki_windows_old") /\ boot' = "down"
        /\ UNCHANGED <<tables, atomicDb, inherited, lost, starts>>

RenameNew ==
  /\ boot = "rename_new"
  /\ Statement(Renamed("toki_windows_v2", "toki_windows"), "drop_old")

DropOld ==
  boot = "drop_old" /\ Statement(Dropped("toki_windows_old"), "ready")

DropDone ==
  boot = "drop_done" /\ Statement(Dropped("toki_windows_v2"), "ready")

(* The process ends; the tables stay. *)
Crash == /\ boot = "ready" /\ boot' = "down"
         /\ UNCHANGED <<tables, atomicDb, inherited, lost, starts>>

BootStep ==
  \/ Start \/ Recover \/ CreateTable \/ CheckColumn \/ DropStale \/ CreateV2
  \/ CopyRows \/ ExchangeTables \/ RenameOld \/ RenameNew \/ DropOld \/ DropDone
=============================================================================
