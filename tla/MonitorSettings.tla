-------------------------- MODULE MonitorSettings ---------------------------
(***************************************************************************)
(* The monitor configuration channel (server/handlers/monitor.rs over      *)
(* upsert_monitor_setting and delete_monitor_setting of both relational    *)
(* backends): versioned entries of one account, written by several clients *)
(* with an optional compare-and-swap, under quotas.                        *)
(*                                                                         *)
(* A mutation is a transaction that first takes the account's lock (its    *)
(* users row, or SQLite's write lock); its statements are separate steps   *)
(* here, as another client's could run between them.  Accounts share       *)
(* nothing else, so one is enough.  A request refused by authentication,   *)
(* by validation or by the rate limiter touches no entry: no action.        *)
(***************************************************************************)
EXTENDS Integers, FiniteSets, FiniteSetsExt

CONSTANTS Keys, Clients,
          Sizes,       \* payload sizes; the payload itself is opaque
          MaxEntries, MaxBytes,   \* MonitorQuota
          MaxPuts,     \* bound on the writes requested in a behaviour
          None

ASSUME MonitorAssumption ==
  /\ Keys # {} /\ IsFiniteSet(Keys) /\ Sizes \subseteq Nat
  /\ MaxEntries \in Nat /\ MaxBytes \in Nat /\ MaxPuts \in Nat
  /\ None \notin Clients /\ None \notin Nat

(* A stored entry.  edit is a history value: the request that wrote it. *)
Row == [version : Nat \ {0}, size : Sizes, edit : 1..MaxPuts]

ASSUME RowAssumption == None \notin Row

VARIABLES
  rows,     \* monitor_settings of the account: [Keys -> Row or None]
  lock,     \* the client whose transaction holds the users row, or None
  req,      \* the request each client has in progress
  known,    \* what each client last saw under each key
  deleted,  \* history: <<client, key>>, the key was deleted since it was seen
  puts      \* history: writes requested so far

vars == <<rows, lock, req, known, deleted, puts>>

(* ifv: if_version; cur: the row the transaction read.                        *)
Request == [st : {"idle", "begin_put", "read", "usage", "write",
                  "begin_delete", "delete", "explain"},
            key : Keys, size : Sizes \cup {0}, edit : 0..MaxPuts,
            ifv : Nat \cup {None}, cur : Row \cup {None}]

NoRequest == [st |-> "idle", key |-> CHOOSE k \in Keys : TRUE, size |-> 0,
              edit |-> 0, ifv |-> None, cur |-> None]

TypeOK ==
  /\ rows \in [Keys -> Row \cup {None}]
  /\ lock \in Clients \cup {None}
  /\ req \in [Clients -> Request]
  /\ known \in [Clients -> [Keys -> Row \cup {None}]]
  /\ deleted \subseteq Clients \X Keys
  /\ puts \in 0..MaxPuts

Init ==
  /\ rows = [k \in Keys |-> None]
  /\ lock = None
  /\ req = [c \in Clients |-> NoRequest]
  /\ known = [c \in Clients |-> [k \in Keys |-> None]]
  /\ deleted = {}
  /\ puts = 0

-----------------------------------------------------------------------------
(* Helpers                                                                   *)

At(c, s)   == req[c].st = s
Goto(c, s) == req' = [req EXCEPT ![c].st = s]

VersionOf(r) == IF r = None THEN 0 ELSE r.version

Stored == {k \in Keys : rows[k] # None}

Used(S) == MapThenSumSet(LAMBDA k : rows[k].size, S)

FinishNoRelease(c) ==   \* seeded fault: the lock outlives the request
  UNCHANGED lock /\ req' = [req EXCEPT ![c] = NoRequest]

(* The transaction ends, by commit or rollback, and the request with it.      *)
Finish(c) == lock' = None /\ req' = [req EXCEPT ![c] = NoRequest]

Saw(c, k, r) == /\ known' = [known EXCEPT ![c][k] = r]
                /\ deleted' = deleted \ {<<c, k>>}

-----------------------------------------------------------------------------
(* Reading: me_monitor_index, me_monitor_list, me_monitor_get                *)

Fetch(c, k) ==
  /\ At(c, "idle")
  /\ Saw(c, k, rows[k])
  /\ UNCHANGED <<rows, lock, req, puts>>

-----------------------------------------------------------------------------
(* me_monitor_put: a blind write, or one conditional on what the client saw  *)

Put(c, k, size, cond) ==
  /\ At(c, "idle") /\ puts < MaxPuts
  /\ puts' = puts + 1
  /\ req' = [req EXCEPT ![c] =
       [st |-> "begin_put", key |-> k, size |-> size, edit |-> puts + 1,
        ifv |-> IF cond THEN VersionOf(known[c][k]) ELSE None, cur |-> None]]
  /\ UNCHANGED <<rows, lock, known, deleted>>

TakeNothing(c) == lock' = c   \* seeded fault: no lock on the users row

(* UPDATE users SET id = id, or SELECT ... FOR UPDATE. *)
TakeLock(c) == lock = None /\ lock' = c

BeginPut(c) ==
  /\ At(c, "begin_put")
  /\ TakeLock(c)
  /\ Goto(c, "read")
  /\ UNCHANGED <<rows, known, deleted, puts>>

(* The current row, and the compare-and-swap: 0 expects no entry.             *)
ReadCurrent(c) ==
  LET r == rows[req[c].key] IN
  /\ At(c, "read")
  /\ IF req[c].ifv # None /\ req[c].ifv # VersionOf(r)
     THEN Finish(c)
     ELSE UNCHANGED lock /\ req' = [req EXCEPT ![c].st = "usage", ![c].cur = r]
  /\ UNCHANGED <<rows, known, deleted, puts>>

FitsBefore(c) ==   \* seeded fault: the quota is compared before the write
  Cardinality(Stored) <= MaxEntries /\ Used(Stored) <= MaxBytes

(* The quota holds for what the store would hold after the write.             *)
Fits(c) ==
  LET new  == IF req[c].cur = None THEN 1 ELSE 0
      less == IF req[c].cur = None THEN 0 ELSE req[c].cur.size
  IN  /\ Cardinality(Stored) + new <= MaxEntries
      /\ Used(Stored) - less + req[c].size <= MaxBytes

ReadUsage(c) ==
  /\ At(c, "usage")
  /\ IF Fits(c) THEN UNCHANGED lock /\ Goto(c, "write") ELSE Finish(c)
  /\ UNCHANGED <<rows, known, deleted, puts>>

NextVersionFrozen(k) == 1   \* seeded fault: the update keeps the version

(* INSERT ... ON CONFLICT DO UPDATE SET version = version + 1 *)
NextVersion(k) == VersionOf(rows[k]) + 1

(* The statement, and the commit; the reply may be lost. *)
Write(c) ==
  LET k   == req[c].key
      new == [version |-> NextVersion(k), size |-> req[c].size, edit |-> req[c].edit]
  IN
  /\ At(c, "write")
  /\ rows' = [rows EXCEPT ![k] = new]
  /\ Saw(c, k, new) \/ UNCHANGED <<known, deleted>>
  /\ Finish(c)
  /\ UNCHANGED puts

-----------------------------------------------------------------------------
(* me_monitor_delete                                                         *)

Delete(c, k, cond) ==
  /\ At(c, "idle")
  /\ req' = [req EXCEPT ![c] =
       [NoRequest EXCEPT !.st = "begin_delete", !.key = k,
                         !.ifv = IF cond THEN VersionOf(known[c][k]) ELSE None]]
  /\ UNCHANGED <<rows, lock, known, deleted, puts>>

BeginDelete(c) ==
  /\ At(c, "begin_delete")
  /\ TakeLock(c)
  /\ Goto(c, "delete")
  /\ UNCHANGED <<rows, known, deleted, puts>>

Matches(c) ==
  /\ rows[req[c].key] # None
  /\ req[c].ifv # None => rows[req[c].key].version = req[c].ifv

(* DELETE ... [AND version = ?]: it commits when a row was affected ... *)
DeleteRow(c) ==
  LET k == req[c].key IN
  /\ At(c, "delete")
  /\ IF Matches(c)
     THEN /\ rows' = [rows EXCEPT ![k] = None]
          /\ deleted' = deleted \cup {<<b, k>> : b \in {b \in Clients : known[b][k] # None}}
          /\ Finish(c)
     ELSE Goto(c, "explain") /\ UNCHANGED <<rows, lock, deleted>>
  /\ UNCHANGED <<known, puts>>

(* ... and otherwise reads the row, to answer "not found" or a conflict. *)
Explain(c) ==
  /\ At(c, "explain")
  /\ Finish(c)
  /\ UNCHANGED <<rows, known, deleted, puts>>

-----------------------------------------------------------------------------
(* A statement fails, or the client goes away: the transaction is dropped,    *)
(* and rolled back.                                                           *)
Abort(c) ==
  /\ ~At(c, "idle")
  /\ lock' = IF lock = c THEN None ELSE lock
  /\ req' = [req EXCEPT ![c] = NoRequest]
  /\ UNCHANGED <<rows, known, deleted, puts>>

Step(c) ==
  ReadCurrent(c) \/ ReadUsage(c) \/ Write(c) \/ DeleteRow(c) \/ Explain(c)

Begin(c) == BeginPut(c) \/ BeginDelete(c)

Ask(c) ==
  \E k \in Keys, cond \in BOOLEAN :
    Fetch(c, k) \/ Delete(c, k, cond) \/ \E s \in Sizes : Put(c, k, s, cond)

Next == \E c \in Clients : Ask(c) \/ Begin(c) \/ Step(c) \/ Abort(c)

Spec == Init /\ [][Next]_vars

(* The runtime polls every ready task, and the database grants the row lock   *)
(* in turn; no client has to ask for anything.                                *)
FairSpec == Spec /\ \A c \in Clients : WF_vars(Step(c)) /\ SF_vars(Begin(c))

-----------------------------------------------------------------------------
(* Properties                                                                *)

(* Concurrent writes to different keys never land over the quota together     *)
(* (models.rs on MonitorQuota: "enforced inside the write transaction").      *)
QuotaHolds == Cardinality(Stored) <= MaxEntries /\ Used(Stored) <= MaxBytes

(* What a transaction read is still stored when it writes: the reply's        *)
(* previous_version is the version this write really replaced, and an entry   *)
(* that passed the compare-and-swap was not touched since.                    *)
DecidedOnCurrent ==
  \A c \in Clients : req[c].st \in {"usage", "write"} => req[c].cur = rows[req[c].key]

(* A refused delete is explained by the state that refused it: the answered   *)
(* conflict never names the version the client asked for.                     *)
ConflictIsReal == \A c \in Clients : At(c, "explain") => ~Matches(c)

(* A version names one edit as long as the entry is not deleted: a client     *)
(* whose if_version still matches has seen what it is about to replace.       *)
VersionNamesEdit ==
  \A c \in Clients, k \in Keys :
    /\ rows[k] # None /\ known[c][k] # None /\ <<c, k>> \notin deleted
    /\ rows[k].version = known[c][k].version
    => rows[k].edit = known[c][k].edit

(* Every request is answered: no path out of a transaction keeps the lock.    *)
RequestAnswered == \A c \in Clients : ~At(c, "idle") ~> At(c, "idle")
=============================================================================
