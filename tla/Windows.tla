------------------------------- MODULE Windows -------------------------------
(***************************************************************************)
(* Rate-limit windows: the SyncWindows message of sync/handler.rs (rate    *)
(* limiter, sanitize_window_batch, premerge_windows), merge_wire_windows   *)
(* of events/mod.rs, and upsert_windows, cleanup_old_windows and           *)
(* delete_user_windows of both event stores.  Several devices of one       *)
(* account and provider report the same windows; a row is the merge of     *)
(* what they saw, in whatever order it arrived.                            *)
(*                                                                         *)
(* Times are in ticks of a minute.  A key stands for a window and is its   *)
(* window_end_ms.  Of the merged fields one of each kind is kept: peak     *)
(* (maxima), first (minimum of those present), maxed (flags), minutes      *)
(* (follows the latest observation) and active (maximum, capped).          *)
(* Requests refused before the limiter change nothing: no action.          *)
(***************************************************************************)
EXTENDS ClickHouseTables, SequencesExt

CONSTANTS Devices,
          Batches,        \* what a device may send: sequences of Item
          MaxItems,       \* MAX_WINDOW_ITEMS
          Floor,          \* 730 days: how old a window may be
          Horizon,        \* 40 days: how far ahead it may end
          Future, Corrupt,   \* Fjall values this build cannot decode
          MaxUploads, MaxTime   \* bounds on a behaviour

(* valid: the checks on strings and field ranges, which no waiting changes.   *)
Item == [key : Keys, peak : Nat, obs : Int, minutes : Nat, first : Nat,
         active : Nat, maxed : BOOLEAN, valid : BOOLEAN]

(* A merged window; of is a history value, the items merged into it.          *)
Window == [peak : Nat, obs : Int, minutes : Nat, first : Nat, active : Nat,
           maxed : BOOLEAN, of : SUBSET Item]

(* What the database holds under a name: of each key a row with its version.  *)
Row == [w : Window, ver : Int]
Rows == [Keys -> Row \cup {None}]
Table == [schema : {"updated_at", "observed_ts_ms"}, rows : Rows]

Opaque == {Future, Corrupt}

(* A window is the join of the items merged into it; oldest is what a clock   *)
(* too far in the past was raised to.                                         *)
Joins(w, oldest) ==
  /\ \E i \in w.of : i.peak = w.peak
  /\ \A i \in w.of : i.peak <= w.peak
  /\ w.maxed <=> \E i \in w.of : i.maxed
  /\ w.first > 0 <=> \E i \in w.of : i.first > 0
  /\ \A i \in w.of : i.first > 0 => w.first <= i.first
  /\ \E i \in w.of : i.minutes = w.minutes /\ (i.obs >= w.obs \/ oldest >= w.obs)
  /\ w.active <= w.minutes

(* What an earlier build left is merged by the same rules.                    *)
ASSUME WindowsAssumption ==
  /\ Keys \subseteq Int /\ Batches \subseteq Seq(Item)
  /\ Floor \in Nat /\ Horizon \in Nat /\ MaxItems \in Nat /\ MaxTime \in Nat
  /\ DOMAIN History \subseteq Keys
  /\ \A k \in DOMAIN History : History[k] \in Window /\ Joins(History[k], 0)
  /\ Future # Corrupt /\ Opaque \cap Window = {}
  /\ None \notin Window \cup Opaque \cup Devices \cup Row \cup Table

VARIABLES
  backend,   \* "fjall" or "clickhouse"
  kv,        \* Fjall's windows keyspace: [Keys -> Window, Opaque or None]
  clock,     \* the server's clock
  last,      \* WindowsRateLimiter: last batch let in, per device
  lock,      \* the device whose upload holds the account's windows lock
  conn,      \* the SyncWindows message each connection is handling
  gone,      \* the account is deleted: no batch is let in
  acked,     \* history: items of acknowledged batches
  outrun,    \* history: keys written with a version below the stored one
  uploads    \* history: batches sent so far

winVars == <<kv, lock, acked, outrun>>
vars == <<bootVars, backend, winVars, clock, last, conn, gone, uploads>>

(* items: what sanitising and premerging left, by key; retry: some item was   *)
(* out of the horizon; base: the rows read under the lock.                    *)
Message == [st : {"idle", "upsert", "insert"}, items : [Keys -> Window \cup {None}],
            sent : SUBSET Item, retry : BOOLEAN, base : Rows]

NoMessage == [st |-> "idle", items |-> NoRows, sent |-> {}, retry |-> FALSE,
              base |-> NoRows]

Init ==
  /\ BootInit
  /\ backend \in {"fjall", "clickhouse"}
  /\ kv \in IF backend = "fjall"
            THEN UNION {[Keys -> {None, v}] : v \in Opaque} ELSE {NoRows}
  /\ backend = "fjall" => ~inherited /\ ~atomicDb
  /\ clock = Floor + 1 /\ last = [d \in Devices |-> None] /\ lock = None
  /\ conn = [d \in Devices |-> NoMessage]
  /\ gone = FALSE /\ acked = {} /\ outrun = {} /\ uploads = 0

-----------------------------------------------------------------------------
(* sanitize_window_batch, premerge_windows, merge_wire_windows               *)

MaxOf(a, b) == IF a >= b THEN a ELSE b
MinOf(a, b) == IF a <= b THEN a ELSE b

MergeLast(w, o) ==   \* seeded fault: the newer observation takes the peak along
  [peak    |-> IF o.obs >= w.obs THEN o.peak ELSE w.peak,
   obs     |-> MaxOf(w.obs, o.obs), minutes |-> w.minutes, first |-> w.first,
   active  |-> w.active, maxed |-> w.maxed, of |-> w.of \cup o.of]

(* merge_wire_windows: o is folded into w. *)
Merge(w, o) ==
  LET minutes == IF o.obs >= w.obs THEN o.minutes ELSE w.minutes IN
  [peak    |-> MaxOf(w.peak, o.peak),
   obs     |-> MaxOf(w.obs, o.obs),
   minutes |-> minutes,
   first   |-> IF o.first > 0 /\ w.first > 0 THEN MinOf(w.first, o.first)
               ELSE MaxOf(w.first, o.first),
   active  |-> MinOf(MaxOf(w.active, o.active), minutes),
   maxed   |-> w.maxed \/ o.maxed,
   of      |-> w.of \cup o.of]

(* An observation clock far in the past is raised, not refused. *)
Raised(i) == [i EXCEPT !.obs = MaxOf(@, clock - Floor)]

(* window_item_stable_ok: what fails here can never become valid. *)
StableOk(i) ==
  i.valid /\ i.key > clock - Floor /\ (i.first > 0 => i.first <= Raised(i).obs)

(* window_item_transient_ok: too far ahead, time can fix it. *)
TransientOk(i) == i.key < clock + Horizon

(* The positions of batch b that are kept: valid, and among the newest.       *)
Kept(b) ==
  LET ok == {n \in DOMAIN b : StableOk(b[n]) /\ TransientOk(b[n])} IN
  {n \in ok : Cardinality({m \in ok : \/ b[m].key > b[n].key
                                      \/ b[m].key = b[n].key /\ m < n}) < MaxItems}

(* The clamps: active to the window, observation to a minute ahead, first     *)
(* sight to the observation.                                                  *)
Clamped(i) ==
  LET obs == MinOf(Raised(i).obs, clock + 1) IN
  [peak |-> i.peak, obs |-> obs, minutes |-> i.minutes,
   first |-> MinOf(i.first, obs), active |-> MinOf(i.active, i.minutes),
   maxed |-> i.maxed, of |-> {i}]

(* Item i joins the windows of its batch. *)
Joined(windows, i) ==
  [windows EXCEPT ![i.key] = IF @ = None THEN Clamped(i) ELSE Merge(@, Clamped(i))]

(* premerge_windows: one window per key; the sort is unstable, so duplicates  *)
(* are merged in any order p of the positions.                                *)
Premerged(b, p) ==
  LET merged[n \in 0..Len(b)] ==
        IF n = 0 THEN NoRows
        ELSE IF p[n] \in Kept(b) THEN Joined(merged[n - 1], b[p[n]])
        ELSE merged[n - 1]
  IN  merged[Len(b)]

-----------------------------------------------------------------------------
(* The message handler                                                       *)

Up == backend = "fjall" \/ boot = "ready"

(* allow: one batch a minute per device, user and provider. *)
Allowed(d) == last[d] # None => clock - last[d] >= 1

(* The batch is let in and sanitised.  A throttled one is refused: no action. *)
Upload(d, b) ==
  /\ Up /\ ~gone /\ conn[d].st = "idle" /\ uploads < MaxUploads /\ Allowed(d)
  /\ uploads' = uploads + 1
  /\ last' = [last EXCEPT ![d] = clock]
  /\ \E p \in SetToSeqs(DOMAIN b) : conn' = [conn EXCEPT ![d] =
       [st |-> "upsert", items |-> Premerged(b, p), sent |-> Range(b),
        retry |-> \E n \in DOMAIN b : StableOk(b[n]) /\ ~TransientOk(b[n]),
        base |-> NoRows]]
  /\ UNCHANGED <<bootVars, backend, winVars, clock, gone>>

(* The keys of the batch. *)
Sent(d) == {k \in Keys : conn[d].items[k] # None}

(* SyncAck when nothing was dropped, else SyncErr: the client sends again.    *)
Reply(d, ok) ==
  /\ conn' = [conn EXCEPT ![d] = NoMessage]
  /\ acked' = IF ok /\ ~conn[d].retry
              THEN acked \cup {i \in conn[d].sent :
                     \E k \in Sent(d) : i \in conn[d].items[k].of}
              ELSE acked

Same(v, w) == [v EXCEPT !.of = {}] = [w EXCEPT !.of = {}]

(* What Fjall stores over v: a future version is preserved, corruption        *)
(* replaced, an unchanged row not rewritten.                                  *)
StoredOver(v, w) ==
  IF v = None \/ v = Corrupt THEN w
  ELSE IF v = Future \/ Same(v, Merge(v, w)) THEN v ELSE Merge(v, w)

Skipped(d) == {k \in Sent(d) : kv[k] = Future}

(* FjallEventStore::upsert_windows, whole under windows_lock; an error leaves *)
(* the rows of a part of the batch.                                           *)
FjallUpsert(d) ==
  LET items == conn[d].items IN
  /\ backend = "fjall" /\ conn[d].st = "upsert" /\ lock = None
  /\ \E S \in SUBSET Sent(d) :
       /\ kv' = [k \in Keys |-> IF k \in S THEN StoredOver(kv[k], items[k]) ELSE kv[k]]
       /\ Reply(d, S = Sent(d) /\ Skipped(d) = {})
  /\ UNCHANGED <<bootVars, backend, clock, last, lock, outrun, gone, uploads>>

AcquireNothing(d) == TRUE   \* seeded fault: no lock per account

Acquire(d) == lock = None

(* ClickHouse: the account's lock, then the stored rows from the oldest       *)
(* incoming window on.                                                        *)
ClickHouseRead(d) ==
  /\ backend = "clickhouse" /\ boot = "ready" /\ conn[d].st = "upsert"
  /\ \/ /\ Sent(d) # {} /\ Acquire(d) /\ lock' = d
        /\ conn' = [conn EXCEPT ![d].st = "insert",
                                ![d].base = tables["toki_windows"].rows]
        /\ UNCHANGED acked
     \/ /\ Sent(d) = {}
        /\ Reply(d, TRUE) /\ UNCHANGED lock
  /\ UNCHANGED <<bootVars, backend, kv, clock, last, outrun, gone, uploads>>

(* The rows to insert: merged with those read, unless that changes nothing.   *)
Merged(d) ==
  LET items == conn[d].items  base == conn[d].base
      row(k) == IF base[k] = None THEN items[k] ELSE Merge(base[k].w, items[k])
  IN  [k \in {j \in Sent(d) : base[j] = None \/ ~Same(base[j].w, row(j))} |-> row(k)]

(* The INSERT, stamped with the clock: it needs the column, and of two        *)
(* versions the higher wins, the later one if they are equal.                 *)
Inserted(rows) ==
  [tables EXCEPT !["toki_windows"].rows = [k \in Keys |->
     IF k \in DOMAIN rows /\ (@[k] # None => @[k].ver <= clock)
     THEN [w |-> rows[k], ver |-> clock] ELSE @[k]]]

Outrun(rows) ==
  LET t == tables["toki_windows"].rows IN
  {k \in DOMAIN rows : t[k] # None /\ t[k].ver > clock}

ClickHouseInsert(d) ==
  LET rows == Merged(d) IN
  /\ backend = "clickhouse" /\ boot = "ready" /\ conn[d].st = "insert"
  /\ lock' = None
  /\ \/ /\ DOMAIN rows # {} /\ tables["toki_windows"].schema = "updated_at"
        /\ tables' = Inserted(rows) /\ outrun' = outrun \cup Outrun(rows)
        /\ \E ok \in BOOLEAN : Reply(d, ok)
     \/ /\ DOMAIN rows # {}
        /\ Reply(d, FALSE) /\ UNCHANGED <<tables, outrun>>
     \/ /\ DOMAIN rows = {}
        /\ Reply(d, TRUE) /\ UNCHANGED <<tables, outrun>>
  /\ UNCHANGED <<boot, atomicDb, inherited, lost, starts, backend, kv, clock, last, gone,
                 uploads>>

-----------------------------------------------------------------------------
(* Retention, deletion, time and restarts                                    *)

Wiped(S) ==
  IF backend = "fjall"
  THEN kv' = [k \in Keys |-> IF k \in S THEN None ELSE kv[k]] /\ UNCHANGED tables
  ELSE /\ tables' = [tables EXCEPT !["toki_windows"].rows =
                       [k \in Keys |-> IF k \in S THEN None ELSE @[k]]]
       /\ UNCHANGED kv

(* cleanup_old_windows: Fjall in batches, each under windows_lock, ClickHouse  *)
(* in one mutation and without a lock.                                        *)
CleanupOldWindows ==
  /\ Up /\ (backend = "fjall" => lock = None)
  /\ \E S \in SUBSET {k \in Keys : k < clock - Floor} \ {{}} : Wiped(S)
  /\ UNCHANGED <<boot, atomicDb, inherited, lost, starts, backend, lock, acked, outrun,
                 clock, last, conn, gone, uploads>>

(* delete_user_windows, when the account is deleted, before and after its row  *)
(* is: Fjall takes windows_lock, ClickHouse no lock at all.                    *)
DeleteUserWindows ==
  /\ Up /\ gone' = TRUE
  /\ backend = "fjall" => lock = None
  /\ Wiped(Keys)
  /\ UNCHANGED <<boot, atomicDb, inherited, lost, starts, backend, lock, acked, outrun,
                 clock, last, conn, uploads>>

Tick ==
  /\ clock < MaxTime /\ clock' = clock + 1
  /\ UNCHANGED <<bootVars, backend, winVars, last, conn, gone, uploads>>

Startup ==
  /\ backend = "clickhouse" /\ BootStep
  /\ UNCHANGED <<backend, winVars, clock, last, conn, gone, uploads>>

(* The process ends: connections, limiter and locks with it. *)
CrashAll ==
  /\ backend = "clickhouse" /\ Crash
  /\ conn' = [d \in Devices |-> NoMessage]
  /\ last' = [d \in Devices |-> None] /\ lock' = None
  /\ UNCHANGED <<backend, kv, acked, outrun, clock, gone, uploads>>

Next ==
  \/ \E d \in Devices : \/ \E b \in Batches : Upload(d, b)
                        \/ FjallUpsert(d)
                        \/ ClickHouseRead(d) \/ ClickHouseInsert(d)
  \/ CleanupOldWindows \/ DeleteUserWindows \/ Tick \/ Startup \/ CrashAll

Spec == Init /\ [][Next]_vars

-----------------------------------------------------------------------------
(* Properties                                                                *)

(* The stored rows a query sees, by key. *)
Stored(k) ==
  IF backend = "fjall" THEN (IF kv[k] \in Opaque THEN None ELSE kv[k])
  ELSE IF boot # "ready" \/ tables["toki_windows"].rows[k] = None THEN None
  ELSE tables["toki_windows"].rows[k].w

Covers(w, o) ==
  /\ w.peak >= o.peak /\ w.obs >= o.obs /\ (o.maxed => w.maxed)
  /\ o.first > 0 => w.first > 0 /\ w.first <= o.first

(* SyncAck is kept: the client forgets an acknowledged set, so every item in  *)
(* it shows in the stored row, whatever other devices upload meanwhile, until *)
(* retention.  Only a row whose version lies ahead of the clock escapes.      *)
AckStored ==
  Up /\ ~gone => \A i \in acked : i.key >= clock - Floor /\ i.key \notin outrun =>
    /\ Stored(i.key) # None
    /\ Stored(i.key).peak >= i.peak /\ (i.maxed => Stored(i.key).maxed)

(* The merge does not depend on the order of arrival: a row's maxima, minimum *)
(* and flags are those of all that was merged into it, the fields of the last *)
(* writer come from one latest observation, and active fits the window.       *)
MergeIsJoin == \A k \in Keys : Stored(k) # None => Joins(Stored(k), clock - Floor)

(* The history an earlier build collected survives its migration, whatever    *)
(* statement fails, loses its reply or is the last before a crash: some table *)
(* holds it, the live one whenever the server is up.                          *)
HistoryKept ==
  LET holds(n) == tables[n] # None /\ \A k \in DOMAIN History :
        k >= clock - Floor => /\ tables[n].rows[k] # None
                              /\ Covers(tables[n].rows[k].w, History[k])
  IN  backend = "clickhouse" /\ inherited /\ ~gone =>
        IF boot = "ready" THEN holds("toki_windows") ELSE \E n \in Names : holds(n)

(* Uploads are refused for want of the column only after an EXCHANGE whose    *)
(* reply was lost: the RENAME fallback then swaps the old table back.         *)
ReadyUsable ==
  backend = "clickhouse" /\ boot = "ready" /\ ~lost =>
    tables["toki_windows"].schema = "updated_at"
=============================================================================
