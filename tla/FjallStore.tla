----------------------------- MODULE FjallStore -----------------------------
(***************************************************************************)
(* The embedded event store (events/fjall_store.rs): four keyspaces kept   *)
(* consistent by hand.                                                     *)
(*                                                                         *)
(*   events    (ts, key)       -> row            the events themselves     *)
(*   idx_msg   key             -> ts of the row  dedup pointer             *)
(*   idx_user  (user, ts, key) -> row            inline copy, per user     *)
(*   sessions  (ts, key)       -> session string                           *)
(*                                                                         *)
(* where key = (device, provider, message).  Every mutation takes          *)
(* `mutation_lock`, READS the committed indexes, builds a write batch from *)
(* what it read and commits it atomically; the read and the commit are     *)
(* separate steps here, so that what the lock is for can go wrong.  A      *)
(* worker is one task inside the store: an upsert (followed, as its only   *)
(* caller handle_sync_batch does, by the pruning of old dedup pointers) or *)
(* the purge of a device.                                                  *)
(***************************************************************************)
EXTENDS Integers, FiniteSets

CONSTANTS Devices, Providers, Msgs, Users, Vals, Sessions,
          Ts,         \* event timestamps (ts_ms), as a set of integers
          MaxBatch,   \* bound on the items of one upsert
          Retention,  \* dedup_retention_secs, in units of Ts
          Chunk,      \* BACKFILL_CHUNK
          Workers,    \* concurrent tasks inside the store
          None        \* an absent row, pointer, session or job

Key  == [dev : Devices, prov : Providers, msg : Msgs]
Row  == [user : Users, val : Vals]
Item == [msg : Msgs, ts : Ts, val : Vals, sess : Sessions \cup {None}]
Won  == [ts : Ts, user : Users, val : Vals, sess : Sessions \cup {None}]

Batches == UNION {[1..n -> Item] : n \in 1..MaxBatch}

Versions == {"unset", "old", "current"}   \* meta.schema_version as stored

(* Timestamps and the retention are integers; None is nothing else, and the  *)
(* record of an idle job names some device.                                  *)
ASSUME FjallAssumption ==
  /\ Ts \subseteq Int /\ Retention \in Int /\ MaxBatch \in Nat /\ Devices # {}
  /\ None \notin Ts \cup Sessions \cup Item \cup Row \cup Won \cup Workers

VARIABLES
  events,    \* [Key -> [Ts -> Row or None]]
  idx_msg,   \* [Key -> Ts or None]
  idx_user,  \* [Users -> [Key -> [Ts -> Row or None]]]
  sessions,  \* [Key -> [Ts -> Sessions or None]]
  version,   \* the schema version meta holds
  marker,    \* meta.idx_user_backfilled
  phase,     \* "closed", "backfill" (inside open) or "open"
  scanned,   \* rows the running backfill has committed copies of
  lock,      \* the worker holding mutation_lock, or None
  job,       \* what each worker is doing
  pruned,    \* history: keys whose pointer was pruned since their last purge
  newest     \* history: the newest upload of each key since its last purge

store == <<events, idx_msg, idx_user, sessions>>
vars  == <<events, idx_msg, idx_user, sessions, version, marker, phase,
           scanned, lock, job, pruned, newest>>

Pointers == [Key -> Ts \cup {None}]
Table    == [Key -> [Ts -> Row \cup {None}]]

(* A job: its operation, the device, the winners of its batch, the cutoff of *)
(* the pruning, the committed idx_msg and events it read under the lock,     *)
(* and (history) the newest timestamp its batch held per key.                *)
Job == [op : {"idle", "upsert", "due", "cleanup", "delete"},
        dev : Devices, won : [Key -> Won \cup {None}], cutoff : Int,
        idx : Pointers, ev : Table, sent : Pointers]

NoWinners == [k \in Key |-> None]
NoPtr     == [k \in Key |-> None]
NoRows    == [k \in Key |-> [t \in Ts |-> None]]

Idle == [op |-> "idle", dev |-> CHOOSE d \in Devices : TRUE, won |-> NoWinners,
         cutoff |-> 0, idx |-> NoPtr, ev |-> NoRows, sent |-> NoPtr]

TypeOK ==
  /\ events \in Table
  /\ idx_msg \in Pointers
  /\ idx_user \in [Users -> Table]
  /\ sessions \in [Key -> [Ts -> Sessions \cup {None}]]
  /\ version \in Versions
  /\ marker \in BOOLEAN
  /\ phase \in {"closed", "backfill", "open"}
  /\ scanned \subseteq Key \X Ts
  /\ lock \in Workers \cup {None}
  /\ job \in [Workers -> Job]
  /\ pruned \subseteq Key
  /\ newest \in Pointers

(* A fresh store, or the one an earlier release left: its rows have dedup    *)
(* pointers but neither per-user copies nor sessions.                        *)
Init ==
  /\ \E old \in [Key -> [ts : Ts, user : Users, val : Vals] \cup {None}] :
       /\ idx_msg = [k \in Key |-> IF old[k] = None THEN None ELSE old[k].ts]
       /\ events = [k \in Key |-> [t \in Ts |->
                      IF old[k] # None /\ old[k].ts = t
                      THEN [user |-> old[k].user, val |-> old[k].val]
                      ELSE None]]
       /\ version \in IF old = NoPtr THEN Versions ELSE Versions \ {"unset"}
  /\ idx_user = [u \in Users |-> NoRows]
  /\ sessions = NoRows
  /\ marker = FALSE
  /\ phase = "closed"
  /\ scanned = {}
  /\ lock = None
  /\ job = [w \in Workers |-> Idle]
  /\ pruned = {}
  /\ newest = idx_msg

-----------------------------------------------------------------------------
(* open: the version guard, then the one-time backfill of idx_user           *)

Rows == {r \in Key \X Ts : events[r[1]][r[2]] # None}

(* A stored version other than this binary's: the directory is removed and   *)
(* the store reopened empty.                                                 *)
OpenCleared ==
  /\ phase = "closed" /\ version = "old"
  /\ events' = NoRows /\ idx_msg' = NoPtr /\ sessions' = NoRows
  /\ idx_user' = [u \in Users |-> NoRows]
  /\ version' = "unset" /\ marker' = FALSE
  /\ pruned' = {} /\ newest' = NoPtr
  /\ UNCHANGED <<phase, scanned, lock, job>>

Open ==
  /\ phase = "closed" /\ version # "old"
  /\ version' = "current"
  /\ phase' = IF marker THEN "open" ELSE "backfill"
  /\ scanned' = {}
  /\ UNCHANGED <<store, marker, lock, job, pruned, newest>>

(* One chunk of copies, in the order of the events keyspace (by timestamp).  *)
BackfillChunk ==
  /\ phase = "backfill"
  /\ \E c \in SUBSET (Rows \ scanned) :
       /\ c # {}
       /\ Cardinality(c) = Chunk \/ c = Rows \ scanned
       /\ Cardinality(c) <= Chunk
       /\ \A r \in c, s \in (Rows \ scanned) \ c : r[2] <= s[2]
       /\ scanned' = scanned \cup c
       /\ idx_user' = [u \in Users |-> [k \in Key |-> [t \in Ts |->
                         IF <<k, t>> \in c /\ events[k][t].user = u
                         THEN events[k][t] ELSE idx_user[u][k][t]]]]
  /\ UNCHANGED <<events, idx_msg, sessions, version, marker, phase, lock, job, pruned, newest>>

BackfillDoneEarly ==   \* seeded fault: the marker is not the last write
  /\ phase = "backfill"
  /\ marker' = TRUE /\ phase' = "open"
  /\ UNCHANGED <<store, version, scanned, lock, job, pruned, newest>>

(* The completion marker, in a commit of its own, after the last chunk.      *)
BackfillDone ==
  /\ phase = "backfill" /\ Rows \subseteq scanned
  /\ marker' = TRUE /\ phase' = "open"
  /\ UNCHANGED <<store, version, scanned, lock, job, pruned, newest>>

(* The process dies: uncommitted batches and the in-memory lock are gone.    *)
Crash ==
  /\ phase # "closed"
  /\ phase' = "closed" /\ scanned' = {} /\ lock' = None
  /\ job' = [w \in Workers |-> Idle]
  /\ UNCHANGED <<store, version, marker, pruned, newest>>

-----------------------------------------------------------------------------
(* upsert_events: the in-memory dedup of the batch, then the reads           *)

LastWinner(b, m) ==   \* seeded fault: the last item of the batch wins
  LET last == {i \in DOMAIN b : b[i].msg = m /\ \A j \in DOMAIN b : b[j].msg = m => j <= i}
  IN  IF last = {} THEN None ELSE b[CHOOSE i \in last : TRUE]

(* The HashMap `winner`: the newest item per message, the first on a tie.    *)
Winner(b, m) ==
  LET first == {i \in DOMAIN b :
        /\ b[i].msg = m
        /\ \A j \in DOMAIN b : b[j].msg = m =>
             b[j].ts < b[i].ts \/ (b[j].ts = b[i].ts /\ i <= j)}
  IN  IF first = {} THEN None ELSE b[CHOOSE i \in first : TRUE]

Winners(d, p, u, b) ==
  [k \in Key |->
     IF k.dev = d /\ k.prov = p /\ Winner(b, k.msg) # None
     THEN LET i == Winner(b, k.msg)
          IN  [ts |-> i.ts, user |-> u, val |-> i.val, sess |-> i.sess]
     ELSE None]

(* max_ts of the batch, from which handle_sync_batch computes the cutoff.    *)
Top(b) == CHOOSE t \in Ts : /\ \E i \in DOMAIN b : b[i].ts = t
                            /\ \A i \in DOMAIN b : b[i].ts <= t

(* The newest timestamp the batch holds for a message. *)
Sent(b, m) ==
  LET ts == {b[i].ts : i \in {i \in DOMAIN b : b[i].msg = m}}
  IN  IF ts = {} THEN None ELSE CHOOSE t \in ts : \A x \in ts : x <= t

Later(t1, t2) ==
  IF t1 = None \/ (t2 # None /\ t2 > t1) THEN t2 ELSE t1

AcquireNothing(w) == phase = "open" /\ lock' = w   \* seeded fault: no mutual exclusion

(* Taking mutation_lock. *)
Acquire(w) == phase = "open" /\ lock = None /\ lock' = w

UpsertRead(w, d, p, u, b) ==
  /\ job[w].op = "idle"
  /\ Acquire(w)
  /\ job' = [job EXCEPT ![w] =
       [op |-> "upsert", dev |-> d, won |-> Winners(d, p, u, b),
        cutoff |-> Top(b) - Retention, idx |-> idx_msg, ev |-> events,
        sent |-> [k \in Key |-> IF k.dev = d /\ k.prov = p THEN Sent(b, k.msg) ELSE None]]]
  /\ UNCHANGED <<store, version, marker, phase, scanned, pruned, newest>>

LandsAlways(j, k) == j.won[k] # None   \* seeded fault: an older replay clobbers

(* upsert_one: an item older than the committed pointer is dropped.          *)
Lands(j, k) == j.won[k] # None /\ (j.idx[k] = None \/ j.won[k].ts >= j.idx[k])

IncomingUser(j, k) == j.won[k].user   \* seeded fault: the new owner's prefix

(* The owner under whose prefix the predecessor's copy lives.                *)
PrevUser(j, k) ==
  IF j.ev[k][j.idx[k]] # None THEN j.ev[k][j.idx[k]].user ELSE j.won[k].user

(* (k, t) is where item k of the job goes, or the predecessor it replaces.   *)
Into(j, k, t)  == Lands(j, k) /\ t = j.won[k].ts
OutOf(j, k, t) == Lands(j, k) /\ j.idx[k] # None /\ t = j.idx[k]

(* the batch of removals and insertions, per keyspace: an insertion comes    *)
(* after the removal of the same key, and prevails                           *)
NewRow(j, k) == [user |-> j.won[k].user, val |-> j.won[k].val]

RowAfter(j, k, t) ==
  IF Into(j, k, t) THEN NewRow(j, k)
  ELSE IF OutOf(j, k, t) THEN None ELSE events[k][t]

CopyAfter(j, u, k, t) ==
  IF Into(j, k, t) /\ u = j.won[k].user THEN NewRow(j, k)
  ELSE IF OutOf(j, k, t) /\ u = PrevUser(j, k) THEN None ELSE idx_user[u][k][t]

SessionKept(j, k, t) ==   \* seeded fault: the predecessor's session stays
  IF Into(j, k, t) /\ j.won[k].sess # None THEN j.won[k].sess ELSE sessions[k][t]

SessionAfter(j, k, t) ==
  IF Into(j, k, t) /\ j.won[k].sess # None THEN j.won[k].sess
  ELSE IF OutOf(j, k, t) THEN None ELSE sessions[k][t]

UpsertCommit(w) ==
  LET j == job[w] IN
  /\ j.op = "upsert"
  /\ events' = [k \in Key |-> [t \in Ts |-> RowAfter(j, k, t)]]
  /\ idx_user' = [u \in Users |-> [k \in Key |-> [t \in Ts |-> CopyAfter(j, u, k, t)]]]
  /\ sessions' = [k \in Key |-> [t \in Ts |-> SessionAfter(j, k, t)]]
  /\ idx_msg' = [k \in Key |-> IF Lands(j, k) THEN j.won[k].ts ELSE idx_msg[k]]
  /\ lock' = None
  /\ job' = [job EXCEPT ![w] =
       IF j.cutoff > 0 THEN [Idle EXCEPT !.op = "due", !.dev = j.dev, !.cutoff = j.cutoff]
                       ELSE Idle]
  /\ newest' = [k \in Key |-> Later(newest[k], j.sent[k])]
  /\ UNCHANGED <<version, marker, phase, scanned, pruned>>

-----------------------------------------------------------------------------
(* cleanup_old_dedup: pointers of the device, of every provider, older than  *)
(* the cutoff; the rows stay                                                 *)

CleanupRead(w) ==
  /\ job[w].op = "due"
  /\ Acquire(w)
  /\ job' = [job EXCEPT ![w].op = "cleanup", ![w].idx = idx_msg, ![w].ev = events]
  /\ UNCHANGED <<store, version, marker, phase, scanned, pruned, newest>>

Expired(j, k) == k.dev = j.dev /\ j.idx[k] # None /\ j.idx[k] < j.cutoff

CleanupCommit(w) ==
  LET j == job[w] IN
  /\ j.op = "cleanup"
  /\ idx_msg' = [k \in Key |-> IF Expired(j, k) THEN None ELSE idx_msg[k]]
  /\ pruned' = pruned \cup {k \in Key : Expired(j, k)}
  /\ lock' = None
  /\ job' = [job EXCEPT ![w] = Idle]
  /\ UNCHANGED <<events, idx_user, sessions, version, marker, phase, scanned, newest>>

(* The pruning is best effort: its error is logged and the batch is acked.   *)
CleanupFails(w) ==
  /\ job[w].op = "due" /\ phase = "open"
  /\ job' = [job EXCEPT ![w] = Idle]
  /\ UNCHANGED <<store, version, marker, phase, scanned, lock, pruned, newest>>

-----------------------------------------------------------------------------
(* delete_device_events: a full scan, because the rows of pruned pointers    *)
(* must go too                                                               *)

DeleteRead(w, d) ==
  /\ job[w].op = "idle"
  /\ Acquire(w)
  /\ job' = [job EXCEPT ![w] = [Idle EXCEPT !.op = "delete", !.dev = d,
                                            !.idx = idx_msg, !.ev = events]]
  /\ UNCHANGED <<store, version, marker, phase, scanned, pruned, newest>>

Gone(j, k, t) == k.dev = j.dev /\ j.ev[k][t] # None

DropsNoPointer(j, k) == FALSE   \* seeded fault: rows go, pointers stay

(* the pointers of the scanned rows, and those whose row was already gone    *)
DropsPointer(j, k) ==
  (\E t \in Ts : Gone(j, k, t)) \/ (k.dev = j.dev /\ j.idx[k] # None)

DeleteCommit(w) ==
  LET j == job[w] IN
  /\ j.op = "delete"
  /\ events' = [k \in Key |-> [t \in Ts |-> IF Gone(j, k, t) THEN None ELSE events[k][t]]]
  /\ sessions' = [k \in Key |-> [t \in Ts |-> IF Gone(j, k, t) THEN None ELSE sessions[k][t]]]
  /\ idx_user' = [u \in Users |-> [k \in Key |-> [t \in Ts |->
       IF Gone(j, k, t) /\ j.ev[k][t].user = u THEN None ELSE idx_user[u][k][t]]]]
  /\ idx_msg' = [k \in Key |-> IF DropsPointer(j, k) THEN None ELSE idx_msg[k]]
  /\ pruned' = {k \in pruned : k.dev # j.dev}
  /\ newest' = [k \in Key |-> IF k.dev = j.dev THEN None ELSE newest[k]]
  /\ lock' = None
  /\ job' = [job EXCEPT ![w] = Idle]
  /\ UNCHANGED <<version, marker, phase, scanned>>

-----------------------------------------------------------------------------
(* A commit fails (disk full): nothing of the batch is written.              *)
CommitFails(w) ==
  /\ job[w].op \in {"upsert", "cleanup", "delete"}
  /\ lock' = None
  /\ job' = [job EXCEPT ![w] = Idle]
  /\ UNCHANGED <<store, version, marker, phase, scanned, pruned, newest>>

Commit(w) ==
  UpsertCommit(w) \/ CleanupRead(w) \/ CleanupCommit(w) \/ CleanupFails(w)
    \/ DeleteCommit(w) \/ CommitFails(w)

Lifecycle == OpenCleared \/ Open \/ BackfillChunk \/ BackfillDone \/ Crash

Next ==
  \/ Lifecycle
  \/ \E w \in Workers :
       \/ \E d \in Devices, p \in Providers, u \in Users, b \in Batches :
            UpsertRead(w, d, p, u, b)
       \/ \E d \in Devices : DeleteRead(w, d)
       \/ Commit(w)

Spec == Init /\ [][Next]_vars

(* The assumption under which deduplication is promised (handler.rs: the     *)
(* retention is generous "so a late correction/update ... still hits the     *)
(* idx"): a message whose pointer was pruned is not uploaded again before    *)
(* its device is purged.                                                     *)
Timely(d, p, b) ==
  \A k \in pruned : ~(k.dev = d /\ k.prov = p /\ \E i \in DOMAIN b : b[i].msg = k.msg)

TimelyNext ==
  \/ Lifecycle
  \/ \E w \in Workers :
       \/ \E d \in Devices, p \in Providers, u \in Users, b \in Batches :
            Timely(d, p, b) /\ UpsertRead(w, d, p, u, b)
       \/ \E d \in Devices : DeleteRead(w, d)
       \/ Commit(w)

TimelySpec == Init /\ [][TimelyNext]_vars

-----------------------------------------------------------------------------
(* Properties of every behaviour                                             *)

(* What a mutation read under mutation_lock is still what the store holds    *)
(* when it commits (the comment on `mutation_lock`): no other upsert,        *)
(* pruning or purge, and no crash, can come between the two.                 *)
ReadsStillCurrent ==
  \A w \in Workers : job[w].op \in {"upsert", "cleanup", "delete"} =>
    lock = w /\ job[w].idx = idx_msg /\ job[w].ev = events

(* A user-scoped query misses nothing an all-users query finds: once open    *)
(* returned, every event row has its copy under its owner, also after an     *)
(* interrupted backfill.                                                     *)
EveryRowIndexed ==
  phase = "open" =>
    \A k \in Key, t \in Ts :
      events[k][t] # None => idx_user[events[k][t].user][k][t] = events[k][t]

(* The dedup pointer of a message never dangles: upsert_one's removal of the *)
(* predecessor always finds it.                                              *)
PointerNamesRow ==
  \A k \in Key : idx_msg[k] # None => events[k][idx_msg[k]] # None

(* What a query finds of a message is the newest version any committed batch *)
(* held since the device's last purge, in whatever order the versions came,  *)
(* within a batch or across batches, and whether or not the pointer was      *)
(* pruned; and a committed upload is never lost.                             *)
NewestStored ==
  \A k \in Key : newest[k] = LET ts == {t \in Ts : events[k][t] # None}
                            IN  IF ts = {} THEN None
                                ELSE CHOOSE t \in ts : \A x \in ts : x <= t

-----------------------------------------------------------------------------
(* Properties of timely behaviours                                           *)

(* At most one row per (device, provider, message): no event is counted      *)
(* twice, and unless its pointer was pruned the pointer names it.            *)
OneRowPerKey ==
  \A k \in Key : \A t1, t2 \in Ts :
    events[k][t1] # None /\ events[k][t2] # None =>
      t1 = t2 /\ (k \in pruned \/ idx_msg[k] = t1)

(* A user sees exactly the rows stored for them: no copy outlives its row,   *)
(* its device's purge or the device's move to another user.                  *)
IndexMirrorsEvents ==
  \A u \in Users, k \in Key, t \in Ts : idx_user[u][k][t] # None =>
    idx_user[u][k][t] = events[k][t] /\ events[k][t].user = u

(* A session string is never left behind for a row that does not exist.      *)
SessionsFollowRows ==
  \A k \in Key, t \in Ts : sessions[k][t] # None => events[k][t] # None

(* The entry a query finds for each key: the newest of its rows.             *)
Visible ==
  [k \in Key |->
     LET ts == {t \in Ts : events[k][t] # None}
     IN  IF ts = {} THEN None
         ELSE LET t == CHOOSE x \in ts : \A y \in ts : y <= x
              IN  [ts |-> t, user |-> events[k][t].user, val |-> events[k][t].val,
                   sess |-> sessions[k][t]]]

Abstract == INSTANCE EventStore WITH rows <- Visible

(* The keyspaces together implement the EventStore contract.                 *)
ImplementsEventStore == Abstract!Spec
=============================================================================
