----------------------------- MODULE SyncServer -----------------------------
(***************************************************************************)
(* The TCP sync path (server/tcp.rs, sync/handler.rs) over the relational  *)
(* cursors (db/sqlite.rs) and the event store, with the operations that    *)
(* race it: a second connection of the same device, a lost client, a       *)
(* crash, a schema reset, and the deletion of a device or an account.      *)
(*                                                                         *)
(* A device's history with a provider is the timestamps 1..MaxTs, one      *)
(* event each.  The client (external) asks for the cursor and uploads      *)
(* later events in order, as DESIGN.md describes.  Every await of          *)
(* handle_connection that touches shared state is a step of its own.       *)
(* A connection also uploads quota windows, which take a permit of the     *)
(* same batch_semaphore; what they store is the matter of Windows.tla.     *)
(* Accounts are checked through the active cache; ActiveCache.tla shows    *)
(* that such a check is as good as one read of the flag, so it is one      *)
(* step here.                                                              *)
(***************************************************************************)
EXTENDS Integers, FiniteSets

CONSTANTS Conns,      \* connection slots (MAX_TCP_CONNECTIONS)
          Devices, Providers, Users,
          Owner,      \* [Devices -> Users], the account a device key logs in with
          MaxTs,      \* length of a device's local history
          MaxBatch,   \* MAX_BATCH_SIZE
          MaxWrites,  \* max_concurrent_writes
          Faults,     \* whether calls to the two databases may fail
          None

Ts == 1..MaxTs

ASSUME SyncAssumption ==
  /\ Devices # {} /\ Providers # {} /\ IsFiniteSet(Conns)
  /\ Owner \in [Devices -> Users]
  /\ MaxTs \in Nat /\ MaxBatch \in Nat /\ MaxWrites \in Nat \ {0}
  /\ Faults \in BOOLEAN
  /\ None \notin Int \cup Users

VARIABLES
  userRow,    \* users: the account exists
  active,     \* users.active
  deviceRow,  \* devices: the device is registered
  cursor,     \* cursors: last_ts per (device, provider), None without a row
  store,      \* the events the event store holds per (device, provider)
  permits,    \* free permits of batch_semaphore
  accepting,  \* FALSE once shutdown was signalled
  conn,       \* one record per connection slot
  del,        \* the device or account deletion in progress
  acked       \* history: highest SYNC_ACK a client received since registration

db   == <<userRow, active, deviceRow, cursor>>
vars == <<userRow, active, deviceRow, cursor, store, permits, accepting, conn, del, acked>>

States == {"closed", "auth", "register", "create", "purge", "reset", "told", "first",
           "ready", "check", "ensure", "empty", "permit", "upsert", "advance", "ack",
           "wcheck", "wpermit", "wupsert", "wreply"}

(* dev, prov: the AUTH frame; stale: its schema version differs from ours;    *)
(* bprov, from: the provider whose cursor the client asked for, and the       *)
(* answer; hi: the last timestamp of the batch; ack: the reply; peer: the     *)
(* client still reads.                                                        *)
Conn == [st : States, dev : Devices, prov : Providers, stale : BOOLEAN,
         bprov : Providers, from : 0..MaxTs \cup {None}, hi : 0..MaxTs,
         ack : 0..MaxTs, peer : BOOLEAN]

Closed == [st |-> "closed", dev |-> CHOOSE d \in Devices : TRUE,
           prov |-> CHOOSE p \in Providers : TRUE, stale |-> FALSE,
           bprov |-> CHOOSE p \in Providers : TRUE, from |-> None, hi |-> 0,
           ack |-> 0, peer |-> FALSE]

Deletion == [st : {"idle", "deactivate", "purge1", "row", "purge2"},
             user : Users \cup {None}, devs : SUBSET Devices, todo : SUBSET Devices]

NoDeletion == [st |-> "idle", user |-> None, devs |-> {}, todo |-> {}]

TypeOK ==
  /\ userRow \in [Users -> BOOLEAN]
  /\ active \in [Users -> BOOLEAN]
  /\ deviceRow \in [Devices -> BOOLEAN]
  /\ cursor \in [Devices -> [Providers -> 0..MaxTs \cup {None}]]
  /\ store \in [Devices -> [Providers -> SUBSET Ts]]
  /\ permits \in 0..MaxWrites
  /\ accepting \in BOOLEAN
  /\ conn \in [Conns -> Conn]
  /\ del \in Deletion
  /\ acked \in [Devices -> [Providers -> 0..MaxTs]]

NoCursors == [p \in Providers |-> None]
NoEvents  == [p \in Providers |-> {}]
NoAcks    == [p \in Providers |-> 0]

Init ==
  /\ userRow = [u \in Users |-> TRUE]
  /\ active = [u \in Users |-> TRUE]
  /\ deviceRow = [d \in Devices |-> FALSE]
  /\ cursor = [d \in Devices |-> NoCursors]
  /\ store = [d \in Devices |-> NoEvents]
  /\ permits = MaxWrites
  /\ accepting = TRUE
  /\ conn = [c \in Conns |-> Closed]
  /\ del = NoDeletion
  /\ acked = [d \in Devices |-> NoAcks]

Max2(a, b) == IF a >= b THEN a ELSE b

-----------------------------------------------------------------------------
(* Helpers of the handler steps                                              *)

At(c, s)     == conn[c].st = s
Goto(c, s)   == conn' = [conn EXCEPT ![c].st = s]
Hangup(c)    == conn' = [conn EXCEPT ![c] = Closed]

(* A SYNC_ERR is written and the loop goes on, unless the client is gone.     *)
Refuse(c) ==
  IF conn[c].peer THEN conn' = [conn EXCEPT ![c].st = "ready", ![c].hi = 0]
                  ELSE Hangup(c)

(* Inside the two blocks that hold a permit of batch_semaphore: the store     *)
(* write of a batch, and the premerge and store write of a windows upload.    *)
HolderStates == {"upsert", "wupsert"}

Holders == {c \in Conns : conn[c].st \in HolderStates}

Known(c)  == active[Owner[conn[c].dev]] /\ userRow[Owner[conn[c].dev]]

-----------------------------------------------------------------------------
(* Accepting and authenticating                                              *)

(* A connection is accepted into a free slot and its AUTH frame verified.     *)
Accept(c, d, p, stale) ==
  /\ accepting /\ At(c, "closed")
  /\ conn' = [conn EXCEPT ![c] = [Closed EXCEPT !.st = "auth", !.dev = d, !.prov = p,
                                    !.stale = stale, !.bprov = p, !.peer = TRUE]]
  /\ UNCHANGED <<db, store, permits, accepting, del, acked>>

AuthActive(c) ==
  /\ At(c, "auth")
  /\ IF Known(c) THEN Goto(c, "register") ELSE Hangup(c)
  /\ UNCHANGED <<db, store, permits, accepting, del, acked>>

AfterDevice(c) == IF conn[c].stale THEN "purge" ELSE "first"

(* find_or_create_device: the lookup ... *)
FindDevice(c) ==
  /\ At(c, "register")
  /\ Goto(c, IF deviceRow[conn[c].dev] THEN AfterDevice(c) ELSE "create")
  /\ UNCHANGED <<db, store, permits, accepting, del, acked>>

(* ... and the insert, which fails when another connection was first or the   *)
(* account is gone.                                                           *)
CreateDevice(c) ==
  LET d == conn[c].dev IN
  /\ At(c, "create")
  /\ IF deviceRow[d] \/ ~userRow[Owner[d]]
     THEN Hangup(c) /\ UNCHANGED deviceRow
     ELSE Goto(c, AfterDevice(c)) /\ deviceRow' = [deviceRow EXCEPT ![d] = TRUE]
  /\ UNCHANGED <<userRow, active, cursor, store, permits, accepting, del, acked>>

EnsuredCursor(d, p) ==
  IF cursor[d][p] = None THEN [cursor EXCEPT ![d][p] = 0] ELSE cursor

(* ensure_cursor for the AUTH provider, then AUTH_OK. *)
EnsureFirst(c) ==
  LET d == conn[c].dev IN
  /\ At(c, "first")
  /\ IF deviceRow[d]
     THEN Goto(c, "ready") /\ cursor' = EnsuredCursor(d, conn[c].prov)
     ELSE Hangup(c) /\ UNCHANGED cursor
  /\ UNCHANGED <<userRow, active, deviceRow, store, permits, accepting, del, acked>>

-----------------------------------------------------------------------------
(* Schema mismatch: the device's events are purged, one cursor is reset, and  *)
(* AUTH_ERR asks for a full re-sync; errors of the two calls are only logged  *)

SchemaPurge(c) ==
  /\ At(c, "purge")
  /\ \/ store' = [store EXCEPT ![conn[c].dev] = NoEvents]
     \/ Faults /\ UNCHANGED store
  /\ Goto(c, "reset")
  /\ UNCHANGED <<db, permits, accepting, del, acked>>

(* reset_cursor: UPDATE ... SET last_ts = 0. *)
ResetCursor(d, p) ==
  IF cursor[d][p] = None THEN cursor ELSE [cursor EXCEPT ![d][p] = 0]

SchemaReset(c) ==
  LET d == conn[c].dev IN
  /\ At(c, "reset")
  /\ \/ cursor' = ResetCursor(d, conn[c].prov)
     \/ Faults /\ UNCHANGED cursor
  /\ Goto(c, "told")
  /\ acked' = [acked EXCEPT ![d] = NoAcks]
  /\ UNCHANGED <<userRow, active, deviceRow, store, permits, accepting, del>>

-----------------------------------------------------------------------------
(* The main loop                                                             *)

(* EOF, read timeout, malformed or oversized frame, or the rejected AUTH. *)
Close(c) ==
  /\ conn[c].st \in {"ready", "told"}
  /\ Hangup(c)
  /\ UNCHANGED <<db, store, permits, accepting, del, acked>>

(* The client is gone; a handler in the middle of a frame does not notice.    *)
PeerLost(c) ==
  /\ conn[c].peer
  /\ conn' = [conn EXCEPT ![c].peer = FALSE]
  /\ UNCHANGED <<db, store, permits, accepting, del, acked>>

GetLastTs(c, p) ==
  LET ts == cursor[conn[c].dev][p] IN
  /\ At(c, "ready") /\ conn[c].peer
  /\ conn' = [conn EXCEPT ![c].bprov = p, ![c].from = IF ts = None THEN 0 ELSE ts]
  /\ UNCHANGED <<db, store, permits, accepting, del, acked>>

(* The client sends its events after `from`, up to hi (none when hi = from).  *)
SendBatch(c, hi) ==
  /\ At(c, "ready") /\ conn[c].peer
  /\ conn[c].from # None /\ conn[c].from <= hi
  /\ conn' = [conn EXCEPT ![c].st = "check", ![c].hi = hi]
  /\ UNCHANGED <<db, store, permits, accepting, del, acked>>

BatchUnchecked(c) ==   \* seeded fault: the account is checked at AUTH only
  /\ At(c, "check")
  /\ Goto(c, "ensure")
  /\ UNCHANGED <<db, store, permits, accepting, del, acked>>

(* The account is checked again for every batch. *)
BatchActive(c) ==
  /\ At(c, "check")
  /\ IF Known(c) THEN Goto(c, "ensure") ELSE Hangup(c)
  /\ UNCHANGED <<db, store, permits, accepting, del, acked>>

(* ensure_cursor for the batch's provider; without the device row the foreign *)
(* key fails and the connection ends.                                         *)
EnsureCursor(c) ==
  LET d == conn[c].dev IN
  /\ At(c, "ensure")
  /\ IF deviceRow[d]
     THEN /\ cursor' = EnsuredCursor(d, conn[c].bprov)
          /\ Goto(c, IF conn[c].hi = conn[c].from THEN "empty" ELSE "permit")
     ELSE Hangup(c) /\ UNCHANGED cursor
  /\ UNCHANGED <<userRow, active, deviceRow, store, permits, accepting, del, acked>>

(* handle_sync_batch without items answers the stored cursor. *)
AnswerEmpty(c) ==
  LET ts == cursor[conn[c].dev][conn[c].bprov] IN
  /\ At(c, "empty")
  /\ conn' = [conn EXCEPT ![c].st = "ack", ![c].ack = IF ts = None THEN 0 ELSE ts]
  /\ UNCHANGED <<db, store, permits, accepting, del, acked>>

TooLarge(c) == conn[c].hi - conn[c].from > MaxBatch

RefuseTooLarge(c) ==
  /\ At(c, "permit") /\ TooLarge(c)
  /\ Refuse(c)
  /\ UNCHANGED <<db, store, permits, accepting, del, acked>>

AcquirePermit(c) ==
  /\ At(c, "permit") /\ ~TooLarge(c)
  /\ permits > 0
  /\ permits' = permits - 1
  /\ Goto(c, "upsert")
  /\ UNCHANGED <<db, store, accepting, del, acked>>

(* upsert_events, then drop(permit). *)
UpsertEvents(c) ==
  LET d == conn[c].dev
      p == conn[c].bprov
  IN
  /\ At(c, "upsert")
  /\ store' = [store EXCEPT ![d][p] = @ \cup (conn[c].from + 1)..conn[c].hi]
  /\ permits' = permits + 1
  /\ Goto(c, "advance")
  /\ UNCHANGED <<db, accepting, del, acked>>

UpsertFailsLeak(c) ==   \* seeded fault: the error path keeps the permit
  /\ Faults /\ At(c, "upsert")
  /\ Refuse(c)
  /\ UNCHANGED <<db, store, permits, accepting, del, acked>>

UpsertFailsIgnored(c) ==   \* seeded fault: the error is only logged
  /\ Faults /\ At(c, "upsert")
  /\ permits' = permits + 1
  /\ Goto(c, "advance")
  /\ UNCHANGED <<db, store, accepting, del, acked>>

(* The write fails: the permit goes with the early return, SYNC_ERR follows.  *)
UpsertFails(c) ==
  /\ Faults /\ At(c, "upsert")
  /\ permits' = permits + 1
  /\ Refuse(c)
  /\ UNCHANGED <<db, store, accepting, del, acked>>

AdvancedNoMax(d, p, ts) ==   \* seeded fault: SET last_ts = ?
  IF cursor[d][p] = None THEN cursor ELSE [cursor EXCEPT ![d][p] = ts]

AdvancedInsert(d, p, ts) ==   \* seeded fault: an upsert instead of an update
  [cursor EXCEPT ![d][p] = IF @ = None THEN ts ELSE Max2(@, ts)]

(* UPDATE ... SET last_ts = MAX(last_ts, ?): no row, no effect, no error.     *)
Advanced(d, p, ts) ==
  IF cursor[d][p] = None THEN cursor ELSE [cursor EXCEPT ![d][p] = Max2(@, ts)]

AdvanceCursor(c) ==
  /\ At(c, "advance")
  /\ cursor' = Advanced(conn[c].dev, conn[c].bprov, conn[c].hi)
  /\ conn' = [conn EXCEPT ![c].st = "ack", ![c].ack = conn[c].hi]
  /\ UNCHANGED <<userRow, active, deviceRow, store, permits, accepting, del, acked>>

AdvanceFailsIgnored(c) ==   \* seeded fault: the batch is acknowledged all the same
  /\ Faults /\ At(c, "advance")
  /\ conn' = [conn EXCEPT ![c].st = "ack", ![c].ack = conn[c].hi]
  /\ UNCHANGED <<db, store, permits, accepting, del, acked>>

AdvanceFails(c) ==
  /\ Faults /\ At(c, "advance")
  /\ Refuse(c)
  /\ UNCHANGED <<db, store, permits, accepting, del, acked>>

(* Another call to the relational database fails, or the payload does not     *)
(* decode: inside handle_sync_batch that is a SYNC_ERR, elsewhere the         *)
(* connection ends.                                                           *)
HandlerFails(c) ==
  /\ Faults
  /\ conn[c].st \in {"auth", "register", "create", "first", "check", "ensure", "empty",
                     "wcheck"}
  /\ IF At(c, "empty") THEN Refuse(c) ELSE Hangup(c)
  /\ UNCHANGED <<db, store, permits, accepting, del, acked>>

(* SYNC_ACK reaches a client that still reads; the next batch starts there.   *)
SendAck(c) ==
  LET d == conn[c].dev
      p == conn[c].bprov
  IN
  /\ At(c, "ack")
  /\ IF conn[c].peer
     THEN /\ conn' = [conn EXCEPT ![c].st = "ready", ![c].from = conn[c].ack,
                                 ![c].hi = 0, ![c].ack = 0]
          /\ acked' = IF deviceRow[d]
                      THEN [acked EXCEPT ![d][p] = Max2(@, conn[c].ack)] ELSE acked
     ELSE Hangup(c) /\ UNCHANGED acked
  /\ UNCHANGED <<db, store, permits, accepting, del>>

-----------------------------------------------------------------------------
(* SYNC_WINDOWS, as far as it meets the batches: the account, the permit and  *)
(* the reply.                                                                 *)

SendWindows(c) ==
  /\ At(c, "ready") /\ conn[c].peer
  /\ Goto(c, "wcheck")
  /\ UNCHANGED <<db, store, permits, accepting, del, acked>>

(* The account is checked; an upload that is too large, of another schema, of *)
(* an ill-formed provider or too early for the rate limit is refused.         *)
WindowsActive(c) ==
  /\ At(c, "wcheck")
  /\ IF Known(c) THEN Goto(c, "wpermit") \/ Refuse(c) ELSE Hangup(c)
  /\ UNCHANGED <<db, store, permits, accepting, del, acked>>

AcquireWindowsPermit(c) ==
  /\ At(c, "wpermit")
  /\ permits > 0
  /\ permits' = permits - 1
  /\ Goto(c, "wupsert")
  /\ UNCHANGED <<db, store, accepting, del, acked>>

UpsertWindowsReplies(c) ==   \* seeded fault: the permit spans the response write
  /\ At(c, "wupsert") /\ conn[c].peer
  /\ permits' = permits + 1
  /\ Goto(c, "ready")
  /\ UNCHANGED <<db, store, accepting, del, acked>>

(* premerge_windows and upsert_windows: the block ends, and the permit with   *)
(* it, whatever the store answered; the answer only decides the reply.        *)
UpsertWindows(c) ==
  /\ At(c, "wupsert")
  /\ permits' = permits + 1
  /\ Goto(c, "wreply")
  /\ UNCHANGED <<db, store, accepting, del, acked>>

(* SYNC_ACK or SYNC_ERR, to a client that still reads. *)
SendWindowsReply(c) ==
  /\ At(c, "wreply")
  /\ IF conn[c].peer THEN Goto(c, "ready") ELSE Hangup(c)
  /\ UNCHANGED <<db, store, permits, accepting, del, acked>>

-----------------------------------------------------------------------------
(* The process                                                               *)

(* The shutdown signal stops accepting; handlers run on (drain). *)
Shutdown ==
  /\ accepting
  /\ accepting' = FALSE
  /\ UNCHANGED <<db, store, permits, conn, del, acked>>

(* The process ends, by a crash or after the drain (whose timeout aborts the  *)
(* handlers), and starts again; both databases persist.                       *)
Restart ==
  /\ accepting' = TRUE
  /\ permits' = MaxWrites
  /\ conn' = [c \in Conns |-> Closed]
  /\ del' = NoDeletion
  /\ UNCHANGED <<db, store, acked>>

(* The same, with an event store whose persisted version is incompatible:     *)
(* FjallStore!OpenCleared empties it, the cursors stay.                       *)
RestartCleared ==
  /\ accepting' = TRUE
  /\ permits' = MaxWrites
  /\ conn' = [c \in Conns |-> Closed]
  /\ del' = NoDeletion
  /\ store' = [d \in Devices |-> NoEvents]
  /\ UNCHANGED <<db, acked>>

-----------------------------------------------------------------------------
(* Deleting a device or an account                                           *)

(* admin_delete_device (of any id), me_delete_device (of one's own device) *)
DeleteDevice(d) ==
  /\ del.st = "idle"
  /\ del' = [st |-> "purge1", user |-> None, devs |-> {d}, todo |-> {d}]
  /\ UNCHANGED <<db, store, permits, accepting, conn, acked>>

(* admin_delete_user: the device ids are read once, before anything else.     *)
DeleteUser(u) ==
  /\ del.st = "idle" /\ userRow[u]
  /\ LET ds == {d \in Devices : deviceRow[d] /\ Owner[d] = u}
     IN  del' = [st |-> "deactivate", user |-> u, devs |-> ds, todo |-> ds]
  /\ UNCHANGED <<db, store, permits, accepting, conn, acked>>

(* An error of set_user_active is ignored. *)
DeleteDeactivate ==
  /\ del.st = "deactivate"
  /\ \/ active' = [active EXCEPT ![del.user] = FALSE]
     \/ Faults /\ UNCHANGED active
  /\ del' = [del EXCEPT !.st = "purge1"]
  /\ UNCHANGED <<userRow, deviceRow, cursor, store, permits, accepting, conn, acked>>

(* One delete_device_events call; its error is only logged. *)
DeletePurge(d) ==
  /\ del.st \in {"purge1", "purge2"} /\ d \in del.todo
  /\ \/ store' = [store EXCEPT ![d] = NoEvents]
     \/ Faults /\ UNCHANGED store
  /\ del' = [del EXCEPT !.todo = @ \ {d}]
  /\ UNCHANGED <<db, permits, accepting, conn, acked>>

DeletePurged ==
  /\ del.st \in {"purge1", "purge2"} /\ del.todo = {}
  /\ del' = IF del.st = "purge1" THEN [del EXCEPT !.st = "row"] ELSE NoDeletion
  /\ UNCHANGED <<db, store, permits, accepting, conn, acked>>

Found == IF del.user = None THEN \E d \in del.devs : deviceRow[d] ELSE userRow[del.user]

(* The DELETE cascades from users to devices to cursors; the handler ends     *)
(* with "not found" when there was no row.                                    *)
DeleteRows ==
  LET gone == IF del.user = None THEN del.devs
              ELSE {d \in Devices : Owner[d] = del.user}
  IN
  /\ del.st = "row"
  /\ userRow' = [u \in Users |-> userRow[u] /\ u # del.user]
  /\ active' = [u \in Users |-> active[u] /\ u # del.user]
  /\ deviceRow' = [d \in Devices |-> deviceRow[d] /\ d \notin gone]
  /\ cursor' = [d \in Devices |-> IF d \in gone THEN NoCursors ELSE cursor[d]]
  /\ acked' = [d \in Devices |-> IF d \in gone THEN NoAcks ELSE acked[d]]
  /\ del' = IF Found THEN [del EXCEPT !.st = "purge2", !.todo = del.devs] ELSE NoDeletion
  /\ UNCHANGED <<store, permits, accepting, conn>>

(* The DELETE fails: the handler answers an error, after the first purge.     *)
DeleteRowsFail ==
  /\ Faults /\ del.st = "row"
  /\ del' = NoDeletion
  /\ UNCHANGED <<db, store, permits, accepting, conn, acked>>

(* admin_set_user_active *)
SetUserActive(u, b) ==
  /\ userRow[u] /\ active[u] # b
  /\ active' = [active EXCEPT ![u] = b]
  /\ UNCHANGED <<userRow, deviceRow, cursor, store, permits, accepting, conn, del, acked>>

-----------------------------------------------------------------------------
(* Specifications                                                            *)

(* What the server does by itself once a frame was read. *)
Handler(c) ==
  \/ AuthActive(c) \/ FindDevice(c) \/ CreateDevice(c) \/ EnsureFirst(c)
  \/ SchemaPurge(c) \/ SchemaReset(c)
  \/ BatchActive(c) \/ EnsureCursor(c) \/ AnswerEmpty(c) \/ RefuseTooLarge(c)
  \/ UpsertEvents(c) \/ UpsertFails(c) \/ AdvanceCursor(c) \/ AdvanceFails(c)
  \/ WindowsActive(c) \/ UpsertWindows(c)
  \/ HandlerFails(c)

(* Waiting for batch_semaphore. *)
Acquire(c) == AcquirePermit(c) \/ AcquireWindowsPermit(c)

Client(c) ==
  \/ \E p \in Providers : GetLastTs(c, p)
  \/ \E hi \in 0..MaxTs : SendBatch(c, hi)
  \/ SendWindows(c)
  \/ Close(c) \/ PeerLost(c) \/ SendAck(c) \/ SendWindowsReply(c)

Connect(c, stale) == \E d \in Devices, p \in Providers : Accept(c, d, p, stale)

(* Uploading: any number of connections per device, failing calls.            *)
Uploading ==
  \/ \E c \in Conns : Connect(c, FALSE) \/ Client(c) \/ Handler(c) \/ Acquire(c)
  \/ \E u \in Users, b \in BOOLEAN : SetUserActive(u, b)

Deleting ==
  \/ \E d \in Devices : DeleteDevice(d) \/ DeletePurge(d)
  \/ \E u \in Users : DeleteUser(u)
  \/ DeleteDeactivate \/ DeletePurged \/ DeleteRows \/ DeleteRowsFail

Resetting == \E c \in Conns : Connect(c, TRUE)

IngestNext == Uploading \/ Shutdown \/ Restart
Next       == IngestNext \/ RestartCleared \/ Deleting \/ Resetting

IngestSpec  == Init /\ [][IngestNext]_vars
Spec        == Init /\ [][Next]_vars

(* The runtime polls every ready task, and tokio's semaphore serves waiters   *)
(* in order; nothing obliges a client to read, to send or to stay.            *)
Fairness ==
  \A c \in Conns : WF_vars(Handler(c)) /\ SF_vars(Acquire(c))

FairIngest == IngestSpec /\ Fairness

(* Narrower behaviours, to show a single cause: no reset but the schema's.    *)
ResetSpec == Init /\ [][Uploading \/ Resetting]_vars

-----------------------------------------------------------------------------
(* Properties of uploading (IngestSpec)                                      *)

(* A cursor never covers an event the store does not hold: whatever client   *)
(* connections interleave, fail or are cut off by a restart, an event below  *)
(* LAST_TS, which no client uploads again, is stored.                        *)
CursorCovered ==
  \A d \in Devices, p \in Providers :
    cursor[d][p] # None => 1..cursor[d][p] \subseteq store[d][p]

(* A SYNC_ACK is never ahead of the durable cursor: after a restart the      *)
(* server does not know less than what it acknowledged.                      *)
AckDurable ==
  \A d \in Devices, p \in Providers :
    acked[d][p] > 0 => cursor[d][p] # None /\ acked[d][p] <= cursor[d][p]

(* A cursor row, once made, stays and never moves back.                      *)
CursorMonotone ==
  [][\A d \in Devices, p \in Providers : cursor[d][p] # None =>
       cursor'[d][p] # None /\ cursor'[d][p] >= cursor[d][p]]_vars

-----------------------------------------------------------------------------
(* Properties of the whole server (Spec, FairIngest)                           *)

(* Every permit of batch_semaphore is free or held by exactly one batch or   *)
(* windows upload in its store write: no error path, lost client, waiting    *)
(* reply or aborted handler keeps one.                                       *)
PermitsConserved == permits + Cardinality(Holders) = MaxWrites

(* Cursors belong to registered devices: a batch that outlives its device's  *)
(* deletion cannot bring a cursor back.                                      *)
CursorNeedsDevice ==
  \A d \in Devices, p \in Providers : cursor[d][p] # None => deviceRow[d] /\ userRow[Owner[d]]

InBatch(c)   == conn[c].st \in {"check", "ensure", "empty", "permit", "upsert", "advance"}

InWindows(c) == conn[c].st \in {"wcheck", "wpermit", "wupsert"}

(* Every batch or windows upload that was read comes to its reply or its     *)
(* connection ends, even when other clients stop reading their replies: the  *)
(* two kinds of upload compete for the permits, and no permit is held over   *)
(* the write of a reply.                                                     *)
BatchAnswered ==
  \A c \in Conns : InBatch(c) \/ InWindows(c) ~> ~InBatch(c) /\ ~InWindows(c)

Writing(u) == \E c \in Conns : /\ Owner[conn[c].dev] = u
                               /\ conn[c].st \in {"permit", "upsert", "advance",
                                                   "wpermit", "wupsert"}

(* A deactivated account's sessions stop writing: after the last batch or    *)
(* windows upload that was already past its check there is no other.         *)
DeactivationStopsWrites ==
  \A u \in Users : <>[](~active[u]) => <>[](~Writing(u))

-----------------------------------------------------------------------------
(* What the repository says of this code                                     *)

(* handler.rs, schema version guard: "Reset server cursor so client re-syncs *)
(* all data": when AUTH_ERR asks for the re-sync no cursor hides an event.   *)
ResetResyncsAll ==
  \A c \in Conns : At(c, "told") =>
    \A p \in Providers : cursor[conn[c].dev][p] \in {None, 0}
=============================================================================
