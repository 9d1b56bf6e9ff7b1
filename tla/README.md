# toki-sync: TLA+ models, model checks and proofs

toki-sync collects usage events from many devices. A device connects over TCP, authenticates, asks
for its cursor (`LAST_TS`) and uploads events in batches; the server stores them in an event store
(embedded fjall, or ClickHouse), advances the cursor in a relational database (SQLite or PostgreSQL)
and acknowledges. HTTP handlers serve queries, log users in, administer accounts and keep the
settings of a monitor app. This directory models the parts of it whose correctness depends on the
order in which concurrent steps, failures and restarts happen.

## Inventory

| Part (source) | State | Operations | What is hard | What makes it correct |
|---|---|---|---|---|
| Embedded event store (`events/fjall_store.rs`) | keyspaces `events`, `idx_msg`, `idx_user`, `sessions`, `windows`, `meta`; `mutation_lock` | `open` (version guard, backfill), `upsert_events`, `cleanup_old_dedup`, `delete_device_events`, window operations, queries | reads of committed indexes followed by a dependent commit; crash in the backfill; four hand-kept indexes | one row per message, the newest version; every copy, session and pointer belongs to a row |
| Sync server (`server/tcp.rs`, `sync/handler.rs`) | connections, `batch_semaphore`, shutdown flag | accept, AUTH, `GET_LAST_TS`, `SYNC_BATCH`, `SYNC_WINDOWS`, PING, drain | several connections of one device, clients that vanish, failing databases, restarts | a cursor covers only stored events; an acknowledgement survives; permits never leak |
| Cursors, devices, users (`db/sqlite.rs`, `db/postgres.rs`) | rows with cascades | `ensure_cursor`, `advance_cursor`, `reset_cursor`, CRUD | two databases without a common transaction | cursors are monotone and belong to a device |
| Deletion (`handlers/admin.rs`, `handlers/me.rs`) | a sequence of purges and row deletions | delete device, delete account, deactivate | live sessions race it, each step may fail | nothing of a deleted account is left |
| Active cache (`server/http.rs`) | map with TTL, generation | cached check, eviction | a check racing a deactivation | no trusted entry contradicts the database |
| Monitor settings (`handlers/monitor.rs`, both backends) | versioned entries per account, quota, write limiter | index, list, get, put, delete (compare-and-swap) | several clients, lost replies, check-then-write | quota holds; a matching version has been seen |
| Windows (`sync/handler.rs`, `events/mod.rs`, both stores) | merged observation per window, limiters; ClickHouse: `windows_locks`, tables of the migration | sanitise, pre-merge, merge on upsert, clean-up, purge; ClickHouse start-up and migration | arrival order, clock skew, a crash or a lost reply in the migration | the merge does not depend on the order; an acknowledged window is stored; no history is lost |
| Login and tokens (`handlers/auth.rs`, `auth/*`) | refresh tokens, device codes, lockouts | login, rotate, device grant, password change, revoke | double rotation, double poll, racing approvals, guesses in flight | a token is used once; a revocation reaches every session; guesses are bounded |
| OIDC login (`handlers/auth.rs`, `auth/oidc.rs`, `server/http.rs`) | state store, discovery cache, issuer setting | authorise, callback, settings change | replayed redirects, a fetch racing a settings change | a state is used once; the discovery is the issuer's |
| Administration (`handlers/admin.rs`, `handlers/teams.rs`) | accounts, registrations, roles, teams, dynamic settings | create, promote, deactivate, delete, register, approve, reject, membership | check-then-act on the last administrator and on rows others delete | an active administrator stays; who was rejected stays out; members exist |
| Metrics (`handlers/metrics.rs`, `pricing.rs`) | none of their own | parse, resolve the scope, select, bucket, aggregate | rights that change while they are read; calendars, ends of ranges, caps | a query is run as written or refused; nothing foreign is shown; buckets add up |
| Framing, configuration | none of their own | decoding, wiring | none concurrent | not modelled (see below) |

The parts interact through the two databases only, plus the in-memory caches, guard and semaphore: a
`SYNC_BATCH` goes through the active cache, the cursor table, the semaphore, the event store and the
cursor table again, and administrators change all of these meanwhile. `PROJECT.json` lists the
hazards at their lines with the properties that watch them, or why none does.

## Modules

| Module | What it models |
|---|---|
| `EventStore` | the contract: a map from (device, provider, message) to its newest version |
| `FjallStore` | the four event keyspaces, the lock, `open`, upsert, pruning, purge, crash, failed commit; implements `EventStore` (`ImplementsEventStore`) |
| `SyncServer` | connections, cursors, the permits batches and windows uploads compete for, schema reset, deletion, deactivation, restart |
| `ActiveCache` | the cached active check against administrators |
| `MonitorSettings` | the settings transactions of one account |
| `BruteForce`, `Sessions` | the guard against guessing; login, rotation, device codes and revocations that use it |
| `ClickHouseTables`, `Windows` | the windows table and its start-up; `SYNC_WINDOWS`, merging and storing on both stores |
| `Accounts`, `OidcLogin` | administration, registrations and teams; OIDC logins over the same users table |
| `QueryParser`, `Queries` | the query language; the query handler that uses it |
| `FjallStoreProofs`, `SyncServerProofs`, `ActiveCacheProofs`, `MonitorSettingsProofs`, `SessionsProofs`, `WindowsProofs`, `OidcLoginProofs` (with `Accounts`), `QueriesProofs` | TLAPS proofs |
| `MC*` | instances for TLC |

How state and actions correspond to the code is in `PROJECT.json` (`map`), definition by definition.
The choices behind them:

* **Granularity.** A step is what happens between two awaits that touch shared state. In
  `FjallStore` the read of the committed indexes and the commit of the batch built from it are two
  steps (`UpsertRead`/`UpsertCommit`, `CleanupRead`/`CleanupCommit`, `DeleteRead`/`DeleteCommit`),
  although the lock is held: what the lock is for can then go wrong. `MonitorSettings`, `Sessions`
  and `Accounts` split transactions into their statements for the same reason. In `SyncServer` the
  phases of `handle_connection` are the `st` of a connection record; in `Sessions`, `Accounts` and
  `OidcLogin` a handler is a record too, and its `st` names the call it makes next. A request that
  is refused without a change has no action.
* **Two databases.** `backend` is chosen in `Init` of `Sessions` and `Accounts`. On SQLite a
  transaction that has read cannot write once another commit has overtaken its snapshot
  (`overtaken`, `CanCommit`); on PostgreSQL, at its default isolation and without `FOR UPDATE`, it
  can, and only unique keys stop it. Windows have the same choice between the two event stores.
* **Data.** Events are timestamps (`SyncServer`), a message, a timestamp, a user, a value and an
  optional session (`FjallStore`), or the fields the aggregation reads (`Queries`). The stored row
  does not hold the session string: the code keeps it in a keyspace of its own, and so does the
  model. Payloads of settings are sizes. A refresh token is its row, a password a number, a window
  row one field of each kind of merge, a query text a sequence of tokens.
* **Parsing.** `QueryParser` follows the cursor through the text, with its look-aheads; `InLanguage`
  is an independent description of what is accepted: a text has a `Reading` if positions exist at
  which its parts begin. It bounds neither the text nor its lists.
* **Windows.** `premerge_windows` is a recursive function over the items; `Joins(w, oldest)` says what
  a merged window is in terms of the observations it is `of`. The ClickHouse clean-up and purge take
  no lock, as in the code; those of fjall wait for the mutation lock.
* **Registrations.** `rejected` and `admitted` are the fate of a name's *last* registration: who was
  rejected may register again and be approved.
* **Clients** are external. A sync client asks for the cursor and uploads what follows it, as
  `docs/DESIGN.md` describes; it may vanish at any time. A settings client remembers the version it
  last saw and may or may not send it as `if_version`. OIDC providers answer or fail, and redirect
  as often as they like.
* **Failures.** With `Faults` every call to a database in `SyncServer` may fail; `Restart` drops all
  tasks and keeps both databases, `RestartCleared` is a restart whose `open` clears the event store.
  `FjallStore!Crash` loses uncommitted batches and the lock. `MonitorSettings!Abort` drops a
  transaction at any statement; a reply of `Write` may be lost. In `Sessions` a call whose error the
  handler reports may fail at any point (`CallFails`), and those whose error it ignores may fail
  silently. A ClickHouse statement may fail, or be carried out and lose its reply (`Statement`), and
  the process may end between any two. `FjallUpsert` may store a part of a batch.
* **Composition.** `SyncServer` uses `upsert_events` and `delete_device_events` as atomic steps on a
  set of events: `FjallStore` refines `EventStore`, which justifies it. It checks an account in one
  step: `ActiveCache` shows that a cached check is as good as a read of the flag. `RestartCleared`
  is `FjallStore!OpenCleared` seen from the server. A `SYNC_WINDOWS` upload appears twice: `SyncServer`
  follows its check, its permit of the shared `batch_semaphore` and its reply, `Windows` what it stores.
  `Sessions` extends `BruteForce`, `Windows`
  extends `ClickHouseTables` (uploads start when start-up is done and die with the process),
  `OidcLogin` extends `Accounts` (one users table, one bound on requests), `Queries` extends
  `QueryParser`.
* **History variables.** No guard of the code reads them, some bound the behaviours. `SyncServer`:
  `acked`. `FjallStore`: `pruned`, `newest`. `ActiveCache`: `missed`. `MonitorSettings`: `known`,
  `deleted`, `puts`, the `edit` of a row. `Sessions`: `revocations`, `asked`, `delivered`,
  `excused`, `requests`, and of a token its parent, code and beginning. `ClickHouseTables`:
  `inherited`, `lost`, `starts`. `Windows`: `acked`, `outrun`, `uploads`, and the `of` of a row (the
  observations merged into it). `Accounts`: `used`, `rejected`, `admitted`, `demoted`, `raced`,
  `requests`. `OidcLogin`: `stale`, `logins`, `codeOf`. `Queries`: `saw`, `changes`.
* Definitions commented *seeded fault* are plausible bugs. Each is put in the place of the
  definition it stands before to show that a property notices it (`mutants` in `PROJECT.json`).

## Runs

| Run | Result | Instance and what it shows |
|---|---|---|
| `store_timely` | pass | 2 workers, 2 messages, 2 users, 2 timestamps, sessions, batches of 2, retention 0: the store refines `EventStore`, one row per key, the newest version is kept, copies and sessions mirror rows |
| `store_any` | pass | 2 devices, any replay, even of a message whose pointer was pruned: every row has its copy, a pointer names a row |
| `sync_ingest` | pass | 2 connections of one device, 1 permit, 2 events, batches of 1, windows uploads, failing calls, restarts, deactivation; safety and liveness of uploading |
| `sync_full` | pass | the same with schema resets, deletions and restarts that clear the store: permits conserved, cursors only with devices |
| `sync_reset` | violation | a schema reset purges all providers and resets one cursor |
| `cache` | pass | 2 checks, 2 administrators, 3 evictions, expiry, dropped requests: no stale entry, and what a dropped request left heals |
| `monitor` | pass | 2 clients, 2 keys, 2 writes at the quota, conditional and blind |
| `sessions` | pass | 1 account, 1 device code, 2 handlers, 3 requests of any kind, both databases, failing calls, a clock of 3 ticks with 2 attempts per tick and lockouts of 3: one successor per refresh token, revocations that reach every session, one live token per code, one delivery, bounded guesses, lockouts that hold |
| `windows` | pass | 2 devices, 2 windows (one that expires, one beyond the horizon at first), 3 uploads of up to 3 items where 2 are allowed, 3 starts of the process, either store, with or without an old table, rows of a future version and corrupt ones: acknowledged windows are stored, the merge is a join, history survives, the migrated table is usable |
| `accounts` | pass | the built-in administrator, a linked account, an applicant, a team, 2 issuers, 2 handlers and 2 OIDC flows, 3 requests of any kind, both databases |
| `accounts_first` | violation | the first OIDC login of a person: the database refuses the statement that creates the account |
| `queries` | pass | every single-token edit of sample texts, accepted exactly when they have a reading; bounds in seconds, milliseconds and dates; steps in calendar and plain units; three calendars; memberships, roles and the scope setting changing twice during a query |

A violation run states what a comment or a document of the repository says; `findings` quotes it.

**Exceptions inside properties.** Some properties name a case they leave out, because the code goes
wrong there. Each was seen as a counterexample without its exception:

* `RotatedOnce`, `RevocationReaches` and `RejectedStaysOut` are stated of SQLite. On PostgreSQL
  `rotate_refresh_token` (`postgres.rs:1047`) selects without `FOR UPDATE`: two requests with one
  token both get a successor, although `docs/API.md:118` promises "one-time-use rotation", and a
  successor can be stored after a revocation. `approve_registration`
  (`postgres.rs:851`) and a rejection can both report success.
* `NoOrphanToken` and `DeliveredOnce` excuse failed calls: an approval whose code update fails keeps
  its stored token, and an error of `delete_device_code` is ignored (`auth.rs:678`), so the next poll gets
  the tokens again; so do two polls side by side for longer than the poll interval.
* `LockoutHolds` allows handlers let in before the lockout to end it. A late failure does so
  (`brute_force.rs:73`): once the window has passed it starts a new entry without the lockout.
* `AckStored` leaves out rows that are `outrun`. ClickHouse keeps the row of the largest
  `updated_at`, called a "monotonic write clock" (`clickhouse.rs:103`) though it is the wall clock;
  a migrated row carries `observed_ts`, which may be 60 s ahead, and hides what is written meanwhile.
* `ReadyUsable` leaves out a lost reply to `EXCHANGE TABLES` (`clickhouse.rs:183`): it is taken for
  "not supported", the fallback swaps the old table back, and uploads fail until the next start.
* `AdminRemains` leaves out role changes, which check nothing, and an administrator deactivated
  after being authorised: the count of the others (`admin.rs:487`) and the deactivation are separate
  statements, so two can deactivate each other.
* `NoStaleEntry` leaves out a dropped request and deleted accounts: the failure of `set_user_active`
  during a deletion is ignored. `StaleHeals` covers both, by the TTL.
* `DiscoveryFollowsIssuer` leaves out a fetch under way while the setting changes (`http.rs:139`).
* `Conserved` leaves out calendars with a day of 25 hours: the overlap check (`metrics.rs:659`) uses
  the nominal step and drops the last hour of such a day at the start of a range.
* `BucketsBounded` allows the cap and two more, and is tight there; the comment in `metrics.rs` says
  "Cap at 2000 buckets".
* `TimelySpec` (`OneRowPerKey`, `ImplementsEventStore`) leaves out messages that come back after
  their pointer was pruned; the code accepts this for messages older than the retention, but
  `cleanup_old_dedup` (`fjall_store.rs:672`, called at `handler.rs:813`) prunes a device's pointers of
  all providers by the batch of one, and a correction of a provider that lags becomes a second row.
* `VersionNamesEdit` speaks of entries that live: a deleted and recreated setting restarts its
  version (`sqlite.rs:1468`), so an old `if_version` matches it, whatever `models.rs:159` says.

**Further observations**, with no run of their own:

* `open` clears an incompatible event store and the cursors stay (`fjall_store.rs:252`): clients go
  on after the timestamp they are told, though `docs/DESIGN.md:151` "relies on client re-sync".
* A batch of a deleted account may land after the second purge (`admin.rs:135`).
* A failed `set_user_active` during a deletion is ignored (`admin.rs:111`), and a deleted account may
  stay trusted until its cache entry expires; a failed look-up (`admin.rs:93`) bypasses the
  protection of the built-in account.
* A login verified against the old password stores its token after the revocation (`auth.rs:146`),
  and `me_change_password` may overwrite a reset made by an administrator meanwhile.
* A device code approved and never polled expires and leaves a live token nobody holds.
* `delete_user_windows` of ClickHouse takes no lock (`clickhouse.rs:660`): an upload in flight may
  write after it.
* `active_ms` of merged windows depends on the order of arrival; `MergeIsJoin` only bounds it.
* Aggregated answers do not carry `events_truncated`, which `metrics.rs:269-283` says is flagged.
* The grammar comment of `metrics.rs` and the parser differ: trailing commas are accepted, both
  by-clauses at a time and several dimensions are refused. An instant query is cut at multiples of
  its range and may give two buckets where the documents say a single result.
* A query for a team without members makes `IN ()` on ClickHouse, an error.
* `docs/DESIGN.md:94` says a batch is acknowledged with the cursor; `handle_sync_batch`
  (`sync/handler.rs:825`) answers the largest timestamp of the batch, which is lower when another
  connection was faster: harmless for a client that only goes forward.
* `upsert_one` (`fjall_store.rs:382-386`) falls back to the incoming user when the predecessor's row
  cannot be decoded, and would then leave the old owner's copy; such a row needs a pointer whose row
  is unreadable, which the modelled operations do not produce (`PointerNamesRow`).

**Bounds.** Two actors are enough for the races the code guards against, as each guard (lock,
generation, `MAX`, conditional insert, snapshot) protects one actor from one other; two timestamps
give older, equal and newer; one permit makes waiting happen, and retention 0 makes pruning happen at
the first newer batch. `MaxBatch = 1` in `sync_ingest` makes oversized batches happen. `MaxGen`,
`MaxPuts`, `MaxRequests`, `MaxTokens`, `MaxUploads`, `MaxStarts` and `MaxTime` bound counters. Three
requests are two that race and one that prepares them; three starts are a migration interrupted twice.
In `sessions` the lockout outlives the window, so both ends happen within the clock. In
`queries` a second is 3 units, a day 2 seconds and a week 2 days: every bound can be off the second,
the day and the week, and a calendar has days one second too long or too short. `MaxBuckets`,
`MaxEvents`, `MaxEntries` and `MaxSum` stand for the caps of the code and are small enough to be
reached. The proofs remove the bounds where they apply. Users, messages, workers, connections or
handlers are symmetric in runs that check no liveness.

**Fairness.** `FairIngest`: weak fairness of the handler's own steps (the runtime polls ready tasks,
and database calls return) and strong fairness of taking a permit (tokio's semaphore is fair). No
fairness of clients, failures or restarts. `ActiveCache!FairSpec`: time passes, so an entry expires.
`MonitorSettings!FairSpec`: statements return, and the lock is granted in turn. The other modules
state safety only.

**Deadlock** is checked in the runs of the store, the sync server, the cache and the settings. The
others end by design: when their requests, uploads or starts are used up, or the query is answered.

## Proofs

| Theorem | Says |
|---|---|
| `FjallTypes`, `MutationsExclusive` | `Spec => []TypeOK`, `[]ReadsStillCurrent` |
| `UserQueriesComplete`, `PointersNameRows`, `SessionsFollow`, `NewestWins` | `Spec => []EveryRowIndexed`, `[]PointerNamesRow`, `[]SessionsFollowRows`, `[]NewestStored` |
| `NoDoubleCounting`, `CopiesMirrorRows`, `StoreImplementsContract` | `TimelySpec => []OneRowPerKey`, `[]IndexMirrorsEvents`, `ImplementsEventStore` |
| `SyncTypeCorrect`, `PermitsNeverLeak`, `CursorsBelongToDevices` | `Spec => []TypeOK`, `[]PermitsConserved`, `[]CursorNeedsDevice` |
| `CursorsCoverStoredEvents`, `AcksAreDurable`, `CursorsAreMonotone` | `IngestSpec => []CursorCovered`, `[]AckDurable`, `CursorMonotone` |
| `CacheTypeCorrect`, `CacheNeverStale` | `Spec => []TypeOK`, `[]NoStaleEntry` |
| `MonitorTypeCorrect`, `WritesDecideOnCurrent`, `ConflictsAreReal`, `VersionsNameEdits`, `QuotaIsKept` | `Spec => []TypeOK`, `[]DecidedOnCurrent`, `[]ConflictIsReal`, `[]VersionNamesEdit`, `[]QuotaHolds` |
| `SessionTypes`, `RefreshIsOneTime`, `RevocationIsComplete` | `Spec => []TypeOK`, `[]RotatedOnce`, `[]RevocationReaches` |
| `OneApprovalWins`, `CodeIsOneTime` | `Spec => []NoOrphanToken`, `[]DeliveredOnce` |
| `GuessesStayBounded`, `LockoutsHold` | if `Lockout > Window`, `Spec => []GuessesBounded`; `Spec => LockoutHolds` |
| `WindowsAreKept`, `MergesAreJoins`, `HistorySurvives`, `TableIsUsable` | `Spec => []AckStored`, `[]MergeIsJoin`, `[]HistoryKept`, `[]ReadyUsable` |
| `MembersAlwaysExist`, `RejectionIsFinal`, `AnAdminRemains` | `Spec => []MembersExist`, `[]RejectedStaysOut`, `[]AdminRemains` |
| `DiscoveryCurrent`, `StatesAreSingleUse` | `Spec => []DiscoveryFollowsIssuer`, `[]StateUsedOnce` |
| `ScopesHold`, `ParserExact` | `Spec => []ScopeHolds`, `[]ParserMatchesGrammar` |
| `BucketsConserve` | `Spec => []Conserved` |
| `StepBoundsBuckets` | if every zone is `NearlyNominal`, `Spec => []BucketsBounded` |

They hold for every value of the constants under the named assumptions of the modules: sets of the
right kind, finite where something is counted, non-empty where a default record needs a member,
`None` different from everything else; the handlers' share of `GuardKeys`; rows an earlier build
left that are merges themselves (`WindowsAssumption`); a scope setting that is one of the three
values `admin_update_setting` accepts (`QueriesAssumption`). `CasesAssumption` says what a case of
`Queries` is: a request of texts, bounds and steps of any kind, the part of the zone's calendar that
the request reaches, days in order, and events with natural numbers. `NearlyNominal` is a hypothesis
of `StepBoundsBuckets` alone: from any day to any other the days fall short of 24 hours each by less
than one day together. It is meant to exclude only zones that once skipped a whole date (Samoa in
December 2011), for ranges that reach it: for these the bound is not claimed. TLC evaluates the
assumptions on the instance.

**No induction.** The provers cannot instantiate an induction theorem with a predicate. Where an
argument is an induction over numbers (the last of the largest timestamps in a batch, the merge of a
batch item by item, sums over sets) the proof takes a least counterexample instead (`LeastNat`, from
the well-foundedness of `<` on the naturals), and a function defined by recursion is first shown to
exist in the same way. The parser needs no induction over texts: its grammar is stated by positions,
so the steps of the cursor are the induction.

**The inductive invariants**, and why each is needed:

* *Event store.* Only the lock's holder has a mutation under way (`Quiet`), and what it read under the
  lock is still true when it commits (`ReadsStillCurrent`); so a commit can be argued as one step. The
  backfill's marker vouches for every row, a running backfill for what it scanned (`Backfilled`). That
  the newest version is stored needs a bound that some row attains (`NewestBound`). One row per key
  and the mirror of the account's index need the pointer of every message an upsert is about to write
  not to be pruned (`UpsertsFresh`), which is what `TimelySpec` says of clients. The refinement maps a
  commit to `EventStore`'s upsert of the winners of the batch, and the other steps to stutters.
* *Permits.* `TypeInv` carries `PermitsConserved` along with the types, because `permits` stays in
  its range only if the connections in their store write account for the rest: those of batches and
  those of windows uploads (`HolderStates`), which end the block that holds the permit on every path.
* *Coverage.* `CursorCovered` is not inductive: a connection that stored its batch and has not yet
  advanced the cursor must already be covered. `UploadInv` adds that a client's `from` is covered by
  stored events, that the batch of a connection about to advance is stored, and that a reply not yet
  sent is no further than the cursor. It needs that nothing is purged, hence `IngestSpec`; a schema
  reset, a deletion or a cleared store lose the property.
* *Cursors and devices.* `RowsInv` is the foreign key as an invariant; the interesting step is the
  advance of a batch whose device is gone, an `UPDATE` of no row.
* *Cache.* The strengthening says of a check that noted the current generation and has read: the
  value is the flag's, or an administrator is about to evict.
* *Settings.* Only the lock's holder is inside a transaction (`Exclusive`), so what it read is still
  stored; a version only grows while its entry lives (`SeenIsOlder`). For the quota, whoever is about
  to write still has the room it was found to have (`QuotaInv`); the bytes are a fold over a set, so
  the proof shows first that such a sum exists, is a number, and may be begun with any element.
* *Tokens.* On SQLite a rotation that has read its token and was not overtaken still finds it live
  (`SnapLive`): any commit in between overtakes it. A rotated token is dead (`ParentDead`). From both,
  one successor per token and a revocation that reaches all.
* *Device codes.* A live token whose approval has ended took the code, so that nobody else is given it
  (`ApprovedTaken`). Polls of one code that are under way were let in at different times, none later
  than the tracker says (`PollsApart`).
* *Guard.* A lockout ends no earlier than `first + Lockout` (`LocksFollow`). `GuessesStayBounded` needs a
  lockout longer than the window, as in the defaults of the configuration (900 and 300 seconds);
  nothing in the code enforces it. With a shorter one an entry whose lockout has ended still counts,
  every further failure locks it again, and failures may add up beyond the limit within a window.
* *Windows.* Merging is a join of observations (`Joins`), so the order does not matter. Whoever inserts
  holds the account's lock, and what it read is still there except what is past retention
  (`Locked`). Every statement of the start-up leaves the rows of the tables that count unchanged
  (`Served`): at every stage the tables are there that the stage relies on (`Present`), the column is
  (`ColumnThere`), and a copy that is about to replace the original is complete (`CopyComplete`).
  `NothingLost` combines them.
* *Accounts.* A pending registration has no fate yet (`FateOpen`), and a SQLite approval that may still
  commit sees the row that is pending (`SnapshotCurrent`). Without the reading of `rejected` as the
  last registration's fate `RejectedStaysOut` is false: the proof failed at a name that registers
  again.
* *OIDC.* A state is in the store, with one callback, or used, and never two of these
  (`StateConsumed`). A document being fetched is the configured issuer's unless the setting changed
  since (`FetchCurrent`).
* *Queries.* How far the checks of a team's scope have come says what was true at some point since
  the request came (`ChecksPassed`), and nothing takes that back.
* *Totals.* `RequestInv` says that an answer with rows, if it left none out, is `Rows`: one row per key
  of the events kept. That the rows then add up is a fact about sums, proved for any grouping
  (`RowsAddUp`): `SumFunction` over a finite set exists, is a number, may be begun with any element,
  and a sum by groups is the sum.
* *Buckets.* The step was checked against the range before anything is read (`StepAccepted`, an
  invariant of the request's way). Without daily steps every bucket begins at a multiple of the step
  (`BucketBegins`), and few multiples fit a range the step was accepted for (`MultiplesFit`). With
  daily steps every bucket begins with the first day of a run of calendar days, and the days the range
  touches are numbered without gaps; there days may be shorter than 24 hours, which is where
  `NearlyNominal` is needed. `FewBuckets` combines the cases; the two extra buckets are the partial
  ones at the ends of the range.
* *Parser.* Two invariants, one per direction. `ParserInv`: what the cursor has read is the beginning
  of a reading, in every state of the parser, with the labels, the provider and the flags that
  beginning names; at "ok" the beginning is the text. The words of the text are then those of its
  parts (`OkWords`), so that the provider, the dimension and the raw form are what the text names.
  `Track`: for every reading of the text the cursor stands where that reading says, has not refused,
  and knows of labels and provider what the reading allows; a refused text therefore has no reading.
  The look-aheads are where this is needed. The first one takes a word followed by `by` and labels
  for the head of a wrapper: of `sum by (model) (usage)` it is, of `usage by (model)`, where the word
  is a metric and the clause the trailing one, it is not, and the cursor goes back because no `(`
  follows (`WrapperTracks`, `WrapperByTracks`).

Types are an invariant of no run: the theorems, or the invariants they rest on, show them for every
module, in `Queries` for the parser's cursor and, by `RequestInv`, for what the sums and the buckets
are made of.

**Only model-checked**: liveness (`BatchAnswered`, `DeactivationStopsWrites`, `StaleHeals`,
`RequestAnswered`), which is out of the proof system's reach. Every other property of a run is a
theorem.

## Not modelled

* Framing decodes bytes; a malformed frame ends the connection (`SyncServer!Close`). PING changes
  nothing.
* Configuration is parsed once, and start-up wires tasks; `Restart` stands for it, and the periodic
  clean-ups are actions of the modules they clean.
* Password hashing, token signatures, and the signature, key and claims checks of OIDC are library
  code: a guess is right or wrong, a token is known or not, a provider's answer holds or fails.
* The limiter of settings writes per minute counts like the one of windows and guards no state.
* The download of the price list and the layout of JSON answers. Prices are an input of `Queries`.
* The SQL of ClickHouse's events table: `Queries!Matching` says what it selects.
* Listings that only read (users, devices, teams, pending registrations).
* PostgreSQL statements that do what SQLite's do; where isolation differs the models cover both.

## Plan

Everything the plan began with is modelled, and every property of a run that does not concern
liveness is proved. What would come next:

1. Of `FjallStore` under `Spec`, without `TimelySpec`'s assumption on clients: that a row which breaks
   `OneRowPerKey`, the mirror or the refinement is always one whose message's pointer was pruned.
2. That a calendar as the database of time zones describes it is `NearlyNominal`, zone by zone: an
   enumeration for a program, outside these modules.
3. More of the listings and of the configuration, if they come to hold state.
