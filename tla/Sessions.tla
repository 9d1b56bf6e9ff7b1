------------------------------ MODULE Sessions ------------------------------
(***************************************************************************)
(* Login, refresh-token rotation, device codes and the revocations of an   *)
(* account (server/handlers/auth.rs, auth/jwt.rs, the token and code       *)
(* tables of db/sqlite.rs and db/postgres.rs, and the password and         *)
(* activation handlers of me.rs and admin.rs).                             *)
(*                                                                         *)
(* Handlers run concurrently; each database call, and each visit to the    *)
(* guard, is a step.  A token is its row: the signature is not modelled,   *)
(* nobody presents a token that was never issued, and a run is too short   *)
(* for one to expire.  A refused request that changes nothing has no       *)
(* action.  A tick of the clock is the poll interval of device codes.      *)
(***************************************************************************)
EXTENDS BruteForce, FiniteSets

CONSTANTS Users, Codes,
          Procs,         \* handlers running at a time
          CodeTtl,       \* lifetime of a device code, in ticks
          MaxTokens, MaxRequests, MaxTime   \* bounds on a behaviour

(* Refreshes share the name "__refresh__" per address. *)
RefreshKey == <<"refresh", None>>

VARIABLES
  backend,    \* "sqlite" or "postgres"
  password,   \* users.password_hash: the number of changes made to it
  active,     \* users.active
  tokens,     \* refresh_tokens: [1..MaxTokens -> Token or None]
  codes,      \* device_codes: [Codes -> Code or None]
  tracker,    \* device_poll_tracker: time of the last poll, or None
  devices,    \* devices registered by a token exchange: <<code, user>>
  proc,       \* the handler in each slot
  overtaken,  \* SQLite: handlers whose read snapshot is no longer current
  revocations,\* history: revoke_user_refresh_tokens of each account
  asked,      \* history: the device codes requested so far
  delivered,  \* history: polls answered with a code's tokens
  excused,    \* history: codes and tokens touched by an ignored database
              \* error, and codes whose polls overlapped a whole tick
  requests    \* history: requests so far

store == <<password, active, tokens, codes, devices>>
history == <<revocations, asked, delivered, excused>>
vars == <<backend, clock, guard, store, tracker, proc, overtaken, history,
          requests>>

TokenIds == 1..MaxTokens

(* parent: the token it replaced; since: revocations when its chain began;    *)
(* code: the device code it was issued for.                                   *)
Token == [st : {"live", "revoked", "deleted"}, user : Users,
          parent : TokenIds \cup {None}, since : Nat, code : Codes \cup {None}]

Code == [expires : Nat, by : Users \cup {None}, tok : TokenIds \cup {None}]

ASSUME SessionsAssumption ==
  /\ GuardKeys = {<<"refresh", None>>} \cup ({"login", "approve"} \X Users)
  /\ CodeTtl \in Nat /\ MaxRequests \in Nat /\ MaxTokens \in Nat /\ MaxTokens > MaxRequests
  /\ MaxTime \in Nat /\ IsFiniteSet(Procs) /\ Procs # {}
  /\ None \notin Users \cup Codes \cup Procs \cup Token \cup Code

(* guess and hash are passwords; tok and code are those at hand, began is  *)
(* the time a poll was let in.                                                *)
Handler == [st : {"idle", "login_read", "login_verify", "store", "rotate_read",
                  "rotate_write", "approve_read", "approve_update",
                  "approve_revoke", "poll_read", "poll_take", "change_read",
                  "change_write", "deactivate", "revoke_user"},
            user : Users \cup {None}, guess : Nat \cup {None},
            hash : Nat \cup {None}, tok : TokenIds \cup {None},
            code : Codes \cup {None}, began : Nat]

Idle == [st |-> "idle", user |-> None, guess |-> None, hash |-> None,
         tok |-> None, code |-> None, began |-> 0]

TypeOK ==
  /\ GuardTypeOK
  /\ backend \in {"sqlite", "postgres"}
  /\ password \in [Users -> Nat] /\ active \in [Users -> BOOLEAN]
  /\ tokens \in [TokenIds -> Token \cup {None}]
  /\ codes \in [Codes -> Code \cup {None}]
  /\ tracker \in [Codes -> Nat \cup {None}]
  /\ devices \subseteq Codes \X Users
  /\ proc \in [Procs -> Handler] /\ overtaken \subseteq Procs
  /\ revocations \in [Users -> Nat] /\ delivered \in [Codes -> Nat]
  /\ asked \subseteq Codes /\ excused \subseteq Codes \cup TokenIds
  /\ requests \in 0..MaxRequests

(* The server has run for a while: one token is out, and a login may have     *)
(* failed just before.                                                        *)
Init ==
  /\ clock = 0
  /\ guard \in {[k \in GuardKeys |-> None],
               [k \in GuardKeys |-> IF k[1] = "login" THEN Counted(None) ELSE None]}
  /\ backend \in {"sqlite", "postgres"}
  /\ password = [u \in Users |-> 0] /\ active = [u \in Users |-> TRUE]
  /\ \E u \in Users :
       tokens = [t \in TokenIds |->
         IF t = 1 THEN [st |-> "live", user |-> u, parent |-> None,
                        since |-> 0, code |-> None] ELSE None]
  /\ codes = [c \in Codes |-> None] /\ tracker = [c \in Codes |-> None]
  /\ devices = {} /\ proc = [p \in Procs |-> Idle] /\ overtaken = {}
  /\ revocations = [u \in Users |-> 0] /\ delivered = [c \in Codes |-> 0]
  /\ asked = {} /\ excused = {} /\ requests = 0

-----------------------------------------------------------------------------
(* Helpers                                                                   *)

At(p, s) == proc[p].st = s
Goto(p, s) == proc' = [proc EXCEPT ![p].st = s]
Answer(p) == proc' = [proc EXCEPT ![p] = Idle]

Request(p, h) ==
  /\ At(p, "idle") /\ requests < MaxRequests
  /\ requests' = requests + 1
  /\ proc' = [proc EXCEPT ![p] = h]

Issued == {t \in TokenIds : tokens[t] # None}
Live(t) == tokens[t] # None /\ tokens[t].st = "live"

(* A committed write: any SQLite transaction still reading lags behind it.    *)
Committed(p) ==
  overtaken' = {q \in Procs \ {p} : backend = "sqlite" /\ At(q, "rotate_write")}
NoCommit == UNCHANGED <<store, overtaken>>

Revoked(S) == [t \in TokenIds |->
  IF t \in S /\ Live(t) THEN [tokens[t] EXCEPT !.st = "revoked"] ELSE tokens[t]]

(* The next jti, in a table that may already differ from tokens.              *)
Insert(table, row) == \E t \in TokenIds \ Issued :
  /\ \A s \in TokenIds \ Issued : t <= s
  /\ tokens' = [table EXCEPT ![t] = row]

Expired(c) == clock > codes[c].expires

-----------------------------------------------------------------------------
(* login                                                                     *)

Login(p, u, guess) ==
  /\ Check(<<"login", u>>)
  /\ Request(p, [Idle EXCEPT !.st = "login_read", !.user = u, !.guess = guess])
  /\ NoCommit /\ UNCHANGED <<backend, clock, tracker, history>>

(* get_user_by_username; a deactivated account is refused here. *)
LoginRead(p) ==
  LET u == proc[p].user IN
  /\ At(p, "login_read")
  /\ proc' = [proc EXCEPT ![p] =
       IF active[u] THEN [@ EXCEPT !.st = "login_verify", !.hash = password[u]]
                    ELSE Idle]
  /\ NoCommit /\ UNCHANGED <<backend, clock, guard, tracker, history, requests>>

LoginVerify(p) ==
  LET k == <<"login", proc[p].user>> IN
  /\ At(p, "login_verify")
  /\ \/ /\ proc[p].guess = proc[p].hash
        /\ RecordSuccess(k) /\ Goto(p, "store")
     \/ /\ proc[p].guess # proc[p].hash
        /\ RecordFailure(k) /\ Answer(p)
  /\ NoCommit /\ UNCHANGED <<backend, clock, tracker, history, requests>>

(* store_refresh_token, for a login and for the approval of a code.           *)
StoreToken(p) ==
  LET u == proc[p].user  c == proc[p].code IN
  /\ At(p, "store")
  /\ Insert(tokens, [st |-> "live", user |-> u, parent |-> None,
                     since |-> revocations[u], code |-> c])
  /\ proc' = [proc EXCEPT ![p] =
       IF c = None THEN Idle
       ELSE [@ EXCEPT !.st = "approve_update",
                      !.tok = CHOOSE t \in TokenIds : tokens'[t] # tokens[t]]]
  /\ Committed(p)
  /\ UNCHANGED <<backend, clock, guard, password, active, codes, devices,
                 tracker, history, requests>>

-----------------------------------------------------------------------------
(* token_refresh over JwtManager::rotate and rotate_refresh_token            *)

Refresh(p, t) ==
  /\ t \in Issued
  /\ Check(RefreshKey)
  /\ Request(p, [Idle EXCEPT !.st = "rotate_read", !.tok = t])
  /\ NoCommit /\ UNCHANGED <<backend, clock, tracker, history>>

(* BEGIN and SELECT revoked: a missing row counts as revoked. *)
RotateRead(p) ==
  /\ At(p, "rotate_read")
  /\ \/ Live(proc[p].tok) /\ Goto(p, "rotate_write") /\ UNCHANGED guard
     \/ ~Live(proc[p].tok) /\ RecordFailure(RefreshKey) /\ Answer(p)
  /\ NoCommit /\ UNCHANGED <<backend, clock, tracker, history, requests>>

CommitsAlways(p) == TRUE   \* seeded fault: the write ignores its snapshot

(* The UPDATE and INSERT go through: SQLite refuses to upgrade a transaction  *)
(* whose snapshot another commit has overtaken (SQLITE_BUSY_SNAPSHOT);        *)
(* PostgreSQL's UPDATE at READ COMMITTED sees the row as it is now.           *)
CanCommit(p) == p \notin overtaken

RotateWrite(p) ==
  LET old == proc[p].tok IN
  /\ At(p, "rotate_write") /\ Answer(p)
  /\ \/ /\ CanCommit(p)
        /\ Insert(Revoked({old}), [tokens[old] EXCEPT !.st = "live", !.parent = old,
                                                !.code = None])
        /\ RecordSuccess(RefreshKey) /\ Committed(p)
     \/ /\ ~CanCommit(p)
        /\ RecordFailure(RefreshKey) /\ UNCHANGED tokens
        /\ overtaken' = overtaken \ {p}
  /\ UNCHANGED <<backend, clock, password, active, codes, devices, tracker,
                 history, requests>>

-----------------------------------------------------------------------------
(* Device codes                                                              *)

(* device_code_request; its own guard key never records a failure.            *)
DeviceCodeRequest(c) ==
  /\ c \notin asked /\ asked' = asked \cup {c}
  /\ codes' = [codes EXCEPT ![c] =
       [expires |-> clock + CodeTtl, by |-> None, tok |-> None]]
  /\ Committed(None)
  /\ UNCHANGED <<backend, clock, guard, password, active, tokens, devices,
                 tracker, proc, revocations, delivered, excused, requests>>

(* device_approve: the account is authenticated, then the guard consulted.    *)
Approve(p, u, c) ==
  /\ active[u]
  /\ Check(<<"approve", u>>)
  /\ Request(p, [Idle EXCEPT !.st = "approve_read", !.user = u, !.code = c])
  /\ NoCommit /\ UNCHANGED <<backend, clock, tracker, history>>

(* A code is deleted; its error is ignored. *)
DeleteCode(p, c) ==
  \/ codes' = [codes EXCEPT ![c] = None] /\ Committed(p) /\ UNCHANGED excused
  \/ excused' = excused \cup {c} /\ UNCHANGED <<codes, overtaken>>

ApproveRead(p) ==
  LET u == proc[p].user  c == proc[p].code IN
  /\ At(p, "approve_read")
  /\ \/ /\ codes[c] = None
        /\ RecordFailure(<<"approve", u>>) /\ Answer(p)
        /\ UNCHANGED <<codes, overtaken, excused>>
     \/ /\ codes[c] # None /\ Expired(c)
        /\ DeleteCode(p, c) /\ Answer(p) /\ UNCHANGED guard
     \/ /\ codes[c] # None /\ ~Expired(c)
        /\ IF codes[c].by = None THEN Goto(p, "store") ELSE Answer(p)
        /\ UNCHANGED <<guard, codes, overtaken, excused>>
  /\ UNCHANGED <<backend, clock, password, active, tokens, devices, tracker,
                 revocations, asked, delivered, requests>>

ApprovableAlways(c) == codes[c] # None   \* seeded fault: approved_by not tested

(* WHERE user_code = ? AND approved_by IS NULL: expiry is not looked at again. *)
Approvable(c) == codes[c] # None /\ codes[c].by = None

ApproveUpdate(p) ==
  LET u == proc[p].user  c == proc[p].code IN
  /\ At(p, "approve_update")
  /\ \/ /\ Approvable(c)
        /\ codes' = [codes EXCEPT ![c].by = u, ![c].tok = proc[p].tok]
        /\ RecordSuccess(<<"approve", u>>) /\ Answer(p) /\ Committed(p)
     \/ /\ ~Approvable(c)
        /\ Goto(p, "approve_revoke") /\ UNCHANGED <<guard, codes, overtaken>>
  /\ UNCHANGED <<backend, clock, password, active, tokens, devices, tracker,
                 history, requests>>

(* The token of a lost approval is revoked; an error is ignored. *)
ApproveRevoke(p) ==
  /\ At(p, "approve_revoke") /\ Answer(p)
  /\ \/ /\ tokens' = Revoked({proc[p].tok}) /\ Committed(p)
        /\ UNCHANGED excused
     \/ /\ excused' = excused \cup {proc[p].tok}
        /\ UNCHANGED <<tokens, overtaken>>
  /\ UNCHANGED <<backend, clock, guard, password, active, codes, devices,
                 tracker, revocations, asked, delivered, requests>>

PacedNever(c) == TRUE   \* seeded fault: polls are not paced

(* A poll less than 5 seconds, one tick, after the last one is told to wait.  *)
Paced(c) == tracker[c] # None => clock > tracker[c]

Poll(p, c) ==
  /\ c \in asked /\ Paced(c)
  /\ Request(p, [Idle EXCEPT !.st = "poll_read", !.code = c, !.began = clock])
  /\ tracker' = [tracker EXCEPT ![c] = clock]
  /\ NoCommit /\ UNCHANGED <<backend, clock, guard, history>>

(* Missing or pending: nothing changes; expired: deleted; approved: go on.    *)
PollRead(p) ==
  LET c == proc[p].code  row == codes[c] IN
  /\ At(p, "poll_read")
  /\ \/ /\ row # None /\ Expired(c)
        /\ DeleteCode(p, c) /\ Answer(p)
     \/ /\ row # None => ~Expired(c) /\ row.by = None
        /\ Answer(p) /\ UNCHANGED <<codes, overtaken, excused>>
     \/ /\ row # None /\ ~Expired(c) /\ row.by # None
        /\ proc' = [proc EXCEPT ![p].st = "poll_take", ![p].user = row.by,
                                ![p].tok = row.tok]
        /\ UNCHANGED <<codes, overtaken, excused>>
  /\ UNCHANGED <<backend, clock, guard, password, active, tokens, devices,
                 tracker, revocations, asked, delivered, requests>>

(* Another poll, let in at another time, has read the row as well. *)
Overlapped(p) == \E q \in Procs \ {p} :
  /\ At(q, "poll_take") /\ proc[q].code = proc[p].code
  /\ proc[q].began # proc[p].began

(* The row is deleted, the tracker entry dropped, the device found or created *)
(* (an error only loses the registration), and the tokens are the answer.     *)
PollTake(p) ==
  LET c == proc[p].code IN
  /\ At(p, "poll_take") /\ Answer(p)
  /\ \E ok \in BOOLEAN :
       /\ codes' = IF ok THEN [codes EXCEPT ![c] = None] ELSE codes
       /\ IF ok THEN Committed(p) ELSE UNCHANGED overtaken
       /\ excused' = IF ok /\ ~Overlapped(p) THEN excused ELSE excused \cup {c}
  /\ tracker' = [tracker EXCEPT ![c] = None]
  /\ devices' \in {devices, devices \cup {<<c, proc[p].user>>}}
  /\ delivered' = [delivered EXCEPT ![c] = @ + 1]
  /\ UNCHANGED <<backend, clock, guard, password, active, tokens, revocations,
                 asked, requests>>

-----------------------------------------------------------------------------
(* Revocation: me_change_password, admin_change_user_password and            *)
(* admin_set_user_active; each changes the account, then revokes             *)

(* A change by the owner proves the current password; one by an administrator *)
(* (guess None) only finds the account.                                       *)
ChangePassword(p, u, guess) ==
  /\ guess # None => active[u]
  /\ Request(p, [Idle EXCEPT !.st = "change_read", !.user = u, !.guess = guess])
  /\ NoCommit /\ UNCHANGED <<backend, clock, guard, tracker, history>>

ChangeRead(p) ==
  LET g == proc[p].guess IN
  /\ At(p, "change_read")
  /\ IF g = None \/ g = password[proc[p].user] THEN Goto(p, "change_write")
                                                ELSE Answer(p)
  /\ NoCommit /\ UNCHANGED <<backend, clock, guard, tracker, history, requests>>

(* update_password *)
ChangeWrite(p) ==
  /\ At(p, "change_write") /\ Goto(p, "revoke_user")
  /\ password' = [password EXCEPT ![proc[p].user] = @ + 1]
  /\ Committed(p)
  /\ UNCHANGED <<backend, clock, guard, active, tokens, codes, devices, tracker,
                 history, requests>>

Deactivate(p, u) ==
  /\ Request(p, [Idle EXCEPT !.st = "deactivate", !.user = u])
  /\ NoCommit /\ UNCHANGED <<backend, clock, guard, tracker, history>>

(* set_user_active(false) *)
DeactivateWrite(p) ==
  /\ At(p, "deactivate") /\ Goto(p, "revoke_user")
  /\ active' = [active EXCEPT ![proc[p].user] = FALSE]
  /\ Committed(p)
  /\ UNCHANGED <<backend, clock, guard, password, tokens, codes, devices,
                 tracker, history, requests>>

(* revoke_user_refresh_tokens *)
RevokeUser(p) ==
  LET u == proc[p].user IN
  /\ At(p, "revoke_user") /\ Answer(p)
  /\ tokens' = Revoked({t \in Issued : tokens[t].user = u})
  /\ revocations' = [revocations EXCEPT ![u] = @ + 1]
  /\ Committed(p)
  /\ UNCHANGED <<backend, clock, guard, password, active, codes, devices,
                 tracker, asked, delivered, excused, requests>>

-----------------------------------------------------------------------------
(* A database call whose error is not ignored ends the handler: a refresh     *)
(* counts it as a failure, an approval leaves its token behind.               *)
CallFails(p) ==
  /\ proc[p].st \notin {"idle", "login_verify", "approve_revoke", "poll_take"}
  /\ Answer(p)
  /\ IF proc[p].st \in {"rotate_read", "rotate_write"} THEN RecordFailure(RefreshKey)
                                                      ELSE UNCHANGED guard
  /\ excused' = IF At(p, "approve_update") THEN excused \cup {proc[p].tok} ELSE excused
  /\ overtaken' = overtaken \ {p}
  /\ UNCHANGED <<backend, clock, store, tracker, revocations, asked, delivered,
                 requests>>

-----------------------------------------------------------------------------
(* The periodic cleanup, and time                                            *)

(* cleanup_expired_tokens and cleanup_expired_device_codes *)
Cleanup ==
  /\ tokens' = [t \in TokenIds |->
       IF t \in Issued /\ ~Live(t) THEN [tokens[t] EXCEPT !.st = "deleted"]
                                   ELSE tokens[t]]
  /\ codes' = [c \in Codes |->
       IF codes[c] # None /\ codes[c].expires < clock THEN None ELSE codes[c]]
  /\ <<tokens, codes>>' # <<tokens, codes>>
  /\ Committed(None)
  /\ UNCHANGED <<backend, clock, guard, password, active, devices, tracker,
                 proc, history, requests>>

Tick ==
  /\ clock < MaxTime /\ clock' = clock + 1
  /\ UNCHANGED <<backend, guard, store, tracker, proc, overtaken, history,
                 requests>>

Step(p) ==
  \/ LoginRead(p) \/ LoginVerify(p) \/ StoreToken(p)
  \/ RotateRead(p) \/ RotateWrite(p)
  \/ ApproveRead(p) \/ ApproveUpdate(p) \/ ApproveRevoke(p)
  \/ PollRead(p) \/ PollTake(p)
  \/ ChangeRead(p) \/ ChangeWrite(p) \/ DeactivateWrite(p) \/ RevokeUser(p)
  \/ CallFails(p)

Next ==
  \/ \E p \in Procs : Step(p)
  \/ \E p \in Procs, u \in Users :
       \/ \E guess \in {password[u], None} : Login(p, u, guess)
       \/ \E guess \in {password[u], None} : ChangePassword(p, u, guess)
       \/ Deactivate(p, u)
       \/ \E c \in Codes : Approve(p, u, c)
  \/ \E p \in Procs, t \in TokenIds : Refresh(p, t)
  \/ \E p \in Procs, c \in Codes : Poll(p, c)
  \/ \E c \in Codes : DeviceCodeRequest(c)
  \/ Cleanup \/ Tick

Spec == Init /\ [][Next]_vars

-----------------------------------------------------------------------------
(* Properties                                                                *)

(* One-time use: on SQLite a refresh token has at most one successor, however *)
(* the transactions of rotate_refresh_token interleave with each other and    *)
(* with every other write.                                                    *)
RotatedOnce ==
  backend = "sqlite" =>
    \A s, t \in Issued : tokens[s].parent = tokens[t].parent =>
      s = t \/ tokens[s].parent = None

(* A password change or a deactivation reaches every session: on SQLite no    *)
(* live token, rotated or not, descends from one stored before the last       *)
(* revoke_user_refresh_tokens of its account.                                 *)
RevocationReaches ==
  backend = "sqlite" => \A t \in Issued :
    Live(t) => tokens[t].since = revocations[tokens[t].user]

InApproval(t) == \E p \in Procs :
  proc[p].tok = t /\ (At(p, "approve_update") \/ At(p, "approve_revoke"))

(* Of the approvals racing for a device code one leaves a live token; the     *)
(* others are still running, or a failed call kept them from revoking it.     *)
NoOrphanToken == \A s, t \in Issued :
  (/\ Live(s) /\ Live(t) /\ s # t
   /\ tokens[s].code # None /\ tokens[s].code = tokens[t].code)
  => \E x \in {s, t} : x \in excused \/ InApproval(x)

(* A code's tokens are answered once, unless deleting its row failed or two   *)
(* polls ran side by side for a poll interval (device_token_poll).            *)
DeliveredOnce == \A c \in Codes : delivered[c] <= 1 \/ c \in excused

(* Handlers that passed check for key k and have not recorded their outcome.  *)
Evaluating(k) == {p \in Procs :
  \/ k = <<"login", proc[p].user>> /\ proc[p].st \in {"login_read", "login_verify"}
  \/ k = <<"approve", proc[p].user>> /\ proc[p].code # None
     /\ proc[p].st \in {"approve_read", "store", "approve_update"}
  \/ k = RefreshKey /\ proc[p].st \in {"rotate_read", "rotate_write"}}

(* The guard bounds guesses although check and record_failure are apart: in a *)
(* window, those counted and those being evaluated exceed max_attempts - 1    *)
(* by at most the number of handlers.                                         *)
GuessesBounded == \A k \in GuardKeys :
  guard[k] # None /\ clock - guard[k].first <= Window =>
    guard[k].count + Cardinality(Evaluating(k)) <= MaxAttempts - 1 + Cardinality(Procs)

(* A lockout ends early only through a handler let in before it: by its       *)
(* success, or by its failure when the window has passed in the meantime.     *)
LockoutHolds ==
  [][\A k \in GuardKeys : Locked(k) /\ clock' = clock =>
       \/ Locked(k)'
       \/ \E p \in Evaluating(k) : proc'[p] # proc[p]]_vars
=============================================================================
