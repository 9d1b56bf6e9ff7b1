------------------------------ MODULE Accounts ------------------------------
(***************************************************************************)
(* Administration of accounts, registrations and teams: the handlers of    *)
(* server/handlers/admin.rs and teams.rs, register of auth.rs, and the     *)
(* statements of db/sqlite.rs and db/postgres.rs they run.                 *)
(*                                                                         *)
(* A handler authorises its caller, may read, and then writes; each of     *)
(* these is a database call other requests can run between.  A handler     *)
(* that makes one write and whose authorisation no property depends on is  *)
(* one step.  An account is named by its username, and a name is used once *)
(* in a behaviour: a new account of an old name has another id.  Refusals  *)
(* by validation change nothing: no action.                                *)
(***************************************************************************)
EXTENDS Naturals, FiniteSets

CONSTANTS Names,        \* accounts that exist at the start
          Builtin,      \* the one called "admin"
          Applicants,   \* names that register or are created later
          Teams,
          Slots,        \* admin and registration requests running at a time
          MaxRequests,  \* bound on the requests of a behaviour
          None

VARIABLES
  backend,    \* "sqlite" or "postgres"
  acct,       \* users: [AllNames -> [role, active] or None]
  pending,    \* pending_registrations, by name
  mode,       \* registration_mode
  teams,      \* teams, by name
  members,    \* team_members: <<team, name>>
  proc,       \* the request in each slot
  overtaken,  \* SQLite: requests whose read snapshot is no longer current
  used,       \* history: applicants whose name was used
  rejected,   \* history: names whose last registration was rejected
  admitted,   \* history: names whose last registration was approved
  demoted,    \* history: an administrator lost the role or the account
  raced,      \* history: an administrator deactivated in between wrote
  requests    \* history: requests so far

tablesVars == <<acct, pending, mode, teams, members>>
noteVars == <<used, rejected, admitted, demoted, raced>>
accountVars == <<backend, tablesVars, proc, overtaken, noteVars, requests>>

AllNames == Names \cup Applicants

Account == [role : {"user", "admin"}, active : BOOLEAN]

ASSUME AccountsAssumption ==
  /\ Builtin \in Names /\ Names \cap Applicants = {} /\ MaxRequests \in Nat
  /\ None \notin AllNames \cup Account \cup Slots

Idle == [st |-> "idle", actor |-> None, name |-> None, team |-> None]

Request == [st : {"idle", "act_read", "act_write", "del_read", "del_off", "del_row",
                  "reg_open", "reg_approval", "appr_read", "appr_write", "member_write"},
            actor : AllNames \cup {None}, name : AllNames \cup {None},
            team : Teams \cup {None}]

AccountTypeOK ==
  /\ backend \in {"sqlite", "postgres"}
  /\ acct \in [AllNames -> Account \cup {None}]
  /\ pending \subseteq Applicants /\ mode \in {"open", "approval", "closed"}
  /\ teams \subseteq Teams /\ members \subseteq Teams \X AllNames
  /\ proc \in [Slots -> Request] /\ overtaken \subseteq Slots
  /\ used \subseteq Applicants /\ rejected \subseteq Applicants
  /\ admitted \subseteq Applicants
  /\ demoted \in BOOLEAN /\ raced \in BOOLEAN /\ requests \in 0..MaxRequests

(* ensure_admin has run; the other accounts have any role. *)
AccountInit ==
  /\ backend \in {"sqlite", "postgres"}
  /\ \E R \in [Names -> {"user", "admin"}] :
       /\ R[Builtin] = "admin"
       /\ acct = [n \in AllNames |->
            IF n \in Names THEN [role |-> R[n], active |-> TRUE] ELSE None]
  /\ pending = {} /\ mode \in {"open", "approval"} /\ teams = {} /\ members = {}
  /\ proc = [p \in Slots |-> Idle] /\ overtaken = {}
  /\ used = {} /\ rejected = {} /\ admitted = {}
  /\ demoted = FALSE /\ raced = FALSE /\ requests = 0

-----------------------------------------------------------------------------
(* Helpers                                                                   *)

Exists(n) == acct[n] # None

(* authenticate, then user_is_admin *)
IsAdmin(n) == Exists(n) /\ acct[n].role = "admin" /\ acct[n].active

At(p, s) == proc[p].st = s
Goto(p, s) == proc' = [proc EXCEPT ![p].st = s]
Answer(p) == proc' = [proc EXCEPT ![p] = Idle]

Count == requests < MaxRequests /\ requests' = requests + 1
Begin(p, r) == At(p, "idle") /\ Count /\ proc' = [proc EXCEPT ![p] = r]

(* require_admin for a request whose caller plays no further part. *)
ByAdmin == \E n \in AllNames : IsAdmin(n)

Committed(p) == overtaken' =
  {q \in Slots \ {p} : backend = "sqlite" /\ At(q, "appr_write")}

(* ON DELETE CASCADE of team_members.user_id *)
WithoutUser(n) == {m \in members : m[2] # n}

-----------------------------------------------------------------------------
(* admin_create_user and admin_change_user_role: one write each              *)

CreateUser(n, role) ==
  /\ ByAdmin /\ Count /\ n \in Applicants \ used /\ ~Exists(n)
  /\ acct' = [acct EXCEPT ![n] = [role |-> role, active |-> TRUE]]
  /\ used' = used \cup {n} /\ Committed(None)
  /\ UNCHANGED <<backend, pending, mode, teams, members, proc, rejected, admitted,
                 demoted, raced>>

(* No check that an administrator is left. *)
ChangeRole(n, role) ==
  /\ ByAdmin /\ Count /\ Exists(n) /\ acct[n].role # role
  /\ acct' = [acct EXCEPT ![n].role = role]
  /\ demoted' = (demoted \/ role = "user") /\ Committed(None)
  /\ UNCHANGED <<backend, pending, mode, teams, members, proc, used, rejected,
                 admitted, raced>>

-----------------------------------------------------------------------------
(* admin_set_user_active                                                     *)

MayDeactivateAnyone(a, n) == TRUE   \* seeded fault: one's own account too

(* "cannot deactivate your own account" *)
MayDeactivate(a, n) == n # a

Deactivate(p, a, n) ==
  /\ IsAdmin(a) /\ MayDeactivate(a, n)
  /\ Begin(p, [Idle EXCEPT !.st = "act_read", !.actor = a, !.name = n])
  /\ UNCHANGED <<backend, tablesVars, overtaken, noteVars>>

(* count_active_admins_except *)
OtherAdmins == {n \in AllNames \ {Builtin} : IsAdmin(n)}

ActRead(p) ==
  LET n == proc[p].name IN
  /\ At(p, "act_read")
  /\ IF Exists(n) /\ (n = Builtin => OtherAdmins # {}) THEN Goto(p, "act_write")
                                                       ELSE Answer(p)
  /\ UNCHANGED <<backend, tablesVars, overtaken, noteVars, requests>>

(* set_user_active(false) *)
ActWrite(p) ==
  LET n == proc[p].name IN
  /\ At(p, "act_write") /\ Answer(p)
  /\ acct' = IF Exists(n) THEN [acct EXCEPT ![n].active = FALSE] ELSE acct
  /\ raced' = (raced \/ ~IsAdmin(proc[p].actor)) /\ Committed(p)
  /\ UNCHANGED <<backend, pending, mode, teams, members, used, rejected, admitted,
                 demoted, requests>>

Reactivate(n) ==
  /\ ByAdmin /\ Count /\ Exists(n) /\ ~acct[n].active
  /\ acct' = [acct EXCEPT ![n].active = TRUE] /\ Committed(None)
  /\ UNCHANGED <<backend, pending, mode, teams, members, proc, noteVars>>

-----------------------------------------------------------------------------
(* admin_delete_user: the purges of events and windows are SyncServer's      *)

DeleteUser(p, n) ==
  /\ ByAdmin
  /\ Begin(p, [Idle EXCEPT !.st = "del_read", !.name = n])
  /\ UNCHANGED <<backend, tablesVars, overtaken, noteVars>>

(* The built-in account is protected, unless looking it up fails. *)
DelRead(p) ==
  /\ At(p, "del_read")
  /\ \/ Goto(p, "del_off")
     \/ proc[p].name = Builtin /\ Answer(p)
  /\ UNCHANGED <<backend, tablesVars, overtaken, noteVars, requests>>

(* set_user_active(false), its error ignored *)
DelOff(p) ==
  LET n == proc[p].name IN
  /\ At(p, "del_off") /\ Goto(p, "del_row")
  /\ acct' \in {acct, IF Exists(n) THEN [acct EXCEPT ![n].active = FALSE] ELSE acct}
  /\ demoted' = (demoted \/ acct' # acct) /\ Committed(p)
  /\ UNCHANGED <<backend, pending, mode, teams, members, used, rejected, admitted,
                 raced, requests>>

(* delete_user *)
DelRow(p) ==
  LET n == proc[p].name IN
  /\ At(p, "del_row") /\ Answer(p)
  /\ acct' = [acct EXCEPT ![n] = None] /\ members' = WithoutUser(n)
  /\ demoted' = TRUE /\ Committed(p)
  /\ UNCHANGED <<backend, pending, mode, teams, used, rejected, admitted, raced,
                 requests>>

-----------------------------------------------------------------------------
(* register, admin_approve_pending, admin_reject_pending                     *)

(* The mode is read before the password is hashed. *)
Register(p, n) ==
  /\ n \in Applicants /\ (n \in used => Exists(n)) /\ used' = used \cup {n}
  /\ mode \in {"open", "approval"}
  /\ Begin(p, [Idle EXCEPT !.name = n,
                 !.st = IF mode = "open" THEN "reg_open" ELSE "reg_approval"])
  /\ UNCHANGED <<backend, tablesVars, overtaken, rejected, admitted, demoted, raced>>

(* create_user: a name that is taken is a conflict. *)
RegisterOpen(p) ==
  LET n == proc[p].name IN
  /\ At(p, "reg_open") /\ Answer(p)
  /\ acct' = IF Exists(n) THEN acct
             ELSE [acct EXCEPT ![n] = [role |-> "user", active |-> TRUE]]
  /\ Committed(p)
  /\ UNCHANGED <<backend, pending, mode, teams, members, noteVars, requests>>

(* create_pending_registration: unique among the pending only, so the name    *)
(* of an account can register again, with a fate of its own.                  *)
RegisterPending(p) ==
  /\ At(p, "reg_approval") /\ Answer(p)
  /\ pending' = pending \cup {proc[p].name} /\ Committed(p)
  /\ rejected' = rejected \ {proc[p].name} /\ admitted' = admitted \ {proc[p].name}
  /\ UNCHANGED <<backend, acct, mode, teams, members, used, demoted, raced, requests>>

Approve(p, n) ==
  /\ ByAdmin /\ n \in used
  /\ Begin(p, [Idle EXCEPT !.st = "appr_read", !.name = n])
  /\ UNCHANGED <<backend, tablesVars, overtaken, noteVars>>

(* approve_registration: the row, and that the name is free. *)
ApproveRead(p) ==
  LET n == proc[p].name IN
  /\ At(p, "appr_read")
  /\ IF n \in pending /\ ~Exists(n) THEN Goto(p, "appr_write") ELSE Answer(p)
  /\ UNCHANGED <<backend, tablesVars, overtaken, noteVars, requests>>

CommitsAlways(p) == TRUE   \* seeded fault: the write ignores its snapshot

(* SQLite refuses the write of an overtaken snapshot; users.username is       *)
(* UNIQUE on both.                                                            *)
CanCommit(p) == p \notin overtaken

(* INSERT INTO users, DELETE FROM pending_registrations, COMMIT *)
ApproveWrite(p) ==
  LET n == proc[p].name IN
  /\ At(p, "appr_write") /\ Answer(p)
  /\ \/ /\ CanCommit(p) /\ ~Exists(n)
        /\ acct' = [acct EXCEPT ![n] = [role |-> "user", active |-> TRUE]]
        /\ pending' = pending \ {n} /\ admitted' = admitted \cup {n}
        /\ Committed(p)
     \/ /\ ~CanCommit(p) \/ Exists(n)
        /\ overtaken' = overtaken \ {p} /\ UNCHANGED <<acct, pending, admitted>>
  /\ UNCHANGED <<backend, mode, teams, members, used, rejected, demoted, raced,
                 requests>>

(* reject_registration *)
Reject(n) ==
  /\ ByAdmin /\ Count /\ n \in pending
  /\ pending' = pending \ {n} /\ rejected' = rejected \cup {n}
  /\ Committed(None)
  /\ UNCHANGED <<backend, acct, mode, teams, members, proc, used, admitted, demoted,
                 raced>>

(* cleanup_old_pending_registrations, a week on *)
CleanupPending ==
  /\ pending # {} /\ pending' = {} /\ Committed(None)
  /\ UNCHANGED <<backend, acct, mode, teams, members, proc, noteVars, requests>>

-----------------------------------------------------------------------------
(* Teams                                                                     *)

(* create_team *)
CreateTeam(t) ==
  /\ ByAdmin /\ Count /\ t \notin teams
  /\ teams' = teams \cup {t} /\ Committed(None)
  /\ UNCHANGED <<backend, acct, pending, mode, members, proc, noteVars>>

(* delete_team, with its members *)
DeleteTeam(t) ==
  /\ ByAdmin /\ Count /\ t \in teams
  /\ teams' = teams \ {t} /\ members' = {m \in members : m[1] # t}
  /\ Committed(None)
  /\ UNCHANGED <<backend, acct, pending, mode, proc, noteVars>>

(* admin_add_team_member: get_team and get_user_by_id *)
AddMember(p, t, n) ==
  /\ ByAdmin /\ t \in teams /\ Exists(n)
  /\ Begin(p, [Idle EXCEPT !.st = "member_write", !.name = n, !.team = t])
  /\ UNCHANGED <<backend, tablesVars, overtaken, noteVars>>

MemberFits(t, n) == <<t, n>> \notin members   \* seeded fault: the earlier lookups are trusted

(* The foreign keys and the primary key of team_members *)
MemberOk(t, n) == t \in teams /\ Exists(n) /\ <<t, n>> \notin members

(* add_team_member *)
MemberWrite(p) ==
  LET t == proc[p].team  n == proc[p].name IN
  /\ At(p, "member_write") /\ Answer(p)
  /\ members' = IF MemberOk(t, n) THEN members \cup {<<t, n>>} ELSE members
  /\ Committed(p)
  /\ UNCHANGED <<backend, acct, pending, mode, teams, noteVars, requests>>

(* remove_team_member *)
RemoveMember(t, n) ==
  /\ ByAdmin /\ Count /\ <<t, n>> \in members
  /\ members' = members \ {<<t, n>>} /\ Committed(None)
  /\ UNCHANGED <<backend, acct, pending, mode, teams, proc, noteVars>>

-----------------------------------------------------------------------------
AccountStep(p) ==
  \/ ActRead(p) \/ ActWrite(p) \/ DelRead(p) \/ DelOff(p) \/ DelRow(p)
  \/ RegisterOpen(p) \/ RegisterPending(p) \/ ApproveRead(p) \/ ApproveWrite(p)
  \/ MemberWrite(p)

AccountNext ==
  \/ \E p \in Slots : AccountStep(p)
  \/ \E p \in Slots, n \in AllNames :
       \/ \E a \in AllNames : Deactivate(p, a, n)
       \/ DeleteUser(p, n) \/ Register(p, n) \/ Approve(p, n)
       \/ \E t \in Teams : AddMember(p, t, n)
  \/ \E n \in AllNames :
       \/ \E role \in {"user", "admin"} : CreateUser(n, role) \/ ChangeRole(n, role)
       \/ Reactivate(n) \/ Reject(n)
  \/ \E t \in Teams : \/ CreateTeam(t) \/ DeleteTeam(t)
                      \/ \E n \in AllNames : RemoveMember(t, n)
  \/ CleanupPending

-----------------------------------------------------------------------------
(* Properties                                                                *)

(* Deactivation alone never leaves the server without an active               *)
(* administrator (admin_set_user_active), unless one who was deactivated      *)
(* after being authorised still wrote: two that deactivate each other.        *)
AdminRemains == ByAdmin \/ demoted \/ raced

(* A rejected registration never becomes an account: on SQLite, approving and *)
(* rejecting one at the same time lets one of them fail.                      *)
RejectedStaysOut == backend = "sqlite" => rejected \cap admitted = {}

(* Team members are members of existing teams with existing accounts, though  *)
(* either may be deleted while the member is being added.                     *)
MembersExist == \A m \in members : m[1] \in teams /\ Exists(m[2])
=============================================================================
