--------------------------- MODULE OidcLoginProofs ---------------------------
(***************************************************************************)
(* The administration of accounts, and login through an OpenID provider,   *)
(* for every number of accounts, teams, states and concurrent requests.    *)
(***************************************************************************)
EXTENDS OidcLogin, TLAPS

-----------------------------------------------------------------------------
(* Types of the administration                                               *)

LEMMA IdleRequest == Idle \in Request /\ Idle.st = "idle"
  BY DEF Idle, Request

LEMMA SlotSet ==
  ASSUME AccountTypeOK, NEW p \in Slots,
         NEW r \in Request, proc' = [proc EXCEPT ![p] = r]
  PROVE  proc' \in [Slots -> Request] /\ \A q \in Slots : proc'[q] = IF q = p THEN r ELSE proc[q]
  BY DEF AccountTypeOK

LEMMA SlotGoto ==
  ASSUME AccountTypeOK, NEW p \in Slots,
         NEW s \in {"act_write", "del_off", "del_row", "appr_write"}, Goto(p, s)
  PROVE  /\ proc' \in [Slots -> Request]
         /\ \A q \in Slots : q # p => proc'[q] = proc[q]
         /\ proc'[p].st = s /\ proc'[p].actor = proc[p].actor
         /\ proc'[p].name = proc[p].name /\ proc'[p].team = proc[p].team
  <1>1. proc[p] \in Request
    BY DEF AccountTypeOK
  <1> DEFINE r == [proc[p] EXCEPT !.st = s]
  <1>2. r \in Request /\ r.st = s /\ r.actor = proc[p].actor /\ r.name = proc[p].name
          /\ r.team = proc[p].team
    BY <1>1 DEF Request
  <1>3. proc' = [proc EXCEPT ![p] = r]
    BY DEF Goto
  <1> HIDE DEF r
  <1> QED BY <1>2, <1>3, SlotSet

(* The requests an administrator or applicant can start. *)
LEMMA SlotBegin ==
  ASSUME AccountTypeOK, NEW p \in Slots, NEW r \in Request, Begin(p, r)
  PROVE  /\ proc' \in [Slots -> Request]
         /\ \A q \in Slots : proc'[q] = IF q = p THEN r ELSE proc[q]
         /\ requests' \in 0..MaxRequests
  <1>1. requests' \in 0..MaxRequests
    BY AccountsAssumption DEF AccountTypeOK, Begin, Count
  <1> QED BY <1>1, SlotSet DEF Begin

LEMMA SlotAnswer ==
  ASSUME AccountTypeOK, NEW p \in Slots, Answer(p)
  PROVE  /\ proc' \in [Slots -> Request]
         /\ \A q \in Slots : proc'[q] = IF q = p THEN Idle ELSE proc[q]
  BY SlotSet, IdleRequest DEF Answer

(* What starting a request leaves alone, and what it puts into its slot. *)
Started(p) ==
  \/ \E a, n \in AllNames : Deactivate(p, a, n)
  \/ \E n \in AllNames : DeleteUser(p, n) \/ Register(p, n) \/ Approve(p, n)
  \/ \E t \in Teams, n \in AllNames : AddMember(p, t, n)

LEMMA StartedSlot ==
  ASSUME AccountTypeOK, NEW p \in Slots, Started(p)
  PROVE  /\ proc' \in [Slots -> Request]
         /\ \A q \in Slots : q # p => proc'[q] = proc[q]
         /\ proc'[p].st \in {"act_read", "del_read", "reg_open", "reg_approval",
                             "appr_read", "member_write"}
         /\ proc'[p].name \in AllNames
         /\ proc'[p].st = "act_read" =>
              proc'[p].actor \in AllNames /\ proc'[p].actor # proc'[p].name
         /\ proc'[p].st \in {"reg_open", "reg_approval"} => proc'[p].name \in Applicants
         /\ proc'[p].st = "appr_read" => proc'[p].name \in used
         /\ proc'[p].st = "member_write" => proc'[p].team \in Teams
         /\ requests' \in 0..MaxRequests
         /\ UNCHANGED <<backend, tablesVars, overtaken, rejected, admitted, demoted, raced>>
         /\ used' \subseteq used \cup Applicants /\ used \subseteq used'
  <1> DEFINE Fits(r) ==
               /\ r \in Request /\ Begin(p, r) /\ r.name \in AllNames
               /\ r.st \in {"act_read", "del_read", "reg_open", "reg_approval",
                            "appr_read", "member_write"}
               /\ r.st = "act_read" => r.actor \in AllNames /\ r.actor # r.name
               /\ r.st \in {"reg_open", "reg_approval"} => r.name \in Applicants
               /\ r.st = "appr_read" => r.name \in used
               /\ r.st = "member_write" => r.team \in Teams
  <1>1. ASSUME NEW a \in AllNames, NEW n \in AllNames, Deactivate(p, a, n)
        PROVE  \E r : Fits(r)
    <2> DEFINE r == [Idle EXCEPT !.st = "act_read", !.actor = a, !.name = n]
    <2>1. r \in Request /\ r.st = "act_read" /\ r.actor = a /\ r.name = n
      BY DEF Idle, Request
    <2>2. Begin(p, r) /\ a # n
      BY <1>1 DEF Deactivate, MayDeactivate
    <2> HIDE DEF r
    <2>3. Fits(r)
      BY <2>1, <2>2
    <2> QED BY <2>3
  <1>2. ASSUME NEW n \in AllNames, DeleteUser(p, n)
        PROVE  \E r : Fits(r)
    <2> DEFINE r == [Idle EXCEPT !.st = "del_read", !.name = n]
    <2>1. r \in Request /\ r.st = "del_read" /\ r.name = n
      BY DEF Idle, Request
    <2>2. Begin(p, r)
      BY <1>2 DEF DeleteUser
    <2> HIDE DEF r
    <2>3. Fits(r)
      BY <2>1, <2>2
    <2> QED BY <2>3
  <1>3. ASSUME NEW n \in AllNames, Register(p, n)
        PROVE  \E r : Fits(r)
    <2> DEFINE r == [Idle EXCEPT !.name = n, !.st = IF mode = "open" THEN "reg_open" ELSE "reg_approval"]
    <2>1. r \in Request /\ r.st \in {"reg_open", "reg_approval"} /\ r.name = n
      BY DEF Idle, Request
    <2>2. Begin(p, r) /\ n \in Applicants
      BY <1>3 DEF Register
    <2> HIDE DEF r
    <2>3. Fits(r)
      BY <2>1, <2>2
    <2> QED BY <2>3
  <1>4. ASSUME NEW n \in AllNames, Approve(p, n)
        PROVE  \E r : Fits(r)
    <2> DEFINE r == [Idle EXCEPT !.st = "appr_read", !.name = n]
    <2>1. r \in Request /\ r.st = "appr_read" /\ r.name = n
      BY DEF Idle, Request
    <2>2. Begin(p, r) /\ n \in used
      BY <1>4 DEF Approve
    <2> HIDE DEF r
    <2>3. Fits(r)
      BY <2>1, <2>2
    <2> QED BY <2>3
  <1>5. ASSUME NEW n \in AllNames, NEW t \in Teams, AddMember(p, t, n)
        PROVE  \E r : Fits(r)
    <2> DEFINE r == [Idle EXCEPT !.st = "member_write", !.name = n, !.team = t]
    <2>1. r \in Request /\ r.st = "member_write" /\ r.name = n /\ r.team = t
      BY DEF Idle, Request
    <2>2. Begin(p, r)
      BY <1>5 DEF AddMember
    <2> HIDE DEF r
    <2>3. Fits(r)
      BY <2>1, <2>2
    <2> QED BY <2>3
  <1>6. PICK r \in Request :
          /\ Begin(p, r) /\ r.name \in AllNames
          /\ r.st \in {"act_read", "del_read", "reg_open", "reg_approval",
                       "appr_read", "member_write"}
          /\ r.st = "act_read" => r.actor \in AllNames /\ r.actor # r.name
          /\ r.st \in {"reg_open", "reg_approval"} => r.name \in Applicants
          /\ r.st = "appr_read" => r.name \in used
          /\ r.st = "member_write" => r.team \in Teams
    <2>1. \E r : Fits(r)
      <3> HIDE DEF Fits
      <3> QED BY <1>1, <1>2, <1>3, <1>4, <1>5 DEF Started
    <2> QED BY <2>1
  <1>7. /\ UNCHANGED <<backend, tablesVars, overtaken, rejected, admitted, demoted, raced>>
        /\ used' \subseteq used \cup Applicants /\ used \subseteq used'
    BY DEF Started, Deactivate, DeleteUser, Register, Approve, AddMember, noteVars
  <1>8. /\ proc' \in [Slots -> Request] /\ requests' \in 0..MaxRequests
        /\ \A q \in Slots : proc'[q] = IF q = p THEN r ELSE proc[q]
    BY <1>6, SlotBegin
  <1> QED BY <1>6, <1>7, <1>8
-----------------------------------------------------------------------------
(* The inductive invariant of the administration                             *)

(* What each request carries from its authorisation to its write. *)
RequestsOK ==
  \A p \in Slots :
    /\ proc[p].st # "idle" => proc[p].name \in AllNames
    /\ proc[p].st \in {"act_read", "act_write"} =>
         proc[p].actor \in AllNames /\ proc[p].actor # proc[p].name
    /\ proc[p].st \in {"reg_open", "reg_approval", "appr_read", "appr_write"} =>
         proc[p].name \in Applicants
    /\ proc[p].st = "member_write" => proc[p].team \in Teams

(* A pending registration has no fate yet. *)
FateOpen == pending \cap (rejected \cup admitted) = {}

(* On SQLite an approval that may still commit sees the pending row that is  *)
(* there: every commit in between overtakes it.                              *)
SnapshotCurrent ==
  backend = "sqlite" =>
    \A p \in Slots : At(p, "appr_write") /\ p \notin overtaken => proc[p].name \in pending

AccountInv ==
  /\ AccountTypeOK /\ RequestsOK /\ MembersExist /\ AdminRemains
  /\ FateOpen /\ SnapshotCurrent /\ RejectedStaysOut

LEMMA AccountInvInit == AccountInit => AccountInv
  <1> SUFFICES ASSUME AccountInit PROVE AccountInv
    OBVIOUS
  <1>1. PICK R \in [Names -> {"user", "admin"}] :
          /\ R[Builtin] = "admin"
          /\ acct = [n \in AllNames |->
               IF n \in Names THEN [role |-> R[n], active |-> TRUE] ELSE None]
    BY DEF AccountInit
  <1>2. acct \in [AllNames -> Account \cup {None}]
    BY <1>1 DEF Account
  <1>3. AccountTypeOK
    <2>1. 0 \in 0..MaxRequests
      BY AccountsAssumption
    <2>2. proc \in [Slots -> Request]
      BY IdleRequest DEF AccountInit
    <2> QED BY <1>2, <2>1, <2>2 DEF AccountInit, AccountTypeOK
  <1>4. IsAdmin(Builtin) /\ Builtin \in AllNames
    <2>1. Builtin \in AllNames /\ None \notin Account
      BY AccountsAssumption DEF AllNames
    <2>2. acct[Builtin] = [role |-> "admin", active |-> TRUE]
      BY <1>1, <2>1, AccountsAssumption
    <2>3. acct[Builtin] \in Account
      BY <2>2 DEF Account
    <2>4. acct[Builtin].role = "admin" /\ acct[Builtin].active = TRUE
      BY <2>2
    <2> QED BY <2>1, <2>3, <2>4 DEF IsAdmin, Exists
  <1>5. AdminRemains
    BY <1>4 DEF AdminRemains, ByAdmin
  <1>6. RequestsOK /\ SnapshotCurrent
    BY IdleRequest DEF AccountInit, RequestsOK, SnapshotCurrent, At
  <1>7. MembersExist /\ FateOpen /\ RejectedStaysOut
    BY DEF AccountInit, MembersExist, FateOpen, RejectedStaysOut
  <1> QED BY <1>3, <1>5, <1>6, <1>7 DEF AccountInv

(* set_user_active and update_user_role change one field of one account. *)
LEMMA ActiveChanged ==
  ASSUME AccountTypeOK, NEW n \in AllNames, Exists(n), NEW b \in BOOLEAN,
         acct' = [acct EXCEPT ![n].active = b]
  PROVE  /\ acct' \in [AllNames -> Account \cup {None}]
         /\ \A m \in AllNames : m # n => acct'[m] = acct[m]
         /\ acct'[n] # None /\ acct'[n].role = acct[n].role /\ acct'[n].active = b
  <1>1. acct[n] \in Account /\ None \notin Account
    BY AccountsAssumption DEF AccountTypeOK, Exists
  <1> DEFINE a == [acct[n] EXCEPT !.active = b]
  <1>2. a \in Account /\ a.role = acct[n].role /\ a.active = b
    BY <1>1 DEF Account
  <1>3. acct' = [acct EXCEPT ![n] = a]
    OBVIOUS
  <1> HIDE DEF a
  <1> QED BY <1>1, <1>2, <1>3 DEF AccountTypeOK

LEMMA RoleChanged ==
  ASSUME AccountTypeOK, NEW n \in AllNames, Exists(n), NEW r \in {"user", "admin"},
         acct' = [acct EXCEPT ![n].role = r]
  PROVE  /\ acct' \in [AllNames -> Account \cup {None}]
         /\ \A m \in AllNames : m # n => acct'[m] = acct[m]
         /\ acct'[n] # None /\ acct'[n].role = r /\ acct'[n].active = acct[n].active
  <1>1. acct[n] \in Account /\ None \notin Account
    BY AccountsAssumption DEF AccountTypeOK, Exists
  <1> DEFINE a == [acct[n] EXCEPT !.role = r]
  <1>2. a \in Account /\ a.role = r /\ a.active = acct[n].active
    BY <1>1 DEF Account
  <1>3. acct' = [acct EXCEPT ![n] = a]
    OBVIOUS
  <1> HIDE DEF a
  <1> QED BY <1>1, <1>2, <1>3 DEF AccountTypeOK

LEMMA AccountAdded ==
  ASSUME AccountTypeOK, NEW n \in AllNames, NEW r \in {"user", "admin"}, ~Exists(n),
         acct' = [acct EXCEPT ![n] = [role |-> r, active |-> TRUE]]
  PROVE  /\ acct' \in [AllNames -> Account \cup {None}]
         /\ \A m \in AllNames : acct[m] # None => acct'[m] = acct[m]
  <1>1. [role |-> r, active |-> TRUE] \in Account
    BY DEF Account
  <1> QED BY <1>1 DEF AccountTypeOK, Exists

(* Steps that keep every account keep every member. *)
LEMMA MembersKept ==
  ASSUME AccountTypeOK, MembersExist, members' \subseteq members,
         \A m \in members' : m[1] \in teams => m[1] \in teams',
         \A m \in members' : acct[m[2]] # None => acct'[m[2]] # None
  PROVE  MembersExist'
  BY DEF MembersExist, Exists

LEMMA AdminsKept ==
  ASSUME AdminRemains, demoted => demoted', raced => raced',
         \A n \in AllNames : IsAdmin(n) => IsAdmin(n)' \/ demoted' \/ raced'
  PROVE  AdminRemains'
  BY DEF AdminRemains, ByAdmin

(* After a commit, no approval but one that starts now has a current         *)
(* snapshot.                                                                 *)
LEMMA SnapshotsOvertaken ==
  ASSUME NEW q, Committed(q), backend' = backend,
         \A p \in Slots : p # q /\ proc'[p].st = "appr_write" => proc[p].st = "appr_write",
         q \in Slots => proc'[q].st # "appr_write"
  PROVE  SnapshotCurrent'
  BY DEF SnapshotCurrent, Committed, At

LEMMA SnapshotsKept ==
  ASSUME SnapshotCurrent, UNCHANGED <<backend, pending, overtaken>>,
         \A p \in Slots : proc'[p].st = "appr_write" =>
           proc'[p] = proc[p] \/ proc'[p].name \in pending
  PROVE  SnapshotCurrent'
  BY DEF SnapshotCurrent, At

LEMMA CommittedType ==
  ASSUME NEW q, Committed(q)
  PROVE  overtaken' \subseteq Slots
  BY DEF Committed

(* Answering, and going on to the next call of the same request. *)
LEMMA AnswerOK ==
  ASSUME AccountTypeOK, RequestsOK, NEW p \in Slots, Answer(p)
  PROVE  RequestsOK' /\ proc'[p].st = "idle" /\ proc' \in [Slots -> Request]
         /\ \A q \in Slots : q # p => proc'[q] = proc[q]
  BY SlotAnswer, IdleRequest DEF RequestsOK

LEMMA GotoOK ==
  ASSUME AccountTypeOK, RequestsOK, NEW p \in Slots,
         \/ At(p, "act_read") /\ Goto(p, "act_write")
         \/ At(p, "del_read") /\ Goto(p, "del_off")
         \/ At(p, "del_off") /\ Goto(p, "del_row")
         \/ At(p, "appr_read") /\ Goto(p, "appr_write")
  PROVE  /\ RequestsOK' /\ proc' \in [Slots -> Request]
         /\ \A q \in Slots : q # p => proc'[q] = proc[q]
         /\ proc'[p].name = proc[p].name
         /\ proc'[p].st = "appr_write" => proc[p].st = "appr_read"
  <1>1. PICK s \in {"act_write", "del_off", "del_row", "appr_write"} :
          /\ Goto(p, s)
          /\ s = "act_write" => proc[p].st = "act_read"
          /\ s \in {"del_off", "del_row"} => proc[p].st \in {"del_read", "del_off"}
          /\ s = "appr_write" => proc[p].st = "appr_read"
    BY DEF At
  <1>2. /\ proc' \in [Slots -> Request]
        /\ \A q \in Slots : q # p => proc'[q] = proc[q]
        /\ proc'[p].st = s /\ proc'[p].actor = proc[p].actor
        /\ proc'[p].name = proc[p].name /\ proc'[p].team = proc[p].team
    BY <1>1, SlotGoto
  <1>3. RequestsOK'
    BY <1>1, <1>2 DEF RequestsOK
  <1> QED BY <1>1, <1>2, <1>3
LEMMA StartedKeeps ==
  ASSUME AccountInv, NEW p \in Slots, Started(p)
  PROVE  AccountInv'
  <1>0. /\ AccountTypeOK /\ RequestsOK /\ MembersExist /\ AdminRemains
        /\ FateOpen /\ SnapshotCurrent /\ RejectedStaysOut
    BY DEF AccountInv
  <1>1. /\ proc' \in [Slots -> Request]
        /\ \A q \in Slots : q # p => proc'[q] = proc[q]
        /\ proc'[p].st \in {"act_read", "del_read", "reg_open", "reg_approval",
                            "appr_read", "member_write"}
        /\ proc'[p].name \in AllNames
        /\ proc'[p].st = "act_read" =>
             proc'[p].actor \in AllNames /\ proc'[p].actor # proc'[p].name
        /\ proc'[p].st \in {"reg_open", "reg_approval"} => proc'[p].name \in Applicants
        /\ proc'[p].st = "appr_read" => proc'[p].name \in used
        /\ proc'[p].st = "member_write" => proc'[p].team \in Teams
        /\ requests' \in 0..MaxRequests
        /\ used' \subseteq used \cup Applicants
    BY <1>0, StartedSlot
  <1>2. UNCHANGED <<backend, acct, pending, mode, teams, members, overtaken, rejected,
                    admitted, demoted, raced>>
    BY <1>0, StartedSlot DEF tablesVars
  <1>3. AccountTypeOK'
    BY <1>0, <1>1, <1>2 DEF AccountTypeOK
  <1>4. RequestsOK'
    <2>1. used \subseteq Applicants
      BY <1>0 DEF AccountTypeOK
    <2> QED BY <1>0, <1>1, <2>1 DEF RequestsOK
  <1>5. MembersExist' /\ FateOpen' /\ RejectedStaysOut'
    BY <1>0, <1>2 DEF MembersExist, Exists, FateOpen, RejectedStaysOut
  <1>6. AdminRemains'
    BY <1>0, <1>2 DEF AdminRemains, ByAdmin, IsAdmin, Exists
  <1>7. SnapshotCurrent'
    BY <1>0, <1>1, <1>2, SnapshotsKept
  <1> QED BY <1>3, <1>4, <1>5, <1>6, <1>7 DEF AccountInv

(* A read, or a refused write: nothing but the request's slot changes. *)
LEMMA ReadKeeps ==
  ASSUME AccountInv, NEW p \in Slots, ActRead(p) \/ DelRead(p) \/ ApproveRead(p)
  PROVE  AccountInv'
  <1>0. /\ AccountTypeOK /\ RequestsOK /\ MembersExist /\ AdminRemains
        /\ FateOpen /\ SnapshotCurrent /\ RejectedStaysOut
    BY DEF AccountInv
  <1>1. UNCHANGED <<backend, acct, pending, mode, teams, members, overtaken, used, rejected,
                    admitted, demoted, raced, requests>>
    BY DEF ActRead, DelRead, ApproveRead, tablesVars, noteVars
  <1>2. \/ Answer(p)
        \/ At(p, "act_read") /\ Goto(p, "act_write")
        \/ At(p, "del_read") /\ Goto(p, "del_off")
        \/ At(p, "appr_read") /\ Goto(p, "appr_write") /\ proc[p].name \in pending
    BY DEF ActRead, DelRead, ApproveRead
  <1>3. /\ RequestsOK' /\ proc' \in [Slots -> Request]
        /\ \A q \in Slots : q # p => proc'[q] = proc[q]
        /\ proc'[p].st = "appr_write" => proc'[p].name \in pending
    <2>1. CASE Answer(p)
      BY <1>0, <2>1, AnswerOK
    <2>2. CASE \/ At(p, "act_read") /\ Goto(p, "act_write")
               \/ At(p, "del_read") /\ Goto(p, "del_off")
      <3>1. proc[p].st # "appr_read"
        BY <2>2 DEF At
      <3> QED BY <1>0, <2>2, <3>1, GotoOK
    <2>3. CASE At(p, "appr_read") /\ Goto(p, "appr_write") /\ proc[p].name \in pending
      BY <1>0, <2>3, GotoOK
    <2> QED BY <1>2, <2>1, <2>2, <2>3
  <1>4. AccountTypeOK'
    BY <1>0, <1>1, <1>3 DEF AccountTypeOK
  <1>5. MembersExist' /\ FateOpen' /\ RejectedStaysOut'
    BY <1>0, <1>1 DEF MembersExist, Exists, FateOpen, RejectedStaysOut
  <1>6. AdminRemains'
    BY <1>0, <1>1 DEF AdminRemains, ByAdmin, IsAdmin, Exists
  <1>7. SnapshotCurrent'
    BY <1>0, <1>1, <1>3, SnapshotsKept
  <1> QED BY <1>3, <1>4, <1>5, <1>6, <1>7 DEF AccountInv

(* A commit of a request in a slot: its effect on the tables is given. *)
LEMMA SlotCommit ==
  ASSUME AccountInv, NEW p \in Slots, Answer(p), Committed(p),
         UNCHANGED <<backend, mode, teams, used, requests>>,
         acct' \in [AllNames -> Account \cup {None}],
         pending' \subseteq Applicants, rejected' \subseteq Applicants,
         admitted' \subseteq Applicants, members' \subseteq Teams \X AllNames,
         demoted' \in BOOLEAN, raced' \in BOOLEAN
  PROVE  AccountTypeOK' /\ RequestsOK' /\ SnapshotCurrent'
  <1>0. AccountTypeOK /\ RequestsOK
    BY DEF AccountInv
  <1>1. /\ RequestsOK' /\ proc'[p].st = "idle" /\ proc' \in [Slots -> Request]
        /\ \A q \in Slots : q # p => proc'[q] = proc[q]
    BY <1>0, AnswerOK
  <1>2. SnapshotCurrent'
    BY <1>1, SnapshotsOvertaken
  <1>3. overtaken' \subseteq Slots
    BY CommittedType
  <1>4. AccountTypeOK'
    BY <1>0, <1>1, <1>3 DEF AccountTypeOK
  <1> QED BY <1>1, <1>2, <1>4

LEMMA ActWriteKeeps ==
  ASSUME AccountInv, NEW p \in Slots, ActWrite(p)
  PROVE  AccountInv'
  <1> DEFINE n == proc[p].name  a == proc[p].actor
  <1>0. /\ AccountTypeOK /\ RequestsOK /\ MembersExist /\ AdminRemains
        /\ FateOpen /\ SnapshotCurrent /\ RejectedStaysOut
    BY DEF AccountInv
  <1>1. n \in AllNames /\ a \in AllNames /\ a # n
    BY <1>0 DEF RequestsOK, ActWrite, At
  <1>2. UNCHANGED <<backend, pending, mode, teams, members, used, rejected, admitted,
                    demoted, requests>> /\ Answer(p) /\ Committed(p)
    BY DEF ActWrite
  <1>3. raced' = (raced \/ ~IsAdmin(a))
    BY DEF ActWrite
  <1>4. /\ acct' \in [AllNames -> Account \cup {None}]
        /\ \A m \in AllNames : m # n => acct'[m] = acct[m]
        /\ acct[n] # None => acct'[n] # None
    <2>1. CASE Exists(n)
      BY <1>0, <1>1, <2>1, ActiveChanged DEF ActWrite
    <2>2. CASE ~Exists(n)
      BY <1>0, <2>2 DEF ActWrite, AccountTypeOK, Exists
    <2> QED BY <2>1, <2>2
  <1>5. AdminRemains'
    <2>1. CASE IsAdmin(a)
      <3>1. PICK x \in AllNames : x = a
        BY <1>1
      <3>2. IsAdmin(x)'
        BY <1>1, <1>4, <2>1, <3>1 DEF IsAdmin, Exists
      <3> QED BY <3>2 DEF AdminRemains, ByAdmin
    <2>2. CASE ~IsAdmin(a)
      BY <1>3, <2>2 DEF AdminRemains
    <2> QED BY <2>1, <2>2
  <1>6. MembersExist'
    <2>1. \A m \in members' : m[2] \in AllNames
      BY <1>0, <1>2 DEF AccountTypeOK
    <2> QED BY <1>0, <1>2, <1>4, <2>1, MembersKept
  <1>7. FateOpen' /\ RejectedStaysOut'
    BY <1>0, <1>2 DEF FateOpen, RejectedStaysOut
  <1>8. raced' \in BOOLEAN
    BY <1>3
  <1>9. AccountTypeOK' /\ RequestsOK' /\ SnapshotCurrent'
    BY <1>0, <1>2, <1>4, <1>8, SlotCommit DEF AccountTypeOK
  <1> QED BY <1>5, <1>6, <1>7, <1>9 DEF AccountInv

LEMMA DelOffKeeps ==
  ASSUME AccountInv, NEW p \in Slots, DelOff(p)
  PROVE  AccountInv'
  <1> DEFINE n == proc[p].name
  <1>0. /\ AccountTypeOK /\ RequestsOK /\ MembersExist /\ AdminRemains
        /\ FateOpen /\ SnapshotCurrent /\ RejectedStaysOut
    BY DEF AccountInv
  <1>1. n \in AllNames
    BY <1>0 DEF RequestsOK, DelOff, At
  <1>2. UNCHANGED <<backend, pending, mode, teams, members, used, rejected, admitted,
                    raced, requests>> /\ At(p, "del_off") /\ Goto(p, "del_row") /\ Committed(p)
    BY DEF DelOff
  <1>3. demoted' = (demoted \/ acct' # acct)
    BY DEF DelOff
  <1>4. /\ acct' \in [AllNames -> Account \cup {None}]
        /\ \A m \in AllNames : acct[m] # None => acct'[m] # None
    <2>1. CASE acct' = acct
      BY <1>0, <2>1 DEF AccountTypeOK
    <2>2. CASE acct' # acct
      <3>1. Exists(n) /\ acct' = [acct EXCEPT ![n].active = FALSE]
        BY <2>2 DEF DelOff
      <3> QED BY <1>0, <1>1, <3>1, ActiveChanged
    <2> QED BY <2>1, <2>2
  <1>5. AdminRemains'
    <2>1. CASE acct' = acct
      BY <1>0, <1>2, <1>3, <2>1 DEF AdminRemains, ByAdmin, IsAdmin, Exists
    <2>2. CASE acct' # acct
      BY <1>3, <2>2 DEF AdminRemains
    <2> QED BY <2>1, <2>2
  <1>6. MembersExist'
    <2>1. \A m \in members' : m[2] \in AllNames
      BY <1>0, <1>2 DEF AccountTypeOK
    <2> QED BY <1>0, <1>2, <1>4, <2>1, MembersKept
  <1>7. FateOpen' /\ RejectedStaysOut'
    BY <1>0, <1>2 DEF FateOpen, RejectedStaysOut
  <1>8. /\ RequestsOK' /\ proc' \in [Slots -> Request]
        /\ \A q \in Slots : q # p => proc'[q] = proc[q]
        /\ proc'[p].st # "appr_write"
    BY <1>0, <1>2, GotoOK DEF At
  <1>9. SnapshotCurrent' /\ overtaken' \subseteq Slots
    BY <1>2, <1>8, SnapshotsOvertaken, CommittedType
  <1>10. demoted' \in BOOLEAN
    BY <1>3
  <1>11. AccountTypeOK'
    BY <1>0, <1>2, <1>4, <1>8, <1>9, <1>10 DEF AccountTypeOK
  <1> QED BY <1>5, <1>6, <1>7, <1>8, <1>9, <1>11 DEF AccountInv

LEMMA DelRowKeeps ==
  ASSUME AccountInv, NEW p \in Slots, DelRow(p)
  PROVE  AccountInv'
  <1> DEFINE n == proc[p].name
  <1>0. /\ AccountTypeOK /\ RequestsOK /\ MembersExist /\ AdminRemains
        /\ FateOpen /\ SnapshotCurrent /\ RejectedStaysOut
    BY DEF AccountInv
  <1>1. /\ UNCHANGED <<backend, pending, mode, teams, used, rejected, admitted, raced, requests>>
        /\ Answer(p) /\ Committed(p) /\ demoted' = TRUE
        /\ acct' = [acct EXCEPT ![n] = None] /\ members' = {m \in members : m[2] # n}
    BY DEF DelRow, WithoutUser
  <1>2. /\ acct' \in [AllNames -> Account \cup {None}]
        /\ \A m \in AllNames : m # n => acct'[m] = acct[m]
    BY <1>0, <1>1 DEF AccountTypeOK
  <1>3. MembersExist'
    <2>1. \A m \in members' : m[2] \in AllNames /\ m[2] # n
      BY <1>0, <1>1 DEF AccountTypeOK
    <2> QED BY <1>0, <1>1, <1>2, <2>1, MembersKept
  <1>4. AdminRemains' /\ FateOpen' /\ RejectedStaysOut'
    BY <1>0, <1>1 DEF AdminRemains, FateOpen, RejectedStaysOut
  <1>5. AccountTypeOK' /\ RequestsOK' /\ SnapshotCurrent'
    BY <1>0, <1>1, <1>2, SlotCommit DEF AccountTypeOK
  <1> QED BY <1>3, <1>4, <1>5 DEF AccountInv

LEMMA RegisterKeeps ==
  ASSUME AccountInv, NEW p \in Slots, RegisterOpen(p) \/ RegisterPending(p)
  PROVE  AccountInv'
  <1> DEFINE n == proc[p].name
  <1>0. /\ AccountTypeOK /\ RequestsOK /\ MembersExist /\ AdminRemains
        /\ FateOpen /\ SnapshotCurrent /\ RejectedStaysOut
    BY DEF AccountInv
  <1>1. /\ UNCHANGED <<backend, mode, teams, members, used, demoted, raced, requests>>
        /\ Answer(p) /\ Committed(p) /\ proc[p].st \in {"reg_open", "reg_approval"}
    BY DEF RegisterOpen, RegisterPending, noteVars, At
  <1>2. n \in Applicants /\ n \in AllNames
    BY <1>0, <1>1 DEF RequestsOK
  <1>3. /\ acct' \in [AllNames -> Account \cup {None}]
        /\ \A m \in AllNames : acct[m] # None => acct'[m] = acct[m]
    <2>1. CASE acct' = acct
      BY <1>0, <2>1 DEF AccountTypeOK
    <2>2. CASE acct' # acct
      <3>1. ~Exists(n) /\ acct' = [acct EXCEPT ![n] = [role |-> "user", active |-> TRUE]]
        BY <2>2 DEF RegisterOpen, RegisterPending
      <3> QED BY <1>0, <1>2, <3>1, AccountAdded
    <2> QED BY <2>1, <2>2
  <1>4. \/ UNCHANGED <<pending, rejected, admitted>>
        \/ /\ pending' = pending \cup {n} /\ rejected' = rejected \ {n}
           /\ admitted' = admitted \ {n}
    BY DEF RegisterOpen, RegisterPending, noteVars
  <1>5. FateOpen' /\ RejectedStaysOut'
    BY <1>0, <1>1, <1>4 DEF FateOpen, RejectedStaysOut
  <1>6. AdminRemains'
    <2>1. \A m \in AllNames : IsAdmin(m) => IsAdmin(m)'
      BY <1>3 DEF IsAdmin, Exists
    <2> QED BY <1>0, <1>1, <2>1, AdminsKept
  <1>7. MembersExist'
    <2>1. \A m \in members' : m[2] \in AllNames
      BY <1>0, <1>1 DEF AccountTypeOK
    <2> QED BY <1>0, <1>1, <1>3, <2>1, MembersKept
  <1>8. pending' \subseteq Applicants /\ rejected' \subseteq Applicants /\ admitted' \subseteq Applicants
    BY <1>0, <1>2, <1>4 DEF AccountTypeOK
  <1>9. AccountTypeOK' /\ RequestsOK' /\ SnapshotCurrent'
    BY <1>0, <1>1, <1>3, <1>8, SlotCommit DEF AccountTypeOK
  <1> QED BY <1>5, <1>6, <1>7, <1>9 DEF AccountInv

LEMMA ApproveWriteKeeps ==
  ASSUME AccountInv, NEW p \in Slots, ApproveWrite(p)
  PROVE  AccountInv'
  <1> DEFINE n == proc[p].name
  <1>0. /\ AccountTypeOK /\ RequestsOK /\ MembersExist /\ AdminRemains
        /\ FateOpen /\ SnapshotCurrent /\ RejectedStaysOut
    BY DEF AccountInv
  <1>1. /\ UNCHANGED <<backend, mode, teams, members, used, rejected, demoted, raced, requests>>
        /\ Answer(p) /\ At(p, "appr_write")
    BY DEF ApproveWrite
  <1>2. n \in Applicants /\ n \in AllNames
    BY <1>0, <1>1 DEF RequestsOK, At
  <1>3. CASE /\ CanCommit(p) /\ ~Exists(n)
             /\ acct' = [acct EXCEPT ![n] = [role |-> "user", active |-> TRUE]]
             /\ pending' = pending \ {n} /\ admitted' = admitted \cup {n}
             /\ Committed(p)
    <2>1. /\ acct' \in [AllNames -> Account \cup {None}]
          /\ \A m \in AllNames : acct[m] # None => acct'[m] = acct[m]
      BY <1>0, <1>2, <1>3, AccountAdded
    <2>2. FateOpen'
      BY <1>0, <1>1, <1>3 DEF FateOpen
    <2>3. RejectedStaysOut'
      <3>1. backend = "sqlite" => n \in pending
        BY <1>0, <1>1, <1>3 DEF SnapshotCurrent, CanCommit
      <3> QED BY <1>0, <1>1, <1>3, <3>1 DEF FateOpen, RejectedStaysOut
    <2>4. AdminRemains'
      <3>1. \A m \in AllNames : IsAdmin(m) => IsAdmin(m)'
        BY <2>1 DEF IsAdmin, Exists
      <3> QED BY <1>0, <1>1, <3>1, AdminsKept
    <2>5. MembersExist'
      <3>1. \A m \in members' : m[2] \in AllNames
        BY <1>0, <1>1 DEF AccountTypeOK
      <3> QED BY <1>0, <1>1, <2>1, <3>1, MembersKept
    <2>6. pending' \subseteq Applicants /\ admitted' \subseteq Applicants
      BY <1>0, <1>2, <1>3 DEF AccountTypeOK
    <2>7. AccountTypeOK' /\ RequestsOK' /\ SnapshotCurrent'
      BY <1>0, <1>1, <1>3, <2>1, <2>6, SlotCommit DEF AccountTypeOK
    <2> QED BY <2>2, <2>3, <2>4, <2>5, <2>7 DEF AccountInv
  <1>4. CASE overtaken' = overtaken \ {p} /\ UNCHANGED <<acct, pending, admitted>>
    <2>1. /\ RequestsOK' /\ proc'[p].st = "idle" /\ proc' \in [Slots -> Request]
          /\ \A q \in Slots : q # p => proc'[q] = proc[q]
      BY <1>0, <1>1, AnswerOK
    <2>2. SnapshotCurrent'
      BY <1>0, <1>1, <1>4, <2>1 DEF SnapshotCurrent, At
    <2>3. MembersExist' /\ FateOpen' /\ RejectedStaysOut'
      BY <1>0, <1>1, <1>4 DEF MembersExist, Exists, FateOpen, RejectedStaysOut
    <2>4. AdminRemains'
      BY <1>0, <1>1, <1>4 DEF AdminRemains, ByAdmin, IsAdmin, Exists
    <2>5. AccountTypeOK'
      BY <1>0, <1>1, <1>4, <2>1 DEF AccountTypeOK
    <2> QED BY <2>1, <2>2, <2>3, <2>4, <2>5 DEF AccountInv
  <1> QED BY <1>3, <1>4 DEF ApproveWrite

LEMMA MemberWriteKeeps ==
  ASSUME AccountInv, NEW p \in Slots, MemberWrite(p)
  PROVE  AccountInv'
  <1> DEFINE n == proc[p].name  t == proc[p].team
  <1>0. /\ AccountTypeOK /\ RequestsOK /\ MembersExist /\ AdminRemains
        /\ FateOpen /\ SnapshotCurrent /\ RejectedStaysOut
    BY DEF AccountInv
  <1>1. /\ UNCHANGED <<backend, acct, pending, mode, teams, used, rejected, admitted, demoted,
                       raced, requests>>
        /\ Answer(p) /\ Committed(p)
        /\ members' = IF MemberOk(t, n) THEN members \cup {<<t, n>>} ELSE members
    BY DEF MemberWrite, noteVars
  <1>2. n \in AllNames /\ t \in Teams
    BY <1>0 DEF RequestsOK, MemberWrite, At
  <1>3. MembersExist'
    BY <1>0, <1>1 DEF MembersExist, MemberOk, Exists
  <1>4. FateOpen' /\ RejectedStaysOut'
    BY <1>0, <1>1 DEF FateOpen, RejectedStaysOut
  <1>5. AdminRemains'
    BY <1>0, <1>1 DEF AdminRemains, ByAdmin, IsAdmin, Exists
  <1>6. members' \subseteq Teams \X AllNames
    BY <1>0, <1>1, <1>2 DEF AccountTypeOK
  <1>7. AccountTypeOK' /\ RequestsOK' /\ SnapshotCurrent'
    BY <1>0, <1>1, <1>6, SlotCommit DEF AccountTypeOK
  <1> QED BY <1>3, <1>4, <1>5, <1>7 DEF AccountInv
(* A handler of one write; its slot plays no part. *)
LEMMA SingleCommit ==
  ASSUME AccountInv, Committed(None), UNCHANGED <<backend, mode, proc>>,
         acct' \in [AllNames -> Account \cup {None}], requests' \in 0..MaxRequests,
         pending' \subseteq Applicants, rejected' \subseteq Applicants,
         used' \subseteq Applicants, admitted' = admitted,
         members' \subseteq Teams \X AllNames, teams' \subseteq Teams,
         demoted' \in BOOLEAN, raced' = raced
  PROVE  AccountTypeOK' /\ RequestsOK' /\ SnapshotCurrent'
  <1>0. AccountTypeOK /\ RequestsOK /\ None \notin Slots
    BY AccountsAssumption DEF AccountInv
  <1>1. RequestsOK'
    BY <1>0 DEF RequestsOK
  <1>2. SnapshotCurrent'
    BY <1>0, SnapshotsOvertaken
  <1>3. overtaken' \subseteq Slots
    BY CommittedType
  <1>4. AccountTypeOK'
    BY <1>0, <1>3 DEF AccountTypeOK
  <1> QED BY <1>1, <1>2, <1>4

LEMMA CountType ==
  ASSUME AccountTypeOK, Count
  PROVE  requests' \in 0..MaxRequests
  BY AccountsAssumption DEF AccountTypeOK, Count

(* create_user, update_user_role and reactivation by an administrator. *)
LEMMA UserWriteKeeps ==
  ASSUME AccountInv, NEW n \in AllNames,
         \/ \E role \in {"user", "admin"} : CreateUser(n, role) \/ ChangeRole(n, role)
         \/ Reactivate(n)
  PROVE  AccountInv'
  <1>0. /\ AccountTypeOK /\ RequestsOK /\ MembersExist /\ AdminRemains
        /\ FateOpen /\ SnapshotCurrent /\ RejectedStaysOut
    BY DEF AccountInv
  <1>1. /\ UNCHANGED <<backend, pending, mode, teams, members, proc, rejected, admitted, raced>>
        /\ Committed(None) /\ Count
    BY DEF CreateUser, ChangeRole, Reactivate, noteVars
  <1>2. used' \subseteq Applicants /\ demoted' \in BOOLEAN /\ (demoted => demoted')
    BY <1>0 DEF CreateUser, ChangeRole, Reactivate, noteVars, AccountTypeOK
  <1>3. /\ acct' \in [AllNames -> Account \cup {None}]
        /\ \A m \in AllNames : acct[m] # None => acct'[m] # None
        /\ \A m \in AllNames : IsAdmin(m) => IsAdmin(m)' \/ demoted'
    <2>1. ASSUME NEW role \in {"user", "admin"}, CreateUser(n, role)
          PROVE  <1>3!1 /\ <1>3!2 /\ <1>3!3
      <3>1. /\ acct' \in [AllNames -> Account \cup {None}]
            /\ \A m \in AllNames : acct[m] # None => acct'[m] = acct[m]
        BY <1>0, <2>1, AccountAdded DEF CreateUser
      <3> QED BY <3>1 DEF IsAdmin, Exists
    <2>2. ASSUME NEW role \in {"user", "admin"}, ChangeRole(n, role)
          PROVE  <1>3!1 /\ <1>3!2 /\ <1>3!3
      <3>1. /\ acct' \in [AllNames -> Account \cup {None}]
            /\ \A m \in AllNames : m # n => acct'[m] = acct[m]
            /\ acct'[n] # None /\ acct'[n].role = role /\ acct'[n].active = acct[n].active
        BY <1>0, <2>2, RoleChanged DEF ChangeRole
      <3>2. demoted' = (demoted \/ role = "user")
        BY <2>2 DEF ChangeRole
      <3>3. ASSUME NEW m \in AllNames, IsAdmin(m)
            PROVE  IsAdmin(m)' \/ demoted'
        <4>1. CASE m # n
          BY <3>1, <3>3, <4>1 DEF IsAdmin, Exists
        <4>2. CASE m = n /\ role = "admin"
          BY <3>1, <3>3, <4>2 DEF IsAdmin, Exists
        <4>3. CASE role = "user"
          BY <3>2, <4>3
        <4> QED BY <4>1, <4>2, <4>3
      <3> QED BY <3>1, <3>3
    <2>3. ASSUME Reactivate(n)
          PROVE  <1>3!1 /\ <1>3!2 /\ <1>3!3
      <3>1. /\ acct' \in [AllNames -> Account \cup {None}]
            /\ \A m \in AllNames : m # n => acct'[m] = acct[m]
            /\ acct'[n] # None /\ acct'[n].role = acct[n].role /\ acct'[n].active = TRUE
        BY <1>0, <2>3, ActiveChanged DEF Reactivate
      <3> QED BY <3>1 DEF IsAdmin, Exists
    <2> QED BY <2>1, <2>2, <2>3
  <1>4. AdminRemains'
    BY <1>0, <1>1, <1>2, <1>3, AdminsKept
  <1>5. MembersExist'
    <2>1. \A m \in members' : m[2] \in AllNames
      BY <1>0, <1>1 DEF AccountTypeOK
    <2> QED BY <1>0, <1>1, <1>3, <2>1, MembersKept
  <1>6. FateOpen' /\ RejectedStaysOut'
    BY <1>0, <1>1 DEF FateOpen, RejectedStaysOut
  <1>7. requests' \in 0..MaxRequests
    BY <1>0, <1>1, CountType
  <1>8. AccountTypeOK' /\ RequestsOK' /\ SnapshotCurrent'
    BY <1>0, <1>1, <1>2, <1>3, <1>7, SingleCommit DEF AccountTypeOK
  <1> QED BY <1>4, <1>5, <1>6, <1>8 DEF AccountInv

(* Rejections, the weekly cleanup and the team handlers: accounts stay. *)
LEMMA OtherWriteKeeps ==
  ASSUME AccountInv,
         \/ \E n \in AllNames : Reject(n)
         \/ \E t \in Teams : \/ CreateTeam(t) \/ DeleteTeam(t)
                             \/ \E n \in AllNames : RemoveMember(t, n)
         \/ CleanupPending
  PROVE  AccountInv'
  <1>0. /\ AccountTypeOK /\ RequestsOK /\ MembersExist /\ AdminRemains
        /\ FateOpen /\ SnapshotCurrent /\ RejectedStaysOut
    BY DEF AccountInv
  <1>1. UNCHANGED <<backend, acct, mode, proc, used, admitted, demoted, raced>> /\ Committed(None)
    BY DEF Reject, CreateTeam, DeleteTeam, RemoveMember, CleanupPending, noteVars
  <1>2. Count \/ requests' = requests
    BY DEF Reject, CreateTeam, DeleteTeam, RemoveMember, CleanupPending
  <1>3. \/ \E n \in AllNames : /\ n \in pending /\ pending' = pending \ {n}
                               /\ rejected' = rejected \cup {n}
                               /\ UNCHANGED <<teams, members>>
        \/ pending' = {} /\ UNCHANGED <<rejected, teams, members>>
        \/ /\ UNCHANGED <<pending, rejected>>
           /\ \/ \E t \in Teams : teams' = teams \cup {t} /\ members' = members
              \/ \E t \in Teams : teams' = teams \ {t} /\ members' = {m \in members : m[1] # t}
              \/ \E t \in Teams, n \in AllNames : members' = members \ {<<t, n>>} /\ teams' = teams
    BY DEF Reject, CreateTeam, DeleteTeam, RemoveMember, CleanupPending, noteVars
  <1>4. /\ pending' \subseteq Applicants /\ rejected' \subseteq Applicants
        /\ teams' \subseteq Teams /\ members' \subseteq members
        /\ \A m \in members' : m[1] \in teams => m[1] \in teams'
    BY <1>0, <1>3 DEF AccountTypeOK
  <1>5. FateOpen' /\ RejectedStaysOut'
    BY <1>0, <1>1, <1>3 DEF FateOpen, RejectedStaysOut
  <1>6. MembersExist'
    BY <1>0, <1>1, <1>4, MembersKept
  <1>7. AdminRemains'
    BY <1>0, <1>1 DEF AdminRemains, ByAdmin, IsAdmin, Exists
  <1>8. requests' \in 0..MaxRequests
    BY <1>0, <1>2, CountType DEF AccountTypeOK
  <1>9. AccountTypeOK' /\ RequestsOK' /\ SnapshotCurrent'
    BY <1>0, <1>1, <1>4, <1>8, SingleCommit DEF AccountTypeOK
  <1> QED BY <1>5, <1>6, <1>7, <1>9 DEF AccountInv

(* The OIDC requests leave the tables alone; a setting is changed by one. *)
LEMMA OidcKeepsAccounts ==
  ASSUME AccountInv, OidcNext \/ UNCHANGED vars
  PROVE  AccountInv'
  <1>0. /\ AccountTypeOK /\ RequestsOK /\ MembersExist /\ AdminRemains
        /\ FateOpen /\ SnapshotCurrent /\ RejectedStaysOut
    BY DEF AccountInv
  <1> DEFINE Same == UNCHANGED <<backend, acct, pending, teams, members, proc, overtaken,
                                 used, rejected, admitted, demoted, raced>>
             Tab == Same /\ mode' \in {mode, "open", "approval", "closed"}
                      /\ (Count \/ requests' = requests)
  <1>1. ASSUME NEW f \in Flows, OidcStep(f) PROVE Tab
    BY <1>1 DEF OidcStep, DiscoveryCached, DiscoveryFetched, StateIssued, ExchangeCode,
                UserInfo, FindUser, CreateOidcUser, CreateRefused, StoreLogin, accountVars,
                tablesVars, noteVars
  <1>2. ASSUME NEW f \in Flows, Authorize(f) \/ \E s \in States : Callback(f, s) PROVE Tab
    BY <1>2 DEF Authorize, Callback, FlowBegin, tablesVars, noteVars
  <1>3. ASSUME NEW i \in Issuers \cup {None}, UpdateIssuer(i) PROVE Tab
    BY <1>3 DEF UpdateIssuer, tablesVars, noteVars
  <1>4. ASSUME NEW m \in {"open", "approval", "closed"}, UpdateMode(m) PROVE Tab
    BY <1>4 DEF UpdateMode, noteVars
  <1>5. ASSUME IssuerUpdated \/ Expire \/ UNCHANGED vars PROVE Tab
    BY <1>5 DEF IssuerUpdated, Expire, vars, accountVars, tablesVars, noteVars
  <1>6. Tab
    <2> HIDE DEF Tab
    <2> QED BY <1>1, <1>2, <1>3, <1>4, <1>5 DEF OidcNext
  <1>7. requests' \in 0..MaxRequests /\ mode' \in {"open", "approval", "closed"}
    BY <1>0, <1>6, CountType DEF AccountTypeOK
  <1>8. AccountTypeOK'
    BY <1>0, <1>6, <1>7 DEF AccountTypeOK
  <1>9. RequestsOK' /\ SnapshotCurrent'
    BY <1>0, <1>6 DEF RequestsOK, SnapshotCurrent, At
  <1>10. MembersExist' /\ FateOpen' /\ RejectedStaysOut'
    BY <1>0, <1>6 DEF MembersExist, Exists, FateOpen, RejectedStaysOut
  <1>11. AdminRemains'
    BY <1>0, <1>6 DEF AdminRemains, ByAdmin, IsAdmin, Exists
  <1> QED BY <1>8, <1>9, <1>10, <1>11 DEF AccountInv

LEMMA AccountInvNext ==
  ASSUME AccountInv, [Next]_vars
  PROVE  AccountInv'
  <1>1. CASE AccountNext
    <2>1. ASSUME NEW p \in Slots, AccountStep(p) PROVE AccountInv'
      BY <2>1, ReadKeeps, ActWriteKeeps, DelOffKeeps, DelRowKeeps, RegisterKeeps,
         ApproveWriteKeeps, MemberWriteKeeps DEF AccountStep
    <2>2. ASSUME NEW p \in Slots, NEW n \in AllNames,
                 \/ \E a \in AllNames : Deactivate(p, a, n)
                 \/ DeleteUser(p, n) \/ Register(p, n) \/ Approve(p, n)
                 \/ \E t \in Teams : AddMember(p, t, n)
          PROVE  AccountInv'
      <3>1. Started(p)
        BY <2>2 DEF Started
      <3> QED BY <3>1, StartedKeeps
    <2>3. ASSUME NEW n \in AllNames,
                 \/ \E role \in {"user", "admin"} : CreateUser(n, role) \/ ChangeRole(n, role)
                 \/ Reactivate(n)
          PROVE  AccountInv'
      BY <2>3, UserWriteKeeps
    <2>4. ASSUME \/ \E n \in AllNames : Reject(n)
                 \/ \E t \in Teams : \/ CreateTeam(t) \/ DeleteTeam(t)
                                     \/ \E n \in AllNames : RemoveMember(t, n)
                 \/ CleanupPending
          PROVE  AccountInv'
      BY <2>4, OtherWriteKeeps
    <2> QED BY <1>1, <2>1, <2>2, <2>3, <2>4 DEF AccountNext
  <1>2. CASE OidcNext \/ UNCHANGED vars
    BY <1>2, OidcKeepsAccounts
  <1> QED BY <1>1, <1>2 DEF Next

LEMMA AccountInvariant == Spec => []AccountInv
  <1>1. Init => AccountInv
    BY AccountInvInit DEF Init
  <1> QED BY <1>1, AccountInvNext, PTL DEF Spec

(* Team members are members of existing teams with existing accounts, though *)
(* admin_delete_user or admin_delete_team may run while admin_add_team_member *)
(* is between its lookups and its write.                                     *)
THEOREM MembersAlwaysExist == Spec => []MembersExist
  <1>1. AccountInv => MembersExist
    BY DEF AccountInv
  <1> QED BY <1>1, AccountInvariant, PTL

(* On SQLite no registration is both rejected and approved, however          *)
(* admin_approve_pending and admin_reject_pending interleave.                *)
THEOREM RejectionIsFinal == Spec => []RejectedStaysOut
  <1>1. AccountInv => RejectedStaysOut
    BY DEF AccountInv
  <1> QED BY <1>1, AccountInvariant, PTL

(* admin_set_user_active never deactivates the last administrator, unless an *)
(* administrator deactivated after being authorised still writes.            *)
THEOREM AnAdminRemains == Spec => []AdminRemains
  <1>1. AccountInv => AdminRemains
    BY DEF AccountInv
  <1> QED BY <1>1, AccountInvariant, PTL
-----------------------------------------------------------------------------
(* The OIDC requests                                                         *)

Docs == Issuers \cup {None}

Flow == [kind : {"none", "authorize", "callback"},
         st : {"idle", "cache", "fetch", "state", "exchange", "userinfo", "find",
               "create", "refused", "store"},
         iss : Docs, doc : Docs, state : States \cup {None}, sub : Subjects \cup {None}]

OidcTypeOK ==
  /\ issuer \in Docs /\ cache \in Docs /\ states \subseteq States
  /\ codeOf \in [States -> (Docs \X Subjects) \cup {None}]
  /\ flow \in [Flows -> Flow] /\ logins \in [States -> Nat]

(* A callback holds a state the provider answered for; the steps after the   *)
(* discovery of a callback are a callback's.                                 *)
CallbackHasCode ==
  \A f \in Flows :
    /\ flow[f].kind = "callback" => flow[f].state \in States /\ codeOf[flow[f].state] # None
    /\ flow[f].st \in {"exchange", "userinfo", "find", "create", "refused", "store"} =>
         flow[f].kind = "callback"
    /\ flow[f].kind = "none" => flow[f].st = "idle"

(* A document being fetched is the configured issuer's, or the setting has   *)
(* changed since the fetch began.                                            *)
FetchCurrent ==
  \A f \in Flows : FlowAt(f, "fetch") => flow[f].doc = issuer \/ f \in stale

(* A state is in the store, or with one callback, or used: never two.        *)
StateConsumed ==
  \A s \in States :
    /\ s \in states => codeOf[s] # None
    /\ s \in states \/ codeOf[s] = None \/ logins[s] # 0 => \A f \in Flows : flow[f].state # s
    /\ s \in states \/ codeOf[s] = None => logins[s] = 0
    /\ logins[s] <= 1
    /\ \A f, g \in Flows : flow[f].state = s /\ flow[g].state = s => f = g

OidcInv == /\ OidcTypeOK /\ CallbackHasCode
           /\ FetchCurrent /\ DiscoveryFollowsIssuer /\ StateConsumed

LEMMA NoFlowType ==
  /\ NoFlow \in Flow /\ NoFlow.kind = "none" /\ NoFlow.st = "idle" /\ NoFlow.state = None
  BY DEF NoFlow, Flow, Docs

LEMMA OidcInvInit == Init => OidcInv
  <1> SUFFICES ASSUME Init PROVE OidcInv
    OBVIOUS
  <1>1. OidcTypeOK
    BY NoFlowType DEF Init, OidcTypeOK, Docs
  <1>2. \A f \in Flows : flow[f] = NoFlow
    BY DEF Init
  <1>3. CallbackHasCode /\ FetchCurrent
    BY <1>2, NoFlowType DEF CallbackHasCode, FetchCurrent, FlowAt
  <1>4. \A s \in States : logins[s] = 0 /\ s \notin states
    BY DEF Init
  <1>5. StateConsumed
    BY <1>2, <1>4, NoFlowType, OidcAssumption DEF StateConsumed
  <1>6. DiscoveryFollowsIssuer
    BY DEF Init, DiscoveryFollowsIssuer
  <1> QED BY <1>1, <1>3, <1>5, <1>6 DEF OidcInv

LEMMA FlowSet ==
  ASSUME OidcTypeOK, NEW f \in Flows, NEW r \in Flow, flow' = [flow EXCEPT ![f] = r]
  PROVE  flow' \in [Flows -> Flow] /\ \A g \in Flows : flow'[g] = IF g = f THEN r ELSE flow[g]
  BY DEF OidcTypeOK

(* A step that gives no flow another state consumes none. *)
LEMMA StatesKept ==
  ASSUME StateConsumed, UNCHANGED <<codeOf, logins>>, states' \subseteq states,
         \A g \in Flows : flow'[g].state \in {flow[g].state, None}
  PROVE  StateConsumed'
  <1>1. None \notin States
    BY OidcAssumption
  <1> QED BY <1>1 DEF StateConsumed

(* Flow f goes on, or ends, with its state: the frame of most steps. *)
LEMMA FlowGoesOn ==
  ASSUME OidcInv, NEW f \in Flows, NEW r \in Flow, flow' = [flow EXCEPT ![f] = r],
         UNCHANGED <<issuer, cache, states, codeOf, clearing, stale, logins>>,
         \/ r = NoFlow
         \/ /\ r.kind = flow[f].kind /\ r.state = flow[f].state /\ r.kind = "callback"
            /\ r.st # "fetch"
  PROVE  OidcInv'
  <1>0. /\ OidcTypeOK /\ CallbackHasCode
        /\ FetchCurrent /\ DiscoveryFollowsIssuer /\ StateConsumed
    BY DEF OidcInv
  <1>1. flow' \in [Flows -> Flow] /\ \A g \in Flows : flow'[g] = IF g = f THEN r ELSE flow[g]
    BY <1>0, FlowSet
  <1>2. OidcTypeOK'
    BY <1>0, <1>1 DEF OidcTypeOK
  <1>3. CallbackHasCode'
    BY <1>0, <1>1, NoFlowType DEF CallbackHasCode
  <1>4. FetchCurrent'
    BY <1>0, <1>1, NoFlowType DEF FetchCurrent, FlowAt
  <1>5. DiscoveryFollowsIssuer'
    BY <1>0 DEF DiscoveryFollowsIssuer
  <1>6. StateConsumed'
    <2>1. \A g \in Flows : flow'[g].state \in {flow[g].state, None}
      BY <1>1, NoFlowType
    <2> QED BY <1>0, <2>1, StatesKept
  <1> QED BY <1>2, <1>3, <1>4, <1>5, <1>6 DEF OidcInv

LEMMA FlowStType ==
  ASSUME OidcTypeOK, NEW f \in Flows,
         NEW s \in {"fetch", "state", "exchange", "userinfo", "find", "create", "refused", "store"},
         NEW r, r = [flow[f] EXCEPT !.st = s]
  PROVE  /\ r \in Flow /\ r.st = s /\ r.kind = flow[f].kind /\ r.state = flow[f].state
         /\ r.doc = flow[f].doc
  <1>1. flow[f] \in Flow
    BY DEF OidcTypeOK
  <1> QED BY <1>1 DEF Flow

(* exchange_code, find_user_by_oidc, create_oidc_user and its refusal. *)
LEMMA PlainStepKeeps ==
  ASSUME OidcInv, NEW f \in Flows,
         ExchangeCode(f) \/ FindUser(f) \/ CreateOidcUser(f) \/ CreateRefused(f)
  PROVE  OidcInv'
  <1>0. OidcTypeOK /\ CallbackHasCode
    BY DEF OidcInv
  <1>1. UNCHANGED <<issuer, cache, states, codeOf, clearing, stale, logins>>
    BY DEF ExchangeCode, FindUser, CreateOidcUser, CreateRefused
  <1>2. flow[f].kind = "callback"
    BY <1>0 DEF CallbackHasCode, ExchangeCode, FindUser, CreateOidcUser, CreateRefused, FlowAt
  <1>3. FlowEnds(f) \/ \E s \in {"userinfo", "create", "store", "refused"} : FlowGoto(f, s)
    BY DEF ExchangeCode, FindUser, CreateOidcUser, CreateRefused
  <1>4. CASE FlowEnds(f)
    BY <1>1, <1>4, NoFlowType, FlowGoesOn DEF FlowEnds
  <1>5. ASSUME NEW s \in {"userinfo", "create", "store", "refused"}, FlowGoto(f, s)
        PROVE  OidcInv'
    <2>1. PICK r : r = [flow[f] EXCEPT !.st = s]
      OBVIOUS
    <2>2. flow' = [flow EXCEPT ![f] = r]
      BY <1>5, <2>1 DEF FlowGoto
    <2>3. r \in Flow /\ r.st = s /\ r.kind = flow[f].kind /\ r.state = flow[f].state
      BY <1>0, <2>1, FlowStType
    <2> QED BY <1>1, <1>2, <2>2, <2>3, FlowGoesOn
  <1> QED BY <1>3, <1>4, <1>5

LEMMA UserInfoKeeps ==
  ASSUME OidcInv, NEW f \in Flows, UserInfo(f)
  PROVE  OidcInv'
  <1>0. OidcTypeOK /\ CallbackHasCode
    BY DEF OidcInv
  <1>1. UNCHANGED <<issuer, cache, states, codeOf, clearing, stale, logins>>
    BY DEF UserInfo
  <1>2. /\ flow[f].kind = "callback" /\ flow[f].state \in States
        /\ codeOf[flow[f].state] # None /\ flow[f] \in Flow
    BY <1>0 DEF CallbackHasCode, UserInfo, FlowAt, OidcTypeOK
  <1>3. codeOf[flow[f].state][2] \in Subjects
    BY <1>0, <1>2 DEF OidcTypeOK
  <1>4. CASE FlowEnds(f)
    BY <1>1, <1>4, NoFlowType, FlowGoesOn DEF FlowEnds
  <1>5. CASE flow' = [flow EXCEPT ![f].sub = codeOf[flow[f].state][2], ![f].st = "find"]
    <2> DEFINE r == [flow[f] EXCEPT !.sub = codeOf[flow[f].state][2], !.st = "find"]
    <2>1. r \in Flow /\ r.st = "find" /\ r.kind = flow[f].kind /\ r.state = flow[f].state
      BY <1>2, <1>3 DEF Flow
    <2>2. flow' = [flow EXCEPT ![f] = r]
      BY <1>0, <1>5 DEF OidcTypeOK
    <2> HIDE DEF r
    <2> QED BY <1>1, <1>2, <2>1, <2>2, FlowGoesOn
  <1> QED BY <1>4, <1>5 DEF UserInfo

LEMMA StoreLoginKeeps ==
  ASSUME OidcInv, NEW f \in Flows, StoreLogin(f)
  PROVE  OidcInv'
  <1>0. /\ OidcTypeOK /\ CallbackHasCode
        /\ FetchCurrent /\ DiscoveryFollowsIssuer /\ StateConsumed
    BY DEF OidcInv
  <1>1. UNCHANGED <<issuer, cache, states, codeOf, clearing, stale>> /\ FlowEnds(f)
    BY DEF StoreLogin
  <1> DEFINE s == flow[f].state
  <1>2. s \in States /\ codeOf[s] # None
    BY <1>0 DEF CallbackHasCode, StoreLogin, FlowAt
  <1>3. s \notin states /\ logins[s] = 0
    BY <1>0, <1>2 DEF StateConsumed
  <1>4. flow' \in [Flows -> Flow] /\ \A g \in Flows : flow'[g] = IF g = f THEN NoFlow ELSE flow[g]
    BY <1>0, <1>1, NoFlowType, FlowSet DEF FlowEnds
  <1>5. logins' = logins \/ logins' = [logins EXCEPT ![s] = @ + 1]
    BY DEF StoreLogin
  <1>6. OidcTypeOK'
    BY <1>0, <1>1, <1>4, <1>5 DEF OidcTypeOK
  <1>7. CallbackHasCode'
    BY <1>0, <1>1, <1>4, NoFlowType DEF CallbackHasCode
  <1>8. FetchCurrent'
    BY <1>0, <1>1, <1>4, NoFlowType DEF FetchCurrent, FlowAt
  <1>9. DiscoveryFollowsIssuer'
    BY <1>0, <1>1 DEF DiscoveryFollowsIssuer
  <1>10. StateConsumed'
    <2>0. None \notin States
      BY OidcAssumption
    <2>1. PICK x \in States : x = s
      BY <1>2
    <2>2. \A g \in Flows : flow'[g].state # x
      BY <1>0, <1>4, <2>0, <2>1, NoFlowType DEF StateConsumed
    <2>3. \A y \in States : y # x => logins'[y] = logins[y]
      BY <1>0, <1>5, <2>1 DEF OidcTypeOK
    <2>4. logins'[x] \in {0, 1}
      BY <1>0, <1>2, <1>3, <1>5, <2>1 DEF OidcTypeOK
    <2>5. ASSUME NEW y \in States, y # x
          PROVE  /\ y \in states' => codeOf'[y] # None
                 /\ y \in states' \/ codeOf'[y] = None \/ logins'[y] # 0 =>
                      \A g \in Flows : flow'[g].state # y
                 /\ y \in states' \/ codeOf'[y] = None => logins'[y] = 0
                 /\ logins'[y] <= 1
                 /\ \A g, h \in Flows : flow'[g].state = y /\ flow'[h].state = y => g = h
      BY <1>0, <1>1, <1>4, <2>0, <2>3, <2>5, NoFlowType DEF StateConsumed
    <2>6. /\ x \notin states' /\ codeOf'[x] # None /\ logins'[x] <= 1
      BY <1>1, <1>2, <1>3, <2>1, <2>4
    <2> QED BY <2>2, <2>5, <2>6 DEF StateConsumed
  <1> QED BY <1>6, <1>7, <1>8, <1>9, <1>10 DEF OidcInv
(* oidc_authorize, and oidc_callback with a state it takes out of the store. *)
LEMMA BeginKeeps ==
  ASSUME OidcInv, NEW f \in Flows, Authorize(f) \/ \E s \in States : Callback(f, s)
  PROVE  OidcInv'
  <1>0. /\ OidcTypeOK /\ CallbackHasCode
        /\ FetchCurrent /\ DiscoveryFollowsIssuer /\ StateConsumed
    BY DEF OidcInv
  <1>1. UNCHANGED <<issuer, cache, codeOf, clearing, stale, logins>>
    BY DEF Authorize, Callback
  <1>2. PICK r \in Flow :
          /\ flow' = [flow EXCEPT ![f] = r] /\ r.st = "cache"
          /\ \/ r.kind = "authorize" /\ r.state = None /\ states' = states
             \/ /\ r.kind = "callback" /\ r.state \in States /\ codeOf[r.state] # None
                /\ r.state \in states /\ states' = states \ {r.state}
    <2>0. issuer \in Docs
      BY <1>0 DEF OidcTypeOK
    <2>1. CASE Authorize(f)
      <3> DEFINE r == [NoFlow EXCEPT !.kind = "authorize", !.st = "cache", !.iss = issuer]
      <3>1. r \in Flow /\ r.kind = "authorize" /\ r.state = None /\ r.st = "cache"
        BY <2>0, NoFlowType DEF Flow
      <3>2. flow' = [flow EXCEPT ![f] = r] /\ states' = states
        BY <2>1 DEF Authorize, FlowBegin
      <3> HIDE DEF r
      <3> QED BY <3>1, <3>2
    <2>2. ASSUME NEW s \in States, Callback(f, s)
          PROVE  \E r \in Flow :
                   /\ flow' = [flow EXCEPT ![f] = r] /\ r.st = "cache"
                   /\ r.kind = "callback" /\ r.state \in States /\ codeOf[r.state] # None
                   /\ r.state \in states /\ states' = states \ {r.state}
      <3> DEFINE r == [NoFlow EXCEPT !.kind = "callback", !.st = "cache", !.iss = issuer,
                                     !.state = s]
      <3>1. r \in Flow /\ r.kind = "callback" /\ r.state = s /\ r.st = "cache"
        BY <2>0, NoFlowType DEF Flow
      <3>2. flow' = [flow EXCEPT ![f] = r]
        BY <2>2 DEF Callback, FlowBegin
      <3>3. codeOf[s] # None /\ s \in states /\ states' = states \ {s}
        BY <2>2 DEF Callback, Validated
      <3> HIDE DEF r
      <3> QED BY <3>1, <3>2, <3>3
    <2> QED BY <2>1, <2>2
  <1>3. flow' \in [Flows -> Flow] /\ \A g \in Flows : flow'[g] = IF g = f THEN r ELSE flow[g]
    BY <1>0, <1>2, FlowSet
  <1>4. OidcTypeOK'
    BY <1>0, <1>1, <1>2, <1>3 DEF OidcTypeOK
  <1>5. CallbackHasCode'
    BY <1>0, <1>1, <1>2, <1>3 DEF CallbackHasCode
  <1>6. FetchCurrent'
    BY <1>0, <1>1, <1>2, <1>3 DEF FetchCurrent, FlowAt
  <1>7. DiscoveryFollowsIssuer'
    BY <1>0, <1>1 DEF DiscoveryFollowsIssuer
  <1>8. StateConsumed'
    <2>1. CASE r.state = None /\ states' = states
      <3>1. \A g \in Flows : flow'[g].state \in {flow[g].state, None}
        BY <1>3, <2>1
      <3> QED BY <1>0, <1>1, <2>1, <3>1, StatesKept
    <2>2. CASE /\ r.state \in States /\ codeOf[r.state] # None
               /\ r.state \in states /\ states' = states \ {r.state}
      <3>1. logins[r.state] = 0 /\ \A g \in Flows : flow[g].state # r.state
        BY <1>0, <2>2 DEF StateConsumed
      <3>2. ASSUME NEW y \in States
            PROVE  /\ y \in states' => codeOf'[y] # None
                   /\ y \in states' \/ codeOf'[y] = None \/ logins'[y] # 0 =>
                        \A g \in Flows : flow'[g].state # y
                   /\ y \in states' \/ codeOf'[y] = None => logins'[y] = 0
                   /\ logins'[y] <= 1
                   /\ \A g, h \in Flows : flow'[g].state = y /\ flow'[h].state = y => g = h
        <4>1. CASE y = r.state
          BY <1>0, <1>1, <1>3, <2>2, <3>1, <4>1 DEF StateConsumed
        <4>2. CASE y # r.state
          BY <1>0, <1>1, <1>3, <2>2, <4>2 DEF StateConsumed
        <4> QED BY <4>1, <4>2
      <3> QED BY <3>2 DEF StateConsumed
    <2> QED BY <1>2, <2>1, <2>2
  <1> QED BY <1>4, <1>5, <1>6, <1>7, <1>8 DEF OidcInv

LEMMA AfterDiscoverySt ==
  ASSUME OidcTypeOK, CallbackHasCode, NEW f \in Flows, flow[f].st \in {"cache", "fetch"}
  PROVE  /\ AfterDiscovery(f) \in {"state", "exchange"}
         /\ AfterDiscovery(f) = "exchange" => flow[f].kind = "callback"
  <1>1. flow[f].kind \in {"none", "authorize", "callback"}
    BY DEF OidcTypeOK, Flow
  <1> QED BY <1>1 DEF AfterDiscovery, CallbackHasCode

(* get_oidc_discovery: from the cache, or a fetch begins. *)
LEMMA CachedKeeps ==
  ASSUME OidcInv, NEW f \in Flows, DiscoveryCached(f)
  PROVE  OidcInv'
  <1>0. /\ OidcTypeOK /\ CallbackHasCode
        /\ FetchCurrent /\ DiscoveryFollowsIssuer /\ StateConsumed
    BY DEF OidcInv
  <1>1. /\ UNCHANGED <<issuer, cache, states, codeOf, clearing, logins>>
        /\ stale' = stale \ {f} /\ flow[f].st = "cache" /\ flow[f] \in Flow
    BY <1>0 DEF DiscoveryCached, FlowAt, OidcTypeOK
  <1> DEFINE d == IF cache # None THEN cache ELSE issuer
             s == IF cache # None THEN AfterDiscovery(f) ELSE "fetch"
             r == [flow[f] EXCEPT !.doc = d, !.st = s]
  <1>2. d \in Docs /\ s \in {"state", "exchange", "fetch"}
          /\ (s = "exchange" => flow[f].kind = "callback")
    BY <1>0, <1>1, AfterDiscoverySt DEF OidcTypeOK
  <1>3. s = "fetch" => d = issuer
    BY <1>0, <1>1, AfterDiscoverySt
  <1>4. flow' = [flow EXCEPT ![f] = r]
    BY <1>0 DEF DiscoveryCached, OidcTypeOK
  <1> HIDE DEF d, s
  <1>5. /\ r \in Flow /\ r.st = s /\ r.doc = d /\ r.kind = flow[f].kind
        /\ r.state = flow[f].state
    BY <1>1, <1>2 DEF Flow
  <1> HIDE DEF r
  <1>6. flow' \in [Flows -> Flow] /\ \A g \in Flows : flow'[g] = IF g = f THEN r ELSE flow[g]
    BY <1>0, <1>4, <1>5, FlowSet
  <1>7. OidcTypeOK'
    BY <1>0, <1>1, <1>6 DEF OidcTypeOK
  <1>8. CallbackHasCode'
    BY <1>0, <1>1, <1>2, <1>5, <1>6 DEF CallbackHasCode
  <1>9. FetchCurrent'
    BY <1>0, <1>1, <1>3, <1>5, <1>6 DEF FetchCurrent, FlowAt
  <1>10. DiscoveryFollowsIssuer'
    BY <1>0, <1>1, OidcAssumption DEF DiscoveryFollowsIssuer
  <1>11. StateConsumed'
    <2>1. \A g \in Flows : flow'[g].state \in {flow[g].state, None}
      BY <1>5, <1>6
    <2> QED BY <1>0, <1>1, <2>1, StatesKept
  <1> QED BY <1>7, <1>8, <1>9, <1>10, <1>11 DEF OidcInv

(* The fetched document is cached, whatever happened to the setting. *)
LEMMA FetchedKeeps ==
  ASSUME OidcInv, NEW f \in Flows, DiscoveryFetched(f)
  PROVE  OidcInv'
  <1>0. /\ OidcTypeOK /\ CallbackHasCode
        /\ FetchCurrent /\ DiscoveryFollowsIssuer /\ StateConsumed
    BY DEF OidcInv
  <1>1. UNCHANGED <<issuer, states, codeOf, clearing, logins>> /\ flow[f].st = "fetch"
    BY DEF DiscoveryFetched, FlowAt
  <1>2. CASE FlowEnds(f) /\ UNCHANGED <<cache, stale>>
    BY <1>1, <1>2, NoFlowType, FlowGoesOn DEF FlowEnds
  <1>3. CASE /\ cache' = flow[f].doc /\ FlowGoto(f, AfterDiscovery(f))
             /\ stale' = IF f \in stale THEN stale \cup {"cache"} ELSE stale \ {"cache"}
    <2>1. PICK s \in {"state", "exchange"} :
            s = AfterDiscovery(f) /\ (s = "exchange" => flow[f].kind = "callback")
      BY <1>0, <1>1, AfterDiscoverySt
    <2>2. PICK r : r = [flow[f] EXCEPT !.st = s]
      OBVIOUS
    <2>3. r \in Flow /\ r.st = s /\ r.kind = flow[f].kind /\ r.state = flow[f].state
      BY <1>0, <2>2, FlowStType
    <2>4. flow' = [flow EXCEPT ![f] = r]
      BY <1>3, <2>1, <2>2 DEF FlowGoto
    <2>5. flow' \in [Flows -> Flow] /\ \A g \in Flows : flow'[g] = IF g = f THEN r ELSE flow[g]
      BY <1>0, <2>3, <2>4, FlowSet
    <2>6. flow[f].doc \in Docs
      BY <1>0 DEF OidcTypeOK, Flow
    <2>7. OidcTypeOK'
      BY <1>0, <1>1, <1>3, <2>5, <2>6 DEF OidcTypeOK
    <2>8. CallbackHasCode'
      BY <1>0, <1>1, <2>1, <2>3, <2>5 DEF CallbackHasCode
    <2>9. FetchCurrent'
      BY <1>0, <1>1, <1>3, <2>3, <2>5, OidcAssumption DEF FetchCurrent, FlowAt
    <2>10. DiscoveryFollowsIssuer'
      BY <1>0, <1>1, <1>3 DEF DiscoveryFollowsIssuer, FetchCurrent, FlowAt
    <2>11. StateConsumed'
      <3>1. \A g \in Flows : flow'[g].state \in {flow[g].state, None}
        BY <2>3, <2>5
      <3> QED BY <1>0, <1>1, <3>1, StatesKept
    <2> QED BY <2>7, <2>8, <2>9, <2>10, <2>11 DEF OidcInv
  <1> QED BY <1>2, <1>3 DEF DiscoveryFetched

(* OidcStateStore::insert of a state never issued before. *)
LEMMA IssuedKeeps ==
  ASSUME OidcInv, NEW f \in Flows, StateIssued(f)
  PROVE  OidcInv'
  <1>0. /\ OidcTypeOK /\ CallbackHasCode
        /\ FetchCurrent /\ DiscoveryFollowsIssuer /\ StateConsumed
    BY DEF OidcInv
  <1>1. UNCHANGED <<issuer, cache, clearing, stale, logins>> /\ FlowEnds(f)
    BY DEF StateIssued
  <1>2. PICK s \in States, u \in Subjects :
          /\ codeOf[s] = None /\ states' = states \cup {s}
          /\ codeOf' = [codeOf EXCEPT ![s] = <<flow[f].doc, u>>]
    BY DEF StateIssued
  <1>3. flow' \in [Flows -> Flow] /\ \A g \in Flows : flow'[g] = IF g = f THEN NoFlow ELSE flow[g]
    BY <1>0, <1>1, NoFlowType, FlowSet DEF FlowEnds
  <1>4. <<flow[f].doc, u>> \in Docs \X Subjects /\ None \notin Docs \X Subjects
    BY <1>0, OidcAssumption DEF OidcTypeOK, Flow, Docs
  <1>5. /\ codeOf' \in [States -> (Docs \X Subjects) \cup {None}]
        /\ codeOf'[s] # None /\ \A y \in States : y # s => codeOf'[y] = codeOf[y]
    BY <1>0, <1>2, <1>4 DEF OidcTypeOK
  <1>6. OidcTypeOK'
    BY <1>0, <1>1, <1>2, <1>3, <1>5 DEF OidcTypeOK
  <1>7. CallbackHasCode'
    BY <1>0, <1>3, <1>5, NoFlowType DEF CallbackHasCode
  <1>8. FetchCurrent' /\ DiscoveryFollowsIssuer'
    BY <1>0, <1>1, <1>3, NoFlowType DEF FetchCurrent, FlowAt, DiscoveryFollowsIssuer
  <1>9. StateConsumed'
    <2>1. logins[s] = 0 /\ \A g \in Flows : flow[g].state # s
      BY <1>0, <1>2 DEF StateConsumed
    <2>2. None \notin States
      BY OidcAssumption
    <2>3. \A g \in Flows : flow'[g].state \in {flow[g].state, None}
      BY <1>3, NoFlowType
    <2>4. ASSUME NEW y \in States
          PROVE  /\ y \in states' => codeOf'[y] # None
                 /\ y \in states' \/ codeOf'[y] = None \/ logins'[y] # 0 =>
                      \A g \in Flows : flow'[g].state # y
                 /\ y \in states' \/ codeOf'[y] = None => logins'[y] = 0
                 /\ logins'[y] <= 1
                 /\ \A g, h \in Flows : flow'[g].state = y /\ flow'[h].state = y => g = h
      <3>1. CASE y = s
        BY <1>0, <1>1, <1>2, <1>5, <2>1, <2>2, <2>3, <3>1 DEF StateConsumed
      <3>2. CASE y # s
        BY <1>0, <1>1, <1>2, <1>5, <2>2, <2>3, <3>2 DEF StateConsumed
      <3> QED BY <3>1, <3>2
    <2> QED BY <2>4 DEF StateConsumed
  <1> QED BY <1>6, <1>7, <1>8, <1>9 DEF OidcInv

(* admin_update_setting, in its two halves, and expiry. *)
LEMMA SettingKeeps ==
  ASSUME OidcInv,
         (\E i \in Issuers \cup {None} : UpdateIssuer(i)) \/ IssuerUpdated \/ Expire
  PROVE  OidcInv'
  <1>0. /\ OidcTypeOK /\ CallbackHasCode
        /\ FetchCurrent /\ DiscoveryFollowsIssuer /\ StateConsumed
    BY DEF OidcInv
  <1>1. UNCHANGED <<codeOf, flow, logins>> /\ states' \subseteq states
    BY DEF UpdateIssuer, IssuerUpdated, Expire
  <1>2. OidcTypeOK'
    <2>1. issuer' \in Docs /\ cache' \in Docs
      BY <1>0 DEF UpdateIssuer, IssuerUpdated, ClearCache, Expire, OidcTypeOK, Docs
    <2> QED BY <1>0, <1>1, <2>1 DEF OidcTypeOK
  <1>3. CallbackHasCode'
    BY <1>0, <1>1 DEF CallbackHasCode
  <1>4. StateConsumed'
    BY <1>0, <1>1, StatesKept
  <1>5. FetchCurrent' /\ DiscoveryFollowsIssuer'
    <2>1. ASSUME NEW i \in Issuers \cup {None}, UpdateIssuer(i)
          PROVE  FetchCurrent' /\ DiscoveryFollowsIssuer'
      BY <1>1, <2>1 DEF UpdateIssuer, FetchCurrent, DiscoveryFollowsIssuer, FlowAt
    <2>2. ASSUME IssuerUpdated
          PROVE  FetchCurrent' /\ DiscoveryFollowsIssuer'
      BY <1>0, <1>1, <2>2, OidcAssumption
         DEF IssuerUpdated, ClearCache, FetchCurrent, DiscoveryFollowsIssuer, FlowAt
    <2>3. ASSUME Expire
          PROVE  FetchCurrent' /\ DiscoveryFollowsIssuer'
      BY <1>0, <1>1, <2>3, OidcAssumption
         DEF Expire, FetchCurrent, DiscoveryFollowsIssuer, FlowAt
    <2> QED BY <2>1, <2>2, <2>3
  <1> QED BY <1>2, <1>3, <1>4, <1>5 DEF OidcInv

LEMMA OidcInvNext ==
  ASSUME OidcInv, [Next]_vars
  PROVE  OidcInv'
  <1>1. ASSUME NEW f \in Flows, OidcStep(f) PROVE OidcInv'
    BY <1>1, CachedKeeps, FetchedKeeps, IssuedKeeps, PlainStepKeeps, UserInfoKeeps,
       StoreLoginKeeps DEF OidcStep
  <1>2. ASSUME NEW f \in Flows, Authorize(f) \/ \E s \in States : Callback(f, s)
        PROVE  OidcInv'
    BY <1>2, BeginKeeps
  <1>3. CASE (\E i \in Issuers \cup {None} : UpdateIssuer(i)) \/ IssuerUpdated \/ Expire
    BY <1>3, SettingKeeps
  <1>4. CASE UNCHANGED oidcVars
    BY <1>4 DEF oidcVars, OidcInv, OidcTypeOK, CallbackHasCode, FetchCurrent, FlowAt,
                DiscoveryFollowsIssuer, StateConsumed
  <1>5. (\E m \in {"open", "approval", "closed"} : UpdateMode(m)) \/ UNCHANGED vars
          => UNCHANGED oidcVars
    BY DEF UpdateMode, vars
  <1> QED BY <1>1, <1>2, <1>3, <1>4, <1>5 DEF Next, OidcNext

LEMMA OidcInvariant == Spec => []OidcInv
  BY OidcInvInit, OidcInvNext, PTL DEF Spec

(* The cached discovery document is the configured issuer's, unless it was   *)
(* being fetched while admin_update_setting changed the issuer.              *)
THEOREM DiscoveryCurrent == Spec => []DiscoveryFollowsIssuer
  <1>1. OidcInv => DiscoveryFollowsIssuer
    BY DEF OidcInv
  <1> QED BY <1>1, OidcInvariant, PTL

(* A CSRF state admits one login however often the redirect is replayed and  *)
(* however many callbacks run: OidcStateStore::validate consumes it.         *)
THEOREM StatesAreSingleUse == Spec => []StateUsedOnce
  <1>1. OidcInv => StateUsedOnce
    BY DEF OidcInv, StateConsumed, StateUsedOnce
  <1> QED BY <1>1, OidcInvariant, PTL
=============================================================================
