--------------------------- MODULE SessionsProofs ---------------------------
(***************************************************************************)
(* Logins, refresh tokens and device codes, for every number of accounts,  *)
(* codes, tokens and concurrent handlers.                                  *)
(***************************************************************************)
EXTENDS Sessions, FiniteSetTheorems, TLAPS

-----------------------------------------------------------------------------
(* The guard                                                                 *)

LEMMA CountedEntry ==
  ASSUME clock \in Nat, NEW e \in Entry \cup {None}
  PROVE  /\ Counted(e) \in Entry
         /\ e = None \/ clock - e.first > Window =>
              Counted(e).count = 1 /\ Counted(e).first = clock
         /\ ~(e = None \/ clock - e.first > Window) =>
              Counted(e).count = e.count + 1 /\ Counted(e).first = e.first
         /\ Counted(e).count >= MaxAttempts => Counted(e).until = clock + Lockout
  <1> DEFINE base == IF e = None \/ clock - e.first > Window THEN Fresh ELSE e
             n == base.count + 1
             r == [base EXCEPT !.count = n,
                     !.until = IF n >= MaxAttempts THEN clock + Lockout ELSE @]
  <1>1. Counted(e) = r
    BY DEF Counted
  <1>2. base \in [count : Nat, first : Nat, until : Nat \cup {None}]
    BY DEF Fresh, Entry
  <1>3. r \in Entry /\ r.count = n /\ r.first = base.first
        /\ (n >= MaxAttempts => r.until = clock + Lockout)
    <2>1. n \in Nat \ {0} /\ base.first \in Nat /\ base.until \in Nat \cup {None}
      BY <1>2
    <2> DEFINE w == IF n >= MaxAttempts THEN clock + Lockout ELSE base.until
    <2>2. w \in Nat \cup {None} /\ (n >= MaxAttempts => w = clock + Lockout)
      BY <2>1, GuardAssumption
    <2>3. r = [base EXCEPT !.count = n, !.until = w]
      OBVIOUS
    <2> HIDE DEF base, n, w, r
    <2> QED BY <1>2, <2>1, <2>2, <2>3 DEF Entry
  <1>4. e = None \/ clock - e.first > Window => base.count = 0 /\ base.first = clock
    BY DEF Fresh
  <1>5. ~(e = None \/ clock - e.first > Window) => base = e
    OBVIOUS
  <1>6. n = base.count + 1 /\ base.count \in Nat
    BY <1>2
  <1> HIDE DEF base, n, r
  <1> QED BY <1>1, <1>3, <1>4, <1>5, <1>6

(* A sweep drops an entry only when it holds no running lockout. *)
LEMMA SweepKeepsLocks ==
  ASSUME NEW g \in [GuardKeys -> Entry \cup {None}], NEW k \in GuardKeys
  PROVE  /\ Sweep(g) \in [GuardKeys -> Entry \cup {None}]
         /\ \/ Sweep(g)[k] = g[k]
            \/ Sweep(g)[k] = None /\ ~(g[k].until # None /\ clock < g[k].until)
  BY DEF Sweep, Kept

LEMMA CheckGuard ==
  ASSUME GuardTypeOK, NEW k \in GuardKeys, Check(k)
  PROVE  /\ guard' \in [GuardKeys -> Entry \cup {None}]
         /\ \A j \in GuardKeys : guard'[j] = guard[j] \/ (guard'[j] = None /\ ~Locked(j))
  BY SweepKeepsLocks DEF GuardTypeOK, Check, Locked

LEMMA FailureGuard ==
  ASSUME GuardTypeOK, NEW k \in GuardKeys, RecordFailure(k)
  PROVE  /\ guard' \in [GuardKeys -> Entry \cup {None}]
         /\ guard'[k] \in {Counted(guard[k]), None}
         /\ \A j \in GuardKeys \ {k} :
              guard'[j] = guard[j] \/ (guard'[j] = None /\ ~Locked(j))
  <1> DEFINE g == [guard EXCEPT ![k] = Counted(guard[k])]
  <1>1. g \in [GuardKeys -> Entry \cup {None}] /\ g[k] = Counted(guard[k])
        /\ \A j \in GuardKeys \ {k} : g[j] = guard[j]
    BY CountedEntry DEF GuardTypeOK
  <1>2. guard' = g \/ guard' = Sweep(g)
    BY DEF RecordFailure
  <1> HIDE DEF g
  <1>3. CASE guard' = g
    BY <1>1, <1>3
  <1>4. CASE guard' = Sweep(g)
    <2>1. \A j \in GuardKeys : \/ guard'[j] = g[j]
                               \/ guard'[j] = None /\ ~(g[j].until # None /\ clock < g[j].until)
      BY <1>1, <1>4, SweepKeepsLocks
    <2> QED BY <1>1, <1>4, <2>1, SweepKeepsLocks DEF Locked
  <1> QED BY <1>2, <1>3, <1>4

LEMMA SuccessGuard ==
  ASSUME GuardTypeOK, NEW k \in GuardKeys, RecordSuccess(k)
  PROVE  /\ guard' \in [GuardKeys -> Entry \cup {None}]
         /\ guard'[k] = None
         /\ \A j \in GuardKeys \ {k} : guard'[j] = guard[j]
  BY DEF GuardTypeOK, RecordSuccess

LEMMA Keys ==
  /\ RefreshKey \in GuardKeys
  /\ \A u \in Users : <<"login", u>> \in GuardKeys /\ <<"approve", u>> \in GuardKeys
  BY SessionsAssumption DEF RefreshKey

-----------------------------------------------------------------------------
(* Handlers                                                                  *)

(* Handler p is now at s, for account u, token t and code c. *)
Became(p, s, u, t, c, b) ==
  /\ proc' \in [Procs -> Handler]
  /\ \A q \in Procs : q # p => proc'[q] = proc[q]
  /\ proc'[p].st = s /\ proc'[p].user = u /\ proc'[p].tok = t
  /\ proc'[p].code = c /\ proc'[p].began = b

LEMMA BecomesRecord ==
  ASSUME proc \in [Procs -> Handler], NEW p \in Procs, NEW r \in Handler,
         proc' = [proc EXCEPT ![p] = r]
  PROVE  Became(p, r.st, r.user, r.tok, r.code, r.began)
  BY DEF Became

LEMMA IdleHandler ==
  /\ Idle \in Handler /\ Idle.st = "idle" /\ Idle.user = None /\ Idle.tok = None
  /\ Idle.code = None /\ Idle.began = 0
  BY DEF Idle, Handler

LEMMA Answers ==
  ASSUME proc \in [Procs -> Handler], NEW p \in Procs, Answer(p)
  PROVE  Became(p, "idle", None, None, None, 0)
  BY BecomesRecord, IdleHandler DEF Answer

LEMMA Goes ==
  ASSUME proc \in [Procs -> Handler], NEW p \in Procs,
         NEW s \in {"login_verify", "store", "rotate_write", "approve_revoke",
                    "change_write", "revoke_user"}, Goto(p, s)
  PROVE  Became(p, s, proc[p].user, proc[p].tok, proc[p].code, proc[p].began)
  <1> DEFINE r == [proc[p] EXCEPT !.st = s]
  <1>1. r \in Handler /\ r.st = s /\ r.user = proc[p].user /\ r.tok = proc[p].tok
        /\ r.code = proc[p].code /\ r.began = proc[p].began
    BY DEF Handler
  <1>2. proc' = [proc EXCEPT ![p] = r]
    BY DEF Goto
  <1> HIDE DEF r
  <1> QED BY <1>1, <1>2, BecomesRecord
(* What a handler at each step holds. *)
HandlerOK(p) ==
  LET h == proc[p] IN
  /\ h.st \in {"login_read", "login_verify"} => h.user \in Users /\ h.code = None
  /\ h.st = "store" => h.user \in Users /\ h.code \in asked \cup {None}
  /\ h.st \in {"rotate_read", "rotate_write"} => h.tok \in Issued
  /\ h.st \in {"approve_read", "approve_update"} => h.user \in Users /\ h.code \in Codes
  /\ h.st \in {"approve_update", "approve_revoke"} => h.tok \in Issued
  /\ h.st \in {"poll_read", "poll_take"} => h.code \in asked
  /\ h.st \in {"poll_take", "change_read", "change_write", "deactivate", "revoke_user"}
       => h.user \in Users

HandlersOK == \A p \in Procs : HandlerOK(p)

(* Rows, and the tokens issued for a code, come from a request for it. *)
CodesAsked ==
  /\ \A c \in Codes : codes[c] # None => c \in asked
  /\ \A t \in Issued : tokens[t].code \in asked \cup {None}

BaseInv == TypeOK /\ HandlersOK /\ CodesAsked

LEMMA HandlersMove ==
  ASSUME BaseInv, NEW p \in Procs, NEW s, NEW u, NEW t, NEW c, NEW b,
         Became(p, s, u, t, c, b), HandlerOK(p)',
         Issued \subseteq Issued', asked \subseteq asked'
  PROVE  HandlersOK'
  BY DEF BaseInv, HandlersOK, HandlerOK, Became

LEMMA HandlersRest ==
  ASSUME BaseInv, proc' = proc, Issued \subseteq Issued', asked \subseteq asked'
  PROVE  HandlersOK'
  BY DEF BaseInv, HandlersOK, HandlerOK

LEMMA IdleOK ==
  ASSUME NEW p \in Procs, Became(p, "idle", None, None, None, 0)
  PROVE  HandlerOK(p)'
  BY DEF HandlerOK, Became

-----------------------------------------------------------------------------
(* Requests                                                                  *)

Login1(p, u) == \E guess \in {password[u], None} : Login(p, u, guess)
Change1(p, u) == \E guess \in {password[u], None} : ChangePassword(p, u, guess)

(* What a starting request leaves alone. *)
StartFrame ==
  UNCHANGED <<backend, clock, store, overtaken, history>>

LEMMA Requests ==
  ASSUME TypeOK, NEW p \in Procs, NEW r \in Handler, Request(p, r)
  PROVE  /\ Became(p, r.st, r.user, r.tok, r.code, r.began)
         /\ proc[p].st = "idle" /\ requests' \in 0..MaxRequests
  <1>1. requests' \in 0..MaxRequests /\ proc[p].st = "idle"
    BY SessionsAssumption DEF TypeOK, Request, At
  <1> QED BY <1>1, BecomesRecord DEF Request, TypeOK

LEMMA LoginStarts ==
  ASSUME TypeOK, NEW p \in Procs, NEW u \in Users, Login1(p, u)
  PROVE  /\ Became(p, "login_read", u, None, None, 0)
         /\ proc[p].st = "idle" /\ requests' \in 0..MaxRequests
         /\ Check(<<"login", u>>) /\ StartFrame /\ UNCHANGED tracker
  <1>1. PICK guess \in {password[u], None} : Login(p, u, guess)
    BY DEF Login1
  <1>2. guess \in Nat \cup {None}
    BY DEF TypeOK
  <1> DEFINE r == [Idle EXCEPT !.st = "login_read", !.user = u, !.guess = guess]
  <1>3. r \in Handler /\ r.st = "login_read" /\ r.user = u /\ r.tok = None
        /\ r.code = None /\ r.began = 0
    BY <1>2 DEF Idle, Handler
  <1>4. Request(p, r)
    BY <1>1 DEF Login
  <1>5. Check(<<"login", u>>) /\ StartFrame /\ UNCHANGED tracker
    BY <1>1 DEF Login, StartFrame, NoCommit
  <1> HIDE DEF r
  <1> QED BY <1>3, <1>4, <1>5, Requests

LEMMA ChangeStarts ==
  ASSUME TypeOK, NEW p \in Procs, NEW u \in Users, Change1(p, u)
  PROVE  /\ Became(p, "change_read", u, None, None, 0)
         /\ proc[p].st = "idle" /\ requests' \in 0..MaxRequests
         /\ StartFrame /\ UNCHANGED <<guard, tracker>>
  <1>1. PICK guess \in {password[u], None} : ChangePassword(p, u, guess)
    BY DEF Change1
  <1>2. guess \in Nat \cup {None}
    BY DEF TypeOK
  <1> DEFINE r == [Idle EXCEPT !.st = "change_read", !.user = u, !.guess = guess]
  <1>3. r \in Handler /\ r.st = "change_read" /\ r.user = u /\ r.tok = None
        /\ r.code = None /\ r.began = 0
    BY <1>2 DEF Idle, Handler
  <1>4. Request(p, r)
    BY <1>1 DEF ChangePassword
  <1>5. StartFrame /\ UNCHANGED <<guard, tracker>>
    BY <1>1 DEF ChangePassword, StartFrame, NoCommit
  <1> HIDE DEF r
  <1> QED BY <1>3, <1>4, <1>5, Requests

LEMMA DeactivateStarts ==
  ASSUME TypeOK, NEW p \in Procs, NEW u \in Users, Deactivate(p, u)
  PROVE  /\ Became(p, "deactivate", u, None, None, 0)
         /\ proc[p].st = "idle" /\ requests' \in 0..MaxRequests
         /\ StartFrame /\ UNCHANGED <<guard, tracker>>
  <1> DEFINE r == [Idle EXCEPT !.st = "deactivate", !.user = u]
  <1>3. r \in Handler /\ r.st = "deactivate" /\ r.user = u /\ r.tok = None
        /\ r.code = None /\ r.began = 0
    BY DEF Idle, Handler
  <1>4. Request(p, r)
    BY DEF Deactivate
  <1>5. StartFrame /\ UNCHANGED <<guard, tracker>>
    BY DEF Deactivate, StartFrame, NoCommit
  <1> HIDE DEF r
  <1> QED BY <1>3, <1>4, <1>5, Requests

LEMMA ApproveStarts ==
  ASSUME TypeOK, NEW p \in Procs, NEW u \in Users, NEW c \in Codes, Approve(p, u, c)
  PROVE  /\ Became(p, "approve_read", u, None, c, 0)
         /\ proc[p].st = "idle" /\ requests' \in 0..MaxRequests
         /\ Check(<<"approve", u>>) /\ StartFrame /\ UNCHANGED tracker
  <1> DEFINE r == [Idle EXCEPT !.st = "approve_read", !.user = u, !.code = c]
  <1>3. r \in Handler /\ r.st = "approve_read" /\ r.user = u /\ r.tok = None
        /\ r.code = c /\ r.began = 0
    BY DEF Idle, Handler
  <1>4. Request(p, r)
    BY DEF Approve
  <1>5. Check(<<"approve", u>>) /\ StartFrame /\ UNCHANGED tracker
    BY DEF Approve, StartFrame, NoCommit
  <1> HIDE DEF r
  <1> QED BY <1>3, <1>4, <1>5, Requests

LEMMA RefreshStarts ==
  ASSUME TypeOK, NEW p \in Procs, NEW t \in TokenIds, Refresh(p, t)
  PROVE  /\ Became(p, "rotate_read", None, t, None, 0)
         /\ proc[p].st = "idle" /\ requests' \in 0..MaxRequests /\ t \in Issued
         /\ Check(RefreshKey) /\ StartFrame /\ UNCHANGED tracker
  <1> DEFINE r == [Idle EXCEPT !.st = "rotate_read", !.tok = t]
  <1>3. r \in Handler /\ r.st = "rotate_read" /\ r.user = None /\ r.tok = t
        /\ r.code = None /\ r.began = 0
    BY DEF Idle, Handler
  <1>4. Request(p, r)
    BY DEF Refresh
  <1>5. Check(RefreshKey) /\ StartFrame /\ UNCHANGED tracker /\ t \in Issued
    BY DEF Refresh, StartFrame, NoCommit
  <1> HIDE DEF r
  <1> QED BY <1>3, <1>4, <1>5, Requests

LEMMA PollStarts ==
  ASSUME TypeOK, NEW p \in Procs, NEW c \in Codes, Poll(p, c)
  PROVE  /\ Became(p, "poll_read", None, None, c, clock)
         /\ proc[p].st = "idle" /\ requests' \in 0..MaxRequests
         /\ c \in asked /\ Paced(c) /\ tracker' = [tracker EXCEPT ![c] = clock]
         /\ StartFrame /\ UNCHANGED guard
  <1> DEFINE r == [Idle EXCEPT !.st = "poll_read", !.code = c, !.began = clock]
  <1>3. r \in Handler /\ r.st = "poll_read" /\ r.user = None /\ r.tok = None
        /\ r.code = c /\ r.began = clock
    BY DEF Idle, Handler, TypeOK, GuardTypeOK
  <1>4. Request(p, r)
    BY DEF Poll
  <1>5. c \in asked /\ Paced(c) /\ tracker' = [tracker EXCEPT ![c] = clock]
        /\ StartFrame /\ UNCHANGED guard
    BY DEF Poll, StartFrame, NoCommit
  <1> HIDE DEF r
  <1> QED BY <1>3, <1>4, <1>5, Requests
-----------------------------------------------------------------------------
(* The token table                                                           *)

(* Row t of a table is that of tokens, or that with its token dead. *)
Outlives(table, t) ==
  /\ tokens[t] = None => table[t] = None
  /\ tokens[t] # None =>
       /\ table[t] # None
       /\ table[t].user = tokens[t].user /\ table[t].parent = tokens[t].parent
       /\ table[t].since = tokens[t].since /\ table[t].code = tokens[t].code
       /\ table[t].st = "live" => tokens[t].st = "live"

Tables == [TokenIds -> Token \cup {None}]

LEMMA DeadRow ==
  ASSUME NEW r \in Token, NEW s \in {"live", "revoked", "deleted"}
  PROVE  LET d == [r EXCEPT !.st = s]
         IN  /\ d \in Token /\ d # None /\ d.st = s /\ d.user = r.user
             /\ d.parent = r.parent /\ d.since = r.since /\ d.code = r.code
  <1> DEFINE d == [r EXCEPT !.st = s]
  <1>1. d \in Token /\ d.st = s /\ d.user = r.user /\ d.parent = r.parent
        /\ d.since = r.since /\ d.code = r.code
    BY DEF Token
  <1>2. d # None
    BY <1>1, SessionsAssumption
  <1> QED BY <1>1, <1>2

LEMMA RevokedTable ==
  ASSUME tokens \in Tables, NEW S
  PROVE  /\ Revoked(S) \in Tables
         /\ \A t \in TokenIds :
              /\ Outlives(Revoked(S), t)
              /\ t \in S /\ tokens[t] # None => Revoked(S)[t].st # "live"
              /\ t \notin S => Revoked(S)[t] = tokens[t]
  <1>1. ASSUME NEW t \in TokenIds
        PROVE  /\ Revoked(S)[t] \in Token \cup {None}
               /\ Outlives(Revoked(S), t)
               /\ t \in S /\ tokens[t] # None => Revoked(S)[t].st # "live"
               /\ t \notin S => Revoked(S)[t] = tokens[t]
    <2> DEFINE d == [tokens[t] EXCEPT !.st = "revoked"]
    <2>1. CASE t \in S /\ Live(t)
      <3>1. Revoked(S)[t] = d
        BY <2>1 DEF Revoked
      <3>2. tokens[t] \in Token
        BY <2>1 DEF Live, Tables
      <3>3. /\ d \in Token /\ d # None /\ d.st = "revoked" /\ d.user = tokens[t].user
            /\ d.parent = tokens[t].parent /\ d.since = tokens[t].since
            /\ d.code = tokens[t].code
        BY <3>2, DeadRow
      <3> HIDE DEF d
      <3> QED BY <2>1, <3>1, <3>3 DEF Outlives, Live
    <2>2. CASE ~(t \in S /\ Live(t))
      <3>1. Revoked(S)[t] = tokens[t]
        BY <2>2 DEF Revoked
      <3> QED BY <2>2, <3>1 DEF Outlives, Live, Tables
    <2> QED BY <2>1, <2>2
  <1>2. Revoked(S) \in Tables
    <2>1. Revoked(S) = [t \in TokenIds |-> Revoked(S)[t]]
      BY DEF Revoked
    <2> QED BY <1>1, <2>1 DEF Tables
  <1> QED BY <1>1, <1>2

LEMMA CleanedTable ==
  ASSUME tokens \in Tables, Cleanup
  PROVE  /\ tokens' \in Tables
         /\ \A t \in TokenIds : Outlives(tokens', t)
  <1>1. ASSUME NEW t \in TokenIds
        PROVE  tokens'[t] \in Token \cup {None} /\ Outlives(tokens', t)
    <2> DEFINE d == [tokens[t] EXCEPT !.st = "deleted"]
    <2>1. CASE t \in Issued /\ ~Live(t)
      <3>1. tokens'[t] = d
        BY <2>1 DEF Cleanup
      <3>2. tokens[t] \in Token
        BY <2>1 DEF Issued, Tables
      <3>3. /\ d \in Token /\ d # None /\ d.st = "deleted" /\ d.user = tokens[t].user
            /\ d.parent = tokens[t].parent /\ d.since = tokens[t].since
            /\ d.code = tokens[t].code
        BY <3>2, DeadRow
      <3> HIDE DEF d
      <3> QED BY <2>1, <3>1, <3>3 DEF Outlives, Issued
    <2>2. CASE ~(t \in Issued /\ ~Live(t))
      <3>1. tokens'[t] = tokens[t]
        BY <2>2 DEF Cleanup
      <3> QED BY <3>1 DEF Outlives, Tables
    <2> QED BY <2>1, <2>2
  <1>2. tokens' = [t \in TokenIds |-> tokens'[t]]
    BY DEF Cleanup
  <1> QED BY <1>1, <1>2 DEF Tables

LEMMA Inserts ==
  ASSUME NEW table \in Tables, NEW row \in Token, Insert(table, row)
  PROVE  \E t \in TokenIds \ Issued :
           /\ tokens' \in Tables /\ tokens'[t] = row
           /\ \A s \in TokenIds : s # t => tokens'[s] = table[s]
  BY DEF Insert, Tables

LEMMA StoreEffect ==
  ASSUME BaseInv, NEW p \in Procs, StoreToken(p)
  PROVE  \E t \in TokenIds \ Issued :
           /\ tokens' \in Tables /\ tokens'[t] # None /\ tokens'[t].st = "live"
           /\ tokens'[t].user = proc[p].user /\ tokens'[t].parent = None
           /\ tokens'[t].since = revocations[proc[p].user]
           /\ tokens'[t].code = proc[p].code
           /\ \A s \in TokenIds : s # t => tokens'[s] = tokens[s]
           /\ proc[p].code = None => Became(p, "idle", None, None, None, 0)
           /\ proc[p].code # None =>
                Became(p, "approve_update", proc[p].user, t, proc[p].code, proc[p].began)
  <1> DEFINE u == proc[p].user
             c == proc[p].code
             row == [st |-> "live", user |-> u, parent |-> None,
                     since |-> revocations[u], code |-> c]
  <1>1. u \in Users /\ c \in Codes \cup {None}
    BY DEF BaseInv, HandlersOK, HandlerOK, StoreToken, At, TypeOK
  <1>2. revocations[u] \in Nat
    BY <1>1 DEF BaseInv, TypeOK
  <1>3. row \in Token /\ row.st = "live" /\ row.user = u /\ row.parent = None
        /\ row.since = revocations[u] /\ row.code = c
    BY <1>1, <1>2 DEF Token
  <1>4. row # None
    BY <1>3, SessionsAssumption
  <1>5. Insert(tokens, row) /\ tokens \in Tables
    BY DEF StoreToken, BaseInv, TypeOK, Tables
  <1> HIDE DEF row
  <1>6. PICK t \in TokenIds \ Issued :
           /\ tokens' \in Tables /\ tokens'[t] = row
           /\ \A s \in TokenIds : s # t => tokens'[s] = tokens[s]
    BY <1>3, <1>5, Inserts
  <1>7. tokens'[t] # tokens[t]
    BY <1>4, <1>6 DEF Issued
  <1> DEFINE x == CHOOSE y \in TokenIds : tokens'[y] # tokens[y]
  <1>8. x = t
    BY <1>6, <1>7
  <1>9. proc[p] \in Handler /\ proc \in [Procs -> Handler]
    BY DEF BaseInv, TypeOK
  <1>10. ASSUME c = None PROVE Became(p, "idle", None, None, None, 0)
    <2>1. Answer(p)
      BY <1>10 DEF StoreToken, Answer
    <2> QED BY <2>1, <1>9, Answers
  <1>11. ASSUME c # None PROVE Became(p, "approve_update", u, t, c, proc[p].began)
    <2> DEFINE r == [proc[p] EXCEPT !.st = "approve_update", !.tok = x]
    <2>1. proc' = [proc EXCEPT ![p] = r]
      BY <1>11 DEF StoreToken
    <2> HIDE DEF x
    <2>2. r \in Handler /\ r.st = "approve_update" /\ r.user = u /\ r.tok = t
          /\ r.code = c /\ r.began = proc[p].began
      BY <1>8, <1>9 DEF Handler
    <2> HIDE DEF r
    <2> QED BY <1>9, <2>1, <2>2, BecomesRecord
  <1> QED BY <1>3, <1>4, <1>6, <1>10, <1>11

LEMMA RotateEffect ==
  ASSUME BaseInv, NEW p \in Procs, RotateWrite(p), CanCommit(p)
  PROVE  LET old == proc[p].tok IN
         /\ old \in Issued /\ RecordSuccess(RefreshKey) /\ Committed(p)
         /\ \E t \in TokenIds \ Issued :
              /\ tokens' \in Tables /\ tokens'[t] # None /\ tokens'[t].st = "live"
              /\ tokens'[t].user = tokens[old].user /\ tokens'[t].parent = old
              /\ tokens'[t].since = tokens[old].since /\ tokens'[t].code = None
              /\ \A s \in TokenIds : s # t => Outlives(tokens', s)
              /\ tokens'[old].st # "live"
              /\ \A s \in TokenIds \ {old, t} : tokens'[s] = tokens[s]
  <1> DEFINE old == proc[p].tok
             row == [tokens[old] EXCEPT !.st = "live", !.parent = old, !.code = None]
  <1>1. old \in Issued
    BY DEF BaseInv, HandlersOK, HandlerOK, RotateWrite, At
  <1>2. tokens[old] \in Token /\ old \in TokenIds /\ tokens[old] # None
    BY <1>1 DEF Issued, BaseInv, TypeOK
  <1>3. row \in Token /\ row.st = "live" /\ row.user = tokens[old].user
        /\ row.parent = old /\ row.since = tokens[old].since /\ row.code = None
    <2> DEFINE x == tokens[old]
    <2>1. x \in Token
      BY <1>2
    <2> HIDE DEF x
    <2>2. \A y \in TokenIds : LET r == [x EXCEPT !.st = "live", !.parent = y, !.code = None]
            IN r \in Token /\ r.st = "live" /\ r.user = x.user
               /\ r.parent = y /\ r.since = x.since /\ r.code = None
      BY <2>1 DEF Token
    <2> QED BY <1>2, <2>2 DEF x
  <1>4. row # None
    BY <1>3, SessionsAssumption
  <1>5. Insert(Revoked({old}), row) /\ RecordSuccess(RefreshKey) /\ Committed(p)
    BY DEF RotateWrite
  <1>6. tokens \in Tables
    BY DEF BaseInv, TypeOK, Tables
  <1>7. /\ Revoked({old}) \in Tables
        /\ \A t \in TokenIds :
              /\ Outlives(Revoked({old}), t)
              /\ t = old => Revoked({old})[t].st # "live"
              /\ t # old => Revoked({old})[t] = tokens[t]
    <2>1. \A t \in TokenIds : t = old => tokens[t] # None
      BY <1>2
    <2> HIDE DEF old
    <2> QED BY <1>6, <2>1, RevokedTable
  <1> HIDE DEF row
  <1>8. PICK t \in TokenIds \ Issued :
           /\ tokens' \in Tables /\ tokens'[t] = row
           /\ \A s \in TokenIds : s # t => tokens'[s] = Revoked({old})[s]
    BY <1>3, <1>5, <1>7, Inserts
  <1>9. \A s \in TokenIds : s # t => Outlives(tokens', s)
    BY <1>7, <1>8 DEF Outlives
  <1>10. t # old
    BY <1>1, <1>8
  <1>11. tokens'[old].st # "live" /\ \A s \in TokenIds \ {old, t} : tokens'[s] = tokens[s]
    BY <1>2, <1>7, <1>8, <1>10
  <1>12. tokens'[t] # None /\ tokens'[t].st = "live"
         /\ tokens'[t].user = tokens[old].user /\ tokens'[t].parent = old
         /\ tokens'[t].since = tokens[old].since /\ tokens'[t].code = None
    BY <1>3, <1>4, <1>8
  <1> HIDE DEF old
  <1>13. \E y \in TokenIds \ Issued :
              /\ tokens' \in Tables /\ tokens'[y] # None /\ tokens'[y].st = "live"
              /\ tokens'[y].user = tokens[old].user /\ tokens'[y].parent = old
              /\ tokens'[y].since = tokens[old].since /\ tokens'[y].code = None
              /\ \A s \in TokenIds : s # y => Outlives(tokens', s)
              /\ tokens'[old].st # "live"
              /\ \A s \in TokenIds \ {old, y} : tokens'[s] = tokens[s]
    BY <1>8, <1>9, <1>11, <1>12
  <1> USE DEF old
  <1> QED BY <1>1, <1>5, <1>13
-----------------------------------------------------------------------------
(* Types                                                                     *)

(* The type of what only requests and the clock change, and of the rest. *)
OuterTypeOK == clock \in Nat /\ backend \in {"sqlite", "postgres"} /\ requests \in 0..MaxRequests

InnerTypeOK ==
  /\ guard \in [GuardKeys -> Entry \cup {None}]
  /\ password \in [Users -> Nat] /\ active \in [Users -> BOOLEAN]
  /\ tokens \in Tables
  /\ codes \in [Codes -> Code \cup {None}]
  /\ tracker \in [Codes -> Nat \cup {None}]
  /\ devices \subseteq Codes \X Users
  /\ proc \in [Procs -> Handler] /\ overtaken \subseteq Procs
  /\ revocations \in [Users -> Nat] /\ delivered \in [Codes -> Nat]
  /\ asked \subseteq Codes /\ excused \subseteq Codes \cup TokenIds

LEMMA TypeSplit == TypeOK <=> OuterTypeOK /\ InnerTypeOK
  BY DEF TypeOK, GuardTypeOK, OuterTypeOK, InnerTypeOK, Tables

LEMMA TypeSplitNext == TypeOK' <=> OuterTypeOK' /\ InnerTypeOK'
  BY DEF TypeOK, GuardTypeOK, OuterTypeOK, InnerTypeOK, Tables

(* Tokens are never taken out of the table. *)
LEMMA TokensStay ==
  ASSUME \A t \in Issued : Outlives(tokens', t)
  PROVE  Issued \subseteq Issued'
  BY DEF Outlives, Issued

LEMMA SameTokens ==
  ASSUME tokens' = tokens
  PROVE  Issued' = Issued /\ \A t : Outlives(tokens', t)
  BY DEF Outlives, Issued

LEMMA CommittedType ==
  ASSUME NEW p, Committed(p)
  PROVE  overtaken' \subseteq Procs
  BY DEF Committed

(* The steps that leave tokens, codes and their history alone. *)
LEMMA PlainSteps ==
  ASSUME BaseInv, NEW p \in Procs,
         LoginRead(p) \/ LoginVerify(p) \/ RotateRead(p) \/ ChangeRead(p)
           \/ ChangeWrite(p) \/ DeactivateWrite(p)
  PROVE  /\ UNCHANGED <<backend, clock, tokens, codes, tracker, history, requests>>
         /\ \E s, u, t, c, b : Became(p, s, u, t, c, b)
         /\ HandlerOK(p)' /\ InnerTypeOK'
         /\ proc'[p].st \in {"idle", "login_verify", "store", "rotate_write",
                             "change_write", "revoke_user"}
         /\ proc'[p].st = "store" => proc[p].st = "login_verify" /\ proc'[p].code = None
         /\ proc'[p].st = "login_verify" => proc[p].st = "login_read" /\ proc'[p].user = proc[p].user
         /\ proc'[p].st = "rotate_write" =>
              proc[p].st = "rotate_read" /\ proc'[p].tok = proc[p].tok /\ Live(proc[p].tok)
  <1> USE DEF At
  <1>a. TypeOK /\ HandlerOK(p) /\ proc \in [Procs -> Handler] /\ proc[p] \in Handler
        /\ InnerTypeOK /\ GuardTypeOK
    BY TypeSplit DEF BaseInv, TypeOK, HandlersOK
  <1>1. CASE LoginRead(p)
    <2> DEFINE u == proc[p].user
               r == IF active[u] THEN [proc[p] EXCEPT !.st = "login_verify", !.hash = password[u]]
                                 ELSE Idle
    <2>1. u \in Users /\ proc[p].code = None
      BY <1>1, <1>a DEF LoginRead, HandlerOK
    <2>2. password[u] \in Nat
      BY <2>1, <1>a DEF InnerTypeOK
    <2>3. r \in Handler /\ \/ r.st = "idle"
                           \/ r.st = "login_verify" /\ r.user = u /\ r.code = proc[p].code
      BY <1>a, <2>2 DEF Handler, Idle
    <2>4. proc' = [proc EXCEPT ![p] = r]
      BY <1>1 DEF LoginRead
    <2> HIDE DEF r
    <2>5. Became(p, r.st, r.user, r.tok, r.code, r.began)
      BY <1>a, <2>3, <2>4, BecomesRecord
    <2>6. UNCHANGED <<backend, clock, guard, store, overtaken, tracker, history, requests>>
      BY <1>1 DEF LoginRead, NoCommit
    <2>7. HandlerOK(p)'
      BY <2>1, <2>3, <2>5, <2>6 DEF HandlerOK, Became
    <2>8. InnerTypeOK'
      BY <1>a, <2>5, <2>6 DEF InnerTypeOK, Became, store, history
    <2> QED BY <1>1, <2>3, <2>5, <2>6, <2>7, <2>8 DEF Became, LoginRead, store
  <1>2. CASE LoginVerify(p)
    <2> DEFINE u == proc[p].user
    <2>1. u \in Users /\ proc[p].code = None /\ <<"login", u>> \in GuardKeys
      BY <1>2, <1>a, Keys DEF LoginVerify, HandlerOK
    <2>2. guard' \in [GuardKeys -> Entry \cup {None}]
      BY <1>2, <1>a, <2>1, SuccessGuard, FailureGuard DEF LoginVerify
    <2>3. Answer(p) \/ Goto(p, "store")
      BY <1>2 DEF LoginVerify
    <2>4. \/ Became(p, "idle", None, None, None, 0)
          \/ Became(p, "store", u, proc[p].tok, proc[p].code, proc[p].began)
      BY <1>a, <2>3, Answers, Goes
    <2>6. UNCHANGED <<backend, clock, store, overtaken, tracker, history, requests>>
      BY <1>2 DEF LoginVerify, NoCommit
    <2>7. HandlerOK(p)'
      BY <2>1, <2>4, <2>6 DEF HandlerOK, Became
    <2>8. InnerTypeOK'
      BY <1>a, <2>2, <2>4, <2>6 DEF InnerTypeOK, Became, store, history
    <2> QED BY <1>2, <2>1, <2>4, <2>6, <2>7, <2>8 DEF Became, LoginVerify, store
  <1>3. CASE RotateRead(p)
    <2>1. proc[p].tok \in Issued /\ RefreshKey \in GuardKeys
      BY <1>3, <1>a, Keys DEF RotateRead, HandlerOK
    <2>2. guard' \in [GuardKeys -> Entry \cup {None}]
      BY <1>3, <1>a, <2>1, FailureGuard DEF RotateRead, GuardTypeOK
    <2>4. \/ Became(p, "idle", None, None, None, 0)
          \/ Live(proc[p].tok) /\
             Became(p, "rotate_write", proc[p].user, proc[p].tok, proc[p].code, proc[p].began)
      BY <1>3, <1>a, Answers, Goes DEF RotateRead
    <2>6. UNCHANGED <<backend, clock, store, overtaken, tracker, history, requests>>
      BY <1>3 DEF RotateRead, NoCommit
    <2>7. HandlerOK(p)'
      BY <2>1, <2>4, <2>6 DEF HandlerOK, Became, Issued, store
    <2>8. InnerTypeOK'
      BY <1>a, <2>2, <2>4, <2>6 DEF InnerTypeOK, Became, store, history
    <2> QED BY <1>3, <2>1, <2>4, <2>6, <2>7, <2>8 DEF Became, RotateRead, store
  <1>4. CASE ChangeRead(p)
    <2>1. proc[p].user \in Users
      BY <1>4, <1>a DEF ChangeRead, HandlerOK
    <2>4. \/ Became(p, "idle", None, None, None, 0)
          \/ Became(p, "change_write", proc[p].user, proc[p].tok, proc[p].code, proc[p].began)
      BY <1>4, <1>a, Answers, Goes DEF ChangeRead
    <2>6. UNCHANGED <<backend, clock, guard, store, overtaken, tracker, history, requests>>
      BY <1>4 DEF ChangeRead, NoCommit
    <2>7. HandlerOK(p)'
      BY <2>1, <2>4, <2>6 DEF HandlerOK, Became
    <2>8. InnerTypeOK'
      BY <1>a, <2>4, <2>6 DEF InnerTypeOK, Became, store, history
    <2> QED BY <2>4, <2>6, <2>7, <2>8 DEF Became, store
  <1>5. CASE ChangeWrite(p) \/ DeactivateWrite(p)
    <2>1. proc[p].user \in Users
      BY <1>5, <1>a DEF ChangeWrite, DeactivateWrite, HandlerOK
    <2>4. Became(p, "revoke_user", proc[p].user, proc[p].tok, proc[p].code, proc[p].began)
      BY <1>5, <1>a, Goes DEF ChangeWrite, DeactivateWrite
    <2>6. UNCHANGED <<backend, clock, guard, tokens, codes, devices, tracker, history, requests>>
      BY <1>5 DEF ChangeWrite, DeactivateWrite
    <2>7. HandlerOK(p)'
      BY <2>1, <2>4, <2>6 DEF HandlerOK, Became
    <2>8. password' \in [Users -> Nat] /\ active' \in [Users -> BOOLEAN] /\ overtaken' \subseteq Procs
      <3>1. password \in [Users -> Nat] /\ active \in [Users -> BOOLEAN]
        BY <1>a DEF InnerTypeOK
      <3>2. overtaken' \subseteq Procs
        BY <1>5, CommittedType DEF ChangeWrite, DeactivateWrite
      <3>3. CASE ChangeWrite(p)
        <4>1. password' = [password EXCEPT ![proc[p].user] = password[proc[p].user] + 1]
              /\ active' = active
          BY <3>3 DEF ChangeWrite
        <4> QED BY <2>1, <3>1, <3>2, <4>1
      <3>4. CASE DeactivateWrite(p)
        <4>1. active' = [active EXCEPT ![proc[p].user] = FALSE] /\ password' = password
          BY <3>4 DEF DeactivateWrite
        <4> QED BY <2>1, <3>1, <3>2, <4>1
      <3> QED BY <1>5, <3>3, <3>4
    <2>9. InnerTypeOK'
      BY <1>a, <2>4, <2>6, <2>8 DEF InnerTypeOK, Became, history
    <2> QED BY <2>4, <2>6, <2>7, <2>9 DEF Became
  <1> QED BY <1>1, <1>2, <1>3, <1>4, <1>5
(* A code's row is never changed back: it stays, goes, or is approved. *)
LEMMA DeletesCode ==
  ASSUME InnerTypeOK, NEW p \in Procs, NEW c \in Codes, DeleteCode(p, c)
  PROVE  /\ codes' \in [Codes -> Code \cup {None}]
         /\ \A d \in Codes : codes'[d] = codes[d] \/ codes'[d] = None
         /\ codes'[c] = None \/ c \in excused'
         /\ overtaken' \subseteq Procs
         /\ excused' \subseteq Codes \cup TokenIds /\ excused \subseteq excused'
         /\ codes' = codes => overtaken' = overtaken \/ Committed(p)
  BY CommittedType DEF DeleteCode, InnerTypeOK

LEMMA ApproveReadStep ==
  ASSUME BaseInv, NEW p \in Procs, ApproveRead(p)
  PROVE  LET u == proc[p].user  c == proc[p].code IN
         /\ u \in Users /\ c \in Codes /\ proc[p].st = "approve_read"
         /\ UNCHANGED <<backend, clock, tokens, tracker, revocations, asked, delivered, requests>>
         /\ \/ Became(p, "idle", None, None, None, 0)
            \/ /\ Became(p, "store", u, proc[p].tok, c, proc[p].began)
               /\ codes[c] # None
         /\ \A d \in Codes : codes'[d] = codes[d] \/ codes'[d] = None
         /\ excused \subseteq excused'
         /\ overtaken' = overtaken \/ Committed(p)
         /\ HandlerOK(p)' /\ InnerTypeOK'
         /\ guard' = guard \/ (RecordFailure(<<"approve", u>>) /\ proc'[p].st = "idle")
  <1> DEFINE u == proc[p].user
             c == proc[p].code
  <1>1. TypeOK /\ HandlerOK(p) /\ proc \in [Procs -> Handler] /\ InnerTypeOK /\ GuardTypeOK
        /\ CodesAsked
    BY TypeSplit DEF BaseInv, TypeOK, HandlersOK
  <1>2. u \in Users /\ c \in Codes /\ proc[p].st = "approve_read"
    BY <1>1 DEF ApproveRead, HandlerOK, At
  <1>3. <<"approve", u>> \in GuardKeys
    BY <1>2, Keys
  <1>4. UNCHANGED <<backend, clock, password, active, tokens, devices, tracker,
                    revocations, asked, delivered, requests>>
    BY DEF ApproveRead
  <1>5. \/ Became(p, "idle", None, None, None, 0)
        \/ /\ Became(p, "store", u, proc[p].tok, c, proc[p].began)
           /\ codes[c] # None
    BY <1>1, Answers, Goes DEF ApproveRead
  <1>6. guard' = guard \/ (RecordFailure(<<"approve", u>>) /\ Answer(p))
    BY DEF ApproveRead
  <1>6a. guard' = guard \/ (RecordFailure(<<"approve", u>>) /\ proc'[p].st = "idle")
    BY <1>1, <1>6, Answers DEF Became
  <1>7. guard' \in [GuardKeys -> Entry \cup {None}]
    BY <1>1, <1>3, <1>6, FailureGuard DEF InnerTypeOK
  <1>8. DeleteCode(p, c) \/ UNCHANGED <<codes, overtaken, excused>>
    BY DEF ApproveRead
  <1>9. /\ codes' \in [Codes -> Code \cup {None}]
        /\ \A d \in Codes : codes'[d] = codes[d] \/ codes'[d] = None
        /\ overtaken' \subseteq Procs
        /\ excused' \subseteq Codes \cup TokenIds /\ excused \subseteq excused'
    BY <1>1, <1>2, <1>8, DeletesCode DEF InnerTypeOK
  <1>10. overtaken' = overtaken \/ Committed(p)
    BY <1>8 DEF DeleteCode
  <1>11. HandlerOK(p)'
    BY <1>1, <1>2, <1>4, <1>5 DEF HandlerOK, Became, CodesAsked
  <1>12. InnerTypeOK'
    BY <1>1, <1>4, <1>5, <1>7, <1>9 DEF InnerTypeOK, Became
  <1> QED BY <1>2, <1>4, <1>5, <1>6a, <1>9, <1>10, <1>11, <1>12

LEMMA ApproveUpdateStep ==
  ASSUME BaseInv, NEW p \in Procs, ApproveUpdate(p)
  PROVE  LET u == proc[p].user  c == proc[p].code  t == proc[p].tok IN
         /\ u \in Users /\ c \in Codes /\ t \in Issued /\ proc[p].st = "approve_update"
         /\ UNCHANGED <<backend, clock, tokens, tracker, history, requests>>
         /\ \/ /\ Became(p, "idle", None, None, None, 0)
               /\ Approvable(c) /\ Committed(p) /\ RecordSuccess(<<"approve", u>>)
               /\ codes'[c] # None /\ codes'[c].by = u
               /\ \A d \in Codes : d # c => codes'[d] = codes[d]
            \/ /\ Became(p, "approve_revoke", u, t, c, proc[p].began)
               /\ ~Approvable(c) /\ UNCHANGED <<guard, codes, overtaken>>
         /\ HandlerOK(p)' /\ InnerTypeOK'
  <1> DEFINE u == proc[p].user
             c == proc[p].code
             t == proc[p].tok
  <1>1. TypeOK /\ HandlerOK(p) /\ proc \in [Procs -> Handler] /\ InnerTypeOK /\ GuardTypeOK
        /\ CodesAsked
    BY TypeSplit DEF BaseInv, TypeOK, HandlersOK
  <1>2. u \in Users /\ c \in Codes /\ t \in Issued /\ proc[p].st = "approve_update"
        /\ <<"approve", u>> \in GuardKeys
    BY <1>1, Keys DEF ApproveUpdate, HandlerOK, At
  <1>4. UNCHANGED <<backend, clock, password, active, tokens, devices, tracker, history, requests>>
    BY DEF ApproveUpdate
  <1>5. CASE Approvable(c)
    <2>1. codes' = [codes EXCEPT ![c].by = u, ![c].tok = t] /\ RecordSuccess(<<"approve", u>>)
          /\ Answer(p) /\ Committed(p)
      BY <1>5 DEF ApproveUpdate
    <2>2. codes[c] \in Code /\ codes \in [Codes -> Code \cup {None}] /\ t \in TokenIds
      BY <1>1, <1>2, <1>5 DEF InnerTypeOK, Approvable, Issued
    <2> DEFINE r == [codes[c] EXCEPT !.by = u, !.tok = t]
    <2>3. r \in Code /\ r.by = u
      <3> DEFINE x == codes[c]
      <3>1. x \in Code
        BY <2>2
      <3> HIDE DEF x
      <3>2. \A v \in Users, y \in TokenIds :
              LET z == [x EXCEPT !.by = v, !.tok = y] IN z \in Code /\ z.by = v
        BY <3>1 DEF Code
      <3> QED BY <1>2, <2>2, <3>2 DEF x
    <2>4. codes' = [codes EXCEPT ![c] = r]
      BY <2>1, <1>2, <2>2
    <2>5. r # None
      BY <2>3, SessionsAssumption
    <2> HIDE DEF r
    <2>6. codes' \in [Codes -> Code \cup {None}] /\ codes'[c] # None /\ codes'[c].by = u
          /\ \A d \in Codes : d # c => codes'[d] = codes[d]
      BY <1>2, <2>2, <2>3, <2>4, <2>5
    <2>7. Became(p, "idle", None, None, None, 0) /\ HandlerOK(p)'
      BY <1>1, <2>1, Answers, IdleOK
    <2>8. guard' \in [GuardKeys -> Entry \cup {None}] /\ overtaken' \subseteq Procs
      BY <1>1, <1>2, <2>1, SuccessGuard, CommittedType
    <2>9. InnerTypeOK'
      BY <1>1, <1>4, <2>6, <2>7, <2>8 DEF InnerTypeOK, Became, history
    <2> QED BY <1>2, <1>4, <1>5, <2>1, <2>6, <2>7, <2>9
  <1>6. CASE ~Approvable(c)
    <2>1. Goto(p, "approve_revoke") /\ UNCHANGED <<guard, codes, overtaken>>
      BY <1>6 DEF ApproveUpdate
    <2>2. Became(p, "approve_revoke", u, t, c, proc[p].began)
      BY <1>1, <2>1, Goes
    <2>3. HandlerOK(p)'
      BY <1>2, <1>4, <2>2 DEF HandlerOK, Became, Issued
    <2>4. InnerTypeOK'
      BY <1>1, <1>4, <2>1, <2>2 DEF InnerTypeOK, Became, history
    <2> QED BY <1>2, <1>4, <1>6, <2>1, <2>2, <2>3, <2>4
  <1> QED BY <1>5, <1>6

LEMMA PollReadStep ==
  ASSUME BaseInv, NEW p \in Procs, PollRead(p)
  PROVE  LET c == proc[p].code IN
         /\ c \in Codes /\ proc[p].st = "poll_read"
         /\ UNCHANGED <<backend, clock, guard, tokens, tracker, revocations, asked, delivered, requests>>
         /\ \/ Became(p, "idle", None, None, None, 0)
            \/ /\ codes[c] # None
               /\ Became(p, "poll_take", codes[c].by, codes[c].tok, c, proc[p].began)
         /\ \A d \in Codes : codes'[d] = codes[d] \/ codes'[d] = None
         /\ excused \subseteq excused'
         /\ overtaken' = overtaken \/ Committed(p)
         /\ HandlerOK(p)' /\ InnerTypeOK'
  <1> DEFINE c == proc[p].code
  <1>1. TypeOK /\ HandlerOK(p) /\ proc \in [Procs -> Handler] /\ InnerTypeOK /\ GuardTypeOK
        /\ CodesAsked
    BY TypeSplit DEF BaseInv, TypeOK, HandlersOK
  <1>2. c \in Codes /\ proc[p].st = "poll_read" /\ c \in asked
    BY <1>1 DEF PollRead, HandlerOK, At, InnerTypeOK
  <1>4. UNCHANGED <<backend, clock, guard, password, active, tokens, devices,
                    tracker, revocations, asked, delivered, requests>>
    BY DEF PollRead
  <1>5. \/ Answer(p)
        \/ /\ codes[c] # None /\ codes[c].by # None
           /\ proc' = [proc EXCEPT ![p].st = "poll_take", ![p].user = codes[c].by,
                                   ![p].tok = codes[c].tok]
    BY DEF PollRead
  <1>6. \/ Became(p, "idle", None, None, None, 0)
        \/ /\ codes[c] # None /\ codes[c].by \in Users
           /\ Became(p, "poll_take", codes[c].by, codes[c].tok, c, proc[p].began)
    <2>1. CASE Answer(p)
      BY <1>1, <2>1, Answers
    <2>2. CASE /\ codes[c] # None /\ codes[c].by # None
               /\ proc' = [proc EXCEPT ![p].st = "poll_take", ![p].user = codes[c].by,
                                       ![p].tok = codes[c].tok]
      <3>1. codes[c].by \in Users /\ codes[c].tok \in TokenIds \cup {None}
        BY <1>1, <1>2, <2>2 DEF InnerTypeOK, Code
      <3>2. proc[p] \in Handler
        BY <1>1
      <3> DEFINE r == [proc[p] EXCEPT !.st = "poll_take", !.user = codes[c].by,
                                      !.tok = codes[c].tok]
      <3>3. r \in Handler /\ r.st = "poll_take" /\ r.user = codes[c].by
            /\ r.tok = codes[c].tok /\ r.code = c /\ r.began = proc[p].began
        <4> DEFINE x == proc[p]
        <4>1. x \in Handler
          BY <3>2
        <4> HIDE DEF x
        <4>2. \A v \in Users, y \in TokenIds \cup {None} :
                LET z == [x EXCEPT !.st = "poll_take", !.user = v, !.tok = y]
                IN  z \in Handler /\ z.st = "poll_take" /\ z.user = v
                    /\ z.tok = y /\ z.code = x.code /\ z.began = x.began
          BY <4>1 DEF Handler
        <4> QED BY <3>1, <4>2, ZenonT(60) DEF x
      <3>4. proc' = [proc EXCEPT ![p] = r]
        BY <1>1, <2>2
      <3> HIDE DEF r
      <3>5. Became(p, r.st, r.user, r.tok, r.code, r.began)
        BY <1>1, <3>3, <3>4, BecomesRecord
      <3> QED BY <2>2, <3>1, <3>3, <3>5
    <2> QED BY <1>5, <2>1, <2>2
  <1>8. DeleteCode(p, c) \/ UNCHANGED <<codes, overtaken, excused>>
    BY DEF PollRead
  <1>9. /\ codes' \in [Codes -> Code \cup {None}]
        /\ \A d \in Codes : codes'[d] = codes[d] \/ codes'[d] = None
        /\ overtaken' \subseteq Procs
        /\ excused' \subseteq Codes \cup TokenIds /\ excused \subseteq excused'
    BY <1>1, <1>2, <1>8, DeletesCode DEF InnerTypeOK
  <1>10. overtaken' = overtaken \/ Committed(p)
    BY <1>8 DEF DeleteCode
  <1>11. HandlerOK(p)'
    BY <1>1, <1>2, <1>4, <1>6 DEF HandlerOK, Became
  <1>12. InnerTypeOK'
    BY <1>1, <1>4, <1>6, <1>9 DEF InnerTypeOK, Became
  <1> HIDE DEF c
  <1>13. \/ Became(p, "idle", None, None, None, 0)
         \/ /\ codes[c] # None
            /\ Became(p, "poll_take", codes[c].by, codes[c].tok, c, proc[p].began)
    BY <1>6
  <1> USE DEF c
  <1> QED BY <1>2, <1>4, <1>9, <1>10, <1>11, <1>12, <1>13

LEMMA PollTakeStep ==
  ASSUME BaseInv, NEW p \in Procs, PollTake(p)
  PROVE  LET c == proc[p].code IN
         /\ c \in Codes /\ c \in asked /\ proc[p].st = "poll_take"
         /\ UNCHANGED <<backend, clock, guard, tokens, revocations, asked, requests>>
         /\ Became(p, "idle", None, None, None, 0)
         /\ \A d \in Codes : codes'[d] = codes[d] \/ codes'[d] = None
         /\ excused \subseteq excused'
         /\ c \notin excused' => codes'[c] = None /\ ~Overlapped(p)
         /\ tracker' = [tracker EXCEPT ![c] = None]
         /\ delivered' = [delivered EXCEPT ![c] = delivered[c] + 1]
         /\ overtaken' = overtaken \/ Committed(p)
         /\ HandlerOK(p)' /\ InnerTypeOK'
  <1> DEFINE c == proc[p].code
  <1>1. TypeOK /\ HandlerOK(p) /\ proc \in [Procs -> Handler] /\ InnerTypeOK /\ GuardTypeOK
    BY TypeSplit DEF BaseInv, TypeOK, HandlersOK
  <1>2. c \in Codes /\ proc[p].st = "poll_take" /\ c \in asked /\ proc[p].user \in Users
    BY <1>1 DEF PollTake, HandlerOK, At, InnerTypeOK
  <1>4. UNCHANGED <<backend, clock, guard, password, active, tokens, revocations, asked, requests>>
    BY DEF PollTake
  <1>5. Became(p, "idle", None, None, None, 0) /\ HandlerOK(p)'
    BY <1>1, Answers, IdleOK DEF PollTake
  <1>6. PICK ok \in BOOLEAN :
       /\ codes' = IF ok THEN [codes EXCEPT ![c] = None] ELSE codes
       /\ IF ok THEN Committed(p) ELSE UNCHANGED overtaken
       /\ excused' = IF ok /\ ~Overlapped(p) THEN excused ELSE excused \cup {c}
    BY DEF PollTake
  <1>7. tracker' = [tracker EXCEPT ![c] = None]
        /\ delivered' = [delivered EXCEPT ![c] = delivered[c] + 1]
        /\ devices' \in {devices, devices \cup {<<c, proc[p].user>>}}
    BY DEF PollTake
  <1>8. /\ codes' \in [Codes -> Code \cup {None}]
        /\ \A d \in Codes : codes'[d] = codes[d] \/ codes'[d] = None
    BY <1>1, <1>2, <1>6 DEF InnerTypeOK
  <1>9. /\ excused' \subseteq Codes \cup TokenIds /\ excused \subseteq excused'
        /\ c \notin excused' => codes'[c] = None /\ ~Overlapped(p)
    BY <1>1, <1>2, <1>6 DEF InnerTypeOK
  <1>10. (overtaken' = overtaken \/ Committed(p)) /\ overtaken' \subseteq Procs
    BY <1>1, <1>6, CommittedType DEF InnerTypeOK
  <1>11. tracker' \in [Codes -> Nat \cup {None}] /\ delivered' \in [Codes -> Nat]
         /\ devices' \subseteq Codes \X Users
    BY <1>1, <1>2, <1>7 DEF InnerTypeOK
  <1>12. InnerTypeOK'
    BY <1>1, <1>4, <1>5, <1>8, <1>9, <1>10, <1>11 DEF InnerTypeOK, Became
  <1> QED BY <1>2, <1>4, <1>5, <1>7, <1>8, <1>9, <1>10, <1>12
LEMMA StoreStep ==
  ASSUME BaseInv, NEW p \in Procs, StoreToken(p)
  PROVE  /\ proc[p].st = "store" /\ Committed(p)
         /\ UNCHANGED <<backend, clock, guard, codes, tracker, history, requests>>
         /\ \A t \in Issued : Outlives(tokens', t)
         /\ \A t \in Issued' : tokens'[t].code \in asked \cup {None}
         /\ \E s, u, t, c, b : Became(p, s, u, t, c, b)
         /\ HandlerOK(p)' /\ InnerTypeOK'
  <1>1. TypeOK /\ HandlerOK(p) /\ InnerTypeOK /\ CodesAsked
    BY TypeSplit DEF BaseInv, HandlersOK
  <1>2. proc[p].st = "store" /\ proc[p].user \in Users /\ proc[p].code \in asked \cup {None}
    BY <1>1 DEF StoreToken, At, HandlerOK
  <1>3. UNCHANGED <<backend, clock, guard, password, active, codes, devices, tracker,
                    history, requests>> /\ Committed(p)
    BY DEF StoreToken
  <1>4. PICK t \in TokenIds \ Issued :
           /\ tokens' \in Tables /\ tokens'[t] # None
           /\ tokens'[t].code = proc[p].code
           /\ \A s \in TokenIds : s # t => tokens'[s] = tokens[s]
           /\ proc[p].code = None => Became(p, "idle", None, None, None, 0)
           /\ proc[p].code # None =>
                Became(p, "approve_update", proc[p].user, t, proc[p].code, proc[p].began)
    BY StoreEffect
  <1>5. \A s \in Issued : Outlives(tokens', s)
    BY <1>4 DEF Issued, Outlives
  <1>6. \A s \in Issued' : tokens'[s].code \in asked \cup {None}
    BY <1>1, <1>2, <1>4 DEF Issued, CodesAsked
  <1>7. \/ Became(p, "idle", None, None, None, 0)
        \/ /\ proc[p].code # None
           /\ Became(p, "approve_update", proc[p].user, t, proc[p].code, proc[p].began)
    BY <1>4
  <1>8. HandlerOK(p)'
    BY <1>1, <1>2, <1>4, <1>7 DEF HandlerOK, Became, Issued, InnerTypeOK
  <1>9. InnerTypeOK'
    BY <1>1, <1>3, <1>4, <1>7, CommittedType DEF InnerTypeOK, Became, history
  <1> QED BY <1>2, <1>3, <1>5, <1>6, <1>7, <1>8, <1>9

LEMMA RotateStep ==
  ASSUME BaseInv, NEW p \in Procs, RotateWrite(p)
  PROVE  /\ proc[p].st = "rotate_write"
         /\ UNCHANGED <<backend, clock, codes, tracker, history, requests>>
         /\ \A t \in Issued : Outlives(tokens', t)
         /\ \A t \in Issued' : tokens'[t].code \in asked \cup {None}
         /\ Became(p, "idle", None, None, None, 0)
         /\ \/ CanCommit(p) /\ RecordSuccess(RefreshKey) /\ Committed(p)
            \/ ~CanCommit(p) /\ RecordFailure(RefreshKey) /\ tokens' = tokens
               /\ overtaken' = overtaken \ {p}
         /\ HandlerOK(p)' /\ InnerTypeOK'
  <1>1. TypeOK /\ HandlerOK(p) /\ InnerTypeOK /\ CodesAsked /\ GuardTypeOK
    BY TypeSplit DEF BaseInv, HandlersOK, TypeOK
  <1>2. proc[p].st = "rotate_write"
    BY DEF RotateWrite, At
  <1>3. UNCHANGED <<backend, clock, password, active, codes, devices, tracker, history, requests>>
    BY DEF RotateWrite
  <1>4. Became(p, "idle", None, None, None, 0) /\ HandlerOK(p)'
    BY <1>1, Answers, IdleOK DEF RotateWrite, InnerTypeOK
  <1>5. \/ CanCommit(p) /\ RecordSuccess(RefreshKey) /\ Committed(p)
        \/ ~CanCommit(p) /\ RecordFailure(RefreshKey) /\ tokens' = tokens
           /\ overtaken' = overtaken \ {p}
    BY DEF RotateWrite
  <1>6. guard' \in [GuardKeys -> Entry \cup {None}] /\ overtaken' \subseteq Procs
    BY <1>1, <1>5, SuccessGuard, FailureGuard, CommittedType, Keys DEF InnerTypeOK
  <1>7. /\ tokens' \in Tables
        /\ \A t \in Issued : Outlives(tokens', t)
        /\ \A t \in Issued' : tokens'[t].code \in asked \cup {None}
    <2>1. CASE CanCommit(p)
      <3>1. PICK t \in TokenIds \ Issued :
              /\ tokens' \in Tables /\ tokens'[t] # None /\ tokens'[t].code = None
              /\ \A s \in TokenIds : s # t => Outlives(tokens', s)
        BY <2>1, RotateEffect
      <3> QED BY <1>1, <3>1 DEF Issued, CodesAsked, Outlives
    <2>2. CASE ~CanCommit(p)
      <3>1. tokens' = tokens
        BY <1>5, <2>2
      <3> QED BY <1>1, <3>1, SameTokens DEF InnerTypeOK, CodesAsked
    <2> QED BY <2>1, <2>2
  <1>8. InnerTypeOK'
    BY <1>1, <1>3, <1>4, <1>6, <1>7 DEF InnerTypeOK, Became, history
  <1> QED BY <1>2, <1>3, <1>4, <1>5, <1>7, <1>8

LEMMA ApproveRevokeStep ==
  ASSUME BaseInv, NEW p \in Procs, ApproveRevoke(p)
  PROVE  LET k == proc[p].tok IN
         /\ proc[p].st = "approve_revoke" /\ k \in Issued
         /\ UNCHANGED <<backend, clock, guard, codes, tracker, revocations, asked, delivered, requests>>
         /\ \A t \in TokenIds : Outlives(tokens', t)
         /\ \/ tokens'[k].st # "live" /\ Committed(p) /\ excused' = excused
            \/ tokens' = tokens /\ overtaken' = overtaken /\ excused' = excused \cup {k}
         /\ Became(p, "idle", None, None, None, 0)
         /\ HandlerOK(p)' /\ InnerTypeOK'
  <1> DEFINE k == proc[p].tok
  <1>1. TypeOK /\ HandlerOK(p) /\ InnerTypeOK /\ CodesAsked
    BY TypeSplit DEF BaseInv, HandlersOK
  <1>2. proc[p].st = "approve_revoke" /\ k \in Issued
    BY <1>1 DEF ApproveRevoke, At, HandlerOK
  <1>3. UNCHANGED <<backend, clock, guard, password, active, codes, devices, tracker,
                    revocations, asked, delivered, requests>>
    BY DEF ApproveRevoke
  <1>4. Became(p, "idle", None, None, None, 0) /\ HandlerOK(p)'
    BY <1>1, Answers, IdleOK DEF ApproveRevoke, InnerTypeOK
  <1>5. \/ tokens' = Revoked({k}) /\ Committed(p) /\ excused' = excused
        \/ tokens' = tokens /\ overtaken' = overtaken /\ excused' = excused \cup {k}
    BY DEF ApproveRevoke
  <1>6. k \in TokenIds /\ tokens[k] # None
    BY <1>2 DEF Issued
  <1> HIDE DEF k
  <1>7. tokens' = Revoked({k}) => /\ tokens' \in Tables /\ tokens'[k].st # "live"
                                  /\ \A t \in TokenIds : Outlives(tokens', t)
    BY <1>1, <1>6, RevokedTable DEF InnerTypeOK
  <1>8. tokens' \in Tables /\ (\A t \in TokenIds : Outlives(tokens', t))
    BY <1>1, <1>5, <1>7, SameTokens DEF InnerTypeOK
  <1>9. \/ tokens'[k].st # "live" /\ Committed(p) /\ excused' = excused
        \/ tokens' = tokens /\ overtaken' = overtaken /\ excused' = excused \cup {k}
    BY <1>5, <1>7
  <1>10. InnerTypeOK'
    BY <1>1, <1>3, <1>4, <1>5, <1>6, <1>8, CommittedType DEF InnerTypeOK, Became
  <1> USE DEF k
  <1> QED BY <1>2, <1>3, <1>4, <1>8, <1>9, <1>10

LEMMA RevokeUserStep ==
  ASSUME BaseInv, NEW p \in Procs, RevokeUser(p)
  PROVE  LET u == proc[p].user IN
         /\ proc[p].st = "revoke_user" /\ u \in Users /\ Committed(p)
         /\ UNCHANGED <<backend, clock, guard, codes, tracker, asked, delivered, excused, requests>>
         /\ \A t \in TokenIds : Outlives(tokens', t)
         /\ \A t \in Issued : tokens[t].user = u => tokens'[t].st # "live"
         /\ revocations' = [revocations EXCEPT ![u] = revocations[u] + 1]
         /\ Became(p, "idle", None, None, None, 0)
         /\ HandlerOK(p)' /\ InnerTypeOK'
  <1> DEFINE u == proc[p].user
             S == {t \in Issued : tokens[t].user = u}
  <1>1. TypeOK /\ HandlerOK(p) /\ InnerTypeOK /\ CodesAsked
    BY TypeSplit DEF BaseInv, HandlersOK
  <1>2. proc[p].st = "revoke_user" /\ u \in Users
    BY <1>1 DEF RevokeUser, At, HandlerOK
  <1>3. UNCHANGED <<backend, clock, guard, password, active, codes, devices, tracker,
                    asked, delivered, excused, requests>> /\ Committed(p)
    BY DEF RevokeUser
  <1>4. Became(p, "idle", None, None, None, 0) /\ HandlerOK(p)'
    BY <1>1, Answers, IdleOK DEF RevokeUser, InnerTypeOK
  <1>5. tokens' = Revoked(S) /\ revocations' = [revocations EXCEPT ![u] = revocations[u] + 1]
    BY DEF RevokeUser
  <1>6. \A t \in Issued : t \in TokenIds /\ tokens[t] # None /\ (tokens[t].user = u => t \in S)
    BY DEF Issued
  <1> HIDE DEF S
  <1>7. /\ tokens' \in Tables /\ \A t \in TokenIds : Outlives(tokens', t)
        /\ \A t \in Issued : tokens[t].user = u => tokens'[t].st # "live"
    BY <1>1, <1>5, <1>6, RevokedTable DEF InnerTypeOK
  <1>8. revocations' \in [Users -> Nat]
    BY <1>1, <1>2, <1>5 DEF InnerTypeOK
  <1>9. InnerTypeOK'
    BY <1>1, <1>3, <1>4, <1>7, <1>8, CommittedType DEF InnerTypeOK, Became
  <1> QED BY <1>2, <1>3, <1>4, <1>5, <1>7, <1>9

LEMMA CallFailsStep ==
  ASSUME BaseInv, NEW p \in Procs, CallFails(p)
  PROVE  /\ proc[p].st \notin {"idle", "login_verify", "approve_revoke", "poll_take"}
         /\ UNCHANGED <<backend, clock, tokens, codes, tracker, revocations, asked,
                        delivered, requests>>
         /\ \/ proc[p].st \in {"rotate_read", "rotate_write"} /\ RecordFailure(RefreshKey)
            \/ proc[p].st \notin {"rotate_read", "rotate_write"} /\ guard' = guard
         /\ excused \subseteq excused'
         /\ proc[p].st = "approve_update" => proc[p].tok \in excused'
         /\ overtaken' = overtaken \ {p}
         /\ Became(p, "idle", None, None, None, 0)
         /\ HandlerOK(p)' /\ InnerTypeOK'
  <1>1. TypeOK /\ HandlerOK(p) /\ InnerTypeOK /\ CodesAsked /\ GuardTypeOK
    BY TypeSplit DEF BaseInv, HandlersOK, TypeOK
  <1>2. proc[p].st \notin {"idle", "login_verify", "approve_revoke", "poll_take"}
    BY DEF CallFails
  <1>3. UNCHANGED <<backend, clock, password, active, tokens, codes, devices, tracker,
                    revocations, asked, delivered, requests>>
    BY DEF CallFails, store
  <1>4. Became(p, "idle", None, None, None, 0) /\ HandlerOK(p)'
    BY <1>1, Answers, IdleOK DEF CallFails, InnerTypeOK
  <1>5. \/ proc[p].st \in {"rotate_read", "rotate_write"} /\ RecordFailure(RefreshKey)
        \/ proc[p].st \notin {"rotate_read", "rotate_write"} /\ guard' = guard
    BY DEF CallFails
  <1>6. guard' \in [GuardKeys -> Entry \cup {None}]
    BY <1>1, <1>5, FailureGuard, Keys DEF InnerTypeOK
  <1>7. proc[p].st = "approve_update" => proc[p].tok \in TokenIds
    BY <1>1 DEF HandlerOK, Issued
  <1>8. /\ excused \subseteq excused' /\ excused' \subseteq Codes \cup TokenIds
        /\ proc[p].st = "approve_update" => proc[p].tok \in excused'
        /\ overtaken' = overtaken \ {p}
    BY <1>1, <1>7 DEF CallFails, At, InnerTypeOK
  <1>9. InnerTypeOK'
    BY <1>1, <1>3, <1>4, <1>6, <1>8 DEF InnerTypeOK, Became
  <1> QED BY <1>2, <1>3, <1>4, <1>5, <1>8, <1>9
(* A request takes an idle handler. *)
Start(p) ==
  \/ \E u \in Users : Login1(p, u) \/ Change1(p, u) \/ Deactivate(p, u)
  \/ \E u \in Users, c \in Codes : Approve(p, u, c)
  \/ \E t \in TokenIds : Refresh(p, t)
  \/ \E c \in Codes : Poll(p, c)

LEMMA NextCases ==
  ASSUME Next
  PROVE  \/ \E p \in Procs : Step(p)
         \/ \E p \in Procs : Start(p)
         \/ \E c \in Codes : DeviceCodeRequest(c)
         \/ Cleanup \/ Tick
  BY DEF Next, Start, Login1, Change1

LEMMA StartStep ==
  ASSUME BaseInv, NEW p \in Procs, Start(p)
  PROVE  /\ proc[p].st = "idle" /\ StartFrame
         /\ \E s, u, t, c, b : Became(p, s, u, t, c, b)
         /\ proc'[p].st \in {"login_read", "change_read", "deactivate", "approve_read",
                             "rotate_read", "poll_read"}
         /\ HandlerOK(p)' /\ InnerTypeOK' /\ requests' \in 0..MaxRequests
  <1>1. TypeOK /\ InnerTypeOK /\ CodesAsked /\ GuardTypeOK
    BY TypeSplit DEF BaseInv, HandlersOK, TypeOK
  <1>2. StartFrame => UNCHANGED <<password, active, tokens, codes, devices, overtaken,
                                  revocations, asked, delivered, excused>>
    BY DEF StartFrame, store, history
  <1>3. ASSUME NEW u \in Users, Login1(p, u) \/ Change1(p, u) \/ Deactivate(p, u)
        PROVE  /\ StartFrame /\ proc[p].st = "idle" /\ UNCHANGED tracker
               /\ requests' \in 0..MaxRequests
               /\ guard' \in [GuardKeys -> Entry \cup {None}]
               /\ \E s \in {"login_read", "change_read", "deactivate"} :
                    Became(p, s, u, None, None, 0)
    <2>1. CASE Login1(p, u)
      <3>1. guard' \in [GuardKeys -> Entry \cup {None}]
        BY <1>1, <2>1, LoginStarts, CheckGuard, Keys
      <3>2. /\ Became(p, "login_read", u, None, None, 0) /\ StartFrame /\ UNCHANGED tracker
            /\ proc[p].st = "idle" /\ requests' \in 0..MaxRequests
        BY <1>1, <2>1, LoginStarts
      <3> QED BY <3>1, <3>2
    <2>2. CASE Change1(p, u)
      <3>2. /\ Became(p, "change_read", u, None, None, 0) /\ StartFrame /\ UNCHANGED <<guard, tracker>>
            /\ proc[p].st = "idle" /\ requests' \in 0..MaxRequests
        BY <1>1, <2>2, ChangeStarts
      <3> QED BY <1>1, <3>2 DEF InnerTypeOK
    <2>3. CASE Deactivate(p, u)
      <3>2. /\ Became(p, "deactivate", u, None, None, 0) /\ StartFrame /\ UNCHANGED <<guard, tracker>>
            /\ proc[p].st = "idle" /\ requests' \in 0..MaxRequests
        BY <1>1, <2>3, DeactivateStarts
      <3> QED BY <1>1, <3>2 DEF InnerTypeOK
    <2> QED BY <1>3, <2>1, <2>2, <2>3
  <1>4. CASE \E u \in Users : Login1(p, u) \/ Change1(p, u) \/ Deactivate(p, u)
    <2>1. PICK u \in Users : Login1(p, u) \/ Change1(p, u) \/ Deactivate(p, u)
      BY <1>4
    <2>2. PICK s \in {"login_read", "change_read", "deactivate"} : Became(p, s, u, None, None, 0)
      BY <1>3, <2>1
    <2>3. StartFrame /\ proc[p].st = "idle" /\ UNCHANGED tracker /\ requests' \in 0..MaxRequests
          /\ guard' \in [GuardKeys -> Entry \cup {None}]
      BY <1>3, <2>1
    <2>4. HandlerOK(p)'
      BY <2>2 DEF HandlerOK, Became
    <2>5. InnerTypeOK'
      BY <1>1, <1>2, <2>2, <2>3 DEF InnerTypeOK, Became
    <2> QED BY <2>2, <2>3, <2>4, <2>5 DEF Became
  <1>5. CASE \E u \in Users, c \in Codes : Approve(p, u, c)
    <2>1. PICK u \in Users, c \in Codes : Approve(p, u, c)
      BY <1>5
    <2>2. /\ Became(p, "approve_read", u, None, c, 0) /\ StartFrame /\ UNCHANGED tracker
          /\ proc[p].st = "idle" /\ requests' \in 0..MaxRequests
      BY <1>1, <2>1, ApproveStarts
    <2>3. guard' \in [GuardKeys -> Entry \cup {None}]
      BY <1>1, <2>1, ApproveStarts, CheckGuard, Keys
    <2>4. HandlerOK(p)'
      BY <2>2 DEF HandlerOK, Became
    <2>5. InnerTypeOK'
      BY <1>1, <1>2, <2>2, <2>3 DEF InnerTypeOK, Became
    <2> QED BY <2>2, <2>4, <2>5 DEF Became
  <1>6. CASE \E t \in TokenIds : Refresh(p, t)
    <2>1. PICK t \in TokenIds : Refresh(p, t)
      BY <1>6
    <2>2. /\ Became(p, "rotate_read", None, t, None, 0) /\ StartFrame /\ UNCHANGED tracker
          /\ proc[p].st = "idle" /\ requests' \in 0..MaxRequests /\ t \in Issued
      BY <1>1, <2>1, RefreshStarts
    <2>3. guard' \in [GuardKeys -> Entry \cup {None}]
      BY <1>1, <2>1, RefreshStarts, CheckGuard, Keys
    <2>4. HandlerOK(p)'
      BY <1>2, <2>2 DEF HandlerOK, Became, Issued
    <2>5. InnerTypeOK'
      BY <1>1, <1>2, <2>2, <2>3 DEF InnerTypeOK, Became
    <2> QED BY <2>2, <2>4, <2>5 DEF Became
  <1>7. CASE \E c \in Codes : Poll(p, c)
    <2>1. PICK c \in Codes : Poll(p, c)
      BY <1>7
    <2>2. /\ Became(p, "poll_read", None, None, c, clock) /\ StartFrame
          /\ tracker' = [tracker EXCEPT ![c] = clock] /\ UNCHANGED guard /\ c \in asked
          /\ proc[p].st = "idle" /\ requests' \in 0..MaxRequests
      BY <1>1, <2>1, PollStarts
    <2>3. tracker' \in [Codes -> Nat \cup {None}]
      BY <1>1, <2>2 DEF InnerTypeOK, GuardTypeOK
    <2>4. HandlerOK(p)'
      BY <1>2, <2>2 DEF HandlerOK, Became
    <2>5. InnerTypeOK'
      BY <1>1, <1>2, <2>2, <2>3 DEF InnerTypeOK, Became
    <2> QED BY <2>2, <2>4, <2>5 DEF Became
  <1> QED BY <1>4, <1>5, <1>6, <1>7 DEF Start

LEMMA CodeRequestStep ==
  ASSUME BaseInv, NEW c \in Codes, DeviceCodeRequest(c)
  PROVE  /\ c \notin asked /\ asked' = asked \cup {c} /\ Committed(None)
         /\ UNCHANGED <<backend, clock, guard, tokens, tracker, proc, revocations,
                        delivered, excused, requests>>
         /\ \A d \in Codes : d # c => codes'[d] = codes[d]
         /\ InnerTypeOK'
  <1>1. InnerTypeOK /\ clock + CodeTtl \in Nat
    BY TypeSplit, SessionsAssumption DEF BaseInv, TypeOK, GuardTypeOK
  <1> DEFINE r == [expires |-> clock + CodeTtl, by |-> None, tok |-> None]
  <1>2. r \in Code
    BY <1>1 DEF Code
  <1>3. codes' = [codes EXCEPT ![c] = r]
    BY DEF DeviceCodeRequest
  <1> HIDE DEF r
  <1>4. codes' \in [Codes -> Code \cup {None}] /\ \A d \in Codes : d # c => codes'[d] = codes[d]
    BY <1>1, <1>2, <1>3 DEF InnerTypeOK
  <1>5. /\ c \notin asked /\ asked' = asked \cup {c} /\ Committed(None)
        /\ UNCHANGED <<backend, clock, guard, password, active, tokens, devices, tracker,
                       proc, revocations, delivered, excused, requests>>
    BY DEF DeviceCodeRequest
  <1>6. InnerTypeOK'
    BY <1>1, <1>4, <1>5, CommittedType DEF InnerTypeOK
  <1> QED BY <1>4, <1>5, <1>6

LEMMA CleanupStep ==
  ASSUME BaseInv, Cleanup
  PROVE  /\ \A t \in TokenIds : Outlives(tokens', t)
         /\ \A c \in Codes : codes'[c] = codes[c] \/ codes'[c] = None
         /\ Committed(None)
         /\ UNCHANGED <<backend, clock, guard, tracker, proc, history, requests>>
         /\ InnerTypeOK'
  <1>1. InnerTypeOK
    BY TypeSplit DEF BaseInv
  <1>2. tokens' \in Tables /\ \A t \in TokenIds : Outlives(tokens', t)
    BY <1>1, CleanedTable DEF InnerTypeOK
  <1>3. codes' \in [Codes -> Code \cup {None}]
        /\ \A c \in Codes : codes'[c] = codes[c] \/ codes'[c] = None
    BY <1>1 DEF Cleanup, InnerTypeOK
  <1>4. /\ Committed(None)
        /\ UNCHANGED <<backend, clock, guard, password, active, devices, tracker, proc,
                       history, requests>>
    BY DEF Cleanup
  <1>5. InnerTypeOK'
    BY <1>1, <1>2, <1>3, <1>4, CommittedType DEF InnerTypeOK, history
  <1> QED BY <1>2, <1>3, <1>4, <1>5

LEMMA BaseInit == Init => BaseInv
  <1> SUFFICES ASSUME Init PROVE BaseInv
    OBVIOUS
  <1>1. clock = 0 /\ Counted(None) \in Entry
    BY CountedEntry DEF Init
  <1>2. GuardTypeOK
    BY <1>1 DEF Init, GuardTypeOK
  <1>3. PICK u \in Users :
         tokens = [t \in TokenIds |->
           IF t = 1 THEN [st |-> "live", user |-> u, parent |-> None,
                          since |-> 0, code |-> None] ELSE None]
    BY DEF Init
  <1>4. [st |-> "live", user |-> u, parent |-> None, since |-> 0, code |-> None] \in Token
    BY DEF Token
  <1>5. tokens \in [TokenIds -> Token \cup {None}] /\ \A t \in Issued : tokens[t].code = None
    BY <1>3, <1>4 DEF Issued
  <1>6. proc \in [Procs -> Handler] /\ HandlersOK
    BY IdleHandler DEF Init, HandlersOK, HandlerOK
  <1>7. TypeOK
    BY <1>2, <1>5, <1>6, SessionsAssumption DEF Init, TypeOK
  <1>8. CodesAsked
    BY <1>5 DEF Init, CodesAsked
  <1> QED BY <1>6, <1>7, <1>8 DEF BaseInv

LEMMA BaseStep == BaseInv /\ [Next]_vars => BaseInv'
  <1> SUFFICES ASSUME BaseInv, [Next]_vars PROVE BaseInv'
    OBVIOUS
  <1>1. TypeOK /\ InnerTypeOK /\ OuterTypeOK /\ CodesAsked
    BY TypeSplit DEF BaseInv
  <1> DEFINE Kept1 ==
        /\ InnerTypeOK' /\ OuterTypeOK' /\ HandlersOK' /\ asked \subseteq asked'
        /\ \A c \in Codes : codes'[c] # None => codes[c] # None \/ c \in asked'
        /\ \A t \in Issued' : tokens'[t].code \in asked' \cup {None}
  <1>2. ASSUME \A t \in TokenIds : Outlives(tokens', t), asked \subseteq asked'
        PROVE  \A t \in Issued' : tokens'[t].code \in asked' \cup {None}
    BY <1>1, <1>2 DEF CodesAsked, Outlives, Issued
  <1>3. ASSUME NEW p \in Procs, HandlerOK(p)', \E s, u, t, c, b : Became(p, s, u, t, c, b),
               \A t \in Issued : Outlives(tokens', t), asked \subseteq asked'
        PROVE  HandlersOK'
    BY <1>3, HandlersMove, TokensStay
  <1>4. ASSUME NEW p \in Procs, Step(p) PROVE Kept1
    <2>1. CASE LoginRead(p) \/ LoginVerify(p) \/ RotateRead(p) \/ ChangeRead(p)
                 \/ ChangeWrite(p) \/ DeactivateWrite(p)
      <3>1. UNCHANGED <<backend, clock, tokens, codes, asked, requests>>
        BY <2>1, PlainSteps DEF history
      <3>2. InnerTypeOK' /\ HandlerOK(p)' /\ \E s, u, t, c, b : Became(p, s, u, t, c, b)
        BY <2>1, PlainSteps
      <3> QED BY <1>1, <1>2, <1>3, <3>1, <3>2, SameTokens DEF OuterTypeOK
    <2>2. CASE ApproveRead(p)
      <3>1. UNCHANGED <<backend, clock, tokens, asked, requests>>
            /\ \A d \in Codes : codes'[d] = codes[d] \/ codes'[d] = None
        BY <2>2, ApproveReadStep
      <3>2. InnerTypeOK' /\ HandlerOK(p)' /\ \E s, u, t, c, b : Became(p, s, u, t, c, b)
        BY <2>2, ApproveReadStep
      <3> QED BY <1>1, <1>2, <1>3, <3>1, <3>2, SameTokens DEF OuterTypeOK
    <2>3. CASE ApproveUpdate(p)
      <3>1. UNCHANGED <<backend, clock, tokens, asked, requests>>
        BY <2>3, ApproveUpdateStep DEF history
      <3>2. InnerTypeOK' /\ HandlerOK(p)' /\ \E s, u, t, c, b : Became(p, s, u, t, c, b)
        BY <2>3, ApproveUpdateStep
      <3>3. \A d \in Codes : codes[d] = None => codes'[d] = None
        BY <2>3, ApproveUpdateStep DEF Approvable
      <3> QED BY <1>1, <1>2, <1>3, <3>1, <3>2, <3>3, SameTokens DEF OuterTypeOK
    <2>4. CASE PollRead(p)
      <3>1. UNCHANGED <<backend, clock, tokens, asked, requests>>
            /\ \A d \in Codes : codes'[d] = codes[d] \/ codes'[d] = None
        BY <2>4, PollReadStep
      <3>2. InnerTypeOK' /\ HandlerOK(p)' /\ \E s, u, t, c, b : Became(p, s, u, t, c, b)
        BY <2>4, PollReadStep
      <3> QED BY <1>1, <1>2, <1>3, <3>1, <3>2, SameTokens DEF OuterTypeOK
    <2>5. CASE PollTake(p)
      <3>1. UNCHANGED <<backend, clock, tokens, asked, requests>>
            /\ \A d \in Codes : codes'[d] = codes[d] \/ codes'[d] = None
        BY <2>5, PollTakeStep
      <3>2. InnerTypeOK' /\ HandlerOK(p)' /\ \E s, u, t, c, b : Became(p, s, u, t, c, b)
        BY <2>5, PollTakeStep
      <3> QED BY <1>1, <1>2, <1>3, <3>1, <3>2, SameTokens DEF OuterTypeOK
    <2>6. CASE StoreToken(p)
      <3>1. UNCHANGED <<backend, clock, codes, asked, requests>>
            /\ (\A t \in Issued : Outlives(tokens', t))
            /\ \A t \in Issued' : tokens'[t].code \in asked \cup {None}
        BY <2>6, StoreStep DEF history
      <3>2. InnerTypeOK' /\ HandlerOK(p)' /\ \E s, u, t, c, b : Became(p, s, u, t, c, b)
        BY <2>6, StoreStep
      <3> QED BY <1>1, <1>3, <3>1, <3>2 DEF OuterTypeOK
    <2>7. CASE RotateWrite(p)
      <3>1. UNCHANGED <<backend, clock, codes, asked, requests>>
            /\ (\A t \in Issued : Outlives(tokens', t))
            /\ \A t \in Issued' : tokens'[t].code \in asked \cup {None}
        BY <2>7, RotateStep DEF history
      <3>2. InnerTypeOK' /\ HandlerOK(p)' /\ \E s, u, t, c, b : Became(p, s, u, t, c, b)
        BY <2>7, RotateStep
      <3> QED BY <1>1, <1>3, <3>1, <3>2 DEF OuterTypeOK
    <2>8. CASE ApproveRevoke(p)
      <3>1. UNCHANGED <<backend, clock, codes, asked, requests>>
            /\ \A t \in TokenIds : Outlives(tokens', t)
        BY <2>8, ApproveRevokeStep
      <3>2. InnerTypeOK' /\ HandlerOK(p)' /\ \E s, u, t, c, b : Became(p, s, u, t, c, b)
        BY <2>8, ApproveRevokeStep
      <3> QED BY <1>1, <1>2, <1>3, <3>1, <3>2 DEF OuterTypeOK, Issued
    <2>9. CASE RevokeUser(p)
      <3>1. UNCHANGED <<backend, clock, codes, asked, requests>>
            /\ \A t \in TokenIds : Outlives(tokens', t)
        BY <2>9, RevokeUserStep
      <3>2. InnerTypeOK' /\ HandlerOK(p)' /\ \E s, u, t, c, b : Became(p, s, u, t, c, b)
        BY <2>9, RevokeUserStep
      <3> QED BY <1>1, <1>2, <1>3, <3>1, <3>2 DEF OuterTypeOK, Issued
    <2>10. CASE CallFails(p)
      <3>1. UNCHANGED <<backend, clock, tokens, codes, asked, requests>>
        BY <2>10, CallFailsStep
      <3>2. InnerTypeOK' /\ HandlerOK(p)' /\ \E s, u, t, c, b : Became(p, s, u, t, c, b)
        BY <2>10, CallFailsStep
      <3> QED BY <1>1, <1>2, <1>3, <3>1, <3>2, SameTokens DEF OuterTypeOK
    <2> HIDE DEF Kept1
    <2> QED BY <1>4, <2>1, <2>2, <2>3, <2>4, <2>5, <2>6, <2>7, <2>8, <2>9, <2>10 DEF Step
  <1>5. ASSUME NEW p \in Procs, Start(p) PROVE Kept1
    <2>1. UNCHANGED <<backend, clock, tokens, codes, asked>> /\ requests' \in 0..MaxRequests
      BY <1>5, StartStep DEF StartFrame, store, history
    <2>2. InnerTypeOK' /\ HandlerOK(p)' /\ \E s, u, t, c, b : Became(p, s, u, t, c, b)
      BY <1>5, StartStep
    <2> QED BY <1>1, <1>2, <1>3, <2>1, <2>2, SameTokens DEF OuterTypeOK
  <1>6. ASSUME NEW c \in Codes, DeviceCodeRequest(c) PROVE Kept1
    <2>1. UNCHANGED <<backend, clock, tokens, proc, requests>> /\ asked' = asked \cup {c}
          /\ InnerTypeOK' /\ \A d \in Codes : d # c => codes'[d] = codes[d]
      BY <1>6, CodeRequestStep
    <2> QED BY <1>1, <1>2, <2>1, SameTokens, HandlersRest DEF OuterTypeOK
  <1>7. ASSUME Cleanup PROVE Kept1
    <2>1. UNCHANGED <<backend, clock, proc, asked, requests>>
          /\ InnerTypeOK' /\ (\A t \in TokenIds : Outlives(tokens', t))
          /\ \A c \in Codes : codes'[c] = codes[c] \/ codes'[c] = None
      BY <1>7, CleanupStep DEF history
    <2>2. Issued \subseteq Issued'
      BY <2>1, TokensStay DEF Issued
    <2> QED BY <1>1, <1>2, <2>1, <2>2, HandlersRest DEF OuterTypeOK
  <1>8. ASSUME Tick PROVE Kept1
    <2>1. clock' = clock + 1
          /\ UNCHANGED <<backend, guard, password, active, tokens, codes, devices, tracker,
                         proc, overtaken, revocations, asked, delivered, excused, requests>>
      BY <1>8 DEF Tick, store, history
    <2>2. InnerTypeOK' /\ OuterTypeOK'
      BY <1>1, <2>1 DEF InnerTypeOK, OuterTypeOK
    <2> QED BY <1>1, <1>2, <2>1, <2>2, SameTokens, HandlersRest
  <1>9. ASSUME UNCHANGED vars PROVE Kept1
    <2>1. UNCHANGED <<clock, backend, guard, password, active, tokens, codes, devices, tracker,
                      proc, overtaken, revocations, asked, delivered, excused, requests>>
      BY <1>9 DEF vars, store, history
    <2>2. InnerTypeOK' /\ OuterTypeOK'
      BY <1>1, <2>1 DEF InnerTypeOK, OuterTypeOK
    <2> QED BY <1>1, <1>2, <2>1, <2>2, SameTokens, HandlersRest
  <1>10. Kept1
    <2> HIDE DEF Kept1
    <2> QED BY <1>4, <1>5, <1>6, <1>7, <1>8, <1>9, NextCases
  <1>11. CodesAsked'
    BY <1>1, <1>10 DEF CodesAsked
  <1> QED BY <1>10, <1>11, TypeSplitNext DEF BaseInv
LEMMA BaseAlways == Spec => []BaseInv
  BY BaseInit, BaseStep, PTL DEF Spec

(* Every variable of the token service keeps its type: no handler reads a row *)
(* that is not there or writes one that is malformed (auth.rs, jwt.rs).       *)
THEOREM SessionTypes == Spec => []TypeOK
  <1>1. BaseInv => TypeOK
    BY DEF BaseInv
  <1> QED BY <1>1, BaseAlways, PTL

-----------------------------------------------------------------------------
(* Rotation and revocation                                                   *)

(* A SQLite transaction that has read its token and is not overtaken still    *)
(* finds it live when it writes.                                              *)
SnapLive ==
  backend = "sqlite" => \A p \in Procs :
    proc[p].st = "rotate_write" /\ p \notin overtaken => Live(proc[p].tok)

(* A rotated token is dead. *)
ParentDead == \A t \in Issued : tokens[t].parent # None =>
  tokens[t].parent \in Issued /\ ~Live(tokens[t].parent)

LineageInv == ParentDead /\ RotatedOnce /\ RevocationReaches

LEMMA SnapCommitted ==
  ASSUME BaseInv, NEW p, Committed(p), backend' = backend,
         \A q \in Procs : q # p => proc'[q] = proc[q],
         p \in Procs => proc'[p].st # "rotate_write"
  PROVE  SnapLive'
  BY DEF SnapLive, Committed, At

LEMMA SnapQuiet ==
  ASSUME BaseInv, SnapLive, NEW p \in Procs, backend' = backend, tokens' = tokens,
         overtaken \ {p} \subseteq overtaken',
         \A q \in Procs : q # p => proc'[q] = proc[q],
         proc'[p].st = "rotate_write" => Live(proc'[p].tok)
  PROVE  SnapLive'
  BY DEF SnapLive, Live

LEMMA PlainCommits ==
  ASSUME NEW p \in Procs,
         LoginRead(p) \/ LoginVerify(p) \/ RotateRead(p) \/ ChangeRead(p)
           \/ ChangeWrite(p) \/ DeactivateWrite(p)
  PROVE  \/ overtaken' = overtaken
         \/ Committed(p) /\ (ChangeWrite(p) \/ DeactivateWrite(p))
  BY DEF LoginRead, LoginVerify, RotateRead, ChangeRead, ChangeWrite, DeactivateWrite, NoCommit

LEMMA SnapStep == BaseInv /\ SnapLive /\ [Next]_vars => SnapLive'
  <1> SUFFICES ASSUME BaseInv, SnapLive, [Next]_vars PROVE SnapLive'
    OBVIOUS
  <1>0. InnerTypeOK
    BY TypeSplit DEF BaseInv
  <1>1. ASSUME NEW p \in Procs, Step(p) PROVE SnapLive'
    <2>1. CASE LoginRead(p) \/ LoginVerify(p) \/ RotateRead(p) \/ ChangeRead(p)
                 \/ ChangeWrite(p) \/ DeactivateWrite(p)
      <3>1. UNCHANGED <<backend, tokens>>
            /\ (\A q \in Procs : q # p => proc'[q] = proc[q])
            /\ (proc'[p].st = "rotate_write" =>
                  proc[p].st = "rotate_read" /\ Live(proc'[p].tok))
        BY <2>1, PlainSteps DEF Became
      <3>2. CASE overtaken' = overtaken
        BY <3>1, <3>2, SnapQuiet
      <3>3. CASE Committed(p) /\ (ChangeWrite(p) \/ DeactivateWrite(p))
        <4>1. proc[p].st # "rotate_read"
          BY <3>3 DEF ChangeWrite, DeactivateWrite, At
        <4> QED BY <3>1, <3>3, <4>1, SnapCommitted
      <3> QED BY <2>1, <3>2, <3>3, PlainCommits
    <2>2. CASE ApproveRead(p)
      <3>1. backend' = backend /\ tokens' = tokens /\ (overtaken' = overtaken \/ Committed(p))
            /\ (\A q \in Procs : q # p => proc'[q] = proc[q]) /\ proc'[p].st # "rotate_write"
        BY <2>2, ApproveReadStep DEF Became
      <3> QED BY <3>1, SnapQuiet, SnapCommitted
    <2>3. CASE ApproveUpdate(p)
      <3>1. backend' = backend /\ tokens' = tokens /\ (overtaken' = overtaken \/ Committed(p))
            /\ (\A q \in Procs : q # p => proc'[q] = proc[q]) /\ proc'[p].st # "rotate_write"
        BY <2>3, ApproveUpdateStep DEF Became
      <3> QED BY <3>1, SnapQuiet, SnapCommitted
    <2>4. CASE PollRead(p)
      <3>1. backend' = backend /\ tokens' = tokens /\ (overtaken' = overtaken \/ Committed(p))
            /\ (\A q \in Procs : q # p => proc'[q] = proc[q]) /\ proc'[p].st # "rotate_write"
        BY <2>4, PollReadStep DEF Became
      <3> QED BY <3>1, SnapQuiet, SnapCommitted
    <2>5. CASE PollTake(p)
      <3>1. backend' = backend /\ tokens' = tokens /\ (overtaken' = overtaken \/ Committed(p))
            /\ (\A q \in Procs : q # p => proc'[q] = proc[q]) /\ proc'[p].st # "rotate_write"
        BY <2>5, PollTakeStep DEF Became
      <3> QED BY <3>1, SnapQuiet, SnapCommitted
    <2>6. CASE StoreToken(p)
      <3>1. PICK t \in TokenIds :
              /\ proc[p].code = None => Became(p, "idle", None, None, None, 0)
              /\ proc[p].code # None =>
                   Became(p, "approve_update", proc[p].user, t, proc[p].code, proc[p].began)
        BY <2>6, StoreEffect
      <3>2. backend' = backend /\ Committed(p)
            /\ (\A q \in Procs : q # p => proc'[q] = proc[q]) /\ proc'[p].st # "rotate_write"
        BY <2>6, <3>1, StoreStep DEF Became
      <3> QED BY <3>2, SnapCommitted
    <2>7. CASE RotateWrite(p)
      <3>1. backend' = backend
            /\ (Committed(p) \/ (tokens' = tokens /\ overtaken' = overtaken \ {p}))
            /\ (\A q \in Procs : q # p => proc'[q] = proc[q]) /\ proc'[p].st # "rotate_write"
        BY <2>7, RotateStep DEF Became
      <3> QED BY <3>1, SnapQuiet, SnapCommitted
    <2>8. CASE ApproveRevoke(p)
      <3>1. backend' = backend
            /\ (Committed(p) \/ (tokens' = tokens /\ overtaken' = overtaken))
            /\ (\A q \in Procs : q # p => proc'[q] = proc[q]) /\ proc'[p].st # "rotate_write"
        BY <2>8, ApproveRevokeStep DEF Became
      <3> QED BY <3>1, SnapQuiet, SnapCommitted
    <2>9. CASE RevokeUser(p)
      <3>1. backend' = backend /\ Committed(p)
            /\ (\A q \in Procs : q # p => proc'[q] = proc[q]) /\ proc'[p].st # "rotate_write"
        BY <2>9, RevokeUserStep DEF Became
      <3> QED BY <3>1, SnapCommitted
    <2>10. CASE CallFails(p)
      <3>1. backend' = backend /\ tokens' = tokens /\ overtaken' = overtaken \ {p}
            /\ (\A q \in Procs : q # p => proc'[q] = proc[q]) /\ proc'[p].st # "rotate_write"
        BY <2>10, CallFailsStep DEF Became
      <3> QED BY <3>1, SnapQuiet
    <2> QED BY <1>1, <2>1, <2>2, <2>3, <2>4, <2>5, <2>6, <2>7, <2>8, <2>9, <2>10 DEF Step
  <1>2. ASSUME NEW p \in Procs, Start(p) PROVE SnapLive'
    <2>1. backend' = backend /\ tokens' = tokens /\ overtaken' = overtaken
          /\ (\A q \in Procs : q # p => proc'[q] = proc[q]) /\ proc'[p].st # "rotate_write"
      BY <1>2, StartStep DEF Became, StartFrame, store
    <2> QED BY <2>1, SnapQuiet
  <1>3. ASSUME Committed(None), UNCHANGED <<backend, proc>> PROVE SnapLive'
    <2>1. None \notin Procs
      BY SessionsAssumption
    <2> QED BY <1>3, <2>1, SnapCommitted
  <1>4. ASSUME NEW c \in Codes, DeviceCodeRequest(c) PROVE SnapLive'
    BY <1>3, <1>4, CodeRequestStep
  <1>5. ASSUME Cleanup PROVE SnapLive'
    BY <1>3, <1>5, CleanupStep
  <1>6. ASSUME Tick \/ UNCHANGED vars PROVE SnapLive'
    <2>1. UNCHANGED <<backend, proc, tokens, overtaken>>
      BY <1>6 DEF Tick, vars, store
    <2> QED BY <2>1 DEF SnapLive, Live
  <1> QED BY <1>1, <1>2, <1>4, <1>5, <1>6, NextCases

(* Tokens that only die keep the lineage; so does a revocation of an account. *)
LEMMA LineageDying ==
  ASSUME BaseInv, LineageInv, backend' = backend, revocations' = revocations,
         \A t \in TokenIds : Outlives(tokens', t)
  PROVE  LineageInv'
  <1>1. Issued' = Issued /\ \A t \in Issued :
          /\ tokens'[t].parent = tokens[t].parent /\ tokens'[t].since = tokens[t].since
          /\ tokens'[t].user = tokens[t].user /\ (Live(t)' => Live(t))
    BY DEF Outlives, Issued, Live
  <1>2. ParentDead' /\ RotatedOnce'
    BY <1>1 DEF LineageInv, ParentDead, RotatedOnce, Live, Issued, Outlives
  <1>3. RevocationReaches'
    BY <1>1 DEF LineageInv, RevocationReaches
  <1> QED BY <1>2, <1>3 DEF LineageInv

LEMMA LineageRevoke ==
  ASSUME BaseInv, LineageInv, NEW p \in Procs, RevokeUser(p)
  PROVE  LineageInv'
  <1>0. InnerTypeOK
    BY TypeSplit DEF BaseInv
  <1> DEFINE u == proc[p].user
  <1>1. /\ u \in Users /\ backend' = backend
        /\ (\A t \in TokenIds : Outlives(tokens', t))
        /\ \A t \in Issued : tokens[t].user = u => tokens'[t].st # "live"
    BY RevokeUserStep
  <1>2. revocations' = [revocations EXCEPT ![u] = revocations[u] + 1]
    BY RevokeUserStep
  <1>3. Issued' = Issued /\ \A t \in Issued :
          /\ tokens'[t].parent = tokens[t].parent /\ tokens'[t].since = tokens[t].since
          /\ tokens'[t].user = tokens[t].user /\ (Live(t)' => Live(t))
    BY <1>1 DEF Outlives, Issued, Live
  <1>4. ParentDead' /\ RotatedOnce'
    BY <1>1, <1>3 DEF LineageInv, ParentDead, RotatedOnce, Live, Issued, Outlives
  <1>5. ASSUME NEW t \in Issued', Live(t)', backend' = "sqlite"
        PROVE  tokens'[t].since = revocations'[tokens'[t].user]
    <2>1. tokens[t].user # u /\ Live(t) /\ t \in Issued /\ tokens'[t].user = tokens[t].user
          /\ tokens'[t].since = tokens[t].since
      BY <1>1, <1>3, <1>5 DEF Live
    <2>2. tokens[t].user \in Users
      BY <1>0, <2>1 DEF Issued, InnerTypeOK, Tables, Token
    <2>3. revocations'[tokens[t].user] = revocations[tokens[t].user]
      BY <1>0, <1>2, <2>1, <2>2 DEF InnerTypeOK
    <2>4. tokens[t].since = revocations[tokens[t].user]
      BY <1>1, <1>5, <2>1 DEF LineageInv, RevocationReaches
    <2> QED BY <2>1, <2>3, <2>4
  <1>6. RevocationReaches'
    BY <1>5 DEF RevocationReaches
  <1> QED BY <1>4, <1>6 DEF LineageInv

LEMMA LineageStore ==
  ASSUME BaseInv, LineageInv, NEW p \in Procs, StoreToken(p)
  PROVE  LineageInv'
  <1>1. PICK t \in TokenIds \ Issued :
           /\ tokens' \in Tables /\ tokens'[t] # None /\ tokens'[t].st = "live"
           /\ tokens'[t].user = proc[p].user /\ tokens'[t].parent = None
           /\ tokens'[t].since = revocations[proc[p].user]
           /\ \A s \in TokenIds : s # t => tokens'[s] = tokens[s]
    BY StoreEffect
  <1>2. backend' = backend /\ revocations' = revocations
    BY StoreStep DEF history
  <1>3. /\ Issued' = Issued \cup {t} /\ (\A s \in Issued : tokens'[s] = tokens[s])
        /\ \A s \in TokenIds : s # t => (Live(s)' <=> Live(s))
    BY <1>1 DEF Issued, Live
  <1>4. ParentDead'
    BY <1>1, <1>3 DEF LineageInv, ParentDead, Issued
  <1>5. RotatedOnce'
    BY <1>1, <1>2, <1>3 DEF LineageInv, RotatedOnce
  <1>6. RevocationReaches'
    BY <1>1, <1>2, <1>3 DEF LineageInv, RevocationReaches, Issued
  <1> QED BY <1>4, <1>5, <1>6 DEF LineageInv

LEMMA LineageRotate ==
  ASSUME BaseInv, SnapLive, LineageInv, NEW p \in Procs, RotateWrite(p), CanCommit(p)
  PROVE  LineageInv'
  <1>1. PICK old \in Issued : old = proc[p].tok
    BY RotateEffect
  <1>2. PICK t \in TokenIds \ Issued :
              /\ tokens' \in Tables /\ tokens'[t] # None /\ tokens'[t].st = "live"
              /\ tokens'[t].user = tokens[old].user /\ tokens'[t].parent = old
              /\ tokens'[t].since = tokens[old].since
              /\ \A s \in TokenIds : s # t => Outlives(tokens', s)
              /\ tokens'[old].st # "live"
    BY <1>1, RotateEffect
  <1>3. backend' = backend /\ revocations' = revocations
    BY RotateStep DEF history
  <1>4. /\ Issued' = Issued \cup {t}
        /\ \A s \in Issued :
             /\ tokens'[s].parent = tokens[s].parent /\ tokens'[s].since = tokens[s].since
             /\ tokens'[s].user = tokens[s].user /\ (Live(s)' => Live(s))
    BY <1>2 DEF Issued, Live, Outlives
  <1>6. backend = "sqlite" => Live(old)
    BY <1>1, RotateStep DEF SnapLive, CanCommit
  <1>7. ASSUME NEW s \in Issued', tokens'[s].parent # None
        PROVE  tokens'[s].parent \in Issued' /\ tokens'[tokens'[s].parent].st # "live"
    <2>1. CASE s = t
      BY <1>2, <1>4, <2>1
    <2>2. CASE s # t
      <3>1. PICK par : par = tokens[s].parent
        OBVIOUS
      <3>2. s \in Issued /\ tokens'[s].parent = par /\ par \in Issued /\ ~Live(par)
        BY <1>4, <1>7, <2>2, <3>1 DEF LineageInv, ParentDead
      <3>3. par \in Issued' /\ tokens'[par].st # "live"
        BY <1>4, <3>2 DEF Issued, Live
      <3> QED BY <3>2, <3>3
    <2> QED BY <2>1, <2>2
  <1>8. ParentDead'
    BY <1>7 DEF ParentDead, Live
  <1>9. ASSUME backend = "sqlite", NEW s \in Issued PROVE tokens[s].parent # old
    <2>1. old # None
      BY GuardAssumption DEF Issued, TokenIds
    <2> QED BY <1>6, <1>9, <2>1 DEF LineageInv, ParentDead
  <1>10. RotatedOnce'
    BY <1>2, <1>3, <1>4, <1>9 DEF LineageInv, RotatedOnce
  <1>11. RevocationReaches'
    BY <1>1, <1>2, <1>3, <1>4, <1>6 DEF LineageInv, RevocationReaches
  <1> QED BY <1>8, <1>10, <1>11 DEF LineageInv
(* The steps that neither issue a token nor revoke an account's. *)
LEMMA NoIssue ==
  ASSUME BaseInv, [Next]_vars,
         \A p \in Procs : ~StoreToken(p) /\ ~RevokeUser(p) /\ ~(RotateWrite(p) /\ CanCommit(p))
  PROVE  /\ backend' = backend /\ revocations' = revocations
         /\ \A t \in TokenIds : Outlives(tokens', t)
  <1>1. ASSUME NEW p \in Procs, Step(p)
        PROVE  /\ backend' = backend /\ revocations' = revocations
               /\ (tokens' = tokens \/ \A t \in TokenIds : Outlives(tokens', t))
    <2>1. CASE LoginRead(p) \/ LoginVerify(p) \/ RotateRead(p) \/ ChangeRead(p)
                 \/ ChangeWrite(p) \/ DeactivateWrite(p)
      BY <2>1, PlainSteps DEF history
    <2>2. CASE ApproveRead(p)
      BY <2>2, ApproveReadStep
    <2>3. CASE ApproveUpdate(p)
      BY <2>3, ApproveUpdateStep DEF history
    <2>4. CASE PollRead(p)
      BY <2>4, PollReadStep
    <2>5. CASE PollTake(p)
      BY <2>5, PollTakeStep
    <2>6. CASE RotateWrite(p)
      BY <2>6, RotateStep DEF history
    <2>7. CASE ApproveRevoke(p)
      BY <2>7, ApproveRevokeStep
    <2>8. CASE CallFails(p)
      BY <2>8, CallFailsStep
    <2> QED BY <1>1, <2>1, <2>2, <2>3, <2>4, <2>5, <2>6, <2>7, <2>8 DEF Step
  <1>2. ASSUME NEW p \in Procs, Start(p)
        PROVE  backend' = backend /\ revocations' = revocations /\ tokens' = tokens
    BY <1>2, StartStep DEF StartFrame, store, history
  <1>3. ASSUME NEW c \in Codes, DeviceCodeRequest(c)
        PROVE  backend' = backend /\ revocations' = revocations /\ tokens' = tokens
    BY <1>3, CodeRequestStep
  <1>4. ASSUME Cleanup
        PROVE  /\ backend' = backend /\ revocations' = revocations
               /\ \A t \in TokenIds : Outlives(tokens', t)
    BY <1>4, CleanupStep DEF history
  <1>5. ASSUME Tick \/ UNCHANGED vars
        PROVE  backend' = backend /\ revocations' = revocations /\ tokens' = tokens
    BY <1>5 DEF Tick, vars, store, history
  <1> QED BY <1>1, <1>2, <1>3, <1>4, <1>5, NextCases, SameTokens

LEMMA LineageStep == BaseInv /\ SnapLive /\ LineageInv /\ [Next]_vars => LineageInv'
  <1> SUFFICES ASSUME BaseInv, SnapLive, LineageInv, [Next]_vars PROVE LineageInv'
    OBVIOUS
  <1>1. CASE \E p \in Procs : StoreToken(p)
    BY <1>1, LineageStore
  <1>2. CASE \E p \in Procs : RevokeUser(p)
    BY <1>2, LineageRevoke
  <1>3. CASE \E p \in Procs : RotateWrite(p) /\ CanCommit(p)
    BY <1>3, LineageRotate
  <1>4. CASE \A p \in Procs :
               ~StoreToken(p) /\ ~RevokeUser(p) /\ ~(RotateWrite(p) /\ CanCommit(p))
    BY <1>4, NoIssue, LineageDying
  <1> QED BY <1>1, <1>2, <1>3, <1>4

LEMMA LineageInit == Init => SnapLive /\ LineageInv
  <1> SUFFICES ASSUME Init PROVE SnapLive /\ LineageInv
    OBVIOUS
  <1>1. PICK u \in Users :
         tokens = [t \in TokenIds |->
           IF t = 1 THEN [st |-> "live", user |-> u, parent |-> None,
                          since |-> 0, code |-> None] ELSE None]
    BY DEF Init
  <1>2. \A t \in Issued : tokens[t].parent = None /\ tokens[t].since = 0 /\ tokens[t].user = u
    BY <1>1 DEF Issued
  <1>3. SnapLive
    BY IdleHandler DEF Init, SnapLive
  <1>4. revocations[u] = 0
    BY DEF Init
  <1> QED BY <1>2, <1>3, <1>4 DEF LineageInv, ParentDead, RotatedOnce, RevocationReaches

LEMMA LineageAlways == Spec => [](BaseInv /\ SnapLive /\ LineageInv)
  BY BaseInit, BaseStep, LineageInit, SnapStep, LineageStep, PTL DEF Spec

(* On SQLite a refresh token is exchanged for at most one successor, with any *)
(* number of refreshes, revocations and other writes in flight                *)
(* (JwtManager::rotate over rotate_refresh_token).                            *)
THEOREM RefreshIsOneTime == Spec => []RotatedOnce
  <1>1. LineageInv => RotatedOnce
    BY DEF LineageInv
  <1> QED BY <1>1, LineageAlways, PTL

(* On SQLite no session outlives the revocation of its account: a rotation    *)
(* that raced revoke_user_refresh_tokens leaves no live token behind.         *)
THEOREM RevocationIsComplete == Spec => []RevocationReaches
  <1>1. LineageInv => RevocationReaches
    BY DEF LineageInv
  <1> QED BY <1>1, LineageAlways, PTL

-----------------------------------------------------------------------------
(* The approvals of a device code                                            *)

(* A live token of a code whose approval has ended took the code: nobody else *)
(* can be given it.                                                           *)
ApprovedTaken == \A t \in Issued :
  Live(t) /\ tokens[t].code # None /\ t \notin excused /\ ~InApproval(t)
    => ~Approvable(tokens[t].code)

ApprovalInv == ApprovedTaken /\ NoOrphanToken

(* What every step but the end of an approval does to codes and approvals. *)
LEMMA ApprovalsKeep ==
  ASSUME BaseInv, ApprovalInv, excused \subseteq excused',
         \A t \in TokenIds : Outlives(tokens', t),
         \A c \in asked : Approvable(c)' => Approvable(c),
         \A t \in Issued : Live(t)' /\ t \notin excused' /\ InApproval(t) => InApproval(t)'
  PROVE  ApprovalInv'
  <1>1. Issued' = Issued /\ \A t \in Issued :
          tokens'[t].code = tokens[t].code /\ (Live(t)' => Live(t))
    BY DEF Outlives, Issued, Live
  <1>2. ASSUME NEW t \in Issued', Live(t)', tokens'[t].code # None, t \notin excused',
               ~InApproval(t)'
        PROVE  ~Approvable(tokens[t].code)'
    <2>1. t \in Issued /\ Live(t) /\ tokens[t].code # None /\ t \notin excused
          /\ ~InApproval(t) /\ tokens[t].code \in asked
      BY <1>1, <1>2 DEF BaseInv, CodesAsked
    <2>2. PICK c \in asked : c = tokens[t].code
      BY <2>1
    <2>3. ~Approvable(c)
      BY <2>1, <2>2 DEF ApprovalInv, ApprovedTaken
    <2>4. tokens'[t].code = c
      BY <1>1, <2>1, <2>2
    <2> QED BY <2>3, <2>4
  <1>3. ApprovedTaken'
    BY <1>2 DEF ApprovedTaken
  <1>4. ASSUME NEW s \in Issued', NEW t \in Issued', Live(s)', Live(t)', s # t,
               tokens'[s].code # None, tokens'[s].code = tokens'[t].code
        PROVE  \E x \in {s, t} : x \in excused' \/ InApproval(x)'
    <2>1. s \in Issued /\ t \in Issued /\ Live(s) /\ Live(t)
          /\ tokens[s].code # None /\ tokens[s].code = tokens[t].code
      BY <1>1, <1>4
    <2>2. PICK x \in {s, t} : x \in excused \/ InApproval(x)
      BY <1>4, <2>1 DEF ApprovalInv, NoOrphanToken
    <2>3. x \in Issued /\ Live(x)'
      BY <1>4, <2>1, <2>2
    <2> QED BY <2>2, <2>3
  <1>5. NoOrphanToken'
    BY <1>4 DEF NoOrphanToken
  <1> QED BY <1>3, <1>5 DEF ApprovalInv
LEMMA StaysInApproval ==
  ASSUME NEW p \in Procs, \A q \in Procs : q # p => proc'[q] = proc[q], NEW t,
         InApproval(t),
         \/ proc[p].st \notin {"approve_update", "approve_revoke"}
         \/ proc[p].tok # t
         \/ proc'[p].st = "approve_revoke" /\ proc'[p].tok = proc[p].tok
  PROVE  InApproval(t)'
  BY DEF InApproval, At

LEMMA NoNewApprovable ==
  ASSUME NEW S, \A c \in S : codes'[c] = codes[c] \/ codes'[c] = None
  PROVE  \A c \in S : Approvable(c)' => Approvable(c)
  BY DEF Approvable

(* A new token joins the table while its approval runs, or with no code. *)
LEMMA ApprovalInsert ==
  ASSUME BaseInv, ApprovalInv, NEW n \in TokenIds \ Issued, NEW p \in Procs,
         UNCHANGED <<codes, excused>>,
         tokens'[n] # None,
         \A t \in TokenIds : t # n => Outlives(tokens', t),
         \A q \in Procs : q # p => proc'[q] = proc[q],
         proc[p].st \notin {"approve_update", "approve_revoke"},
         tokens'[n].code # None => InApproval(n)'
  PROVE  ApprovalInv'
  <1>1. Issued' = Issued \cup {n} /\ \A t \in Issued :
          tokens'[t].code = tokens[t].code /\ (Live(t)' => Live(t))
    BY DEF Outlives, Issued, Live
  <1>2. \A t : InApproval(t) => InApproval(t)'
    BY StaysInApproval
  <1>3. ASSUME NEW t \in Issued', Live(t)', tokens'[t].code # None, t \notin excused',
               ~InApproval(t)'
        PROVE  ~Approvable(tokens[t].code)'
    <2>1. t \in Issued /\ Live(t) /\ tokens[t].code # None /\ t \notin excused
          /\ ~InApproval(t) /\ tokens'[t].code = tokens[t].code
      BY <1>1, <1>2, <1>3
    <2>2. PICK c : c = tokens[t].code
      OBVIOUS
    <2>3. ~Approvable(c)
      BY <2>1, <2>2 DEF ApprovalInv, ApprovedTaken
    <2> QED BY <2>1, <2>2, <2>3 DEF Approvable
  <1>4. ApprovedTaken'
    BY <1>3 DEF ApprovedTaken
  <1>5. ASSUME NEW s \in Issued', NEW t \in Issued', Live(s)', Live(t)', s # t,
               tokens'[s].code # None, tokens'[s].code = tokens'[t].code
        PROVE  \E x \in {s, t} : x \in excused' \/ InApproval(x)'
    <2>1. CASE s = n \/ t = n
      BY <1>5, <2>1
    <2>2. CASE s # n /\ t # n
      <3>1. s \in Issued /\ t \in Issued /\ Live(s) /\ Live(t)
            /\ tokens[s].code # None /\ tokens[s].code = tokens[t].code
        BY <1>1, <1>5, <2>2
      <3>2. PICK x \in {s, t} : x \in excused \/ InApproval(x)
        BY <1>5, <3>1 DEF ApprovalInv, NoOrphanToken
      <3> QED BY <1>2, <3>2
    <2> QED BY <2>1, <2>2
  <1>6. NoOrphanToken'
    BY <1>5 DEF NoOrphanToken
  <1> QED BY <1>4, <1>6 DEF ApprovalInv
LEMMA TokensOutlive ==
  ASSUME BaseInv, [Next]_vars
  PROVE  \A t \in Issued : Outlives(tokens', t)
  <1>1. CASE \E p \in Procs : StoreToken(p)
    BY <1>1, StoreStep
  <1>2. CASE \E p \in Procs : RevokeUser(p)
    BY <1>2, RevokeUserStep DEF Issued
  <1>3. CASE \E p \in Procs : RotateWrite(p) /\ CanCommit(p)
    BY <1>3, RotateStep
  <1>4. CASE \A p \in Procs :
               ~StoreToken(p) /\ ~RevokeUser(p) /\ ~(RotateWrite(p) /\ CanCommit(p))
    BY <1>4, NoIssue DEF Issued
  <1> QED BY <1>1, <1>2, <1>3, <1>4

(* Only a stored token takes a handler to the update of its code. *)
LEMMA EntersUpdate ==
  ASSUME BaseInv, [Next]_vars, NEW q \in Procs, proc'[q].st = "approve_update"
  PROVE  proc'[q] = proc[q] \/ StoreToken(q)
  <1>1. ASSUME NEW p \in Procs, Step(p), q # p PROVE proc'[q] = proc[q]
    <2>1. \E s, u, t, c, b : Became(p, s, u, t, c, b)
      <3>1. CASE LoginRead(p) \/ LoginVerify(p) \/ RotateRead(p) \/ ChangeRead(p)
                   \/ ChangeWrite(p) \/ DeactivateWrite(p)
        BY <3>1, PlainSteps
      <3>2. CASE ApproveRead(p)
        BY <3>2, ApproveReadStep
      <3>3. CASE ApproveUpdate(p)
        BY <3>3, ApproveUpdateStep
      <3>4. CASE PollRead(p)
        BY <3>4, PollReadStep
      <3>5. CASE PollTake(p)
        BY <3>5, PollTakeStep
      <3>6. CASE StoreToken(p)
        BY <3>6, StoreStep
      <3>7. CASE RotateWrite(p)
        BY <3>7, RotateStep
      <3>8. CASE ApproveRevoke(p)
        BY <3>8, ApproveRevokeStep
      <3>9. CASE RevokeUser(p)
        BY <3>9, RevokeUserStep
      <3>10. CASE CallFails(p)
        BY <3>10, CallFailsStep
      <3> QED BY <1>1, <3>1, <3>2, <3>3, <3>4, <3>5, <3>6, <3>7, <3>8, <3>9, <3>10 DEF Step
    <2> QED BY <1>1, <2>1 DEF Became
  <1>2. ASSUME Step(q), ~StoreToken(q) PROVE FALSE
    <2>1. CASE LoginRead(q) \/ LoginVerify(q) \/ RotateRead(q) \/ ChangeRead(q)
                 \/ ChangeWrite(q) \/ DeactivateWrite(q)
      BY <2>1, PlainSteps
    <2>2. CASE ApproveRead(q)
      BY <2>2, ApproveReadStep DEF Became
    <2>3. CASE ApproveUpdate(q)
      BY <2>3, ApproveUpdateStep DEF Became
    <2>4. CASE PollRead(q)
      BY <2>4, PollReadStep DEF Became
    <2>5. CASE PollTake(q)
      BY <2>5, PollTakeStep DEF Became
    <2>7. CASE RotateWrite(q)
      BY <2>7, RotateStep DEF Became
    <2>8. CASE ApproveRevoke(q)
      BY <2>8, ApproveRevokeStep DEF Became
    <2>9. CASE RevokeUser(q)
      BY <2>9, RevokeUserStep DEF Became
    <2>10. CASE CallFails(q)
      BY <2>10, CallFailsStep DEF Became
    <2> QED BY <1>2, <2>1, <2>2, <2>3, <2>4, <2>5, <2>7, <2>8, <2>9, <2>10 DEF Step
  <1>3. ASSUME NEW p \in Procs, Start(p) PROVE proc'[q] = proc[q]
    BY <1>3, StartStep DEF Became
  <1>4. ASSUME NEW c \in Codes, DeviceCodeRequest(c) PROVE proc'[q] = proc[q]
    BY <1>4, CodeRequestStep
  <1>5. ASSUME Cleanup PROVE proc'[q] = proc[q]
    BY <1>5, CleanupStep
  <1>6. ASSUME Tick \/ UNCHANGED vars PROVE proc'[q] = proc[q]
    BY <1>6 DEF Tick, vars
  <1> QED BY <1>1, <1>2, <1>3, <1>4, <1>5, <1>6, NextCases

(* The token of a running approval is that of its code. *)
TokenOfCode == \A p \in Procs :
  proc[p].st = "approve_update" => tokens[proc[p].tok].code = proc[p].code

LEMMA TokenOfCodeStep == BaseInv /\ TokenOfCode /\ [Next]_vars => TokenOfCode'
  <1> SUFFICES ASSUME BaseInv, TokenOfCode, [Next]_vars,
                      NEW q \in Procs, proc'[q].st = "approve_update"
               PROVE  tokens'[proc'[q].tok].code = proc'[q].code
    BY DEF TokenOfCode
  <1>1. CASE proc'[q] = proc[q]
    <2>1. proc[q].tok \in Issued /\ tokens[proc[q].tok].code = proc[q].code
      BY <1>1 DEF BaseInv, HandlersOK, HandlerOK, TokenOfCode
    <2> QED BY <1>1, <2>1, TokensOutlive DEF Outlives, Issued
  <1>2. CASE StoreToken(q)
    <2>1. PICK t \in TokenIds \ Issued :
           /\ tokens'[t].code = proc[q].code
           /\ proc[q].code = None => Became(q, "idle", None, None, None, 0)
           /\ proc[q].code # None =>
                Became(q, "approve_update", proc[q].user, t, proc[q].code, proc[q].began)
      BY <1>2, StoreEffect
    <2> QED BY <2>1 DEF Became
  <1> QED BY <1>1, <1>2, EntersUpdate

(* The approval that takes the code is the only one that leaves its token. *)
LEMMA ApprovalTakes ==
  ASSUME BaseInv, TokenOfCode, ApprovalInv, NEW p \in Procs, ApproveUpdate(p),
         Approvable(proc[p].code)
  PROVE  ApprovalInv'
  <1>1. PICK c \in Codes : c = proc[p].code
    BY ApproveUpdateStep
  <1>2. PICK k \in Issued : k = proc[p].tok
    BY ApproveUpdateStep
  <1>3. /\ tokens' = tokens /\ excused' = excused /\ codes'[c] # None
        /\ codes'[c].by = proc[p].user /\ proc[p].user \in Users
        /\ (\A d \in Codes : d # c => codes'[d] = codes[d])
        /\ \A q \in Procs : q # p => proc'[q] = proc[q]
    BY <1>1, ApproveUpdateStep DEF Became, history
  <1>4. ~Approvable(c)' /\ \A d \in Codes : d # c => (Approvable(d)' <=> Approvable(d))
    BY <1>3, SessionsAssumption DEF Approvable
  <1>5. Issued' = Issued /\ \A t : Live(t)' <=> Live(t)
    BY <1>3 DEF Issued, Live
  <1>6. \A t : t # k /\ InApproval(t) => InApproval(t)'
    BY <1>2, <1>3, StaysInApproval
  <1>7. \A t \in Issued : tokens[t].code \in Codes \cup {None}
    BY DEF BaseInv, CodesAsked, TypeOK
  <1>8. tokens[k].code = c
    BY <1>1, <1>2, ApproveUpdateStep DEF TokenOfCode
  <1>9. ASSUME NEW t \in Issued', Live(t)', tokens'[t].code # None, t \notin excused',
               ~InApproval(t)'
        PROVE  ~Approvable(tokens[t].code)'
    <2>1. PICK d \in Codes : d = tokens[t].code /\ tokens'[t].code = d
      BY <1>3, <1>5, <1>7, <1>9
    <2>2. CASE d = c
      BY <1>4, <2>1, <2>2
    <2>3. CASE d # c
      <3>1. ~InApproval(t)
        BY <1>6, <1>8, <1>9, <2>1, <2>3
      <3>2. ~Approvable(d)
        BY <1>3, <1>5, <1>9, <2>1, <3>1 DEF ApprovalInv, ApprovedTaken
      <3> QED BY <1>4, <2>1, <2>3, <3>2
    <2> QED BY <2>2, <2>3
  <1>10. ASSUME NEW s \in Issued', NEW t \in Issued', Live(s)', Live(t)', s # t,
               tokens'[s].code # None, tokens'[s].code = tokens'[t].code
        PROVE  \E x \in {s, t} : x \in excused' \/ InApproval(x)'
    <2>1. s \in Issued /\ t \in Issued /\ Live(s) /\ Live(t)
          /\ tokens[s].code # None /\ tokens[s].code = tokens[t].code
      BY <1>3, <1>5, <1>10
    <2>2. CASE s = k \/ t = k
      <3>1. PICK x \in {s, t} : x # k
        BY <1>10, <2>2
      <3>2. tokens[x].code = c /\ Live(x) /\ x \in Issued
        BY <1>8, <2>1, <2>2, <3>1
      <3>3. x \in excused \/ InApproval(x)
        <4>1. Approvable(c) /\ c # None
          BY <1>1, SessionsAssumption
        <4> QED BY <3>2, <4>1 DEF ApprovalInv, ApprovedTaken
      <3> QED BY <1>3, <1>6, <3>1, <3>3
    <2>3. CASE s # k /\ t # k
      <3>2. PICK x \in {s, t} : x \in excused \/ InApproval(x)
        BY <1>10, <2>1 DEF ApprovalInv, NoOrphanToken
      <3> QED BY <1>3, <1>6, <2>3, <3>2
    <2> QED BY <2>2, <2>3
  <1>11. ApprovedTaken'
    BY <1>9 DEF ApprovedTaken
  <1>12. NoOrphanToken'
    BY <1>10 DEF NoOrphanToken
  <1> QED BY <1>11, <1>12 DEF ApprovalInv
LEMMA ApprovalStep == BaseInv /\ TokenOfCode /\ ApprovalInv /\ [Next]_vars => ApprovalInv'
  <1> SUFFICES ASSUME BaseInv, TokenOfCode, ApprovalInv, [Next]_vars PROVE ApprovalInv'
    OBVIOUS
  <1>0. asked \subseteq Codes
    BY DEF BaseInv, TypeOK
  <1>a. ASSUME NEW p \in Procs, \A q \in Procs : q # p => proc'[q] = proc[q],
               proc[p].st \notin {"approve_update", "approve_revoke"},
               excused \subseteq excused',
               \A t \in TokenIds : Outlives(tokens', t),
               \A d \in Codes : codes'[d] = codes[d] \/ codes'[d] = None
        PROVE  ApprovalInv'
    <2>1. \A t : InApproval(t) => InApproval(t)'
      BY <1>a, StaysInApproval
    <2>2. \A c \in asked : Approvable(c)' => Approvable(c)
      BY <1>0, <1>a, NoNewApprovable
    <2> QED BY <1>a, <2>1, <2>2, ApprovalsKeep
  <1>1. ASSUME NEW p \in Procs, Step(p) PROVE ApprovalInv'
    <2>1. CASE LoginRead(p) \/ LoginVerify(p) \/ RotateRead(p) \/ ChangeRead(p)
                 \/ ChangeWrite(p) \/ DeactivateWrite(p)
      <3>1. UNCHANGED <<codes, tokens, excused>>
            /\ \A q \in Procs : q # p => proc'[q] = proc[q]
        BY <2>1, PlainSteps DEF Became, history
      <3>2. proc[p].st \notin {"approve_update", "approve_revoke"}
        BY <2>1 DEF LoginRead, LoginVerify, RotateRead, ChangeRead, ChangeWrite,
                    DeactivateWrite, At
      <3> QED BY <1>a, <3>1, <3>2, SameTokens
    <2>2. CASE ApproveRead(p)
      <3>1. /\ tokens' = tokens /\ excused \subseteq excused' /\ proc[p].st = "approve_read"
            /\ (\A d \in Codes : codes'[d] = codes[d] \/ codes'[d] = None)
            /\ \A q \in Procs : q # p => proc'[q] = proc[q]
        BY <2>2, ApproveReadStep DEF Became
      <3> QED BY <1>a, <3>1, SameTokens
    <2>3. CASE ApproveUpdate(p) /\ Approvable(proc[p].code)
      BY <2>3, ApprovalTakes
    <2>4. CASE ApproveUpdate(p) /\ ~Approvable(proc[p].code)
      <3>1. /\ UNCHANGED <<tokens, excused, codes>>
            /\ proc'[p].st = "approve_revoke" /\ proc'[p].tok = proc[p].tok
            /\ \A q \in Procs : q # p => proc'[q] = proc[q]
        BY <2>4, ApproveUpdateStep DEF Became, history
      <3>2. \A t : InApproval(t) => InApproval(t)'
        BY <3>1, StaysInApproval
      <3>3. \A c \in asked : Approvable(c)' => Approvable(c)
        BY <3>1, NoNewApprovable
      <3> QED BY <3>1, <3>2, <3>3, SameTokens, ApprovalsKeep
    <2>5. CASE PollRead(p)
      <3>1. /\ tokens' = tokens /\ excused \subseteq excused' /\ proc[p].st = "poll_read"
            /\ (\A d \in Codes : codes'[d] = codes[d] \/ codes'[d] = None)
            /\ \A q \in Procs : q # p => proc'[q] = proc[q]
        BY <2>5, PollReadStep DEF Became
      <3> QED BY <1>a, <3>1, SameTokens
    <2>6. CASE PollTake(p)
      <3>1. /\ tokens' = tokens /\ excused \subseteq excused' /\ proc[p].st = "poll_take"
            /\ (\A d \in Codes : codes'[d] = codes[d] \/ codes'[d] = None)
            /\ \A q \in Procs : q # p => proc'[q] = proc[q]
        BY <2>6, PollTakeStep DEF Became
      <3> QED BY <1>a, <3>1, SameTokens
    <2>7. CASE StoreToken(p)
      <3>1. PICK t \in TokenIds \ Issued :
           /\ tokens'[t] # None /\ tokens'[t].code = proc[p].code
           /\ \A s \in TokenIds : s # t => tokens'[s] = tokens[s]
           /\ proc[p].code = None => Became(p, "idle", None, None, None, 0)
           /\ proc[p].code # None =>
                Became(p, "approve_update", proc[p].user, t, proc[p].code, proc[p].began)
        BY <2>7, StoreEffect
      <3>2. UNCHANGED <<codes, excused>> /\ proc[p].st = "store"
        BY <2>7, StoreStep DEF history
      <3>3. \A q \in Procs : q # p => proc'[q] = proc[q]
        BY <3>1 DEF Became
      <3>4. tokens'[t].code # None => InApproval(t)'
        BY <3>1 DEF Became, InApproval, At
      <3>5. \A s \in TokenIds : s # t => Outlives(tokens', s)
        BY <3>1 DEF Outlives
      <3> QED BY <3>1, <3>2, <3>3, <3>4, <3>5, ApprovalInsert
    <2>8. CASE RotateWrite(p) /\ CanCommit(p)
      <3>1. PICK t \in TokenIds \ Issued :
              /\ tokens'[t] # None /\ tokens'[t].code = None
              /\ \A s \in TokenIds : s # t => Outlives(tokens', s)
        BY <2>8, RotateEffect
      <3>2. UNCHANGED <<codes, excused>> /\ proc[p].st = "rotate_write"
            /\ \A q \in Procs : q # p => proc'[q] = proc[q]
        BY <2>8, RotateStep DEF history, Became
      <3> QED BY <3>1, <3>2, ApprovalInsert
    <2>9. CASE RotateWrite(p) /\ ~CanCommit(p)
      <3>1. UNCHANGED <<tokens, codes, excused>> /\ proc[p].st = "rotate_write"
            /\ \A q \in Procs : q # p => proc'[q] = proc[q]
        BY <2>9, RotateStep DEF history, Became
      <3> QED BY <1>a, <3>1, SameTokens
    <2>10. CASE ApproveRevoke(p)
      <3>1. PICK k \in Issued : k = proc[p].tok
        BY <2>10, ApproveRevokeStep
      <3>2. /\ codes' = codes /\ (\A t \in TokenIds : Outlives(tokens', t))
            /\ (\A q \in Procs : q # p => proc'[q] = proc[q])
            /\ excused \subseteq excused' /\ (~Live(k)' \/ k \in excused')
        BY <2>10, <3>1, ApproveRevokeStep DEF Became, Live
      <3>3. \A t \in Issued : Live(t)' /\ t \notin excused' /\ InApproval(t) => InApproval(t)'
        BY <3>1, <3>2, StaysInApproval
      <3>4. \A c \in asked : Approvable(c)' => Approvable(c)
        BY <3>2, NoNewApprovable
      <3> QED BY <3>2, <3>3, <3>4, ApprovalsKeep
    <2>11. CASE RevokeUser(p)
      <3>1. UNCHANGED <<codes, excused>> /\ proc[p].st = "revoke_user"
            /\ (\A t \in TokenIds : Outlives(tokens', t))
            /\ \A q \in Procs : q # p => proc'[q] = proc[q]
        BY <2>11, RevokeUserStep DEF Became
      <3> QED BY <1>a, <3>1
    <2>12. CASE CallFails(p)
      <3>1. /\ UNCHANGED <<tokens, codes>> /\ excused \subseteq excused'
            /\ (\A q \in Procs : q # p => proc'[q] = proc[q])
            /\ proc[p].st # "approve_revoke"
            /\ proc[p].st = "approve_update" => proc[p].tok \in excused'
        BY <2>12, CallFailsStep DEF Became
      <3>3. \A t \in Issued : Live(t)' /\ t \notin excused' /\ InApproval(t) => InApproval(t)'
        BY <3>1, StaysInApproval
      <3>4. \A c \in asked : Approvable(c)' => Approvable(c)
        BY <3>1, NoNewApprovable
      <3> QED BY <3>1, <3>3, <3>4, SameTokens, ApprovalsKeep
    <2> QED BY <1>1, <2>1, <2>2, <2>3, <2>4, <2>5, <2>6, <2>7, <2>8, <2>9, <2>10, <2>11, <2>12
            DEF Step
  <1>2. ASSUME NEW p \in Procs, Start(p) PROVE ApprovalInv'
    <2>1. UNCHANGED <<tokens, codes, excused>> /\ proc[p].st = "idle"
          /\ \A q \in Procs : q # p => proc'[q] = proc[q]
      BY <1>2, StartStep DEF Became, StartFrame, store, history
    <2> QED BY <1>a, <2>1, SameTokens
  <1>3. ASSUME UNCHANGED <<proc, excused>>, \A t \in TokenIds : Outlives(tokens', t),
               \A d \in asked : codes'[d] = codes[d] \/ codes'[d] = None
        PROVE  ApprovalInv'
    <2>1. \A t : InApproval(t) => InApproval(t)'
      BY <1>3 DEF InApproval, At
    <2>2. \A c \in asked : Approvable(c)' => Approvable(c)
      BY <1>3, NoNewApprovable
    <2> QED BY <1>3, <2>1, <2>2, ApprovalsKeep
  <1>4. ASSUME NEW c \in Codes, DeviceCodeRequest(c) PROVE ApprovalInv'
    <2>1. UNCHANGED <<proc, tokens, excused>> /\ c \notin asked
          /\ \A d \in Codes : d # c => codes'[d] = codes[d]
      BY <1>4, CodeRequestStep
    <2> QED BY <1>0, <1>3, <2>1, SameTokens
  <1>5. ASSUME Cleanup PROVE ApprovalInv'
    <2>1. UNCHANGED <<proc, excused>> /\ (\A t \in TokenIds : Outlives(tokens', t))
          /\ \A d \in Codes : codes'[d] = codes[d] \/ codes'[d] = None
      BY <1>5, CleanupStep DEF history
    <2> QED BY <1>0, <1>3, <2>1
  <1>6. ASSUME Tick \/ UNCHANGED vars PROVE ApprovalInv'
    <2>1. UNCHANGED <<proc, tokens, codes, excused>>
      BY <1>6 DEF Tick, vars, store, history
    <2> QED BY <1>3, <2>1, SameTokens
  <1> QED BY <1>1, <1>2, <1>4, <1>5, <1>6, NextCases

LEMMA ApprovalInit == Init => TokenOfCode /\ ApprovalInv
  <1> SUFFICES ASSUME Init PROVE TokenOfCode /\ ApprovalInv
    OBVIOUS
  <1>1. \A t \in Issued : tokens[t].code = None
    BY DEF Init, Issued
  <1>2. TokenOfCode
    BY IdleHandler DEF Init, TokenOfCode
  <1> QED BY <1>1, <1>2 DEF ApprovalInv, ApprovedTaken, NoOrphanToken

(* Of any number of approvals racing for a device code one leaves a live      *)
(* token, unless a failed database call kept another from revoking its own    *)
(* (device_approve).                                                          *)
THEOREM OneApprovalWins == Spec => []NoOrphanToken
  <1>1. ApprovalInv => NoOrphanToken
    BY DEF ApprovalInv
  <1> QED BY <1>1, BaseInit, BaseStep, ApprovalInit, TokenOfCodeStep, ApprovalStep, PTL DEF Spec
-----------------------------------------------------------------------------
(* The delivery of a code's tokens                                           *)

Polling(p, c) == proc[p].st \in {"poll_read", "poll_take"} /\ proc[p].code = c

(* Once delivered, a code has no row and no poll that has read it.  Before,   *)
(* its polls were let in at different times, none after the tracker's.        *)
DeliveredGone(c) == delivered[c] = 1 =>
  /\ codes[c] = None /\ c \in asked
  /\ \A p \in Procs : ~(proc[p].st = "poll_take" /\ proc[p].code = c)

PollsApart(c) == delivered[c] = 0 => \A p \in Procs : Polling(p, c) =>
  /\ tracker[c] # None /\ proc[p].began <= tracker[c]
  /\ \A q \in Procs : q # p /\ Polling(q, c) => proc[q].began # proc[p].began

DeliveryOK(c) == c \notin excused =>
  delivered[c] \in {0, 1} /\ DeliveredGone(c) /\ PollsApart(c)

DeliveryInv == \A c \in Codes : DeliveryOK(c)

(* A step that neither lets a poll in nor answers one. *)
LEMMA DeliveryKeeps ==
  ASSUME DeliveryInv, NEW p, \A q \in Procs : q # p => proc'[q] = proc[q],
         excused \subseteq excused', asked \subseteq asked', UNCHANGED <<delivered, tracker>>,
         \A c \in asked : codes[c] = None => codes'[c] = None,
         p \in Procs =>
           \/ proc'[p].st \notin {"poll_read", "poll_take"}
           \/ /\ proc[p].st = "poll_read" /\ proc'[p].st = "poll_take"
              /\ proc'[p].code = proc[p].code /\ proc'[p].began = proc[p].began
              /\ codes[proc[p].code] # None
  PROVE  DeliveryInv'
  <1> SUFFICES ASSUME NEW c \in Codes, c \notin excused' PROVE
        delivered'[c] \in {0, 1} /\ DeliveredGone(c)' /\ PollsApart(c)'
    BY DEF DeliveryInv, DeliveryOK
  <1>1. delivered[c] \in {0, 1} /\ DeliveredGone(c) /\ PollsApart(c)
    BY DEF DeliveryInv, DeliveryOK
  <1>2. DeliveredGone(c)'
    BY <1>1 DEF DeliveredGone
  <1>3. \A q \in Procs : Polling(q, c)' => Polling(q, c) /\ proc'[q].began = proc[q].began
    BY DEF Polling
  <1>4. PollsApart(c)'
    BY <1>1, <1>3 DEF PollsApart
  <1> QED BY <1>1, <1>2, <1>4

LEMMA DeliveryPoll ==
  ASSUME BaseInv, DeliveryInv, NEW p \in Procs, NEW d \in Codes, Poll(p, d)
  PROVE  DeliveryInv'
  <1>1. /\ Became(p, "poll_read", None, None, d, clock) /\ Paced(d)
        /\ tracker' = [tracker EXCEPT ![d] = clock]
        /\ UNCHANGED <<delivered, excused, asked, codes>>
    BY PollStarts DEF BaseInv, StartFrame, store, history
  <1>2. /\ \A q \in Procs : q # p => proc'[q] = proc[q]
        /\ proc'[p].st = "poll_read" /\ proc'[p].code = d /\ proc'[p].began = clock
    BY <1>1 DEF Became
  <1>3. clock \in Nat /\ tracker \in [Codes -> Nat \cup {None}]
        /\ \A q \in Procs : proc[q].began \in Nat
    BY DEF BaseInv, TypeOK, GuardTypeOK, Handler
  <1>4. clock # None
    BY <1>3, GuardAssumption
  <1> SUFFICES ASSUME NEW c \in Codes, c \notin excused' PROVE
        delivered'[c] \in {0, 1} /\ DeliveredGone(c)' /\ PollsApart(c)'
    BY DEF DeliveryInv, DeliveryOK
  <1>5. delivered[c] \in {0, 1} /\ DeliveredGone(c) /\ PollsApart(c)
    BY <1>1 DEF DeliveryInv, DeliveryOK
  <1>6. DeliveredGone(c)'
    BY <1>1, <1>2, <1>5 DEF DeliveredGone
  <1>7. CASE c # d
    <2>1. \A q \in Procs : Polling(q, c)' => q # p /\ Polling(q, c) /\ proc'[q] = proc[q]
      BY <1>2, <1>7 DEF Polling
    <2>2. tracker'[c] = tracker[c]
      BY <1>1, <1>3, <1>7
    <2> QED BY <1>1, <1>5, <1>6, <2>1, <2>2 DEF PollsApart
  <1>8. CASE c = d
    <2>1. tracker'[c] = clock
      BY <1>1, <1>3, <1>8
    <2>2. ASSUME delivered[c] = 0, NEW q \in Procs, q # p, Polling(q, c)'
          PROVE  proc'[q].began = proc[q].began /\ proc[q].began < clock /\ Polling(q, c)
      <3>1. proc'[q] = proc[q] /\ Polling(q, c)
        BY <1>2, <2>2 DEF Polling
      <3>2. tracker[c] # None /\ proc[q].began <= tracker[c]
        BY <1>5, <2>2, <3>1 DEF PollsApart
      <3>3. tracker[c] \in Nat /\ clock > tracker[c]
        BY <1>1, <1>3, <1>8, <3>2 DEF Paced
      <3> QED BY <1>3, <3>1, <3>2, <3>3
    <2>3. ASSUME delivered[c] = 0, NEW q \in Procs, Polling(q, c)', NEW r \in Procs, r # q,
                 Polling(r, c)'
          PROVE  proc'[r].began # proc'[q].began
      <3>1. CASE q = p
        <4>1. proc'[r].began = proc[r].began /\ proc[r].began < clock
          BY <2>2, <2>3, <3>1
        <4> QED BY <1>2, <1>3, <3>1, <4>1
      <3>2. CASE r = p
        <4>1. proc'[q].began = proc[q].began /\ proc[q].began < clock
          BY <2>2, <2>3, <3>2
        <4> QED BY <1>2, <1>3, <3>2, <4>1
      <3>3. CASE q # p /\ r # p
        BY <1>5, <2>2, <2>3, <3>3 DEF PollsApart
      <3> QED BY <3>1, <3>2, <3>3
    <2>4. ASSUME delivered[c] = 0, NEW q \in Procs, Polling(q, c)'
          PROVE  tracker'[c] # None /\ proc'[q].began <= tracker'[c]
      <3>1. CASE q = p
        BY <1>2, <1>3, <1>4, <2>1, <3>1
      <3>2. CASE q # p
        BY <1>3, <1>4, <2>1, <2>2, <2>4, <3>2
      <3> QED BY <3>1, <3>2
    <2>5. PollsApart(c)'
      BY <1>1, <2>3, <2>4 DEF PollsApart
    <2> QED BY <1>1, <1>5, <1>6, <2>5
  <1> QED BY <1>7, <1>8

LEMMA DeliveryTake ==
  ASSUME BaseInv, DeliveryInv, NEW p \in Procs, PollTake(p)
  PROVE  DeliveryInv'
  <1>1. PICK d \in Codes : d = proc[p].code
    BY PollTakeStep
  <1>2. /\ d \in asked /\ proc[p].st = "poll_take" /\ asked' = asked
        /\ (\A x \in Codes : codes'[x] = codes[x] \/ codes'[x] = None)
        /\ excused \subseteq excused'
        /\ (d \notin excused' => codes'[d] = None /\ ~Overlapped(p))
        /\ tracker' = [tracker EXCEPT ![d] = None]
        /\ delivered' = [delivered EXCEPT ![d] = delivered[d] + 1]
        /\ (\A q \in Procs : q # p => proc'[q] = proc[q]) /\ proc'[p].st = "idle"
    BY <1>1, PollTakeStep DEF Became
  <1>3. delivered \in [Codes -> Nat] /\ tracker \in [Codes -> Nat \cup {None}]
    BY DEF BaseInv, TypeOK
  <1> SUFFICES ASSUME NEW c \in Codes, c \notin excused' PROVE
        delivered'[c] \in {0, 1} /\ DeliveredGone(c)' /\ PollsApart(c)'
    BY DEF DeliveryInv, DeliveryOK
  <1>4. delivered[c] \in {0, 1} /\ DeliveredGone(c) /\ PollsApart(c)
    BY <1>2 DEF DeliveryInv, DeliveryOK
  <1>5. CASE c # d
    <2>1. delivered'[c] = delivered[c] /\ tracker'[c] = tracker[c]
      BY <1>2, <1>3, <1>5
    <2>2. \A q \in Procs : Polling(q, c)' => Polling(q, c) /\ proc'[q] = proc[q]
      BY <1>2 DEF Polling
    <2>3. DeliveredGone(c)'
      BY <1>2, <1>4, <2>1 DEF DeliveredGone
    <2>4. PollsApart(c)'
      BY <1>4, <2>1, <2>2 DEF PollsApart
    <2> QED BY <1>4, <2>1, <2>3, <2>4
  <1>6. CASE c = d
    <2>1. delivered[c] = 0
      BY <1>1, <1>2, <1>4, <1>6 DEF DeliveredGone
    <2>2. delivered'[c] = 1
      BY <1>2, <1>3, <1>6, <2>1
    <2>3. ASSUME NEW q \in Procs, q # p, proc[q].st = "poll_take", proc[q].code = c
          PROVE  FALSE
      <3>1. proc[q].began # proc[p].began
        BY <1>1, <1>2, <1>4, <1>6, <2>1, <2>3 DEF PollsApart, Polling
      <3>2. Overlapped(p)
        BY <1>1, <1>6, <2>3, <3>1 DEF Overlapped, At
      <3> QED BY <1>2, <1>6, <3>2
    <2>4. DeliveredGone(c)'
      BY <1>2, <1>6, <2>3 DEF DeliveredGone
    <2> QED BY <2>2, <2>4 DEF PollsApart
  <1> QED BY <1>5, <1>6

LEMMA DeliveryStep == BaseInv /\ DeliveryInv /\ [Next]_vars => DeliveryInv'
  <1> SUFFICES ASSUME BaseInv, DeliveryInv, [Next]_vars PROVE DeliveryInv'
    OBVIOUS
  <1>0. asked \subseteq Codes
    BY DEF BaseInv, TypeOK
  <1>1. ASSUME NEW p \in Procs, Step(p) PROVE DeliveryInv'
    <2>1. CASE LoginRead(p) \/ LoginVerify(p) \/ RotateRead(p) \/ ChangeRead(p)
                 \/ ChangeWrite(p) \/ DeactivateWrite(p)
      <3>1. UNCHANGED <<codes, tracker, asked, delivered, excused>>
            /\ (\A q \in Procs : q # p => proc'[q] = proc[q])
            /\ proc'[p].st \notin {"poll_read", "poll_take"}
        BY <2>1, PlainSteps DEF Became, history
      <3> QED BY <3>1, DeliveryKeeps
    <2>2. CASE ApproveRead(p)
      <3>1. /\ UNCHANGED <<tracker, asked, delivered>> /\ excused \subseteq excused'
            /\ (\A d \in Codes : codes'[d] = codes[d] \/ codes'[d] = None)
            /\ (\A q \in Procs : q # p => proc'[q] = proc[q])
            /\ proc'[p].st \notin {"poll_read", "poll_take"}
        BY <2>2, ApproveReadStep DEF Became
      <3> QED BY <1>0, <3>1, DeliveryKeeps
    <2>3. CASE ApproveUpdate(p)
      <3>1. /\ UNCHANGED <<tracker, asked, delivered, excused>>
            /\ (\A d \in Codes : codes[d] = None => codes'[d] = None)
            /\ (\A q \in Procs : q # p => proc'[q] = proc[q])
            /\ proc'[p].st \notin {"poll_read", "poll_take"}
        BY <2>3, ApproveUpdateStep DEF Became, history, Approvable
      <3> QED BY <1>0, <3>1, DeliveryKeeps
    <2>4. CASE PollRead(p)
      <3>1. /\ UNCHANGED <<tracker, asked, delivered>> /\ excused \subseteq excused'
            /\ (\A d \in Codes : codes'[d] = codes[d] \/ codes'[d] = None)
            /\ (\A q \in Procs : q # p => proc'[q] = proc[q])
            /\ \/ proc'[p].st = "idle"
               \/ /\ proc[p].st = "poll_read" /\ proc'[p].st = "poll_take"
                  /\ proc'[p].code = proc[p].code /\ proc'[p].began = proc[p].began
                  /\ codes[proc[p].code] # None
        BY <2>4, PollReadStep DEF Became
      <3> QED BY <1>0, <3>1, DeliveryKeeps
    <2>5. CASE PollTake(p)
      BY <2>5, DeliveryTake
    <2>6. CASE StoreToken(p)
      <3>1. PICK t \in TokenIds :
           /\ proc[p].code = None => Became(p, "idle", None, None, None, 0)
           /\ proc[p].code # None =>
                Became(p, "approve_update", proc[p].user, t, proc[p].code, proc[p].began)
        BY <2>6, StoreEffect
      <3>2. /\ UNCHANGED <<codes, tracker, asked, delivered, excused>>
            /\ (\A q \in Procs : q # p => proc'[q] = proc[q])
            /\ proc'[p].st \notin {"poll_read", "poll_take"}
        BY <2>6, <3>1, StoreStep DEF Became, history
      <3> QED BY <3>2, DeliveryKeeps
    <2>7. CASE RotateWrite(p)
      <3>1. /\ UNCHANGED <<codes, tracker, asked, delivered, excused>>
            /\ (\A q \in Procs : q # p => proc'[q] = proc[q])
            /\ proc'[p].st \notin {"poll_read", "poll_take"}
        BY <2>7, RotateStep DEF Became, history
      <3> QED BY <3>1, DeliveryKeeps
    <2>8. CASE ApproveRevoke(p)
      <3>1. /\ UNCHANGED <<codes, tracker, asked, delivered>> /\ excused \subseteq excused'
            /\ (\A q \in Procs : q # p => proc'[q] = proc[q])
            /\ proc'[p].st \notin {"poll_read", "poll_take"}
        BY <2>8, ApproveRevokeStep DEF Became
      <3> QED BY <3>1, DeliveryKeeps
    <2>9. CASE RevokeUser(p)
      <3>1. /\ UNCHANGED <<codes, tracker, asked, delivered, excused>>
            /\ (\A q \in Procs : q # p => proc'[q] = proc[q])
            /\ proc'[p].st \notin {"poll_read", "poll_take"}
        BY <2>9, RevokeUserStep DEF Became
      <3> QED BY <3>1, DeliveryKeeps
    <2>10. CASE CallFails(p)
      <3>1. /\ UNCHANGED <<codes, tracker, asked, delivered>> /\ excused \subseteq excused'
            /\ (\A q \in Procs : q # p => proc'[q] = proc[q])
            /\ proc'[p].st \notin {"poll_read", "poll_take"}
        BY <2>10, CallFailsStep DEF Became
      <3> QED BY <3>1, DeliveryKeeps
    <2> QED BY <1>1, <2>1, <2>2, <2>3, <2>4, <2>5, <2>6, <2>7, <2>8, <2>9, <2>10 DEF Step
  <1>2. ASSUME NEW p \in Procs, Start(p), \A c \in Codes : ~Poll(p, c) PROVE DeliveryInv'
    <2>1. /\ UNCHANGED <<codes, asked, delivered, excused>>
          /\ (\A q \in Procs : q # p => proc'[q] = proc[q])
      BY <1>2, StartStep DEF Became, StartFrame, store, history
    <2>2. tracker' = tracker /\ proc'[p].st \notin {"poll_read", "poll_take"}
      <3>1. TypeOK
        BY DEF BaseInv
      <3>2. ASSUME NEW u \in Users, Login1(p, u) \/ Change1(p, u) \/ Deactivate(p, u)
            PROVE  tracker' = tracker /\ proc'[p].st \notin {"poll_read", "poll_take"}
        BY <3>1, <3>2, LoginStarts, ChangeStarts, DeactivateStarts DEF Became
      <3>3. ASSUME NEW u \in Users, NEW c \in Codes, Approve(p, u, c)
            PROVE  tracker' = tracker /\ proc'[p].st \notin {"poll_read", "poll_take"}
        BY <3>1, <3>3, ApproveStarts DEF Became
      <3>4. ASSUME NEW t \in TokenIds, Refresh(p, t)
            PROVE  tracker' = tracker /\ proc'[p].st \notin {"poll_read", "poll_take"}
        BY <3>1, <3>4, RefreshStarts DEF Became
      <3> QED BY <1>2, <3>2, <3>3, <3>4 DEF Start
    <2> QED BY <2>1, <2>2, DeliveryKeeps
  <1>3. ASSUME UNCHANGED <<proc, tracker, delivered, excused>>, asked \subseteq asked',
               \A d \in asked : codes[d] = None => codes'[d] = None
        PROVE  DeliveryInv'
    <2>1. None \notin Procs
      BY SessionsAssumption
    <2> QED BY <1>3, <2>1, DeliveryKeeps
  <1>4. ASSUME NEW c \in Codes, DeviceCodeRequest(c) PROVE DeliveryInv'
    <2>1. UNCHANGED <<proc, tracker, delivered, excused>> /\ c \notin asked
          /\ asked' = asked \cup {c} /\ \A d \in Codes : d # c => codes'[d] = codes[d]
      BY <1>4, CodeRequestStep
    <2> QED BY <1>0, <1>3, <2>1
  <1>5. ASSUME Cleanup PROVE DeliveryInv'
    <2>1. UNCHANGED <<proc, tracker, asked, delivered, excused>>
          /\ \A d \in Codes : codes'[d] = codes[d] \/ codes'[d] = None
      BY <1>5, CleanupStep DEF history
    <2> QED BY <1>0, <1>3, <2>1
  <1>6. ASSUME Tick \/ UNCHANGED vars PROVE DeliveryInv'
    <2>1. UNCHANGED <<proc, tracker, codes, asked, delivered, excused>>
      BY <1>6 DEF Tick, vars, store, history
    <2> QED BY <1>3, <2>1
  <1> QED BY <1>1, <1>2, <1>4, <1>5, <1>6, DeliveryPoll, NextCases

(* The tokens of a device code are answered once, however many polls run,     *)
(* unless the deletion of its row failed or polls overlapped for a whole poll *)
(* interval (device_token_poll).                                              *)
THEOREM CodeIsOneTime == Spec => []DeliveredOnce
  <1>1. Init => DeliveryInv
    BY IdleHandler DEF Init, DeliveryInv, DeliveryOK, DeliveredGone, PollsApart, Polling
  <1>2. DeliveryInv => DeliveredOnce
    BY DEF DeliveryInv, DeliveryOK, DeliveredOnce
  <1> QED BY <1>1, <1>2, BaseInit, BaseStep, DeliveryStep, PTL DEF Spec
-----------------------------------------------------------------------------
(* The guard and the handlers it lets in                                     *)

(* Nothing happened to key k, or a handler it had let in reported; and only   *)
(* an unlocked key lets another one in.                                       *)
Unreported(k) ==
  /\ guard'[k] = guard[k] \/ (guard'[k] = None /\ ~Locked(k))
  /\ Evaluating(k)' \subseteq Evaluating(k) \/ ~Locked(k)

Reported(k) == \E p \in Evaluating(k) :
  /\ p \notin Evaluating(k)' /\ Evaluating(k)' \subseteq Evaluating(k)
  /\ guard'[k] \in {None, Counted(guard[k])}

GuardMove(k) == Unreported(k) \/ Reported(k)

LEMMA EvaluatingOf ==
  ASSUME NEW p, \A q \in Procs : q # p => proc'[q] = proc[q], NEW k,
         p \in Evaluating(k)' => p \in Evaluating(k)
  PROVE  Evaluating(k)' \subseteq Evaluating(k)
  BY DEF Evaluating

(* A handler answers no other key than its own. *)
LEMMA Reports ==
  ASSUME GuardTypeOK, NEW p \in Procs, NEW k \in GuardKeys,
         \A q \in Procs : q # p => proc'[q] = proc[q],
         p \in Evaluating(k), p \notin Evaluating(k)',
         \A j \in GuardKeys : p \in Evaluating(j)' => p \in Evaluating(j),
         RecordFailure(k) \/ RecordSuccess(k)
  PROVE  \A j \in GuardKeys : GuardMove(j)
  <1> SUFFICES ASSUME NEW j \in GuardKeys PROVE GuardMove(j)
    OBVIOUS
  <1>1. Evaluating(j)' \subseteq Evaluating(j)
    BY EvaluatingOf
  <1>2. CASE j = k
    <2>1. guard'[k] \in {None, Counted(guard[k])}
      BY FailureGuard, SuccessGuard
    <2> QED BY <1>1, <1>2, <2>1 DEF GuardMove, Reported
  <1>3. CASE j # k
    <2>1. guard'[j] = guard[j] \/ (guard'[j] = None /\ ~Locked(j))
      BY <1>3, FailureGuard, SuccessGuard
    <2> QED BY <1>1, <2>1 DEF GuardMove, Unreported
  <1> QED BY <1>2, <1>3

LEMMA NoReport ==
  ASSUME NEW p, \A q \in Procs : q # p => proc'[q] = proc[q], guard' = guard,
         \A j \in GuardKeys : p \in Evaluating(j)' => p \in Evaluating(j)
  PROVE  \A j \in GuardKeys : GuardMove(j)
  BY EvaluatingOf DEF GuardMove, Unreported

(* A handler let in by key k. *)
LEMMA LetIn ==
  ASSUME GuardTypeOK, NEW p \in Procs, NEW k \in GuardKeys, Check(k),
         \A q \in Procs : q # p => proc'[q] = proc[q],
         \A j \in GuardKeys : p \in Evaluating(j)' => j = k
  PROVE  \A j \in GuardKeys : GuardMove(j)
  <1> SUFFICES ASSUME NEW j \in GuardKeys PROVE GuardMove(j)
    OBVIOUS
  <1>1. guard'[j] = guard[j] \/ (guard'[j] = None /\ ~Locked(j))
    BY CheckGuard
  <1>2. CASE j = k
    BY <1>1, <1>2 DEF GuardMove, Unreported, Check
  <1>3. CASE j # k
    BY <1>1, <1>3, EvaluatingOf DEF GuardMove, Unreported
  <1> QED BY <1>2, <1>3

LEMMA GuardMoves ==
  ASSUME BaseInv, [Next]_vars, ~Tick
  PROVE  clock' = clock /\ \A k \in GuardKeys : GuardMove(k)
  <1>0. GuardTypeOK /\ TypeOK /\ HandlersOK
    BY DEF BaseInv, TypeOK
  <1>1. ASSUME NEW p \in Procs, Step(p)
        PROVE  clock' = clock /\ \A k \in GuardKeys : GuardMove(k)
    <2>0. HandlerOK(p) /\ proc[p] \in Handler
      BY <1>0 DEF HandlersOK, TypeOK
    <2>1. CASE LoginRead(p) \/ LoginVerify(p) \/ RotateRead(p) \/ ChangeRead(p)
                 \/ ChangeWrite(p) \/ DeactivateWrite(p)
      <3>1. clock' = clock /\ \A q \in Procs : q # p => proc'[q] = proc[q]
        BY <2>1, PlainSteps DEF Became
      <3>2. \A j \in GuardKeys : p \in Evaluating(j)' => p \in Evaluating(j)
        BY <2>1, PlainSteps DEF Evaluating
      <3>3. CASE guard' = guard
        BY <3>1, <3>2, <3>3, NoReport
      <3>4. CASE LoginVerify(p)
        <4>1. PICK k \in GuardKeys : k = <<"login", proc[p].user>>
          BY <2>0, <3>4, Keys DEF LoginVerify, At, HandlerOK
        <4>2. RecordFailure(k) \/ RecordSuccess(k)
          BY <3>4, <4>1 DEF LoginVerify
        <4>3. p \in Evaluating(k)
          BY <3>4, <4>1 DEF LoginVerify, At, Evaluating
        <4>4. (proc'[p].st = "store" /\ proc'[p].code = None) \/ proc'[p].st = "idle"
          <5>1. proc'[p].st \in {"idle", "store"}
            BY <1>0, <3>4, Answers, Goes DEF LoginVerify, Became, TypeOK
          <5> QED BY <2>1, <5>1, PlainSteps
        <4>5. p \notin Evaluating(k)'
          BY <4>4 DEF Evaluating
        <4> QED BY <1>0, <3>1, <3>2, <4>2, <4>3, <4>5, Reports
      <3>5. CASE RotateRead(p) /\ RecordFailure(RefreshKey) /\ Answer(p)
        <4>1. p \in Evaluating(RefreshKey)
          BY <3>5 DEF RotateRead, At, Evaluating
        <4>2. p \notin Evaluating(RefreshKey)'
          BY <1>0, <3>5, Answers DEF Became, Evaluating, TypeOK
        <4> QED BY <1>0, <3>1, <3>2, <3>5, <4>1, <4>2, Keys, Reports
      <3> QED BY <2>1, <3>3, <3>4, <3>5
              DEF LoginRead, RotateRead, ChangeRead, ChangeWrite, DeactivateWrite
    <2>2. CASE ApproveRead(p)
      <3>1. PICK k \in GuardKeys : k = <<"approve", proc[p].user>>
        BY <2>2, ApproveReadStep, Keys
      <3>2. /\ clock' = clock /\ proc[p].st = "approve_read" /\ proc[p].code \in Codes
            /\ \A q \in Procs : q # p => proc'[q] = proc[q]
            /\ proc'[p].st = "idle" \/ (/\ proc'[p].st = "store" /\ proc'[p].user = proc[p].user
                                        /\ proc'[p].code = proc[p].code)
            /\ guard' = guard \/ (RecordFailure(k) /\ proc'[p].st = "idle")
        BY <2>2, <3>1, ApproveReadStep DEF Became
      <3>3. proc[p].code # None
        BY <3>2, SessionsAssumption
      <3>4. \A j \in GuardKeys : p \in Evaluating(j)' => p \in Evaluating(j)
        BY <3>2, <3>3 DEF Evaluating
      <3>5. CASE guard' = guard
        BY <3>2, <3>4, <3>5, NoReport
      <3>6. CASE RecordFailure(k) /\ proc'[p].st = "idle"
        <4>1. p \in Evaluating(k) /\ p \notin Evaluating(k)'
          BY <3>1, <3>2, <3>3, <3>6 DEF Evaluating
        <4> QED BY <1>0, <3>2, <3>4, <3>6, <4>1, Reports
      <3> QED BY <3>2, <3>5, <3>6
    <2>3. CASE ApproveUpdate(p)
      <3>1. PICK k \in GuardKeys : k = <<"approve", proc[p].user>>
        BY <2>3, ApproveUpdateStep, Keys
      <3>2. /\ clock' = clock /\ proc[p].st = "approve_update" /\ proc[p].code \in Codes
            /\ \A q \in Procs : q # p => proc'[q] = proc[q]
            /\ proc'[p].st \in {"idle", "approve_revoke"}
            /\ guard' = guard \/ RecordSuccess(k)
        BY <2>3, <3>1, ApproveUpdateStep DEF Became
      <3>3. proc[p].code # None
        BY <3>2, SessionsAssumption
      <3>4. \A j \in GuardKeys : p \notin Evaluating(j)'
        BY <3>2 DEF Evaluating
      <3>5. p \in Evaluating(k)
        BY <3>1, <3>2, <3>3 DEF Evaluating
      <3> QED BY <1>0, <3>2, <3>4, <3>5, NoReport, Reports
    <2>4. CASE PollRead(p)
      <3>1. /\ clock' = clock /\ guard' = guard
            /\ (\A q \in Procs : q # p => proc'[q] = proc[q])
            /\ proc'[p].st \in {"idle", "poll_take"}
        BY <2>4, PollReadStep DEF Became
      <3> QED BY <3>1, NoReport DEF Evaluating
    <2>5. CASE PollTake(p)
      <3>1. /\ clock' = clock /\ guard' = guard
            /\ (\A q \in Procs : q # p => proc'[q] = proc[q]) /\ proc'[p].st = "idle"
        BY <2>5, PollTakeStep DEF Became
      <3> QED BY <3>1, NoReport DEF Evaluating
    <2>6. CASE StoreToken(p)
      <3>1. PICK t \in TokenIds :
           /\ proc[p].code = None => Became(p, "idle", None, None, None, 0)
           /\ proc[p].code # None =>
                Became(p, "approve_update", proc[p].user, t, proc[p].code, proc[p].began)
        BY <2>6, StoreEffect
      <3>2. clock' = clock /\ guard' = guard /\ proc[p].st = "store"
        BY <2>6, StoreStep
      <3>3. (\A q \in Procs : q # p => proc'[q] = proc[q])
            /\ \A j \in GuardKeys : p \in Evaluating(j)' => p \in Evaluating(j)
        BY <3>1, <3>2 DEF Became, Evaluating
      <3> QED BY <3>2, <3>3, NoReport
    <2>7. CASE RotateWrite(p)
      <3>1. /\ clock' = clock /\ proc[p].st = "rotate_write"
            /\ (\A q \in Procs : q # p => proc'[q] = proc[q]) /\ proc'[p].st = "idle"
            /\ RecordFailure(RefreshKey) \/ RecordSuccess(RefreshKey)
        BY <2>7, RotateStep DEF Became
      <3>2. p \in Evaluating(RefreshKey) /\ \A j \in GuardKeys : p \notin Evaluating(j)'
        BY <3>1 DEF Evaluating
      <3> QED BY <1>0, <3>1, <3>2, Keys, Reports
    <2>8. CASE ApproveRevoke(p)
      <3>1. /\ clock' = clock /\ guard' = guard
            /\ (\A q \in Procs : q # p => proc'[q] = proc[q]) /\ proc'[p].st = "idle"
        BY <2>8, ApproveRevokeStep DEF Became
      <3> QED BY <3>1, NoReport DEF Evaluating
    <2>9. CASE RevokeUser(p)
      <3>1. /\ clock' = clock /\ guard' = guard
            /\ (\A q \in Procs : q # p => proc'[q] = proc[q]) /\ proc'[p].st = "idle"
        BY <2>9, RevokeUserStep DEF Became
      <3> QED BY <3>1, NoReport DEF Evaluating
    <2>10. CASE CallFails(p)
      <3>1. /\ clock' = clock
            /\ (\A q \in Procs : q # p => proc'[q] = proc[q]) /\ proc'[p].st = "idle"
            /\ \/ proc[p].st \in {"rotate_read", "rotate_write"} /\ RecordFailure(RefreshKey)
               \/ guard' = guard
        BY <2>10, CallFailsStep DEF Became
      <3>2. \A j \in GuardKeys : p \notin Evaluating(j)'
        BY <3>1 DEF Evaluating
      <3>3. proc[p].st \in {"rotate_read", "rotate_write"} => p \in Evaluating(RefreshKey)
        BY DEF Evaluating
      <3> QED BY <1>0, <3>1, <3>2, <3>3, Keys, Reports, NoReport
    <2> QED BY <1>1, <2>1, <2>2, <2>3, <2>4, <2>5, <2>6, <2>7, <2>8, <2>9, <2>10 DEF Step
  <1>2. ASSUME NEW p \in Procs, Start(p)
        PROVE  clock' = clock /\ \A k \in GuardKeys : GuardMove(k)
    <2>1. clock' = clock
      BY <1>2, StartStep DEF StartFrame
    <2>2. ASSUME NEW u \in Users, Login1(p, u) PROVE \A k \in GuardKeys : GuardMove(k)
      <3>1. PICK k \in GuardKeys : k = <<"login", u>>
        BY Keys
      <3>2. Became(p, "login_read", u, None, None, 0) /\ Check(k)
        BY <1>0, <2>2, <3>1, LoginStarts
      <3>3. \A j \in GuardKeys : p \in Evaluating(j)' => j = k
        BY <3>1, <3>2 DEF Became, Evaluating
      <3> QED BY <1>0, <3>2, <3>3, LetIn DEF Became
    <2>3. ASSUME NEW u \in Users, Change1(p, u) \/ Deactivate(p, u)
          PROVE  \A k \in GuardKeys : GuardMove(k)
      <3>1. \/ Became(p, "change_read", u, None, None, 0) /\ guard' = guard
            \/ Became(p, "deactivate", u, None, None, 0) /\ guard' = guard
        BY <1>0, <2>3, ChangeStarts, DeactivateStarts
      <3>2. guard' = guard /\ (\A q \in Procs : q # p => proc'[q] = proc[q])
            /\ \A j \in GuardKeys : p \notin Evaluating(j)'
        BY <3>1 DEF Became, Evaluating
      <3> QED BY <3>2, NoReport
    <2>4. ASSUME NEW u \in Users, NEW c \in Codes, Approve(p, u, c)
          PROVE  \A k \in GuardKeys : GuardMove(k)
      <3>1. PICK k \in GuardKeys : k = <<"approve", u>>
        BY Keys
      <3>2. Became(p, "approve_read", u, None, c, 0) /\ Check(k)
        BY <1>0, <2>4, <3>1, ApproveStarts
      <3>3. \A j \in GuardKeys : p \in Evaluating(j)' => j = k
        BY <3>1, <3>2 DEF Became, Evaluating
      <3> QED BY <1>0, <3>2, <3>3, LetIn DEF Became
    <2>5. ASSUME NEW t \in TokenIds, Refresh(p, t) PROVE \A k \in GuardKeys : GuardMove(k)
      <3>2. Became(p, "rotate_read", None, t, None, 0) /\ Check(RefreshKey)
        BY <1>0, <2>5, RefreshStarts
      <3>3. \A j \in GuardKeys : p \in Evaluating(j)' => j = RefreshKey
        BY <3>2 DEF Became, Evaluating
      <3> QED BY <1>0, <3>2, <3>3, LetIn, Keys DEF Became
    <2>6. ASSUME NEW c \in Codes, Poll(p, c) PROVE \A k \in GuardKeys : GuardMove(k)
      <3>1. Became(p, "poll_read", None, None, c, clock) /\ guard' = guard
        BY <1>0, <2>6, PollStarts
      <3>2. (\A q \in Procs : q # p => proc'[q] = proc[q])
            /\ \A j \in GuardKeys : p \notin Evaluating(j)'
        BY <3>1 DEF Became, Evaluating
      <3> QED BY <3>1, <3>2, NoReport
    <2> QED BY <1>2, <2>1, <2>2, <2>3, <2>4, <2>5, <2>6 DEF Start
  <1>3. ASSUME UNCHANGED <<proc, guard>> PROVE \A k \in GuardKeys : GuardMove(k)
    BY <1>3 DEF GuardMove, Unreported, Evaluating
  <1>4. ASSUME NEW c \in Codes, DeviceCodeRequest(c)
        PROVE  clock' = clock /\ \A k \in GuardKeys : GuardMove(k)
    BY <1>3, <1>4, CodeRequestStep
  <1>5. ASSUME Cleanup PROVE clock' = clock /\ \A k \in GuardKeys : GuardMove(k)
    BY <1>3, <1>5, CleanupStep
  <1>6. ASSUME UNCHANGED vars PROVE clock' = clock /\ \A k \in GuardKeys : GuardMove(k)
    BY <1>3, <1>6 DEF vars
  <1> QED BY <1>1, <1>2, <1>4, <1>5, <1>6, NextCases
(* An entry's window began in the past, and a count at the limit holds a lock *)
(* that began in the window.                                                  *)
LocksFollow == \A k \in GuardKeys : guard[k] # None =>
  /\ guard[k].first <= clock
  /\ guard[k].count >= MaxAttempts =>
       guard[k].until # None /\ guard[k].until >= guard[k].first + Lockout

LEMMA CountedFollows ==
  ASSUME clock \in Nat, NEW e \in Entry \cup {None}, e # None => e.first <= clock
  PROVE  /\ Counted(e).first <= clock
         /\ Counted(e).count >= MaxAttempts =>
              Counted(e).until # None /\ Counted(e).until >= Counted(e).first + Lockout
  <1>1. Counted(e) \in Entry /\ Counted(e).first <= clock
        /\ (Counted(e).count >= MaxAttempts => Counted(e).until = clock + Lockout)
    BY CountedEntry DEF Entry
  <1>2. clock + Lockout \in Int /\ clock + Lockout # None
    BY GuardAssumption
  <1> QED BY <1>1, <1>2, GuardAssumption DEF Entry

LEMMA LocksFollowStep == BaseInv /\ LocksFollow /\ [Next]_vars => LocksFollow'
  <1> SUFFICES ASSUME BaseInv, LocksFollow, [Next]_vars PROVE LocksFollow'
    OBVIOUS
  <1>0. GuardTypeOK /\ clock \in Nat
    BY DEF BaseInv, TypeOK, GuardTypeOK
  <1>1. CASE Tick
    <2>1. clock' = clock + 1 /\ guard' = guard
      BY <1>1 DEF Tick
    <2>2. \A k \in GuardKeys : guard[k] # None => guard[k].first \in Nat
      BY <1>0 DEF GuardTypeOK, Entry
    <2> QED BY <1>0, <2>1, <2>2 DEF LocksFollow
  <1>2. CASE ~Tick
    <2> SUFFICES ASSUME NEW k \in GuardKeys, guard'[k] # None
                 PROVE  /\ guard'[k].first <= clock
                        /\ guard'[k].count >= MaxAttempts =>
                             guard'[k].until # None
                             /\ guard'[k].until >= guard'[k].first + Lockout
      BY <1>2, GuardMoves DEF LocksFollow
    <2>1. guard'[k] = guard[k] \/ guard'[k] = Counted(guard[k])
      BY <1>2, GuardMoves DEF GuardMove, Unreported, Reported
    <2>2. guard[k] \in Entry \cup {None} /\ (guard[k] # None => guard[k].first <= clock)
      BY <1>0 DEF GuardTypeOK, LocksFollow
    <2>3. CASE guard'[k] = guard[k]
      BY <2>3 DEF LocksFollow
    <2>4. CASE guard'[k] = Counted(guard[k])
      BY <1>0, <2>2, <2>4, CountedFollows
    <2> QED BY <2>1, <2>3, <2>4
  <1> QED BY <1>1, <1>2

LEMMA LocksFollowInit == Init => LocksFollow
  <1> SUFFICES ASSUME Init, NEW k \in GuardKeys, guard[k] # None
               PROVE  /\ guard[k].first <= clock
                      /\ guard[k].count >= MaxAttempts =>
                           guard[k].until # None /\ guard[k].until >= guard[k].first + Lockout
    BY DEF LocksFollow
  <1>1. clock = 0 /\ guard[k] = Counted(None)
    BY DEF Init
  <1> QED BY <1>1, CountedFollows

LEMMA EvaluatingCount ==
  ASSUME NEW k
  PROVE  IsFiniteSet(Evaluating(k)) /\ Cardinality(Evaluating(k)) \in Nat
         /\ Cardinality(Procs) \in Nat /\ Cardinality(Evaluating(k)) <= Cardinality(Procs)
  <1>1. Evaluating(k) \subseteq Procs /\ IsFiniteSet(Procs)
    BY SessionsAssumption DEF Evaluating
  <1> QED BY <1>1, FS_Subset, FS_CardinalityType

LEMMA EvaluatingCountNext ==
  ASSUME NEW k
  PROVE  IsFiniteSet(Evaluating(k)') /\ Cardinality(Evaluating(k)') \in Nat
         /\ Cardinality(Evaluating(k)') <= Cardinality(Procs)
  <1>1. Evaluating(k)' \subseteq Procs /\ IsFiniteSet(Procs)
    BY SessionsAssumption DEF Evaluating
  <1> QED BY <1>1, FS_Subset, FS_CardinalityType

LEMMA GuessesStep ==
  ASSUME Lockout > Window, BaseInv, LocksFollow, GuessesBounded, [Next]_vars
  PROVE  GuessesBounded'
  <1>0. GuardTypeOK /\ clock \in Nat
    BY DEF BaseInv, TypeOK, GuardTypeOK
  <1>1. CASE Tick
    <2>1. clock' = clock + 1 /\ guard' = guard /\ proc' = proc
      BY <1>1 DEF Tick
    <2>2. \A k : Evaluating(k)' = Evaluating(k)
      BY <2>1 DEF Evaluating
    <2>3. \A k \in GuardKeys : guard[k] # None => guard[k].first \in Nat
      BY <1>0 DEF GuardTypeOK, Entry
    <2>4. ASSUME NEW k \in GuardKeys, guard[k] # None, clock' - guard[k].first <= Window
          PROVE  guard[k].count + Cardinality(Evaluating(k)) <= MaxAttempts - 1 + Cardinality(Procs)
      <3>1. clock - guard[k].first <= Window
        BY <1>0, <2>1, <2>3, <2>4, GuardAssumption
      <3> QED BY <2>4, <3>1 DEF GuessesBounded
    <2> QED BY <2>1, <2>2, <2>4 DEF GuessesBounded
  <1>2. CASE ~Tick
    <2> SUFFICES ASSUME NEW k \in GuardKeys, guard'[k] # None,
                        clock - guard'[k].first <= Window
                 PROVE  guard'[k].count + Cardinality(Evaluating(k)')
                          <= MaxAttempts - 1 + Cardinality(Procs)
      BY <1>2, GuardMoves DEF GuessesBounded
    <2> DEFINE n == Cardinality(Evaluating(k))
               m == Cardinality(Evaluating(k)')
               all == Cardinality(Procs)
    <2>1. n \in Nat /\ m \in Nat /\ all \in Nat /\ n <= all /\ m <= all
          /\ IsFiniteSet(Evaluating(k))
      BY EvaluatingCount, EvaluatingCountNext
    <2>2. guard[k] \in Entry \cup {None} /\ MaxAttempts \in Nat \ {0} /\ Window \in Nat
          /\ Lockout \in Nat
      BY <1>0, GuardAssumption DEF GuardTypeOK
    <2>3. ASSUME Unreported(k) PROVE guard'[k].count + m <= MaxAttempts - 1 + all
      <3>1. guard'[k] = guard[k] /\ guard[k] \in Entry /\ guard[k].count \in Nat
            /\ guard[k].first \in Nat
        BY <2>2, <2>3 DEF Unreported, Entry
      <3>2. CASE Evaluating(k)' \subseteq Evaluating(k)
        <4>1. m <= n
          BY <2>1, <3>2, FS_Subset
        <4>2. guard[k].count + n <= MaxAttempts - 1 + all
          BY <3>1 DEF GuessesBounded
        <4> HIDE DEF n, m, all
        <4> QED BY <2>1, <2>2, <3>1, <4>1, <4>2
      <3>3. CASE ~Locked(k)
        <4>1. guard[k].count < MaxAttempts
          <5>1. SUFFICES ASSUME guard[k].count >= MaxAttempts PROVE FALSE
            BY <2>2, <3>1
          <5>2. guard[k].until # None /\ guard[k].until >= guard[k].first + Lockout
                /\ guard[k].until \in Nat
            BY <3>1, <5>1 DEF LocksFollow, Entry
          <5>3. clock < guard[k].until
            BY <1>0, <2>2, <3>1, <5>2
          <5> QED BY <3>1, <3>3, <5>2, <5>3 DEF Locked
        <4> HIDE DEF n, m, all
        <4> QED BY <2>1, <2>2, <3>1, <4>1
      <3> QED BY <2>3, <3>2, <3>3 DEF Unreported
    <2>4. ASSUME Reported(k) PROVE guard'[k].count + m <= MaxAttempts - 1 + all
      <3>1. PICK p \in Evaluating(k) : p \notin Evaluating(k)' /\ Evaluating(k)' \subseteq Evaluating(k)
        BY <2>4 DEF Reported
      <3>2. guard'[k] = Counted(guard[k])
        BY <2>4 DEF Reported
      <3>3. m <= n - 1
        <4>1. Evaluating(k)' \subseteq Evaluating(k) \ {p}
          BY <3>1
        <4>2. IsFiniteSet(Evaluating(k) \ {p}) /\ Cardinality(Evaluating(k) \ {p}) = n - 1
          BY <2>1, <3>1, FS_RemoveElement
        <4>3. m <= Cardinality(Evaluating(k) \ {p})
          BY <4>1, <4>2, FS_Subset
        <4> QED BY <4>2, <4>3
      <3>4. CASE guard[k] = None \/ clock - guard[k].first > Window
        <4>1. guard'[k].count = 1
          BY <1>0, <2>2, <3>2, <3>4, CountedEntry
        <4> HIDE DEF n, m, all
        <4> QED BY <2>1, <2>2, <3>3, <4>1
      <3>5. CASE ~(guard[k] = None \/ clock - guard[k].first > Window)
        <4>1. guard'[k].count = guard[k].count + 1 /\ guard'[k].first = guard[k].first
          BY <1>0, <2>2, <3>2, <3>5, CountedEntry
        <4>2. guard[k].count \in Nat /\ guard[k].first \in Nat /\ guard[k] # None
          BY <2>2, <3>5 DEF Entry
        <4>3. guard[k].count + n <= MaxAttempts - 1 + all
          BY <4>1, <4>2 DEF GuessesBounded
        <4> HIDE DEF n, m, all
        <4> QED BY <2>1, <2>2, <3>3, <4>1, <4>2, <4>3
      <3> QED BY <3>4, <3>5
    <2> QED BY <1>2, <2>3, <2>4, GuardMoves DEF GuardMove
  <1> QED BY <1>1, <1>2

LEMMA GuessesInit == Init => GuessesBounded
  <1> SUFFICES ASSUME Init, NEW k \in GuardKeys, guard[k] # None
               PROVE  guard[k].count + Cardinality(Evaluating(k))
                        <= MaxAttempts - 1 + Cardinality(Procs)
    BY DEF GuessesBounded
  <1>1. Evaluating(k) = {}
    BY IdleHandler DEF Init, Evaluating
  <1>2. guard[k].count = 1
    BY CountedEntry DEF Init
  <1>3. Cardinality(Evaluating(k)) = 0
    BY <1>1, FS_EmptySet
  <1>4. Cardinality(Procs) \in Nat /\ Cardinality(Procs) # 0
    BY EvaluatingCount, FS_EmptySet, SessionsAssumption
  <1> QED BY <1>2, <1>3, <1>4, GuardAssumption
(* With a lockout longer than the window, as configured by default, the guard *)
(* bounds the guesses of a key in a window although they are checked and      *)
(* counted in separate critical sections: MaxAttempts - 1 and one more for    *)
(* every handler (BruteForceGuard::check and record_failure).                 *)
THEOREM GuessesStayBounded ==
  ASSUME Lockout > Window
  PROVE  Spec => []GuessesBounded
  <1>1. BaseInv /\ LocksFollow /\ GuessesBounded /\ [Next]_vars => GuessesBounded'
    BY GuessesStep
  <1> QED BY <1>1, BaseInit, BaseStep, LocksFollowInit, LocksFollowStep, GuessesInit, PTL
          DEF Spec

(* No check, failure, success or sweep of another key ends a lockout early,   *)
(* and none of its own does but that of a handler let in before it.           *)
THEOREM LockoutsHold == Spec => LockoutHolds
  <1> DEFINE Keeps == \A k \in GuardKeys : Locked(k) /\ clock' = clock =>
               \/ Locked(k)'
               \/ \E p \in Evaluating(k) : proc'[p] # proc[p]
  <1>1. BaseInv /\ [Next]_vars => [Keeps]_vars
    <2> SUFFICES ASSUME BaseInv, [Next]_vars, NEW k \in GuardKeys, Locked(k), clock' = clock
                 PROVE  Locked(k)' \/ \E p \in Evaluating(k) : proc'[p] # proc[p]
      OBVIOUS
    <2>1. CASE Tick
      <3>1. clock' = clock + 1 /\ clock \in Nat
        BY <2>1 DEF Tick, BaseInv, TypeOK, GuardTypeOK
      <3> QED BY <3>1
    <2>2. CASE Unreported(k)
      BY <2>2 DEF Unreported, Locked
    <2>3. CASE Reported(k)
      <3>1. PICK p \in Evaluating(k) : p \notin Evaluating(k)'
        BY <2>3 DEF Reported
      <3>2. proc'[p] # proc[p]
        BY <3>1 DEF Evaluating
      <3> QED BY <3>1, <3>2
    <2> QED BY <2>1, <2>2, <2>3, GuardMoves DEF GuardMove
  <1>2. Spec => [][Keeps]_vars
    BY <1>1, BaseAlways, PTL DEF Spec
  <1> QED BY <1>2 DEF LockoutHolds
=============================================================================
