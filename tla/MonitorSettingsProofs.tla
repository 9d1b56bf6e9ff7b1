----------------------- MODULE MonitorSettingsProofs ------------------------
(***************************************************************************)
(* Proofs about MonitorSettings, for any number of clients, keys, sizes    *)
(* and writes.  The lock is what makes the statements of a transaction one *)
(* decision (Exclusive); a version then only grows while its entry lives   *)
(* (SeenIsOlder), from which VersionNamesEdit follows, and whoever is      *)
(* about to write still has the room it was found to have (QuotaInv).      *)
(***************************************************************************)
EXTENDS MonitorSettings, FiniteSetTheorems, WellFoundedInduction, TLAPS

InTransaction(c) == req[c].st \in {"read", "usage", "write", "delete", "explain"}

(* Only the holder of the lock is inside a transaction. *)
Exclusive == \A c \in Clients : InTransaction(c) => lock = c

(* A write in progress carries the number of its request, and a payload.     *)
WriterReady ==
  \A c \in Clients : req[c].st \in {"begin_put", "read", "usage", "write"} =>
    req[c].edit # 0 /\ req[c].size \in Sizes

(* What a client saw and nobody deleted since is the stored entry or an      *)
(* older version of it.                                                      *)
SeenIsOlder ==
  \A c \in Clients, k \in Keys : known[c][k] # None /\ <<c, k>> \notin deleted =>
    /\ rows[k] # None
    /\ known[c][k].version <= rows[k].version
    /\ known[c][k].version = rows[k].version => known[c][k].edit = rows[k].edit

TypeInv == TypeOK /\ WriterReady
LockInv == Exclusive /\ DecidedOnCurrent /\ ConflictIsReal

-----------------------------------------------------------------------------
LEMMA NoRequestType == NoRequest \in Request /\ NoRequest.st = "idle"
  BY MonitorAssumption DEF NoRequest, Request


LEMMA RowVersion ==
  ASSUME NEW r \in Row \cup {None}
  PROVE  VersionOf(r) \in Nat /\ VersionOf(r) + 1 \in Nat \ {0}
  BY DEF VersionOf, Row

Statements == {"read", "usage", "write", "delete", "explain"}
Writers    == {"begin_put", "read", "usage", "write"}

(* The states a request may go to without taking the role of a writer.       *)
LEMMA GotoRequest ==
  ASSUME TypeInv, NEW c \in Clients, NEW s \in Statements, Goto(c, s),
         s \in Writers => req[c].st \in Writers
  PROVE  /\ req' \in [Clients -> Request] /\ WriterReady'
         /\ req'[c] = [req[c] EXCEPT !.st = s]
         /\ \A d \in Clients : d # c => req'[d] = req[d]
  <1> DEFINE r == [req[c] EXCEPT !.st = s]
  <1>1. req[c] \in Request
    BY DEF TypeInv, TypeOK
  <1>2. r \in Request /\ r.st = s /\ r.edit = req[c].edit /\ r.size = req[c].size
    BY <1>1 DEF Request, Statements
  <1>3. req' = [req EXCEPT ![c] = r]
    BY DEF Goto, TypeInv, TypeOK
  <1> HIDE DEF r
  <1>4. req'[c] = r /\ \A d \in Clients : d # c => req'[d] = req[d]
    BY <1>3 DEF TypeInv, TypeOK
  <1>5. WriterReady'
    BY <1>2, <1>4 DEF TypeInv, WriterReady, Writers
  <1> QED BY <1>2, <1>3, <1>4, <1>5 DEF TypeInv, TypeOK, r

LEMMA FinishRequest ==
  ASSUME TypeInv, NEW c \in Clients, req' = [req EXCEPT ![c] = NoRequest]
  PROVE  /\ req' \in [Clients -> Request] /\ WriterReady'
         /\ req'[c].st = "idle"
         /\ \A d \in Clients : d # c => req'[d] = req[d]
  BY NoRequestType DEF TypeInv, TypeOK, WriterReady

(* Every step keeps the types.                                               *)
LEMMA TypeInvariant == Spec => []TypeInv
<1> USE MonitorAssumption, RowAssumption DEF TypeInv
<1>1. Init => TypeInv
  BY NoRequestType DEF Init, TypeOK, WriterReady
<1>2. TypeInv /\ [Next]_vars => TypeInv'
  <2> SUFFICES ASSUME TypeInv, [Next]_vars PROVE TypeInv'
    OBVIOUS
  <2> USE DEF TypeOK
  <2>1. ASSUME NEW c \in Clients, NEW k \in Keys, Fetch(c, k) PROVE TypeInv'
    BY <2>1 DEF Fetch, Saw, WriterReady
  <2>2. ASSUME NEW c \in Clients, NEW k \in Keys, NEW s \in Sizes, NEW b \in BOOLEAN,
               Put(c, k, s, b)
        PROVE  TypeInv'
    <3>1. puts' \in 1..MaxPuts
      BY <2>2 DEF Put
    <3>2. VersionOf(known[c][k]) \in Nat
      BY RowVersion
    <3>3. req'[c] \in Request /\ req'[c].edit # 0 /\ req'[c].size \in Sizes
      BY <2>2, <3>1, <3>2 DEF Put, Request
    <3>4. req' = [req EXCEPT ![c] = req'[c]]
      BY <2>2 DEF Put
    <3> QED
      BY <2>2, <3>1, <3>3, <3>4 DEF Put, WriterReady
  <2>3. ASSUME NEW c \in Clients, NEW k \in Keys, NEW b \in BOOLEAN, Delete(c, k, b)
        PROVE  TypeInv'
    <3> DEFINE v == IF b THEN VersionOf(known[c][k]) ELSE None
               r == [NoRequest EXCEPT !.st = "begin_delete", !.key = k, !.ifv = v]
    <3>1. v \in Nat \cup {None}
      BY RowVersion
    <3> HIDE DEF v
    <3>2. r \in Request /\ r.st = "begin_delete"
      BY <3>1, NoRequestType DEF Request
    <3>3. req' = [req EXCEPT ![c] = r]
      BY <2>3 DEF Delete, v
    <3> HIDE DEF r
    <3> QED
      BY <2>3, <3>2, <3>3 DEF Delete, WriterReady
  <2>4. ASSUME NEW c \in Clients, BeginPut(c) PROVE TypeInv'
    BY <2>4, GotoRequest DEF BeginPut, TakeLock, At, Statements, Writers
  <2>5. ASSUME NEW c \in Clients, BeginDelete(c) PROVE TypeInv'
    BY <2>5, GotoRequest DEF BeginDelete, TakeLock, Statements, Writers
  <2>6. ASSUME NEW c \in Clients, ReadCurrent(c) PROVE TypeInv'
    <3> DEFINE r == [req[c] EXCEPT !.st = "usage", !.cur = rows[req[c].key]]
    <3>1. CASE Finish(c)
      BY <2>6, <3>1, FinishRequest DEF ReadCurrent, Finish
    <3>2. CASE req' = [req EXCEPT ![c].st = "usage", ![c].cur = rows[req[c].key]]
               /\ UNCHANGED lock
      <4>1. req[c] \in Request /\ rows[req[c].key] \in Row \cup {None}
        BY DEF Request
      <4>2. /\ r \in Request /\ r.st = "usage" /\ r.edit = req[c].edit
            /\ r.size = req[c].size
        BY <4>1 DEF Request
      <4>3. req' = [req EXCEPT ![c] = r]
        BY <3>2
      <4> HIDE DEF r
      <4> QED
        BY <2>6, <3>2, <4>2, <4>3, ZenonT(60) DEF ReadCurrent, At, WriterReady
    <3> QED BY <2>6, <3>1, <3>2 DEF ReadCurrent
  <2>7. ASSUME NEW c \in Clients, ReadUsage(c) PROVE TypeInv'
    BY <2>7, GotoRequest, FinishRequest
       DEF ReadUsage, Finish, At, Statements, Writers
  <2>8. ASSUME NEW c \in Clients, Write(c) PROVE TypeInv'
    <3> DEFINE new == [version |-> NextVersion(req[c].key), size |-> req[c].size,
                       edit |-> req[c].edit]
    <3>1. req[c].key \in Keys /\ req[c].edit \in 1..MaxPuts /\ req[c].size \in Sizes
      BY <2>8 DEF Write, Request, At, WriterReady
    <3>2. new \in Row
      BY <3>1, RowVersion DEF NextVersion, Row
    <3>3. /\ rows' = [rows EXCEPT ![req[c].key] = new] /\ Finish(c) /\ UNCHANGED puts
          /\ Saw(c, req[c].key, new) \/ UNCHANGED <<known, deleted>>
      BY <2>8 DEF Write
    <3> HIDE DEF new
    <3>4. known' \in [Clients -> [Keys -> Row \cup {None}]] /\ deleted' \subseteq Clients \X Keys
      BY <3>1, <3>2, <3>3 DEF Saw
    <3> QED
      BY <3>1, <3>2, <3>3, <3>4, FinishRequest DEF Finish
  <2>9. ASSUME NEW c \in Clients, DeleteRow(c) PROVE TypeInv'
    <3>1. req[c].key \in Keys
      BY DEF Request
    <3>2. CASE Matches(c)
      <4>1. deleted' \subseteq Clients \X Keys
        BY <2>9, <3>1, <3>2 DEF DeleteRow
      <4>2. rows' \in [Keys -> Row \cup {None}] /\ UNCHANGED <<known, puts>> /\ Finish(c)
        BY <2>9, <3>1, <3>2 DEF DeleteRow
      <4> QED
        BY <4>1, <4>2, FinishRequest DEF Finish
    <3>3. CASE ~Matches(c)
      BY <2>9, <3>3, GotoRequest DEF DeleteRow, Statements, Writers
    <3> QED BY <3>2, <3>3
  <2>10. ASSUME NEW c \in Clients, Explain(c) PROVE TypeInv'
    BY <2>10, FinishRequest DEF Explain, Finish
  <2>11. ASSUME NEW c \in Clients, Abort(c) PROVE TypeInv'
    BY <2>11, FinishRequest DEF Abort
  <2>12. CASE UNCHANGED vars
    BY <2>12 DEF vars, WriterReady
  <2> QED
    BY <2>1, <2>2, <2>3, <2>4, <2>5, <2>6, <2>7, <2>8, <2>9, <2>10, <2>11, <2>12
       DEF Next, Ask, Begin, Step
<1> QED
  BY <1>1, <1>2, PTL DEF Spec

(* The state of the channel is well typed: in particular versions are        *)
(* positive and a request in progress carries the number of its write.       *)
THEOREM MonitorTypeCorrect == Spec => []TypeOK
  BY TypeInvariant, PTL DEF TypeInv

-----------------------------------------------------------------------------
(* A request enters a transaction only with the lock, and nobody else's      *)
(* statements run until it leaves.                                           *)
LEMMA LockInvariant == Spec => [](TypeInv /\ LockInv)
<1>1. Init => LockInv
  BY NoRequestType DEF Init, LockInv, Exclusive, DecidedOnCurrent, ConflictIsReal,
                       InTransaction, At
<1>2. TypeInv /\ LockInv /\ [Next]_vars /\ TypeInv' => LockInv'
  <2> SUFFICES ASSUME TypeInv, LockInv, [Next]_vars, TypeInv' PROVE LockInv'
    OBVIOUS
  <2>n. None \notin Clients
    BY MonitorAssumption
  <2> DEFINE Quiet(d) == /\ InTransaction(d)' => lock' = d
                         /\ req'[d].st \in {"usage", "write"} => req'[d].cur = rows'[req'[d].key]
                         /\ req'[d].st = "explain" => ~Matches(d)'
  <2>q. SUFFICES ASSUME NEW d \in Clients PROVE Quiet(d)
    BY <2>q DEF LockInv, Exclusive, DecidedOnCurrent, ConflictIsReal, At
  <2>d. /\ InTransaction(d) => lock = d
        /\ req[d].st \in {"usage", "write"} => req[d].cur = rows[req[d].key]
        /\ req[d].st = "explain" => ~Matches(d)
        /\ req[d] \in Request
    BY DEF LockInv, Exclusive, DecidedOnCurrent, ConflictIsReal, At, TypeInv, TypeOK
  <2>i. ASSUME req'[d].st \in {"idle", "begin_put", "begin_delete"} PROVE Quiet(d)
    BY <2>i DEF InTransaction
  <2>s. ASSUME req'[d] = req[d], UNCHANGED <<rows, lock>> PROVE Quiet(d)
    BY <2>d, <2>s DEF InTransaction, Matches
  <2>o. ASSUME NEW c \in Clients, c # d, lock = c, req'[d] = req[d] PROVE Quiet(d)
    BY <2>d, <2>i, <2>o DEF InTransaction, Request
  <2>f. ASSUME NEW c \in Clients, Finish(c), lock = c PROVE Quiet(d)
    <3>1. CASE c = d
      BY <2>f, <2>i, <3>1, FinishRequest DEF Finish
    <3>2. CASE c # d
      BY <2>f, <2>o, <3>2, FinishRequest DEF Finish
    <3> QED BY <3>1, <3>2
  <2> HIDE DEF Quiet
  <2>h. ASSUME NEW c \in Clients, InTransaction(c) PROVE lock = c
    BY <2>h DEF LockInv, Exclusive
  <2>1. ASSUME NEW c \in Clients, NEW k \in Keys, Fetch(c, k) PROVE Quiet(d)
    BY <2>1, <2>s DEF Fetch
  <2>2. ASSUME NEW c \in Clients, NEW k \in Keys, NEW s \in Sizes, NEW b \in BOOLEAN,
               Put(c, k, s, b)
        PROVE  Quiet(d)
    <3>1. CASE c = d
      <4>1. req'[d].st = "begin_put"
        BY <2>2, <3>1 DEF Put, TypeInv, TypeOK
      <4> QED BY <2>i, <4>1
    <3>2. CASE c # d
      BY <2>2, <2>s, <3>2 DEF Put, TypeInv, TypeOK
    <3> QED BY <3>1, <3>2
  <2>3. ASSUME NEW c \in Clients, NEW k \in Keys, NEW b \in BOOLEAN, Delete(c, k, b)
        PROVE  Quiet(d)
    <3>1. CASE c = d
      <4> DEFINE v == IF b THEN VersionOf(known[c][k]) ELSE None
      <4>1. req'[d] = [NoRequest EXCEPT !.st = "begin_delete", !.key = k, !.ifv = v]
        BY <2>3, <3>1 DEF Delete, TypeInv, TypeOK
      <4> HIDE DEF v
      <4>2. req'[d].st = "begin_delete"
        BY <4>1, NoRequestType DEF Request
      <4> QED BY <2>i, <4>2
    <3>2. CASE c # d
      BY <2>3, <2>s, <3>2 DEF Delete, TypeInv, TypeOK
    <3> QED BY <3>1, <3>2
  <2>4. ASSUME NEW c \in Clients, NEW s \in {"read", "delete"}, TakeLock(c), Goto(c, s),
               UNCHANGED rows, s = "read" => req[c].st \in Writers
        PROVE  Quiet(d)
    <3>1. /\ req'[c] = [req[c] EXCEPT !.st = s]
          /\ \A x \in Clients : x # c => req'[x] = req[x]
      BY <2>4, GotoRequest DEF Statements, Writers
    <3>2. CASE c = d
      <4>1. req'[d].st = s /\ lock' = d
        BY <2>4, <2>d, <3>1, <3>2 DEF TakeLock, Request
      <4> QED BY <4>1 DEF Quiet, InTransaction
    <3>3. CASE c # d
      <4>1. lock = None /\ req'[d] = req[d]
        BY <2>4, <3>1, <3>3 DEF TakeLock
      <4>2. req'[d].st \in {"idle", "begin_put", "begin_delete"}
        BY <4>1, <2>d, <2>n DEF InTransaction, Request
      <4> QED BY <2>i, <4>2
    <3> QED BY <3>2, <3>3
  <2>5. ASSUME NEW c \in Clients, BeginPut(c) PROVE Quiet(d)
    BY <2>4, <2>5 DEF BeginPut, At, Writers
  <2>6. ASSUME NEW c \in Clients, BeginDelete(c) PROVE Quiet(d)
    BY <2>4, <2>6 DEF BeginDelete
  <2>7. ASSUME NEW c \in Clients, ReadCurrent(c) PROVE Quiet(d)
    <3>0. lock = c
      BY <2>7, <2>h DEF ReadCurrent, At, InTransaction
    <3>1. CASE Finish(c)
      BY <2>f, <3>0, <3>1
    <3>2. CASE UNCHANGED lock /\ req' = [req EXCEPT ![c].st = "usage", ![c].cur = rows[req[c].key]]
      <4>1. CASE c = d
        <5>1. /\ req'[d].st = "usage" /\ req'[d].cur = rows[req[d].key]
              /\ req'[d].key = req[d].key
          BY <2>d, <3>2, <4>1 DEF TypeInv, TypeOK, Request
        <5> QED
          BY <2>7, <3>0, <3>2, <4>1, <5>1 DEF Quiet, InTransaction, ReadCurrent
      <4>2. CASE c # d
        BY <2>o, <3>0, <3>2, <4>2 DEF TypeInv, TypeOK
      <4> QED BY <4>1, <4>2
    <3> QED BY <2>7, <3>1, <3>2 DEF ReadCurrent
  <2>8. ASSUME NEW c \in Clients, ReadUsage(c) PROVE Quiet(d)
    <3>0. lock = c
      BY <2>8, <2>h DEF ReadUsage, At, InTransaction
    <3>1. CASE Finish(c)
      BY <2>f, <3>0, <3>1
    <3>2. CASE UNCHANGED lock /\ Goto(c, "write")
      <4>1. /\ req'[c] = [req[c] EXCEPT !.st = "write"]
            /\ \A x \in Clients : x # c => req'[x] = req[x]
        BY <2>8, <3>2, GotoRequest DEF ReadUsage, At, Statements, Writers
      <4>2. CASE c = d
        <5>1. req'[d].st = "write" /\ req'[d].cur = req[d].cur /\ req'[d].key = req[d].key
          BY <2>d, <4>1, <4>2 DEF Request
        <5>2. req[d].cur = rows[req[d].key] /\ UNCHANGED rows
          BY <2>8, <2>d, <4>2 DEF ReadUsage, At
        <5> QED
          BY <3>0, <3>2, <4>2, <5>1, <5>2 DEF Quiet, InTransaction
      <4>3. CASE c # d
        BY <2>o, <3>0, <4>1, <4>3
      <4> QED BY <4>2, <4>3
    <3> QED BY <2>8, <3>1, <3>2 DEF ReadUsage
  <2>9. ASSUME NEW c \in Clients, Write(c) \/ Explain(c) PROVE Quiet(d)
    BY <2>9, <2>f, <2>h DEF Write, Explain, At, InTransaction
  <2>10. ASSUME NEW c \in Clients, DeleteRow(c) PROVE Quiet(d)
    <3>0. lock = c
      BY <2>10, <2>h DEF DeleteRow, At, InTransaction
    <3>1. CASE Matches(c)
      BY <2>10, <2>f, <3>0, <3>1 DEF DeleteRow
    <3>2. CASE ~Matches(c)
      <4>1. /\ req'[c] = [req[c] EXCEPT !.st = "explain"]
            /\ \A x \in Clients : x # c => req'[x] = req[x]
        BY <2>10, <3>2, GotoRequest DEF DeleteRow, Statements, Writers
      <4>2. UNCHANGED <<rows, lock>>
        BY <2>10, <3>2 DEF DeleteRow
      <4>3. CASE c = d
        <5>1. req'[d].st = "explain" /\ req'[d].key = req[d].key /\ req'[d].ifv = req[d].ifv
          BY <2>d, <4>1, <4>3 DEF Request
        <5> QED
          BY <3>0, <3>2, <4>2, <4>3, <5>1 DEF Quiet, InTransaction, Matches
      <4>4. CASE c # d
        BY <2>o, <3>0, <4>1, <4>4
      <4> QED BY <4>3, <4>4
    <3> QED BY <3>1, <3>2
  <2>11. ASSUME NEW c \in Clients, Abort(c) PROVE Quiet(d)
    <3>1. req'[c].st = "idle" /\ \A x \in Clients : x # c => req'[x] = req[x]
      BY <2>11, FinishRequest DEF Abort
    <3>2. CASE c = d
      BY <2>i, <3>1, <3>2
    <3>3. CASE c # d /\ lock = c
      BY <2>o, <3>1, <3>3
    <3>4. CASE c # d /\ lock # c
      BY <2>11, <2>s, <3>1, <3>4 DEF Abort
    <3> QED BY <3>2, <3>3, <3>4
  <2>12. CASE UNCHANGED vars
    BY <2>12, <2>s DEF vars
  <2> QED
    BY <2>1, <2>2, <2>3, <2>5, <2>6, <2>7, <2>8, <2>9, <2>10, <2>11, <2>12
       DEF Next, Ask, Begin, Step
<1> QED
  BY <1>1, <1>2, TypeInvariant, PTL DEF Spec

(* Both backends: the row a transaction decided on is the row it replaces,   *)
(* whatever other clients do between its statements.                         *)
THEOREM WritesDecideOnCurrent == Spec => []DecidedOnCurrent
  BY LockInvariant, PTL DEF LockInv

(* A delete that was refused is answered from the state that refused it.     *)
THEOREM ConflictsAreReal == Spec => []ConflictIsReal
  BY LockInvariant, PTL DEF LockInv

-----------------------------------------------------------------------------
(* An entry's version grows with every edit until the entry is deleted.      *)
LEMMA SeenInvariant == Spec => []SeenIsOlder
<1>1. Init => SeenIsOlder
  BY DEF Init, SeenIsOlder
<1>2. TypeInv /\ SeenIsOlder /\ [Next]_vars => SeenIsOlder'
  <2> SUFFICES ASSUME TypeInv, SeenIsOlder, [Next]_vars PROVE SeenIsOlder'
    OBVIOUS
  <2>0. /\ rows \in [Keys -> Row \cup {None}] /\ None \notin Row
        /\ known \in [Clients -> [Keys -> Row \cup {None}]]
        /\ req \in [Clients -> Request]
    BY RowAssumption DEF TypeInv, TypeOK
  <2>v. \A r \in Row : r.version \in Nat
    BY DEF Row
  <2>u. ASSUME UNCHANGED <<rows, known, deleted>> PROVE SeenIsOlder'
    BY <2>u DEF SeenIsOlder
  <2>1. ASSUME NEW c \in Clients, NEW k \in Keys, Saw(c, k, rows[k]), UNCHANGED rows
        PROVE  SeenIsOlder'
    <3> SUFFICES ASSUME NEW d \in Clients, NEW j \in Keys,
                        known'[d][j] # None, <<d, j>> \notin deleted'
                 PROVE  /\ rows'[j] # None
                        /\ known'[d][j].version <= rows'[j].version
                        /\ known'[d][j].version = rows'[j].version =>
                              known'[d][j].edit = rows'[j].edit
      BY DEF SeenIsOlder
    <3>1. CASE d = c /\ j = k
      <4>1. known'[d][j] = rows[j] /\ rows[j] \in Row
        BY <2>0, <2>1, <3>1 DEF Saw
      <4> QED BY <2>0, <2>1, <2>v, <4>1
    <3>2. CASE ~(d = c /\ j = k)
      <4>1. known'[d][j] = known[d][j] /\ <<d, j>> \notin deleted
        BY <2>0, <2>1, <3>2 DEF Saw
      <4> QED BY <2>1, <4>1 DEF SeenIsOlder
    <3> QED BY <3>1, <3>2
  <2>2. ASSUME NEW c \in Clients, Write(c) PROVE SeenIsOlder'
    <3> DEFINE k   == req[c].key
               new == [version |-> NextVersion(k), size |-> req[c].size,
                       edit |-> req[c].edit]
    <3>1. k \in Keys /\ VersionOf(rows[k]) \in Nat
      BY <2>0, RowVersion DEF Request
    <3>2. new.version = VersionOf(rows[k]) + 1
      BY DEF NextVersion
    <3>3. /\ rows' = [rows EXCEPT ![k] = new]
          /\ Saw(c, k, new) \/ UNCHANGED <<known, deleted>>
      BY <2>2 DEF Write
    <3>4. new # None
      <4>1. new \in Row
        BY <2>0, <2>2, <3>1, <3>2 DEF Write, At, TypeInv, WriterReady, Request, Row, NextVersion
      <4> QED BY <4>1, <2>0
    <3> HIDE DEF k, new
    <3> SUFFICES ASSUME NEW d \in Clients, NEW j \in Keys,
                        known'[d][j] # None, <<d, j>> \notin deleted'
                 PROVE  /\ rows'[j] # None
                        /\ known'[d][j].version <= rows'[j].version
                        /\ known'[d][j].version = rows'[j].version =>
                              known'[d][j].edit = rows'[j].edit
      BY DEF SeenIsOlder
    <3>5. CASE j # k
      <4>1. rows'[j] = rows[j] /\ known'[d][j] = known[d][j] /\ <<d, j>> \notin deleted
        BY <2>0, <3>1, <3>3, <3>5 DEF Saw
      <4> QED BY <4>1 DEF SeenIsOlder
    <3>6. CASE j = k /\ d = c /\ Saw(c, k, new)
      <4>1. rows'[j] = new /\ known'[d][j] = new
        BY <2>0, <3>1, <3>3, <3>6 DEF Saw
      <4> QED BY <3>1, <3>2, <3>4, <4>1
    <3>7. CASE j = k /\ ~(d = c /\ Saw(c, k, new))
      <4>1. rows'[j] = new /\ known'[d][j] = known[d][j] /\ <<d, j>> \notin deleted
        BY <2>0, <3>1, <3>3, <3>7 DEF Saw
      <4>2. rows[j] \in Row /\ known[d][j].version <= rows[j].version /\ known[d][j] \in Row
        BY <2>0, <4>1 DEF SeenIsOlder
      <4>3. VersionOf(rows[j]) = rows[j].version
        BY <2>0, <4>2 DEF VersionOf
      <4> QED BY <2>v, <3>2, <3>4, <3>7, <4>1, <4>2, <4>3
    <3> QED BY <3>5, <3>6, <3>7
  <2>3. ASSUME NEW c \in Clients, DeleteRow(c), Matches(c) PROVE SeenIsOlder'
    <3>1. req[c].key \in Keys
      BY <2>0 DEF Request
    <3>2. /\ rows' = [rows EXCEPT ![req[c].key] = None] /\ UNCHANGED known
          /\ \A b \in Clients : known[b][req[c].key] # None => <<b, req[c].key>> \in deleted'
          /\ deleted \subseteq deleted'
      BY <2>3 DEF DeleteRow
    <3> QED BY <2>0, <3>1, <3>2 DEF SeenIsOlder
  <2> QED
    BY <2>u, <2>1, <2>2, <2>3
       DEF Next, Ask, Begin, Step, Fetch, Put, Delete, BeginPut, BeginDelete,
           ReadCurrent, ReadUsage, DeleteRow, Explain, Abort, vars
<1> QED
  BY <1>1, <1>2, TypeInvariant, PTL DEF Spec

(* While an entry is not deleted, no two edits share a version: a client     *)
(* whose if_version matches has seen the edit it replaces.                   *)
THEOREM VersionsNameEdits == Spec => []VersionNamesEdit
<1>1. SeenIsOlder => VersionNamesEdit
  BY DEF SeenIsOlder, VersionNamesEdit
<1> QED BY <1>1, SeenInvariant, PTL

-----------------------------------------------------------------------------
(* Sums                                                                      *)

LEMMA LeastNat ==   \* the least-number principle, in the place of induction
  ASSUME NEW S, S \subseteq Nat, S # {}
  PROVE  \E n \in S : \A m \in S : n <= m
  <1>1. PICK n \in S : \A m \in S : ~(<<m, n>> \in OpToRel(<, Nat))
    BY NatLessThanWellFounded, WFMin
  <1>2. \A m \in S : ~(m < n)
    BY <1>1 DEF OpToRel
  <1> QED BY <1>2

One(s) == CHOOSE x \in s : TRUE

(* g sums f over the subsets of S, as MapThenSumSet does. *)
SumStep(g, f, s) == IF s = {} THEN 0 ELSE f[One(s)] + g[s \ {One(s)}]
Sums(g, f, S) == \A s \in SUBSET S : g[s] = SumStep(g, f, s)

LEMMA OneIn ==
  ASSUME NEW s, s # {} PROVE One(s) \in s
  BY DEF One

(* Subsets of a finite set are finite, and smaller without an element. *)
LEMMA Smaller ==
  ASSUME NEW S, IsFiniteSet(S), NEW s \in SUBSET S
  PROVE  /\ IsFiniteSet(s) /\ Cardinality(s) \in Nat
         /\ \A x \in s : Cardinality(s \ {x}) = Cardinality(s) - 1 /\ Cardinality(s) # 0
  <1>1. IsFiniteSet(s)
    BY FS_Subset
  <1>2. Cardinality(s) \in Nat
    BY <1>1, FS_CardinalityType
  <1>3. ASSUME NEW x \in s PROVE Cardinality(s \ {x}) = Cardinality(s) - 1 /\ Cardinality(s) # 0
    <2>1. Cardinality(s \ {x}) = Cardinality(s) - 1
      BY <1>1, FS_RemoveElement
    <2>2. Cardinality(s \ {x}) \in Nat
      BY <1>1, FS_RemoveElement, FS_CardinalityType
    <2> QED BY <1>2, <2>1, <2>2
  <1> QED BY <1>1, <1>2, <1>3

(* Two sums of the same numbers are equal, whatever else is around. *)
LEMMA SumsAgree ==
  ASSUME NEW S, IsFiniteSet(S), NEW f, NEW g, NEW h, NEW d, NEW T,
         Sums(g, f, S), Sums(h, d, S), T \subseteq S, \A x \in T : f[x] = d[x]
  PROVE  g[T] = h[T]
  <1> DEFINE Bad == {s \in SUBSET T : g[s] # h[s]}
             N == {Cardinality(s) : s \in Bad}
  <1>1. ASSUME Bad # {} PROVE FALSE
    <2>1. \A s \in SUBSET T : Cardinality(s) \in Nat
      BY Smaller
    <2>2. N \subseteq Nat /\ N # {}
      BY <1>1, <2>1
    <2>3. PICK n \in N : \A m \in N : n <= m
      BY <2>2, LeastNat
    <2>4. PICK s \in Bad : Cardinality(s) = n
      OBVIOUS
    <2>5. s \subseteq T /\ s \subseteq S /\ g[s] # h[s]
      OBVIOUS
    <2>6. g[s] = SumStep(g, f, s) /\ h[s] = SumStep(h, d, s)
      BY <2>5 DEF Sums
    <2>7. s # {}
      BY <2>5, <2>6 DEF SumStep
    <2> DEFINE x == One(s)
               r == s \ {x}
    <2>8. x \in s
      BY <2>7, OneIn
    <2>9. Cardinality(r) = n - 1 /\ Cardinality(r) \in Nat /\ r \in SUBSET T
      BY <2>1, <2>4, <2>5, <2>8, Smaller
    <2>10. r \notin Bad
      BY <2>2, <2>3, <2>9
    <2>11. g[r] = h[r] /\ f[x] = d[x]
      BY <2>5, <2>8, <2>9, <2>10
    <2> QED BY <2>5, <2>6, <2>7, <2>11 DEF SumStep
  <1> QED BY <1>1

(* A sum may be begun with any element. *)
Begun(g, f, s, y) == g[s] = f[y] + g[s \ {y}]

LEMMA SumsAny ==
  ASSUME NEW S, IsFiniteSet(S), NEW f, NEW g \in [SUBSET S -> Nat], Sums(g, f, S),
         \A x \in S : f[x] \in Nat, NEW T, T \subseteq S, NEW y, y \in T
  PROVE  Begun(g, f, T, y)
  <1> DEFINE Bad == {s \in SUBSET S : \E z \in s : g[s] # f[z] + g[s \ {z}]}
             N == {Cardinality(s) : s \in Bad}
  <1>1. ASSUME Bad # {} PROVE FALSE
    <2>1. \A s \in SUBSET S : Cardinality(s) \in Nat
      BY Smaller
    <2>2. N \subseteq Nat /\ N # {}
      BY <1>1, <2>1
    <2>3. PICK n \in N : \A m \in N : n <= m
      BY <2>2, LeastNat
    <2>4. PICK s \in Bad : Cardinality(s) = n
      OBVIOUS
    <2>5. PICK z \in s : g[s] # f[z] + g[s \ {z}]
      OBVIOUS
    <2> DEFINE x == One(s)
    <2>6. x \in s /\ s \subseteq S
      BY <2>5, OneIn
    <2> HIDE DEF x
    <2>7. g[s] = f[x] + g[s \ {x}]
      BY <2>5, <2>6 DEF Sums, SumStep, x
    <2>8. x # z
      BY <2>5, <2>7
    <2>9. /\ Cardinality(s \ {x}) = n - 1 /\ Cardinality(s \ {z}) = n - 1 /\ n \in Nat
      BY <2>1, <2>4, <2>5, <2>6, Smaller
    <2>10. s \ {x} \notin Bad /\ s \ {z} \notin Bad
      <3>1. \A r \in Bad : n <= Cardinality(r)
        BY <2>3
      <3> HIDE DEF Bad
      <3> QED BY <2>9, <3>1
    <2>11. g[s \ {x}] = f[z] + g[(s \ {x}) \ {z}] /\ g[s \ {z}] = f[x] + g[(s \ {z}) \ {x}]
      BY <2>6, <2>8, <2>10
    <2>12. (s \ {x}) \ {z} = (s \ {z}) \ {x} /\ (s \ {z}) \ {x} \in SUBSET S
      BY <2>6
    <2> DEFINE w == g[(s \ {z}) \ {x}]
    <2>13. f[x] \in Nat /\ f[z] \in Nat /\ w \in Nat
      BY <2>6, <2>12
    <2>14. g[s] = f[x] + (f[z] + w) /\ g[s \ {z}] = f[x] + w
      BY <2>7, <2>11, <2>12
    <2> HIDE DEF w
    <2>15. g[s] = f[z] + g[s \ {z}]
      BY <2>13, <2>14
    <2> QED BY <2>5, <2>15
  <1> QED BY <1>1 DEF Begun

(* The function that sums exists: no number is the least for which it would   *)
(* not on the sets of that size.                                              *)
LEMMA SumsExist ==
  ASSUME NEW S, IsFiniteSet(S), NEW f, \A x \in S : f[x] \in Nat
  PROVE  \E g \in [SUBSET S -> Nat] : Sums(g, f, S)
  <1> DEFINE Upto(n) == {s \in SUBSET S : Cardinality(s) <= n}
             Has(n) == \E g \in [SUBSET S -> Nat] : \A s \in Upto(n) : g[s] = SumStep(g, f, s)
             Bad == {n \in Nat : ~Has(n)}
  <1>1. \A s \in SUBSET S : Cardinality(s) \in Nat
    BY Smaller
  <1>2. Has(0)
    <2> DEFINE g == [s \in SUBSET S |-> 0]
    <2>1. ASSUME NEW s \in Upto(0) PROVE s = {}
      <3>1. Cardinality(s) = 0
        BY <1>1
      <3> QED BY <3>1, Smaller
    <2>2. g \in [SUBSET S -> Nat] /\ \A s \in Upto(0) : g[s] = SumStep(g, f, s)
      BY <2>1 DEF SumStep
    <2> QED BY <2>2
  <1>3. ASSUME NEW n \in Nat, Has(n) PROVE Has(n + 1)
    <2>1. PICK g \in [SUBSET S -> Nat] : \A s \in Upto(n) : g[s] = SumStep(g, f, s)
      BY <1>3
    <2> DEFINE h == [s \in SUBSET S |-> SumStep(g, f, s)]
    <2>2. ASSUME NEW s \in SUBSET S
          PROVE  SumStep(g, f, s) \in Nat
      <3>1. CASE s = {}
        BY <3>1 DEF SumStep
      <3>2. CASE s # {}
        <4>1. One(s) \in S /\ s \ {One(s)} \in SUBSET S
          BY <3>2, OneIn
        <4>2. f[One(s)] \in Nat /\ g[s \ {One(s)}] \in Nat
          BY <2>1, <4>1
        <4> QED BY <3>2, <4>2 DEF SumStep
      <3> QED BY <3>1, <3>2
    <2>3. h \in [SUBSET S -> Nat] /\ \A s \in SUBSET S : h[s] = SumStep(g, f, s)
      BY <2>2
    <2> HIDE DEF h
    <2>4. ASSUME NEW s \in Upto(n + 1) PROVE h[s] = SumStep(h, f, s)
      <3>1. CASE s = {}
        BY <2>3, <3>1 DEF SumStep
      <3>2. CASE s # {}
        <4> DEFINE r == s \ {One(s)}
        <4>1. One(s) \in s
          BY <3>2, OneIn
        <4>2. r \in SUBSET S /\ Cardinality(r) = Cardinality(s) - 1 /\ Cardinality(s) \in Nat
          BY <1>1, <4>1, Smaller
        <4>3. r \in Upto(n)
          BY <4>2
        <4>4. h[r] = SumStep(g, f, r) /\ g[r] = SumStep(g, f, r)
          BY <2>1, <2>3, <4>2, <4>3
        <4> QED BY <2>3, <3>2, <4>4 DEF SumStep
      <3> QED BY <3>1, <3>2
    <2> QED BY <2>3, <2>4
  <1> HIDE DEF Has
  <1>4. ASSUME Bad # {} PROVE FALSE
    <2>1. PICK n \in Bad : \A m \in Bad : n <= m
      BY <1>4, LeastNat
    <2>2. n \in Nat /\ ~Has(n) /\ n # 0
      BY <1>2
    <2>3. n - 1 \in Nat /\ n - 1 \notin Bad
      BY <2>1, <2>2
    <2>4. Has((n - 1) + 1) /\ (n - 1) + 1 = n
      BY <1>3, <2>2, <2>3
    <2> QED BY <2>2, <2>4
  <1>5. Cardinality(S) \in Nat /\ Has(Cardinality(S))
    BY <1>1, <1>4
  <1>6. Upto(Cardinality(S)) = SUBSET S
    <2>1. \A s \in SUBSET S : Cardinality(s) <= Cardinality(S)
      BY FS_Subset
    <2> QED BY <2>1
  <1> QED BY <1>5, <1>6 DEF Has, Sums

(* The payload bytes of the rows of S. *)
Total(R, S) ==
  (CHOOSE g : g = [s \in SUBSET S |-> IF s = {} THEN 0
                     ELSE R[CHOOSE x \in s : TRUE].size + g[s \ {CHOOSE x \in s : TRUE}]])[S]

LEMMA TotalIsSum ==
  ASSUME NEW R, NEW S, IsFiniteSet(S), \A x \in S : R[x].size \in Nat
  PROVE  \E g \in [SUBSET S -> Nat] :
           Sums(g, [x \in S |-> R[x].size], S) /\ Total(R, S) = g[S]
  <1> DEFINE f == [x \in S |-> R[x].size]
             Eq(g) == g = [s \in SUBSET S |-> IF s = {} THEN 0
                      ELSE R[CHOOSE x \in s : TRUE].size + g[s \ {CHOOSE x \in s : TRUE}]]
             h == CHOOSE g : Eq(g)
  <1>1. PICK g \in [SUBSET S -> Nat] : Sums(g, f, S)
    BY SumsExist
  <1>2. \A s \in SUBSET S : s # {} => One(s) \in S /\ f[One(s)] = R[One(s)].size
    BY OneIn
  <1>3. Eq(g)
    <2>1. \A s \in SUBSET S : g[s] = IF s = {} THEN 0
             ELSE R[CHOOSE x \in s : TRUE].size + g[s \ {CHOOSE x \in s : TRUE}]
      BY <1>1, <1>2 DEF Sums, SumStep, One
    <2> QED BY <1>1, <2>1
  <1>4. Eq(h)
    BY <1>3
  <1>5. Total(R, S) = h[S]
    BY DEF Total
  <1> HIDE DEF h
  <1>6. \A s \in SUBSET S : h[s] = IF s = {} THEN 0
             ELSE R[CHOOSE x \in s : TRUE].size + h[s \ {CHOOSE x \in s : TRUE}]
    BY <1>4
  <1>7. Sums(h, f, S)
    BY <1>2, <1>6 DEF Sums, SumStep, One
  <1>8. S \subseteq S /\ \A x \in S : f[x] = f[x]
    OBVIOUS
  <1> HIDE DEF f
  <1>9. g[S] = h[S]
    BY <1>1, <1>7, <1>8, SumsAgree
  <1> QED BY <1>1, <1>5, <1>9 DEF f

(* What the rows of one set add up to, when a row is set apart or others      *)
(* change around them.                                                        *)
LEMMA TotalSame ==
  ASSUME NEW R, NEW Q, NEW S, IsFiniteSet(S), \A x \in S : R[x].size \in Nat,
         \A x \in S : Q[x].size = R[x].size
  PROVE  Total(R, S) \in Nat /\ Total(Q, S) = Total(R, S)
  <1>1. PICK g \in [SUBSET S -> Nat] :
          Sums(g, [x \in S |-> R[x].size], S) /\ Total(R, S) = g[S]
    BY TotalIsSum
  <1>2. PICK h \in [SUBSET S -> Nat] :
          Sums(h, [x \in S |-> Q[x].size], S) /\ Total(Q, S) = h[S]
    <2>1. \A x \in S : Q[x].size \in Nat
      OBVIOUS
    <2> QED BY <2>1, TotalIsSum
  <1>3. [x \in S |-> Q[x].size] = [x \in S |-> R[x].size]
    OBVIOUS
  <1>4. g[S] = h[S]
    BY <1>1, <1>2, <1>3, SumsAgree
  <1> QED BY <1>1, <1>2, <1>4

LEMMA TotalWithout ==
  ASSUME NEW R, NEW S, IsFiniteSet(S), \A x \in S : R[x].size \in Nat, NEW y \in S
  PROVE  Total(R, S) = R[y].size + Total(R, S \ {y})
  <1> DEFINE T == S \ {y}
             f == [x \in S |-> R[x].size]
             d == [x \in T |-> R[x].size]
  <1>1. PICK g \in [SUBSET S -> Nat] : Sums(g, f, S) /\ Total(R, S) = g[S]
    BY TotalIsSum
  <1>2. IsFiniteSet(T) /\ T \subseteq S /\ \A x \in T : R[x].size \in Nat
    BY FS_RemoveElement
  <1>3. PICK h \in [SUBSET T -> Nat] : Sums(h, d, T) /\ Total(R, T) = h[T]
    BY <1>2, TotalIsSum
  <1>4. Sums(g, f, T)
    BY <1>1, <1>2 DEF Sums
  <1>5. \A x \in T : f[x] = d[x]
    OBVIOUS
  <1>6. \A x \in S : f[x] \in Nat /\ f[x] = R[x].size
    OBVIOUS
  <1> HIDE DEF f, d, T
  <1>7. g[T] = h[T]
    BY <1>2, <1>3, <1>4, <1>5, SumsAgree
  <1>8. g[S] = f[y] + g[S \ {y}]
    <2>1. \A x \in S : f[x] \in Nat
      BY <1>6
    <2>2. S \subseteq S /\ y \in S
      OBVIOUS
    <2>3. Begun(g, f, S, y)
      BY <1>1, <2>1, <2>2, SumsAny
    <2> QED BY <2>3 DEF Begun
  <1> QED BY <1>1, <1>3, <1>6, <1>7, <1>8 DEF T

-----------------------------------------------------------------------------
(* The quota                                                                 *)

(* The entries of a table, and whether it is within the quota; what Fits     *)
(* compares, of a table, the row a transaction read and the size it brings.  *)
Kept(R)   == {k \in Keys : R[k] # None}
Within(R) == Cardinality(Kept(R)) <= MaxEntries /\ Total(R, Kept(R)) <= MaxBytes
RoomFor(R, old, size) ==
  /\ Cardinality(Kept(R)) + (IF old = None THEN 1 ELSE 0) <= MaxEntries
  /\ Total(R, Kept(R)) - (IF old = None THEN 0 ELSE old.size) + size <= MaxBytes

Tables == [Keys -> Row \cup {None}]

LEMMA KeptFinite ==
  ASSUME NEW R \in Tables
  PROVE  /\ IsFiniteSet(Kept(R)) /\ Cardinality(Kept(R)) \in Nat
         /\ \A k \in Kept(R) : R[k] \in Row /\ R[k].size \in Nat
         /\ Total(R, Kept(R)) \in Nat
  <1>1. IsFiniteSet(Kept(R))
    <2>1. Kept(R) \in SUBSET Keys
      BY DEF Kept
    <2> QED BY <2>1, MonitorAssumption, FS_Subset
  <1>2. \A k \in Kept(R) : R[k] \in Row /\ R[k].size \in Nat
    BY MonitorAssumption DEF Kept, Tables, Row
  <1>3. Cardinality(Kept(R)) \in Nat
    BY <1>1, FS_CardinalityType
  <1>4. Total(R, Kept(R)) \in Nat
    BY <1>1, <1>2, TotalSame
  <1> QED BY <1>1, <1>2, <1>3, <1>4

(* A row apart, the others add up to the same in both tables.                *)
Alike(R, Q, k) == \A j \in Keys : j # k => Q[j] = R[j]

LEMMA OthersSame ==
  ASSUME NEW R \in Tables, NEW Q \in Tables, NEW k \in Keys, Alike(R, Q, k)
  PROVE  /\ Kept(Q) \ {k} = Kept(R) \ {k}
         /\ Total(Q, Kept(Q) \ {k}) = Total(R, Kept(R) \ {k})
         /\ Total(R, Kept(R) \ {k}) \in Nat
  <1> DEFINE S == Kept(R) \ {k}
  <1>1. Kept(Q) \ {k} = S
    BY DEF Kept, Alike
  <1>2. IsFiniteSet(S) /\ \A x \in S : R[x].size \in Nat /\ Q[x].size = R[x].size
    <2>1. \A x \in S : R[x].size \in Nat
      BY KeptFinite
    <2>2. \A x \in S : Q[x] = R[x]
      BY DEF Kept, Alike
    <2>3. IsFiniteSet(S)
      BY KeptFinite, FS_Difference
    <2> QED BY <2>1, <2>2, <2>3
  <1> HIDE DEF S
  <1>3. Total(R, S) \in Nat /\ Total(Q, S) = Total(R, S)
    BY <1>2, TotalSame
  <1> QED BY <1>1, <1>3 DEF S

(* With and without the entry of a key.                                      *)
LEMMA OneApart ==
  ASSUME NEW R \in Tables, NEW k \in Keys
  PROVE  /\ R[k] # None =>
              /\ R[k].size \in Nat
              /\ Cardinality(Kept(R)) = Cardinality(Kept(R) \ {k}) + 1
              /\ Total(R, Kept(R)) = R[k].size + Total(R, Kept(R) \ {k})
         /\ R[k] = None => Kept(R) \ {k} = Kept(R)
         /\ Cardinality(Kept(R) \ {k}) \in Nat
  <1>1. IsFiniteSet(Kept(R)) /\ \A x \in Kept(R) : R[x].size \in Nat
    BY KeptFinite
  <1>2. Cardinality(Kept(R) \ {k}) \in Nat
    BY <1>1, FS_Difference, FS_CardinalityType
  <1>3. ASSUME R[k] # None
        PROVE  /\ R[k].size \in Nat
               /\ Cardinality(Kept(R)) = Cardinality(Kept(R) \ {k}) + 1
               /\ Total(R, Kept(R)) = R[k].size + Total(R, Kept(R) \ {k})
    <2>1. k \in Kept(R)
      BY <1>3 DEF Kept
    <2>2. Cardinality(Kept(R) \ {k}) = Cardinality(Kept(R)) - 1
      BY <1>1, <2>1, FS_RemoveElement
    <2>3. Cardinality(Kept(R)) \in Nat
      BY KeptFinite
    <2>4. Total(R, Kept(R)) = R[k].size + Total(R, Kept(R) \ {k})
      BY <1>1, <2>1, TotalWithout
    <2> QED BY <1>1, <2>1, <2>2, <2>3, <2>4
  <1>4. R[k] = None => Kept(R) \ {k} = Kept(R)
    BY DEF Kept
  <1> QED BY <1>2, <1>3, <1>4

(* A write that fits keeps the quota ...                                     *)
LEMMA Replaced ==
  ASSUME NEW R \in Tables, NEW Q \in Tables, NEW k \in Keys, NEW r \in Row,
         Q[k] = r, Alike(R, Q, k), RoomFor(R, R[k], r.size)
  PROVE  Within(Q)
  <1> DEFINE n == Cardinality(Kept(R) \ {k})
             t == Total(R, Kept(R) \ {k})
  <1>1. Q[k] = r /\ Q[k] # None /\ Alike(R, Q, k)
    BY RowAssumption
  <1>2. Kept(Q) \ {k} = Kept(R) \ {k} /\ Total(Q, Kept(Q) \ {k}) = t /\ t \in Nat
    BY <1>1, OthersSame
  <1>3. Cardinality(Kept(Q)) = n + 1 /\ Total(Q, Kept(Q)) = r.size + t /\ r.size \in Nat
    <2>1. /\ Q[k].size \in Nat
          /\ Cardinality(Kept(Q)) = Cardinality(Kept(Q) \ {k}) + 1
          /\ Total(Q, Kept(Q)) = Q[k].size + Total(Q, Kept(Q) \ {k})
      BY <1>1, OneApart
    <2> QED BY <1>1, <1>2, <2>1
  <1>4. n \in Nat
    BY OneApart
  <1>5. CASE R[k] = None
    <2>1. Cardinality(Kept(R)) = n /\ Total(R, Kept(R)) = t
      BY <1>5, OneApart
    <2> HIDE DEF n, t
    <2>2. n + 1 <= MaxEntries /\ t - 0 + r.size <= MaxBytes
      BY <1>5, <2>1 DEF RoomFor
    <2> QED BY <1>2, <1>3, <1>4, <2>2 DEF Within
  <1>6. CASE R[k] # None
    <2>1. /\ Cardinality(Kept(R)) = n + 1 /\ Total(R, Kept(R)) = R[k].size + t
          /\ R[k].size \in Nat
      BY <1>6, OneApart
    <2> HIDE DEF n, t
    <2>2. (n + 1) + 0 <= MaxEntries /\ (R[k].size + t) - R[k].size + r.size <= MaxBytes
      <3>1. /\ (IF R[k] = None THEN 1 ELSE 0) = 0
            /\ (IF R[k] = None THEN 0 ELSE R[k].size) = R[k].size
        BY <1>6
      <3>2. /\ Cardinality(Kept(R)) + 0 <= MaxEntries
            /\ Total(R, Kept(R)) - R[k].size + r.size <= MaxBytes
        BY <3>1, Zenon DEF RoomFor
      <3> QED BY <2>1, <3>2, Zenon
    <2>3. n + 1 <= MaxEntries /\ r.size + t <= MaxBytes
      BY <1>2, <1>3, <1>4, <2>1, <2>2, MonitorAssumption
    <2> QED BY <1>3, <2>3 DEF Within
  <1> QED BY <1>5, <1>6

(* ... and so does a deletion.                                               *)
LEMMA Removed ==
  ASSUME NEW R \in Tables, NEW Q \in Tables, NEW k \in Keys,
         Q[k] = None, Alike(R, Q, k), R[k] # None, Within(R)
  PROVE  Within(Q)
  <1> DEFINE n == Cardinality(Kept(R) \ {k})
             t == Total(R, Kept(R) \ {k})
  <1>1. Q[k] = None /\ Alike(R, Q, k)
    OBVIOUS
  <1>2. Kept(Q) \ {k} = Kept(R) \ {k} /\ Total(Q, Kept(Q) \ {k}) = t /\ t \in Nat
    BY <1>1, OthersSame
  <1>3. Kept(Q) \ {k} = Kept(Q)
    BY <1>1, OneApart
  <1>4. /\ Cardinality(Kept(R)) = n + 1 /\ Total(R, Kept(R)) = R[k].size + t
        /\ R[k].size \in Nat /\ n \in Nat
    BY OneApart
  <1>5. Cardinality(Kept(Q)) = n /\ Total(Q, Kept(Q)) = t
    BY <1>2, <1>3
  <1> HIDE DEF n, t
  <1>6. n + 1 <= MaxEntries /\ R[k].size + t <= MaxBytes
    BY <1>4 DEF Within
  <1>7. n <= MaxEntries /\ t <= MaxBytes
    BY <1>2, <1>4, <1>6, MonitorAssumption
  <1> QED BY <1>5, <1>7 DEF Within

(* Between the comparison and the statement nothing else is written, so the  *)
(* writer still has the room it was found to have.                           *)
QuotaInv ==
  /\ Within(rows)
  /\ \A c \in Clients : req[c].st = "write" => RoomFor(rows, req[c].cur, req[c].size)

LEMMA QuotaInvariant == Spec => []QuotaInv
<1>1. Init => QuotaInv
  <2> SUFFICES ASSUME Init PROVE QuotaInv
    OBVIOUS
  <2>1. Kept(rows) = {}
    BY DEF Init, Kept
  <2>2. Cardinality({}) = 0 /\ IsFiniteSet({})
    BY FS_EmptySet
  <2>3. Total(rows, {}) = 0
    <3>1. \A x \in {} : rows[x].size \in Nat
      OBVIOUS
    <3>2. PICK g \in [SUBSET {} -> Nat] :
            Sums(g, [x \in {} |-> rows[x].size], {}) /\ Total(rows, {}) = g[{}]
      BY <2>2, <3>1, TotalIsSum
    <3> QED BY <3>2 DEF Sums, SumStep
  <2>4. Within(rows)
    BY <2>1, <2>2, <2>3, MonitorAssumption DEF Within
  <2> QED BY <2>4, NoRequestType DEF Init, QuotaInv
<1>2. TypeInv /\ LockInv /\ QuotaInv /\ [Next]_vars /\ TypeInv' => QuotaInv'
  <2> SUFFICES ASSUME TypeInv, LockInv, QuotaInv, [Next]_vars, TypeInv' PROVE QuotaInv'
    OBVIOUS
  <2>0. /\ rows \in Tables /\ rows' \in Tables
        /\ req \in [Clients -> Request] /\ req' \in [Clients -> Request]
    BY DEF TypeInv, TypeOK, Tables
  <2> DEFINE Roomy(d) == req'[d].st = "write" => RoomFor(rows', req'[d].cur, req'[d].size)
  <2>q. ASSUME Within(rows'), \A d \in Clients : Roomy(d) PROVE QuotaInv'
    BY <2>q DEF QuotaInv, Within, RoomFor, Kept, Total
  <2>s. ASSUME NEW d \in Clients, UNCHANGED rows, req'[d] = req[d] PROVE Roomy(d)
    BY <2>s DEF QuotaInv
  <2>u. ASSUME NEW c \in Clients, UNCHANGED rows, Roomy(c),
               \A d \in Clients : d # c => req'[d] = req[d]
        PROVE  QuotaInv'
    <3>1. \A d \in Clients : Roomy(d)
      BY <2>s, <2>u
    <3>2. Within(rows')
      BY <2>u DEF QuotaInv
    <3> QED BY <2>q, <3>1, <3>2
  <2>f. ASSUME NEW c \in Clients, req' = [req EXCEPT ![c] = NoRequest], UNCHANGED rows
        PROVE  QuotaInv'
    BY <2>f, <2>u, FinishRequest
  (* Whoever changes the table holds the lock: nobody else is about to write. *)
  <2>w. ASSUME NEW c \in Clients, InTransaction(c), req' = [req EXCEPT ![c] = NoRequest],
               Within(rows')
        PROVE  QuotaInv'
    <3>1. ASSUME NEW d \in Clients PROVE Roomy(d)
      <4>1. CASE d = c
        BY <2>w, <4>1, FinishRequest
      <4>2. CASE d # c
        <5>1. lock = c /\ req'[d] = req[d]
          BY <2>w, <4>2, FinishRequest DEF LockInv, Exclusive
        <5>2. ~InTransaction(d)
          BY <4>2, <5>1 DEF LockInv, Exclusive
        <5> QED BY <5>1, <5>2 DEF InTransaction
      <4> QED BY <4>1, <4>2
    <3> QED BY <2>q, <2>w, <3>1
  <2> HIDE DEF Roomy
  <2>1. ASSUME NEW c \in Clients, NEW k \in Keys, Fetch(c, k) PROVE QuotaInv'
    BY <2>1, <2>q, <2>s DEF Fetch, QuotaInv
  <2>2. ASSUME NEW c \in Clients, NEW k \in Keys, NEW s \in Sizes, NEW b \in BOOLEAN,
               Put(c, k, s, b)
        PROVE  QuotaInv'
    <3>1. req'[c].st = "begin_put" /\ \A d \in Clients : d # c => req'[d] = req[d]
      BY <2>2, <2>0 DEF Put
    <3> QED BY <2>2, <2>u, <3>1 DEF Put, Roomy
  <2>3. ASSUME NEW c \in Clients, NEW k \in Keys, NEW b \in BOOLEAN, Delete(c, k, b)
        PROVE  QuotaInv'
    <3> DEFINE v == IF b THEN VersionOf(known[c][k]) ELSE None
               r == [NoRequest EXCEPT !.st = "begin_delete", !.key = k, !.ifv = v]
    <3>1. req' = [req EXCEPT ![c] = r]
      BY <2>3 DEF Delete
    <3> HIDE DEF v
    <3>2. r.st = "begin_delete"
      BY NoRequestType DEF Request
    <3> HIDE DEF r
    <3>3. req'[c].st = "begin_delete" /\ \A d \in Clients : d # c => req'[d] = req[d]
      BY <2>0, <3>1, <3>2
    <3> QED BY <2>3, <2>u, <3>3 DEF Delete, Roomy
  <2>4. ASSUME NEW c \in Clients, NEW s \in Statements \ {"write"}, Goto(c, s), UNCHANGED rows
        PROVE  QuotaInv'
    <3>1. req'[c].st = s /\ \A d \in Clients : d # c => req'[d] = req[d]
      BY <2>4, <2>0 DEF Goto, Request
    <3> QED BY <2>4, <2>u, <3>1 DEF Roomy
  <2>5. ASSUME NEW c \in Clients, BeginPut(c) \/ BeginDelete(c) PROVE QuotaInv'
    BY <2>4, <2>5 DEF BeginPut, BeginDelete, Statements
  <2>6. ASSUME NEW c \in Clients, ReadCurrent(c) PROVE QuotaInv'
    <3>1. CASE Finish(c)
      BY <2>6, <2>f, <3>1 DEF ReadCurrent, Finish
    <3>2. CASE req' = [req EXCEPT ![c].st = "usage", ![c].cur = rows[req[c].key]]
      <4>1. req'[c].st = "usage" /\ \A d \in Clients : d # c => req'[d] = req[d]
        BY <2>0, <3>2 DEF Request
      <4> QED BY <2>6, <2>u, <4>1 DEF ReadCurrent, Roomy
    <3> QED BY <2>6, <3>1, <3>2 DEF ReadCurrent
  <2>7. ASSUME NEW c \in Clients, ReadUsage(c) PROVE QuotaInv'
    <3>1. CASE ~Fits(c)
      BY <2>7, <2>f, <3>1 DEF ReadUsage, Finish
    <3>2. CASE Fits(c)
      <4>1. RoomFor(rows, req[c].cur, req[c].size)
        <5>1. Stored = Kept(rows) /\ Used(Stored) = Total(rows, Stored)
          BY DEF Stored, Kept, Used, Total, MapThenSumSet, MapThenFoldSet
        <5> QED BY <3>2, <5>1 DEF Fits, RoomFor
      <4>2. Goto(c, "write") /\ UNCHANGED rows
        BY <2>7, <3>2 DEF ReadUsage
      <4>3. /\ req'[c].cur = req[c].cur /\ req'[c].size = req[c].size
            /\ \A d \in Clients : d # c => req'[d] = req[d]
        BY <2>0, <4>2 DEF Goto, Request
      <4>4. Roomy(c)
        BY <4>1, <4>2, <4>3 DEF Roomy
      <4> QED BY <2>u, <4>2, <4>3, <4>4
    <3> QED BY <3>1, <3>2
  <2>8. ASSUME NEW c \in Clients, Write(c) PROVE QuotaInv'
    <3> DEFINE k   == req[c].key
               new == [version |-> NextVersion(k), size |-> req[c].size,
                       edit |-> req[c].edit]
    <3>1. k \in Keys /\ rows[k] \in Row \cup {None}
      BY <2>0 DEF Request, Tables
    <3>2. new \in Row
      BY <2>0, <2>8, <3>1, RowVersion DEF Write, At, TypeInv, WriterReady, Request, Row, NextVersion
    <3>3. req[c].cur = rows[k] /\ RoomFor(rows, req[c].cur, req[c].size)
      BY <2>8 DEF Write, At, LockInv, DecidedOnCurrent, QuotaInv
    <3>4. rows' = [rows EXCEPT ![k] = new] /\ new.size = req[c].size
      BY <2>8 DEF Write
    <3> HIDE DEF k, new
    <3>5. Within(rows')
      <4>1. rows'[k] = new /\ Alike(rows, rows', k)
        BY <2>0, <3>1, <3>4 DEF Tables, Alike
      <4> QED BY <2>0, <3>1, <3>2, <3>3, <3>4, <4>1, Replaced
    <3> QED BY <2>8, <2>w, <3>5 DEF Write, Finish, At, InTransaction
  <2>9. ASSUME NEW c \in Clients, DeleteRow(c) PROVE QuotaInv'
    <3>1. CASE Matches(c)
      <4>1. req[c].key \in Keys
        BY <2>0 DEF Request
      <4>2. rows' = [rows EXCEPT ![req[c].key] = None] /\ rows[req[c].key] # None
        BY <2>9, <3>1 DEF DeleteRow, Matches
      <4>3. Within(rows')
        <5>1. rows'[req[c].key] = None /\ Alike(rows, rows', req[c].key)
          BY <2>0, <4>1, <4>2 DEF Tables, Alike
        <5> QED BY <2>0, <4>1, <4>2, <5>1, Removed DEF QuotaInv
      <4> QED BY <2>9, <2>w, <3>1, <4>3 DEF DeleteRow, Finish, At, InTransaction
    <3>2. CASE ~Matches(c)
      BY <2>4, <2>9, <3>2 DEF DeleteRow, Statements
    <3> QED BY <3>1, <3>2
  <2>10. ASSUME NEW c \in Clients, Explain(c) PROVE QuotaInv'
    BY <2>10, <2>f DEF Explain, Finish
  <2>11. ASSUME NEW c \in Clients, Abort(c) PROVE QuotaInv'
    BY <2>11, <2>f DEF Abort
  <2>12. CASE UNCHANGED vars
    BY <2>12, <2>q, <2>s DEF vars, QuotaInv
  <2> QED
    BY <2>1, <2>2, <2>3, <2>5, <2>6, <2>7, <2>8, <2>9, <2>10, <2>11, <2>12
       DEF Next, Ask, Begin, Step
<1> QED
  BY <1>1, <1>2, TypeInvariant, LockInvariant, PTL DEF Spec

(* MonitorQuota is "enforced inside the write transaction": whatever clients *)
(* write at the same time, the entries of an account and their bytes stay    *)
(* within it, for every number of keys, sizes and clients.                   *)
THEOREM QuotaIsKept == Spec => []QuotaHolds
<1>1. QuotaInv => QuotaHolds
  <2>1. Stored = Kept(rows) /\ Used(Stored) = Total(rows, Stored)
    BY DEF Stored, Kept, Used, Total, MapThenSumSet, MapThenFoldSet
  <2> QED BY <2>1 DEF QuotaInv, Within, QuotaHolds
<1> QED
  BY <1>1, QuotaInvariant, PTL
=============================================================================
