-------------------------- MODULE FjallStoreProofs --------------------------
(***************************************************************************)
(* The embedded event store keeps its four keyspaces consistent, for every *)
(* number of devices, messages, users and concurrent tasks, and, as long   *)
(* as corrections come before their pointers are pruned, it implements the *)
(* EventStore contract.                                                    *)
(***************************************************************************)
EXTENDS FjallStore, WellFoundedInduction, TLAPS

-----------------------------------------------------------------------------
(* Batches                                                                   *)

(* The least-number principle, in the place of induction. *)
LEMMA LeastNat ==
  ASSUME NEW S, S \subseteq Nat, S # {}
  PROVE  \E n \in S : \A m \in S : n <= m
  <1>1. PICK n \in S : \A m \in S : ~(<<m, n>> \in OpToRel(<, Nat))
    BY NatLessThanWellFounded, WFMin
  <1>2. \A m \in S : ~(m < n)
    BY <1>1 DEF OpToRel
  <1> QED BY <1>2

(* Of some positions of a finite sequence of numbers one is the first that   *)
(* holds their maximum.                                                      *)
LEMMA FirstNewest ==
  ASSUME NEW n \in Nat, NEW f \in [1..n -> Int], NEW A \in SUBSET (1..n), A # {}
  PROVE  \E i \in A : \A j \in A : f[j] < f[i] \/ (f[j] = f[i] /\ i <= j)
  <1> DEFINE Has(m) == \E i \in A : i <= m /\ \A j \in A : j <= m =>
                         f[j] < f[i] \/ (f[j] = f[i] /\ i <= j)
             S == {m \in Nat : m <= n /\ (\E i \in A : i <= m) /\ ~Has(m)}
  <1>a. \A j \in A : j \in Int /\ 1 <= j /\ j <= n /\ f[j] \in Int
    OBVIOUS
  <1> HIDE DEF S
  <1>s. \A m : m \in S <=> m \in Nat /\ m <= n /\ (\E i \in A : i <= m) /\ ~Has(m)
    BY DEF S
  <1> HIDE DEF Has
  <1>1. ASSUME S # {} PROVE FALSE
    <2>1. PICK m \in S : \A x \in S : m <= x
      BY <1>1, <1>s, LeastNat
    <2>2. PICK a \in A : a <= m
      BY <1>s
    <2>3. m \in Nat /\ m >= 1 /\ m - 1 \in Nat /\ m - 1 <= n /\ ~Has(m) /\ m - 1 \notin S
      BY <1>a, <1>s, <2>1, <2>2
    <2>4. CASE \E i \in A : i <= m - 1
      <3>1. Has(m - 1)
        BY <1>s, <2>3, <2>4
      <3>2. PICK i \in A : i <= m - 1 /\ \A j \in A : j <= m - 1 =>
                         f[j] < f[i] \/ (f[j] = f[i] /\ i <= j)
        BY <3>1 DEF Has
      <3>3. CASE m \in A /\ f[m] > f[i]
        <4>1. ASSUME NEW j \in A, j <= m PROVE f[j] < f[m] \/ (f[j] = f[m] /\ m <= j)
          <5>1. CASE j = m
            BY <1>a, <5>1
          <5>2. CASE j # m
            BY <1>a, <2>3, <3>2, <3>3, <4>1, <5>2
          <5> QED BY <5>1, <5>2
        <4> QED BY <2>3, <3>3, <4>1 DEF Has
      <3>4. CASE ~(m \in A /\ f[m] > f[i])
        <4>1. ASSUME NEW j \in A, j <= m PROVE f[j] < f[i] \/ (f[j] = f[i] /\ i <= j)
          <5>1. CASE j = m
            BY <1>a, <2>3, <3>2, <3>4, <5>1
          <5>2. CASE j # m
            BY <1>a, <2>3, <3>2, <4>1, <5>2
          <5> QED BY <5>1, <5>2
        <4>2. i <= m
          BY <1>a, <2>3, <3>2
        <4> QED BY <2>3, <4>1, <4>2 DEF Has
      <3> QED BY <3>3, <3>4
    <2>5. CASE ~\E i \in A : i <= m - 1
      <3>1. \A j \in A : j <= m => j = m
        BY <1>a, <2>3, <2>5
      <3>2. m \in A
        BY <2>2, <3>1
      <3> QED BY <2>3, <3>1, <3>2 DEF Has
    <2> QED BY <2>4, <2>5
  <1>2. Has(n)
    <2>1. \E i \in A : i <= n
      BY <1>a
    <2> QED BY <1>1, <1>s, <2>1
  <1> QED BY <1>a, <1>2 DEF Has

LEMMA BatchDomain ==
  ASSUME NEW b \in Batches
  PROVE  \E n \in Nat : n >= 1 /\ b \in [1..n -> Item]
  BY FjallAssumption DEF Batches

LEMMA ItemFields ==
  ASSUME NEW x \in Item
  PROVE  /\ x.msg \in Msgs /\ x.ts \in Ts /\ x.ts \in Int
         /\ x.val \in Vals /\ x.sess \in Sessions \cup {None}
  <1>1. Ts \subseteq Int
    BY FjallAssumption
  <1> QED BY <1>1 DEF Item

(* A part of a batch has a first newest item. *)
LEMMA NewestOfPart ==
  ASSUME NEW b \in Batches, NEW A \in SUBSET DOMAIN b, A # {}
  PROVE  \E i \in A : \A j \in A : b[j].ts < b[i].ts \/ (b[j].ts = b[i].ts /\ i <= j)
  <1>1. PICK n \in Nat : n >= 1 /\ b \in [1..n -> Item]
    BY BatchDomain
  <1> DEFINE f == [i \in 1..n |-> b[i].ts]
  <1>2. f \in [1..n -> Int]
    <2>1. \A i \in 1..n : b[i] \in Item
      BY <1>1
    <2>2. \A i \in 1..n : b[i].ts \in Int
      BY <2>1, ItemFields
    <2> QED BY <2>2
  <1>3. A \in SUBSET (1..n)
    BY <1>1
  <1>4. \A i \in A : f[i] = b[i].ts
    BY <1>3
  <1> HIDE DEF f
  <1>5. PICK i \in A : \A j \in A : f[j] < f[i] \/ (f[j] = f[i] /\ i <= j)
    BY <1>2, <1>3, FirstNewest
  <1> QED BY <1>4, <1>5

(* What winner and max_ts of upsert_events compute for one message. *)
LEMMA WinnerOfBatch ==
  ASSUME NEW b \in Batches, NEW m \in Msgs, \E i \in DOMAIN b : b[i].msg = m
  PROVE  \E i \in DOMAIN b :
           /\ b[i] \in Item /\ b[i].msg = m
           /\ \A j \in DOMAIN b : b[j].msg = m => b[j].ts <= b[i].ts
           /\ Winner(b, m) = b[i] /\ Sent(b, m) = b[i].ts
  <1>1. PICK n \in Nat : n >= 1 /\ b \in [1..n -> Item]
    BY BatchDomain
  <1>2. \A i \in DOMAIN b : b[i] \in Item /\ b[i].ts \in Int /\ i \in Int
    <2>1. \A i \in DOMAIN b : b[i] \in Item /\ i \in Int
      BY <1>1
    <2> QED BY <2>1, ItemFields
  <1> DEFINE A == {i \in DOMAIN b : b[i].msg = m}
             first == {i \in DOMAIN b :
                         /\ b[i].msg = m
                         /\ \A j \in DOMAIN b : b[j].msg = m =>
                              b[j].ts < b[i].ts \/ (b[j].ts = b[i].ts /\ i <= j)}
             ts == {b[i].ts : i \in A}
  <1>3. PICK a \in A : \A j \in A : b[j].ts < b[a].ts \/ (b[j].ts = b[a].ts /\ a <= j)
    <2>1. A \in SUBSET DOMAIN b /\ A # {}
      OBVIOUS
    <2> HIDE DEF A
    <2> QED BY <2>1, NewestOfPart
  <1>4. a \in first
    BY <1>3
  <1>5. PICK i \in first : Winner(b, m) = b[i]
    <2>1. Winner(b, m) = b[CHOOSE i \in first : TRUE]
      BY <1>4 DEF Winner
    <2> QED BY <1>4, <2>1
  <1>6. \A j \in DOMAIN b : b[j].msg = m => b[j].ts <= b[i].ts
    BY <1>2, <1>5
  <1>7. b[i].ts \in ts /\ \A x \in ts : x <= b[i].ts
    BY <1>5, <1>6
  <1>8. Sent(b, m) = CHOOSE t \in ts : \A x \in ts : x <= t
    BY <1>7 DEF Sent
  <1>9. \A t \in ts : (\A x \in ts : x <= t) => t = b[i].ts
    <2>1. \A t \in ts : t \in Int
      BY <1>2
    <2> HIDE DEF ts
    <2> QED BY <1>7, <2>1
  <1>10. Sent(b, m) = b[i].ts
    <2> HIDE DEF ts
    <2> QED BY <1>7, <1>8, <1>9
  <1> QED BY <1>2, <1>5, <1>6, <1>10

LEMMA NoWinner ==
  ASSUME NEW b \in Batches, NEW m \in Msgs, ~\E i \in DOMAIN b : b[i].msg = m
  PROVE  Winner(b, m) = None /\ Sent(b, m) = None
  BY DEF Winner, Sent

(* The newest timestamp of a batch, from which the cutoff is computed. *)
LEMMA TopOfBatch ==
  ASSUME NEW b \in Batches
  PROVE  Top(b) \in Int
  <1>1. PICK n \in Nat : n >= 1 /\ b \in [1..n -> Item]
    BY BatchDomain
  <1>2. DOMAIN b # {} /\ \A i \in DOMAIN b : b[i].ts \in Ts /\ b[i].ts \in Int
    <2>1. DOMAIN b # {} /\ \A i \in DOMAIN b : b[i] \in Item
      BY <1>1
    <2> QED BY <2>1, ItemFields
  <1>3. PICK i \in DOMAIN b : \A j \in DOMAIN b : b[j].ts < b[i].ts \/ (b[j].ts = b[i].ts /\ i <= j)
    BY <1>2, NewestOfPart
  <1>4. \A j \in DOMAIN b : b[j].ts <= b[i].ts
    BY <1>2, <1>3
  <1>5. \E t \in Ts : (\E j \in DOMAIN b : b[j].ts = t) /\ \A j \in DOMAIN b : b[j].ts <= t
    BY <1>2, <1>4
  <1>6. Top(b) \in Ts
    BY <1>5 DEF Top
  <1> QED BY <1>6, FjallAssumption
-----------------------------------------------------------------------------
(* Types                                                                     *)

SentTs(d, p, b) ==
  [k \in Key |-> IF k.dev = d /\ k.prov = p THEN Sent(b, k.msg) ELSE None]

LEMMA KeyFields ==
  ASSUME NEW k \in Key
  PROVE  k.dev \in Devices /\ k.prov \in Providers /\ k.msg \in Msgs
  BY DEF Key

LEMMA WonFields ==
  ASSUME NEW x \in Won
  PROVE  /\ x.ts \in Ts /\ x.ts \in Int /\ x.user \in Users /\ x.val \in Vals
         /\ x.sess \in Sessions \cup {None} /\ [user |-> x.user, val |-> x.val] \in Row
         /\ x.ts # None
  <1>1. Ts \subseteq Int /\ None \notin Ts
    BY FjallAssumption
  <1> QED BY <1>1 DEF Won, Row

(* What the batch of an upsert makes of one key: nothing, or the newest item *)
(* of the key's message, whose timestamp is the newest the batch holds.      *)
LEMMA WonOfKey ==
  ASSUME NEW d \in Devices, NEW p \in Providers, NEW u \in Users, NEW b \in Batches,
         NEW k \in Key
  PROVE  LET won == Winners(d, p, u, b)[k]
             sent == SentTs(d, p, b)[k]
             hit == k.dev = d /\ k.prov = p /\ \E i \in DOMAIN b : b[i].msg = k.msg
         IN  /\ ~hit => won = None /\ sent = None
             /\ hit => /\ won \in Won /\ won # None /\ sent = won.ts
                       /\ \E i \in DOMAIN b :
                            /\ b[i].msg = k.msg
                            /\ \A j \in DOMAIN b : b[j].msg = k.msg => b[j].ts <= b[i].ts
                            /\ won = [ts |-> b[i].ts, user |-> u, val |-> b[i].val,
                                      sess |-> b[i].sess]
  <1> DEFINE hit == k.dev = d /\ k.prov = p /\ \E i \in DOMAIN b : b[i].msg = k.msg
  <1>0. None \notin Item /\ None \notin Won
    BY FjallAssumption
  <1>m. k.msg \in Msgs
    BY KeyFields
  <1>1. CASE ~hit
    <2>1. CASE k.dev = d /\ k.prov = p
      <3>1. Winner(b, k.msg) = None /\ Sent(b, k.msg) = None
        BY <1>1, <1>m, <2>1, NoWinner
      <3> QED BY <1>1, <3>1 DEF Winners, SentTs
    <2>2. CASE ~(k.dev = d /\ k.prov = p)
      BY <1>1, <2>2 DEF Winners, SentTs
    <2> QED BY <2>1, <2>2
  <1>2. CASE hit
    <2>1. PICK i \in DOMAIN b :
            /\ b[i] \in Item /\ b[i].msg = k.msg
            /\ \A j \in DOMAIN b : b[j].msg = k.msg => b[j].ts <= b[i].ts
            /\ Winner(b, k.msg) = b[i] /\ Sent(b, k.msg) = b[i].ts
      BY <1>m, <1>2, WinnerOfBatch
    <2> DEFINE won == [ts |-> b[i].ts, user |-> u, val |-> b[i].val, sess |-> b[i].sess]
    <2>2. Winners(d, p, u, b)[k] = won /\ SentTs(d, p, b)[k] = b[i].ts
      BY <1>0, <1>2, <2>1 DEF Winners, SentTs
    <2>3. won \in Won /\ won.ts = b[i].ts
      BY <2>1, ItemFields DEF Won
    <2> HIDE DEF won
    <2>4. Winners(d, p, u, b)[k] \in Won /\ Winners(d, p, u, b)[k] # None
             /\ SentTs(d, p, b)[k] = Winners(d, p, u, b)[k].ts
      BY <1>0, <2>2, <2>3
    <2> USE DEF won
    <2> QED BY <1>2, <2>1, <2>2, <2>4
  <1> QED BY <1>1, <1>2

LEMMA UpsertTypes ==
  ASSUME NEW d \in Devices, NEW p \in Providers, NEW u \in Users, NEW b \in Batches
  PROVE  /\ Winners(d, p, u, b) \in [Key -> Won \cup {None}]
         /\ SentTs(d, p, b) \in Pointers
         /\ \A k \in Key : IF Winners(d, p, u, b)[k] = None
                           THEN SentTs(d, p, b)[k] = None
                           ELSE /\ Winners(d, p, u, b)[k] \in Won
                                /\ SentTs(d, p, b)[k] = Winners(d, p, u, b)[k].ts
  <1> DEFINE W == Winners(d, p, u, b)  S == SentTs(d, p, b)
  <1>1. \A k \in Key : \/ W[k] = None /\ S[k] = None
                       \/ W[k] \in Won /\ W[k] # None /\ S[k] = W[k].ts
    BY WonOfKey
  <1>2. W = [k \in Key |-> W[k]] /\ S = [k \in Key |-> S[k]]
    BY DEF Winners, SentTs
  <1> HIDE DEF W, S
  <1>3. \A k \in Key : W[k] \in Won \cup {None} /\ S[k] \in Ts \cup {None}
    BY <1>1, WonFields
  <1>4. W \in [Key -> Won \cup {None}]
    BY <1>2, <1>3
  <1>5. S \in Pointers
    BY <1>2, <1>3 DEF Pointers
  <1> QED BY <1>1, <1>4, <1>5 DEF W, S
LEMMA IdleType ==
  Idle \in Job /\ NoRows \in Table /\ NoPtr \in Pointers
  <1>1. NoWinners \in [Key -> Won \cup {None}] /\ NoRows \in Table /\ NoPtr \in Pointers
    BY DEF NoWinners, NoRows, NoPtr, Table, Pointers
  <1>2. (CHOOSE d \in Devices : TRUE) \in Devices
    BY FjallAssumption
  <1> QED BY <1>1, <1>2 DEF Idle, Job

(* The types of a job's fields, one by one. *)
LEMMA JobFields ==
  ASSUME TypeOK, NEW w \in Workers
  PROVE  /\ job[w] \in Job
         /\ job[w].dev \in Devices /\ job[w].cutoff \in Int
         /\ job[w].idx \in Pointers /\ job[w].ev \in Table /\ job[w].sent \in Pointers
         /\ job[w].won \in [Key -> Won \cup {None}]
         /\ \A k \in Key : job[w].won[k] # None => job[w].won[k] \in Won
  <1>1. job[w] \in Job
    BY DEF TypeOK
  <1> QED BY <1>1 DEF Job

LEMMA UpsertCommitTypes ==
  ASSUME TypeOK, NEW w \in Workers, UpsertCommit(w)
  PROVE  TypeOK'
  <1> DEFINE j == job[w]
  <1>1. \A k \in Key : j.won[k] # None => j.won[k] \in Won
    BY JobFields
  <1>2. \A k \in Key : Lands(j, k) => NewRow(j, k) \in Row
    BY <1>1, WonFields DEF Lands, NewRow
  <1>3. events' \in Table
    <2>1. \A k \in Key, t \in Ts : RowAfter(j, k, t) \in Row \cup {None}
      BY <1>2 DEF RowAfter, Into, TypeOK, Table
    <2> QED BY <2>1 DEF UpsertCommit, Table
  <1>4. idx_user' \in [Users -> Table]
    <2>1. \A u \in Users, k \in Key, t \in Ts : idx_user[u][k][t] \in Row \cup {None}
      BY DEF TypeOK, Table
    <2>2. \A u \in Users, k \in Key, t \in Ts : CopyAfter(j, u, k, t) \in Row \cup {None}
      BY <1>2, <2>1 DEF CopyAfter, Into
    <2> QED BY <2>2 DEF UpsertCommit, Table
  <1>5. sessions' \in [Key -> [Ts -> Sessions \cup {None}]]
    <2>1. \A k \in Key : Lands(j, k) => j.won[k].sess \in Sessions \cup {None}
      BY <1>1, WonFields DEF Lands
    <2>2. \A k \in Key, t \in Ts : SessionAfter(j, k, t) \in Sessions \cup {None}
      BY <2>1 DEF SessionAfter, Into, TypeOK
    <2> QED BY <2>2 DEF UpsertCommit
  <1>6. idx_msg' \in Pointers
    <2>1. \A k \in Key : Lands(j, k) => j.won[k].ts \in Ts
      BY <1>1, WonFields DEF Lands
    <2> QED BY <2>1 DEF UpsertCommit, TypeOK, Pointers
  <1>7. newest' \in Pointers
    <2>1. \A k \in Key : newest[k] \in Ts \cup {None} /\ j.sent[k] \in Ts \cup {None}
      BY JobFields DEF TypeOK, Pointers
    <2>2. \A k \in Key : Later(newest[k], j.sent[k]) \in Ts \cup {None}
      BY <2>1 DEF Later
    <2> QED BY <2>2 DEF UpsertCommit, Pointers
  <1>8. job' \in [Workers -> Job]
    <2>1. [Idle EXCEPT !.op = "due", !.dev = j.dev, !.cutoff = j.cutoff] \in Job
      BY IdleType, JobFields DEF Job
    <2> QED BY <2>1, IdleType DEF UpsertCommit, TypeOK
  <1> QED BY <1>3, <1>4, <1>5, <1>6, <1>7, <1>8 DEF UpsertCommit, TypeOK

LEMMA DeleteCommitTypes ==
  ASSUME TypeOK, NEW w \in Workers, DeleteCommit(w)
  PROVE  TypeOK'
  <1> DEFINE j == job[w]
  <1>1. \A k \in Key, t \in Ts : /\ events[k][t] \in Row \cup {None}
                                 /\ sessions[k][t] \in Sessions \cup {None}
    BY DEF TypeOK, Table
  <1>2. \A u \in Users, k \in Key, t \in Ts : idx_user[u][k][t] \in Row \cup {None}
    BY DEF TypeOK, Table
  <1>3. events' \in Table
    BY <1>1 DEF DeleteCommit, Table
  <1>4. sessions' \in [Key -> [Ts -> Sessions \cup {None}]]
    BY <1>1 DEF DeleteCommit
  <1>5. idx_user' \in [Users -> Table]
    BY <1>2 DEF DeleteCommit, Table
  <1>6. idx_msg' \in Pointers /\ newest' \in Pointers /\ pruned' \subseteq Key
    BY DEF DeleteCommit, TypeOK, Pointers
  <1>7. job' \in [Workers -> Job]
    BY IdleType DEF DeleteCommit, TypeOK
  <1> QED BY <1>3, <1>4, <1>5, <1>6, <1>7 DEF DeleteCommit, TypeOK

LEMMA BackfillTypes ==
  ASSUME TypeOK, BackfillChunk
  PROVE  TypeOK'
  <1>1. \A u \in Users, k \in Key, t \in Ts : /\ idx_user[u][k][t] \in Row \cup {None}
                                              /\ events[k][t] \in Row \cup {None}
    BY DEF TypeOK, Table
  <1>2. idx_user' \in [Users -> Table]
    BY <1>1 DEF BackfillChunk, Table
  <1>3. scanned' \subseteq Key \X Ts
    BY DEF BackfillChunk, Rows, TypeOK
  <1> QED BY <1>2, <1>3 DEF BackfillChunk, TypeOK

LEMMA ReadTypes ==
  ASSUME TypeOK, NEW w \in Workers,
         \/ \E d \in Devices, p \in Providers, u \in Users, b \in Batches :
              UpsertRead(w, d, p, u, b)
         \/ \E d \in Devices : DeleteRead(w, d)
         \/ CleanupRead(w)
  PROVE  TypeOK'
  <1>0. idx_msg \in Pointers /\ events \in Table /\ job \in [Workers -> Job]
    BY DEF TypeOK
  <1>1. lock' = w /\ UNCHANGED <<store, version, marker, phase, scanned, pruned, newest>>
    BY DEF UpsertRead, DeleteRead, CleanupRead, Acquire
  <1>2. ASSUME NEW d \in Devices, NEW p \in Providers, NEW u \in Users, NEW b \in Batches,
               UpsertRead(w, d, p, u, b)
        PROVE  job' \in [Workers -> Job]
    <2> DEFINE new == [op |-> "upsert", dev |-> d, won |-> Winners(d, p, u, b),
                       cutoff |-> Top(b) - Retention, idx |-> idx_msg, ev |-> events,
                       sent |-> SentTs(d, p, b)]
    <2>1. Top(b) - Retention \in Int
      BY TopOfBatch, FjallAssumption
    <2>2. new \in Job
      BY <1>0, <2>1, UpsertTypes DEF Job
    <2>3. job' = [job EXCEPT ![w] = new]
      BY <1>2 DEF UpsertRead, SentTs
    <2> HIDE DEF new
    <2> QED BY <1>0, <2>2, <2>3
  <1>3. ASSUME NEW d \in Devices, DeleteRead(w, d)
        PROVE  job' \in [Workers -> Job]
    <2>1. [Idle EXCEPT !.op = "delete", !.dev = d, !.idx = idx_msg, !.ev = events] \in Job
      BY <1>0, IdleType DEF Job
    <2> QED BY <1>0, <1>3, <2>1 DEF DeleteRead
  <1>4. ASSUME CleanupRead(w)
        PROVE  job' \in [Workers -> Job]
    <2> DEFINE new == [job[w] EXCEPT !.op = "cleanup", !.idx = idx_msg, !.ev = events]
    <2>1. job' = [job EXCEPT ![w] = new]
      BY <1>0, <1>4 DEF CleanupRead
    <2>2. new \in Job
      BY <1>0 DEF Job
    <2> HIDE DEF new
    <2> QED BY <1>0, <2>1, <2>2
  <1>5. job' \in [Workers -> Job]
    BY <1>2, <1>3, <1>4
  <1> QED BY <1>1, <1>5 DEF TypeOK, store
LEMMA FjallTypeInit == Init => TypeOK
  <1> SUFFICES ASSUME Init PROVE TypeOK
    OBVIOUS
  <1>1. PICK old \in [Key -> [ts : Ts, user : Users, val : Vals] \cup {None}] :
          /\ idx_msg = [k \in Key |-> IF old[k] = None THEN None ELSE old[k].ts]
          /\ events = [k \in Key |-> [t \in Ts |->
                         IF old[k] # None /\ old[k].ts = t
                         THEN [user |-> old[k].user, val |-> old[k].val]
                         ELSE None]]
          /\ version \in IF old = NoPtr THEN Versions ELSE Versions \ {"unset"}
    BY DEF Init
  <1>2. \A k \in Key : old[k] # None =>
          old[k].ts \in Ts /\ [user |-> old[k].user, val |-> old[k].val] \in Row
    BY DEF Row
  <1>3. idx_msg \in Pointers /\ newest \in Pointers
    BY <1>1, <1>2 DEF Init, Pointers
  <1>4. events \in Table
    BY <1>1, <1>2 DEF Table
  <1>5. version \in Versions
    BY <1>1
  <1>6. sessions \in [Key -> [Ts -> Sessions \cup {None}]]
    BY DEF Init, NoRows
  <1>7. idx_user \in [Users -> Table] /\ job \in [Workers -> Job]
    BY IdleType DEF Init
  <1> QED BY <1>3, <1>4, <1>5, <1>6, <1>7 DEF Init, TypeOK

LEMMA FjallTypeNext ==
  ASSUME TypeOK, [Next]_vars
  PROVE  TypeOK'
  <1>1. CASE OpenCleared
    <2>1. NoRows \in [Key -> [Ts -> Sessions \cup {None}]]
      BY DEF NoRows
    <2> QED BY <1>1, <2>1, IdleType DEF OpenCleared, TypeOK, Versions
  <1>2. CASE Open
    BY <1>2 DEF Open, TypeOK, Versions, store
  <1>3. CASE BackfillChunk
    BY <1>3, BackfillTypes
  <1>4. CASE BackfillDone
    BY <1>4 DEF BackfillDone, TypeOK, store
  <1>5. CASE Crash
    BY <1>5, IdleType DEF Crash, TypeOK, store
  <1>6. ASSUME NEW w \in Workers,
               \/ \E d \in Devices, p \in Providers, u \in Users, b \in Batches :
                    UpsertRead(w, d, p, u, b)
               \/ \E d \in Devices : DeleteRead(w, d)
               \/ CleanupRead(w)
        PROVE  TypeOK'
    BY <1>6, ReadTypes
  <1>7. ASSUME NEW w \in Workers, UpsertCommit(w) PROVE TypeOK'
    BY <1>7, UpsertCommitTypes
  <1>8. ASSUME NEW w \in Workers, DeleteCommit(w) PROVE TypeOK'
    BY <1>8, DeleteCommitTypes
  <1>9. ASSUME NEW w \in Workers, CleanupCommit(w) \/ CleanupFails(w) \/ CommitFails(w)
        PROVE  TypeOK'
    <2>1. idx_msg' \in Pointers /\ pruned' \subseteq Key
      BY <1>9 DEF CleanupCommit, CleanupFails, CommitFails, TypeOK, Pointers, store
    <2>2. job' \in [Workers -> Job] /\ lock' \in Workers \cup {None}
      BY <1>9, IdleType DEF CleanupCommit, CleanupFails, CommitFails, TypeOK
    <2> QED BY <1>9, <2>1, <2>2 DEF CleanupCommit, CleanupFails, CommitFails, TypeOK, store
  <1>10. CASE UNCHANGED vars
    BY <1>10 DEF vars, TypeOK
  <1> QED BY <1>1, <1>2, <1>3, <1>4, <1>5, <1>6, <1>7, <1>8, <1>9, <1>10
          DEF Next, Lifecycle, Commit

(* The keyspaces, the jobs and the history have their types in every         *)
(* reachable state.                                                          *)
THEOREM FjallTypes == Spec => []TypeOK
  BY FjallTypeInit, FjallTypeNext, PTL DEF Spec

-----------------------------------------------------------------------------
(* mutation_lock                                                             *)

(* An upsert between its read and its commit carries what its batch asks.    *)
JobOfBatch ==
  \A w \in Workers : job[w].op = "upsert" =>
    \E p \in Providers, u \in Users, b \in Batches :
      /\ job[w].won = Winners(job[w].dev, p, u, b)
      /\ job[w].sent = SentTs(job[w].dev, p, b)

(* The lock and the jobs live in memory: before open returns there are none. *)
Quiet == phase # "open" => lock = None /\ \A w \in Workers : job[w].op = "idle"

LockInv == ReadsStillCurrent /\ Quiet /\ JobOfBatch

LEMMA IdleOp == Idle.op = "idle"
  BY DEF Idle

LEMMA LockInit == Init => LockInv
  BY IdleOp DEF Init, LockInv, ReadsStillCurrent, Quiet, JobOfBatch

LEMMA LockOfAcquire ==
  ASSUME TypeOK, LockInv, NEW w \in Workers, Acquire(w), UNCHANGED <<store, phase>>,
         NEW new \in Job, job' = [job EXCEPT ![w] = new],
         new.op # "idle" => new.idx = idx_msg /\ new.ev = events,
         new.op = "upsert" => \E p \in Providers, u \in Users, b \in Batches :
                                /\ new.won = Winners(new.dev, p, u, b)
                                /\ new.sent = SentTs(new.dev, p, b)
  PROVE  LockInv'
  <1>1. \A v \in Workers : job'[v] = IF v = w THEN new ELSE job[v]
    BY DEF TypeOK
  <1>2. None \notin Workers
    BY FjallAssumption
  <1>3. ReadsStillCurrent'
    BY <1>1, <1>2 DEF LockInv, ReadsStillCurrent, Acquire, store
  <1>4. Quiet'
    BY DEF Quiet, Acquire
  <1>5. JobOfBatch'
    BY <1>1 DEF LockInv, JobOfBatch
  <1> QED BY <1>3, <1>4, <1>5 DEF LockInv

(* A step that ends worker w's turn, whatever it writes to the store. *)
LEMMA LockOfRelease ==
  ASSUME TypeOK, LockInv, NEW w \in Workers,
         job[w].op \in {"upsert", "cleanup", "delete"}, lock' = None, phase' = phase,
         NEW new \in Job, job' = [job EXCEPT ![w] = new], new.op \in {"idle", "due"}
  PROVE  LockInv'
  <1>1. \A v \in Workers : job'[v] = IF v = w THEN new ELSE job[v]
    BY DEF TypeOK
  <1>2. \A v \in Workers : v # w => job[v].op \notin {"upsert", "cleanup", "delete"}
    BY DEF LockInv, ReadsStillCurrent
  <1>3. ReadsStillCurrent'
    BY <1>1, <1>2 DEF ReadsStillCurrent
  <1>4. Quiet'
    BY DEF LockInv, Quiet
  <1>5. JobOfBatch'
    BY <1>1, <1>2 DEF JobOfBatch
  <1> QED BY <1>3, <1>4, <1>5 DEF LockInv

LEMMA LockNext ==
  ASSUME TypeOK, LockInv, [Next]_vars
  PROVE  LockInv'
  <1>t. TypeOK'
    BY FjallTypeNext
  <1>0. job \in [Workers -> Job] /\ idx_msg \in Pointers /\ events \in Table
    BY DEF TypeOK
  <1>j. \A w \in Workers : job'[w] \in Job
    BY <1>t DEF TypeOK
  <1>1. CASE OpenCleared
    BY <1>1 DEF OpenCleared, LockInv, Quiet, ReadsStillCurrent, JobOfBatch
  <1>2. CASE Open \/ BackfillChunk \/ BackfillDone
    BY <1>2 DEF Open, BackfillChunk, BackfillDone, LockInv, Quiet, ReadsStillCurrent,
                JobOfBatch, store
  <1>3. CASE Crash
    BY <1>3, IdleOp DEF Crash, LockInv, Quiet, ReadsStillCurrent, JobOfBatch
  <1>4. ASSUME NEW w \in Workers, NEW d \in Devices, NEW p \in Providers, NEW u \in Users,
               NEW b \in Batches, UpsertRead(w, d, p, u, b)
        PROVE  LockInv'
    <2> DEFINE new == [op |-> "upsert", dev |-> d, won |-> Winners(d, p, u, b),
                       cutoff |-> Top(b) - Retention, idx |-> idx_msg, ev |-> events,
                       sent |-> SentTs(d, p, b)]
    <2>1. job' = [job EXCEPT ![w] = new] /\ Acquire(w) /\ UNCHANGED <<store, phase>>
      BY <1>4 DEF UpsertRead, SentTs
    <2>2. new \in Job
      BY <1>0, <1>j, <2>1
    <2>3. /\ new.idx = idx_msg /\ new.ev = events
          /\ new.won = Winners(new.dev, p, u, b) /\ new.sent = SentTs(new.dev, p, b)
      OBVIOUS
    <2> HIDE DEF new
    <2> QED BY <2>1, <2>2, <2>3, LockOfAcquire
  <1>5. ASSUME NEW w \in Workers, NEW d \in Devices, DeleteRead(w, d)
        PROVE  LockInv'
    <2> DEFINE new == [Idle EXCEPT !.op = "delete", !.dev = d, !.idx = idx_msg, !.ev = events]
    <2>1. job' = [job EXCEPT ![w] = new] /\ Acquire(w) /\ UNCHANGED <<store, phase>>
      BY <1>5 DEF DeleteRead
    <2>2. new \in Job
      BY <1>0, <1>j, <2>1
    <2>3. new.idx = idx_msg /\ new.ev = events /\ new.op = "delete"
      BY DEF Idle
    <2> HIDE DEF new
    <2> QED BY <2>1, <2>2, <2>3, LockOfAcquire
  <1>6. ASSUME NEW w \in Workers, CleanupRead(w)
        PROVE  LockInv'
    <2> DEFINE new == [job[w] EXCEPT !.op = "cleanup", !.idx = idx_msg, !.ev = events]
    <2>1. job' = [job EXCEPT ![w] = new] /\ Acquire(w) /\ UNCHANGED <<store, phase>>
      BY <1>0, <1>6 DEF CleanupRead
    <2>2. new \in Job
      BY <1>0, <1>j, <2>1
    <2>3. new.idx = idx_msg /\ new.ev = events /\ new.op = "cleanup"
      BY <1>0 DEF Job
    <2> HIDE DEF new
    <2> QED BY <2>1, <2>2, <2>3, LockOfAcquire
  <1>7. ASSUME NEW w \in Workers, UpsertCommit(w)
        PROVE  LockInv'
    <2>1. PICK new \in {Idle, [Idle EXCEPT !.op = "due", !.dev = job[w].dev, !.cutoff = job[w].cutoff]} :
             job' = [job EXCEPT ![w] = new]
      BY <1>7 DEF UpsertCommit
    <2>2. new \in Job
      BY <1>0, <1>j, <2>1
    <2>3. new.op \in {"idle", "due"}
      <3>1. [Idle EXCEPT !.op = "due", !.dev = job[w].dev, !.cutoff = job[w].cutoff].op = "due"
        BY DEF Idle
      <3> QED BY <3>1, IdleOp
    <2>4. job[w].op = "upsert" /\ lock' = None /\ phase' = phase
      BY <1>7 DEF UpsertCommit
    <2> QED BY <2>1, <2>2, <2>3, <2>4, LockOfRelease
  <1>8. ASSUME NEW w \in Workers, CleanupCommit(w) \/ DeleteCommit(w) \/ CommitFails(w)
        PROVE  LockInv'
    <2>1. /\ job' = [job EXCEPT ![w] = Idle] /\ lock' = None /\ phase' = phase
          /\ job[w].op \in {"upsert", "cleanup", "delete"}
      BY <1>8 DEF CleanupCommit, DeleteCommit, CommitFails
    <2> QED BY <2>1, IdleType, IdleOp, LockOfRelease
  <1>9. ASSUME NEW w \in Workers, CleanupFails(w)
        PROVE  LockInv'
    <2>1. \A v \in Workers : job'[v] = IF v = w THEN Idle ELSE job[v]
      BY <1>0, <1>9 DEF CleanupFails
    <2>2. phase = "open" /\ UNCHANGED <<idx_msg, events, phase, lock>>
      BY <1>9 DEF CleanupFails, store
    <2>3. ReadsStillCurrent'
      BY <2>1, <2>2, IdleOp DEF LockInv, ReadsStillCurrent
    <2>4. JobOfBatch'
      BY <2>1, IdleOp DEF LockInv, JobOfBatch
    <2> QED BY <2>2, <2>3, <2>4 DEF LockInv, Quiet
  <1>10. CASE UNCHANGED vars
    BY <1>10 DEF vars, LockInv, Quiet, ReadsStillCurrent, JobOfBatch
  <1> QED BY <1>1, <1>2, <1>3, <1>4, <1>5, <1>6, <1>7, <1>8, <1>9, <1>10
          DEF Next, Lifecycle, Commit

(* What a mutation read under mutation_lock is still what the store holds    *)
(* when it commits: upsert_events, cleanup_old_dedup and                     *)
(* delete_device_events never act on a stale read.                           *)
THEOREM MutationsExclusive == Spec => []ReadsStillCurrent
  <1>1. Init => TypeOK /\ LockInv
    BY FjallTypeInit, LockInit
  <1>2. (TypeOK /\ LockInv) /\ [Next]_vars => (TypeOK /\ LockInv)'
    BY FjallTypeNext, LockNext
  <1>3. TypeOK /\ LockInv => ReadsStillCurrent
    BY DEF LockInv
  <1> QED BY <1>1, <1>2, <1>3, PTL DEF Spec
-----------------------------------------------------------------------------
(* The indexes                                                               *)

Copied(k, t) ==
  events[k][t] # None => idx_user[events[k][t].user][k][t] = events[k][t]

(* The completion marker vouches for every row, and a running backfill for   *)
(* the rows it scanned; nothing mutates the store before open returns.       *)
Backfilled ==
  /\ phase = "open" => marker
  /\ marker => \A k \in Key, t \in Ts : Copied(k, t)
  /\ phase = "backfill" => \A r \in scanned : Copied(r[1], r[2])

(* newest as a bound on the rows of a key that one of them attains. *)
NewestBound ==
  \A k \in Key :
    IF newest[k] = None
    THEN \A t \in Ts : events[k][t] = None
    ELSE events[k][newest[k]] # None /\ \A t \in Ts : events[k][t] # None => t <= newest[k]

StoreInv == Backfilled /\ PointerNamesRow /\ SessionsFollowRows /\ NewestBound

(* The steps that change the keyspaces or the phase; the others only take or *)
(* leave the lock.                                                           *)
LEMMA FjallSteps ==
  ASSUME [Next]_vars
  PROVE  \/ OpenCleared \/ Open \/ BackfillChunk \/ BackfillDone \/ Crash
         \/ \E w \in Workers : UpsertCommit(w) \/ CleanupCommit(w) \/ DeleteCommit(w)
         \/ UNCHANGED <<store, version, marker, phase, scanned, pruned, newest>>
  <1> DEFINE Same == UNCHANGED <<store, version, marker, phase, scanned, pruned, newest>>
  <1>1. ASSUME NEW w \in Workers, NEW d \in Devices, NEW p \in Providers, NEW u \in Users,
               NEW b \in Batches, UpsertRead(w, d, p, u, b)
        PROVE  Same
    BY <1>1 DEF UpsertRead
  <1>2. ASSUME NEW w \in Workers, NEW d \in Devices, DeleteRead(w, d)
        PROVE  Same
    BY <1>2 DEF DeleteRead
  <1>3. ASSUME NEW w \in Workers, CleanupRead(w) \/ CleanupFails(w) \/ CommitFails(w)
        PROVE  Same
    BY <1>3 DEF CleanupRead, CleanupFails, CommitFails
  <1>4. UNCHANGED vars => Same
    BY DEF vars, store
  <1> HIDE DEF Same
  <1> QED BY <1>1, <1>2, <1>3, <1>4 DEF Next, Lifecycle, Commit, Same

LEMMA StoreInit == Init => StoreInv
  <1> SUFFICES ASSUME Init PROVE StoreInv
    OBVIOUS
  <1>1. PICK old \in [Key -> [ts : Ts, user : Users, val : Vals] \cup {None}] :
          /\ idx_msg = [k \in Key |-> IF old[k] = None THEN None ELSE old[k].ts]
          /\ events = [k \in Key |-> [t \in Ts |->
                         IF old[k] # None /\ old[k].ts = t
                         THEN [user |-> old[k].user, val |-> old[k].val]
                         ELSE None]]
    BY DEF Init
  <1>2. \A k \in Key : old[k] # None =>
          /\ old[k].ts \in Ts /\ old[k].ts \in Int /\ old[k].ts # None
          /\ [user |-> old[k].user, val |-> old[k].val] # None
    <2>1. Ts \subseteq Int /\ None \notin Ts /\ None \notin Row
      BY FjallAssumption
    <2>2. \A k \in Key : old[k] # None =>
            old[k].ts \in Ts /\ [user |-> old[k].user, val |-> old[k].val] \in Row
      BY DEF Row
    <2> QED BY <2>1, <2>2
  <1>3. \A k \in Key, t \in Ts : events[k][t] # None <=> old[k] # None /\ old[k].ts = t
    BY <1>1, <1>2
  <1>4. \A k \in Key : idx_msg[k] = IF old[k] = None THEN None ELSE old[k].ts
    BY <1>1
  <1>5. PointerNamesRow /\ NewestBound
    BY <1>2, <1>3, <1>4 DEF PointerNamesRow, NewestBound, Init
  <1>6. SessionsFollowRows /\ Backfilled
    BY DEF Init, SessionsFollowRows, NoRows, Backfilled
  <1> QED BY <1>5, <1>6 DEF StoreInv

(* upsert_events commits: one key and timestamp at a time. *)
LEMMA UpsertPointwise ==
  ASSUME TypeOK, LockInv, NEW w \in Workers, UpsertCommit(w), NEW k \in Key
  PROVE  LET j == job[w]
             at == j.won[k].ts
         IN  /\ phase = "open"
             /\ ~Lands(j, k) => /\ events'[k] = events[k] /\ idx_msg'[k] = idx_msg[k]
                                /\ sessions'[k] = sessions[k]
             /\ Lands(j, k) =>
                  /\ j.won[k] \in Won /\ idx_msg'[k] = at
                  /\ idx_msg[k] # None => at >= idx_msg[k]
                  /\ events'[k][at] = NewRow(j, k)
                  /\ \A t \in Ts : t # at /\ t = idx_msg[k] =>
                       events'[k][t] = None /\ sessions'[k][t] = None
                  /\ \A t \in Ts : t # at /\ t # idx_msg[k] =>
                       events'[k][t] = events[k][t] /\ sessions'[k][t] = sessions[k][t]
             /\ j.won[k] = None => newest'[k] = newest[k]
             /\ j.won[k] # None => j.won[k] \in Won /\ newest'[k] = Later(newest[k], at)
  <1> DEFINE j == job[w]
  <1>0. None \notin Ts
    BY FjallAssumption
  <1>1. j.idx = idx_msg /\ j.ev = events /\ j.op = "upsert" /\ phase = "open"
    BY DEF LockInv, ReadsStillCurrent, Quiet, UpsertCommit
  <1>2. j.won[k] # None => j.won[k] \in Won
    BY JobFields
  <1>3. j.won[k] # None => j.won[k].ts \in Ts
    BY <1>2, WonFields
  <1>4. PICK p \in Providers, u \in Users, b \in Batches :
          j.won = Winners(j.dev, p, u, b) /\ j.sent = SentTs(j.dev, p, b)
    BY <1>1 DEF LockInv, JobOfBatch
  <1>5. j.sent[k] = IF j.won[k] = None THEN None ELSE j.won[k].ts
    BY <1>4, JobFields, UpsertTypes
  <1>6. /\ \A t \in Ts : events'[k][t] = RowAfter(j, k, t) /\ sessions'[k][t] = SessionAfter(j, k, t)
        /\ idx_msg'[k] = IF Lands(j, k) THEN j.won[k].ts ELSE idx_msg[k]
        /\ newest'[k] = Later(newest[k], j.sent[k])
        /\ events'[k] = [t \in Ts |-> RowAfter(j, k, t)]
        /\ sessions'[k] = [t \in Ts |-> SessionAfter(j, k, t)]
    BY DEF UpsertCommit
  <1> HIDE DEF j
  <1>7. ASSUME ~Lands(j, k)
        PROVE  events'[k] = events[k] /\ sessions'[k] = sessions[k]
    <2>1. \A t \in Ts : RowAfter(j, k, t) = events[k][t] /\ SessionAfter(j, k, t) = sessions[k][t]
      BY <1>7 DEF RowAfter, SessionAfter, Into, OutOf
    <2>2. events[k] = [t \in Ts |-> events[k][t]] /\ sessions[k] = [t \in Ts |-> sessions[k][t]]
      BY DEF TypeOK, Table
    <2> QED BY <1>6, <2>1, <2>2
  <1>8. ASSUME Lands(j, k)
        PROVE  /\ j.won[k] \in Won /\ idx_msg'[k] = j.won[k].ts
               /\ idx_msg[k] # None => j.won[k].ts >= idx_msg[k]
    BY <1>1, <1>2, <1>6, <1>8 DEF Lands
  <1>9. ASSUME Lands(j, k)
        PROVE  /\ events'[k][j.won[k].ts] = NewRow(j, k)
               /\ \A t \in Ts : t # j.won[k].ts /\ t = idx_msg[k] =>
                       events'[k][t] = None /\ sessions'[k][t] = None
               /\ \A t \in Ts : t # j.won[k].ts /\ t # idx_msg[k] =>
                       events'[k][t] = events[k][t] /\ sessions'[k][t] = sessions[k][t]
    <2>1. j.won[k].ts \in Ts
      BY <1>3, <1>9 DEF Lands
    <2> QED BY <1>0, <1>1, <1>6, <1>9, <2>1 DEF RowAfter, SessionAfter, Into, OutOf
  <1>10. j.won[k] = None => newest'[k] = newest[k]
    BY <1>5, <1>6 DEF Later
  <1>11. j.won[k] # None => newest'[k] = Later(newest[k], j.won[k].ts)
    BY <1>5, <1>6
  <1> QED BY <1>1, <1>2, <1>6, <1>7, <1>8, <1>9, <1>10, <1>11 DEF j

LEMMA NewRowType ==
  ASSUME TypeOK, NEW w \in Workers, NEW k \in Key, job[w].won[k] \in Won
  PROVE  NewRow(job[w], k) \in Row /\ NewRow(job[w], k) # None
         /\ NewRow(job[w], k).user = job[w].won[k].user
  <1>1. None \notin Row
    BY FjallAssumption
  <1> QED BY <1>1, WonFields DEF NewRow
LEMMA DeletePointwise ==
  ASSUME TypeOK, LockInv, NEW w \in Workers, DeleteCommit(w), NEW k \in Key
  PROVE  LET d == job[w].dev
         IN  /\ phase = "open"
             /\ k.dev = d => /\ \A t \in Ts : events'[k][t] = None
                             /\ idx_msg'[k] = None /\ newest'[k] = None
             /\ k.dev # d => /\ events'[k] = events[k] /\ sessions'[k] = sessions[k]
                             /\ idx_msg'[k] = idx_msg[k] /\ newest'[k] = newest[k]
             /\ \A t \in Ts : events[k][t] = None => sessions'[k][t] = sessions[k][t]
             /\ \A t \in Ts : events[k][t] # None /\ k.dev = d => sessions'[k][t] = None
  <1> DEFINE j == job[w]
  <1>1. j.idx = idx_msg /\ j.ev = events /\ j.op = "delete" /\ phase = "open"
    BY DEF LockInv, ReadsStillCurrent, Quiet, DeleteCommit
  <1>2. /\ events'[k] = [t \in Ts |-> IF Gone(j, k, t) THEN None ELSE events[k][t]]
        /\ sessions'[k] = [t \in Ts |-> IF Gone(j, k, t) THEN None ELSE sessions[k][t]]
        /\ idx_msg'[k] = IF DropsPointer(j, k) THEN None ELSE idx_msg[k]
        /\ newest'[k] = IF k.dev = j.dev THEN None ELSE newest[k]
    BY DEF DeleteCommit
  <1>3. events[k] = [t \in Ts |-> events[k][t]] /\ sessions[k] = [t \in Ts |-> sessions[k][t]]
    BY DEF TypeOK, Table
  <1> HIDE DEF j
  <1>4. \A t \in Ts : Gone(j, k, t) <=> k.dev = j.dev /\ events[k][t] # None
    BY <1>1 DEF Gone
  <1>5. k.dev = j.dev => idx_msg'[k] = None
    BY <1>1, <1>2 DEF DropsPointer
  <1>6. k.dev # j.dev => idx_msg'[k] = idx_msg[k]
    BY <1>2, <1>4 DEF DropsPointer
  <1>7. k.dev # j.dev => events'[k] = events[k] /\ sessions'[k] = sessions[k]
    BY <1>2, <1>3, <1>4
  <1> QED BY <1>1, <1>2, <1>4, <1>5, <1>6, <1>7 DEF j

LEMMA PointerStep ==
  ASSUME TypeOK, LockInv, PointerNamesRow, [Next]_vars
  PROVE  PointerNamesRow'
  <1> SUFFICES ASSUME NEW k \in Key, idx_msg'[k] # None
               PROVE  events'[k][idx_msg'[k]] # None
    BY DEF PointerNamesRow
  <1>0. idx_msg[k] # None => idx_msg[k] \in Ts /\ events[k][idx_msg[k]] # None
    BY DEF PointerNamesRow, TypeOK, Pointers
  <1>1. CASE OpenCleared
    BY <1>1 DEF OpenCleared, NoPtr
  <1>2. CASE UNCHANGED <<events, idx_msg>>
    BY <1>0, <1>2
  <1>3. ASSUME NEW w \in Workers, UpsertCommit(w)
        PROVE  events'[k][idx_msg'[k]] # None
    <2>1. CASE Lands(job[w], k)
      BY <1>3, <2>1, UpsertPointwise, NewRowType
    <2>2. CASE ~Lands(job[w], k)
      BY <1>0, <1>3, <2>2, UpsertPointwise
    <2> QED BY <2>1, <2>2
  <1>4. ASSUME NEW w \in Workers, CleanupCommit(w)
        PROVE  events'[k][idx_msg'[k]] # None
    BY <1>0, <1>4 DEF CleanupCommit
  <1>5. ASSUME NEW w \in Workers, DeleteCommit(w)
        PROVE  events'[k][idx_msg'[k]] # None
    BY <1>0, <1>5, DeletePointwise
  <1>6. Open \/ BackfillChunk \/ BackfillDone \/ Crash
          \/ (UNCHANGED <<store, version, marker, phase, scanned, pruned, newest>>)
        => UNCHANGED <<events, idx_msg>>
    BY DEF Open, BackfillChunk, BackfillDone, Crash, store
  <1> QED BY <1>1, <1>2, <1>3, <1>4, <1>5, <1>6, FjallSteps

LEMMA SessionStep ==
  ASSUME TypeOK, LockInv, SessionsFollowRows, [Next]_vars
  PROVE  SessionsFollowRows'
  <1> SUFFICES ASSUME NEW k \in Key, NEW t \in Ts, sessions'[k][t] # None
               PROVE  events'[k][t] # None
    BY DEF SessionsFollowRows
  <1>0. sessions[k][t] # None => events[k][t] # None
    BY DEF SessionsFollowRows
  <1>1. CASE OpenCleared
    BY <1>1 DEF OpenCleared, NoRows
  <1>2. CASE UNCHANGED <<events, sessions>>
    BY <1>0, <1>2
  <1>3. ASSUME NEW w \in Workers, UpsertCommit(w)
        PROVE  events'[k][t] # None
    <2>1. CASE Lands(job[w], k)
      <3>1. CASE t = job[w].won[k].ts
        BY <1>3, <2>1, <3>1, UpsertPointwise, NewRowType
      <3>2. CASE t # job[w].won[k].ts
        BY <1>0, <1>3, <2>1, <3>2, UpsertPointwise
      <3> QED BY <3>1, <3>2
    <2>2. CASE ~Lands(job[w], k)
      BY <1>0, <1>3, <2>2, UpsertPointwise
    <2> QED BY <2>1, <2>2
  <1>4. ASSUME NEW w \in Workers, DeleteCommit(w)
        PROVE  events'[k][t] # None
    BY <1>0, <1>4, DeletePointwise
  <1>5. Open \/ BackfillChunk \/ BackfillDone \/ Crash \/ (\E w \in Workers : CleanupCommit(w))
          \/ (UNCHANGED <<store, version, marker, phase, scanned, pruned, newest>>)
        => UNCHANGED <<events, sessions>>
    BY DEF Open, BackfillChunk, BackfillDone, Crash, CleanupCommit, store
  <1> QED BY <1>1, <1>2, <1>3, <1>4, <1>5, FjallSteps

LEMMA NewestStep ==
  ASSUME TypeOK, LockInv, PointerNamesRow, NewestBound, [Next]_vars
  PROVE  NewestBound'
  <1> DEFINE Bound(n, row) == IF n = None
                              THEN \A t \in Ts : row[t] = None
                              ELSE row[n] # None /\ \A t \in Ts : row[t] # None => t <= n
  <1> SUFFICES ASSUME NEW k \in Key
               PROVE  Bound(newest'[k], events'[k])
    BY DEF NewestBound
  <1>n. Bound(newest[k], events[k])
    BY DEF NewestBound
  <1>t. /\ Ts \subseteq Int /\ None \notin Ts /\ newest[k] \in Ts \cup {None}
        /\ idx_msg[k] # None => idx_msg[k] \in Ts /\ events[k][idx_msg[k]] # None
    BY FjallAssumption DEF TypeOK, Pointers, PointerNamesRow
  <1>i. /\ \A t \in Ts : t \in Int
        /\ newest[k] # None => newest[k] \in Ts /\ newest[k] \in Int
        /\ idx_msg[k] # None => idx_msg[k] \in Int
    BY <1>t
  <1>1. CASE OpenCleared
    BY <1>1 DEF OpenCleared, NoPtr, NoRows
  <1>2. CASE events'[k] = events[k] /\ newest'[k] = newest[k]
    BY <1>n, <1>2
  <1>3. ASSUME NEW w \in Workers, UpsertCommit(w)
        PROVE  Bound(newest'[k], events'[k])
    <2> DEFINE at == job[w].won[k].ts
    <2>1. CASE job[w].won[k] = None
      <3>1. ~Lands(job[w], k)
        BY <2>1 DEF Lands
      <3> QED BY <1>2, <1>3, <2>1, <3>1, UpsertPointwise
    <2>2. CASE job[w].won[k] # None /\ ~Lands(job[w], k)
      <3>1. job[w].idx = idx_msg
        BY <1>3 DEF UpsertCommit, LockInv, ReadsStillCurrent
      <3>2. at \in Int /\ idx_msg[k] # None /\ ~(at >= idx_msg[k])
        BY <1>3, <2>2, <3>1, UpsertPointwise, WonFields DEF Lands
      <3>3. newest[k] # None /\ idx_msg[k] <= newest[k]
        BY <1>n, <1>t, <3>2
      <3>4. Later(newest[k], at) = newest[k]
        BY <1>i, <3>2, <3>3 DEF Later
      <3> QED BY <1>2, <1>3, <2>2, <3>4, UpsertPointwise
    <2>3. CASE job[w].won[k] # None /\ Lands(job[w], k)
      <3>1. /\ at \in Ts /\ at \in Int /\ at # None /\ newest'[k] = Later(newest[k], at)
            /\ idx_msg[k] # None => at >= idx_msg[k]
            /\ events'[k][at] # None
        <4>1. /\ job[w].won[k] \in Won /\ newest'[k] = Later(newest[k], at)
              /\ idx_msg[k] # None => at >= idx_msg[k]
              /\ events'[k][at] = NewRow(job[w], k)
          BY <1>3, <2>3, UpsertPointwise
        <4>2. at \in Ts /\ at \in Int /\ at # None
          BY <4>1, WonFields
        <4> QED BY <4>1, <4>2, NewRowType
      <3>2. /\ \A t \in Ts : t # at /\ t = idx_msg[k] => events'[k][t] = None
            /\ \A t \in Ts : t # at /\ t # idx_msg[k] => events'[k][t] = events[k][t]
        BY <1>3, <2>3, UpsertPointwise
      <3> HIDE DEF at
      <3>3. CASE newest[k] = None
        <4>1. newest'[k] = at
          BY <3>1, <3>3 DEF Later
        <4>2. \A t \in Ts : t # at => events'[k][t] = None
          BY <1>n, <3>2, <3>3
        <4> QED BY <1>t, <3>1, <4>1, <4>2
      <3>4. CASE newest[k] # None /\ at > newest[k]
        <4>1. newest'[k] = at
          BY <3>1, <3>4 DEF Later
        <4>2. \A t \in Ts : t # at /\ events'[k][t] # None => t <= newest[k]
          BY <1>n, <3>2, <3>4
        <4> QED BY <1>i, <3>1, <3>4, <4>1, <4>2
      <3>5. CASE newest[k] # None /\ ~(at > newest[k])
        <4>1. newest'[k] = newest[k]
          BY <3>1, <3>5 DEF Later
        <4>2. \A t \in Ts : t # at /\ events'[k][t] # None => t <= newest[k]
          BY <1>n, <3>2, <3>5
        <4>3. events'[k][newest[k]] # None
          <5>1. newest[k] \in Ts /\ newest[k] \in Int /\ events[k][newest[k]] # None
            BY <1>n, <1>i, <3>5
          <5>2. CASE newest[k] = at
            BY <3>1, <5>2
          <5>3. CASE newest[k] # at
            <6>1. newest[k] # idx_msg[k]
              BY <3>1, <3>5, <5>1, <5>3
            <6> QED BY <3>2, <5>1, <5>3, <6>1
          <5> QED BY <5>2, <5>3
        <4>4. \A t \in Ts : events'[k][t] # None => t <= newest[k]
          BY <1>i, <3>1, <3>5, <4>2
        <4> QED BY <3>5, <4>1, <4>3, <4>4
      <3> QED BY <3>3, <3>4, <3>5
    <2> QED BY <2>1, <2>2, <2>3
  <1>4. ASSUME NEW w \in Workers, DeleteCommit(w)
        PROVE  Bound(newest'[k], events'[k])
    <2>1. CASE k.dev = job[w].dev
      BY <1>4, <2>1, DeletePointwise
    <2>2. CASE k.dev # job[w].dev
      BY <1>2, <1>4, <2>2, DeletePointwise
    <2> QED BY <2>1, <2>2
  <1>5. Open \/ BackfillChunk \/ BackfillDone \/ Crash \/ (\E w \in Workers : CleanupCommit(w))
          \/ (UNCHANGED <<store, version, marker, phase, scanned, pruned, newest>>)
        => events'[k] = events[k] /\ newest'[k] = newest[k]
    BY DEF Open, BackfillChunk, BackfillDone, Crash, CleanupCommit, store
  <1> QED BY <1>1, <1>2, <1>3, <1>4, <1>5, FjallSteps

LEMMA BackfillStep ==
  ASSUME TypeOK, LockInv, Backfilled, [Next]_vars
  PROVE  Backfilled'
  <1>0. \A k \in Key, t \in Ts : events[k][t] # None => events[k][t].user \in Users
    <2>1. \A k \in Key, t \in Ts : events[k][t] # None => events[k][t] \in Row
      BY DEF TypeOK, Table
    <2> QED BY <2>1 DEF Row
  <1>1. CASE OpenCleared
    <2>1. \A k \in Key, t \in Ts : Copied(k, t)'
      BY <1>1 DEF OpenCleared, Copied, NoRows
    <2> QED BY <1>1, <2>1 DEF OpenCleared, Backfilled
  <1>2. CASE Open
    BY <1>2 DEF Open, Backfilled, Copied, store
  <1>3. CASE BackfillChunk
    <2>1. PICK c \in SUBSET (Rows \ scanned) :
            /\ scanned' = scanned \cup c
            /\ idx_user' = [u \in Users |-> [k \in Key |-> [t \in Ts |->
                              IF <<k, t>> \in c /\ events[k][t].user = u
                              THEN events[k][t] ELSE idx_user[u][k][t]]]]
      BY <1>3 DEF BackfillChunk
    <2>2. ASSUME NEW k \in Key, NEW t \in Ts, <<k, t>> \in c \/ Copied(k, t)
          PROVE  Copied(k, t)'
      <3> SUFFICES ASSUME events[k][t] # None
                   PROVE  idx_user'[events[k][t].user][k][t] = events[k][t]
        BY <1>3 DEF BackfillChunk, Copied
      <3>1. idx_user'[events[k][t].user][k][t] =
              IF <<k, t>> \in c THEN events[k][t] ELSE idx_user[events[k][t].user][k][t]
        BY <1>0, <2>1
      <3> QED BY <2>2, <3>1 DEF Copied
    <2>3. ASSUME marker, NEW k \in Key, NEW t \in Ts
          PROVE  Copied(k, t)'
      BY <2>2, <2>3 DEF Backfilled
    <2>4. ASSUME NEW r \in scanned'
          PROVE  Copied(r[1], r[2])'
      <3>1. r \in Key \X Ts /\ r = <<r[1], r[2]>> /\ (r \in c \/ r \in scanned)
        BY <2>1 DEF Rows, TypeOK
      <3>2. r[1] \in Key /\ r[2] \in Ts /\ (<<r[1], r[2]>> \in c \/ Copied(r[1], r[2]))
        BY <1>3, <3>1 DEF BackfillChunk, Backfilled
      <3> QED BY <2>2, <3>2
    <2> QED BY <1>3, <2>3, <2>4 DEF BackfillChunk, Backfilled
  <1>4. CASE BackfillDone
    <2>1. ASSUME NEW k \in Key, NEW t \in Ts
          PROVE  Copied(k, t)
      <3>1. CASE events[k][t] = None
        BY <3>1 DEF Copied
      <3>2. CASE events[k][t] # None
        <4>1. <<k, t>> \in scanned
          BY <1>4, <3>2 DEF BackfillDone, Rows
        <4> QED BY <1>4, <4>1 DEF BackfillDone, Backfilled
      <3> QED BY <3>1, <3>2
    <2>2. UNCHANGED <<events, idx_user>>
      BY <1>4 DEF BackfillDone, store
    <2>3. \A k \in Key, t \in Ts : Copied(k, t)'
      BY <2>1, <2>2 DEF Copied
    <2> QED BY <1>4, <2>3 DEF BackfillDone, Backfilled
  <1>5. CASE Crash
    BY <1>5 DEF Crash, Backfilled, Copied, store
  <1>6. ASSUME NEW w \in Workers, UpsertCommit(w)
        PROVE  Backfilled'
    <2> DEFINE j == job[w]
    <2>1. phase = "open" /\ marker
      BY <1>6 DEF LockInv, Quiet, UpsertCommit, Backfilled
    <2>2. ASSUME NEW k \in Key, NEW t \in Ts
          PROVE  Copied(k, t)'
      <3>1. /\ events'[k][t] = RowAfter(j, k, t)
            /\ \A u \in Users : idx_user'[u][k][t] = CopyAfter(j, u, k, t)
        BY <1>6 DEF UpsertCommit
      <3>2. Copied(k, t) /\ (events[k][t] # None => events[k][t].user \in Users)
        BY <1>0, <2>1 DEF Backfilled
      <3>3. CASE Into(j, k, t)
        <4>1. j.won[k] \in Won
          BY <3>3, JobFields DEF Into, Lands
        <4>2. j.won[k].user \in Users /\ NewRow(j, k).user = j.won[k].user
          BY <4>1, WonFields, NewRowType
        <4>3. events'[k][t] = NewRow(j, k)
          BY <3>1, <3>3 DEF RowAfter
        <4>4. idx_user'[j.won[k].user][k][t] = NewRow(j, k)
          BY <3>1, <3>3, <4>2 DEF CopyAfter
        <4> QED BY <4>2, <4>3, <4>4 DEF Copied
      <3>4. CASE ~Into(j, k, t) /\ OutOf(j, k, t)
        BY <3>1, <3>4 DEF RowAfter, Copied
      <3>5. CASE ~Into(j, k, t) /\ ~OutOf(j, k, t)
        BY <3>1, <3>2, <3>5 DEF RowAfter, CopyAfter, Copied
      <3> QED BY <3>3, <3>4, <3>5
    <2> QED BY <1>6, <2>1, <2>2 DEF UpsertCommit, Backfilled
  <1>7. ASSUME NEW w \in Workers, DeleteCommit(w)
        PROVE  Backfilled'
    <2> DEFINE j == job[w]
    <2>1. phase = "open" /\ marker
      BY <1>7 DEF LockInv, Quiet, DeleteCommit, Backfilled
    <2>2. ASSUME NEW k \in Key, NEW t \in Ts
          PROVE  Copied(k, t)'
      <3>1. /\ events'[k][t] = IF Gone(j, k, t) THEN None ELSE events[k][t]
            /\ \A u \in Users : ~Gone(j, k, t) => idx_user'[u][k][t] = idx_user[u][k][t]
        BY <1>7 DEF DeleteCommit
      <3>2. Copied(k, t) /\ (events[k][t] # None => events[k][t].user \in Users)
        BY <1>0, <2>1 DEF Backfilled
      <3> QED BY <3>1, <3>2 DEF Copied
    <2> QED BY <1>7, <2>1, <2>2 DEF DeleteCommit, Backfilled
  <1>8. ASSUME NEW w \in Workers, CleanupCommit(w)
        PROVE  Backfilled'
    BY <1>8 DEF CleanupCommit, Backfilled, Copied
  <1>9. CASE UNCHANGED <<store, version, marker, phase, scanned, pruned, newest>>
    BY <1>9 DEF Backfilled, Copied, store
  <1> QED BY <1>1, <1>2, <1>3, <1>4, <1>5, <1>6, <1>7, <1>8, <1>9, FjallSteps
LEMMA StoreNext ==
  ASSUME TypeOK, LockInv, StoreInv, [Next]_vars
  PROVE  StoreInv'
  BY PointerStep, SessionStep, NewestStep, BackfillStep DEF StoreInv

LEMMA StoreInvariant == Spec => [](TypeOK /\ LockInv /\ StoreInv)
  <1>1. Init => TypeOK /\ LockInv /\ StoreInv
    BY FjallTypeInit, LockInit, StoreInit
  <1>2. (TypeOK /\ LockInv /\ StoreInv) /\ [Next]_vars => (TypeOK /\ LockInv /\ StoreInv)'
    BY FjallTypeNext, LockNext, StoreNext
  <1> QED BY <1>1, <1>2, PTL DEF Spec

LEMMA BoundIsNewest ==
  ASSUME TypeOK, NewestBound, NEW k \in Key
  PROVE  LET ts == {t \in Ts : events[k][t] # None}
         IN  /\ newest[k] = None <=> ts = {}
             /\ newest[k] # None => /\ newest[k] \in ts
                                    /\ newest[k] = CHOOSE t \in ts : \A x \in ts : x <= t
  <1> DEFINE ts == {t \in Ts : events[k][t] # None}
  <1>1. Ts \subseteq Int /\ newest[k] \in Ts \cup {None}
    BY FjallAssumption DEF TypeOK, Pointers
  <1>2. CASE newest[k] = None
    BY <1>2 DEF NewestBound
  <1>3. CASE newest[k] # None
    <2>1. newest[k] \in ts /\ \A x \in ts : x <= newest[k]
      BY <1>1, <1>3 DEF NewestBound
    <2>2. \A t \in ts : t \in Int
      BY <1>1
    <2> HIDE DEF ts
    <2>3. \A t \in ts : (\A x \in ts : x <= t) => t = newest[k]
      BY <2>1, <2>2
    <2>4. newest[k] = CHOOSE t \in ts : \A x \in ts : x <= t
      BY <2>1, <2>3
    <2> QED BY <1>3, <2>1, <2>4 DEF ts
  <1> QED BY <1>2, <1>3

(* Once open has returned, every row has its copy in idx_user under its      *)
(* owner, also after a backfill that a crash interrupted: a query scoped to  *)
(* a user misses nothing that a query of all users finds.                    *)
THEOREM UserQueriesComplete == Spec => []EveryRowIndexed
  <1>1. StoreInv => EveryRowIndexed
    BY DEF StoreInv, Backfilled, Copied, EveryRowIndexed
  <1> QED BY <1>1, StoreInvariant, PTL

(* The dedup pointer upsert_one follows never dangles, whatever pruning,     *)
(* purge or crash came before.                                               *)
THEOREM PointersNameRows == Spec => []PointerNamesRow
  <1>1. StoreInv => PointerNamesRow
    BY DEF StoreInv
  <1> QED BY <1>1, StoreInvariant, PTL

(* No session string outlives its row: upsert_one and delete_device_events   *)
(* remove the two together.                                                  *)
THEOREM SessionsFollow == Spec => []SessionsFollowRows
  <1>1. StoreInv => SessionsFollowRows
    BY DEF StoreInv
  <1> QED BY <1>1, StoreInvariant, PTL

(* The newest version of a message that any committed batch held since the   *)
(* device's last purge is the newest the store holds, in whatever order the  *)
(* versions came and whether or not the pointer was pruned in between.       *)
THEOREM NewestWins == Spec => []NewestStored
  <1>1. TypeOK /\ StoreInv => NewestStored
    BY BoundIsNewest DEF StoreInv, NewestStored
  <1> QED BY <1>1, StoreInvariant, PTL

-----------------------------------------------------------------------------
(* Timely behaviours                                                         *)

(* A message an upsert is about to write has not lost its pointer. *)
UpsertsFresh ==
  \A w \in Workers : job[w].op = "upsert" =>
    \A k \in Key : job[w].won[k] # None => k \notin pruned

TimelyInv == UpsertsFresh /\ OneRowPerKey /\ IndexMirrorsEvents

LEMMA TimelyIsNext == TimelyNext => Next
  BY DEF TimelyNext, Next

LEMMA TimelyInit == Init => TimelyInv
  <1> SUFFICES ASSUME Init PROVE TimelyInv
    OBVIOUS
  <1>1. PICK old \in [Key -> [ts : Ts, user : Users, val : Vals] \cup {None}] :
          /\ idx_msg = [k \in Key |-> IF old[k] = None THEN None ELSE old[k].ts]
          /\ events = [k \in Key |-> [t \in Ts |->
                         IF old[k] # None /\ old[k].ts = t
                         THEN [user |-> old[k].user, val |-> old[k].val]
                         ELSE None]]
    BY DEF Init
  <1>2. \A k \in Key, t \in Ts : events[k][t] # None => idx_msg[k] = t
    BY <1>1
  <1>3. OneRowPerKey
    BY <1>2 DEF OneRowPerKey
  <1>4. UpsertsFresh /\ IndexMirrorsEvents
    BY IdleOp DEF Init, UpsertsFresh, IndexMirrorsEvents, NoRows
  <1> QED BY <1>3, <1>4 DEF TimelyInv

LEMMA FreshStep ==
  ASSUME TypeOK, LockInv, UpsertsFresh, [TimelyNext]_vars
  PROVE  UpsertsFresh'
  <1>0. job \in [Workers -> Job]
    BY DEF TypeOK
  <1>1. ASSUME NEW w \in Workers, NEW d \in Devices, NEW p \in Providers, NEW u \in Users,
               NEW b \in Batches, Timely(d, p, b), UpsertRead(w, d, p, u, b)
        PROVE  UpsertsFresh'
    <2>1. \A v \in Workers : v # w => job'[v] = job[v]
      BY <1>0, <1>1 DEF UpsertRead
    <2>2. job'[w].won = Winners(d, p, u, b) /\ pruned' = pruned
      BY <1>0, <1>1 DEF UpsertRead
    <2>3. ASSUME NEW k \in Key, Winners(d, p, u, b)[k] # None
          PROVE  k \notin pruned
      <3>1. k.dev = d /\ k.prov = p /\ \E i \in DOMAIN b : b[i].msg = k.msg
        BY <2>3, WonOfKey
      <3> QED BY <1>1, <3>1 DEF Timely
    <2> QED BY <2>1, <2>2, <2>3 DEF UpsertsFresh
  <1>2. ASSUME pruned' \subseteq pruned,
               \A v \in Workers : job'[v].op = "upsert" => job'[v] = job[v]
        PROVE  UpsertsFresh'
    BY <1>2 DEF UpsertsFresh
  <1>3. ASSUME NEW w \in Workers, CleanupCommit(w)
        PROVE  UpsertsFresh'
    <2>1. \A v \in Workers : v # w => job[v].op # "upsert"
      BY <1>3 DEF LockInv, ReadsStillCurrent, CleanupCommit
    <2>2. \A v \in Workers : job'[v].op # "upsert"
      BY <1>0, <1>3, <2>1, IdleOp DEF CleanupCommit
    <2> QED BY <2>2 DEF UpsertsFresh
  <1>4. ASSUME NEW w \in Workers, NEW d \in Devices, DeleteRead(w, d)
        PROVE  UpsertsFresh'
    <2>1. [Idle EXCEPT !.op = "delete", !.dev = d, !.idx = idx_msg, !.ev = events].op # "upsert"
      BY DEF Idle
    <2>2. \A v \in Workers : job'[v].op = "upsert" => job'[v] = job[v]
      BY <1>0, <1>4, <2>1 DEF DeleteRead
    <2> QED BY <1>2, <1>4, <2>2 DEF DeleteRead
  <1>5. ASSUME NEW w \in Workers, CleanupRead(w)
        PROVE  UpsertsFresh'
    <2>1. \A v \in Workers : job'[v].op = "upsert" => job'[v] = job[v]
      <3>1. job[w] \in Job
        BY <1>0
      <3>2. job'[w].op = "cleanup"
        BY <1>0, <1>5, <3>1 DEF CleanupRead, Job
      <3>3. \A v \in Workers : v # w => job'[v] = job[v]
        BY <1>0, <1>5 DEF CleanupRead
      <3> QED BY <3>2, <3>3
    <2> QED BY <1>2, <1>5, <2>1 DEF CleanupRead
  <1>6. ASSUME NEW w \in Workers,
               UpsertCommit(w) \/ DeleteCommit(w) \/ CleanupFails(w) \/ CommitFails(w)
        PROVE  UpsertsFresh'
    <2>1. \A v \in Workers : v # w => job'[v] = job[v]
      BY <1>0, <1>6 DEF UpsertCommit, DeleteCommit, CleanupFails, CommitFails
    <2>2. [Idle EXCEPT !.op = "due", !.dev = job[w].dev, !.cutoff = job[w].cutoff].op # "upsert"
      BY DEF Idle
    <2>3. job'[w].op # "upsert"
      BY <1>0, <1>6, <2>2, IdleOp DEF UpsertCommit, DeleteCommit, CleanupFails, CommitFails
    <2>4. pruned' \subseteq pruned
      BY <1>6 DEF UpsertCommit, DeleteCommit, CleanupFails, CommitFails
    <2> QED BY <1>2, <2>1, <2>3, <2>4
  <1>7. CASE Lifecycle \/ UNCHANGED vars
    <2>1. pruned' \subseteq pruned
      BY <1>7 DEF Lifecycle, OpenCleared, Open, BackfillChunk, BackfillDone, Crash, vars
    <2>2. \A v \in Workers : job'[v].op = "upsert" => job'[v] = job[v]
      BY <1>7, IdleOp DEF Lifecycle, OpenCleared, Open, BackfillChunk, BackfillDone, Crash, vars
    <2> QED BY <1>2, <2>1, <2>2
  <1> QED BY <1>1, <1>3, <1>4, <1>5, <1>6, <1>7 DEF TimelyNext, Commit

LEMMA OneRowStep ==
  ASSUME TypeOK, LockInv, UpsertsFresh, OneRowPerKey, [Next]_vars
  PROVE  OneRowPerKey'
  <1> DEFINE Only(row, ptr, cut) == \A t1, t2 \in Ts : row[t1] # None /\ row[t2] # None =>
                                      t1 = t2 /\ (cut \/ ptr = t1)
  <1> SUFFICES ASSUME NEW k \in Key
               PROVE  Only(events'[k], idx_msg'[k], k \in pruned')
    BY DEF OneRowPerKey
  <1>0. Only(events[k], idx_msg[k], k \in pruned)
    BY DEF OneRowPerKey
  <1>1. CASE OpenCleared
    BY <1>1 DEF OpenCleared, NoRows
  <1>2. CASE UNCHANGED <<events, idx_msg, pruned>>
    BY <1>0, <1>2
  <1>3. ASSUME NEW w \in Workers, UpsertCommit(w)
        PROVE  Only(events'[k], idx_msg'[k], k \in pruned')
    <2>0. pruned' = pruned
      BY <1>3 DEF UpsertCommit
    <2>1. CASE Lands(job[w], k)
      <3>1. k \notin pruned
        BY <1>3, <2>1 DEF Lands, UpsertsFresh, UpsertCommit
      <3>2. \A t \in Ts : events'[k][t] # None => t = job[w].won[k].ts
        BY <1>0, <1>3, <2>1, <3>1, UpsertPointwise
      <3>3. idx_msg'[k] = job[w].won[k].ts
        BY <1>3, <2>1, UpsertPointwise
      <3> QED BY <3>2, <3>3
    <2>2. CASE ~Lands(job[w], k)
      BY <1>0, <1>3, <2>0, <2>2, UpsertPointwise
    <2> QED BY <2>1, <2>2
  <1>4. ASSUME NEW w \in Workers, CleanupCommit(w)
        PROVE  Only(events'[k], idx_msg'[k], k \in pruned')
    BY <1>0, <1>4 DEF CleanupCommit
  <1>5. ASSUME NEW w \in Workers, DeleteCommit(w)
        PROVE  Only(events'[k], idx_msg'[k], k \in pruned')
    <2>1. CASE k.dev = job[w].dev
      BY <1>5, <2>1, DeletePointwise
    <2>2. CASE k.dev # job[w].dev
      <3>1. k \in pruned' <=> k \in pruned
        BY <1>5, <2>2 DEF DeleteCommit
      <3> QED BY <1>0, <1>5, <2>2, <3>1, DeletePointwise
    <2> QED BY <2>1, <2>2
  <1>6. Open \/ BackfillChunk \/ BackfillDone \/ Crash
          \/ (UNCHANGED <<store, version, marker, phase, scanned, pruned, newest>>)
        => UNCHANGED <<events, idx_msg, pruned>>
    BY DEF Open, BackfillChunk, BackfillDone, Crash, store
  <1> QED BY <1>1, <1>2, <1>3, <1>4, <1>5, <1>6, FjallSteps

LEMMA MirrorStep ==
  ASSUME TypeOK, LockInv, UpsertsFresh, OneRowPerKey, IndexMirrorsEvents, [Next]_vars
  PROVE  IndexMirrorsEvents'
  <1> SUFFICES ASSUME NEW u \in Users, NEW k \in Key, NEW t \in Ts, idx_user'[u][k][t] # None
               PROVE  idx_user'[u][k][t] = events'[k][t] /\ events'[k][t].user = u
    BY DEF IndexMirrorsEvents
  <1>0. idx_user[u][k][t] # None => idx_user[u][k][t] = events[k][t] /\ events[k][t].user = u
    BY DEF IndexMirrorsEvents
  <1>1. CASE OpenCleared
    BY <1>1 DEF OpenCleared, NoRows
  <1>2. CASE UNCHANGED <<events, idx_user>>
    BY <1>0, <1>2
  <1>3. CASE BackfillChunk
    <2>1. PICK c \in SUBSET (Rows \ scanned) :
            /\ idx_user'[u][k][t] = IF <<k, t>> \in c /\ events[k][t].user = u
                                    THEN events[k][t] ELSE idx_user[u][k][t]
      BY <1>3 DEF BackfillChunk
    <2> QED BY <1>0, <1>3, <2>1 DEF BackfillChunk
  <1>4. ASSUME NEW w \in Workers, UpsertCommit(w)
        PROVE  idx_user'[u][k][t] = events'[k][t] /\ events'[k][t].user = u
    <2> DEFINE j == job[w]
    <2>1. idx_user'[u][k][t] = CopyAfter(j, u, k, t) /\ events'[k][t] = RowAfter(j, k, t)
      BY <1>4 DEF UpsertCommit
    <2>2. j.idx = idx_msg /\ j.ev = events /\ j.op = "upsert"
      BY <1>4 DEF LockInv, ReadsStillCurrent, UpsertCommit
    <2>3. Lands(j, k) => k \notin pruned
      BY <2>2 DEF Lands, UpsertsFresh
    <2>4. Lands(j, k) /\ events[k][t] # None => OutOf(j, k, t) /\ PrevUser(j, k) = events[k][t].user
      <3>1. Lands(j, k) /\ events[k][t] # None => idx_msg[k] = t
        BY <2>3 DEF OneRowPerKey
      <3>2. t # None
        BY FjallAssumption
      <3> QED BY <2>2, <3>1, <3>2 DEF OutOf, PrevUser
    <2>5. CASE Into(j, k, t) /\ u = j.won[k].user
      <3>1. j.won[k] \in Won
        BY <2>5, JobFields DEF Into, Lands
      <3> QED BY <2>1, <2>5, <3>1, NewRowType DEF CopyAfter, RowAfter
    <2>6. CASE ~(Into(j, k, t) /\ u = j.won[k].user)
      <3>1. idx_user'[u][k][t] = idx_user[u][k][t] /\ ~(OutOf(j, k, t) /\ u = PrevUser(j, k))
        BY <2>1, <2>6 DEF CopyAfter
      <3>2. idx_user[u][k][t] = events[k][t] /\ events[k][t].user = u /\ events[k][t] # None
        BY <1>0, <3>1
      <3>3. ~Lands(j, k)
        BY <2>4, <3>1, <3>2
      <3> QED BY <2>1, <3>1, <3>2, <3>3 DEF RowAfter, Into, OutOf
    <2> QED BY <2>5, <2>6
  <1>5. ASSUME NEW w \in Workers, DeleteCommit(w)
        PROVE  idx_user'[u][k][t] = events'[k][t] /\ events'[k][t].user = u
    <2> DEFINE j == job[w]
    <2>1. j.ev = events
      BY <1>5 DEF LockInv, ReadsStillCurrent, DeleteCommit
    <2>2. /\ idx_user'[u][k][t] = IF Gone(j, k, t) /\ j.ev[k][t].user = u
                                  THEN None ELSE idx_user[u][k][t]
          /\ events'[k][t] = IF Gone(j, k, t) THEN None ELSE events[k][t]
      BY <1>5 DEF DeleteCommit
    <2> QED BY <1>0, <2>1, <2>2
  <1>6. Open \/ BackfillDone \/ Crash \/ (\E w \in Workers : CleanupCommit(w))
          \/ (UNCHANGED <<store, version, marker, phase, scanned, pruned, newest>>)
        => UNCHANGED <<events, idx_user>>
    BY DEF Open, BackfillDone, Crash, CleanupCommit, store
  <1> QED BY <1>1, <1>2, <1>3, <1>4, <1>5, <1>6, FjallSteps
FjallInv == TypeOK /\ LockInv /\ StoreInv /\ TimelyInv

LEMMA TimelyStep ==
  ASSUME FjallInv, [TimelyNext]_vars
  PROVE  FjallInv'
  <1>1. [Next]_vars
    BY TimelyIsNext
  <1>2. TypeOK' /\ LockInv' /\ StoreInv'
    BY <1>1, FjallTypeNext, LockNext, StoreNext DEF FjallInv
  <1>3. TimelyInv'
    BY <1>1, FreshStep, OneRowStep, MirrorStep DEF FjallInv, TimelyInv
  <1> QED BY <1>2, <1>3 DEF FjallInv

LEMMA TimelyInvariant == TimelySpec => []FjallInv
  <1>1. Init => FjallInv
    BY FjallTypeInit, LockInit, StoreInit, TimelyInit DEF FjallInv
  <1> QED BY <1>1, TimelyStep, PTL DEF TimelySpec

(* As long as a correction comes before its pointer is pruned, upsert_events *)
(* never leaves two rows of one message: nothing is counted twice.           *)
THEOREM NoDoubleCounting == TimelySpec => []OneRowPerKey
  <1>1. FjallInv => OneRowPerKey
    BY DEF FjallInv, TimelyInv
  <1> QED BY <1>1, TimelyInvariant, PTL

(* No copy outlives its row, its device's purge or the device's move to      *)
(* another user: a user-scoped query finds only what the user owns.          *)
THEOREM CopiesMirrorRows == TimelySpec => []IndexMirrorsEvents
  <1>1. FjallInv => IndexMirrorsEvents
    BY DEF FjallInv, TimelyInv
  <1> QED BY <1>1, TimelyInvariant, PTL

-----------------------------------------------------------------------------
(* The EventStore contract                                                   *)

EntryAt(k, t) == [ts |-> t, user |-> events[k][t].user, val |-> events[k][t].val,
                  sess |-> sessions[k][t]]

(* What a query finds of a key is its row at the newest timestamp. *)
LEMMA VisibleEntry ==
  FjallInv => \A k \in Key : Visible[k] = IF newest[k] = None THEN None ELSE EntryAt(k, newest[k])
  <1> SUFFICES ASSUME FjallInv, NEW k \in Key
               PROVE  Visible[k] = IF newest[k] = None THEN None ELSE EntryAt(k, newest[k])
    OBVIOUS
  <1> DEFINE ts == {t \in Ts : events[k][t] # None}
  <1>1. /\ newest[k] = None <=> ts = {}
        /\ newest[k] # None => newest[k] = CHOOSE t \in ts : \A x \in ts : x <= t
    BY BoundIsNewest DEF FjallInv, StoreInv
  <1>2. Visible[k] = IF ts = {} THEN None
                     ELSE EntryAt(k, CHOOSE t \in ts : \A x \in ts : x <= t)
    BY DEF Visible, EntryAt
  <1> HIDE DEF ts
  <1> QED BY <1>1, <1>2

LEMMA VisibleDomain == Visible = [k \in Key |-> Visible[k]]
  BY DEF Visible

(* The initial rows are a table of entries. *)
LEMMA RefineInit == FjallInv => Abstract!Init
  <1> SUFFICES ASSUME FjallInv PROVE Abstract!Init
    OBVIOUS
  <1>1. ASSUME NEW k \in Key PROVE Visible[k] \in Abstract!Entry \cup {None}
    <2>1. CASE newest[k] = None
      BY <2>1, VisibleEntry
    <2>2. CASE newest[k] # None
      <3>1. newest[k] \in Ts /\ events[k][newest[k]] # None
        BY <2>2 DEF FjallInv, StoreInv, NewestBound, TypeOK, Pointers
      <3>2. events[k][newest[k]] \in Row /\ sessions[k][newest[k]] \in Sessions \cup {None}
        BY <3>1 DEF FjallInv, TypeOK, Table
      <3>3. EntryAt(k, newest[k]) \in Abstract!Entry
        BY <3>1, <3>2 DEF EntryAt, Row, Abstract!Entry
      <3> QED BY <2>2, <3>3, VisibleEntry
    <2> QED BY <2>1, <2>2
  <1>2. Visible \in [Key -> Abstract!Entry \cup {None}]
    BY <1>1, VisibleDomain
  <1> QED BY <1>2 DEF Abstract!Init, Abstract!Key, Key

(* A step that leaves rows, sessions and history alone shows nothing new. *)
LEMMA RefineSame ==
  ASSUME UNCHANGED <<events, sessions>>
  PROVE  UNCHANGED Visible
  BY DEF Visible

(* upsert_events as the contract sees it: per key, the newest item of the    *)
(* batch replaces an entry that is not newer.                                *)
LEMMA UpsertVisible ==
  ASSUME FjallInv, FjallInv', NEW w \in Workers, UpsertCommit(w), NEW k \in Key,
         NEW old, NEW new,
         old = (IF newest[k] = None THEN None ELSE EntryAt(k, newest[k])),
         new = (IF newest[k] = None THEN None ELSE EntryAt(k, newest[k]))'
  PROVE  LET won == job[w].won[k]
         IN  /\ won = None => new = old
             /\ won # None => new = IF old # None /\ won.ts < old.ts THEN old ELSE won
  <1> DEFINE j == job[w]
             won == j.won[k]
             n == newest[k]
  <1>0. TypeOK /\ LockInv
    BY DEF FjallInv
  <1>1. j.op = "upsert" /\ j.idx = idx_msg
    BY <1>0 DEF UpsertCommit, LockInv, ReadsStillCurrent
  <1>2. /\ Ts \subseteq Int /\ None \notin Ts
        /\ n # None => n \in Ts /\ n \in Int /\ events[k][n] # None
        /\ \A t \in Ts : events[k][t] # None => n # None /\ t <= n
    BY <1>0, FjallAssumption DEF FjallInv, StoreInv, NewestBound, TypeOK, Pointers
  <1>3. /\ idx_msg[k] # None => idx_msg[k] = n
        /\ won # None /\ n # None => idx_msg[k] = n
        /\ n = None => idx_msg[k] = None
        /\ \A t \in Ts : t # n => events[k][t] = None /\ sessions[k][t] = None
    <2>1. idx_msg[k] # None => idx_msg[k] \in Ts /\ events[k][idx_msg[k]] # None
      BY <1>0 DEF FjallInv, StoreInv, PointerNamesRow, TypeOK, Pointers
    <2>2. \A t \in Ts : events[k][t] # None => t = n
      BY <1>2 DEF FjallInv, TimelyInv, OneRowPerKey
    <2>3. won # None => k \notin pruned
      BY <1>1 DEF FjallInv, TimelyInv, UpsertsFresh
    <2>4. won # None /\ n # None => idx_msg[k] = n
      BY <1>2, <2>3 DEF FjallInv, TimelyInv, OneRowPerKey
    <2>5. \A t \in Ts : sessions[k][t] # None => events[k][t] # None
      BY DEF FjallInv, StoreInv, SessionsFollowRows
    <2> QED BY <1>2, <2>1, <2>2, <2>4, <2>5
  <1>4. CASE won = None
    <2>1. ~Lands(j, k)
      BY <1>4 DEF Lands
    <2>2. events'[k] = events[k] /\ sessions'[k] = sessions[k] /\ newest'[k] = newest[k]
      BY <1>0, <1>4, <2>1, UpsertPointwise
    <2> QED BY <1>4, <2>2 DEF EntryAt
  <1>5. CASE won # None /\ ~Lands(j, k)
    <2>1. won \in Won /\ won.ts \in Int
      BY <1>0, <1>5, JobFields, WonFields
    <2>2. n # None /\ ~(won.ts >= n)
      BY <1>1, <1>3, <1>5 DEF Lands
    <2>3. events'[k] = events[k] /\ sessions'[k] = sessions[k] /\ newest'[k] = Later(newest[k], won.ts)
      BY <1>0, <1>5, UpsertPointwise
    <2>4. Later(newest[k], won.ts) = newest[k]
      BY <1>2, <2>1, <2>2 DEF Later
    <2>5. new = old
      BY <2>3, <2>4 DEF EntryAt
    <2>6. old.ts = n /\ won.ts < n
      BY <1>2, <2>1, <2>2 DEF EntryAt
    <2>7. old # None => old # None /\ won.ts < old.ts
      BY <2>6
    <2>8. old # None
      <3>1. old \in Won
        <4>1. events[k][n] \in Row /\ sessions[k][n] \in Sessions \cup {None} /\ n \in Ts
          BY <1>0, <1>2, <2>2 DEF TypeOK, Table
        <4> QED BY <2>2, <4>1 DEF EntryAt, Won, Row
      <3> QED BY <3>1, FjallAssumption
    <2> QED BY <1>5, <2>5, <2>7, <2>8
  <1>6. CASE won # None /\ Lands(j, k)
    <2>1. won \in Won /\ won.ts \in Int /\ won.ts \in Ts /\ won.ts # None
      BY <1>0, <1>6, JobFields, WonFields
    <2>2. n # None => won.ts >= n
      BY <1>1, <1>3, <1>6 DEF Lands
    <2>3. newest'[k] = won.ts
      <3>1. newest'[k] = Later(newest[k], won.ts)
        BY <1>0, <1>6, UpsertPointwise
      <3> QED BY <1>2, <2>1, <2>2, <3>1 DEF Later
    <2>4. events'[k][won.ts] = NewRow(j, k)
      BY <1>0, <1>6, UpsertPointwise
    <2>5. sessions'[k][won.ts] = won.sess
      <3>1. sessions'[k][won.ts] = SessionAfter(j, k, won.ts)
        BY <2>1 DEF UpsertCommit
      <3>2. Into(j, k, won.ts) /\ (OutOf(j, k, won.ts) <=> idx_msg[k] = won.ts)
        BY <1>1, <1>6, <2>1 DEF Into, OutOf
      <3>3. n # won.ts => sessions[k][won.ts] = None
        BY <1>3, <2>1
      <3>4. n = won.ts => idx_msg[k] = won.ts
        BY <1>3, <1>6, <2>1
      <3> QED BY <3>1, <3>2, <3>3, <3>4 DEF SessionAfter
    <2>6. EntryAt(k, newest[k])' = [ts |-> won.ts, user |-> won.user, val |-> won.val,
                                    sess |-> won.sess]
      BY <2>3, <2>4, <2>5 DEF EntryAt, NewRow
    <2>7. new = won
      <3>1. won = [ts |-> won.ts, user |-> won.user, val |-> won.val, sess |-> won.sess]
        BY <2>1 DEF Won
      <3>2. newest'[k] # None
        BY <2>1, <2>3
      <3> QED BY <2>6, <3>1, <3>2
    <2>8. ~(old # None /\ won.ts < old.ts)
      BY <1>2, <2>1, <2>2 DEF EntryAt
    <2> QED BY <1>6, <2>7, <2>8
  <1> QED BY <1>4, <1>5, <1>6
LEMMA RefineStep ==
  ASSUME FjallInv, FjallInv', [TimelyNext]_vars,
         \A k \in Key : Visible[k] = IF newest[k] = None THEN None ELSE EntryAt(k, newest[k]),
         \A k \in Key : Visible'[k] = (IF newest[k] = None THEN None ELSE EntryAt(k, newest[k]))'
  PROVE  [Abstract!Next]_Visible
  <1>0. TypeOK /\ LockInv
    BY DEF FjallInv
  <1>1. [Next]_vars
    BY TimelyIsNext
  <1>k. Key = Abstract!Key /\ Batches = Abstract!Batches
    BY DEF Key, Abstract!Key, Batches, Abstract!Batches, Item, Abstract!Item
  <1>v. Visible' = [k \in Key |-> Visible'[k]]
    BY DEF Visible
  <1>2. CASE OpenCleared
    <2>1. Visible' = [k \in Key |-> None]
      BY <1>2, <1>v DEF OpenCleared, NoPtr
    <2>2. Abstract!Clear
      BY <1>k, <2>1 DEF Abstract!Clear
    <2> QED BY <2>2 DEF Abstract!Next
  <1>3. ASSUME NEW w \in Workers, UpsertCommit(w)
        PROVE  Abstract!Next
    <2> DEFINE d == job[w].dev
    <2>1. d \in Devices
      BY <1>0, JobFields
    <2>2. job[w].op = "upsert"
      BY <1>3 DEF UpsertCommit
    <2>3. PICK p \in Providers, u \in Users, b \in Batches : job[w].won = Winners(d, p, u, b)
      BY <1>0, <2>2 DEF LockInv, JobOfBatch
    <2> DEFINE Touched(k) == k.dev = d /\ k.prov = p /\ Abstract!Newest(b, k.msg) # {}
    <2>4. ASSUME NEW k \in Key
          PROVE  LET won == job[w].won[k]
                 IN  /\ won = None => Visible'[k] = Visible[k]
                     /\ won # None => Visible'[k] = IF Visible[k] # None /\ won.ts < Visible[k].ts
                                                    THEN Visible[k] ELSE won
      BY <1>3, UpsertVisible
    <2>5. ASSUME NEW k \in Key, ~Touched(k)
          PROVE  Visible'[k] = Visible[k]
      <3>1. job[w].won[k] = None
        <4>1. CASE k.dev = d /\ k.prov = p /\ \E i \in DOMAIN b : b[i].msg = k.msg
          <5>1. PICK i \in DOMAIN b :
                  /\ b[i].msg = k.msg
                  /\ \A j \in DOMAIN b : b[j].msg = k.msg => b[j].ts <= b[i].ts
                  /\ Winners(d, p, u, b)[k] = [ts |-> b[i].ts, user |-> u, val |-> b[i].val,
                                               sess |-> b[i].sess]
            BY <2>1, <4>1, WonOfKey
          <5>2. Abstract!Newest(b, k.msg) # {}
            BY <5>1 DEF Abstract!Newest
          <5> QED BY <2>5, <4>1, <5>2
        <4>2. CASE ~(k.dev = d /\ k.prov = p /\ \E i \in DOMAIN b : b[i].msg = k.msg)
          BY <2>1, <2>3, <4>2, WonOfKey
        <4> QED BY <4>1, <4>2
      <3> QED BY <2>4, <3>1
    <2>6. ASSUME NEW k \in Key, Touched(k)
          PROVE  \E i \in Abstract!Newest(b, k.msg) :
                   Visible'[k] = IF Visible[k] # None /\ b[i].ts < Visible[k].ts
                                 THEN Visible[k] ELSE Abstract!EntryOf(u, b[i])
      <3>1. k.dev = d /\ k.prov = p /\ \E i \in DOMAIN b : b[i].msg = k.msg
        BY <2>6 DEF Abstract!Newest
      <3>2. job[w].won[k] \in Won /\ job[w].won[k] # None
        BY <2>1, <2>3, <3>1, WonOfKey
      <3>3. PICK i \in DOMAIN b :
              /\ b[i].msg = k.msg
              /\ \A j \in DOMAIN b : b[j].msg = k.msg => b[j].ts <= b[i].ts
              /\ job[w].won[k] = [ts |-> b[i].ts, user |-> u, val |-> b[i].val, sess |-> b[i].sess]
        BY <2>1, <2>3, <3>1, WonOfKey
      <3>4. i \in Abstract!Newest(b, k.msg)
        BY <3>3 DEF Abstract!Newest
      <3>5. job[w].won[k] = Abstract!EntryOf(u, b[i]) /\ job[w].won[k].ts = b[i].ts
        BY <3>3 DEF Abstract!EntryOf
      <3>6. Visible'[k] = IF Visible[k] # None /\ b[i].ts < Visible[k].ts
                          THEN Visible[k] ELSE Abstract!EntryOf(u, b[i])
        BY <2>4, <3>2, <3>5
      <3> QED BY <3>4, <3>6
    <2>7. Abstract!Upsert(d, p, u, b)
      BY <1>k, <2>5, <2>6 DEF Abstract!Upsert
    <2> QED BY <1>k, <2>1, <2>7 DEF Abstract!Next
  <1>4. ASSUME NEW w \in Workers, DeleteCommit(w)
        PROVE  Abstract!Next
    <2> DEFINE d == job[w].dev
    <2>1. d \in Devices
      BY <1>0, JobFields
    <2>2. ASSUME NEW k \in Key
          PROVE  Visible'[k] = IF k.dev = d THEN None ELSE Visible[k]
      <3>1. CASE k.dev = d
        BY <1>0, <1>4, <3>1, DeletePointwise
      <3>2. CASE k.dev # d
        <4>1. events'[k] = events[k] /\ sessions'[k] = sessions[k] /\ newest'[k] = newest[k]
          BY <1>0, <1>4, <3>2, DeletePointwise
        <4> QED BY <3>2, <4>1 DEF EntryAt
      <3> QED BY <3>1, <3>2
    <2>3. Visible' = [k \in Key |-> IF k.dev = d THEN None ELSE Visible[k]]
      BY <1>v, <2>2
    <2>4. Abstract!DeleteDevice(d)
      BY <1>k, <2>3 DEF Abstract!DeleteDevice
    <2> QED BY <2>1, <2>4 DEF Abstract!Next
  <1>5. CASE \/ Open \/ BackfillChunk \/ BackfillDone \/ Crash
             \/ \E w \in Workers : CleanupCommit(w)
             \/ UNCHANGED <<store, version, marker, phase, scanned, pruned, newest>>
    <2>1. UNCHANGED <<events, sessions>>
      BY <1>5 DEF Open, BackfillChunk, BackfillDone, Crash, CleanupCommit, store
    <2> QED BY <2>1, RefineSame
  <1> QED BY <1>1, <1>2, <1>3, <1>4, <1>5, FjallSteps

(* The four keyspaces together implement the EventStore contract: every      *)
(* commit of upsert_events or delete_device_events is one step of it, and    *)
(* opening, backfilling, pruning, crashing and failing change nothing that a *)
(* query finds.                                                              *)
THEOREM StoreImplementsContract == TimelySpec => ImplementsEventStore
  <1> DEFINE Vis == \A k \in Key :
               Visible[k] = IF newest[k] = None THEN None ELSE EntryAt(k, newest[k])
  <1>1. FjallInv => Vis
    BY VisibleEntry
  <1>2. FjallInv /\ FjallInv' /\ Vis /\ Vis' /\ [TimelyNext]_vars => [Abstract!Next]_Visible
    BY RefineStep
  <1>3. FjallInv => Abstract!Init
    BY RefineInit
  <1> HIDE DEF Vis
  <1> QED BY <1>1, <1>2, <1>3, TimelyInvariant, PTL
          DEF TimelySpec, ImplementsEventStore, Abstract!Spec
=============================================================================
