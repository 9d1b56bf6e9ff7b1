------------------------- MODULE ActiveCacheProofs --------------------------
(***************************************************************************)
(* The active cache never trusts a stale entry, for any number of users,   *)
(* concurrent checks and administrators.                                   *)
(***************************************************************************)
EXTENDS ActiveCache, TLAPS

(* A check that noted the current generation has not been overtaken by an    *)
(* eviction; what it read is then what the database says, unless a change of *)
(* the user is still to be followed by its eviction.                         *)
ReadsCurrent ==
  /\ \A c \in Checks : check[c].st \in {"noted", "read"} => check[c].gen <= generation
  /\ \A c \in Checks :
       check[c].st = "read" /\ check[c].gen = generation
         /\ exists[check[c].user] /\ ~Pending(check[c].user) /\ check[c].user \notin missed
       => check[c].val = active[check[c].user]

CacheInv == TypeOK /\ ReadsCurrent /\ NoStaleEntry

LEMMA IdleTypes == IdleCheck \in CheckState /\ IdleAdmin \in AdminState
  BY CacheAssumption DEF IdleCheck, IdleAdmin, CheckState, AdminState

(* Every step keeps the state well typed: the values the handlers of         *)
(* admin.rs and is_user_active_cached assign.                                *)
LEMMA TypeStep == TypeOK /\ [Next]_vars => TypeOK'
  <1> SUFFICES ASSUME TypeOK, [Next]_vars PROVE TypeOK'
    OBVIOUS
  <1> USE IdleTypes
  <1>1. ASSUME NEW c \in Checks, NEW u \in Users, Miss(c, u) PROVE TypeOK'
    <2>1. [IdleCheck EXCEPT !.st = "missed", !.user = u] \in CheckState
      BY DEF CheckState, IdleCheck
    <2> QED BY <1>1, <2>1 DEF Miss, TypeOK
  <1>2. ASSUME NEW c \in Checks, NoteGeneration(c) PROVE TypeOK'
    BY <1>2 DEF NoteGeneration, TypeOK, CheckState
  <1>3. ASSUME NEW c \in Checks, ReadUser(c) PROVE TypeOK'
    BY <1>3 DEF ReadUser, TypeOK, CheckState
  <1>4. ASSUME NEW c \in Checks, ReadFails(c) PROVE TypeOK'
    BY <1>4 DEF ReadFails, TypeOK
  <1>5. ASSUME NEW c \in Checks, Insert(c) PROVE TypeOK'
    <2>1. [active |-> check[c].val, fresh |-> TRUE] \in Entry
      BY DEF TypeOK, CheckState, Entry
    <2>2. map' \in [Users -> Entry \cup {None}]
      BY <1>5, <2>1 DEF Insert, TypeOK
    <2> QED BY <1>5, <2>2 DEF Insert, TypeOK
  <1>6. ASSUME NEW u \in Users, Expire(u) PROVE TypeOK'
    <2>1. map[u] \in Entry
      BY <1>6 DEF Expire, Fresh, TypeOK
    <2>2. [map[u] EXCEPT !.fresh = FALSE] \in Entry
      BY <2>1 DEF Entry
    <2> QED BY <1>6, <2>2 DEF Expire, TypeOK
  <1>7. ASSUME NEW a \in Admins, NEW u \in Users, NEW b \in BOOLEAN, AdminSet(a, u, b)
        PROVE TypeOK'
    BY <1>7 DEF AdminSet, TypeOK, AdminState
  <1>8. ASSUME NEW a \in Admins, NEW u \in Users, AdminDelete(a, u) PROVE TypeOK'
    BY <1>8 DEF AdminDelete, TypeOK, AdminState
  <1>9. ASSUME NEW a \in Admins, WriteActive(a) PROVE TypeOK'
    <2>1. admin' \in [Admins -> AdminState]
      BY <1>9 DEF WriteActive, TypeOK, AdminState
    <2>2. active' \in [Users -> BOOLEAN]
      BY <1>9 DEF WriteActive, TypeOK, AdminState
    <2> QED BY <1>9, <2>1, <2>2 DEF WriteActive, TypeOK
  <1>10. ASSUME NEW a \in Admins, WriteFails(a) PROVE TypeOK'
    BY <1>10 DEF WriteFails, TypeOK, AdminState
  <1>11. ASSUME NEW a \in Admins, RequestDropped(a) PROVE TypeOK'
    BY <1>11 DEF RequestDropped, TypeOK, AdminState
  <1>12. ASSUME NEW a \in Admins, Evict(a) PROVE TypeOK'
    <2>1. admin' \in [Admins -> AdminState]
      BY <1>12 DEF Evict, TypeOK, AdminState
    <2> QED BY <1>12, <2>1 DEF Evict, EvictUser, TypeOK, AdminState
  <1>13. ASSUME NEW a \in Admins, DeleteRow(a) PROVE TypeOK'
    BY <1>13 DEF DeleteRow, TypeOK, AdminState
  <1>14. CASE UNCHANGED vars
    BY <1>14 DEF vars, TypeOK
  <1> QED
    BY <1>1, <1>2, <1>3, <1>4, <1>5, <1>6, <1>7, <1>8, <1>9, <1>10, <1>11, <1>12,
       <1>13, <1>14 DEF Next, Hit

(* The database, the cache and the checks are typed in every reachable state *)
(* of is_user_active_cached and the admin handlers.                          *)
THEOREM CacheTypeCorrect == Spec => []TypeOK
  <1>1. Init => TypeOK
    BY IdleTypes DEF Init, TypeOK
  <1> QED
    BY <1>1, TypeStep, PTL DEF Spec

(* Every step keeps every trusted entry and every read in progress in        *)
(* agreement with the database.                                              *)
LEMMA CacheStep == CacheInv /\ [Next]_vars => CacheInv'
  <1> SUFFICES ASSUME CacheInv, [Next]_vars PROVE CacheInv'
    OBVIOUS
  <1>t. TypeOK /\ TypeOK'
    BY TypeStep DEF CacheInv
  <1> USE <1>t
  <1> SUFFICES ReadsCurrent' /\ NoStaleEntry'
    BY DEF CacheInv
  <1> USE DEF CacheInv
  <1>1. ASSUME NEW c \in Checks, NEW u \in Users, Miss(c, u)
        PROVE ReadsCurrent' /\ NoStaleEntry'
    BY <1>1 DEF Miss, IdleCheck, ReadsCurrent, NoStaleEntry, Stale, Fresh, Pending, TypeOK
  <1>2. ASSUME NEW c \in Checks, NoteGeneration(c) PROVE ReadsCurrent' /\ NoStaleEntry'
    BY <1>2 DEF NoteGeneration, ReadsCurrent, NoStaleEntry, Stale, Fresh, Pending, TypeOK, CheckState
  <1>3. ASSUME NEW c \in Checks, ReadUser(c) PROVE ReadsCurrent' /\ NoStaleEntry'
    BY <1>3, SMTT(30) DEF ReadUser, ReadsCurrent, NoStaleEntry, Stale, Fresh, Pending, TypeOK, CheckState
  <1>4. ASSUME NEW c \in Checks, ReadFails(c) PROVE ReadsCurrent' /\ NoStaleEntry'
    BY <1>4 DEF ReadFails, IdleCheck, ReadsCurrent, NoStaleEntry, Stale, Fresh, Pending, TypeOK
  <1>5. ASSUME NEW c \in Checks, Insert(c) PROVE ReadsCurrent' /\ NoStaleEntry'
    <2>1. ReadsCurrent'
      BY <1>5 DEF Insert, IdleCheck, ReadsCurrent, Pending, TypeOK
    <2>2. ASSUME NEW u \in Users, Fresh(u)', map'[u] # map[u]
          PROVE u = check[c].user /\ map'[u].active = check[c].val /\ StillCurrent(c)
      BY <1>5, <2>2 DEF Insert, TypeOK, Fresh
    <2>3. NoStaleEntry'
      BY <1>5, <2>2 DEF Insert, StillCurrent, ReadsCurrent, NoStaleEntry, Stale, Fresh,
         Pending, TypeOK
    <2> QED BY <2>1, <2>3
  <1>6. ASSUME NEW u \in Users, Expire(u) PROVE ReadsCurrent' /\ NoStaleEntry'
    <2>1. map[u] \in Entry
      BY <1>6 DEF Expire, Fresh, TypeOK
    <2> QED BY <1>6, <2>1 DEF Expire, Entry, ReadsCurrent, NoStaleEntry, Stale, Fresh, Pending, TypeOK
  <1>7. ASSUME NEW a \in Admins, NEW u \in Users, NEW b \in BOOLEAN, AdminSet(a, u, b)
        PROVE ReadsCurrent' /\ NoStaleEntry'
    <2>1. \A v \in Users : Pending(v)' <=> Pending(v)
      BY <1>7 DEF AdminSet, Pending, TypeOK, AdminState
    <2> QED BY <1>7, <2>1 DEF AdminSet, ReadsCurrent, NoStaleEntry, Stale, Fresh, TypeOK, CheckState
  <1>8. ASSUME NEW a \in Admins, NEW u \in Users, AdminDelete(a, u)
        PROVE ReadsCurrent' /\ NoStaleEntry'
    <2>1. \A v \in Users : Pending(v)' <=> Pending(v)
      BY <1>8 DEF AdminDelete, Pending, TypeOK, AdminState
    <2> QED BY <1>8, <2>1 DEF AdminDelete, ReadsCurrent, NoStaleEntry, Stale, Fresh, TypeOK, CheckState
  <1>9. ASSUME NEW a \in Admins, WriteActive(a) PROVE ReadsCurrent' /\ NoStaleEntry'
    <2>1. PICK w \in Users : w = admin[a].user /\ admin[a].st \in {"set", "delete"}
      BY <1>9 DEF WriteActive, TypeOK, AdminState
    <2>2. exists[w] => Pending(w)'
      BY <1>9, <2>1 DEF WriteActive, Pending, TypeOK, AdminState
    <2>3. \A v \in Users : v # w => (Pending(v)' <=> Pending(v)) /\ active'[v] = active[v]
      BY <1>9, <2>1 DEF WriteActive, Pending, TypeOK, AdminState, IdleAdmin
    <2>4. UNCHANGED <<exists, map, generation, check, missed>>
      BY <1>9 DEF WriteActive
    <2>5. ASSUME NEW v \in Users, exists'[v], ~Pending(v)'
          PROVE  exists[v] /\ ~Pending(v) /\ active'[v] = active[v]
      BY <2>2, <2>3, <2>4, <2>5
    <2>6. ReadsCurrent'
      <3>1. \A c \in Checks : check[c].user \in Users
        BY DEF TypeOK, CheckState
      <3> QED BY <2>4, <2>5, <3>1 DEF ReadsCurrent
    <2>7. NoStaleEntry'
      BY <2>4, <2>5 DEF NoStaleEntry, Stale, Fresh
    <2> QED BY <2>6, <2>7
  <1>10. ASSUME NEW a \in Admins, WriteFails(a) PROVE ReadsCurrent' /\ NoStaleEntry'
    <2>1. \A v \in Users : Pending(v) => Pending(v)'
      BY <1>10 DEF WriteFails, Pending, TypeOK, AdminState, IdleAdmin
    <2>2. UNCHANGED <<exists, active, map, generation, check, missed>>
      BY <1>10 DEF WriteFails
    <2> QED BY <2>1, <2>2 DEF ReadsCurrent, NoStaleEntry, Stale, Fresh, TypeOK, CheckState
  <1>11. ASSUME NEW a \in Admins, RequestDropped(a) PROVE ReadsCurrent' /\ NoStaleEntry'
    <2>1. PICK w \in Users : w = admin[a].user /\ admin[a].st \in {"set", "delete"}
      BY <1>11 DEF RequestDropped, TypeOK, AdminState
    <2>2. /\ \A v \in Users : Pending(v) => Pending(v)'
          /\ \A v \in Users : v # w => active'[v] = active[v]
          /\ missed' = missed \cup {w} /\ UNCHANGED <<exists, map, generation, check>>
      BY <1>11, <2>1 DEF RequestDropped, Pending, TypeOK, AdminState, IdleAdmin
    <2> QED BY <2>2 DEF ReadsCurrent, NoStaleEntry, Stale, Fresh, TypeOK, CheckState
  <1>12. ASSUME NEW a \in Admins, Evict(a) PROVE ReadsCurrent' /\ NoStaleEntry'
    <2> DEFINE s == admin[a]
    <2>1. s \in AdminState /\ s.user \in Users /\ s.st \in {"evict", "evict_delete"}
      BY <1>12 DEF Evict, TypeOK, AdminState
    <2>2. /\ generation' = generation + 1 /\ map' = [map EXCEPT ![s.user] = None]
          /\ missed' = missed \ {s.user} /\ UNCHANGED <<exists, active, check>>
      BY <1>12 DEF Evict, EvictUser
    <2>3. \A v \in Users : v # s.user => (Pending(v)' <=> Pending(v))
      BY <1>12, <2>1 DEF Evict, Pending, TypeOK, AdminState, IdleAdmin
    <2>4. ReadsCurrent'
      BY <2>2 DEF ReadsCurrent, TypeOK, CheckState
    <2>5. NoStaleEntry'
      BY <2>1, <2>2, <2>3 DEF NoStaleEntry, Stale, Fresh, TypeOK
    <2> QED BY <2>4, <2>5
  <1>13. ASSUME NEW a \in Admins, DeleteRow(a) PROVE ReadsCurrent' /\ NoStaleEntry'
    <2>1. admin[a].user \in Users
      BY DEF TypeOK, AdminState
    <2>2. \A v \in Users : v # admin[a].user =>
             (Pending(v)' <=> Pending(v)) /\ active'[v] = active[v] /\ exists'[v] = exists[v]
      BY <1>13, <2>1 DEF DeleteRow, Pending, TypeOK, AdminState, IdleAdmin
    <2>3. ~exists'[admin[a].user] /\ UNCHANGED <<map, generation, check, missed>>
      BY <1>13, <2>1 DEF DeleteRow, TypeOK
    <2> QED BY <2>1, <2>2, <2>3 DEF ReadsCurrent, NoStaleEntry, Stale, Fresh, TypeOK, CheckState
  <1>14. CASE UNCHANGED vars
    BY <1>14 DEF vars, ReadsCurrent, NoStaleEntry, Stale, Fresh, Pending
  <1> QED
    BY <1>1, <1>2, <1>3, <1>4, <1>5, <1>6, <1>7, <1>8, <1>9, <1>10, <1>11, <1>12, <1>13,
       <1>14 DEF Next, Hit

(* NoStaleEntry of ActiveCacheInner, for every number of users, checks and   *)
(* administrators: a trusted entry agrees with the database, unless the      *)
(* request that changed the flag was dropped before its eviction.            *)
THEOREM CacheNeverStale == Spec => []NoStaleEntry
  <1>1. Init => CacheInv
    <2> SUFFICES ASSUME Init PROVE CacheInv
      OBVIOUS
    <2>1. TypeOK
      BY IdleTypes DEF Init, TypeOK
    <2>2. ReadsCurrent
      BY DEF Init, ReadsCurrent, IdleCheck
    <2>3. NoStaleEntry
      BY DEF Init, NoStaleEntry, Stale, Fresh
    <2> QED BY <2>1, <2>2, <2>3 DEF CacheInv
  <1>2. CacheInv /\ [Next]_vars => CacheInv'
    BY CacheStep
  <1>3. CacheInv => NoStaleEntry
    BY DEF CacheInv
  <1> QED
    BY <1>1, <1>2, <1>3, PTL DEF Spec
=============================================================================
