---------------------------- MODULE ActiveCache -----------------------------
(***************************************************************************)
(* The shared cache of account status (server/http.rs, ActiveCacheInner)   *)
(* and its writers (server/handlers/admin.rs): concurrent checks fill it   *)
(* from the database while administrators change the flag and evict.       *)
(*                                                                         *)
(* A check is is_user_active_cached: look for a fresh entry, note the      *)
(* generation, read the database, cache the answer if no eviction came     *)
(* between.  The lookup, the insertion and the eviction hold the map's     *)
(* mutex, so each is one step; the database calls are awaits between them. *)
(***************************************************************************)
EXTENDS Integers, FiniteSets

CONSTANTS Users, Checks, Admins,
          MaxGen,   \* bound on the number of evictions
          None

ASSUME CacheAssumption == Users # {} /\ MaxGen \in Nat

VARIABLES
  exists,      \* the users rows
  active,      \* users.active; FALSE, what a check reads, for a deleted user
  map,         \* ActiveCacheInner.map: [active, fresh] per user, or None
  generation,  \* ActiveCacheInner.generation
  check,       \* the checks in progress
  admin,       \* the admin requests in progress
  missed       \* history: users whose flag was changed by a request that was
               \* dropped before its eviction, and not evicted since

vars == <<exists, active, map, generation, check, admin, missed>>

Entry == [active : BOOLEAN, fresh : BOOLEAN]   \* fresh: younger than the TTL

CheckState == [st : {"idle", "missed", "noted", "read"}, user : Users,
               gen : Nat, val : BOOLEAN]
AdminState == [st : {"idle", "set", "delete", "evict", "evict_delete", "row"},
               user : Users, to : BOOLEAN]

IdleCheck == [st |-> "idle", user |-> CHOOSE u \in Users : TRUE, gen |-> 0, val |-> FALSE]
IdleAdmin == [st |-> "idle", user |-> CHOOSE u \in Users : TRUE, to |-> FALSE]

TypeOK ==
  /\ exists \in [Users -> BOOLEAN]
  /\ active \in [Users -> BOOLEAN]
  /\ map \in [Users -> Entry \cup {None}]
  /\ generation \in Nat
  /\ check \in [Checks -> CheckState]
  /\ admin \in [Admins -> AdminState]
  /\ missed \subseteq Users

Init ==
  /\ exists = [u \in Users |-> TRUE]
  /\ active \in [Users -> BOOLEAN]
  /\ map = [u \in Users |-> None]
  /\ generation = 0
  /\ check = [c \in Checks |-> IdleCheck]
  /\ admin = [a \in Admins |-> IdleAdmin]
  /\ missed = {}

-----------------------------------------------------------------------------
(* is_user_active_cached                                                     *)

FreshForever(u) == map[u] # None   \* seeded fault: the TTL is not consulted

Fresh(u) == map[u] # None /\ map[u].fresh

(* get_fresh answers; the check is over. *)
Hit(c, u) ==
  /\ check[c].st = "idle" /\ Fresh(u)
  /\ UNCHANGED vars

Miss(c, u) ==
  /\ check[c].st = "idle" /\ ~Fresh(u)
  /\ check' = [check EXCEPT ![c] = [IdleCheck EXCEPT !.st = "missed", !.user = u]]
  /\ UNCHANGED <<exists, active, map, generation, admin, missed>>

NoteGeneration(c) ==
  /\ check[c].st = "missed"
  /\ check' = [check EXCEPT ![c].st = "noted", ![c].gen = generation]
  /\ UNCHANGED <<exists, active, map, generation, admin, missed>>

ReadUser(c) ==
  /\ check[c].st = "noted"
  /\ check' = [check EXCEPT ![c].st = "read", ![c].val = active[check[c].user]]
  /\ UNCHANGED <<exists, active, map, generation, admin, missed>>

(* The database read fails; nothing is cached. *)
ReadFails(c) ==
  /\ check[c].st = "noted"
  /\ check' = [check EXCEPT ![c] = IdleCheck]
  /\ UNCHANGED <<exists, active, map, generation, admin, missed>>

InsertedAlways(c) == TRUE   \* seeded fault: no generation check

(* No eviction since the generation was noted. *)
StillCurrent(c) == check[c].gen = generation

(* insert_if_current: sweep what expired, then insert. *)
Insert(c) ==
  LET swept == [u \in Users |-> IF Fresh(u) THEN map[u] ELSE None]
      new   == [active |-> check[c].val, fresh |-> TRUE]
  IN
  /\ check[c].st = "read"
  /\ map' = IF StillCurrent(c) THEN [swept EXCEPT ![check[c].user] = new] ELSE swept
  /\ check' = [check EXCEPT ![c] = IdleCheck]
  /\ UNCHANGED <<exists, active, generation, admin, missed>>

(* ACTIVE_CACHE_TTL passes for an entry. *)
Expire(u) ==
  /\ Fresh(u)
  /\ map' = [map EXCEPT ![u].fresh = FALSE]
  /\ UNCHANGED <<exists, active, generation, check, admin, missed>>

-----------------------------------------------------------------------------
(* admin_set_user_active, admin_delete_user                                  *)

Busy == {a \in Admins : admin[a].st # "idle"}

AdminSet(a, u, b) ==
  /\ admin[a].st = "idle" /\ exists[u]
  /\ generation + Cardinality(Busy) < MaxGen
  /\ admin' = [admin EXCEPT ![a] = [st |-> "set", user |-> u, to |-> b]]
  /\ UNCHANGED <<exists, active, map, generation, check, missed>>

AdminDelete(a, u) ==
  /\ admin[a].st = "idle" /\ exists[u]
  /\ generation + Cardinality(Busy) < MaxGen
  /\ admin' = [admin EXCEPT ![a] = [st |-> "delete", user |-> u, to |-> FALSE]]
  /\ UNCHANGED <<exists, active, map, generation, check, missed>>

(* set_user_active reaches the database, or finds no row: the activation     *)
(* handler then answers "not found", the deletion ignores it.                *)
WriteActive(a) ==
  LET s == admin[a] IN
  /\ s.st \in {"set", "delete"}
  /\ active' = [active EXCEPT ![s.user] = IF exists[s.user] THEN s.to ELSE @]
  /\ admin' = [admin EXCEPT ![a] =
       CASE s.st = "delete" -> [s EXCEPT !.st = "evict_delete"]
         [] s.st = "set" /\ exists[s.user] -> [s EXCEPT !.st = "evict"]
         [] OTHER -> IdleAdmin]
  /\ UNCHANGED <<exists, map, generation, check, missed>>

(* It fails: the activation handler returns, the deletion goes on.           *)
WriteFails(a) ==
  /\ admin[a].st \in {"set", "delete"}
  /\ admin' = [admin EXCEPT ![a] = IF @.st = "set" THEN IdleAdmin
                                   ELSE [@ EXCEPT !.st = "evict_delete"]]
  /\ UNCHANGED <<exists, active, map, generation, check, missed>>

(* The client hangs up while set_user_active is awaited: the statement runs, *)
(* the handler, and its eviction, do not.                                    *)
RequestDropped(a) ==
  LET s == admin[a] IN
  /\ s.st \in {"set", "delete"}
  /\ active' = [active EXCEPT ![s.user] = IF exists[s.user] THEN s.to ELSE @]
  /\ admin' = [admin EXCEPT ![a] = IdleAdmin]
  /\ missed' = missed \cup {s.user}
  /\ UNCHANGED <<exists, map, generation, check>>

(* evict: remove the entry and bump the generation, under the map's mutex.   *)
EvictUser(u) == map' = [map EXCEPT ![u] = None] /\ generation' = generation + 1

Evict(a) ==
  LET s == admin[a] IN
  /\ s.st \in {"evict", "evict_delete"}
  /\ EvictUser(s.user)
  /\ missed' = missed \ {s.user}
  /\ admin' = [admin EXCEPT ![a] = IF s.st = "evict" THEN IdleAdmin
                                   ELSE [s EXCEPT !.st = "row"]]
  /\ UNCHANGED <<exists, active, check>>

(* delete_user: the row is gone, which a check reads as inactive; no         *)
(* eviction follows.                                                         *)
DeleteRow(a) ==
  /\ admin[a].st = "row"
  /\ exists' = [exists EXCEPT ![admin[a].user] = FALSE]
  /\ active' = [active EXCEPT ![admin[a].user] = FALSE]
  /\ admin' = [admin EXCEPT ![a] = IdleAdmin]
  /\ UNCHANGED <<map, generation, check, missed>>

-----------------------------------------------------------------------------
Next ==
  \/ \E c \in Checks :
       \/ \E u \in Users : Hit(c, u) \/ Miss(c, u)
       \/ NoteGeneration(c) \/ ReadUser(c) \/ ReadFails(c) \/ Insert(c)
  \/ \E u \in Users : Expire(u)
  \/ \E a \in Admins :
       \/ \E u \in Users : AdminDelete(a, u) \/ \E b \in BOOLEAN : AdminSet(a, u, b)
       \/ WriteActive(a) \/ WriteFails(a) \/ RequestDropped(a) \/ Evict(a) \/ DeleteRow(a)

Spec == Init /\ [][Next]_vars

(* Time passes. *)
FairSpec == Spec /\ \A u \in Users : WF_vars(Expire(u))

-----------------------------------------------------------------------------
(* Between the database write and the eviction the old value may be served,  *)
(* as if the check had come before the write.                                *)
Pending(u) ==
  \E a \in Admins : admin[a].user = u /\ admin[a].st \in {"evict", "evict_delete"}

Stale(u) == Fresh(u) /\ map[u].active # active[u]

(* A trusted entry is what the database says, whatever checks were reading   *)
(* while administrators changed the flag and evicted: the window that the    *)
(* generation closes (the comment on ActiveCacheInner).  Left out are two    *)
(* wrong entries that the code leaves until they expire: that of a request   *)
(* dropped half-way (until the user's next eviction, at most), and that of a *)
(* deleted account whose deactivation failed, an error nobody looks at.      *)
NoStaleEntry == \A u \in Users : exists[u] /\ ~Pending(u) /\ u \notin missed => ~Stale(u)

(* Even when an administrator's request is dropped before its eviction, or   *)
(* its write fails, a wrong entry is not trusted for ever.                   *)
StaleHeals == \A u \in Users : []<>(~Stale(u))
=============================================================================
