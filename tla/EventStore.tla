----------------------------- MODULE EventStore -----------------------------
(***************************************************************************)
(* What the `EventStore` trait (events/mod.rs) promises its callers about  *)
(* events, whatever the backend: one entry per (device, provider, message) *)
(* key, replaced only by an entry that is not older, and removed only when *)
(* its device is purged or the whole store is cleared.                     *)
(***************************************************************************)
EXTENDS Integers

CONSTANTS Devices, Providers, Msgs, Users, Vals, Sessions,
          Ts,        \* event timestamps (ts_ms)
          MaxBatch,  \* bound on the items of one upsert
          None       \* "no entry", "no session"

VARIABLE rows        \* [Key -> Entry or None]

Key   == [dev : Devices, prov : Providers, msg : Msgs]
Item  == [msg : Msgs, ts : Ts, val : Vals, sess : Sessions \cup {None}]
Entry == [ts : Ts, user : Users, val : Vals, sess : Sessions \cup {None}]

Batches == UNION {[1..n -> Item] : n \in 1..MaxBatch}

(* A store may be opened over the events of an earlier release. *)
Init == rows \in [Key -> Entry \cup {None}]

EntryOf(u, i) == [ts |-> i.ts, user |-> u, val |-> i.val, sess |-> i.sess]

(* The positions of batch b that hold the newest item for message m. *)
Newest(b, m) ==
  {i \in DOMAIN b : /\ b[i].msg = m
                    /\ \A j \in DOMAIN b : b[j].msg = m => b[j].ts <= b[i].ts}

(* user u uploads b for (d, p): for each message the newest item wins over   *)
(* an entry that is not newer, and loses to one that is                      *)
Upsert(d, p, u, b) ==
  LET Touched(k) == k.dev = d /\ k.prov = p /\ Newest(b, k.msg) # {}
  IN  /\ \A k \in Key : ~Touched(k) => rows'[k] = rows[k]
      /\ \A k \in Key : Touched(k) =>
           \E i \in Newest(b, k.msg) :
             rows'[k] = IF rows[k] # None /\ b[i].ts < rows[k].ts
                        THEN rows[k]
                        ELSE EntryOf(u, b[i])

(* every entry of device d is removed, whatever its age or provider *)
DeleteDevice(d) ==
  rows' = [k \in Key |-> IF k.dev = d THEN None ELSE rows[k]]

(* an incompatible store version is cleared when the store is opened *)
Clear == rows' = [k \in Key |-> None]

Next ==
  \/ \E d \in Devices, p \in Providers, u \in Users, b \in Batches : Upsert(d, p, u, b)
  \/ \E d \in Devices : DeleteDevice(d)
  \/ Clear

Spec == Init /\ [][Next]_rows
=============================================================================
