----------------------------- MODULE BruteForce -----------------------------
(***************************************************************************)
(* The guard against guessing (auth/brute_force.rs): failed attempts per   *)
(* key (address and name) are counted in a window; enough of them lock the *)
(* key for a while.  check runs before the guess is evaluated and          *)
(* record_failure after it, in separate critical sections of the mutex, so *)
(* a handler that composes them can be overtaken in between.               *)
(***************************************************************************)
EXTENDS Integers

CONSTANTS GuardKeys,
          MaxAttempts,   \* max_attempts
          Window,        \* window_secs, in ticks of the clock
          Lockout,       \* lockout_secs
          None

VARIABLES clock,   \* Instant::now(), in ticks
          guard    \* inner: [GuardKeys -> Entry or None]

Entry == [count : Nat \ {0}, first : Nat, until : Nat \cup {None}]

(* The defaults are 5 attempts, 300 and 900 seconds. *)
ASSUME GuardAssumption ==
  /\ MaxAttempts \in Nat \ {0} /\ Window \in Nat /\ Lockout \in Nat \ {0}
  /\ None \notin Int \cup Entry

GuardTypeOK == clock \in Nat /\ guard \in [GuardKeys -> Entry \cup {None}]

Locked(k) ==
  guard[k] # None /\ guard[k].until # None /\ clock < guard[k].until

KeptByWindow(e) ==   \* seeded fault: a running lockout is swept
  clock - e.first <= Window

(* What retain keeps: a running lockout, else an open window. *)
Kept(e) == IF e.until # None THEN clock < e.until
                             ELSE clock - e.first <= Window

Sweep(g) == [k \in GuardKeys |->
               IF g[k] # None /\ ~Kept(g[k]) THEN None ELSE g[k]]

CheckAlways(k) == guard' = guard   \* seeded fault: the lock is not consulted

(* An allowed check; it sweeps first when the last sweep was a minute ago.    *)
Check(k) == ~Locked(k) /\ guard' \in {guard, Sweep(guard)}

Fresh == [count |-> 0, first |-> clock, until |-> None]

(* One more failure: a passed window starts over, and drops the lock with it. *)
Counted(e) ==
  LET base == IF e = None \/ clock - e.first > Window THEN Fresh ELSE e
      n    == base.count + 1
  IN  [base EXCEPT !.count = n,
                   !.until = IF n >= MaxAttempts THEN clock + Lockout ELSE @]

(* Above 10,000 entries a failure sweeps as well. *)
RecordFailure(k) ==
  LET g == [guard EXCEPT ![k] = Counted(@)] IN guard' \in {g, Sweep(g)}

RecordSuccess(k) == guard' = [guard EXCEPT ![k] = None]
=============================================================================
