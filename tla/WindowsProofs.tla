---------------------------- MODULE WindowsProofs ----------------------------
(***************************************************************************)
(* Proofs about Windows: the merge of observations, the lock of an         *)
(* account's windows, and the migration of the ClickHouse table.           *)
(***************************************************************************)
EXTENDS Windows, WellFoundedInduction, TLAPS

-----------------------------------------------------------------------------
(* Merging                                                                   *)

LEMMA LeastNat ==   \* the least-number principle, in the place of induction
  ASSUME NEW S, S \subseteq Nat, S # {}
  PROVE  \E n \in S : \A m \in S : n <= m
  <1>1. PICK n \in S : \A m \in S : ~(<<m, n>> \in OpToRel(<, Nat))
    BY NatLessThanWellFounded, WFMin
  <1>2. \A m \in S : ~(m < n)
    BY <1>1 DEF OpToRel
  <1> QED BY <1>2

(* The merge of two windows is a window. *)
LEMMA MergeWindow ==
  ASSUME NEW v \in Window, NEW w \in Window
  PROVE  Merge(v, w) \in Window
  BY DEF Merge, Window, MaxOf, MinOf

(* The fields of a merge, one by one. *)
LEMMA MergeFields ==
  ASSUME NEW v \in Window, NEW w \in Window
  PROVE  LET m == Merge(v, w) IN
         /\ m.peak \in {v.peak, w.peak} /\ m.peak >= v.peak /\ m.peak >= w.peak
         /\ m.obs >= v.obs /\ m.obs >= w.obs
         /\ \/ m.obs = w.obs /\ m.minutes = w.minutes
            \/ m.obs = v.obs /\ m.minutes = v.minutes
         /\ (m.first > 0 <=> v.first > 0 \/ w.first > 0)
         /\ v.first > 0 => m.first <= v.first
         /\ w.first > 0 => m.first <= w.first
         /\ m.active <= m.minutes
         /\ (m.maxed <=> v.maxed \/ w.maxed)
         /\ m.of = v.of \cup w.of
  BY DEF Merge, Window, MaxOf, MinOf

(* A merge covers both sides, and covering is transitive. *)
LEMMA MergeCovers ==
  ASSUME NEW v \in Window, NEW w \in Window
  PROVE  Covers(Merge(v, w), v) /\ Covers(Merge(v, w), w)
  BY DEF Merge, Window, MaxOf, MinOf, Covers

LEMMA CoversMore ==
  ASSUME NEW u \in Window, NEW v \in Window, NEW w \in Window,
         Covers(u, v), Covers(v, w)
  PROVE  Covers(u, w)
  BY DEF Window, Covers

LEMMA CoversSelf ==
  ASSUME NEW w \in Window
  PROVE  Covers(w, w)
  BY DEF Window, Covers

(* A stored window that the merge would not change covers what came in. *)
LEMMA SameCovers ==
  ASSUME NEW v \in Window, NEW w \in Window, Same(v, Merge(v, w))
  PROVE  Covers(v, w)
  <1>1. Merge(v, w) \in Window
    BY MergeWindow
  <1>2. /\ v.peak = Merge(v, w).peak /\ v.obs = Merge(v, w).obs
        /\ v.first = Merge(v, w).first /\ v.maxed = Merge(v, w).maxed
    BY <1>1 DEF Same, Window
  <1>3. Covers(Merge(v, w), w)
    BY MergeCovers
  <1> QED BY <1>1, <1>2, <1>3 DEF Covers

(* The merge of two joins is a join of all their items. *)
LEMMA MergeJoins ==
  ASSUME NEW v \in Window, NEW w \in Window, NEW t \in Int,
         Joins(v, t), Joins(w, t)
  PROVE  Joins(Merge(v, w), t)
  <1> DEFINE m == Merge(v, w)
  <1>1. /\ m \in Window /\ v.of \subseteq Item /\ w.of \subseteq Item
    BY MergeWindow DEF Window
  <1>2. \A i \in m.of : i.peak \in Nat /\ i.first \in Nat /\ i.obs \in Int
    BY <1>1 DEF Window, Item
  <1>3. /\ m.peak \in {v.peak, w.peak} /\ m.peak >= v.peak /\ m.peak >= w.peak
        /\ (m.first > 0 <=> v.first > 0 \/ w.first > 0)
        /\ v.first > 0 => m.first <= v.first
        /\ w.first > 0 => m.first <= w.first
        /\ m.active <= m.minutes
        /\ (m.maxed <=> v.maxed \/ w.maxed)
        /\ m.of = v.of \cup w.of
        /\ \/ m.obs = w.obs /\ m.minutes = w.minutes
           \/ m.obs = v.obs /\ m.minutes = v.minutes
    BY MergeFields
  <1>4. /\ v.peak \in Nat /\ w.peak \in Nat /\ m.peak \in Nat
        /\ v.first \in Nat /\ w.first \in Nat /\ m.first \in Nat
        /\ v.obs \in Int /\ w.obs \in Int /\ m.obs \in Int
    BY <1>1 DEF Window
  <1> HIDE DEF m
  <1>a. \E i \in m.of : i.peak = m.peak
    BY <1>3 DEF Joins
  <1>b. \A i \in m.of : i.peak <= m.peak
    BY <1>2, <1>3, <1>4 DEF Joins
  <1>c. m.maxed <=> \E i \in m.of : i.maxed
    BY <1>3 DEF Joins
  <1>d. m.first > 0 <=> \E i \in m.of : i.first > 0
    BY <1>3 DEF Joins
  <1>e. ASSUME NEW i \in m.of, i.first > 0 PROVE m.first <= i.first
    <2>1. CASE i \in v.of
      <3>1. v.first <= i.first
        BY <1>e, <2>1 DEF Joins
      <3>2. v.first > 0
        BY <1>e, <2>1 DEF Joins
      <3> QED BY <1>2, <1>3, <1>4, <3>1, <3>2
    <2>2. CASE i \in w.of
      <3>1. w.first <= i.first
        BY <1>e, <2>2 DEF Joins
      <3>2. w.first > 0
        BY <1>e, <2>2 DEF Joins
      <3> QED BY <1>2, <1>3, <1>4, <3>1, <3>2
    <2> QED BY <1>3, <2>1, <2>2
  <1>f. \E i \in m.of : i.minutes = m.minutes /\ (i.obs >= m.obs \/ t >= m.obs)
    <2>1. PICK i \in v.of : i.minutes = v.minutes /\ (i.obs >= v.obs \/ t >= v.obs)
      BY DEF Joins
    <2>2. PICK j \in w.of : j.minutes = w.minutes /\ (j.obs >= w.obs \/ t >= w.obs)
      BY DEF Joins
    <2>3. i \in m.of /\ j \in m.of
      BY <1>3
    <2>4. CASE m.obs = w.obs /\ m.minutes = w.minutes
      BY <2>2, <2>3, <2>4
    <2>5. CASE m.obs = v.obs /\ m.minutes = v.minutes
      BY <2>1, <2>3, <2>5
    <2> QED BY <1>3, <2>4, <2>5
  <1>g. m.active <= m.minutes
    BY <1>3
  <1> QED BY <1>a, <1>b, <1>c, <1>d, <1>e, <1>f, <1>g DEF Joins, m

(* A join stays one as the clock moves on. *)
LEMMA JoinsLater ==
  ASSUME NEW w \in Window, NEW t \in Int, NEW u \in Int, t <= u, Joins(w, t)
  PROVE  Joins(w, u)
  <1>1. PICK i \in w.of : i.minutes = w.minutes /\ (i.obs >= w.obs \/ t >= w.obs)
    BY DEF Joins
  <1>2. w.obs \in Int
    BY DEF Window
  <1>3. \E j \in w.of : j.minutes = w.minutes /\ (j.obs >= w.obs \/ u >= w.obs)
    BY <1>1, <1>2
  <1> QED BY <1>3, Zenon DEF Joins

(* An item, clamped, is the window that joins it alone. *)
LEMMA ClampedJoins ==
  ASSUME WindowsAssumption, clock \in Int, clock >= Floor + 1, NEW i \in Item
  PROVE  /\ Clamped(i) \in Window /\ Clamped(i).of = {i}
         /\ Joins(Clamped(i), clock - Floor)
  <1>1. /\ Floor \in Nat /\ i.obs \in Int /\ i.minutes \in Nat /\ i.peak \in Nat
        /\ i.first \in Nat /\ i.active \in Nat /\ i.maxed \in BOOLEAN
    BY DEF WindowsAssumption, Item
  <1>2. Raised(i).obs = MaxOf(i.obs, clock - Floor)
    BY DEF Raised, Item
  <1> DEFINE c == Clamped(i)
             o == MinOf(MaxOf(i.obs, clock - Floor), clock + 1)
  <1>3. c = [peak |-> i.peak, obs |-> o, minutes |-> i.minutes,
             first |-> MinOf(i.first, o), active |-> MinOf(i.active, i.minutes),
             maxed |-> i.maxed, of |-> {i}]
    BY <1>2 DEF Clamped
  <1>4. /\ o \in Nat /\ o >= 1 /\ (i.obs >= o \/ clock - Floor >= o)
    BY <1>1 DEF MinOf, MaxOf
  <1> HIDE DEF o, c
  <1>5. /\ MinOf(i.first, o) \in Nat /\ MinOf(i.active, i.minutes) \in Nat
        /\ (MinOf(i.first, o) > 0 <=> i.first > 0) /\ MinOf(i.first, o) <= i.first
        /\ MinOf(i.active, i.minutes) <= i.minutes
    BY <1>1, <1>4 DEF MinOf
  <1>6. c \in Window
    BY <1>1, <1>3, <1>4, <1>5 DEF Window
  <1>7. /\ c.peak = i.peak /\ c.obs = o /\ c.minutes = i.minutes /\ c.maxed = i.maxed
        /\ c.first = MinOf(i.first, o) /\ c.active = MinOf(i.active, i.minutes)
        /\ c.of = {i}
    BY <1>3
  <1>a. (\E j \in c.of : j.peak = c.peak) /\ (\A j \in c.of : j.peak <= c.peak)
    BY <1>1, <1>7
  <1>b. c.maxed <=> \E j \in c.of : j.maxed
    <2>1. (\E j \in c.of : j.maxed) <=> i.maxed
      BY <1>7, Zenon
    <2> QED BY <1>1, <1>7, <2>1, Zenon
  <1>f. c.first > 0 <=> \E j \in c.of : j.first > 0
    <2>1. (\E j \in c.of : j.first > 0) <=> i.first > 0
      BY <1>7, Zenon
    <2>2. c.first > 0 <=> i.first > 0
      BY <1>1, <1>4, <1>5, <1>7
    <2> QED BY <2>1, <2>2, Zenon
  <1>c. \A j \in c.of : j.first > 0 => c.first <= j.first
    BY <1>1, <1>5, <1>7
  <1>d. \E j \in c.of : j.minutes = c.minutes /\ (j.obs >= c.obs \/ clock - Floor >= c.obs)
    BY <1>1, <1>4, <1>7
  <1>e. c.active <= c.minutes
    BY <1>5, <1>7
  <1>8. Joins(c, clock - Floor)
    BY <1>a, <1>b, <1>c, <1>d, <1>e, <1>f, Zenon DEF Joins
  <1> QED BY <1>6, <1>7, <1>8 DEF c

-----------------------------------------------------------------------------
(* A batch                                                                   *)

ClockOK == clock \in Int /\ clock >= Floor + 1

(* The windows a connection carries: joins, each of items of its own key. *)
ItemsOK(items, t) ==
  /\ items \in [Keys -> Window \cup {None}]
  /\ \A k \in Keys : items[k] # None =>
       Joins(items[k], t) /\ \A i \in items[k].of : i.key = k

Premerge(items) == ItemsOK(items, clock - Floor)

LEMMA NoneFits == WindowsAssumption =>
    /\ None \notin Window /\ None \notin Opaque /\ None \notin Row /\ None \notin Table
    /\ None \notin Devices
  BY DEF WindowsAssumption

LEMMA JoinedOK ==
  ASSUME WindowsAssumption, ClockOK, NEW m, Premerge(m), NEW i \in Item
  PROVE  Premerge(Joined(m, i))
  <1> DEFINE c == Clamped(i)  j == Joined(m, i)
  <1>1. c \in Window /\ c.of = {i} /\ Joins(c, clock - Floor)
    BY ClampedJoins DEF ClockOK
  <1>2. i.key \in Keys /\ clock - Floor \in Int
    BY DEF Item, ClockOK, WindowsAssumption
  <1>3. m \in [Keys -> Window \cup {None}]
    BY DEF Premerge, ItemsOK
  <1>4. /\ j \in [Keys -> Window \cup {None}]
        /\ j[i.key] = IF m[i.key] = None THEN c ELSE Merge(m[i.key], c)
        /\ \A k \in Keys : k # i.key => j[k] = m[k]
    <2>1. m[i.key] # None => Merge(m[i.key], c) \in Window
      BY <1>1, <1>2, <1>3, MergeWindow
    <2> HIDE DEF c
    <2> QED BY <1>1, <1>2, <1>3, <2>1 DEF Joined, c
  <1> HIDE DEF c, j
  <1>5. ASSUME NEW k \in Keys, j[k] # None
        PROVE  Joins(j[k], clock - Floor) /\ \A x \in j[k].of : x.key = k
    <2>1. CASE k # i.key
      BY <1>4, <1>5, <2>1 DEF Premerge, ItemsOK
    <2>2. CASE k = i.key /\ m[k] = None
      BY <1>1, <1>4, <2>2
    <2>3. CASE k = i.key /\ m[k] # None
      <3>1. m[k] \in Window /\ Joins(m[k], clock - Floor) /\ \A x \in m[k].of : x.key = k
        BY <1>3, <2>3 DEF Premerge, ItemsOK
      <3>2. Joins(Merge(m[k], c), clock - Floor)
        BY <1>1, <1>2, <3>1, MergeJoins
      <3>3. Merge(m[k], c).of = m[k].of \cup c.of
        BY <1>1, <3>1, MergeFields
      <3> QED BY <1>1, <1>4, <2>3, <3>1, <3>2, <3>3
    <2> QED BY <2>1, <2>2, <2>3
  <1> QED BY <1>4, <1>5 DEF Premerge, ItemsOK, j

(* premerge_windows leaves one join per key, whatever the order p.  The       *)
(* function it computes exists because no number is the least at which it     *)
(* would not.                                                                 *)
PremergeStep(b, p, f, n) ==
  IF n = 0 THEN NoRows
  ELSE IF p[n] \in Kept(b) THEN Joined(f[n - 1], b[p[n]]) ELSE f[n - 1]

PremergeFcn(b, p, m) ==
  {f \in [0..m -> [Keys -> Window \cup {None}]] :
     \A n \in 0..m : Premerge(f[n]) /\ f[n] = PremergeStep(b, p, f, n)}

LEMMA PremergeExists ==
  ASSUME WindowsAssumption, ClockOK, NEW b \in Seq(Item), NEW p, NEW m \in Nat
  PROVE  PremergeFcn(b, p, m) # {}
  <1> DEFINE F(n) == PremergeFcn(b, p, n)
             S == {n \in Nat : F(n) = {}}
  <1>0. Premerge(NoRows)
    BY NoneFits DEF Premerge, ItemsOK, NoRows
  <1>1. F(0) # {}
    <2> DEFINE f == [n \in 0..0 |-> NoRows]
    <2>1. f \in [0..0 -> [Keys -> Window \cup {None}]]
      BY <1>0 DEF Premerge, ItemsOK
    <2>2. \A n \in 0..0 : n = 0 /\ f[n] = NoRows
      OBVIOUS
    <2> HIDE DEF f
    <2>3. \A n \in 0..0 : Premerge(f[n]) /\ f[n] = PremergeStep(b, p, f, n)
      BY <1>0, <2>2 DEF PremergeStep
    <2>4. f \in F(0)
      BY <2>1, <2>3 DEF PremergeFcn
    <2> QED BY <2>4
  <1>2. ASSUME NEW k \in Nat, F(k) # {} PROVE F(k + 1) # {}
    <2>1. PICK f \in F(k) : TRUE
      BY <1>2
    <2>2. /\ f \in [0..k -> [Keys -> Window \cup {None}]]
          /\ \A n \in 0..k : Premerge(f[n]) /\ f[n] = PremergeStep(b, p, f, n)
      BY <2>1 DEF PremergeFcn
    <2> DEFINE x == PremergeStep(b, p, f, k + 1)
               g == [n \in 0..(k + 1) |-> IF n = k + 1 THEN x ELSE f[n]]
    <2>3. Premerge(x)
      <3>1. Premerge(f[k]) /\ k \in 0..k /\ (k + 1) - 1 = k /\ k + 1 # 0
        BY <2>2
      <3>2. CASE p[k + 1] \in Kept(b)
        <4>1. p[k + 1] \in DOMAIN b
          BY <3>2 DEF Kept
        <4>2. b[p[k + 1]] \in Item
          BY <4>1
        <4> QED BY <3>1, <3>2, <4>2, JoinedOK DEF PremergeStep
      <3> QED BY <3>1, <3>2 DEF PremergeStep
    <2> HIDE DEF x
    <2>4. g \in [0..(k + 1) -> [Keys -> Window \cup {None}]]
      BY <2>2, <2>3 DEF Premerge, ItemsOK
    <2>5. \A n \in 0..(k + 1) : g[n] = IF n = k + 1 THEN x ELSE f[n]
      OBVIOUS
    <2> HIDE DEF g
    <2>6. ASSUME NEW n \in 0..(k + 1)
          PROVE  Premerge(g[n]) /\ g[n] = PremergeStep(b, p, g, n)
      <3>1. n # 0 => n - 1 \in 0..(k + 1) /\ n - 1 # k + 1
        OBVIOUS
      <3>2. n # 0 => g[n - 1] = f[n - 1]
        BY <2>5, <3>1
      <3>3. PremergeStep(b, p, g, n) = PremergeStep(b, p, f, n)
        BY <3>2, Zenon DEF PremergeStep
      <3>4. CASE n = k + 1
        BY <2>3, <2>5, <3>3, <3>4 DEF x
      <3>5. CASE n # k + 1
        <4>1. n \in 0..k
          BY <3>5
        <4> QED BY <2>2, <2>5, <3>3, <3>5, <4>1
      <3> QED BY <3>4, <3>5
    <2>7. g \in F(k + 1)
      BY <2>4, <2>6 DEF PremergeFcn
    <2> QED BY <2>7
  <1> HIDE DEF F
  <1>3. ASSUME S # {} PROVE FALSE
    <2>1. PICK n \in S : \A q \in S : n <= q
      BY <1>3, LeastNat
    <2>2. n \in Nat /\ F(n) = {} /\ n # 0
      BY <1>1, <2>1
    <2>3. n - 1 \in Nat /\ n - 1 \notin S
      BY <2>1, <2>2
    <2>4. F((n - 1) + 1) # {}
      BY <1>2, <2>3
    <2>5. (n - 1) + 1 = n
      BY <2>2
    <2> QED BY <2>2, <2>4, <2>5
  <1> QED BY <1>3 DEF F

LEMMA PremergedOK ==
  ASSUME WindowsAssumption, ClockOK, NEW b \in Seq(Item), NEW p
  PROVE  Premerge(Premerged(b, p))
  <1> DEFINE N == 0..Len(b)
             Eq(f) == f = [n \in N |-> PremergeStep(b, p, f, n)]
             g == CHOOSE f : Eq(f)
  <1>1. Len(b) \in Nat
    OBVIOUS
  <1>2. PICK f \in PremergeFcn(b, p, Len(b)) : TRUE
    BY <1>1, PremergeExists
  <1>3. Eq(f)
    BY <1>2 DEF PremergeFcn
  <1>4. Eq(g)
    BY <1>3
  <1>5. Premerged(b, p) = g[Len(b)]
    BY DEF Premerged, PremergeStep
  <1> HIDE DEF g
  <1> DEFINE S == {n \in N : g[n] # f[n]}
  <1>6. ASSUME S # {} PROVE FALSE
    <2>0. S \subseteq Nat
      BY <1>1
    <2>1. PICK n \in S : \A q \in S : n <= q
      BY <1>6, <2>0, LeastNat
    <2>2. n \in N /\ g[n] # f[n]
      BY <2>1
    <2>3. g[n] = PremergeStep(b, p, g, n) /\ f[n] = PremergeStep(b, p, f, n)
      BY <1>3, <1>4, <2>2
    <2>4. n # 0 => n - 1 \in N /\ n - 1 \notin S
      BY <1>1, <2>1, <2>2
    <2>5. n # 0 => g[n - 1] = f[n - 1]
      BY <2>4
    <2>6. PremergeStep(b, p, g, n) = PremergeStep(b, p, f, n)
      BY <2>5, Zenon DEF PremergeStep
    <2> QED BY <2>2, <2>3, <2>6
  <1>7. Len(b) \in N /\ g[Len(b)] = f[Len(b)]
    BY <1>1, <1>6
  <1> QED BY <1>2, <1>5, <1>7 DEF PremergeFcn
-----------------------------------------------------------------------------
(* The migration                                                             *)

TablesTyped == tables \in [Names -> Table \cup {None}]

Stages == {"down", "recover", "create", "check", "drop_v2", "create_v2", "copy", "exchange",
           "rename_old", "rename_new", "drop_old", "drop_done", "ready"}

(* Which tables there are at each statement. *)
Present ==
  /\ boot \in Stages
  /\ boot \notin {"down", "recover", "create", "rename_new"} => Exists("toki_windows")
  /\ boot = "create" /\ ~Exists("toki_windows") =>
       ~Exists("toki_windows_v2") /\ ~Exists("toki_windows_old")
  /\ boot \in {"copy", "exchange", "rename_old", "rename_new"} => Exists("toki_windows_v2")
  /\ boot = "rename_new" => ~Exists("toki_windows")
  /\ inherited => \E n \in Names : Exists(n)

(* The column is where the next statements will look for it. *)
ColumnThere ==
  ~lost => /\ boot \in {"ready", "drop_done", "drop_old"} =>
                tables["toki_windows"].schema = "updated_at"
           /\ boot \in {"copy", "exchange", "rename_old", "rename_new"} =>
                tables["toki_windows_v2"].schema = "updated_at"

(* From the copy to the swap the two tables hold the same rows. *)
CopyComplete ==
  boot \in {"exchange", "rename_old"} =>
    tables["toki_windows_v2"].rows = tables["toki_windows"].rows

Migration == Present /\ ColumnThere /\ CopyComplete

(* The rows the next start-up will serve. *)
Served ==
  IF Exists("toki_windows") THEN tables["toki_windows"].rows
  ELSE IF Exists("toki_windows_v2") THEN tables["toki_windows_v2"].rows
  ELSE IF Exists("toki_windows_old") THEN tables["toki_windows_old"].rows
  ELSE NoRows

(* Every row of t was in some table before. *)
FromTables(t) ==
  \A n \in Names, k \in Keys : t[n] # None /\ t[n].rows[k] # None =>
    \E m \in Names : tables[m] # None /\ tables[m].rows[k] = t[n].rows[k]

Tables == [Names -> Table \cup {None}]

LEMMA FreshTable ==
  WindowsAssumption => /\ Fresh \in Table /\ Fresh # None
                       /\ Fresh.rows = NoRows /\ Fresh.schema = "updated_at"
                       /\ NoRows \in Rows /\ \A k \in Keys : NoRows[k] = None
  BY DEF Fresh, Table, Rows, NoRows, WindowsAssumption

LEMMA TableFields ==
  ASSUME WindowsAssumption, TablesTyped
  PROVE  \A n \in Names : tables[n] # None => tables[n] \in Table /\ tables[n].rows \in Rows
  BY DEF TablesTyped, Table

LEMMA UnchangedTables ==
  ASSUME TablesTyped PROVE tables \in Tables /\ FromTables(tables)
  BY DEF TablesTyped, Tables, FromTables

LEMMA DroppedTable ==
  ASSUME TablesTyped, NEW n \in Names
  PROVE  /\ Dropped(n) \in Tables /\ FromTables(Dropped(n))
         /\ \A m \in Names : Dropped(n)[m] = IF m = n THEN None ELSE tables[m]
  BY DEF TablesTyped, Dropped, Tables, FromTables

LEMMA RenamedTable ==
  ASSUME TablesTyped, NEW n \in Names, NEW o \in Names, n # o
  PROVE  /\ Renamed(n, o) \in Tables /\ FromTables(Renamed(n, o))
         /\ \A m \in Names : Renamed(n, o)[m] = IF m = n THEN None
                                                ELSE IF m = o THEN tables[n] ELSE tables[m]
  <1>1. Renamed(n, o) \in Tables
    BY DEF TablesTyped, Renamed, Tables
  <1>2. \A m \in Names : Renamed(n, o)[m] = IF m = n THEN None
                                            ELSE IF m = o THEN tables[n] ELSE tables[m]
    BY DEF TablesTyped, Renamed
  <1>3. FromTables(Renamed(n, o))
    BY <1>2 DEF FromTables
  <1> QED BY <1>1, <1>2, <1>3

LEMMA CreatedTable ==
  ASSUME WindowsAssumption, TablesTyped, NEW n \in Names
  PROVE  LET t == [tables EXCEPT ![n] = Fresh] IN
         /\ t \in Tables /\ FromTables(t)
         /\ \A m \in Names : t[m] = IF m = n THEN Fresh ELSE tables[m]
  BY FreshTable DEF TablesTyped, Tables, FromTables

LEMMA ExchangedTable ==
  ASSUME TablesTyped
  PROVE  /\ Exchanged \in Tables /\ FromTables(Exchanged)
         /\ Exchanged["toki_windows"] = tables["toki_windows_v2"]
         /\ Exchanged["toki_windows_v2"] = tables["toki_windows"]
         /\ Exchanged["toki_windows_old"] = tables["toki_windows_old"]
  <1>1. Exchanged \in Tables
    BY DEF TablesTyped, Exchanged, Tables, Names
  <1>2. /\ Exchanged["toki_windows"] = tables["toki_windows_v2"]
        /\ Exchanged["toki_windows_v2"] = tables["toki_windows"]
        /\ Exchanged["toki_windows_old"] = tables["toki_windows_old"]
    BY DEF TablesTyped, Exchanged, Names
  <1>3. FromTables(Exchanged)
    BY <1>2 DEF FromTables, Names
  <1> QED BY <1>1, <1>2, <1>3

LEMMA CopiedTable ==
  ASSUME WindowsAssumption, TablesTyped, Exists("toki_windows"), Exists("toki_windows_v2"),
         NEW S \in SUBSET Keys
  PROVE  /\ Copied(S) \in Tables /\ FromTables(Copied(S))
         /\ \A m \in Names \ {"toki_windows_v2"} : Copied(S)[m] = tables[m]
         /\ Copied(S)["toki_windows_v2"] # None
         /\ Copied(S)["toki_windows_v2"].schema = tables["toki_windows_v2"].schema
         /\ S = Keys => Copied(S)["toki_windows_v2"].rows = tables["toki_windows"].rows
  <1> DEFINE live == tables["toki_windows"].rows
             v2 == tables["toki_windows_v2"]
             rows == [k \in Keys |-> IF k \in S THEN live[k] ELSE None]
             t == [v2 EXCEPT !.rows = rows]
  <1>1. {"toki_windows", "toki_windows_v2"} \subseteq Names
    BY DEF Names
  <1>2. live \in Rows /\ v2 \in Table
    BY <1>1, TableFields DEF Exists
  <1>3. rows \in Rows /\ (S = Keys => rows = live)
    BY <1>2 DEF Rows
  <1>4. \A k \in Keys : rows[k] # None => rows[k] = live[k]
    OBVIOUS
  <1> HIDE DEF rows
  <1>5. t \in Table /\ t.rows = rows /\ t.schema = v2.schema
    BY <1>2, <1>3 DEF Table
  <1>6. Copied(S) = [tables EXCEPT !["toki_windows_v2"] = t]
    BY <1>1 DEF Copied, TablesTyped, rows
  <1>7. t # None
    BY <1>5, NoneFits
  <1> HIDE DEF t
  <1>8. Copied(S) \in Tables
    BY <1>5, <1>6 DEF TablesTyped, Tables
  <1>9. \A m \in Names : Copied(S)[m] = IF m = "toki_windows_v2" THEN t ELSE tables[m]
    BY <1>6 DEF TablesTyped
  <1>a. FromTables(Copied(S))
    <2> SUFFICES ASSUME NEW n \in Names, NEW k \in Keys, Copied(S)[n] # None,
                        Copied(S)[n].rows[k] # None
                 PROVE  \E m \in Names : tables[m] # None
                                         /\ tables[m].rows[k] = Copied(S)[n].rows[k]
      BY DEF FromTables
    <2>1. CASE n = "toki_windows_v2"
      <3>1. Copied(S)[n].rows[k] = live[k]
        BY <1>4, <1>5, <1>9, <2>1
      <3> QED BY <1>1, <3>1 DEF Exists
    <2>2. CASE n # "toki_windows_v2"
      BY <1>9, <2>2
    <2> QED BY <2>1, <2>2
  <1> QED BY <1>1, <1>3, <1>5, <1>7, <1>8, <1>9, <1>a
(* No statement of the start-up, done, failed or half done, changes the rows  *)
(* that will be served or forgets the column.                                 *)
LEMMA MigrationStep ==
  ASSUME WindowsAssumption, TablesTyped, Migration, BootStep
  PROVE  /\ Migration' /\ TablesTyped' /\ Served' = Served /\ FromTables(tables')
         /\ inherited' = inherited
  <1>n. {"toki_windows", "toki_windows_v2", "toki_windows_old"} = Names
    BY DEF Names
  <1>s. \A t \in Tables : tables' = t /\ FromTables(t) => TablesTyped' /\ FromTables(tables')
    BY DEF Tables, TablesTyped
  <1>u. tables \in Tables /\ FromTables(tables)
    BY UnchangedTables
  <1>f. Fresh \in Table /\ Fresh # None /\ Fresh.rows = NoRows /\ Fresh.schema = "updated_at"
    BY FreshTable
  <1> USE DEF Migration, Present, ColumnThere, CopyComplete, Served, Exists, Stages, Statement
  <1>1. CASE Start
    BY <1>n, <1>s, <1>u, <1>1 DEF Start
  <1>2. CASE Recover
    <2> DEFINE v == Renamed("toki_windows_v2", "toki_windows")
               o == Renamed("toki_windows_old", "toki_windows")
    <2>1. /\ v \in Tables /\ FromTables(v)
          /\ v["toki_windows"] = tables["toki_windows_v2"]
          /\ v["toki_windows_v2"] = None
          /\ v["toki_windows_old"] = tables["toki_windows_old"]
      BY <1>n, RenamedTable
    <2>2. /\ o \in Tables /\ FromTables(o)
          /\ o["toki_windows"] = tables["toki_windows_old"]
          /\ o["toki_windows_v2"] = tables["toki_windows_v2"]
          /\ o["toki_windows_old"] = None
      BY <1>n, RenamedTable
    <2> HIDE DEF v, o
    <2>3. /\ boot = "recover" /\ boot' \in {"create", "down"}
          /\ inherited' = inherited /\ lost' = lost
          /\ boot' = "create" => tables' = IF Exists("toki_windows") THEN tables
                                  ELSE IF Exists("toki_windows_v2") THEN v
                                  ELSE IF Exists("toki_windows_old") THEN o ELSE tables
          /\ tables' \in {tables, IF Exists("toki_windows") THEN tables
                                  ELSE IF Exists("toki_windows_v2") THEN v
                                  ELSE IF Exists("toki_windows_old") THEN o ELSE tables}
      BY <1>2 DEF Recover, v, o
    <2>4. TablesTyped' /\ FromTables(tables')
      BY <1>s, <1>u, <2>1, <2>2, <2>3
    <2>5. Migration'
      BY <1>n, <2>1, <2>2, <2>3
    <2>6. Served' = Served
      BY <2>1, <2>2, <2>3
    <2> QED BY <2>3, <2>4, <2>5, <2>6
  <1>3. CASE CreateTable
    <2> DEFINE c == [tables EXCEPT !["toki_windows"] = Fresh]
    <2>1. /\ c \in Tables /\ FromTables(c)
          /\ c["toki_windows"] = Fresh
          /\ c["toki_windows_v2"] = tables["toki_windows_v2"]
          /\ c["toki_windows_old"] = tables["toki_windows_old"]
      BY <1>n, CreatedTable
    <2> HIDE DEF c
    <2>2. /\ boot = "create" /\ boot' \in {"check", "down"}
          /\ inherited' = inherited /\ lost' = lost
          /\ boot' = "check" => tables' = IF Exists("toki_windows") THEN tables ELSE c
          /\ tables' \in {tables, IF Exists("toki_windows") THEN tables ELSE c}
      BY <1>3 DEF CreateTable, c
    <2>3. TablesTyped' /\ FromTables(tables')
      BY <1>s, <1>u, <2>1, <2>2
    <2>4. Migration'
      BY <1>n, <1>f, <2>1, <2>2
    <2>5. Served' = Served
      BY <1>f, <2>1, <2>2
    <2> QED BY <2>2, <2>3, <2>4, <2>5
  <1>4. CASE CheckColumn
    BY <1>n, <1>s, <1>u, <1>4 DEF CheckColumn
  <1>5. CASE DropStale
    <2> DEFINE c == Dropped("toki_windows_v2")
    <2>1. /\ c \in Tables /\ FromTables(c)
          /\ c["toki_windows"] = tables["toki_windows"]
          /\ c["toki_windows_v2"] = None
          /\ c["toki_windows_old"] = tables["toki_windows_old"]
      BY <1>n, DroppedTable
    <2> HIDE DEF c
    <2>2. /\ boot = "drop_v2" /\ boot' \in {"create_v2", "down"} /\ tables' \in {tables, c}
          /\ inherited' = inherited /\ lost' = lost
      BY <1>5 DEF DropStale, c
    <2> QED BY <1>n, <1>s, <1>u, <2>1, <2>2
  <1>6. CASE CreateV2
    <2> DEFINE c == [tables EXCEPT !["toki_windows_v2"] = Fresh]
    <2>1. /\ c \in Tables /\ FromTables(c)
          /\ c["toki_windows"] = tables["toki_windows"]
          /\ c["toki_windows_v2"] = Fresh
          /\ c["toki_windows_old"] = tables["toki_windows_old"]
      BY <1>n, CreatedTable
    <2> HIDE DEF c
    <2>2. /\ boot = "create_v2" /\ boot' \in {"copy", "down"} /\ tables' \in {tables, c}
          /\ boot' = "copy" => tables' = c
          /\ inherited' = inherited /\ lost' = lost
      BY <1>6 DEF CreateV2, c
    <2> QED BY <1>n, <1>s, <1>u, <1>f, <2>1, <2>2
  <1>7. CASE CopyRows
    <2>1. PICK S \in SUBSET Keys : /\ tables' = Copied(S)
                                   /\ (boot' = "exchange" /\ S = Keys) \/ boot' = "down"
      BY <1>7 DEF CopyRows
    <2>2. boot = "copy" /\ inherited' = inherited /\ lost' = lost
      BY <1>7 DEF CopyRows
    <2> DEFINE c == Copied(S)
    <2>3. /\ c \in Tables /\ FromTables(c)
          /\ c["toki_windows"] = tables["toki_windows"]
          /\ c["toki_windows_old"] = tables["toki_windows_old"]
          /\ c["toki_windows_v2"] # None
          /\ c["toki_windows_v2"].schema = tables["toki_windows_v2"].schema
          /\ S = Keys => c["toki_windows_v2"].rows = tables["toki_windows"].rows
      BY <1>n, <2>2, CopiedTable
    <2> HIDE DEF c
    <2>4. tables' = c
      BY <2>1 DEF c
    <2> QED BY <1>n, <1>s, <2>1, <2>2, <2>3, <2>4
  <1>8. CASE ExchangeTables
    <2> DEFINE c == Exchanged
    <2>1. /\ c \in Tables /\ FromTables(c)
          /\ c["toki_windows"] = tables["toki_windows_v2"]
          /\ c["toki_windows_v2"] = tables["toki_windows"]
          /\ c["toki_windows_old"] = tables["toki_windows_old"]
      BY ExchangedTable
    <2> HIDE DEF c
    <2>2. /\ boot = "exchange" /\ inherited' = inherited
          /\ \/ /\ tables' = c
                /\ (boot' = "drop_done" /\ lost' = lost) \/ (boot' = "rename_old" /\ lost')
                   \/ (boot' = "down" /\ lost' = lost)
             \/ tables' = tables /\ boot' \in {"rename_old", "down"} /\ lost' = lost
      BY <1>8 DEF ExchangeTables, c
    <2>3. TablesTyped' /\ FromTables(tables')
      BY <1>s, <1>u, <2>1, <2>2
    <2>4. Migration'
      BY <1>n, <2>1, <2>2
    <2>5. Served' = Served
      BY <2>1, <2>2
    <2> QED BY <2>2, <2>3, <2>4, <2>5
  <1>9. CASE RenameOld
    <2> DEFINE c == Renamed("toki_windows", "toki_windows_old")
    <2>1. /\ c \in Tables /\ FromTables(c)
          /\ c["toki_windows"] = None
          /\ c["toki_windows_v2"] = tables["toki_windows_v2"]
          /\ c["toki_windows_old"] = tables["toki_windows"]
      BY <1>n, RenamedTable
    <2> HIDE DEF c
    <2>2. /\ boot = "rename_old" /\ boot' \in {"rename_new", "down"} /\ tables' \in {tables, c}
          /\ boot' = "rename_new" => tables' = c
          /\ inherited' = inherited /\ lost' = lost
      BY <1>9 DEF RenameOld, c
    <2>3. TablesTyped' /\ FromTables(tables')
      BY <1>s, <1>u, <2>1, <2>2
    <2>4. Migration'
      BY <1>n, <2>1, <2>2
    <2>5. Served' = Served
      BY <2>1, <2>2
    <2> QED BY <2>2, <2>3, <2>4, <2>5
  <1>a. CASE RenameNew
    <2> DEFINE c == Renamed("toki_windows_v2", "toki_windows")
    <2>1. /\ c \in Tables /\ FromTables(c)
          /\ c["toki_windows"] = tables["toki_windows_v2"]
          /\ c["toki_windows_v2"] = None
          /\ c["toki_windows_old"] = tables["toki_windows_old"]
      BY <1>n, RenamedTable
    <2> HIDE DEF c
    <2>2. /\ boot = "rename_new" /\ boot' \in {"drop_old", "down"} /\ tables' \in {tables, c}
          /\ boot' = "drop_old" => tables' = c
          /\ inherited' = inherited /\ lost' = lost
      BY <1>a DEF RenameNew, c
    <2>3. TablesTyped' /\ FromTables(tables')
      BY <1>s, <1>u, <2>1, <2>2
    <2>4. Migration'
      BY <1>n, <2>1, <2>2
    <2>5. Served' = Served
      BY <2>1, <2>2
    <2> QED BY <2>2, <2>3, <2>4, <2>5
  <1>b. CASE DropOld
    <2> DEFINE c == Dropped("toki_windows_old")
    <2>1. /\ c \in Tables /\ FromTables(c)
          /\ c["toki_windows"] = tables["toki_windows"]
          /\ c["toki_windows_v2"] = tables["toki_windows_v2"]
          /\ c["toki_windows_old"] = None
      BY <1>n, DroppedTable
    <2> HIDE DEF c
    <2>2. /\ boot = "drop_old" /\ boot' \in {"ready", "down"} /\ tables' \in {tables, c}
          /\ inherited' = inherited /\ lost' = lost
      BY <1>b DEF DropOld, c
    <2> QED BY <1>n, <1>s, <1>u, <2>1, <2>2
  <1>c. CASE DropDone
    <2> DEFINE c == Dropped("toki_windows_v2")
    <2>1. /\ c \in Tables /\ FromTables(c)
          /\ c["toki_windows"] = tables["toki_windows"]
          /\ c["toki_windows_v2"] = None
          /\ c["toki_windows_old"] = tables["toki_windows_old"]
      BY <1>n, DroppedTable
    <2> HIDE DEF c
    <2>2. /\ boot = "drop_done" /\ boot' \in {"ready", "down"} /\ tables' \in {tables, c}
          /\ inherited' = inherited /\ lost' = lost
      BY <1>c DEF DropDone, c
    <2> QED BY <1>n, <1>s, <1>u, <2>1, <2>2
  <1> QED BY <1>1, <1>2, <1>3, <1>4, <1>5, <1>6, <1>7, <1>8, <1>9, <1>a, <1>b, <1>c
          DEF BootStep
-----------------------------------------------------------------------------
(* The invariant                                                             *)

RowsOK(rows, t) ==
  rows \in Rows /\ \A k \in Keys : rows[k] # None => Joins(rows[k].w, t)

MessageOK(m, t) == m \in Message /\ ItemsOK(m.items, t) /\ RowsOK(m.base, t)

KeyspaceOK(w, t) ==
  /\ w \in [Keys -> Window \cup Opaque \cup {None}]
  /\ \A k \in Keys : w[k] \in Window => Joins(w[k], t)

DatabaseOK(db, t) ==
  db \in Tables /\ \A n \in Names : db[n] # None => RowsOK(db[n].rows, t)

DataOK ==
  /\ ClockOK /\ backend \in {"fjall", "clickhouse"} /\ gone \in BOOLEAN
  /\ DatabaseOK(tables, clock - Floor)
  /\ KeyspaceOK(kv, clock - Floor)
  /\ conn \in [Devices -> Message]
  /\ \A d \in Devices : MessageOK(conn[d], clock - Floor)
  /\ acked \subseteq Item

(* Whoever inserts holds the lock, and what it read is still there. *)
StillThere(base, db, oldest) ==
  \A k \in Keys : k >= oldest => base[k] = db["toki_windows"].rows[k]

Locked ==
  /\ lock \in Devices \cup {None}
  /\ \A d \in Devices : conn[d].st # "idle" /\ backend = "clickhouse" => boot = "ready"
  /\ \A d \in Devices : conn[d].st = "insert" =>
       /\ lock = d /\ backend = "clickhouse"
       /\ ~gone => StillThere(conn[d].base, tables, clock - Floor)

(* What the store holds for a key, during the start-up too. *)
Held(k) ==
  IF backend = "fjall" THEN (IF kv[k] \in Opaque THEN None ELSE kv[k])
  ELSE IF Served[k] = None THEN None ELSE Served[k].w

Shows(w, i) == w.peak >= i.peak /\ (i.maxed => w.maxed)

(* Window w of key k keeps the history and the acknowledged items. *)
Keeps(k, w, oldest, history, items, passed) ==
  k >= oldest =>
    /\ history /\ k \in DOMAIN History => w # None /\ Covers(w, History[k])
    /\ \A i \in items : i.key = k /\ k \notin passed => w # None /\ Shows(w, i)

NothingLost ==
  ~gone => \A k \in Keys : Keeps(k, Held(k), clock - Floor, inherited, acked, outrun)

WindowsInv == DataOK /\ Migration /\ Locked /\ NothingLost

(* Time only makes less of it asked for. *)
LEMMA RowsLater ==
  ASSUME NEW rows, NEW t \in Int, NEW u \in Int, t <= u, RowsOK(rows, t)
  PROVE  RowsOK(rows, u)
  <1>1. ASSUME NEW k \in Keys, rows[k] # None PROVE Joins(rows[k].w, u)
    <2>1. rows[k].w \in Window /\ Joins(rows[k].w, t)
      BY <1>1 DEF RowsOK, Rows, Row
    <2> QED BY <2>1, JoinsLater
  <1> QED BY <1>1 DEF RowsOK

LEMMA MessageLater ==
  ASSUME NEW m, NEW t \in Int, NEW u \in Int, t <= u, MessageOK(m, t)
  PROVE  MessageOK(m, u)
  <1>1. m \in Message /\ ItemsOK(m.items, t) /\ RowsOK(m.base, u)
    BY RowsLater DEF MessageOK
  <1>2. ASSUME NEW k \in Keys, m.items[k] # None PROVE Joins(m.items[k], u)
    <2>1. m.items[k] \in Window /\ Joins(m.items[k], t)
      BY <1>1, <1>2 DEF ItemsOK
    <2> QED BY <2>1, JoinsLater
  <1> QED BY <1>1, <1>2 DEF MessageOK, ItemsOK

LEMMA DatabaseLater ==
  ASSUME NEW db, NEW t \in Int, NEW u \in Int, t <= u, DatabaseOK(db, t)
  PROVE  DatabaseOK(db, u)
  BY RowsLater DEF DatabaseOK

LEMMA KeyspaceLater ==
  ASSUME NEW w, NEW t \in Int, NEW u \in Int, t <= u, KeyspaceOK(w, t)
  PROVE  KeyspaceOK(w, u)
  BY JoinsLater DEF KeyspaceOK

LEMMA KeepsLater ==
  ASSUME NEW k \in Int, NEW w, NEW t \in Int, NEW u \in Int, t <= u, NEW h, NEW I, NEW S,
         Keeps(k, w, t, h, I, S)
  PROVE  Keeps(k, w, u, h, I, S)
  BY DEF Keeps

(* A window that covers the one before keeps what that kept, and what was     *)
(* acknowledged meanwhile if it shows.                                        *)
LEMMA KeepsMore ==
  ASSUME WindowsAssumption, NEW k \in Keys, NEW t \in Int, NEW h, NEW I, NEW S, NEW J, NEW T,
         NEW v \in Window \cup {None}, NEW w \in Window \cup {None},
         I \subseteq Item, S \subseteq T,
         Keeps(k, v, t, h, I, S),
         k >= t /\ v # None => w # None /\ Covers(w, v),
         k >= t => \A i \in J \ I : i.key = k /\ k \notin T => w # None /\ Shows(w, i)
  PROVE  Keeps(k, w, t, h, J, T)
  <1> SUFFICES ASSUME k >= t
               PROVE  /\ h /\ k \in DOMAIN History => w # None /\ Covers(w, History[k])
                      /\ \A i \in J : i.key = k /\ k \notin T => w # None /\ Shows(w, i)
    BY DEF Keeps
  <1>1. ASSUME h, k \in DOMAIN History PROVE w # None /\ Covers(w, History[k])
    <2>1. v # None /\ Covers(v, History[k]) /\ w # None /\ Covers(w, v)
      BY <1>1 DEF Keeps
    <2>2. v \in Window /\ w \in Window /\ History[k] \in Window
      BY <1>1, <2>1 DEF WindowsAssumption
    <2> QED BY <2>1, <2>2, CoversMore
  <1>2. ASSUME NEW i \in J, i.key = k, k \notin T PROVE w # None /\ Shows(w, i)
    <2>1. CASE i \in I
      <3>1. v # None /\ Shows(v, i) /\ w # None /\ Covers(w, v)
        BY <1>2, <2>1 DEF Keeps
      <3>2. v \in Window /\ w \in Window /\ i \in Item
        BY <2>1, <3>1
      <3> QED BY <3>1, <3>2, SMTT(30) DEF Shows, Covers, Window, Item
    <2> QED BY <1>2, <2>1
  <1> QED BY <1>1, <1>2

(* An item shows in a window that covers the join it is part of. *)
LEMMA CoveredShows ==
  ASSUME NEW w \in Window, NEW v \in Window, NEW t \in Int, Joins(v, t), Covers(w, v),
         NEW i \in v.of
  PROVE  Shows(w, i)
  <1>1. i \in Item /\ i.peak <= v.peak /\ (i.maxed => v.maxed)
    BY DEF Joins, Window
  <1> QED BY <1>1 DEF Shows, Covers, Window, Item

LEMMA HeldWindow ==
  ASSUME WindowsAssumption, DataOK, NEW k \in Keys
  PROVE  Held(k) \in Window \cup {None}
  <1>1. CASE backend = "fjall"
    BY <1>1 DEF Held, DataOK, KeyspaceOK
  <1>2. CASE backend # "fjall"
    <2>1. Served \in Rows
      BY FreshTable DEF DataOK, DatabaseOK, RowsOK, Served, Exists, Names
    <2> QED BY <1>2, <2>1 DEF Held, Rows, Row
  <1> QED BY <1>1, <1>2

LEMMA IdleMessage ==
  ASSUME WindowsAssumption, NEW t \in Int
  PROVE  MessageOK(NoMessage, t) /\ NoMessage.st = "idle"
  <1>1. NoRows \in Rows /\ \A k \in Keys : NoRows[k] = None
    BY FreshTable
  <1>2. NoRows \in [Keys -> Window \cup {None}]
    BY DEF NoRows
  <1>3. NoMessage \in Message
    BY <1>1, <1>2 DEF NoMessage, Message
  <1>4. NoMessage.items = NoRows /\ NoMessage.base = NoRows /\ NoMessage.st = "idle"
    BY DEF NoMessage
  <1> QED BY <1>1, <1>2, <1>3, <1>4 DEF MessageOK, ItemsOK, RowsOK

LEMMA InvInit == ASSUME WindowsAssumption, Init PROVE WindowsInv
  <1>1. /\ clock = Floor + 1 /\ clock \in Int /\ clock - Floor = 1 /\ ClockOK
        /\ backend \in {"fjall", "clickhouse"} /\ gone = FALSE
    BY DEF Init, ClockOK, WindowsAssumption
  <1>2. RowsOK(Old.rows, 1) /\ Old \in Table /\ Old # None
    <2>1. ASSUME NEW k \in DOMAIN History
          PROVE  History[k] \in Window /\ Joins(History[k], 1) /\ History[k].obs \in Int
      BY JoinsLater DEF WindowsAssumption, Window
    <2>2. Old.rows \in Rows /\ Old.schema = "observed_ts_ms"
      BY <2>1 DEF Old, Rows, Row
    <2>3. \A k \in Keys : Old.rows[k] # None => k \in DOMAIN History /\ Old.rows[k].w = History[k]
      BY DEF Old
    <2>4. Old \in Table
      BY <2>2 DEF Old, Table
    <2> QED BY <2>1, <2>2, <2>3, <2>4, NoneFits DEF RowsOK
  <1>3. DatabaseOK(tables, 1)
    BY <1>2 DEF Init, BootInit, DatabaseOK, Tables
  <1>4. KeyspaceOK(kv, 1)
    <2>1. \A k \in Keys : kv[k] \in Opaque \cup {None}
      BY DEF Init, NoRows
    <2>2. kv \in [Keys -> Window \cup Opaque \cup {None}]
      BY DEF Init, NoRows
    <2> QED BY <2>1, <2>2, NoneFits DEF KeyspaceOK, WindowsAssumption
  <1>5. \A d \in Devices : conn[d] = NoMessage
    BY DEF Init
  <1>6. DataOK
    <2>1. conn \in [Devices -> Message]
      BY <1>1, IdleMessage DEF Init, MessageOK
    <2>2. acked \subseteq Item
      BY DEF Init
    <2>3. \A d \in Devices : MessageOK(conn[d], 1)
      BY <1>5, IdleMessage
    <2> QED BY <1>1, <1>3, <1>4, <2>1, <2>2, <2>3 DEF DataOK
  <1>7. Migration
    <2>1. boot = "down" /\ (inherited => tables["toki_windows"] # None)
      BY <1>2 DEF Init, BootInit, Names
    <2> QED BY <2>1 DEF Migration, Present, ColumnThere, CopyComplete, Stages, Exists, Names
  <1>8. Locked
    BY <1>1, <1>5, IdleMessage DEF Locked, Init
  <1>9. NothingLost
    <2>1. ASSUME NEW k \in Keys, inherited, k \in DOMAIN History
          PROVE  Held(k) # None /\ Covers(Held(k), History[k])
      <3>1. backend # "fjall" /\ tables["toki_windows"] = Old
        BY <2>1 DEF Init, BootInit, Names
      <3>2. Served[k] = [w |-> History[k], ver |-> History[k].obs]
        BY <1>2, <2>1, <3>1 DEF Served, Exists, Old
      <3>3. History[k] \in Window /\ Served[k] # None
        BY <1>2, <2>1, <3>2, NoneFits DEF WindowsAssumption, Window, Row
      <3>4. Held(k) = History[k]
        BY <3>1, <3>2, <3>3 DEF Held
      <3> QED BY <3>3, <3>4, CoversSelf, NoneFits
    <2> QED BY <2>1 DEF NothingLost, Keeps, Init
  <1> QED BY <1>6, <1>7, <1>8, <1>9 DEF WindowsInv
-----------------------------------------------------------------------------
(* The steps of the handler                                                  *)

LEMMA MigrationFrame ==
  ASSUME Migration, UNCHANGED bootVars
  PROVE  Migration' /\ Served' = Served
  BY DEF Migration, Present, ColumnThere, CopyComplete, Stages, Exists, Served, bootVars

LEMMA HeldFrame ==
  ASSUME Migration, UNCHANGED <<bootVars, backend, kv>>, NEW k \in Keys
  PROVE  Held(k)' = Held(k)
  BY MigrationFrame DEF Held

(* What a reply acknowledges is in the windows of its keys. *)
LEMMA Answered ==
  ASSUME WindowsAssumption, DataOK, NEW d \in Devices, NEW ok \in BOOLEAN, Reply(d, ok)
  PROVE  /\ conn' \in [Devices -> Message]
         /\ \A e \in Devices : MessageOK(conn'[e], clock - Floor)
         /\ conn'[d].st = "idle" /\ \A e \in Devices : e # d => conn'[e] = conn[e]
         /\ acked \subseteq acked' /\ acked' \subseteq Item
         /\ ~ok => acked' = acked
         /\ \A i \in acked' \ acked : ok /\ i.key \in Sent(d)
                                      /\ i \in conn[d].items[i.key].of
  <1>1. clock - Floor \in Int
    BY DEF DataOK, ClockOK, WindowsAssumption
  <1>2. MessageOK(NoMessage, clock - Floor) /\ NoMessage.st = "idle"
    BY <1>1, IdleMessage
  <1>3. conn' = [conn EXCEPT ![d] = NoMessage]
    BY DEF Reply
  <1>4. /\ conn' \in [Devices -> Message]
        /\ conn'[d] = NoMessage /\ \A e \in Devices : e # d => conn'[e] = conn[e]
    BY <1>2, <1>3 DEF DataOK, MessageOK
  <1>5. \A e \in Devices : MessageOK(conn'[e], clock - Floor)
    BY <1>2, <1>4 DEF DataOK
  <1>6. ASSUME NEW i, NEW k \in Sent(d), i \in conn[d].items[k].of
        PROVE  i \in Item /\ i.key = k
    <2>1. k \in Keys /\ conn[d].items[k] # None
      BY <1>6 DEF Sent
    <2>2. ItemsOK(conn[d].items, clock - Floor)
      BY DEF DataOK, MessageOK
    <2>3. conn[d].items[k] \in Window
      BY <2>1, <2>2 DEF ItemsOK
    <2> QED BY <1>6, <2>1, <2>2, <2>3 DEF ItemsOK, Window
  <1>7. acked' = IF ok /\ ~conn[d].retry
                 THEN acked \cup {i \in conn[d].sent :
                        \E k \in Sent(d) : i \in conn[d].items[k].of}
                 ELSE acked
    BY DEF Reply
  <1>8. acked \subseteq Item
    BY DEF DataOK
  <1>9. acked \subseteq acked' /\ acked' \subseteq Item
    BY <1>6, <1>7, <1>8
  <1>a. \A i \in acked' \ acked : ok /\ i.key \in Sent(d) /\ i \in conn[d].items[i.key].of
    BY <1>6, <1>7
  <1> QED BY <1>2, <1>4, <1>5, <1>7, <1>9, <1>a

LEMMA StepUpload ==
  ASSUME WindowsAssumption, WindowsInv, NEW d \in Devices, NEW b \in Batches, Upload(d, b)
  PROVE  WindowsInv'
  <1> DEFINE t == clock - Floor
  <1>1. b \in Seq(Item) /\ Floor \in Nat
    BY DEF WindowsAssumption
  <1>2. PICK p \in SetToSeqs(DOMAIN b) : conn' = [conn EXCEPT ![d] =
          [st |-> "upsert", items |-> Premerged(b, p), sent |-> Range(b),
           retry |-> \E n \in DOMAIN b : StableOk(b[n]) /\ ~TransientOk(b[n]),
           base |-> NoRows]]
    BY DEF Upload
  <1>3. PICK m : m = [st |-> "upsert", items |-> Premerged(b, p), sent |-> Range(b),
           retry |-> \E n \in DOMAIN b : StableOk(b[n]) /\ ~TransientOk(b[n]),
           base |-> NoRows]
    OBVIOUS
  <1>4. Premerge(Premerged(b, p))
    BY <1>1, PremergedOK DEF WindowsInv, DataOK
  <1>5. Range(b) \subseteq Item
    BY <1>1 DEF Range
  <1>6. m \in Message /\ m.items = Premerged(b, p) /\ m.base = NoRows /\ m.st = "upsert"
    BY <1>3, <1>4, <1>5, FreshTable DEF Message, Premerge, ItemsOK
  <1>7. MessageOK(m, t)
    BY <1>4, <1>6, FreshTable DEF MessageOK, Premerge, RowsOK
  <1>8. /\ conn' \in [Devices -> Message] /\ conn'[d] = m
        /\ \A e \in Devices : e # d => conn'[e] = conn[e]
    BY <1>2, <1>3, <1>6 DEF WindowsInv, DataOK
  <1>9. /\ UNCHANGED <<bootVars, backend, kv, lock, acked, outrun, clock, gone>>
        /\ Up
    BY DEF Upload, winVars
  <1>a. DataOK'
    <2>1. \A e \in Devices : MessageOK(conn'[e], t)
      BY <1>7, <1>8 DEF WindowsInv, DataOK
    <2> QED BY <1>8, <1>9, <2>1 DEF WindowsInv, DataOK, ClockOK, bootVars
  <1>b. Migration'
    BY <1>9, MigrationFrame DEF WindowsInv
  <1>c. Locked'
    BY <1>6, <1>8, <1>9 DEF WindowsInv, Locked, Up, bootVars
  <1>d. NothingLost'
    <2>1. \A k \in Keys : Held(k)' = Held(k)
      BY <1>9, HeldFrame DEF WindowsInv
    <2> QED BY <1>9, <2>1 DEF WindowsInv, NothingLost, bootVars
  <1> QED BY <1>a, <1>b, <1>c, <1>d DEF WindowsInv

LEMMA StoredOverOK ==
  ASSUME WindowsAssumption, NEW t \in Int, NEW v \in Window \cup Opaque \cup {None},
         NEW w \in Window, Joins(w, t), v \in Window => Joins(v, t)
  PROVE  LET r == StoredOver(v, w) IN
         /\ r \in Window \cup Opaque /\ (r \in Window => Joins(r, t))
         /\ v # Future => r \in Window /\ Covers(r, w)
         /\ v \in Window => r \in Window /\ Covers(r, v)
         /\ v = Future => r = Future
  <1>1. Future \notin Window /\ Corrupt \notin Window /\ Future # Corrupt /\ None \notin Window
        /\ None # Future
    BY NoneFits DEF WindowsAssumption, Opaque
  <1>2. CASE v = None \/ v = Corrupt
    BY <1>1, <1>2, CoversSelf DEF StoredOver
  <1>3. CASE v = Future
    BY <1>1, <1>3 DEF StoredOver, Opaque
  <1>4. CASE v \in Window
    <2>1. v # None /\ v # Corrupt /\ v # Future
      BY <1>1, <1>4
    <2>2. CASE Same(v, Merge(v, w))
      BY <1>4, <2>1, <2>2, SameCovers, CoversSelf DEF StoredOver
    <2>3. CASE ~Same(v, Merge(v, w))
      BY <1>4, <2>1, <2>3, MergeWindow, MergeJoins, MergeCovers DEF StoredOver
    <2> QED BY <2>2, <2>3
  <1> QED BY <1>2, <1>3, <1>4 DEF Opaque

LEMMA StepFjallUpsert ==
  ASSUME WindowsAssumption, WindowsInv, NEW d \in Devices, FjallUpsert(d)
  PROVE  WindowsInv'
  <1> DEFINE t == clock - Floor
             items == conn[d].items
  <1>1. /\ UNCHANGED <<bootVars, backend, clock, lock, outrun, gone>> /\ backend = "fjall"
        /\ conn[d].st = "upsert"
    BY DEF FjallUpsert
  <1>2. PICK S \in SUBSET Sent(d) :
          /\ kv' = [k \in Keys |-> IF k \in S THEN StoredOver(kv[k], items[k]) ELSE kv[k]]
          /\ Reply(d, S = Sent(d) /\ Skipped(d) = {})
    BY DEF FjallUpsert
  <1>3. DataOK /\ t \in Int /\ KeyspaceOK(kv, t) /\ ItemsOK(items, t)
    BY DEF WindowsInv, DataOK, ClockOK, WindowsAssumption, MessageOK
  <1>4. PICK ok \in BOOLEAN : ok = (S = Sent(d) /\ Skipped(d) = {})
    OBVIOUS
  <1>5. /\ conn' \in [Devices -> Message]
        /\ \A e \in Devices : MessageOK(conn'[e], t)
        /\ conn'[d].st = "idle" /\ \A e \in Devices : e # d => conn'[e] = conn[e]
        /\ acked \subseteq acked' /\ acked' \subseteq Item
        /\ \A i \in acked' \ acked : ok /\ i.key \in Sent(d) /\ i \in items[i.key].of
    BY <1>2, <1>3, <1>4, Answered
  <1>6. ASSUME NEW k \in S
        PROVE  /\ k \in Keys /\ items[k] \in Window /\ Joins(items[k], t)
               /\ kv'[k] = StoredOver(kv[k], items[k])
               /\ kv'[k] \in Window \cup Opaque /\ (kv'[k] \in Window => Joins(kv'[k], t))
               /\ kv[k] # Future => kv'[k] \in Window /\ Covers(kv'[k], items[k])
               /\ kv[k] \in Window => kv'[k] \in Window /\ Covers(kv'[k], kv[k])
               /\ kv[k] = Future => kv'[k] = Future
    <2>1. k \in Keys /\ items[k] # None
      BY <1>6 DEF Sent
    <2>2. items[k] \in Window /\ Joins(items[k], t)
      BY <1>3, <2>1 DEF ItemsOK
    <2>3. kv[k] \in Window \cup Opaque \cup {None} /\ (kv[k] \in Window => Joins(kv[k], t))
      BY <1>3, <2>1 DEF KeyspaceOK
    <2>4. kv'[k] = StoredOver(kv[k], items[k])
      BY <1>2, <2>1
    <2> DEFINE r == StoredOver(kv[k], items[k])
    <2>5. /\ r \in Window \cup Opaque /\ (r \in Window => Joins(r, t))
          /\ kv[k] # Future => r \in Window /\ Covers(r, items[k])
          /\ kv[k] \in Window => r \in Window /\ Covers(r, kv[k])
          /\ kv[k] = Future => r = Future
      <3> HIDE DEF t
      <3> QED BY <1>3, <2>2, <2>3, StoredOverOK
    <2> QED BY <2>1, <2>2, <2>4, <2>5
  <1>7. \A k \in Keys \ S : kv'[k] = kv[k]
    BY <1>2
  <1>8. KeyspaceOK(kv', t)
    <2>1. \A k \in Keys : /\ kv'[k] \in Window \cup Opaque \cup {None}
                          /\ kv'[k] \in Window => Joins(kv'[k], t)
      <3> TAKE k \in Keys
      <3>1. CASE k \in S
        BY <1>6, <3>1
      <3>2. CASE k \notin S
        BY <1>3, <1>7, <3>2 DEF KeyspaceOK
      <3> QED BY <3>1, <3>2
    <2> QED BY <1>2, <2>1 DEF KeyspaceOK
  <1>9. DataOK'
    BY <1>1, <1>3, <1>5, <1>8 DEF DataOK, ClockOK, bootVars
  <1>a. Migration'
    BY <1>1, MigrationFrame DEF WindowsInv
  <1>b. Locked'
    BY <1>1, <1>5 DEF WindowsInv, Locked, bootVars
  <1>c. NothingLost'
    <2> SUFFICES ASSUME ~gone, NEW k \in Keys
                 PROVE  Keeps(k, Held(k)', t, inherited, acked', outrun)
      BY <1>1 DEF NothingLost, bootVars
    <2> DEFINE v == Held(k)
               w == IF kv'[k] \in Opaque THEN None ELSE kv'[k]
    <2>1. Held(k)' = w
      BY <1>1 DEF Held
    <2>2. v = IF kv[k] \in Opaque THEN None ELSE kv[k]
      BY <1>1 DEF Held
    <2>3. /\ kv[k] \in Window \cup Opaque \cup {None}
          /\ kv'[k] \in Window \cup Opaque \cup {None}
          /\ Window \cap Opaque = {} /\ Future \in Opaque /\ None \notin Window
      BY <1>3, <1>8, NoneFits DEF KeyspaceOK, WindowsAssumption, Opaque
    <2>4. v \in Window \cup {None} /\ w \in Window \cup {None}
      BY <2>2, <2>3
    <2>5. v # None => w # None /\ Covers(w, v)
      <3>1. ASSUME v # None PROVE v = kv[k] /\ v \in Window
        BY <2>2, <2>4, <3>1
      <3>2. CASE k \in S
        BY <1>6, <2>3, <3>1, <3>2
      <3>3. CASE k \notin S
        BY <1>7, <2>2, <2>3, <3>1, <3>3, CoversSelf
      <3> QED BY <3>2, <3>3
    <2>6. ASSUME NEW i \in acked' \ acked, i.key = k PROVE w # None /\ Shows(w, i)
      <3>1. ok /\ k \in Sent(d) /\ i \in items[k].of
        BY <1>5, <2>6
      <3>2. k \in S /\ kv[k] # Future
        BY <1>4, <3>1 DEF Skipped
      <3>3. /\ kv'[k] \in Window /\ Covers(kv'[k], items[k])
            /\ items[k] \in Window /\ Joins(items[k], t)
        BY <1>6, <3>2
      <3>4. Shows(kv'[k], i)
        BY <1>3, <3>1, <3>3, CoveredShows
      <3> QED BY <2>3, <3>3, <3>4
    <2>7. Keeps(k, v, t, inherited, acked, outrun)
      BY DEF WindowsInv, NothingLost
    <2> HIDE DEF v, w, t
    <2>8. Keeps(k, w, t, inherited, acked', outrun)
      <3>1. acked \subseteq Item
        BY <1>3 DEF DataOK
      <3>2. \A i \in acked' \ acked : i.key = k /\ k \notin outrun => w # None /\ Shows(w, i)
        BY <2>6
      <3>3. t \in Int
        BY <1>3
      <3> QED BY <2>4, <2>5, <2>7, <3>1, <3>2, <3>3, KeepsMore
    <2> QED BY <2>1, <2>8
  <1> QED BY <1>9, <1>a, <1>b, <1>c DEF WindowsInv
(* The table that is served, and what writing its rows leaves. *)
LEMMA LiveRows ==
  ASSUME WindowsAssumption, WindowsInv, boot = "ready"
  PROVE  /\ Exists("toki_windows") /\ tables["toki_windows"] \in Table
         /\ Served = tables["toki_windows"].rows
         /\ RowsOK(tables["toki_windows"].rows, clock - Floor)
         /\ tables["toki_windows"].rows \in Rows
  <1>1. Exists("toki_windows") /\ "toki_windows" \in Names
    BY DEF WindowsInv, Migration, Present, Names
  <1>2. tables["toki_windows"] \in Table
    BY <1>1 DEF WindowsInv, DataOK, DatabaseOK, Exists, Tables
  <1>3. RowsOK(tables["toki_windows"].rows, clock - Floor)
    BY <1>1 DEF WindowsInv, DataOK, DatabaseOK, Exists
  <1> QED BY <1>1, <1>2, <1>3 DEF Served, RowsOK

LEMMA LiveWritten ==
  ASSUME WindowsAssumption, WindowsInv, boot = "ready", NEW rows,
         RowsOK(rows, clock - Floor),
         tables' = [tables EXCEPT !["toki_windows"].rows = rows],
         UNCHANGED <<boot, inherited, lost>>
  PROVE  /\ DatabaseOK(tables', clock - Floor) /\ Migration' /\ Served' = rows
         /\ tables'["toki_windows"].rows = rows
  <1> DEFINE t == [tables["toki_windows"] EXCEPT !.rows = rows]
  <1>1. /\ Exists("toki_windows") /\ tables["toki_windows"] \in Table /\ tables \in Tables
        /\ rows \in Rows
    BY LiveRows DEF WindowsInv, DataOK, DatabaseOK, RowsOK
  <1>2. t \in Table /\ t.rows = rows /\ t.schema = tables["toki_windows"].schema /\ t # None
    BY <1>1, NoneFits DEF Table
  <1>3. tables' = [tables EXCEPT !["toki_windows"] = t]
    BY <1>1 DEF Tables, Names
  <1> HIDE DEF t
  <1>4. /\ tables' \in Tables /\ tables'["toki_windows"] = t
        /\ \A n \in Names : n # "toki_windows" => tables'[n] = tables[n]
    BY <1>1, <1>2, <1>3 DEF Tables, Names
  <1>5. DatabaseOK(tables', clock - Floor)
    BY <1>2, <1>4 DEF WindowsInv, DataOK, DatabaseOK
  <1>6. Migration'
    BY <1>1, <1>2, <1>4 DEF WindowsInv, Migration, Present, ColumnThere, CopyComplete,
                            Stages, Exists, Names
  <1> QED BY <1>2, <1>4, <1>5, <1>6 DEF Served, Exists

LEMMA StepClickHouseRead ==
  ASSUME WindowsAssumption, WindowsInv, NEW d \in Devices, ClickHouseRead(d)
  PROVE  WindowsInv'
  <1> DEFINE t == clock - Floor
             live == tables["toki_windows"].rows
  <1>1. /\ UNCHANGED <<bootVars, backend, kv, clock, outrun, gone>>
        /\ backend = "clickhouse" /\ boot = "ready" /\ conn[d].st = "upsert"
    BY DEF ClickHouseRead
  <1>2. DataOK /\ Migration /\ Locked /\ NothingLost
    BY DEF WindowsInv
  <1>3. live \in Rows /\ RowsOK(live, t)
    BY <1>1, LiveRows
  <1>4. Migration' /\ \A k \in Keys : Held(k)' = Held(k)
    BY <1>1, <1>2, MigrationFrame, HeldFrame
  <1>5. CASE Reply(d, TRUE) /\ lock' = lock /\ Sent(d) = {}
    <2>1. /\ conn' \in [Devices -> Message]
          /\ \A e \in Devices : MessageOK(conn'[e], t)
          /\ conn'[d].st = "idle" /\ \A e \in Devices : e # d => conn'[e] = conn[e]
          /\ acked \subseteq acked' /\ acked' \subseteq Item
          /\ \A i \in acked' \ acked : i.key \in Sent(d)
      BY <1>2, <1>5, Answered
    <2>2. acked' = acked
      BY <1>5, <2>1
    <2>3. DataOK'
      BY <1>1, <1>2, <2>1 DEF DataOK, ClockOK, bootVars
    <2>4. Locked'
      BY <1>1, <1>2, <1>5, <2>1 DEF Locked, bootVars
    <2>5. NothingLost'
      BY <1>1, <1>2, <1>4, <2>2 DEF NothingLost, bootVars
    <2> QED BY <1>4, <2>3, <2>4, <2>5 DEF WindowsInv
  <1>6. CASE /\ Sent(d) # {} /\ Acquire(d) /\ lock' = d
             /\ conn' = [conn EXCEPT ![d].st = "insert", ![d].base = live]
             /\ UNCHANGED acked
    <2> DEFINE m == [conn[d] EXCEPT !.st = "insert", !.base = live]
    <2>1. conn[d] \in Message /\ MessageOK(conn[d], t)
      BY <1>2 DEF DataOK
    <2>2. m \in Message /\ m.st = "insert" /\ m.base = live /\ m.items = conn[d].items
      BY <1>3, <2>1 DEF Message
    <2>3. conn' = [conn EXCEPT ![d] = m]
      BY <1>2, <1>6 DEF DataOK
    <2> HIDE DEF m
    <2>4. /\ conn' \in [Devices -> Message] /\ conn'[d] = m
          /\ \A e \in Devices : e # d => conn'[e] = conn[e]
      BY <1>2, <2>2, <2>3 DEF DataOK
    <2>5. MessageOK(m, t)
      BY <1>3, <2>1, <2>2 DEF MessageOK
    <2>6. \A e \in Devices : MessageOK(conn'[e], t)
      BY <1>2, <2>4, <2>5 DEF DataOK
    <2>7. DataOK'
      BY <1>1, <1>2, <1>6, <2>4, <2>6 DEF DataOK, ClockOK, bootVars
    <2>8. \A e \in Devices : e # d => conn'[e].st # "insert"
      BY <1>2, <1>6, <2>4, NoneFits DEF Locked, Acquire
    <2>9. StillThere(m.base, tables, t)
      BY <2>2 DEF StillThere
    <2>a. Locked'
      <3>1. \A e \in Devices : conn'[e].st = "insert" => e = d
        BY <2>8
      <3>2. StillThere(conn'[d].base, tables', clock' - Floor)
        BY <1>1, <2>4, <2>9 DEF bootVars
      <3> QED BY <1>1, <1>6, <3>1, <3>2 DEF Locked, bootVars
    <2>b. NothingLost'
      BY <1>1, <1>2, <1>4, <1>6 DEF NothingLost, bootVars
    <2> QED BY <1>4, <2>7, <2>a, <2>b DEF WindowsInv
  <1> QED BY <1>5, <1>6 DEF ClickHouseRead

(* What the rows to insert are, and what they cover. *)
LEMMA MergedRows ==
  ASSUME WindowsAssumption, WindowsInv, NEW d \in Devices
  PROVE  LET rows == Merged(d)  base == conn[d].base  items == conn[d].items IN
         /\ DOMAIN rows \subseteq Sent(d)
         /\ \A k \in DOMAIN rows :
              /\ rows[k] \in Window /\ Joins(rows[k], clock - Floor)
              /\ Covers(rows[k], items[k])
              /\ base[k] # None => Covers(rows[k], base[k].w)
         /\ \A k \in Sent(d) \ DOMAIN rows :
              base[k] # None /\ Covers(base[k].w, items[k])
         /\ \A k \in Sent(d) : /\ k \in Keys /\ items[k] \in Window
                               /\ Joins(items[k], clock - Floor)
  <1> DEFINE rows == Merged(d)
             base == conn[d].base
             items == conn[d].items
             t == clock - Floor
             row(k) == IF base[k] = None THEN items[k] ELSE Merge(base[k].w, items[k])
  <1>1. ItemsOK(items, t) /\ RowsOK(base, t) /\ t \in Int
    BY DEF WindowsInv, DataOK, MessageOK, ClockOK, WindowsAssumption
  <1>2. rows = [k \in {j \in Sent(d) : base[j] = None \/ ~Same(base[j].w, row(j))} |-> row(k)]
    BY DEF Merged
  <1>3. ASSUME NEW k \in Sent(d)
        PROVE  /\ k \in Keys /\ items[k] \in Window /\ Joins(items[k], t)
               /\ base[k] # None => base[k].w \in Window /\ Joins(base[k].w, t)
    BY <1>1 DEF Sent, ItemsOK, RowsOK, Rows, Row
  <1> HIDE DEF t, base, items
  <1>4. ASSUME NEW k \in Sent(d)
        PROVE  /\ row(k) \in Window /\ Joins(row(k), t) /\ Covers(row(k), items[k])
               /\ base[k] # None => Covers(row(k), base[k].w)
    <2>1. CASE base[k] = None
      BY <1>3, <2>1, CoversSelf
    <2>2. CASE base[k] # None
      BY <1>1, <1>3, <2>2, MergeWindow, MergeJoins, MergeCovers
    <2> QED BY <2>1, <2>2
  <1>5. /\ DOMAIN rows \subseteq Sent(d) /\ \A k \in DOMAIN rows : rows[k] = row(k)
        /\ \A k \in Sent(d) \ DOMAIN rows : base[k] # None /\ Same(base[k].w, row(k))
    BY <1>2
  <1>6. ASSUME NEW k \in Sent(d) \ DOMAIN rows
        PROVE  base[k] # None /\ Covers(base[k].w, items[k])
    <2>1. base[k] # None /\ row(k) = Merge(base[k].w, items[k])
      BY <1>5
    <2>2. Same(base[k].w, Merge(base[k].w, items[k]))
      BY <1>5, <2>1
    <2> QED BY <1>3, <2>1, <2>2, SameCovers
  <1> HIDE DEF row, rows
  <1>7. \A k \in DOMAIN rows :
          /\ rows[k] \in Window /\ Joins(rows[k], t) /\ Covers(rows[k], items[k])
          /\ base[k] # None => Covers(rows[k], base[k].w)
    BY <1>4, <1>5
  <1> QED BY <1>3, <1>5, <1>6, <1>7 DEF rows, t, base, items
LEMMA StepClickHouseInsert ==
  ASSUME WindowsAssumption, WindowsInv, NEW d \in Devices, ClickHouseInsert(d)
  PROVE  WindowsInv'
  <1> DEFINE t == clock - Floor
             live == tables["toki_windows"].rows
             rows == Merged(d)
             base == conn[d].base
             items == conn[d].items
  <1>1. /\ UNCHANGED <<boot, inherited, lost, backend, kv, clock, gone>>
        /\ backend = "clickhouse" /\ boot = "ready" /\ conn[d].st = "insert" /\ lock' = None
    BY DEF ClickHouseInsert
  <1>2. DataOK /\ Migration /\ Locked /\ NothingLost
    BY DEF WindowsInv
  <1>3. /\ live \in Rows /\ RowsOK(live, t) /\ Served = live /\ t \in Int
        /\ clock \in Int
    BY <1>1, <1>2, LiveRows DEF DataOK, ClockOK, WindowsAssumption
  <1>4. /\ DOMAIN rows \subseteq Sent(d)
        /\ \A k \in DOMAIN rows :
             /\ rows[k] \in Window /\ Joins(rows[k], t)
             /\ Covers(rows[k], items[k])
             /\ base[k] # None => Covers(rows[k], base[k].w)
        /\ \A k \in Sent(d) \ DOMAIN rows :
             base[k] # None /\ Covers(base[k].w, items[k])
        /\ \A k \in Sent(d) : k \in Keys /\ items[k] \in Window /\ Joins(items[k], t)
    BY MergedRows
  <1> HIDE DEF rows
  <1>5. PICK ok \in BOOLEAN :
          /\ Reply(d, ok)
          /\ \/ tables' = Inserted(rows) /\ outrun' = outrun \cup Outrun(rows)
             \/ UNCHANGED <<tables, outrun>> /\ (ok => DOMAIN rows = {})
    BY DEF ClickHouseInsert, rows
  <1>6. /\ conn' \in [Devices -> Message]
        /\ \A e \in Devices : MessageOK(conn'[e], t)
        /\ conn'[d].st = "idle" /\ \A e \in Devices : e # d => conn'[e] = conn[e]
        /\ acked \subseteq acked' /\ acked' \subseteq Item
        /\ \A i \in acked' \ acked : ok /\ i.key \in Sent(d) /\ i \in items[i.key].of
    BY <1>2, <1>5, Answered
  <1> DEFINE next == tables'["toki_windows"].rows
  <1>7. /\ DatabaseOK(tables', t) /\ Migration' /\ Served' = next /\ next \in Rows
        /\ \A k \in Keys : \/ next[k] = live[k]
                           \/ k \in DOMAIN rows /\ next[k].w = rows[k] /\ next[k] # None
        /\ \A k \in DOMAIN rows : k \notin outrun' /\ ok =>
             next[k] # None /\ next[k].w = rows[k]
        /\ outrun \subseteq outrun'
    <2>1. CASE tables' = Inserted(rows) /\ outrun' = outrun \cup Outrun(rows)
      <3> DEFINE new == [k \in Keys |->
                   IF k \in DOMAIN rows /\ (live[k] # None => live[k].ver <= clock)
                   THEN [w |-> rows[k], ver |-> clock] ELSE live[k]]
      <3>1. tables' = [tables EXCEPT !["toki_windows"].rows = new]
        BY <2>1 DEF Inserted
      <3>2. ASSUME NEW k \in Keys
            PROVE  /\ new[k] \in Row \cup {None}
                   /\ new[k] # None => Joins(new[k].w, t)
                   /\ \/ new[k] = live[k]
                      \/ k \in DOMAIN rows /\ new[k] # None /\ new[k].w = rows[k]
                   /\ k \in DOMAIN rows /\ (live[k] # None => live[k].ver <= clock) =>
                        new[k] # None /\ new[k].w = rows[k]
        <4>1. CASE k \in DOMAIN rows /\ (live[k] # None => live[k].ver <= clock)
          <5> DEFINE r == [w |-> rows[k], ver |-> clock]
          <5>1. new[k] = r
            BY <4>1
          <5>2. r \in Row /\ r.w = rows[k] /\ r # None
            BY <1>3, <1>4, <4>1, NoneFits DEF Row
          <5> HIDE DEF r, new
          <5> QED BY <1>4, <4>1, <5>1, <5>2
        <4>2. CASE ~(k \in DOMAIN rows /\ (live[k] # None => live[k].ver <= clock))
          <5>1. new[k] = live[k]
            BY <4>2
          <5> HIDE DEF new
          <5> QED BY <1>3, <4>2, <5>1 DEF RowsOK, Rows
        <4> QED BY <4>1, <4>2
      <3>3. RowsOK(new, t)
        <4>1. new \in Rows
          BY <3>2 DEF Rows
        <4> HIDE DEF new
        <4> QED BY <3>2, <4>1 DEF RowsOK
      <3> HIDE DEF new, live
      <3>4. /\ DatabaseOK(tables', t) /\ Migration' /\ Served' = new /\ next = new
        BY <1>1, <3>1, <3>3, LiveWritten
      <3>5. ASSUME NEW k \in DOMAIN rows, k \notin outrun'
            PROVE  new[k] # None /\ new[k].w = rows[k]
        <4>1. live[k] \in Row \cup {None} /\ k \in Keys
          BY <1>3, <1>4 DEF Rows
        <4>2. live[k] # None => ~(live[k].ver > clock)
          BY <2>1, <3>5 DEF Outrun, live
        <4>3. live[k] # None => live[k].ver <= clock
          BY <1>3, <4>1, <4>2 DEF Row
        <4> QED BY <3>2, <4>1, <4>3
      <3> QED BY <2>1, <3>2, <3>3, <3>4, <3>5 DEF RowsOK
    <2>2. CASE UNCHANGED <<tables, outrun>> /\ (ok => DOMAIN rows = {})
      <3>1. DatabaseOK(tables', t)
        BY <1>2, <2>2 DEF DataOK
      <3>2. Migration' /\ Served' = Served
        BY <1>1, <1>2, <2>2 DEF Migration, Present, ColumnThere, CopyComplete, Stages,
                                Exists, Served
      <3> QED BY <1>3, <2>2, <3>1, <3>2
    <2> QED BY <1>5, <2>1, <2>2
  <1>8. DataOK'
    BY <1>1, <1>2, <1>6, <1>7 DEF DataOK, ClockOK
  <1>9. Locked'
    <2>1. lock = d /\ d # None
      BY <1>1, <1>2, NoneFits DEF Locked
    <2>2. \A e \in Devices : conn'[e].st # "insert"
      BY <1>2, <1>6, <2>1 DEF Locked
    <2> QED BY <1>1, <1>2, <1>6, <2>2 DEF Locked
  <1>a. NothingLost'
    <2> SUFFICES ASSUME ~gone, NEW k \in Keys
                 PROVE  Keeps(k, Held(k)', t, inherited, acked', outrun')
      BY <1>1 DEF NothingLost
    <2> DEFINE v == Held(k)
               w == IF next[k] = None THEN None ELSE next[k].w
    <2>1. v = IF live[k] = None THEN None ELSE live[k].w
      BY <1>1, <1>3 DEF Held
    <2>2. Held(k)' = w
      BY <1>1, <1>7 DEF Held
    <2>3. live[k] \in Row \cup {None} /\ next[k] \in Row \cup {None}
      BY <1>3, <1>7 DEF Rows
    <2>4. v \in Window \cup {None} /\ w \in Window \cup {None}
      BY <2>1, <2>3 DEF Row
    <2>5. k >= t => base[k] = live[k]
      BY <1>1, <1>2 DEF Locked, StillThere
    <2>6. k >= t /\ v # None => w # None /\ Covers(w, v)
      <3>1. SUFFICES ASSUME k >= t, v # None PROVE w # None /\ Covers(w, v)
        OBVIOUS
      <3>2. live[k] # None /\ v = live[k].w /\ v \in Window /\ base[k] = live[k]
        BY <2>1, <2>4, <2>5, <3>1
      <3>3. CASE next[k] = live[k]
        BY <3>2, <3>3, CoversSelf, NoneFits
      <3>4. CASE k \in DOMAIN rows /\ next[k].w = rows[k] /\ next[k] # None
        BY <1>4, <3>2, <3>4, NoneFits
      <3> QED BY <1>7, <3>3, <3>4
    <2>7. ASSUME k >= t, NEW i \in acked' \ acked, i.key = k, k \notin outrun'
          PROVE  w # None /\ Shows(w, i)
      <3>1. ok /\ k \in Sent(d) /\ i \in items[k].of
        BY <1>6, <2>7
      <3>2. items[k] \in Window /\ Joins(items[k], t)
        BY <1>4, <3>1
      <3>3. w \in Window /\ Covers(w, items[k])
        <4>1. CASE k \in DOMAIN rows
          <5>1. w = rows[k]
            BY <1>7, <2>7, <3>1, <4>1
          <5> QED BY <1>4, <4>1, <5>1
        <4>2. CASE k \notin DOMAIN rows
          <5>1. base[k] # None /\ Covers(base[k].w, items[k]) /\ base[k] = live[k]
            BY <1>4, <2>5, <2>7, <3>1, <4>2
          <5>2. next[k] = live[k]
            BY <1>7, <4>2
          <5>3. w = live[k].w /\ w \in Window
            BY <2>3, <5>1, <5>2 DEF Row
          <5> QED BY <5>1, <5>3
        <4> QED BY <4>1, <4>2
      <3>4. Shows(w, i)
        BY <1>3, <3>1, <3>2, <3>3, CoveredShows
      <3> QED BY <3>3, <3>4, NoneFits
    <2>8. Keeps(k, v, t, inherited, acked, outrun)
      BY <1>2 DEF NothingLost
    <2> HIDE DEF v, w, t
    <2>9. Keeps(k, w, t, inherited, acked', outrun')
      <3>1. acked \subseteq Item /\ outrun \subseteq outrun' /\ t \in Int
        BY <1>2, <1>3, <1>7 DEF DataOK
      <3>2. k >= t => \A i \in acked' \ acked : i.key = k /\ k \notin outrun'
                                                 => w # None /\ Shows(w, i)
        BY <2>7
      <3> QED BY <2>4, <2>6, <2>8, <3>1, <3>2, KeepsMore
    <2> QED BY <2>2, <2>9
  <1> QED BY <1>7, <1>8, <1>9, <1>a DEF WindowsInv
-----------------------------------------------------------------------------
(* Retention, deletion, time and restarts                                    *)

LEMMA WipedOK ==
  ASSUME WindowsAssumption, WindowsInv, Up, NEW S \in SUBSET Keys, Wiped(S),
         UNCHANGED <<boot, inherited, lost, backend, clock>>
  PROVE  /\ DatabaseOK(tables', clock - Floor) /\ KeyspaceOK(kv', clock - Floor)
         /\ Migration' /\ \A k \in Keys \ S : Held(k)' = Held(k)
         /\ backend = "clickhouse" => \A k \in Keys \ S :
              tables'["toki_windows"].rows[k] = tables["toki_windows"].rows[k]
  <1> DEFINE t == clock - Floor
  <1>1. DatabaseOK(tables, t) /\ KeyspaceOK(kv, t) /\ Migration
    BY DEF WindowsInv, DataOK
  <1>2. CASE backend = "fjall"
    <2>1. /\ kv' = [k \in Keys |-> IF k \in S THEN None ELSE kv[k]]
          /\ UNCHANGED tables
      BY <1>2 DEF Wiped
    <2>2. \A k \in Keys : kv'[k] = IF k \in S THEN None ELSE kv[k]
      BY <2>1
    <2>3. KeyspaceOK(kv', t)
      <3>1. kv' \in [Keys -> Window \cup Opaque \cup {None}]
        BY <1>1, <2>1 DEF KeyspaceOK
      <3> QED BY <1>1, <2>2, <3>1, NoneFits DEF KeyspaceOK
    <2>4. Migration'
      BY <1>1, <2>1 DEF Migration, Present, ColumnThere, CopyComplete, Stages, Exists
    <2>5. \A k \in Keys \ S : Held(k)' = Held(k)
      BY <1>2, <2>2 DEF Held
    <2> QED BY <1>1, <1>2, <2>1, <2>3, <2>4, <2>5
  <1>3. CASE backend # "fjall"
    <2> DEFINE live == tables["toki_windows"].rows
               new == [k \in Keys |-> IF k \in S THEN None ELSE live[k]]
    <2>1. boot = "ready" /\ kv' = kv /\ tables' = [tables EXCEPT !["toki_windows"].rows = new]
      BY <1>3 DEF Wiped, Up
    <2>2. live \in Rows /\ RowsOK(live, t) /\ Served = live
      BY <2>1, LiveRows
    <2>3. \A k \in Keys : new[k] = IF k \in S THEN None ELSE live[k]
      OBVIOUS
    <2>4. new \in Rows
      BY <2>2 DEF Rows
    <2> HIDE DEF new
    <2>5. RowsOK(new, t)
      BY <2>2, <2>3, <2>4 DEF RowsOK
    <2>6. /\ DatabaseOK(tables', t) /\ Migration' /\ Served' = new
          /\ tables'["toki_windows"].rows = new
      BY <2>1, <2>5, LiveWritten
    <2>7. \A k \in Keys \ S : Held(k)' = Held(k)
      BY <1>3, <2>2, <2>3, <2>6 DEF Held
    <2> QED BY <1>1, <2>1, <2>3, <2>6, <2>7
  <1> QED BY <1>2, <1>3

LEMMA StepCleanup ==
  ASSUME WindowsAssumption, WindowsInv, CleanupOldWindows
  PROVE  WindowsInv'
  <1> DEFINE t == clock - Floor
  <1>1. /\ UNCHANGED <<boot, inherited, lost, backend, lock, acked, outrun, clock, conn, gone>>
        /\ Up
    BY DEF CleanupOldWindows
  <1>2. PICK S \in SUBSET {k \in Keys : k < t} : Wiped(S)
    BY DEF CleanupOldWindows
  <1>3. S \in SUBSET Keys /\ t \in Int /\ Keys \subseteq Int
    BY DEF WindowsInv, DataOK, ClockOK, WindowsAssumption
  <1>4. /\ DatabaseOK(tables', t) /\ KeyspaceOK(kv', t)
        /\ Migration' /\ \A k \in Keys \ S : Held(k)' = Held(k)
        /\ backend = "clickhouse" => \A k \in Keys \ S :
             tables'["toki_windows"].rows[k] = tables["toki_windows"].rows[k]
    BY <1>1, <1>2, <1>3, WipedOK
  <1>5. \A k \in Keys : k >= t => k \notin S
    BY <1>2, <1>3
  <1>6. DataOK'
    BY <1>1, <1>4 DEF WindowsInv, DataOK, ClockOK
  <1>7. Locked'
    <2>1. ASSUME NEW d \in Devices, conn[d].st = "insert", ~gone
          PROVE  StillThere(conn[d].base, tables', t)
      <3>1. backend = "clickhouse" /\ StillThere(conn[d].base, tables, t)
        BY <2>1 DEF WindowsInv, Locked
      <3> QED BY <1>4, <1>5, <3>1 DEF StillThere
    <2> QED BY <1>1, <2>1 DEF WindowsInv, Locked
  <1>8. NothingLost'
    <2> SUFFICES ASSUME ~gone, NEW k \in Keys
                 PROVE  Keeps(k, Held(k)', t, inherited, acked, outrun)
      BY <1>1 DEF NothingLost
    <2>1. CASE k >= t
      BY <1>4, <1>5, <2>1 DEF WindowsInv, NothingLost
    <2>2. CASE ~(k >= t)
      BY <2>2 DEF Keeps
    <2> QED BY <2>1, <2>2
  <1> QED BY <1>4, <1>6, <1>7, <1>8 DEF WindowsInv

LEMMA StepDelete ==
  ASSUME WindowsAssumption, WindowsInv, DeleteUserWindows
  PROVE  WindowsInv'
  <1> DEFINE t == clock - Floor
  <1>1. /\ UNCHANGED <<boot, inherited, lost, backend, lock, acked, outrun, clock, conn>>
        /\ Up /\ gone' = TRUE /\ Wiped(Keys)
    BY DEF DeleteUserWindows
  <1>2. /\ DatabaseOK(tables', t) /\ KeyspaceOK(kv', t) /\ Migration'
    BY <1>1, WipedOK
  <1>3. DataOK'
    BY <1>1, <1>2 DEF WindowsInv, DataOK, ClockOK
  <1>4. Locked' /\ NothingLost'
    BY <1>1 DEF WindowsInv, Locked, NothingLost
  <1> QED BY <1>2, <1>3, <1>4 DEF WindowsInv

LEMMA StepTick ==
  ASSUME WindowsAssumption, WindowsInv, Tick
  PROVE  WindowsInv'
  <1> DEFINE t == clock - Floor
             u == clock' - Floor
  <1>1. /\ UNCHANGED <<bootVars, backend, kv, lock, acked, outrun, conn, gone>>
        /\ clock' = clock + 1
    BY DEF Tick, winVars
  <1>2. /\ t \in Int /\ u \in Int /\ t <= u /\ ClockOK' /\ Keys \subseteq Int
    BY <1>1 DEF WindowsInv, DataOK, ClockOK, WindowsAssumption
  <1> HIDE DEF t, u
  <1>3. DatabaseOK(tables, u) /\ KeyspaceOK(kv, u) /\ \A d \in Devices : MessageOK(conn[d], u)
    <2>1. DatabaseOK(tables, t) /\ KeyspaceOK(kv, t)
          /\ \A d \in Devices : MessageOK(conn[d], t)
      BY DEF WindowsInv, DataOK, t
    <2> QED BY <1>2, <2>1, DatabaseLater, KeyspaceLater, MessageLater
  <1>4. DataOK'
    BY <1>1, <1>2, <1>3 DEF WindowsInv, DataOK, bootVars, u
  <1>5. Migration' /\ \A k \in Keys : Held(k)' = Held(k)
    BY <1>1, MigrationFrame, HeldFrame DEF WindowsInv
  <1>6. Locked'
    <2>1. ASSUME NEW d \in Devices, conn[d].st = "insert", ~gone
          PROVE  StillThere(conn[d].base, tables, u)
      <3>1. StillThere(conn[d].base, tables, t)
        BY <2>1 DEF WindowsInv, Locked, t
      <3> QED BY <1>2, <3>1 DEF StillThere
    <2> QED BY <1>1, <2>1 DEF WindowsInv, Locked, bootVars, u
  <1>7. NothingLost'
    <2> SUFFICES ASSUME ~gone, NEW k \in Keys
                 PROVE  Keeps(k, Held(k)', u, inherited, acked, outrun)
      BY <1>1 DEF NothingLost, bootVars, u
    <2>1. Keeps(k, Held(k)', t, inherited, acked, outrun)
      BY <1>5 DEF WindowsInv, NothingLost, t
    <2> QED BY <1>2, <2>1, KeepsLater
  <1> QED BY <1>4, <1>5, <1>6, <1>7 DEF WindowsInv

LEMMA StepStartup ==
  ASSUME WindowsAssumption, WindowsInv, Startup
  PROVE  WindowsInv'
  <1> DEFINE t == clock - Floor
  <1>1. /\ UNCHANGED <<backend, kv, lock, acked, outrun, clock, conn, gone>>
        /\ backend = "clickhouse" /\ BootStep
    BY DEF Startup, winVars
  <1>2. TablesTyped /\ Migration
    BY DEF WindowsInv, DataOK, DatabaseOK, Tables, TablesTyped
  <1>3. /\ Migration' /\ TablesTyped' /\ Served' = Served /\ FromTables(tables')
        /\ inherited' = inherited
    BY <1>1, <1>2, MigrationStep
  <1>4. boot # "ready"
    BY <1>1 DEF BootStep, Start, Recover, CreateTable, CheckColumn, DropStale, CreateV2,
                CopyRows, ExchangeTables, RenameOld, RenameNew, DropOld, DropDone
  <1>5. DatabaseOK(tables', t)
    <2>1. tables' \in Tables
      BY <1>3 DEF TablesTyped, Tables
    <2>2. ASSUME NEW n \in Names, tables'[n] # None PROVE RowsOK(tables'[n].rows, t)
      <3>1. tables'[n].rows \in Rows
        BY <2>1, <2>2 DEF Tables, Table
      <3>2. ASSUME NEW k \in Keys, tables'[n].rows[k] # None
            PROVE  Joins(tables'[n].rows[k].w, t)
        <4>1. PICK m \in Names : tables[m] # None /\ tables[m].rows[k] = tables'[n].rows[k]
          BY <1>3, <2>2, <3>2 DEF FromTables
        <4> QED BY <3>2, <4>1 DEF WindowsInv, DataOK, DatabaseOK, RowsOK
      <3> QED BY <3>1, <3>2 DEF RowsOK
    <2> QED BY <2>1, <2>2 DEF DatabaseOK
  <1>6. DataOK'
    BY <1>1, <1>5 DEF WindowsInv, DataOK, ClockOK
  <1>7. Locked'
    BY <1>1, <1>4 DEF WindowsInv, Locked, DataOK, Message
  <1>8. NothingLost'
    <2>1. \A k \in Keys : Held(k)' = Held(k)
      BY <1>1, <1>3 DEF Held
    <2> QED BY <1>1, <1>3, <2>1 DEF WindowsInv, NothingLost
  <1> QED BY <1>3, <1>6, <1>7, <1>8 DEF WindowsInv

LEMMA StepCrash ==
  ASSUME WindowsAssumption, WindowsInv, CrashAll
  PROVE  WindowsInv'
  <1> DEFINE t == clock - Floor
  <1>1. /\ UNCHANGED <<tables, inherited, lost, backend, kv, acked, outrun, clock, gone>>
        /\ boot' = "down" /\ boot = "ready" /\ lock' = None
        /\ conn' = [d \in Devices |-> NoMessage]
    BY DEF CrashAll, Crash
  <1>2. \A d \in Devices : conn'[d] = NoMessage
    BY <1>1
  <1>3. t \in Int
    BY DEF WindowsInv, DataOK, ClockOK, WindowsAssumption
  <1>4. MessageOK(NoMessage, t) /\ NoMessage.st = "idle" /\ NoMessage \in Message
    BY <1>3, IdleMessage DEF MessageOK
  <1>5. DataOK'
    BY <1>1, <1>2, <1>4 DEF WindowsInv, DataOK, ClockOK
  <1>6. Migration' /\ Served' = Served
    BY <1>1 DEF WindowsInv, Migration, Present, ColumnThere, CopyComplete, Stages, Exists,
                Served, Names
  <1>7. Locked'
    BY <1>1, <1>2, <1>4 DEF Locked
  <1>8. NothingLost'
    <2>1. \A k \in Keys : Held(k)' = Held(k)
      BY <1>1, <1>6 DEF Held
    <2> QED BY <1>1, <2>1 DEF WindowsInv, NothingLost
  <1> QED BY <1>5, <1>6, <1>7, <1>8 DEF WindowsInv

LEMMA InvStutter == WindowsInv /\ UNCHANGED vars => WindowsInv'
  <1> SUFFICES ASSUME WindowsInv, UNCHANGED vars PROVE WindowsInv'
    OBVIOUS
  <1>1. UNCHANGED <<bootVars, backend, kv, lock, acked, outrun, clock, conn, gone>>
    BY DEF vars, winVars
  <1>2. Migration' /\ \A k \in Keys : Held(k)' = Held(k)
    BY <1>1, MigrationFrame, HeldFrame DEF WindowsInv
  <1>3. DataOK' /\ Locked'
    BY <1>1 DEF WindowsInv, DataOK, Locked, ClockOK, bootVars
  <1>4. NothingLost'
    BY <1>1, <1>2 DEF WindowsInv, NothingLost, bootVars
  <1> QED BY <1>2, <1>3, <1>4 DEF WindowsInv

(* The invariant of the handler, the start-up and the upkeep together. *)
THEOREM WindowsInvariant == Spec => []WindowsInv
  <1>1. Init => WindowsInv
    BY WindowsAssumption, InvInit
  <1>2. WindowsInv /\ [Next]_vars => WindowsInv'
    <2> SUFFICES ASSUME WindowsInv, [Next]_vars PROVE WindowsInv'
      OBVIOUS
    <2>1. CASE \E d \in Devices : \/ \E b \in Batches : Upload(d, b)
                                  \/ FjallUpsert(d) \/ ClickHouseRead(d) \/ ClickHouseInsert(d)
      BY <2>1, WindowsAssumption, StepUpload, StepFjallUpsert, StepClickHouseRead, StepClickHouseInsert
    <2>2. CASE CleanupOldWindows \/ DeleteUserWindows \/ Tick
      BY <2>2, WindowsAssumption, StepCleanup, StepDelete, StepTick
    <2>3. CASE Startup \/ CrashAll
      BY <2>3, WindowsAssumption, StepStartup, StepCrash
    <2>4. CASE UNCHANGED vars
      BY <2>4, InvStutter
    <2> QED BY <2>1, <2>2, <2>3, <2>4 DEF Next
  <1> QED BY <1>1, <1>2, PTL DEF Spec

(* What a query sees while the server is up is what the store holds. *)
LEMMA StoredIsHeld ==
  ASSUME WindowsAssumption, WindowsInv, Up, NEW k \in Keys
  PROVE  Stored(k) = Held(k)
  <1>1. CASE backend = "fjall"
    BY <1>1 DEF Stored, Held
  <1>2. CASE backend # "fjall"
    BY <1>2, LiveRows DEF Stored, Held, Up
  <1> QED BY <1>1, <1>2

(* An acknowledged window stays in the stored row until retention, whatever   *)
(* the other devices of the account upload, merge and lock out meanwhile,     *)
(* and whatever migration, crash or restart comes between.                    *)
THEOREM WindowsAreKept == Spec => []AckStored
  <1>1. WindowsInv => AckStored
    <2> SUFFICES ASSUME WindowsInv, Up, ~gone, NEW i \in acked, i.key >= clock - Floor,
                        i.key \notin outrun
                 PROVE  /\ Stored(i.key) # None
                        /\ Stored(i.key).peak >= i.peak /\ (i.maxed => Stored(i.key).maxed)
      BY DEF AckStored
    <2>1. i.key \in Keys
      BY DEF WindowsInv, DataOK, Item
    <2>2. Held(i.key) # None /\ Shows(Held(i.key), i)
      BY <2>1 DEF WindowsInv, NothingLost, Keeps
    <2> QED BY <2>1, <2>2, WindowsAssumption, StoredIsHeld DEF Shows
  <1> QED BY <1>1, WindowsInvariant, PTL

(* Whatever the order in which devices report, a stored row is the join of    *)
(* the items merged into it.                                                  *)
THEOREM MergesAreJoins == Spec => []MergeIsJoin
  <1>1. WindowsInv => MergeIsJoin
    <2> SUFFICES ASSUME WindowsInv, NEW k \in Keys, Stored(k) # None
                 PROVE  Joins(Stored(k), clock - Floor)
      BY DEF MergeIsJoin
    <2>1. CASE backend = "fjall"
      BY <2>1 DEF Stored, WindowsInv, DataOK, KeyspaceOK
    <2>2. CASE backend # "fjall"
      <3>1. boot = "ready" /\ tables["toki_windows"].rows[k] # None
        BY <2>2 DEF Stored
      <3> QED BY <2>2, <3>1, WindowsAssumption, LiveRows DEF Stored, RowsOK
    <2> QED BY <2>1, <2>2
  <1> QED BY <1>1, WindowsInvariant, PTL

(* The rows an earlier build collected survive every way the migration can    *)
(* be cut short: some table holds them, the live one when the server is up.   *)
THEOREM HistorySurvives == Spec => []HistoryKept
  <1>1. WindowsInv => HistoryKept
    <2> DEFINE holds(n) == tables[n] # None /\ \A k \in DOMAIN History :
                 k >= clock - Floor => /\ tables[n].rows[k] # None
                                       /\ Covers(tables[n].rows[k].w, History[k])
    <2> SUFFICES ASSUME WindowsInv, backend = "clickhouse", inherited, ~gone
                 PROVE  IF boot = "ready" THEN holds("toki_windows")
                        ELSE \E n \in Names : holds(n)
      BY DEF HistoryKept
    <2>1. ASSUME NEW k \in DOMAIN History, k >= clock - Floor
          PROVE  Served[k] # None /\ Covers(Served[k].w, History[k])
      <3>1. k \in Keys
        BY WindowsAssumption DEF WindowsAssumption
      <3>2. Held(k) # None /\ Covers(Held(k), History[k])
        BY <2>1, <3>1 DEF WindowsInv, NothingLost, Keeps
      <3> QED BY <3>2 DEF Held
    <2>2. PICK n \in Names : tables[n] # None /\ tables[n].rows = Served
                             /\ (boot = "ready" => n = "toki_windows")
      BY DEF WindowsInv, Migration, Present, Exists, Served, Names
    <2> QED BY <2>1, <2>2
  <1> QED BY <1>1, WindowsInvariant, PTL

(* Once the server is up its table has the column that uploads need, unless   *)
(* an EXCHANGE was carried out whose reply was lost.                          *)
THEOREM TableIsUsable == Spec => []ReadyUsable
  <1>1. WindowsInv => ReadyUsable
    BY DEF WindowsInv, Migration, ColumnThere, ReadyUsable
  <1> QED BY <1>1, WindowsInvariant, PTL
=============================================================================
